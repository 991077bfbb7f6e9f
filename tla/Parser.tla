------------------------------- MODULE Parser --------------------------------
(***************************************************************************)
(* Parser.ReadMessage (src/protocol/parser/parser.go): one line from the   *)
(* ConnReader, then ParseMessage on a MessageReader reset to that line.    *)
(* The framer keeps its ReadSlice steps (module ConnReader); the call that *)
(* returns from ReadMessageLine also runs the synchronous parse and hands  *)
(* the (Message, error) pair to the caller, recorded in `out`.             *)
(***************************************************************************)
EXTENDS ConnReader

VARIABLE out   \* what the ReadMessage calls so far returned, in order

pvars == <<vars, out>>

\* The parser and the lexer, for their operators only.
P == INSTANCE Parse WITH Lines <- {}, line <- <<>>, parsed <- FALSE,
                         result <- "none"
L == INSTANCE Lexer WITH Lines <- {}, s <- <<>>,
                         offset <- 0, emitted <- <<>>, result <- "none"

(***************************************************************************)
(* m.Reset(line); ParseMessage(&m): the MessageReader's lexer yields the   *)
(* space-separated tokens of the line (module Lexer, lexer_pushback).      *)
(***************************************************************************)
ParseBytes(line) == P!ParseMessage(L!Tokens(line))

\* ReadMessage's result for the call that ended with ReadMessageLine's l:
\* the zero Message and l's error, or what ParseMessage returned.
ReadMessageResult(l) ==
  IF l.err # "nil" THEN [err |-> l.err, msg |-> P!ZeroMessage]
  ELSE ParseBytes(l.line)

(***************************************************************************)
(* A framer step of ReadMessage; on the step where ReadMessageLine         *)
(* returns, the rest of ReadMessage runs too.                              *)
(***************************************************************************)
ReadMessage(S) ==
  /\ Step(S)
  /\ IF pc' = "idle" THEN out' = Append(out, ReadMessageResult(last'))
                     ELSE UNCHANGED out

PInit == Init /\ out = <<>>

PNext == ReadMessage(ReadSlice) \/ (Stop /\ UNCHANGED out)

PSpec == PInit /\ [][PNext]_pvars /\ WF_pvars(ReadMessage(HealthyRead))

-----------------------------------------------------------------------------
\* The complete lines of the stream, without their eol.
EolAt == SelectSeq([i \in 1 .. Len(stream) |-> i], LAMBDA i : stream[i] = EOL)

CompleteLines ==
  [j \in 1 .. Len(EolAt) |->
     SubSeq(stream, IF j = 1 THEN 1 ELSE EolAt[j - 1] + 1, EolAt[j] - 1)]

(***************************************************************************)
(* Refinement mapping: the lines consumed are those whose eol lies before  *)
(* the reader position; during a call, the position at its start.          *)
(***************************************************************************)
Stream == INSTANCE MessageStream
            WITH ParseOf <- ParseBytes, lines <- CompleteLines,
                 next <- EolCount(SubSeq(stream, 1,
                                         IF pc = "idle" THEN pos ELSE from))

(***************************************************************************)
(* ReadMessage delivers the messages of the stream in order: every message *)
(* returned without error is the parse of the line right after the lines  *)
(* consumed by earlier calls, however the framer got there (a discarded    *)
(* line, a read error or EOF in the middle of a line); only failing calls *)
(* may skip lines.                                                         *)
(***************************************************************************)
MessagesInStreamOrder == Stream!Spec
=============================================================================
