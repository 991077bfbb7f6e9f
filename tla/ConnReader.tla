----------------------------- MODULE ConnReader -----------------------------
(***************************************************************************)
(* The line framer ConnReader.ReadMessageLine (src/protocol/parser/        *)
(* conn_reader.go) on top of a bufio.Reader, driven by a read loop that    *)
(* calls it until it reports end of stream or a read error.                *)
(*                                                                         *)
(* Every bufio.ReadSlice call is one step: it is the only point where the  *)
(* framer waits for the transport, and a connection can break between two *)
(* of them.  A step also takes every decision the code makes on the slice  *)
(* it got, up to the next ReadSlice or the return.                         *)
(*                                                                         *)
(* The byte stream is a sequence of one-character strings; bytes are      *)
(* consumed, never rewound, so `pos` (bytes read so far) is the whole      *)
(* reader position.                                                        *)
(*                                                                         *)
(* The accumulation loop of lines 95-127 is not modelled: it is entered    *)
(* only when the first ReadSlice returns a full buffer shorter than five   *)
(* bytes, because line 81 assigns validateMessage's result to the named    *)
(* result err and so replaces ErrBufferFull by nil for any longer buffer.  *)
(* bufio buffers hold at least 16 bytes (and BufSize >= 5 here), so the    *)
(* loop never runs.                                                        *)
(***************************************************************************)
EXTENDS Message, SequencesExt, FiniteSets

CONSTANTS
  BufSize,    \* size of the bufio.Reader buffer (>= 16 in Go, >= 5 here)
  MaxLen,     \* MaxMessageLength, scaled down
  Streams,    \* the byte streams the connection may deliver
  IOFailure   \* whether the transport may fail with a non-EOF error

ASSUME BufSize >= 5 /\ MaxLen >= 1 /\ IOFailure \in BOOLEAN

VARIABLES
  stream,   \* the bytes the transport delivers, fixed per behaviour
  pos,      \* bytes consumed from the bufio.Reader
  dead,     \* the transport has failed; every later read fails too
  pc,       \* "idle" between calls, "discard" inside discardLine
  ret,      \* error ReadMessageLine returns once discardLine is done
  from,     \* position at the start of the current call (history)
  last,     \* the last completed call ("none" before the first): bytes it
            \* consumed and its result
  stopped   \* the read loop has seen io.EOF or a read error

vars == <<stream, pos, dead, pc, ret, from, last, stopped>>

Errors == {"nil", "eof", "io", "ErrMessageTooLong", "ErrInvalidMessage",
           "ErrInvalidType", "ErrInvalidCommandName"}

(***************************************************************************)
(* bufio.Reader.ReadSlice(eol) at position pos.  A healthy transport       *)
(* returns the bytes up to and including the next eol if it lies within    *)
(* one buffer, else a full buffer with ErrBufferFull ("full"), else the    *)
(* rest of the stream with io.EOF.  A failing transport returns what it    *)
(* delivered before the error (no eol, less than a buffer) with the error. *)
(***************************************************************************)
Rest == SubSeq(stream, pos + 1, Len(stream))

Delivered ==
  LET i == SelectInSeq(Rest, LAMBDA b : b = EOL)
  IN  CASE i # 0 /\ i <= BufSize -> [n |-> i, err |-> "nil"]
        [] Len(Rest) >= BufSize  -> [n |-> BufSize, err |-> "full"]
        [] OTHER                 -> [n |-> Len(Rest), err |-> "eof"]

ReadSlice ==
  IF dead THEN {[n |-> 0, err |-> "io"]}
  ELSE {Delivered} \cup
       IF IOFailure
       THEN {[n |-> k, err |-> "io"] :
               k \in 0 .. (IF Delivered.err = "eof" THEN Delivered.n
                                                   ELSE Delivered.n - 1)}
       ELSE {}

\* The bytes a ReadSlice result covers.
Slice(rs) == SubSeq(stream, pos + 1, pos + rs.n)

\* Fault variant: advance by a whole buffer instead of the bytes returned.
ConsumeAll(rs) == /\ pos' = pos + BufSize
                  /\ dead' = (dead \/ rs.err = "io")

\* Consuming them; a read error leaves the transport broken.
Consume(rs) == /\ pos' = pos + rs.n
               /\ dead' = (dead \/ rs.err = "io")

(***************************************************************************)
(* validateMessage: the first five bytes are a type tag, a command name    *)
(* (upper alpha, two upper alphanums) and a space.                         *)
(***************************************************************************)
\* Fault variant: the check of the fifth byte (the space) left out.
ValidateMessageNoSpace(buf) ==
  CASE Len(buf) < 5                   -> "ErrInvalidMessage"
    [] ParseType(buf[1]) # "ok"       -> ParseType(buf[1])
    [] ~(IsUpperAlpha(buf[2]) /\ IsUpperAlphaNum(buf[3])
         /\ IsUpperAlphaNum(buf[4]))  -> "ErrInvalidCommandName"
    [] OTHER                          -> "nil"

ValidateMessage(buf) ==
  CASE Len(buf) < 5                   -> "ErrInvalidMessage"
    [] buf[5] # SPACE                 -> "ErrInvalidMessage"
    [] ParseType(buf[1]) # "ok"       -> ParseType(buf[1])
    [] ~(IsUpperAlpha(buf[2]) /\ IsUpperAlphaNum(buf[3])
         /\ IsUpperAlphaNum(buf[4]))  -> "ErrInvalidCommandName"
    [] OTHER                          -> "nil"

\* Fault variant: the eol kept in the returned line.
LineWithEol(buf) == buf

\* string(buf[:len(buf)-1]): the line without its concluding eol.
LineOf(buf) == Front(buf)

\* ReadMessageLine returns (line, err); the read loop stops on EOF or error.
Return(line, err) ==
  /\ pc' = "idle"
  /\ last' = [from |-> from', to |-> pos', line |-> line, err |-> err]
  /\ stopped' = (err \in {"eof", "io"})
  /\ UNCHANGED ret

\* _ = c.discardLine(), then return (line "", err e).
DiscardThenReturn(e) ==
  /\ pc' = "discard"
  /\ ret' = e
  /\ UNCHANGED <<last, stopped>>

-----------------------------------------------------------------------------
Init ==
  /\ stream \in Streams
  /\ pos = 0
  /\ dead = FALSE
  /\ pc = "idle"
  /\ ret = "nil"
  /\ from = 0
  /\ last = [from |-> 0, to |-> 0, line |-> <<>>, err |-> "none"]
  /\ stopped = FALSE

(***************************************************************************)
(* ReadMessageLine: the first ReadSlice, then the read error, the length   *)
(* check and, for a slice of five bytes or more, validateMessage, whose    *)
(* result line 81 stores in err.  A slice that ended in ErrBufferFull and  *)
(* validates thus takes the fast path too: its first BufSize - 1 bytes are *)
(* returned as the line, and the reader stays inside that line.           *)
(***************************************************************************)
ReadMessageLine(rs) ==
  /\ pc = "idle"
  /\ ~stopped
  /\ from' = pos
  /\ LET buf == Slice(rs)
         err == IF Len(buf) >= 5 THEN ValidateMessage(buf) ELSE rs.err
     IN  /\ Consume(rs)
         /\ CASE rs.err = "io"      -> DiscardThenReturn("io")
              [] rs.err = "eof"     -> Return(<<>>, "eof")
              [] Len(buf) > MaxLen  -> DiscardThenReturn("ErrMessageTooLong")
              [] err # "nil"        -> DiscardThenReturn(err)
              [] OTHER              -> Return(LineOf(buf), "nil")

DiscardLine(rs) ==
  /\ pc = "discard"
  /\ UNCHANGED from
  /\ Consume(rs)
  /\ IF rs.err = "full"
       THEN UNCHANGED <<pc, ret, last, stopped>>
       ELSE Return(<<>>, ret)

\* A step of the framer on one ReadSlice result from the set S.
Step(S) ==
  /\ UNCHANGED stream
  /\ \E rs \in S :
       \/ ReadMessageLine(rs)
       \/ DiscardLine(rs)

\* The read loop has ended; the program stops here.
Stop ==
  /\ stopped /\ pc = "idle"
  /\ UNCHANGED vars

Next == Step(ReadSlice) \/ Stop

(***************************************************************************)
(* The read loop keeps calling, and a pending ReadSlice returns: weak      *)
(* fairness on the steps where the transport answers as a healthy one      *)
(* would (a broken one keeps failing).  Nothing forces a transport to     *)
(* fail, so a failure never serves to end a loop.                          *)
(***************************************************************************)
HealthyRead == IF dead THEN ReadSlice ELSE {Delivered}

Spec == Init /\ [][Next]_vars /\ WF_vars(Step(HealthyRead))

-----------------------------------------------------------------------------
(***************************************************************************)
(* Properties.                                                             *)
(***************************************************************************)
TypeOK ==
  /\ pos \in 0 .. Len(stream)
  /\ dead \in BOOLEAN
  /\ pc \in {"idle", "discard"}
  /\ ret \in Errors
  /\ from \in 0 .. pos
  /\ last.err \in Errors \cup {"none"}
  /\ stopped \in BOOLEAN

\* The bytes the last completed call consumed.
Consumed == SubSeq(stream, last.from + 1, last.to)

EolCount(s) == Cardinality({i \in DOMAIN s : s[i] = EOL})

(***************************************************************************)
(* "Exactly one line is read in all cases" (ReadMessageLine's comment):    *)
(* every call that does not end in EOF or a read error consumed exactly    *)
(* one line, through its eol, so no line is merged into or lost behind     *)
(* another, whether the call returned the line or discarded it.          *)
(***************************************************************************)
OneLinePerCall ==
  last.err \notin {"none", "eof", "io"} =>
    /\ EolCount(Consumed) = 1
    /\ Last(Consumed) = EOL

(***************************************************************************)
(* Fail-fast validation: a line of five or more bytes is returned only if  *)
(* its prefix is a type tag, a command name and a space.                   *)
(***************************************************************************)
ReturnedPrefixValid ==
  (last.err = "nil" /\ Len(last.line) >= 4) =>
    /\ ParseType(last.line[1]) = "ok"
    /\ CommandNameValid(SubSeq(last.line, 2, 4))
    /\ Len(last.line) >= 5 => last.line[5] = SPACE

TooLongOnlyBeyondMax ==
  last.err = "ErrMessageTooLong" => Len(Consumed) - 1 > MaxLen

=============================================================================
