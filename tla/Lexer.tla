------------------------------- MODULE Lexer --------------------------------
(***************************************************************************)
(* The token lexer of src/protocol/parser/lexer.go: Reset, Next, Peek and  *)
(* the pushback Put, called by a client that reads tokens and pushes some  *)
(* back.  `offset` is the Go byte offset (bytes of s already consumed);   *)
(* s[i] below is Go's s[i-1].                                              *)
(*                                                                         *)
(* The client here keeps the documented contract of Put: it returns the   *)
(* most recently emitted token that is not yet returned.  The only caller  *)
(* of Put in the code is MessageReader (module MessageReader), whose       *)
(* Return* hand it whatever parameter value the client holds.             *)
(***************************************************************************)
EXTENDS Encoding, SequencesExt

CONSTANT Lines   \* the lines the lexer may be reset to

VARIABLES
  s,        \* Lexer.s
  offset,   \* Lexer.offset, or -1 once a call has panicked
  emitted,  \* tokens Next returned and the client has not put back (history)
  result    \* what the last call returned: a token, "EOF" or an error

vars == <<s, offset, emitted, result>>

Panicked == offset = -1

(***************************************************************************)
(* Reference definition: the space-separated tokens of a line, empty ones  *)
(* dropped (spec section 4.2 and the tests of lexer_test.go).              *)
(***************************************************************************)
RECURSIVE Tokens(_)
Tokens(str) ==
  IF str = <<>> THEN <<>>
  ELSE LET i == SelectInSeq(str, LAMBDA b : b = SPACE)
       IN  IF i = 0 THEN <<str>>
           ELSE (IF i = 1 THEN <<>> ELSE <<SubSeq(str, 1, i - 1)>>)
                \o Tokens(SubSeq(str, i + 1, Len(str)))

(***************************************************************************)
(* readNext: skip spaces from offset; the token runs to the next space     *)
(* (n counts that one space too) or to the end of s.                       *)
(***************************************************************************)
RECURSIVE SkipSpaces(_)
SkipSpaces(start) ==
  IF start = Len(s) \/ s[start + 1] # SPACE THEN start
  ELSE SkipSpaces(start + 1)

\* Fault variant: the last token's n counts a separator that is not there.
ReadNextPastEnd ==
  LET start == SkipSpaces(offset)
      ind   == SelectInSeq(SubSeq(s, start + 1, Len(s)),
                           LAMBDA b : b = SPACE)
  IN  CASE start = Len(s) -> [tok |-> "EOF", n |-> 0]
        [] ind = 0        -> [tok |-> SubSeq(s, start + 1, Len(s)),
                              n |-> Len(s) - offset + 1]
        [] OTHER          -> [tok |-> SubSeq(s, start + 1, start + ind - 1),
                              n |-> (start - offset) + ind]

ReadNext ==
  LET start == SkipSpaces(offset)
      ind   == SelectInSeq(SubSeq(s, start + 1, Len(s)),
                           LAMBDA b : b = SPACE)
  IN  CASE start = Len(s) -> [tok |-> "EOF", n |-> 0]
        [] ind = 0        -> [tok |-> SubSeq(s, start + 1, Len(s)),
                              n |-> Len(s) - offset]
        [] OTHER          -> [tok |-> SubSeq(s, start + 1, start + ind - 1),
                              n |-> (start - offset) + ind]

(***************************************************************************)
(* Put's backward scan: `for LastIndexByte(s[:end], space) == end-1        *)
(* { end-- }`.  At end = 0 the condition holds too (-1 == -1), so end      *)
(* becomes -1 and s[:end] panics; -1 stands for that panic.                *)
(***************************************************************************)
\* Fault variant: Put does not step back over the separator.
TrimSpacesBeforeNone(end) == IF end = 0 THEN -1 ELSE end

RECURSIVE TrimSpacesBefore(_)
TrimSpacesBefore(end) ==
  CASE end = 0          -> -1
    [] s[end] = SPACE   -> TrimSpacesBefore(end - 1)
    [] OTHER            -> end

\* The client puts back the last emitted token, if there is one.
PutCandidates == IF emitted = <<>> THEN {} ELSE {Last(emitted)}

-----------------------------------------------------------------------------
Init ==
  /\ s \in Lines
  /\ offset = 0
  /\ emitted = <<>>
  /\ result = "none"

\* Reset(s): a new line, offset 0.
Reset ==
  /\ ~Panicked
  /\ \E line \in Lines : s' = line
  /\ offset' = 0
  /\ emitted' = <<>>
  /\ result' = "none"

\* Next: return the next token and advance past it; io.EOF at the end.
NextToken ==
  /\ ~Panicked
  /\ LET r == ReadNext IN
     /\ offset' = offset + r.n
     /\ result' = r.tok
     /\ emitted' = IF r.tok = "EOF" THEN emitted ELSE Append(emitted, r.tok)
  /\ UNCHANGED s

\* Peek: the next token, offset unchanged.
Peek ==
  /\ ~Panicked
  /\ result' = ReadNext.tok
  /\ UNCHANGED <<s, offset, emitted>>

(***************************************************************************)
(* Put(tok): step back over spaces, then accept tok if it equals the bytes *)
(* just before, moving offset to its start; ErrInvalidToken otherwise.     *)
(***************************************************************************)
Put(tok) ==
  /\ ~Panicked
  /\ LET end == TrimSpacesBefore(offset) IN
     CASE end = -1 \/ Len(tok) > end ->
            \* slice bounds out of range
            /\ offset' = -1
            /\ result' = "panic"
            /\ UNCHANGED emitted
       [] SubSeq(s, end - Len(tok) + 1, end) = tok ->
            /\ offset' = end - Len(tok)
            /\ result' = "nil"
            /\ emitted' = IF emitted = <<>> THEN <<>> ELSE Front(emitted)
       [] OTHER ->
            /\ result' = "ErrInvalidToken"
            /\ UNCHANGED <<offset, emitted>>
  /\ UNCHANGED s

Next ==
  \/ Reset
  \/ NextToken
  \/ Peek
  \/ \E tok \in PutCandidates : Put(tok)

Spec == Init /\ [][Next]_vars

-----------------------------------------------------------------------------
TypeOK ==
  /\ s \in Lines
  /\ offset \in -1 .. Len(s)
  /\ emitted \in Seq(Seq(ToSet(s)))
  /\ Len(emitted) <= Len(Tokens(s))

(***************************************************************************)
(* Lookahead with pushback: whatever mix of Next, Peek and Put of the last *)
(* emitted token the client performs, no Put fails and the lexer stands    *)
(* exactly before the token that follows the ones still emitted, so the    *)
(* next Next or Peek yields it (or io.EOF after the last one).  Spaces     *)
(* before, between and after tokens, in any number, change nothing.        *)
(***************************************************************************)
PushbackRestores ==
  /\ result # "ErrInvalidToken"
  /\ ~Panicked
  /\ emitted = SubSeq(Tokens(s), 1, Len(emitted))
  /\ ReadNext.tok = IF Len(emitted) = Len(Tokens(s)) THEN "EOF"
                    ELSE Tokens(s)[Len(emitted) + 1]

=============================================================================
