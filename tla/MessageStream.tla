---------------------------- MODULE MessageStream ----------------------------
(***************************************************************************)
(* What Parser.ReadMessage promises its caller (parser.go, package doc and *)
(* ReadMessage's comment), weakened to what a caller can rely on when      *)
(* lines may be lost: every call reports one result; a message returned    *)
(* without error is the parse of the next line of the stream, so messages  *)
(* arrive in stream order, none twice, none made of parts of several      *)
(* lines.  A call that fails may consume any number of lines.              *)
(***************************************************************************)
EXTENDS Naturals, Sequences

CONSTANT ParseOf(_)   \* ParseMessage of one line: a record [err, msg]

VARIABLES
  lines,   \* the complete lines of the stream, fixed during a behaviour
  next,    \* lines consumed so far
  out      \* the results of the calls so far, in order

vars == <<lines, next, out>>

Init == next = 0 /\ out = <<>>

\* One more result, an error, appended to out.
ErrorReported == /\ Len(out') = Len(out) + 1
                 /\ SubSeq(out', 1, Len(out)) = out
                 /\ out'[Len(out')].err # "ok"

\* The next line is parsed and returned.
Deliver ==
  /\ next < Len(lines)
  /\ ParseOf(lines[next + 1]).err = "ok"
  /\ next' = next + 1
  /\ out' = Append(out, ParseOf(lines[next + 1]))
  /\ UNCHANGED lines

\* A call reports an error, having consumed some lines (none at the end).
Fail ==
  /\ \E i \in next .. Len(lines) : next' = i
  /\ ErrorReported
  /\ UNCHANGED lines

Spec == Init /\ [][Deliver \/ Fail]_vars
=============================================================================
