--------------------------- MODULE MCMessageReader ---------------------------
(***************************************************************************)
(* Lines for checking MessageReader: every line of up to MaxLineLen bytes *)
(* over an upper-case letter, a lower-case one and the space, so tokens    *)
(* that are and are not named parameters ("AA", "Ab", "b"), empty and     *)
(* all-space lines, and runs of spaces all occur.                          *)
(***************************************************************************)
EXTENDS MessageReader

MaxLineLen == 4

MCLines == UNION { [1 .. n -> {"A", "b", SPACE}] : n \in 0 .. MaxLineLen }
=============================================================================
