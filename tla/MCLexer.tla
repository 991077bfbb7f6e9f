------------------------------- MODULE MCLexer ------------------------------
(***************************************************************************)
(* Lines for checking Lexer: every line of up to MaxLineLen bytes over two *)
(* token letters and the space, so runs of one and of several spaces       *)
(* appear before, between and after tokens.                                *)
(***************************************************************************)
EXTENDS Lexer

MaxLineLen == 5

MCLines == UNION { [1 .. n -> {"a", "b", SPACE}] : n \in 0 .. MaxLineLen }
=============================================================================
