------------------------------- MODULE MCParser ------------------------------
(***************************************************************************)
(* Parser.ReadMessage over the streams of MCConnReader.                    *)
(***************************************************************************)
EXTENDS Parser, MCConnReader
=============================================================================
