---------------------------- MODULE MessageReader ----------------------------
(***************************************************************************)
(* MessageReader (src/protocol/parser/message_reader.go): a Lexer wrapped *)
(* into ReadPositional and ReadNamed, and the pushback ReturnPositional    *)
(* and ReturnNamed, which hand the parameter's Raw to Lexer.Put.  These    *)
(* two are the only callers of Put in the code.                            *)
(*                                                                         *)
(* The client is a header or content parser doing lookahead: it reads a    *)
(* parameter into a variable and may return that variable to the reader.  *)
(* A read that fails leaves the variable at its zero value, Raw = "", and  *)
(* nothing in the API stops the client from returning it.                  *)
(***************************************************************************)
EXTENDS Lexer

VARIABLES
  held,     \* Raw of the Positional or Named the client's last read assigned
  kind,     \* which read assigned it: "positional", "named" or "none"
  taken,    \* the token that read consumed, or "EOF" (history)
  open      \* the client holds a parameter it has not returned yet

mvars == <<vars, held, kind, taken, open>>

MRInit ==
  /\ Init
  /\ held = <<>>
  /\ kind = "none"
  /\ taken = "none"
  /\ open = FALSE

\* Reset(s): the lexer takes a new line; the client's old parameter is dead.
MRReset ==
  /\ Reset
  /\ held' = <<>>
  /\ kind' = "none"
  /\ taken' = "none"
  /\ open' = FALSE

\* ReadPositional: lexer.Next; on io.EOF the zero Positional.
ReadPositional ==
  /\ NextToken
  /\ held' = IF result' = "EOF" THEN <<>> ELSE result'
  /\ kind' = "positional"
  /\ taken' = result'
  /\ open' = TRUE

(***************************************************************************)
(* ReadNamed: lexer.Next, then the named-parameter check; a token that     *)
(* fails it is already consumed, and the client gets the zero Named with   *)
(* ErrInvalidNamedParameter.                                               *)
(***************************************************************************)
ReadNamed ==
  /\ NextToken
  /\ held' = IF result' = "EOF" \/ ~NamedValid(result') THEN <<>> ELSE result'
  /\ kind' = "named"
  /\ taken' = result'
  /\ open' = TRUE

\* ReturnPositional(&param): lexer.Put(param.Raw).
ReturnPositional ==
  /\ open /\ kind = "positional"
  /\ Put(held)
  /\ open' = FALSE
  /\ UNCHANGED <<held, kind, taken>>

\* ReturnNamed(&param): lexer.Put(param.Raw).
ReturnNamed ==
  /\ open /\ kind = "named"
  /\ Put(held)
  /\ open' = FALSE
  /\ UNCHANGED <<held, kind, taken>>

MRNext ==
  \/ MRReset
  \/ ReadPositional
  \/ ReadNamed
  \/ ReturnPositional
  \/ ReturnNamed

MRSpec == MRInit /\ [][MRNext]_mvars

-----------------------------------------------------------------------------
\* Equality of two read results, either a token (a byte sequence) or "EOF".
SameToken(a, b) == IF a = "EOF" THEN b = "EOF" ELSE a = b

(***************************************************************************)
(* Pushback through the reader (spec 4.2, 4.3; Put's doc comment): a      *)
(* Return* of the parameter the last read gave never panics, and when it   *)
(* reports success the next read yields again the token that read          *)
(* consumed; a value that does not match that token is rejected with       *)
(* ErrInvalidToken.                                                        *)
(***************************************************************************)
ReturnUndoesRead ==
  /\ ~Panicked
  /\ (~open /\ taken # "none" /\ result = "nil") => SameToken(ReadNext.tok, taken)

=============================================================================
