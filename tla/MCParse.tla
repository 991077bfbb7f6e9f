------------------------------- MODULE MCParse ------------------------------
(***************************************************************************)
(* Lines for checking Parse: a FourCC followed by up to MaxArgs argument   *)
(* tokens.  FourCCs cover every header shape (B, D, E, F, U, I) and a bad    *)
(* type, the specialised STA, a known command with generic content (SUP), *)
(* a well-formed unknown command (XYZ), a malformed one (1TA), and a       *)
(* short FourCC.  Each argument token is valid for some fields and        *)
(* invalid for others.                                                     *)
(***************************************************************************)
EXTENDS Parse

MaxArgs == 3

FourCCs ==
  { <<t>> \o c : t \in {"I", "B", "D", "E", "F", "U", "Q"},
                 c \in {<<"S","T","A">>, <<"S","U","P">>, <<"X","Y","Z">>,
                        <<"1","T","A">>} }
  \cup { <<"I","S","T">> }

Args ==
  { <<"A","A","A","A">>,          \* base32 id; description; generic
    <<"A","1">>,                  \* not base32 ('1'); description
    <<"0","0","0">>,              \* status code 000
    <<"2",":","9">>,              \* status code, ':' just above '9'
    <<"1","9","0">>,              \* status code 190
    <<"+","A","B","C","D">>,      \* one feature op
    <<"+","A","B">>,              \* feature list of bad length
    <<"+","A","B","C","D","-","1","B","C","D">>,  \* good group, then a bad one
    <<"F","C","A","B">>,          \* named FC=AB; also base32
    <<"f","1">>,                  \* not a named parameter
    <<"O",NonUTF8>>,              \* not UTF-8
    <<"\\","\\","s","\\","n">> }     \* escapes: a backslash, 's', a line feed

MCLines == { <<f>> \o a : f \in FourCCs, a \in BoundedSeq(Args, MaxArgs) }
=============================================================================
