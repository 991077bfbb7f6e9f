------------------------------ MODULE Encoding ------------------------------
(***************************************************************************)
(* Byte classes of the ADC wire format (src/protocol/encoding/encoding.go).*)
(* A byte is modelled as a one-character string; the model only ever uses *)
(* a handful of them, so the classes are finite sets of such strings.      *)
(***************************************************************************)
EXTENDS Integers, Sequences

SPACE == " "
EOL   == "\n"

\* 'A'..'Z' and '0'..'9' (encoding.go byteA..byte9).
UpperLetters == {"A","B","C","D","E","F","G","H","I","J","K","L","M",
                 "N","O","P","Q","R","S","T","U","V","W","X","Y","Z"}
DecimalDigits == {"0","1","2","3","4","5","6","7","8","9"}

\* The printable ASCII bytes 32..126, in code order (the back quote, which
\* SANY does not accept in a string, is written "<0x60>").
PrintableAscii ==
  <<" ", "!", "\"", "#", "$", "%", "&", "'", "(", ")", "*", "+", ",", "-",
    ".", "/", "0", "1", "2", "3", "4", "5", "6", "7", "8", "9", ":", ";",
    "<", "=", ">", "?", "@", "A", "B", "C", "D", "E", "F", "G", "H", "I",
    "J", "K", "L", "M", "N", "O", "P", "Q", "R", "S", "T", "U", "V", "W",
    "X", "Y", "Z", "[", "\\", "]", "^", "_", "<0x60>", "a", "b", "c", "d", "e",
    "f", "g", "h", "i", "j", "k", "l", "m", "n", "o", "p", "q", "r", "s",
    "t", "u", "v", "w", "x", "y", "z", "{", "|", "}", "~">>

\* NonUTF8 stands for a byte (0xFF) that never occurs in valid UTF-8.
NonUTF8 == "<0xFF>"

\* The byte value of a modelled byte.
Ord(b) == CASE b = EOL     -> 10
            [] b = NonUTF8 -> 255
            [] OTHER       -> 31 + CHOOSE i \in DOMAIN PrintableAscii :
                                      PrintableAscii[i] = b

\* IsUpperAlpha: an ASCII upper-case letter (simple_alpha).
IsUpperAlpha(b) == b \in UpperLetters

\* IsUpperAlphaNum: an ASCII upper-case letter or digit (simple_alphanum).
IsUpperAlphaNum(b) == b \in UpperLetters \cup DecimalDigits

\* MessageReader.ReadNamed's check of a token: two bytes or more, upper
\* alpha then upper alphanum.
NamedValid(tok) ==
  Len(tok) >= 2 /\ IsUpperAlpha(tok[1]) /\ IsUpperAlphaNum(tok[2])

\* Named.Name() and Named.RawValue(): Raw[0:2] and Raw[2:].
Name(raw) == SubSeq(raw, 1, 2)
RawValue(raw) == SubSeq(raw, 3, Len(raw))

(***************************************************************************)
(* DecodeBase32String with the padding-free standard alphabet             *)
(* (base32.go): a token decodes iff every byte is in A-Z, 2-7.  The        *)
(* decoded bytes themselves are never inspected by the parser, so the      *)
(* model keeps only the outcome, not the bit packing.                      *)
(***************************************************************************)
Base32Alphabet == UpperLetters \cup {"2","3","4","5","6","7"}

ParseBase32Value(str) ==
  IF \A i \in DOMAIN str : str[i] \in Base32Alphabet
  THEN "ok" ELSE "ErrBase32CorruptInput"

(***************************************************************************)
(* utf8.ValidString over modelled bytes: only NonUTF8 is invalid.          *)
(***************************************************************************)
ValidUTF8(str) == \A i \in DOMAIN str : str[i] # NonUTF8

(***************************************************************************)
(* The strings.Replacers of encoding.go.  The encoder replaces single      *)
(* bytes; the decoder scans left to right and at each position replaces   *)
(* the first of its two-byte patterns that matches, else copies one byte.  *)
(***************************************************************************)
EscapeOf == [b \in {SPACE, EOL, "\\"} |->
               CASE b = SPACE -> <<"\\", "s">>
                 [] b = EOL   -> <<"\\", "n">>
                 [] OTHER     -> <<"\\", "\\">>]

UnescapeOf == [c \in {"s", "n", "\\"} |->
                 CASE c = "s" -> SPACE
                   [] c = "n" -> EOL
                   [] OTHER   -> "\\"]

\* Fault variant: the encoder leaves backslashes unescaped.
RECURSIVE EncodeReplaceNoBackslash(_)
EncodeReplaceNoBackslash(str) ==
  IF str = <<>> THEN <<>>
  ELSE (IF str[1] \in {SPACE, EOL} THEN EscapeOf[str[1]] ELSE <<str[1]>>)
       \o EncodeReplaceNoBackslash(Tail(str))

RECURSIVE EncodeReplace(_)
EncodeReplace(str) ==
  IF str = <<>> THEN <<>>
  ELSE (IF str[1] \in DOMAIN EscapeOf THEN EscapeOf[str[1]] ELSE <<str[1]>>)
       \o EncodeReplace(Tail(str))

RECURSIVE DecodeReplace(_)
DecodeReplace(str) ==
  IF Len(str) < 2 THEN str
  ELSE IF str[1] = "\\" /\ str[2] \in DOMAIN UnescapeOf
       THEN <<UnescapeOf[str[2]]>> \o DecodeReplace(SubSeq(str, 3, Len(str)))
       ELSE <<str[1]>> \o DecodeReplace(Tail(str))

\* EncodeToADCString / DecodeADCString: [err, val].
EncodeToADCString(str) ==
  IF ValidUTF8(str) THEN [err |-> "ok", val |-> EncodeReplace(str)]
  ELSE [err |-> "ErrInvalidString", val |-> <<>>]

DecodeADCString(str) ==
  IF ValidUTF8(str) THEN [err |-> "ok", val |-> DecodeReplace(str)]
  ELSE [err |-> "ErrInvalidString", val |-> <<>>]

=============================================================================
