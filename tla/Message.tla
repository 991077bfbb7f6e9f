------------------------------ MODULE Message -------------------------------
(***************************************************************************)
(* Header and status vocabulary of a message (src/protocol/message/):     *)
(* type tags, command names, status codes and feature operations.  Byte   *)
(* strings are sequences of one-character strings, as in Encoding.        *)
(***************************************************************************)
EXTENDS Encoding

\* TypeBroadcast .. TypeUDPmessage
MessageTypes == {"B","C","D","E","F","H","I","U"}

\* ParseType: the byte is a known type tag, else ErrInvalidType.
ParseType(b) == IF b \in MessageTypes THEN "ok" ELSE "ErrInvalidType"

\* CommandSTA .. CommandSND
KnownCommands ==
  { <<"S","T","A">>, <<"S","U","P">>, <<"S","I","D">>, <<"I","N","F">>,
    <<"M","S","G">>, <<"S","C","H">>, <<"R","E","S">>, <<"C","T","M">>,
    <<"R","C","M">>, <<"G","P","A">>, <<"P","A","S">>, <<"Q","U","I">>,
    <<"G","E","T">>, <<"G","F","I">>, <<"S","N","D">> }

CommandSTA == <<"S","T","A">>

(***************************************************************************)
(* ParseCommand(s), default branch, evaluated as written:                  *)
(*   !(len(s) != 3 && IsUpperAlpha(s[1]) && IsUpperAlphaNum(s[2]) &&       *)
(*     IsUpperAlphaNum(s[3]))  ->  ErrInvalidCommandName                   *)
(* with Go's short-circuit evaluation and index panics.  A three-byte     *)
(* unknown name always fails the first conjunct.                           *)
(***************************************************************************)
ParseCommand(s) ==
  CASE s \in KnownCommands             -> "ok"
    [] Len(s) = 3                      -> "ErrInvalidCommandName"
    [] Len(s) <= 1                     -> "panic"
    [] ~IsUpperAlpha(s[2])             -> "ErrInvalidCommandName"
    [] Len(s) = 2                      -> "panic"
    [] ~IsUpperAlphaNum(s[3])          -> "ErrInvalidCommandName"
    [] ~IsUpperAlphaNum(s[4])          -> "ErrInvalidCommandName"
    [] OTHER                           -> "ok"

\* The command grammar of the spec (section 3): a known mnemonic, or three
\* bytes: an upper-case letter and two upper-case letters or digits.
CommandNameValid(s) ==
  \/ s \in KnownCommands
  \/ /\ Len(s) = 3
     /\ IsUpperAlpha(s[1]) /\ IsUpperAlphaNum(s[2]) /\ IsUpperAlphaNum(s[3])

(***************************************************************************)
(* intFromDigit: int(b - byte0) on bytes, so the subtraction wraps modulo  *)
(* 256 and the `i < 0` test never holds; -1 stands for errInvalidDigit.    *)
(***************************************************************************)
\* Fault variant: the upper bound of intFromDigit off by one.
IntFromDigitUpTo10(b) ==
  LET i == (Ord(b) - Ord("0")) % 256
  IN  IF i > 10 \/ i < 0 THEN -1 ELSE i

IntFromDigit(b) ==
  LET i == (Ord(b) - Ord("0")) % 256
  IN  IF i > 9 \/ i < 0 THEN -1 ELSE i

\* Fault variant: the two error-code digits weighted the wrong way round.
ParseStatusCodeSwapped(s) ==
  LET fail(e) == [err |-> e, severity |-> 0, error |-> 0] IN
  CASE Len(s) # 3                   -> fail("ErrInvalidStatusCode")
    [] s[1] \notin {"0","1","2"}    -> fail("ErrInvalidSeverityCode")
    [] IntFromDigit(s[2]) = -1      -> fail("ErrInvalidErrorCode")
    [] IntFromDigit(s[3]) = -1      -> fail("ErrInvalidErrorCode")
    [] OTHER -> [err |-> "ok", severity |-> Ord(s[1]) - Ord("0"),
                 error |-> IntFromDigit(s[2]) + 10 * IntFromDigit(s[3])]

\* ParseStatusCode: [err, severity, error].
ParseStatusCode(s) ==
  LET fail(e) == [err |-> e, severity |-> 0, error |-> 0] IN
  CASE Len(s) # 3                   -> fail("ErrInvalidStatusCode")
    [] s[1] \notin {"0","1","2"}    -> fail("ErrInvalidSeverityCode")
    [] IntFromDigit(s[2]) = -1      -> fail("ErrInvalidErrorCode")
    [] IntFromDigit(s[3]) = -1      -> fail("ErrInvalidErrorCode")
    [] OTHER -> [err |-> "ok", severity |-> Ord(s[1]) - Ord("0"),
                 error |-> 10 * IntFromDigit(s[2]) + IntFromDigit(s[3])]

\* StatusCode.Code()
StatusCodeValue(st) == st.severity * 100 + st.error

(***************************************************************************)
(* The feature list of a Featurebroadcast header (ParseFeatureHeaderFields,*)
(* parse.go): 5-byte groups of a sign and a feature name.                  *)
(***************************************************************************)
FeatureGroupValid(s, g) ==
  /\ s[5 * g + 1] \in {"+", "-"}
  /\ IsUpperAlpha(s[5 * g + 2])
  /\ \A k \in 3 .. 5 : IsUpperAlphaNum(s[5 * g + k])

\* The groups ParseFeatureHeaderFields appends: none when the length is not
\* a multiple of 5, else those before the first malformed group.
ValidGroupCount(s) ==
  IF Len(s) % 5 # 0 THEN 0
  ELSE CHOOSE k \in 0 .. Len(s) \div 5 :
         /\ \A g \in 0 .. k - 1 : FeatureGroupValid(s, g)
         /\ k = Len(s) \div 5 \/ ~FeatureGroupValid(s, k)

\* Fault variant: the op is appended before its group is checked.
ParseFeaturesAppendFirst(s) ==
  LET k == IF Len(s) % 5 # 0 \/ ValidGroupCount(s) = Len(s) \div 5
           THEN ValidGroupCount(s) ELSE ValidGroupCount(s) + 1
  IN  [err |-> IF Len(s) % 5 = 0 /\ ValidGroupCount(s) = Len(s) \div 5
               THEN "ok" ELSE "ErrInvalidFeatureEncoding",
       ops |-> [g \in 1 .. k |->
                  [action  |-> IF s[5 * g - 4] = "+" THEN "Add" ELSE "Remove",
                   feature |-> SubSeq(s, 5 * g - 3, 5 * g)]]]

\* The fields keep the ops appended before a failing group.
ParseFeatures(s) ==
  [err |-> IF Len(s) % 5 = 0 /\ ValidGroupCount(s) = Len(s) \div 5
           THEN "ok" ELSE "ErrInvalidFeatureEncoding",
   ops |-> [g \in 1 .. ValidGroupCount(s) |->
              [action  |-> IF s[5 * g - 4] = "+" THEN "Add" ELSE "Remove",
               feature |-> SubSeq(s, 5 * g - 3, 5 * g)]]]


=============================================================================
