------------------------------- MODULE Parse --------------------------------
(***************************************************************************)
(* ParseMessage (src/protocol/parser/parse.go, parse_sta.go): header,      *)
(* header fields by message type, then content by command, applied to one *)
(* line.  The line is given as its token sequence: MessageReader reads     *)
(* tokens with Lexer.Next only, and the Lexer module shows that Next       *)
(* yields exactly the space-separated tokens of the line.  The parse is a  *)
(* synchronous call chain, so it is one step.                              *)
(***************************************************************************)
EXTENDS Message, SequencesExt

CONSTANT Lines   \* the token sequences of the lines to parse

VARIABLES
  line,    \* the tokens of the line
  parsed,  \* ParseMessage has returned
  result   \* the (Message, error) it returned

vars == <<line, parsed, result>>

OK == "ok"

\* The zero Message; header and content are "nil" until assigned.
ZeroMessage ==
  [type |-> "none", command |-> "none", header |-> "nil", content |-> "nil"]

\* message.HeaderFields as one record: base32 identifiers and feature ops.
Header(ids, features) == [ids |-> ids, features |-> features]

(***************************************************************************)
(* ParseHeaderFields: the switch on the type selects a field parser; each  *)
(* reads its base32 identifiers in order (MySID, TargetSID, MyCID).        *)
(***************************************************************************)
\* Fault variant: the case for direct messages missing from the switch.
HeaderParserOfNoDirect ==
  [t \in MessageTypes |->
     CASE t = "B"   -> "Broadcast"
       [] t = "E"   -> "DE"
       [] t = "F"   -> "Feature"
       [] t = "U"   -> "UDP"
       [] OTHER     -> "CIH"]

HeaderParserOf ==
  [t \in MessageTypes |->
     CASE t = "B"          -> "Broadcast"
       [] t \in {"D", "E"} -> "DE"
       [] t = "F"          -> "Feature"
       [] t = "U"          -> "UDP"
       [] OTHER            -> "CIH"]

IdCountOf == [Broadcast |-> 1, DE |-> 2, Feature |-> 1, UDP |-> 1, CIH |-> 0]

\* ReadPositional then ValueBase32Value for the identifier at index i.
IdError(toks, i) ==
  IF i > Len(toks) THEN "ErrIncompleteMessage" ELSE ParseBase32Value(toks[i])

\* The identifiers at 2 .. n+1, stopping at the first that fails; the
\* header keeps those read before it.
ParseIds(toks, n) ==
  LET bad == {i \in 2 .. n + 1 : IdError(toks, i) # OK}
      stop == IF bad = {} THEN n + 2 ELSE Min(bad)
  IN  [err |-> IF bad = {} THEN OK ELSE IdError(toks, stop),
       ids |-> SubSeq(toks, 2, stop - 1)]

ParseHeaderFields(toks, typ) ==
  LET p   == HeaderParserOf[typ]
      ids == ParseIds(toks, IdCountOf[p])
      fi  == 2 + IdCountOf[p]      \* index of the feature token
  IN  CASE ids.err # OK \/ p # "Feature" ->
             [err |-> ids.err, header |-> Header(ids.ids, <<>>), next |-> fi]
        [] fi > Len(toks) ->
             [err |-> "ErrIncompleteMessage", header |-> Header(ids.ids, <<>>),
              next |-> fi]
        [] OTHER ->
             LET f == ParseFeatures(toks[fi]) IN
             [err |-> f.err, header |-> Header(ids.ids, f.ops), next |-> fi + 1]

(***************************************************************************)
(* ParseHeader: the FourCC token, its type and command, then the header    *)
(* fields.  mes.Type and mes.Command are assigned as soon as each parses,  *)
(* and mes.HeaderFields even when the field parser fails.                  *)
(***************************************************************************)
\* Fault variant: mes.Type assigned the raw byte before ParseType checks it.
ParseHeaderRawType(toks) ==
  LET fail(e, m) == [err |-> e, msg |-> m, next |-> 2]
      f   == toks[1]
      typ == [ZeroMessage EXCEPT !.type = f[1]]
      cmd == [typ EXCEPT !.command = Tail(f)]
  IN  CASE toks = <<>>                -> fail("ErrIncompleteMessage", ZeroMessage)
        [] Len(f) # 4                 -> fail("ErrInvalidMessage", ZeroMessage)
        [] ParseType(f[1]) # OK       -> fail(ParseType(f[1]), typ)
        [] ParseCommand(Tail(f)) # OK -> fail(ParseCommand(Tail(f)), typ)
        [] OTHER ->
             LET h == ParseHeaderFields(toks, f[1]) IN
             [err |-> h.err, msg |-> [cmd EXCEPT !.header = h.header],
              next |-> h.next]

ParseHeader(toks) ==
  LET fail(e, m) == [err |-> e, msg |-> m, next |-> 2]
      f   == toks[1]
      typ == [ZeroMessage EXCEPT !.type = f[1]]
      cmd == [typ EXCEPT !.command = Tail(f)]
  IN  CASE toks = <<>>                -> fail("ErrIncompleteMessage", ZeroMessage)
        [] Len(f) # 4                 -> fail("ErrInvalidMessage", ZeroMessage)
        [] ParseType(f[1]) # OK       -> fail(ParseType(f[1]), ZeroMessage)
        [] ParseCommand(Tail(f)) # OK -> fail(ParseCommand(Tail(f)), typ)
        [] OTHER ->
             LET h == ParseHeaderFields(toks, f[1]) IN
             [err |-> h.err, msg |-> [cmd EXCEPT !.header = h.header],
              next |-> h.next]

(***************************************************************************)
(* Content.  ParamAccessor views: Positional() and Named().  STAContent's  *)
(* Positional() returns its codeStr and descriptionStr fields, which       *)
(* ParseSTAContent never assigns (the constructor calls are commented      *)
(* out), so they stay "".                                                  *)
(***************************************************************************)
NoNamed == [k \in {} |-> <<>>]

Content(kind, pos, named, code, desc) ==
  [kind |-> kind, positional |-> pos, named |-> named,
   code |-> code, description |-> desc]

\* mes.Flags[Name()] = RawValue() for each named token, later ones winning.
FlagsOf(toks) ==
  [k \in {Name(toks[j]) : j \in DOMAIN toks} |->
     LET j == Max({i \in DOMAIN toks : Name(toks[i]) = k})
     IN  RawValue(toks[j])]

ParseSTAContent(toks, i) ==
  LET fail(e) == [err |-> e, content |-> "nil"]
      code == ParseStatusCode(toks[i])
      desc == DecodeADCString(toks[i + 1])
      named == SubSeq(toks, i + 2, Len(toks))
  IN  CASE i > Len(toks)         -> fail("ErrIncompleteMessage")
        [] code.err # OK         -> fail(code.err)
        [] i + 1 > Len(toks)     -> fail("ErrIncompleteMessage")
        [] desc.err # OK         -> fail(desc.err)
        [] \E j \in DOMAIN named : ~NamedValid(named[j]) ->
             fail("ErrInvalidNamedParameter")
        [] OTHER ->
             [err |-> OK,
              content |-> Content("STA", <<<<>>, <<>>>>, FlagsOf(named),
                                  [severity |-> code.severity,
                                   error |-> code.error], desc.val)]

\* ParseGenericContent: every remaining token, as a positional parameter.
ParseGenericContent(toks, i) ==
  [err |-> OK,
   content |-> Content("Generic", SubSeq(toks, i, Len(toks)), NoNamed,
                       "none", <<>>)]

ParseContent(toks, i, cmd) ==
  IF cmd = CommandSTA THEN ParseSTAContent(toks, i)
  ELSE ParseGenericContent(toks, i)

\* ParseMessage: the header, then the content; Content is nil on error.
ParseMessage(toks) ==
  LET h == ParseHeader(toks)
      c == ParseContent(toks, h.next, h.msg.command)
  IN  IF h.err # OK THEN [err |-> h.err, msg |-> h.msg]
      ELSE [err |-> c.err, msg |-> [h.msg EXCEPT !.content = c.content]]

-----------------------------------------------------------------------------
Init ==
  /\ line \in Lines
  /\ parsed = FALSE
  /\ result = [err |-> "none", msg |-> ZeroMessage]

ParseLine ==
  /\ ~parsed
  /\ parsed' = TRUE
  /\ result' = ParseMessage(line)
  /\ UNCHANGED line

\* The parse is done; nothing else happens to this line.
Done ==
  /\ parsed
  /\ UNCHANGED vars

Next == ParseLine \/ Done

Spec == Init /\ [][Next]_vars

-----------------------------------------------------------------------------
(***************************************************************************)
(* Reference: the wire grammar of the spec (sections 3 and 6), table      *)
(* driven.  A line is a FourCC, the header fields its type carries, the    *)
(* command's required positional fields, then optional fields.  The error *)
(* of a line is that of its first field that is missing or malformed.      *)
(***************************************************************************)
SpecHeaderIds == [t \in MessageTypes |->
                    CASE t = "B"          -> 1
                      [] t \in {"D", "E"} -> 2
                      [] t \in {"F", "U"} -> 1
                      [] OTHER            -> 0]

RequiredFields(toks) ==
  LET typ == toks[1][1]
      cmd == Tail(toks[1])
  IN  <<"fourcc">> \o [i \in 1 .. SpecHeaderIds[typ] |-> "id"]
      \o (IF typ = "F" THEN <<"features">> ELSE <<>>)
      \o (IF cmd = CommandSTA THEN <<"status", "string">> ELSE <<>>)

\* Spec 6: a status code is three decimal digits, the first 0, 1 or 2.
SpecStatusError(tok) ==
  CASE Len(tok) # 3                        -> "ErrInvalidStatusCode"
    [] tok[1] \notin {"0", "1", "2"}       -> "ErrInvalidSeverityCode"
    [] {tok[2], tok[3]} \ DecimalDigits # {} -> "ErrInvalidErrorCode"
    [] OTHER                               -> OK

\* The value of a decimal digit, by its place in the digit sequence.
DigitValue(b) ==
  CHOOSE v \in 0 .. 9 : <<"0","1","2","3","4","5","6","7","8","9">>[v + 1] = b

\* The index of the first content token of a line.
FirstContentIndex(toks) ==
  2 + SpecHeaderIds[toks[1][1]] + (IF toks[1][1] = "F" THEN 1 ELSE 0)

OptionalField(toks) == IF Tail(toks[1]) = CommandSTA THEN "named" ELSE "any"

FieldError(kind, tok) ==
  CASE kind = "fourcc" ->
         CASE Len(tok) # 4                     -> "ErrInvalidMessage"
           [] ParseType(tok[1]) # OK           -> "ErrInvalidType"
           [] ~CommandNameValid(Tail(tok))     -> "ErrInvalidCommandName"
           [] OTHER                            -> OK
    [] kind = "id"       -> ParseBase32Value(tok)
    [] kind = "features" -> ParseFeatures(tok).err
    [] kind = "status"   -> SpecStatusError(tok)
    [] kind = "string"   -> DecodeADCString(tok).err
    [] kind = "named"    -> IF NamedValid(tok) THEN OK
                            ELSE "ErrInvalidNamedParameter"
    [] OTHER             -> OK

GrammarError(toks) ==
  IF toks = <<>> THEN "ErrIncompleteMessage"
  ELSE IF FieldError("fourcc", toks[1]) # OK THEN FieldError("fourcc", toks[1])
  ELSE
    LET req == RequiredFields(toks)
        err(j) == IF j <= Len(req)
                  THEN IF j > Len(toks) THEN "ErrIncompleteMessage"
                       ELSE FieldError(req[j], toks[j])
                  ELSE FieldError(OptionalField(toks), toks[j])
        bad == {j \in 1 .. Max({Len(req), Len(toks)}) : err(j) # OK}
    IN  IF bad = {} THEN OK ELSE err(Min(bad))

\* A parsed line follows the grammar: accepted exactly when the grammar
\* accepts it, else rejected with the error of its first bad field.
FollowsGrammar == parsed => result.err = GrammarError(line)

\* The line's command is a well-formed name that is not one of the 15 known.
GenericCommand(toks) ==
  /\ toks # <<>> /\ Len(toks[1]) = 4
  /\ Tail(toks[1]) \notin KnownCommands
  /\ CommandNameValid(Tail(toks[1]))

-----------------------------------------------------------------------------
TypeOK ==
  /\ parsed \in BOOLEAN
  /\ result.msg.type \in MessageTypes \cup {"none"}
  /\ result.err \in {"none", OK, "ErrIncompleteMessage", "ErrInvalidMessage",
                     "ErrInvalidType", "ErrInvalidCommandName",
                     "ErrBase32CorruptInput", "ErrInvalidFeatureEncoding",
                     "ErrInvalidStatusCode", "ErrInvalidSeverityCode",
                     "ErrInvalidErrorCode", "ErrInvalidString",
                     "ErrInvalidNamedParameter", "panic"}

(***************************************************************************)
(* Every line whose command is one of the known mnemonics (or is no valid *)
(* command name at all) is accepted exactly when it is well formed, and   *)
(* otherwise rejected with the error of its first bad field: header       *)
(* arity per message type, base32 identifiers, the feature list, the       *)
(* status code, the escaped description and named parameters, checked in  *)
(* wire order (spec 4.5, 8).                                               *)
(***************************************************************************)
KnownCommandLinesFollowGrammar == ~GenericCommand(line) => FollowsGrammar

(***************************************************************************)
(* Partial failure (ParseHeader, ParseFeatureHeaderFields in parse.go):    *)
(* mes.Type, mes.Command and mes.HeaderFields are assigned as each parses, *)
(* so a Message comes back with its error half filled.  It never carries   *)
(* content, and every header value it does carry is one the line holds and *)
(* its field's check accepted: the FourCC's type and command, a prefix of  *)
(* the identifiers after it, each valid base32, and a prefix of the        *)
(* feature token's groups, each well formed.                               *)
(***************************************************************************)
FailedParseKeepsValidPrefix ==
  (parsed /\ result.err # OK) =>
    LET m == result.msg IN
    /\ m.content = "nil"
    /\ m.type # "none" => m.type = line[1][1] /\ ParseType(m.type) = OK
    \* mes.HeaderFields is assigned once the command has parsed.
    /\ m.command # "none" =>
         /\ m.command = Tail(line[1])
         /\ IsPrefix(m.header.ids, Tail(line))
         /\ \A i \in DOMAIN m.header.ids : ParseBase32Value(m.header.ids[i]) = OK
         /\ \A g \in DOMAIN m.header.features :
              LET tok == line[2 + Len(m.header.ids)] IN
              /\ FeatureGroupValid(tok, g - 1)
              /\ m.header.features[g].feature = SubSeq(tok, 5 * g - 3, 5 * g)

(***************************************************************************)
(* Spec 3 and 8: a command name that is not one of the 15 mnemonics but   *)
(* matches the grammar ("XYZ") is accepted and parsed as generic content. *)
(***************************************************************************)
GenericCommandLinesFollowGrammar == GenericCommand(line) => FollowsGrammar

(***************************************************************************)
(* Spec 2 (StatusCode): an accepted status message carries the code its    *)
(* three digits spell: severity x 100 + error, read by Code().            *)
(***************************************************************************)
StatusCodeFromDigits ==
  (parsed /\ result.err = OK /\ result.msg.command = CommandSTA) =>
    LET tok == line[FirstContentIndex(line)]
    IN  StatusCodeValue(result.msg.content.code) =
          100 * DigitValue(tok[1]) + 10 * DigitValue(tok[2]) + DigitValue(tok[3])

(***************************************************************************)
(* Lossless round trip of escaped strings (spec 2 and 8): the description *)
(* ParseSTAContent decoded from a line, escaped again by                   *)
(* EncodeToADCString and decoded by DecodeADCString, is the same string,   *)
(* whatever spaces, line feeds and backslashes it holds.                   *)
(***************************************************************************)
DescriptionRoundTrip ==
  (parsed /\ result.err = OK /\ result.msg.command = CommandSTA) =>
    LET d == result.msg.content.description
        e == EncodeToADCString(d)
    IN  e.err = OK /\ DecodeADCString(e.val) = [err |-> OK, val |-> d]

=============================================================================
