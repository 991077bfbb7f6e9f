------------------------------ MODULE Content -------------------------------
(***************************************************************************)
(* The content types of src/protocol/message (content_*.go, message.go)    *)
(* behind the ParamAccessor interface, and the Maybe wrapper of           *)
(* src/protocol/maybe/generic/maybe.go.                                    *)
(*                                                                         *)
(* Each content type keeps, next to every typed field, a private string    *)
(* `xStr` meant to hold the field's raw encoded form ("PM" + value for a   *)
(* named field).  Only code of package message can assign these, and none *)
(* does, so they keep their zero value "" whatever a client does.         *)
(* A client owns a content value: it sets and unsets its Maybe fields,     *)
(* writes its Flags map, and reads it through Named() and NamedGet(); it   *)
(* may also write into the map Named() returned.                           *)
(*                                                                         *)
(* A string is a sequence of bytes; a key is a two-byte name such as "PM"  *)
(* and stands for its two bytes, so s[:2] and s[2:] are SubSeq(s, 1, 2)    *)
(* and SubSeq(s, 3, Len(s)).                                               *)
(***************************************************************************)
EXTENDS Integers, Sequences, Functions, TLC

CONSTANTS
  Kinds,       \* the content types a behaviour may be about
  Touch,       \* the named keys the client sets, unsets or writes
  Values,      \* typed values the client stores in a Maybe field
  FlagValues   \* raw values the client stores in Flags

(***************************************************************************)
(* One shape per content type: its positional caches (or a slice), the     *)
(* hard-coded PosLen, its typed named fields (Maybe, or SU's slice),       *)
(* those Named() includes unconditionally, whether Named() returns the     *)
(* Flags map itself or a fresh copy, and what NamedGet returns for a typed *)
(* field: the whole cache ("raw") or the cache without its key             *)
(* ("stripped").                                                           *)
(***************************************************************************)
Shape(pos, posLen, typed, required, named, get) ==
  [pos |-> pos, posLen |-> posLen, typed |-> typed, required |-> required,
   named |-> named, get |-> get]

SLICE == <<"slice">>   \* positional parameters kept in a []string

STAShape == Shape(<<"code", "description">>, 2, {}, {}, "alias", "none")
SUPShape == Shape(SLICE, -1, {}, {}, "alias", "none")
SIDShape == Shape(<<"sid">>, 1, {}, {}, "alias", "none")
CTMShape == Shape(<<"protocol", "port", "token">>, 3, {}, {}, "alias", "none")
GFIShape == Shape(<<"namespace", "identifier">>, 2, {}, {}, "alias", "none")
GPAShape == Shape(<<"data">>, 1, {}, {}, "alias", "none")
PASShape == Shape(<<"password">>, 1, {}, {}, "alias", "none")
RCMShape == Shape(<<"protocol", "token">>, 2, {}, {}, "alias", "none")
SNDShape == Shape(<<"namespace", "identifier", "startPos", "bytes">>, 4,
                  {}, {}, "alias", "none")
MSGShape == Shape(<<"text">>, 1, {"PM", "ME"}, {}, "copy", "raw")
GETShape == Shape(<<"namespace", "identifier", "startPos", "bytes">>, 4,
                  {"RE"}, {}, "copy", "raw")
QUIShape == Shape(<<"sid">>, 1, {"ID", "TL", "MS", "RD", "DI"}, {}, "copy", "raw")
SCHShape == Shape(SLICE, -1, {"TR", "TD"}, {}, "copy", "raw")
\* SU is a []string: it counts as set when it is non-empty.
INFShape == Shape(<<>>, 0,
                  {"ID", "PD", "I4", "I6", "U4", "U6", "SS", "SF", "VE", "US",
                   "DS", "SL", "AS", "AM", "EM", "NI", "DE", "HN", "HR", "HO",
                   "TO", "CT", "AW", "SU", "RF"}, {}, "copy", "raw")
RESShape == Shape(<<>>, 0, {"SL", "TR", "TD"}, {"FN", "SI", "TO"},
                  "copy", "stripped")
\* The RESContent the generator emits (generator/debug/message): the same
\* fields, but NamedGet of an unset typed flag answers ("", false).
GenRESShape == Shape(<<>>, 0, {"SL", "TR", "TD"}, {"FN", "SI", "TO"},
                     "copy", "guarded")
\* GenericContent: exported PositionalParams and NamedParams.
GenericShape == Shape(SLICE, -1, {}, {}, "alias", "none")

ShapeOf == [STA |-> STAShape, SUP |-> SUPShape, SID |-> SIDShape,
            CTM |-> CTMShape, GFI |-> GFIShape, GPA |-> GPAShape,
            PAS |-> PASShape, RCM |-> RCMShape, SND |-> SNDShape,
            MSG |-> MSGShape, GET |-> GETShape, QUI |-> QUIShape,
            SCH |-> SCHShape, INF |-> INFShape, RES |-> RESShape,
            GenRES |-> GenRESShape, Generic |-> GenericShape]

VARIABLES
  kind,      \* the content type of the value the client holds
  isSet,     \* typed field -> its Maybe IsSet (for SU: len(SU) > 0)
  value,     \* typed field -> its Maybe Value
  cache,     \* field -> its private raw string xStr
  flags,     \* the Flags (NamedParams) map
  snapshot,  \* the map the client's last Named() call returned
  shared,    \* that map is the Flags map itself, not a copy
  written    \* the Flags map as the client's own Flags writes built it (history)

vars == <<kind, isSet, value, cache, flags, snapshot, shared, written>>

TypedFields == ShapeOf[kind].typed \cap Touch
CachedFields(k) ==
  ShapeOf[k].typed \cup ShapeOf[k].required
    \cup (IF ShapeOf[k].pos = SLICE THEN {} ELSE Range(ShapeOf[k].pos))

ZERO == "zero"                 \* a field's zero value
NoMap == [x \in {} |-> <<>>]
Panic == [panic |-> TRUE, val |-> <<>>, ok |-> FALSE, map |-> NoMap]

\* The raw form a typed value is encoded to (a non-empty byte string).
Encoded(v) == <<v>>

\* A key stands for its two bytes: s[:2] of a cache is the key it starts with.
KeyOf(s) == s[1] \o s[2]

IsSetOf(f) == f \in DOMAIN isSet /\ isSet[f]

(***************************************************************************)
(* Named(): the alias types return Flags itself; the others copy Flags and *)
(* then add ma[xStr[:2]] = xStr[2:] for every required field and every    *)
(* typed field that is set, in field order.  A cache shorter than two      *)
(* bytes makes xStr[:2] panic.                                             *)
(***************************************************************************)
NamedView ==
  LET sh      == ShapeOf[kind]
      entries == sh.required \cup {f \in sh.typed : IsSetOf(f)}
      keys    == {KeyOf(cache[f]) : f \in entries}
      valOf(k) == LET f == CHOOSE g \in entries : KeyOf(cache[g]) = k
                  IN  SubSeq(cache[f], 3, Len(cache[f]))
  IN  CASE sh.named = "alias" ->
             [panic |-> FALSE, val |-> <<>>, ok |-> FALSE, map |-> flags]
        [] \E f \in entries : Len(cache[f]) < 2 -> Panic
        [] OTHER ->
             [panic |-> FALSE, val |-> <<>>, ok |-> FALSE,
              map |-> [k \in DOMAIN flags \cup keys |->
                         IF k \in keys THEN valOf(k) ELSE flags[k]]]

(***************************************************************************)
(* NamedGet(key): for a two-byte key, the switch over the typed flags      *)
(* first (RES: required ones too), then the Flags map.  The "raw" types    *)
(* return (xStr, IsSet); RES returns (xStr[2:], true) for a required field *)
(* and (xStr[2:], IsSet) for a typed one; the generated RES returns       *)
(* xStr[2:] only for a set typed flag.                                     *)
(***************************************************************************)
Found(val, ok) == [panic |-> FALSE, val |-> val, ok |-> ok, map |-> NoMap]

\* xStr[2:] of a field's cache, which panics when it is shorter than 2.
StrippedOf(k, ok) ==
  IF Len(cache[k]) < 2 THEN Panic
  ELSE Found(SubSeq(cache[k], 3, Len(cache[k])), ok)

\* The generated NamedGet's case of a typed flag: if IsSet, else ("", false).
GuardedGetOf(k) == IF IsSetOf(k) THEN StrippedOf(k, TRUE) ELSE Found(<<>>, FALSE)

NamedGetOf(k) ==
  LET sh == ShapeOf[kind]
  IN  CASE k \in sh.required                  -> StrippedOf(k, TRUE)
        [] k \in sh.typed /\ sh.get = "raw"    -> Found(cache[k], IsSetOf(k))
        [] k \in sh.typed /\ sh.get = "guarded" -> GuardedGetOf(k)
        [] k \in sh.typed                     -> StrippedOf(k, IsSetOf(k))
        [] k \in DOMAIN flags                 -> Found(flags[k], TRUE)
        [] OTHER                              -> Found(<<>>, FALSE)

-----------------------------------------------------------------------------
\* A fresh value of a content type, with a Flags map made by the client.
Init ==
  /\ kind \in Kinds
  /\ isSet = [f \in TypedFields |-> FALSE]
  /\ value = [f \in TypedFields |-> ZERO]
  /\ cache = [f \in CachedFields(kind) |-> <<>>]
  /\ flags = NoMap
  /\ snapshot = NoMap
  /\ shared = FALSE
  /\ written = NoMap

\* Maybe.Set(val): Value = val, IsSet = true.
Set(f, v) ==
  /\ f \in TypedFields
  /\ value' = [value EXCEPT ![f] = v]
  /\ isSet' = [isSet EXCEPT ![f] = TRUE]
  /\ UNCHANGED <<kind, cache, flags, snapshot, shared, written>>

\* Fault variant: Unset deletes the field's entry.
UnsetRemove(f) ==
  /\ f \in TypedFields
  /\ isSet' = [g \in DOMAIN isSet \ {f} |-> isSet[g]]
  /\ UNCHANGED <<kind, value, cache, flags, snapshot, shared, written>>

\* Maybe.Unset(): IsSet = false; Value keeps the old value.
Unset(f) ==
  /\ f \in TypedFields
  /\ isSet' = [isSet EXCEPT ![f] = FALSE]
  /\ UNCHANGED <<kind, value, cache, flags, snapshot, shared, written>>

\* The client writes Flags[k] = v; a snapshot that is Flags sees it too.
PutFlag(k, v) ==
  /\ flags' = (k :> v) @@ flags
  /\ snapshot' = IF shared THEN flags' ELSE snapshot
  /\ written' = (k :> v) @@ written
  /\ UNCHANGED <<kind, isSet, value, cache, shared>>

\* The client calls Named() and keeps the map (a panicking call ends it).
CallNamed ==
  /\ ~NamedView.panic
  /\ snapshot' = NamedView.map
  /\ shared' = (ShapeOf[kind].named = "alias")
  /\ UNCHANGED <<kind, isSet, value, cache, flags, written>>

\* The client writes into the map Named() returned.
WriteSnapshot(k, v) ==
  /\ snapshot' = (k :> v) @@ snapshot
  /\ flags' = IF shared THEN snapshot' ELSE flags
  /\ UNCHANGED <<kind, isSet, value, cache, shared, written>>

Next ==
  \/ \E f \in Touch, v \in Values : Set(f, v)
  \/ \E f \in Touch : Unset(f)
  \/ \E k \in Touch, v \in FlagValues : PutFlag(k, v)
  \/ CallNamed
  \/ \E k \in Touch, v \in FlagValues : WriteSnapshot(k, v)

Spec == Init /\ [][Next]_vars

-----------------------------------------------------------------------------
TypeOK ==
  /\ kind \in Kinds
  /\ isSet \in [TypedFields -> BOOLEAN]
  /\ value \in [TypedFields -> Values \cup {ZERO}]
  /\ DOMAIN flags \subseteq Touch
  /\ DOMAIN snapshot \subseteq Touch
  /\ shared \in BOOLEAN
  /\ DOMAIN written \subseteq Touch

(***************************************************************************)
(* ParamAccessor (spec section 2): every content value answers Named() and *)
(* NamedGet for any key.  The copying Named() of content_msg.go, _qui.go,  *)
(* _sch.go, _inf.go and _res.go slices xStr[:2] of every field it adds,    *)
(* and RES's NamedGet slices xStr[2:]; these caches are private and no     *)
(* code assigns them.                                                      *)
(***************************************************************************)
NamedNeverPanics ==
  /\ ~NamedView.panic
  /\ \A k \in Touch : ~NamedGetOf(k).panic

(***************************************************************************)
(* Named() returns a full snapshot (spec section 2), and content holds no  *)
(* shared mutable state: whatever the client does with the map a Named()  *)
(* call returned, Flags holds exactly what the client wrote into Flags.    *)
(* The alias form of content_sta.go (and of GenericContent, whose          *)
(* NamedParams is the map itself) is what is in question.                  *)
(***************************************************************************)
NamedIsSnapshot == flags = written

====
