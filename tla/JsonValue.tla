------------------------------- MODULE JsonValue -------------------------------
(***************************************************************************)
(* Json::Value (jsoncpp, lib_json/json_value.cpp), without comments: what  *)
(* the settings are converted to before they are written.                  *)
(***************************************************************************)
EXTENDS Integers, Sequences, SequencesExt, FiniteSets, FiniteSetsExt

CONSTANTS
  Code,          \* the characters in use, with their codes
  IntBits,       \* the width of Int and UInt
  LargestBits,   \* the width of LargestInt and LargestUInt
  Throws         \* the result of a conversion that throws

ASSUME JsonAssumption ==
  /\ \A c, d \in DOMAIN Code : Code[c] = Code[d] => c = d
  /\ 1 < IntBits /\ IntBits <= LargestBits

maxUInt == 2 ^ IntBits - 1
maxInt == 2 ^ (IntBits - 1) - 1
minInt == -maxInt - 1
maxLargestUInt == 2 ^ LargestBits - 1
maxLargestInt == 2 ^ (LargestBits - 1) - 1
minLargestInt == -maxLargestInt - 1

\* Arrays are sparse maps from indices; a real is counted in tenths.
Null == [type |-> "null"]
IntOf(n) == [type |-> "int", int |-> n]
UIntOf(n) == [type |-> "uint", uint |-> n]
RealOf(tenths) == [type |-> "real", real |-> tenths]
BoolOf(b) == [type |-> "bool", bool |-> b]
ArrayOf(items) == [type |-> "array", items |-> items]
ObjectOf(members) == [type |-> "object", members |-> members]
NoItems == [i \in {} |-> Null]

StringOf(s) == [type |-> "string", string |-> s]

\* Value(ValueType)
DefaultOf(type) ==
  CASE type = "null" -> Null [] type = "int" -> IntOf(0) [] type = "uint" -> UIntOf(0)
    [] type = "real" -> RealOf(0) [] type = "string" -> StringOf(<<>>)
    [] type = "bool" -> BoolOf(FALSE) [] type = "array" -> ArrayOf(NoItems)
    [] type = "object" -> ObjectOf(NoItems)

isArray(v) == v.type \in {"null", "array"}
isObject(v) == v.type \in {"null", "object"}
isContainer(v) == v.type \in {"array", "object"}

-----------------------------------------------------------------------------
(* Members and elements. *)

\* strcmp(s, t) < 0
Before(s, t) ==
  \E n \in 0..Len(s) :
    /\ n <= Len(t) /\ SubSeq(s, 1, n) = SubSeq(t, 1, n)
    /\ \/ n = Len(s) /\ n < Len(t)
       \/ n < Len(s) /\ n < Len(t) /\ Code[s[n + 1]] < Code[t[n + 1]]

\* What strlen() counts of a string: a string ends at its first NUL.
CString(s) ==
  LET ends == {i \in DOMAIN s : Code[s[i]] = 0}
  IN  IF ends = {} THEN s ELSE SubSeq(s, 1, Min(ends) - 1)

getMemberNames(v) ==
  IF v.type = "null" THEN <<>> ELSE SetToSortSeq(DOMAIN v.members, Before)

\* The size of an array is its highest index and one.
Size(v) ==
  CASE v.type = "array" -> IF DOMAIN v.items = {} THEN 0 ELSE Max(DOMAIN v.items) + 1
    [] v.type = "object" -> Cardinality(DOMAIN v.members)
    [] OTHER -> 0

Update(f, key, v) == [k \in DOMAIN f \cup {key} |-> IF k = key THEN v ELSE f[k]]
Without(f, keys) == [k \in DOMAIN f \ keys |-> f[k]]

\* operator[] const
ElementAt(v, i) == IF v.type = "null" \/ i \notin DOMAIN v.items THEN Null ELSE v.items[i]
MemberAt(v, name) ==
  IF v.type = "null" \/ name \notin DOMAIN v.members THEN Null ELSE v.members[name]

\* operator[] and an assignment to what it answers
SetElement(v, i, w) ==
  ArrayOf(Update(IF v.type = "null" THEN NoItems ELSE v.items, i, w))
SetMember(v, name, w) ==
  ObjectOf(Update(IF v.type = "null" THEN NoItems ELSE v.members, name, w))

isMember(v, name) == v.type # "null" /\ name \in DOMAIN v.members

\* get(key, defaultValue)
get(v, name, default) == IF isMember(v, name) THEN MemberAt(v, name) ELSE default

append(v, w) == SetElement(v, Size(v), w)

removeMember(v, name) ==
  IF v.type = "null" THEN v ELSE ObjectOf(Without(v.members, {name}))

clear(v) == IF v.type = "null" THEN v ELSE DefaultOf(v.type)

resize(v, size) ==
  LET a == IF v.type = "null" THEN DefaultOf("array") ELSE v
  IN  CASE size = 0 -> clear(a)
        [] size > Size(a) -> ArrayOf(Update(a.items, size - 1, ElementAt(a, size - 1)))
        [] OTHER -> ArrayOf(Without(a.items, size..Size(a) - 1))

\* The assertion of resize(): it fails where the new last element is a hole.
ResizeAsserted(v, size) == Size(resize(v, size)) = size

-----------------------------------------------------------------------------
(* Conversion. *)

InRange(n, low, high) == IF low <= n /\ n <= high THEN n ELSE Throws
Truncated(tenths) == IF tenths < 0 THEN -(-tenths \div 10) ELSE tenths \div 10

\* The ranges of reals are tested before they are truncated.
RealInRange(tenths, low, high) ==
  IF 10 * low <= tenths /\ tenths <= 10 * high THEN Truncated(tenths) ELSE Throws

\* Mutant: the range of an unsigned integer is not tested.
AsIntUnchecked(v) ==
  CASE v.type = "null" -> 0
    [] v.type = "int" -> InRange(v.int, minInt, maxInt)
    [] v.type = "uint" -> ((v.uint + maxInt + 1) % (2 ^ IntBits)) - (maxInt + 1)
    [] v.type = "real" -> RealInRange(v.real, minInt, maxInt)
    [] v.type = "bool" -> IF v.bool THEN 1 ELSE 0
    [] OTHER -> Throws

asInt(v) ==
  CASE v.type = "null" -> 0
    [] v.type = "int" -> InRange(v.int, minInt, maxInt)
    [] v.type = "uint" -> InRange(v.uint, 0, maxInt)
    [] v.type = "real" -> RealInRange(v.real, minInt, maxInt)
    [] v.type = "bool" -> IF v.bool THEN 1 ELSE 0
    [] OTHER -> Throws

asUInt(v) ==
  CASE v.type = "null" -> 0
    [] v.type = "int" -> InRange(v.int, 0, maxUInt)
    [] v.type = "uint" -> InRange(v.uint, 0, maxUInt)
    [] v.type = "real" -> RealInRange(v.real, 0, maxUInt)
    [] v.type = "bool" -> IF v.bool THEN 1 ELSE 0
    [] OTHER -> Throws

\* A real is converted to an Int, whatever its range was tested against.
\* Converting one that does not fit is undefined: x86 answers with minInt.
asLargestInt(v) ==
  CASE v.type = "null" -> 0
    [] v.type = "int" -> v.int
    [] v.type = "uint" -> InRange(v.uint, 0, maxLargestInt)
    [] v.type = "real" ->
         IF RealInRange(v.real, minLargestInt, maxLargestInt) = Throws THEN Throws
         ELSE IF Truncated(v.real) \in minInt..maxInt THEN Truncated(v.real) ELSE minInt
    [] v.type = "bool" -> IF v.bool THEN 1 ELSE 0
    [] OTHER -> Throws

asLargestUInt(v) ==
  CASE v.type = "null" -> 0
    [] v.type = "int" -> InRange(v.int, 0, maxLargestUInt)
    [] v.type = "uint" -> v.uint
    [] v.type = "real" ->
         IF RealInRange(v.real, 0, maxLargestUInt) = Throws THEN Throws
         ELSE Truncated(v.real) % (2 ^ IntBits)
    [] v.type = "bool" -> IF v.bool THEN 1 ELSE 0
    [] OTHER -> Throws

\* asDouble, in tenths
asDouble(v) ==
  CASE v.type = "null" -> 0
    [] v.type = "int" -> 10 * v.int
    [] v.type = "uint" -> 10 * v.uint
    [] v.type = "real" -> v.real
    [] v.type = "bool" -> IF v.bool THEN 10 ELSE 0
    [] OTHER -> Throws

asBool(v) ==
  CASE v.type = "null" -> FALSE
    [] v.type = "int" -> v.int # 0
    [] v.type = "uint" -> v.uint # 0
    [] v.type = "real" -> v.real # 0
    [] v.type = "bool" -> v.bool
    [] v.type = "string" -> CString(v.string) # <<>>
    [] OTHER -> IF v.type = "array" THEN DOMAIN v.items # {} ELSE DOMAIN v.members # {}

asString(v) ==
  CASE v.type = "null" -> <<>>
    [] v.type = "string" -> CString(v.string)
    [] v.type = "bool" -> IF v.bool THEN <<"t", "r", "u", "e">> ELSE <<"f", "a", "l", "s", "e">>
    [] OTHER -> Throws

\* Zero of each type is convertible to null, as empty containers are.
isZero(v) == ~asBool(v)

isConvertibleTo(v, type) ==
  \/ v.type = "null" \/ v.type = type
  \/ type = "null" /\ isZero(v)
  \/ /\ v.type \in {"int", "uint", "real", "bool"}
     /\ \/ type \in {"real", "string", "bool"}
        \/ v.type = "int" /\ type = "uint" /\ v.int >= 0
        \/ v.type = "uint" /\ type = "int" /\ v.uint <= maxInt
        \/ v.type = "real" /\ type = "int" /\ 10 * minInt <= v.real /\ v.real <= 10 * maxInt
        \/ v.type = "real" /\ type = "uint" /\ 0 <= v.real /\ v.real <= 10 * maxUInt
        \/ v.type = "bool" /\ type \in {"int", "uint"}
=============================================================================
