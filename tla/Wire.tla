--------------------------------- MODULE Wire ---------------------------------
(***************************************************************************)
(* The serialise and deserialise functions of common/include/Misc.h. Data  *)
(* is a sequence of items: an integral value is one item whatever its      *)
(* width, and a string the sequence of its characters, which are numbers.  *)
(* The size before a container of size_t's is in bytes as in the code; one *)
(* before characters, or before other data, is in items.                   *)
(***************************************************************************)
EXTENDS Sequences, SequencesExt, FiniteSetsExt, Maps

CONSTANT PtrBytes   \* the bytes of an address, and of a size_t

ASSUME WidthAssumption == PtrBytes \in Nat \ {0}

Data == Seq(Int)

\* A bool is 0 or 1, a member of an enumeration its place in it.
Bit(b) == IF b THEN 1 ELSE 0
Place(enumeration, type) == (CHOOSE i \in DOMAIN enumeration : enumeration[i] = type) - 1

serialiseIntegralType(t) == <<t>>

serialiseIntegralTypeContinuousContainer(c) == <<Len(c)>> \o c

\* A std::set of size_t's is gone through in order.
serialiseIntegralTypeContainer(c) == <<Cardinality(c) * PtrBytes>> \o Ascending(c)

\* The elements are given as their own serialised data.
WithElement(data, element) == data \o serialiseIntegralTypeContinuousContainer(element)
serialiseSerialisableTypeContainer(c) == Folded(<<Len(c)>>, c, WithElement)

\* What is read at the iterator, and what is left behind it.
deserialiseIntegralType(data) == [value |-> Head(data), rest |-> Tail(data)]

deserialiseIntegralTypeContinuousContainer(data) ==
  [value |-> SubSeq(data, 2, 1 + Head(data)), rest |-> SubSeq(data, 2 + Head(data), Len(data))]

deserialiseIntegralTypeContainer(data) ==
  LET size == Head(data) \div PtrBytes
  IN  [value |-> ToSet(SubSeq(data, 2, 1 + size)), rest |-> SubSeq(data, 2 + size, Len(data))]

\* One element more of a container, as its data.
ElementRead(read, i) ==
  LET element == deserialiseIntegralTypeContinuousContainer(read.rest)
  IN  [value |-> Append(read.value, element.value), rest |-> element.rest]

deserialiseDeserialisableTypeContainer(data) ==
  Folded([value |-> <<>>, rest |-> Tail(data)], Counter(Head(data)), ElementRead)

\* One field more, of the given kind.
FieldRead(read, kind) ==
  LET field == CASE kind = "integral" -> deserialiseIntegralType(read.rest)
                 [] kind = "continuous" -> deserialiseIntegralTypeContinuousContainer(read.rest)
                 [] kind = "container" -> deserialiseIntegralTypeContainer(read.rest)
                 [] kind = "elements" -> deserialiseDeserialisableTypeContainer(read.rest)
  IN  [value |-> Append(read.value, field.value), rest |-> field.rest]

\* The fields of the given kinds, one after the other.
Fields(data, kinds) == Folded([value |-> <<>>, rest |-> data], kinds, FieldRead).value
=============================================================================
