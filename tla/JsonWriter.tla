------------------------------ MODULE JsonWriter ------------------------------
(***************************************************************************)
(* The writers of jsoncpp (lib_json/json_writer.cpp): StyledWriter, which  *)
(* SettingsManager uses, and FastWriter. A text is a sequence of           *)
(* characters.                                                             *)
(***************************************************************************)
EXTENDS JsonValue, TLC

CONSTANTS
  RightMargin,   \* rightMargin_ of StyledWriter
  IndentSize     \* indentSize_

ASSUME WriterAssumption == RightMargin \in Nat /\ IndentSize \in Nat

Quote == "\""
Digit == <<"0", "1", "2", "3", "4", "5", "6", "7", "8", "9">>
HexDigit == Digit \o <<"A", "B", "C", "D", "E", "F">>

\* uintToString
RECURSIVE uintToString(_)
uintToString(n) ==
  (IF n < 10 THEN <<>> ELSE uintToString(n \div 10)) \o <<Digit[(n % 10) + 1]>>

\* valueToString(LargestInt): the negation of the least value is itself,
\* as an unsigned value its magnitude.
intToString(n) ==
  IF n < 0 THEN <<"-">> \o uintToString((-n) % (2 ^ LargestBits)) ELSE uintToString(n)

\* valueToString(double), with one decimal
doubleToString(tenths) ==
  LET size == IF tenths < 0 THEN -tenths ELSE tenths
  IN  (IF tenths < 0 THEN <<"-">> ELSE <<>>)
        \o uintToString(size \div 10) \o <<".">> \o uintToString(size % 10)

boolToString(b) ==
  IF b THEN <<"t", "r", "u", "e">> ELSE <<"f", "a", "l", "s", "e">>

isControlCharacter(c) == 0 < Code[c] /\ Code[c] <= 31

\* The characters that are written as a backslash and a letter.
Escaped(c) ==
  CASE c = Quote -> Quote [] c = "\\" -> "\\" [] Code[c] = 8 -> "b" [] Code[c] = 12 -> "f"
    [] Code[c] = 10 -> "n" [] Code[c] = 13 -> "r" [] Code[c] = 9 -> "t" [] OTHER -> ""

\* Mutant: a backslash is written as it is.
WrittenBare(c) ==
  IF Escaped(c) \notin {"", "\\"} THEN <<"\\", Escaped(c)>>
  ELSE IF isControlCharacter(c)
  THEN <<"\\", "u", "0", "0", HexDigit[(Code[c] \div 16) + 1], HexDigit[(Code[c] % 16) + 1]>>
  ELSE <<c>>

Written(c) ==
  IF Escaped(c) # "" THEN <<"\\", Escaped(c)>>
  ELSE IF isControlCharacter(c)
  THEN <<"\\", "u", "0", "0", HexDigit[(Code[c] \div 16) + 1], HexDigit[(Code[c] % 16) + 1]>>
  ELSE <<c>>

valueToQuotedString(s) ==
  <<Quote>> \o FlattenSeq([i \in DOMAIN CString(s) |-> Written(s[i])]) \o <<Quote>>

ScalarToString(v) ==
  CASE v.type = "null" -> <<"n", "u", "l", "l">>
    [] v.type = "int" -> intToString(asLargestInt(v))
    [] v.type = "uint" -> uintToString(asLargestUInt(v))
    [] v.type = "real" -> doubleToString(v.real)
    [] v.type = "string" -> valueToQuotedString(v.string)
    [] v.type = "bool" -> boolToString(v.bool)

-----------------------------------------------------------------------------
(* FastWriter *)

\* The texts with a comma between each two.
Listed(texts) ==
  FlattenSeq([i \in DOMAIN texts |-> (IF i > 1 THEN <<",">> ELSE <<>>) \o texts[i]])

RECURSIVE FastText(_)
FastText(v) ==
  CASE v.type = "array" ->
         <<"[">> \o Listed([i \in 1..Size(v) |-> FastText(ElementAt(v, i - 1))]) \o <<"]">>
    [] v.type = "object" ->
         LET names == getMemberNames(v)
         IN  <<"{">> \o Listed([i \in DOMAIN names |->
                valueToQuotedString(names[i]) \o <<":">> \o FastText(MemberAt(v, names[i]))])
              \o <<"}">>
    [] OTHER -> ScalarToString(v)

FastWrite(v) == FastText(v) \o <<"\n">>

-----------------------------------------------------------------------------
(* StyledWriter: each operator takes document_ and answers with it. *)

writeIndent(document, depth) ==
  LET indentString == [i \in 1..depth * IndentSize |-> " "]
  IN  IF document = <<>> THEN indentString
      ELSE IF Last(document) = " " THEN document
      ELSE document \o (IF Last(document) = "\n" THEN <<>> ELSE <<"\n">>) \o indentString

writeWithIndent(document, depth, text) == writeIndent(document, depth) \o text

\* The texts of the elements of an array that may be put on one line.
childValues(v) ==
  [i \in 1..Size(v) |->
     CASE ElementAt(v, i - 1).type = "array" -> <<"[", "]">>
       [] ElementAt(v, i - 1).type = "object" -> <<"{", "}">>
       [] OTHER -> ScalarToString(ElementAt(v, i - 1))]

\* Whether the elements are not even tried on one line.
hasChildren(v) ==
  \/ Size(v) * 3 >= RightMargin
  \/ \E i \in 0..Size(v) - 1 : isContainer(ElementAt(v, i)) /\ Size(ElementAt(v, i)) > 0

isMultineArray(v) ==
  \/ hasChildren(v)
  \/ 4 + (Size(v) - 1) * 2 + Len(FlattenSeq(childValues(v))) >= RightMargin

RECURSIVE writeValue(_, _, _), writeElements(_, _, _, _), writeMembers(_, _, _, _)

writeArrayValue(document, v, depth) ==
  CASE Size(v) = 0 -> document \o <<"[", "]">>
    [] Size(v) > 0 /\ isMultineArray(v) ->
         writeWithIndent(
           writeElements(writeWithIndent(document, depth, <<"[">>), v, 0, depth + 1),
           depth, <<"]">>)
    [] OTHER ->
         document \o <<"[", " ">>
           \o FlattenSeq([i \in 1..Size(v) |->
                (IF i > 1 THEN <<",", " ">> ELSE <<>>) \o childValues(v)[i]])
           \o <<" ", "]">>

writeElements(document, v, i, depth) ==
  LET text == IF hasChildren(v)
              THEN writeValue(writeIndent(document, depth), ElementAt(v, i), depth)
              ELSE writeWithIndent(document, depth, childValues(v)[i + 1])
  IN  IF i + 1 = Size(v) THEN text ELSE writeElements(text \o <<",">>, v, i + 1, depth)

writeMembers(document, v, names, depth) ==
  LET text == writeValue(writeWithIndent(document, depth, valueToQuotedString(Head(names)))
                           \o <<" ", ":", " ">>, MemberAt(v, Head(names)), depth)
  IN  IF Len(names) = 1 THEN text
      ELSE writeMembers(text \o <<",">>, v, Tail(names), depth)

writeValue(document, v, depth) ==
  CASE v.type = "array" -> writeArrayValue(document, v, depth)
    [] v.type = "object" /\ Size(v) = 0 -> document \o <<"{", "}">>
    [] v.type = "object" /\ Size(v) > 0 ->
         writeWithIndent(
           writeMembers(writeWithIndent(document, depth, <<"{">>), v, getMemberNames(v),
                        depth + 1),
           depth, <<"}">>)
    [] OTHER -> document \o ScalarToString(v)

StyledWrite(v) == writeValue(<<>>, v, 0) \o <<"\n">>
=============================================================================
