------------------------------ MODULE JsonReader ------------------------------
(***************************************************************************)
(* Json::Reader (lib_json/json_reader.cpp). A document is a sequence of    *)
(* characters, `at` the place of current_ in it; comments are passed over, *)
(* and which value they belong to is left out. An operator that reads      *)
(* answers with what it read and where it stopped.                         *)
(***************************************************************************)
EXTENDS JsonWriter

CONSTANT TooLarge   \* an integer that does not fit and is read as a double

\* Features::strictMode()
strictMode == [allowComments |-> FALSE, strictRoot |-> TRUE]

\* *current_: the terminator of the string stands at its end.
CharAt(d, at) == IF at <= Len(d) THEN d[at] ELSE "NUL"

\* Where getNextChar() leaves current_.
NextAt(d, at) == IF at <= Len(d) THEN at + 1 ELSE at

\* The first place from `at` on whose character is in chars (is not in
\* chars), or the end.
FirstIn(d, at, chars) ==
  CHOOSE i \in at..Len(d) + 1 :
    (i > Len(d) \/ d[i] \in chars) /\ \A j \in at..i - 1 : d[j] \notin chars
FirstNotIn(d, at, chars) ==
  CHOOSE i \in at..Len(d) + 1 :
    (i > Len(d) \/ d[i] \notin chars) /\ \A j \in at..i - 1 : d[j] \in chars

skipSpaces(d, at) == FirstNotIn(d, at, {" ", "\t", "\r", "\n"})

-----------------------------------------------------------------------------
(* Tokens: a type, the characters from start up to end, and end. *)

\* readCStyleComment, readCppStyleComment: where the comment ends, which
\* starts before `at`; 0 if it does not.
readComment(d, at) ==
  LET ends == {i \in at + 1..Len(d) : d[i] = "*" /\ CharAt(d, i + 1) = "/"}
  IN  CASE CharAt(d, at) = "*" /\ ends # {} -> Min(ends) + 2
        [] CharAt(d, at) = "/" -> NextAt(d, FirstIn(d, at + 1, {"\r", "\n"}))
        [] OTHER -> 0

\* readString: the place after the closing quote; 0 if there is none.
RECURSIVE readString(_, _)
readString(d, at) ==
  CASE at > Len(d) -> 0
    [] at <= Len(d) /\ d[at] = "\\" -> readString(d, at + 2)
    [] at <= Len(d) /\ d[at] = Quote -> at + 1
    [] OTHER -> readString(d, at + 1)

NumberChars == ToSet(Digit) \cup {".", "e", "E", "+", "-"}
readNumber(d, at) == FirstNotIn(d, at, NumberChars)

Words == << <<"t", "r", "u", "e">>, <<"f", "a", "l", "s", "e">>, <<"n", "u", "l", "l">> >>
\* match(): the place after the word that starts at `at`; 0 if none does.
match(d, at) ==
  LET found == {w \in ToSet(Words) : /\ at + Len(w) - 1 <= Len(d)
                                     /\ SubSeq(d, at, at + Len(w) - 1) = w}
  IN  IF found = {} THEN 0 ELSE at + Len(CHOOSE w \in found : TRUE)

\* readToken
readToken(d, from) ==
  LET start == skipSpaces(d, from)
      c == CharAt(d, start)
      next == NextAt(d, start)
      Of(type, end) == [type |-> IF end = 0 THEN "error" ELSE type,
                        start |-> start, end |-> IF end = 0 THEN next ELSE end]
  IN  CASE c \in {"{", "}", "[", "]", ",", ":"} -> Of(c, next)
        [] c = Quote -> Of("string", readString(d, next))
        [] c = "/" -> Of("comment", readComment(d, next))
        [] c \in ToSet(Digit) \cup {"-"} -> Of("number", readNumber(d, next))
        [] c \in {"t", "f", "n"} -> Of(c, match(d, start))
        [] c = "NUL" -> Of("endOfStream", next)
        [] OTHER -> Of("error", next)

\* The first token from `at` on that is not a comment.
RECURSIVE afterComments(_, _)
afterComments(d, at) ==
  LET token == readToken(d, at)
  IN  IF token.type = "comment" THEN afterComments(d, token.end) ELSE token

skipCommentTokens(d, at, features) ==
  IF features.allowComments THEN afterComments(d, at) ELSE readToken(d, at)

-----------------------------------------------------------------------------
(* Numbers *)

HexValue(c) ==
  LET lower == <<"0", "1", "2", "3", "4", "5", "6", "7", "8", "9", "a", "b", "c", "d", "e", "f">>
      found == {n \in 0..15 : HexDigit[n + 1] = c \/ lower[n + 1] = c}
  IN  IF found = {} THEN -1 ELSE CHOOSE n \in found : TRUE

RECURSIVE decodeDigits(_, _, _)
decodeDigits(digits, value, max) ==
  IF digits = <<>> THEN value
  ELSE LET digit == HexValue(Head(digits))
       IN  IF value >= max \div 10 /\ (Len(digits) > 1 \/ digit > max % 10) THEN TooLarge
           ELSE decodeDigits(Tail(digits), (value * 10 + digit) % (2 ^ LargestBits), max)

\* sscanf("%lf") of a numeral without an exponent, in tenths; Null if it
\* reads no number.
decodeDouble(text) ==
  LET start == IF text[1] = "-" THEN 2 ELSE 1
      point == FirstNotIn(text, start, ToSet(Digit))
      fraction == CharAt(text, point) = "." /\ CharAt(text, point + 1) \in ToSet(Digit)
      whole == FoldLeft(LAMBDA n, c : 10 * n + HexValue(c), 0, SubSeq(text, start, point - 1))
      tenths == 10 * whole + IF fraction THEN HexValue(text[point + 1]) ELSE 0
  IN  IF point = start /\ ~fraction THEN Null
      ELSE RealOf(IF start = 2 THEN -tenths ELSE tenths)

\* Mutant: the least integer is taken for one that does not fit.
DecodedBelowMin(text) ==
  LET negative == text[1] = "-"
      max == IF negative THEN maxLargestInt ELSE maxLargestUInt
      value == decodeDigits(IF negative THEN Tail(text) ELSE text, 0, max)
  IN  CASE (\E i \in DOMAIN text : text[i] \in {".", "e", "E", "+"} \/ (text[i] = "-" /\ i > 1))
             \/ value = TooLarge -> decodeDouble(text)
        [] negative -> IntOf(-value)
        [] ~negative /\ value <= maxInt -> IntOf(value)
        [] OTHER -> UIntOf(value)

\* decodeNumber: LargestInt(value) wraps, and so does its negation.
decodeNumber(text) ==
  LET negative == text[1] = "-"
      max == IF negative THEN maxLargestInt + 1 ELSE maxLargestUInt
      value == decodeDigits(IF negative THEN Tail(text) ELSE text, 0, max)
      Wrapped(n) == IF n > maxLargestInt THEN n - 2 ^ LargestBits ELSE n
  IN  CASE (\E i \in DOMAIN text : text[i] \in {".", "e", "E", "+"} \/ (text[i] = "-" /\ i > 1))
             \/ value = TooLarge -> decodeDouble(text)
        [] negative -> IntOf(Wrapped((-value) % (2 ^ LargestBits)))
        [] ~negative /\ value <= maxInt -> IntOf(value)
        [] OTHER -> UIntOf(value)

-----------------------------------------------------------------------------
(* Strings *)

CharOf(code) == CHOOSE c \in DOMAIN Code : Code[c] = code

\* codePointToUTF8
codePointToUTF8(cp) ==
  LET Tail6(n) == 128 + (n % 64)
      bytes == CASE cp <= 127 -> <<cp>>
                 [] 127 < cp /\ cp <= 2047 -> <<192 + (cp \div 64), Tail6(cp)>>
                 [] 2047 < cp /\ cp <= 65535 ->
                      <<224 + (cp \div 4096), Tail6(cp \div 64), Tail6(cp)>>
                 [] 65535 < cp /\ cp <= 1114111 ->
                      <<240 + (cp \div 262144), Tail6(cp \div 4096), Tail6(cp \div 64), Tail6(cp)>>
  IN  [i \in DOMAIN bytes |-> CharOf(bytes[i])]

\* decodeUnicodeEscapeSequence: four hexadecimal digits, or -1
decodeUnicodeEscapeSequence(s, at) ==
  IF Len(s) - at < 3 \/ \E i \in at..at + 3 : HexValue(s[i]) = -1 THEN -1
  ELSE FoldLeft(LAMBDA n, c : 16 * n + HexValue(c), 0, SubSeq(s, at, at + 3))

\* decodeUnicodeCodePoint: the code point and where the text goes on; the
\* second half of a surrogate pair may be any escape.
decodeUnicodeCodePoint(s, at) ==
  LET first == decodeUnicodeEscapeSequence(s, at)
      second == IF Len(s) - at < 9 \/ SubSeq(s, at + 4, at + 5) # <<"\\", "u">> THEN -1
                ELSE decodeUnicodeEscapeSequence(s, at + 6)
  IN  CASE first = -1 -> <<-1, at>>
        [] first # -1 /\ (first < 55296 \/ first > 56319) -> <<first, at + 4>>
        [] second = -1 -> <<-1, at>>
        [] OTHER -> <<65536 + (first % 1024) * 1024 + (second % 1024), at + 10>>

Unescaped(c) ==
  CASE c \in {Quote, "/", "\\"} -> c [] c = "b" -> CharOf(8) [] c = "f" -> CharOf(12)
    [] c = "n" -> "\n" [] c = "r" -> "\r" [] c = "t" -> "\t" [] OTHER -> ""

\* decodeString: what the characters between the quotes stand for.
RECURSIVE decodeString(_, _, _)
decodeString(s, at, decoded) ==
  LET code == decodeUnicodeCodePoint(s, at + 2)
  IN  CASE at > Len(s) -> [ok |-> TRUE, text |-> decoded]
        [] at <= Len(s) /\ s[at] # "\\" -> decodeString(s, at + 1, Append(decoded, s[at]))
        [] at < Len(s) /\ s[at] = "\\" /\ Unescaped(s[at + 1]) # "" ->
             decodeString(s, at + 2, Append(decoded, Unescaped(s[at + 1])))
        [] at < Len(s) /\ s[at] = "\\" /\ s[at + 1] = "u" /\ code[1] # -1 ->
             decodeString(s, code[2], decoded \o codePointToUTF8(code[1]))
        [] OTHER -> [ok |-> FALSE, text |-> decoded]

StringToken(d, token) == decodeString(SubSeq(d, token.start + 1, token.end - 2), 1, <<>>)

-----------------------------------------------------------------------------
(* Values. The stack nodes_ is the nesting of the operators.               *)

\* addError(), and recoverFromError() at each level the error passes: the
\* tokens up to the end of that container are dropped and the next level
\* fails in its turn, so that the whole document is refused.
Refused == [ok |-> FALSE, value |-> Null, at |-> 0]
Accepted(v, at) == [ok |-> TRUE, value |-> v, at |-> at]

RECURSIVE readValue(_, _, _), readObject(_, _, _, _, _), readArray(_, _, _, _),
          afterValue(_, _, _, _, _), afterElement(_, _, _, _)

\* The next member from `at` on; name is the one before it.
readObject(d, at, features, members, name) ==
  LET token == afterComments(d, at)
      decoded == StringToken(d, token)
      colon == readToken(d, token.end)
  IN  CASE token.type = "}" /\ name = <<>> -> Accepted(ObjectOf(members), token.end)
        [] ~(token.type = "}" /\ name = <<>>) /\ token.type # "string" -> Refused
        [] OTHER ->
             IF ~decoded.ok \/ colon.type # ":" THEN Refused
             ELSE afterValue(d, features, members, decoded.text, readValue(d, colon.end, features))

\* After a comment that follows a value any token stands for the comma.
afterValue(d, features, members, name, value) ==
  LET comma == readToken(d, value.at)
      last == afterComments(d, value.at)
      now == Update(members, CString(name), value.value)
  IN  IF ~value.ok \/ comma.type \notin {"}", ",", "comment"} THEN Refused
      ELSE IF last.type = "}" THEN Accepted(ObjectOf(now), last.end)
      ELSE readObject(d, last.end, features, now, name)

\* The elements from `at` on, after the given ones.
readArray(d, at, features, items) == afterElement(d, features, items, readValue(d, at, features))

\* Mutant: the end of the document closes an array.
ClosedByEnd(d, features, items, value) ==
  LET token == afterComments(d, value.at)
      now == Update(items, Cardinality(DOMAIN items), value.value)
  IN  IF ~value.ok \/ token.type \notin {",", "]", "endOfStream"} THEN Refused
      ELSE IF token.type # "," THEN Accepted(ArrayOf(now), token.end)
      ELSE readArray(d, token.end, features, now)

afterElement(d, features, items, value) ==
  LET token == afterComments(d, value.at)
      now == Update(items, Cardinality(DOMAIN items), value.value)
  IN  IF ~value.ok \/ token.type \notin {",", "]"} THEN Refused
      ELSE IF token.type = "]" THEN Accepted(ArrayOf(now), token.end)
      ELSE readArray(d, token.end, features, now)

readValue(d, at, features) ==
  LET token == skipCommentTokens(d, at, features)
      number == decodeNumber(SubSeq(d, token.start, token.end - 1))
      inside == skipSpaces(d, token.end)
  IN  CASE token.type = "{" -> readObject(d, token.end, features, NoItems, <<>>)
        [] token.type = "[" /\ CharAt(d, inside) = "]" -> Accepted(DefaultOf("array"), inside + 1)
        [] token.type = "[" /\ CharAt(d, inside) # "]" ->
             readArray(d, token.end, features, NoItems)
        [] token.type = "number" /\ number # Null -> Accepted(number, token.end)
        [] token.type = "string" /\ StringToken(d, token).ok ->
             Accepted(StringOf(CString(StringToken(d, token).text)), token.end)
        [] token.type = "t" -> Accepted(BoolOf(TRUE), token.end)
        [] token.type = "f" -> Accepted(BoolOf(FALSE), token.end)
        [] token.type = "n" -> Accepted(Null, token.end)
        [] OTHER -> Refused

\* parse(): what follows the root value is not looked at.
parse(d, features) ==
  LET root == readValue(d, 1, features)
  IN  IF features.strictRoot /\ ~isArray(root.value) /\ ~isObject(root.value) THEN Refused
      ELSE root
=============================================================================
