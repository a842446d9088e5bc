----------------------------- MODULE MCDocuments -----------------------------
EXTENDS JsonDocuments

\* The characters in use; those with more than one letter stand for a
\* control character or a byte above 127.
MCCode ==
  LET printable == << "\"", "#", "$", "%", "&", "'", "(", ")", "*", "+", ",", "-", ".", "/",
        "0", "1", "2", "3", "4", "5", "6", "7", "8", "9", ":" >>
      letters == << "a", "b", "c", "d", "e", "f", "g", "h", "i", "j", "k", "l", "m", "n", "o",
        "p", "q", "r", "s", "t", "u", "v", "w", "x", "y", "z", "{", "|", "}" >>
      others == << <<"A", 65>>, <<"C", 67>>, <<"E", 69>>, <<"F", 70>>, <<"[", 91>>,
        <<"\\", 92>>, <<"]", 93>>, <<" ", 32>>, <<"NUL", 0>>, <<"BS", 8>>, <<"\t", 9>>,
        <<"\n", 10>>, <<"\f", 12>>, <<"\r", 13>>, <<"US", 31>>, <<"80", 128>>, <<"82", 130>>,
        <<"98", 152>>, <<"9F", 159>>, <<"A9", 169>>, <<"AC", 172>>, <<"C3", 195>>,
        <<"E2", 226>>, <<"F0", 240>> >>
      pairs == {<<printable[i], 33 + i>> : i \in DOMAIN printable}
                 \cup {<<letters[i], 96 + i>> : i \in DOMAIN letters}
                 \cup {others[i] : i \in DOMAIN others}
  IN  [c \in {pair[1] : pair \in pairs} |-> (CHOOSE pair \in pairs : pair[1] = c)[2]]

MCLeaves ==
  {Null, BoolOf(TRUE), IntOf(-128), IntOf(7), IntOf(100), UIntOf(3), UIntOf(12), UIntOf(255),
   RealOf(-5), RealOf(-85), RealOf(75), StringOf(<<>>), StringOf(<<"\"", "\\", "US">>),
   StringOf(<<"a", "NUL", "b">>), DefaultOf("array"), DefaultOf("object")}
MCNames == {<<>>, <<"\n">>}

\* A space in an argument, both quotes, an empty argument, an escape, and
\* arguments that need no quotes.
MCArguments ==
  LET spaced == <<"b", " ">>
      quotes == <<"\"", "'">>
      escape == <<"\\">>
  IN  {<< <<"-", "a">>, <<"b">> >>, <<spaced, <<"a">>, <<>>>>, <<quotes>>, <<escape, quotes>>}

\* An escape of each length, a comment, a comma too many, members that are
\* given twice, the least number, white space, and a text after the value.
MCByHand ==
  {<<"[", "\"", "\\", "u", "0", "0", "e", "9", "\\", "u", "2", "0", "A", "C", "\"", "]">>,
   <<"[", "\"", "\\", "u", "d", "8", "3", "d", "\\", "u", "d", "e", "0", "0", "\\", "b", "\"", "]">>,
   <<"[", "\"", "\\", "u", "d", "8", "3", "d", "\"", "]">>,
   <<"[", "1", "/", "*", "*", "/", ",", "2", "]">>,
   <<"/", "/", "\n", "[", "]">>,
   <<"[", "1", ",", "]">>,
   <<"{", "\"", "\"", ":", "1", ",", "}">>,
   <<"{", "\"", "p", "\"", ":", "\"", "a", "'", "\"", "}">>,
   <<"{", "\"", "p", "\"", ":", "\"", " ", "a", "\\", "\\", "\"", "}">>,
   <<"{", "\"", "a", "\"", ":", "1", ",", "\"", "a", "\"", ":", "[", " ", "]", "}">>,
   <<"{", "\"", "a", "\"", ":", "1", "/", "/", "\n", "2", "\"", "b", "\"", ":", "3", "}">>,
   <<"\t", "{", "}", "x">>, <<"[", "-", ",", "1", "-", "2", ",", "0", ".", "5", "]">>,
   <<"n", "u", "l", "l">>, <<"[", "t", "r", "u", "x", "]">>, <<>>}

MCNumerals == {-1281, -1280, -200, -129, -128, -127, -1, 1, 7, 8, 9, 127, 128, 249, 250, 255, 256, 259,
               260, 265, 266, 2550, 2600}
=============================================================================
