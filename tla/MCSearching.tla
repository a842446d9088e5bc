----------------------------- MODULE MCSearching -----------------------------
EXTENDS Searching, TLC

\* Names are of one character.
Char(c) ==
  CASE c = "/" -> Slash [] c = "text" -> 1 [] c = "label" -> 2 [] c = "bin" -> 3
    [] c = "game" -> 4 [] c = "body" -> 5 [] c = "int" -> 6 [] c = "p" -> 7 [] c = "q" -> 8
    [] c = "a" -> 9 [] c = "b" -> 10 [] c = "c" -> 11 [] c = "d" -> 12 [] c = "e" -> 13
    [] c = "f" -> 14 [] c = "g" -> 15 [] c = "h" -> 16 [] c = "k" -> 17 [] c = "m" -> 18
    [] c = "n" -> 19 [] c = "r" -> 20 [] c = "s" -> 21 [] c = "t" -> 22 [] c = "u" -> 23
    [] c = "v" -> 24 [] c = "w" -> 25
T(name) == <<Char(name)>>

\* The main program is mapped at pages 4 and 5, a module of the root
\* directory at pages 8 to 13, and the heap at pages 14 and 15. The main
\* program has the symbols of what it is linked with, too.
MCModules ==
  << >> :> [path |-> T("/") \o T("bin"), file |-> T("game"), 
            symbols |-> (T("f") :> 17 @@ T("k") :> 32)]
    @@ T("m") :> [path |-> T("/"), file |-> T("m"),
                   symbols |-> (T("f") :> 32 @@ T("g") :> 34)]

MCIndirect == <<15, 5>>

Page(rights, pathfile) ==
  [isReadable |-> "r" \in rights, isWritable |-> "w" \in rights,
   isExecutable |-> "x" \in rights, pathfile |-> pathfile]

\* The bytes from an address on.
From(address, bytes) == [a \in address..address + Len(bytes) - 1 |-> bytes[a - address + 1]]

\* At 32 there are 1 2 1 twice, and behind a byte that marks them a call of
\* 32 at 41, an indirect call through 58 at 46, and a pointer to 56 at 51.
MCByte(at60) ==
  From(16, <<1, 2, 3, 1, 2, 3, 9, 9>>)
    @@ From(32, <<1, 2, 1, 2, 1, 2, 1, 3>>)
    @@ From(40, <<10, 14, 9, 3, 15>>) @@ From(45, <<11, 15, 5, 10, 3>>)
    @@ From(50, <<12, 8, 3, 9, 1, 2>>)
    @@ From(56, <<0, 2, 8, 3>> \o at60 \o <<8, 3>>)

MCPages(first, others) ==
  [p \in {4, 5} |-> Page({"r", "x"}, T("/") \o T("bin") \o T("/") \o T("game"))]
    @@ [p \in 8..9 |-> Page(first, T("/") \o T("m"))]
    @@ [p \in 10..13 |-> Page(others, T("/") \o T("m"))]
    @@ [p \in 14..15 |-> Page({"r", "w"}, <<>>)]

MCMappedPages == {4, 5} \cup 8..15

\* One segment or two of the module, of which the second cannot be read; in
\* the last one the heap holds a pointer to nothing.
MCMemories ==
  {[byte |-> MCByte(<<0, 2>>), page |-> MCPages({"r", "x"}, {"r", "x"})],
   [byte |-> MCByte(<<0, 2>>), page |-> MCPages({"r", "w"}, {})],
   [byte |-> MCByte(<<9, 9>>), page |-> MCPages({"r", "x"}, {})]}

S(module, bytes, ignored, specials) ==
  [moduleName |-> module, searchBytes |-> bytes, ignoredSearchBytesRvas |-> ignored,
   specialSearches |-> specials]
N(search, function, rva) == [search |-> search, functionName |-> function, functionRva |-> rva]
Special(rva, type, data) == [searchBytesRva |-> rva, type |-> type, data |-> data]
Named(module, function) == [moduleName |-> module, functionName |-> function]

Hook(name, type, data) ==
  [NewHook EXCEPT !.name = name, !.type = type, !.data = data, !.hookRva = 0,
     !.prologueFunction = T("body"), !.headerIncludes = <<T("h"), <<>>>>]

MCHooks ==
  {Hook(T("a"), "NAME", N(S(T("m"), <<1, 2, 1>>, {}, <<>>), T("f"), 0)),
   Hook(T("b"), "NAME", N(S(T("m"), <<2, 1, 2, 1>>, {2}, <<>>), T("f"), 3)),
   Hook(T("c"), "NAME", N(S(T("m"), <<2, 1, 3>>, {0}, <<>>), T("f"), 4)),
   Hook(T("d"), "SEARCH", [search |-> S(T("m"), <<1, 2, 1>>, {}, <<>>)]),
   Hook(T("e"), "SEARCH", [search |-> S(T("game"), <<1, 2, 3>>, {}, <<>>)]),
   [Hook(<<>>, "SEARCH", [search |-> S(T("m"), <<1, 2, 1>>, {}, <<>>)]) EXCEPT !.hookRva = 2]}

\* The byte that marks a special search comes before it, or nothing does.
AnyOf(n) == [i \in 1..n |-> 9]
Marked(mark, n, type, data) ==
  S(T("m"), <<mark>> \o AnyOf(n - 1), 1..n - 1, <<Special(1, type, data)>>)
Specials ==
  {Marked(12, 4, "DATA_POINTER", S(<<>>, <<2, 0>>, {1}, <<>>)),
   Marked(12, 4, "DATA_POINTER", S(<<>>, <<8, 3, 9, 9>>, {2, 3}, <<Special(0, "DATA_POINTER", S(<<>>, <<8, 3>>, {}, <<>>))>>)),
   Marked(10, 5, "NAMED_RELATIVE_FUNCTION_CALL", Named(T("m"), T("k"))),
   Marked(10, 5, "UNNAMED_RELATIVE_FUNCTION_CALL", S(<<>>, <<1, 2>>, {}, <<>>)),
   Marked(11, 6, "NAMED_ABSOLUTE_INDIRECT_FUNCTION_CALL", Named(T("m"), T("f"))),
   Marked(11, 6, "UNNAMED_ABSOLUTE_INDIRECT_FUNCTION_CALL", S(<<>>, <<9, 2>>, {0}, <<>>)),
   S(T("m"), AnyOf(3), 0..2, <<Special(0, "DATA_POINTER", S(<<>>, <<1, 2>>, {}, <<>>))>>)}

SearchPatch(search, bytes) ==
  setType(NewPatch, "REPLACE_SEARCH", ReplaceSearch(search, bytes, {1}))
NamePatch(search, bytes) == setType(NewPatch, "REPLACE_NAME", ReplaceName(search, bytes, {}))

Setting == [label |-> T("label"), type |-> "TEXT", currentValue |-> <<>>, defaultValue |-> T("d"),
            isNewlineAfterLabel |-> FALSE, size |-> 1, min |-> 0, max |-> 2, interval |-> 1,
            precision |-> 3]
Pack(name, patches) ==
  [info |-> [name |-> name, desc |-> <<>>, isCurrentlyEnabled |-> FALSE, isDefaultEnabled |-> TRUE,
             extraSettings |-> <<Setting>>],
   requiredPlugins |-> <<T("p")>>, patches |-> patches, headerIncludes |-> <<>>,
   sharedVariables |-> <<[name |-> T("n"), type |-> T("int")]>>]

MCLoadedPlugins == {T("p")}

MCPacks ==
  {Pack(T("s"), <<SearchPatch(search, [i \in DOMAIN search.searchBytes |-> 7])>>) :
     search \in Specials}
  \cup
  {[Pack(T("r"), <<>>) EXCEPT !.requiredPlugins = <<T("p"), T("q")>>],
   [Pack(T("t"), <<NamePatch(N(S(T("m"), <<1, 2>>, {}, <<>>), T("f"), 0), <<7, 7>>)>>)
      EXCEPT !.info.isDefaultEnabled = FALSE],
   Pack(T("u"), <<NamePatch(N(S(T("m"), <<2, 1, 2>>, {}, <<>>), T("f"), 1), <<7, 8, 7>>)>>),
   Pack(T("v"), <<setType(NewPatch, "REPLACE_SEARCH", ReplaceSearch(S(T("m"), <<>>, {}, <<>>), <<>>, {}))>>),
   Pack(T("w"), <<setType(NewPatch, "HOOK", [hookName |-> T("a"), functionBody |-> T("body")]),
                   NamePatch(N(S(T("game"), <<2, 3, 1>>, {}, <<>>), T("f"), 0), <<7, 7, 7>>)>>)}
=============================================================================
