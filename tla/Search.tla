-------------------------------- MODULE Search --------------------------------
(***************************************************************************)
(* Searching the memory of the application (common/Search.cpp) and the     *)
(* part of common/Module.cpp that finds where a module is. A search may    *)
(* change protections on its way, so that each step takes a memory and     *)
(* answers with how it went and the memory.                                *)
(***************************************************************************)
EXTENDS PatchData, Memory

CONSTANTS
  CallOpCode,          \* 0xe8
  IndirectOpCode,      \* 0xff and 0x15
  Modules              \* what is loaded: the name to [path, file, symbols]

ASSUME SearchAssumption ==
  /\ CallOpCode \in Byte /\ \A i \in {1, 2} : IndirectOpCode[i] \in Byte
  /\ <<>> \in DOMAIN Modules      \* the main program
  /\ \A name \in DOMAIN Modules :
       Modules[name] \in [path : Text, file : Text, symbols : [DOMAIN Modules[name].symbols -> Nat]]

MemoryType ==
  [byte : [Addresses -> Byte],
   page : [MappedPages -> [isReadable : BOOLEAN, isWritable : BOOLEAN, isExecutable : BOOLEAN,
                           pathfile : Text]]]

\* Addresses are little-endian.
Times(a, b) == a * b
Power(n) == Folded(1, [i \in 1..n |-> Base], Times)
AddressSpace == Power(PtrBytes)

Shifted(number, byte) == Base * number + byte
Pointer(m, address) == Folded(0, Reverse(BytesAt(m, address, PtrBytes)), Shifted)
PointerBytes(address) == [i \in 1..PtrBytes |-> (address \div Power(i - 1)) % Base]

-----------------------------------------------------------------------------
(* Module *)

Slash == 47
Dot == 46

\* A name with a directory in it, or without; a file's own is one character.
HasPath(pathfile) == Slash \in ToSet(pathfile)
basename(pathfile) == IF pathfile = <<>> THEN <<Dot>> ELSE <<Last(pathfile)>>

\* isPathfileMatch_: the files there are are those that are mapped; each has
\* one name.
isPathfileMatch_(m, a, b) ==
  IF ~HasPath(a) \/ ~HasPath(b) THEN basename(a) = basename(b)
  ELSE a = b /\ \E p \in DOMAIN m.page : m.page[p].pathfile = a

MainPathfile == Modules[<<>>].path \o <<Slash>> \o Modules[<<>>].file

\* open(): the module of that name, the main program by its file name too.
open(m, name) ==
  CASE name \in DOMAIN Modules -> Modules[name]
    [] name \notin DOMAIN Modules /\ isPathfileMatch_(m, name, MainPathfile) -> Modules[<<>>]
    [] OTHER -> Throws

\* updateInfo: path and file are put together as they are, and realpath()
\* leaves no slash at the end of a path but that of the root directory.
segments(m, module) ==
  SegmentsAt(m, {p \in Starts(m) :
    isPathfileMatch_(m, m.page[p].pathfile, module.path \o module.file)})

getSymbol(module, symbol) ==
  IF symbol \in DOMAIN module.symbols THEN module.symbols[symbol] ELSE Throws

\* The address of a symbol by name, where the exceptions of open() and
\* getSymbol() are one.
Symbol(m, moduleName, functionName) ==
  IF open(m, moduleName) = Throws THEN Throws ELSE getSymbol(open(m, moduleName), functionName)

-----------------------------------------------------------------------------
(* Special searches: `inner` is what a search comes to that is a level     *)
(* further in.                                                             *)

Outcome(how, m) == [how |-> how, memory |-> m]
Decided(condition, m) == Outcome(IF condition THEN "yes" ELSE "no", m)

\* An instruction is copied into a structure with an opcode, one byte or
\* two, and an address, which is aligned: it is not next to the opcode, and
\* the structure is as long as two addresses.
InstructionSize == 2 * PtrBytes
Operand(m, address) == Pointer(m, address + PtrBytes)

DataPointer(bytes, ignored, specials) ==
  [moduleName |-> <<>>, searchBytes |-> bytes, ignoredSearchBytesRvas |-> ignored,
   specialSearches |-> specials]

Requests == [memory : MemoryType, search : Searches, start : Nat, size : Nat]
Request(m, search, start, size) ==
  [memory |-> m, search |-> search, start |-> start, size |-> size]

\* DataPointerSpecialSearch::doSearch
AnyFound(finding) ==
  IF finding.how = "found" THEN Decided(finding.found # {}, finding.memory)
  ELSE Outcome(finding.how, finding.memory)
PointsToMatch(inner, m, data, address) ==
  IF ~Readable(m, address, PtrBytes) THEN Outcome("died", m)
  ELSE AnyFound(inner[Request(m, data, Pointer(m, address), Len(data.searchBytes))])

\* NamedRelativeFunctionCallSpecialSearch::doSearch; what is thrown on the
\* way to the symbol is caught in this and the other named search.
IsRelativeCall(m, address) == m.byte[address] = CallOpCode
Target(m, address) == (address + InstructionSize + Operand(m, address)) % AddressSpace
CallsNamed(m, data, address) ==
  LET symbol == Symbol(m, data.moduleName, data.functionName)
  IN  Decided(IsRelativeCall(m, address) /\ symbol # Throws /\ Target(m, address) = symbol, m)

\* UnnamedRelativeFunctionCallSpecialSearch::doSearch: what is searched for
\* is where the bytes of the function point to.
CallsMatch(inner, m, data, address) ==
  IF IsRelativeCall(m, address) THEN PointsToMatch(inner, m, data, Target(m, address))
  ELSE Outcome("no", m)

\* The opcode of an indirect call is refused only if both of its bytes differ.
IsIndirectCall(m, address) ==
  m.byte[address] = IndirectOpCode[1] \/ m.byte[address + 1] = IndirectOpCode[2]

\* NamedAbsoluteIndirectFunctionCallSpecialSearch::doSearch
Caught(result) == IF result.how = "throws" THEN Outcome("no", result.memory) ELSE result
CallsIndirectlyNamed(inner, m, data, address) ==
  LET symbol == Symbol(m, data.moduleName, data.functionName)
  IN  IF ~IsIndirectCall(m, address) \/ symbol = Throws THEN Outcome("no", m)
      ELSE Caught(PointsToMatch(inner, m, DataPointer(PointerBytes(symbol), {}, <<>>),
                                Operand(m, address)))

\* UnnamedAbsoluteIndirectFunctionCallSpecialSearch::doSearch: any pointer
\* that points to what is searched for.
CallsIndirectlyMatch(inner, m, data, address) ==
  LET special == [searchBytesRva |-> 0, type |-> "DATA_POINTER", data |-> data]
      any == DataPointer([i \in 1..PtrBytes |-> Base - 1], 0..PtrBytes - 1, <<special>>)
  IN  IF IsIndirectCall(m, address) THEN PointsToMatch(inner, m, any, Operand(m, address))
      ELSE Outcome("no", m)

\* SpecialSearch::doSearch; the process dies if the instruction cannot be
\* read, and by an assertion if the search is blank.
SpecialHolds(inner, m, special, address) ==
  LET data == special.data
  IN  CASE special.type = "DATA_POINTER" -> PointsToMatch(inner, m, data, address)
        [] special.type # "DATA_POINTER" /\ ~Readable(m, address, InstructionSize) ->
             Outcome("died", m)
        [] OTHER ->
             CASE special.type = "NAMED_RELATIVE_FUNCTION_CALL" -> CallsNamed(m, data, address)
               [] special.type = "UNNAMED_RELATIVE_FUNCTION_CALL" ->
                    CallsMatch(inner, m, data, address)
               [] special.type = "NAMED_ABSOLUTE_INDIRECT_FUNCTION_CALL" ->
                    CallsIndirectlyNamed(inner, m, data, address)
               [] special.type = "UNNAMED_ABSOLUTE_INDIRECT_FUNCTION_CALL" ->
                    CallsIndirectlyMatch(inner, m, data, address)
               [] special.type = "BLANK" -> Outcome("died", m)

-----------------------------------------------------------------------------
(* doSearch_: a scan of pages. It goes on while `how` is "found"; next is  *)
(* where std::search is called again, end the end of the segment, and at   *)
(* the address whose bytes are looked at while `match` is "yes".           *)

Finding(how, m, found) == [how |-> how, memory |-> m, found |-> found]

Scan(inner, m, search) ==
  [how |-> "found", memory |-> m, found |-> {}, search |-> search, inner |-> inner,
   next |-> 0, end |-> 0, at |-> 0, match |-> "yes"]

\* The byte of the search at rva = i - 1: a special search comes before it,
\* and it may be ignored.
Compared(scan, i, special) ==
  LET same == \/ i - 1 \in scan.search.ignoredSearchBytesRvas
              \/ special.memory.byte[scan.at + i - 1] = scan.search.searchBytes[i]
  IN  [scan EXCEPT !.memory = special.memory,
                   !.match = IF special.how = "yes" /\ ~same THEN "no" ELSE special.how]

SpecialAt(scan, i) ==
  LET specials == scan.search.specialSearches
      here == {n \in DOMAIN specials : specials[n].searchBytesRva = i - 1}
  IN  IF here = {} THEN Outcome("yes", scan.memory)
      ELSE SpecialHolds(scan.inner, scan.memory, specials[Min(here)], scan.at + i - 1)

ByteMatched(scan, i) ==
  CASE scan.match # "yes" -> scan
    [] scan.match = "yes" /\ scan.at + i - 1 >= scan.end -> [scan EXCEPT !.match = "end"]
    [] OTHER -> Compared(scan, i, SpecialAt(scan, i))

Matched(scan, at) ==
  Folded([scan EXCEPT !.at = at, !.match = "yes"], Counter(Len(scan.search.searchBytes)),
         ByteMatched)

\* Mutant: the first result of a segment ends the search of it.
FirstOnly(scan) ==
  CASE scan.match = "yes" -> [scan EXCEPT !.found = @ \cup {scan.at}, !.next = scan.end]
    [] scan.match = "no" -> scan
    [] scan.match = "end" -> [scan EXCEPT !.next = scan.end]
    [] OTHER -> [scan EXCEPT !.how = scan.match]

\* std::search goes on behind each result; a search that has too few bytes
\* left ends it.
Searched(scan) ==
  CASE scan.match = "yes" ->
         [scan EXCEPT !.found = @ \cup {scan.at}, !.next = scan.at + Len(scan.search.searchBytes)]
    [] scan.match = "no" -> scan
    [] scan.match = "end" -> [scan EXCEPT !.next = scan.end]
    [] OTHER -> [scan EXCEPT !.how = scan.match]

SearchedAt(scan, at) ==
  IF scan.how # "found" \/ at < scan.next THEN scan ELSE Searched(Matched(scan, at))

\* A segment that cannot be read is made readable, and changed back unless
\* the search in it throws.
ChangedBack(scan, page) ==
  IF scan.how # "found" \/ page.isReadable THEN scan
  ELSE [scan EXCEPT !.memory = Protected(@, page)]

SearchedSegment(scan, page) ==
  LET opened == IF page.isReadable THEN scan.memory
                ELSE Protected(scan.memory, [page EXCEPT !.isReadable = TRUE])
      start == [scan EXCEPT !.memory = opened, !.next = page.start, !.end = page.start + page.size]
      addresses == [i \in 1..page.size |-> page.start + i - 1]
  IN  IF scan.how # "found" THEN scan
      ELSE ChangedBack(Folded(start, addresses, SearchedAt), page)

\* What a request comes to; the levels, of which special searches take one
\* for each depth and an indirect call another one, are never used up.
Ending(scan) == Finding(scan.how, scan.memory, scan.found)
Searcher(inner, level) ==
  [request \in Requests |->
     LET m == request.memory
         pages == queryPage(m, request.start, request.size)
     IN  CASE pages = InvalidPage -> Finding("throws", m, {})
           [] pages # InvalidPage /\ request.search.searchBytes = <<>> -> Finding("hangs", m, {})
           [] OTHER -> Ending(Folded(Scan(inner, m, request.search), pages, SearchedSegment))]

UsedUp == [request \in Requests |-> Finding("hangs", request.memory, {})]

doSearch_(m, search, start, size) ==
  Folded(UsedUp, Counter(2 * Depth), Searcher)[Request(m, search, start, size)]

-----------------------------------------------------------------------------
(* Search::doSearch and NameSearch::doSearch *)

\* The process dies reading the first segment of a module that has none.
doSearch(m, search) ==
  LET module == open(m, search.moduleName)
      parts == segments(m, module)
  IN  CASE ~checkSearchValid(search, Len(search.searchBytes)) \/ module = Throws ->
             Finding("throws", m, {})
        [] checkSearchValid(search, Len(search.searchBytes)) /\ module # Throws /\ parts = <<>> ->
             Finding("died", m, {})
        [] OTHER ->
             doSearch_(m, search, parts[1].start, Last(parts).start + Last(parts).size - parts[1].start)

doNameSearch(m, search) ==
  LET symbol == Symbol(m, search.search.moduleName, search.functionName)
      size == Len(search.search.searchBytes)
  IN  IF ~checkNameSearchValid(search, size) \/ symbol = Throws THEN Finding("throws", m, {})
      ELSE doSearch_(m, search.search, symbol + search.functionRva, size)
=============================================================================
