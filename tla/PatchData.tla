------------------------------- MODULE PatchData -------------------------------
(***************************************************************************)
(* What a plugin describes a patch with, and how it reaches a core: the    *)
(* classes of common/Search.cpp, Hook.cpp, Patch.cpp and Info.cpp, their   *)
(* serialise() and deserialise(), and checkValid(), which answers whether  *)
(* nothing is thrown. A union of types is a type with its data; what a     *)
(* class has from Search, which it is derived from, is its field `search`. *)
(***************************************************************************)
EXTENDS Wire

CONSTANTS
  Base,        \* the values of a byte are 0..Base - 1
  Depth,       \* bound on how deep searches are nested in special searches
  Throws,      \* the answer of an operation that throws
  Nothing      \* the data of a blank union

ASSUME DataAssumption == Base \in Nat \ {0} /\ Depth \in Nat

Byte == 0..Base - 1
Text == Seq(Nat)
Bytes == Seq(Byte)
Rvas == {S \in SUBSET Nat : IsFiniteSet(S)}

\* A relative call is an opcode and an address; an indirect one has two
\* bytes of opcode.
CallBytes == 1 + PtrBytes
IndirectCallBytes == 2 + PtrBytes

-----------------------------------------------------------------------------
(* SpecialSearch, Hook and Patch: what is the same in the three unions     *)

setType(union, type, data) == [union EXCEPT !.type = type, !.data = data]
clearType(union) == [union EXCEPT !.type = "BLANK", !.data = Nothing]
getTypeData(union, type) == IF union.type = type THEN union.data ELSE Throws
copyTypeFrom(union, other) ==
  IF other.type = "BLANK" THEN clearType(union)
  ELSE setType(union, other.type, getTypeData(other, other.type))

NewSpecialSearch == [searchBytesRva |-> 0, type |-> "BLANK", data |-> Nothing]
NewPatch == [type |-> "BLANK", data |-> Nothing]
NewHook ==
  [name |-> <<>>, hookRva |-> 0, returnRva |-> 0, extraStackSpace |-> 0,
   stackSpaceToPopAfterReturn |-> 0, prologueFunction |-> <<>>, epilogueFunction |-> <<>>,
   prologueInstructionsBytes |-> <<>>, epilogueInstructionsBytes |-> <<>>,
   headerIncludes |-> <<>>, type |-> "BLANK", data |-> Nothing]

-----------------------------------------------------------------------------
(* Searches *)

SpecialTypes ==
  <<"BLANK", "NAMED_RELATIVE_FUNCTION_CALL", "UNNAMED_RELATIVE_FUNCTION_CALL",
    "NAMED_ABSOLUTE_INDIRECT_FUNCTION_CALL", "UNNAMED_ABSOLUTE_INDIRECT_FUNCTION_CALL",
    "DATA_POINTER">>
NamedTypes == {"NAMED_RELATIVE_FUNCTION_CALL", "NAMED_ABSOLUTE_INDIRECT_FUNCTION_CALL"}
SearchTypes ==
  {"UNNAMED_RELATIVE_FUNCTION_CALL", "UNNAMED_ABSOLUTE_INDIRECT_FUNCTION_CALL", "DATA_POINTER"}

\* The special searches that have a search of the set `inner` in them.
SpecialSearchesOf(inner) ==
  LET Of(types, data) == [searchBytesRva : Nat, type : types, data : data]
  IN  Of({"BLANK"}, {Nothing}) \cup Of(NamedTypes, [moduleName : Text, functionName : Text])
        \cup Of(SearchTypes, inner)

\* The searches of the next depth, and those of each depth.
SearchesOf(inner, depth) ==
  [moduleName : Text, searchBytes : Bytes, ignoredSearchBytesRvas : Rvas,
   specialSearches : Seq(SpecialSearchesOf(inner))]
SearchesTo(depth) == Folded({}, Counter(depth), SearchesOf)

Searches == SearchesTo(Depth)
NameSearches == [search : Searches, functionName : Text, functionRva : Nat]

\* A search holds others, so that what is done with one comes in depths: at
\* each, `inner` is what is done with those of the depth before.

\* The name of the module of a named relative call is left out.
serialiseSpecialData(inner, special) ==
  CASE special.type = "NAMED_RELATIVE_FUNCTION_CALL" ->
         serialiseIntegralTypeContinuousContainer(special.data.functionName)
    [] special.type = "NAMED_ABSOLUTE_INDIRECT_FUNCTION_CALL" ->
         serialiseIntegralTypeContinuousContainer(special.data.moduleName)
           \o serialiseIntegralTypeContinuousContainer(special.data.functionName)
    [] OTHER -> inner[special.data]

serialiseSpecialSearch(inner, special) ==
  serialiseIntegralType(special.searchBytesRva)
    \o serialiseIntegralType(Place(SpecialTypes, special.type))
    \o IF special.type = "BLANK" THEN <<>>
       ELSE serialiseIntegralTypeContinuousContainer(serialiseSpecialData(inner, special))

SearchSerialiser(inner, depth) ==
  [search \in SearchesTo(depth) |->
     serialiseIntegralTypeContinuousContainer(search.moduleName)
       \o serialiseIntegralTypeContinuousContainer(search.searchBytes)
       \o serialiseIntegralTypeContainer(search.ignoredSearchBytesRvas)
       \o serialiseSerialisableTypeContainer(
            [i \in DOMAIN search.specialSearches |->
               serialiseSpecialSearch(inner, search.specialSearches[i])])]

serialiseSearch(search) == Folded(<<>>, Counter(Depth), SearchSerialiser)[search]

serialiseNameSearch(search) ==
  serialiseIntegralTypeContinuousContainer(serialiseSearch(search.search))
    \o serialiseIntegralTypeContinuousContainer(search.functionName)
    \o serialiseIntegralType(search.functionRva)

deserialiseSpecialData(inner, type, data) ==
  CASE type = "NAMED_RELATIVE_FUNCTION_CALL" ->
         [moduleName |-> <<>>, functionName |-> Fields(data, <<"continuous">>)[1]]
    [] type = "NAMED_ABSOLUTE_INDIRECT_FUNCTION_CALL" ->
         LET names == Fields(data, <<"continuous", "continuous">>)
         IN  [moduleName |-> names[1], functionName |-> names[2]]
    [] OTHER -> inner[data]

deserialiseSpecialSearch(inner, data) ==
  LET head == Fields(data, <<"integral", "integral">>)
      type == SpecialTypes[head[2] + 1]
      special == [NewSpecialSearch EXCEPT !.searchBytesRva = head[1]]
      body == Fields(data, <<"integral", "integral", "continuous">>)[3]
  IN  IF type = "BLANK" THEN clearType(special)
      ELSE setType(special, type, deserialiseSpecialData(inner, type, body))

SearchDeserialiser(inner, depth) ==
  [data \in Data |->
     LET fields == Fields(data, <<"continuous", "continuous", "container", "elements">>)
     IN  [moduleName |-> fields[1], searchBytes |-> fields[2],
          ignoredSearchBytesRvas |-> fields[3],
          specialSearches |->
            [i \in DOMAIN fields[4] |-> deserialiseSpecialSearch(inner, fields[4][i])]]]

deserialiseSearch(data) == Folded(<<>>, Counter(Depth), SearchDeserialiser)[data]

\* Mutant: the offset in the function is not read.
DeserialisedWithoutRva(data) ==
  LET fields == Fields(data, <<"continuous", "continuous", "integral">>)
  IN  [search |-> deserialiseSearch(fields[1]), functionName |-> fields[2], functionRva |-> 0]

deserialiseNameSearch(data) ==
  LET fields == Fields(data, <<"continuous", "continuous", "integral">>)
  IN  [search |-> deserialiseSearch(fields[1]), functionName |-> fields[2],
       functionRva |-> fields[3]]

\* The bytes after the offset of a special search that its type needs.
NeededBytes(special) ==
  CASE special.type \in {"NAMED_RELATIVE_FUNCTION_CALL", "UNNAMED_RELATIVE_FUNCTION_CALL"} ->
         CallBytes
    [] special.type \in {"NAMED_ABSOLUTE_INDIRECT_FUNCTION_CALL",
                         "UNNAMED_ABSOLUTE_INDIRECT_FUNCTION_CALL"} -> IndirectCallBytes
    [] special.type = "DATA_POINTER" -> PtrBytes

\* Search::checkValid: what a special search looks for is not checked itself.
checkSearchValid(search, minSearchBytes) ==
  LET specials == search.specialSearches
  IN  /\ search.moduleName # <<>>
      /\ Len(search.searchBytes) >= minSearchBytes
      /\ \A rva \in search.ignoredSearchBytesRvas : rva < Len(search.searchBytes)
      /\ \A i, j \in DOMAIN specials :
           specials[i].searchBytesRva = specials[j].searchBytesRva => i = j
      /\ \A i \in DOMAIN specials :
           /\ specials[i].type # "BLANK"
           /\ specials[i].searchBytesRva + NeededBytes(specials[i]) < Len(search.searchBytes)

checkNameSearchValid(search, minSearchBytes) ==
  checkSearchValid(search.search, minSearchBytes) /\ search.functionName # <<>>

SameFunction(newer, older) ==
  newer.search.moduleName = older.search.moduleName /\ newer.functionName = older.functionName

\* Mutant: what starts before the older search is not compared with it.
OverlapFromBehind(newer, older) ==
  /\ SameFunction(newer, older)
  /\ newer.functionRva <= older.functionRva + Len(older.search.searchBytes)
  /\ older.functionRva <= newer.functionRva

\* checkOverlapWith: where it throws. The length is the older one's for both.
checkOverlapWith(newer, older) ==
  /\ SameFunction(newer, older)
  /\ newer.functionRva <= older.functionRva + Len(older.search.searchBytes)
  /\ older.functionRva <= newer.functionRva + Len(older.search.searchBytes)

-----------------------------------------------------------------------------
(* Hooks *)

HookTypes == <<"BLANK", "NAME", "SEARCH">>

HookType ==
  LET Of(type, data) ==
        [name : Text, hookRva : Nat, returnRva : Nat, extraStackSpace : Nat,
         stackSpaceToPopAfterReturn : Nat, prologueFunction : Text, epilogueFunction : Text,
         prologueInstructionsBytes : Bytes, epilogueInstructionsBytes : Bytes,
         headerIncludes : Seq(Text), type : {type}, data : data]
  IN  Of("BLANK", {Nothing}) \cup Of("NAME", NameSearches) \cup Of("SEARCH", [search : Searches])

serialiseHook(hook) ==
  serialiseIntegralTypeContinuousContainer(hook.name)
    \o <<hook.hookRva, hook.returnRva, hook.extraStackSpace, hook.stackSpaceToPopAfterReturn>>
    \o serialiseIntegralTypeContinuousContainer(hook.prologueFunction)
    \o serialiseIntegralTypeContinuousContainer(hook.epilogueFunction)
    \o serialiseIntegralTypeContinuousContainer(hook.prologueInstructionsBytes)
    \o serialiseIntegralTypeContinuousContainer(hook.epilogueInstructionsBytes)
    \o serialiseSerialisableTypeContainer(hook.headerIncludes)
    \o serialiseIntegralType(Place(HookTypes, hook.type))
    \o CASE hook.type = "NAME" ->
              serialiseIntegralTypeContinuousContainer(
                serialiseIntegralTypeContinuousContainer(serialiseNameSearch(hook.data)))
         [] hook.type = "SEARCH" ->
              serialiseIntegralTypeContinuousContainer(
                serialiseIntegralTypeContinuousContainer(serialiseSearch(hook.data.search)))
         [] hook.type = "BLANK" -> <<>>

deserialiseHook(data) ==
  LET common == <<"continuous", "integral", "integral", "integral", "integral", "continuous",
                  "continuous", "continuous", "continuous", "elements", "integral">>
      f == Fields(data, common)
      inner == Fields(Fields(data, Append(common, "continuous"))[12], <<"continuous">>)[1]
      hook == [name |-> f[1], hookRva |-> f[2], returnRva |-> f[3], extraStackSpace |-> f[4],
               stackSpaceToPopAfterReturn |-> f[5], prologueFunction |-> f[6],
               epilogueFunction |-> f[7], prologueInstructionsBytes |-> f[8],
               epilogueInstructionsBytes |-> f[9], headerIncludes |-> f[10],
               type |-> "BLANK", data |-> Nothing]
      type == HookTypes[f[11] + 1]
  IN  CASE type = "NAME" -> setType(hook, "NAME", deserialiseNameSearch(inner))
        [] type = "SEARCH" -> setType(hook, "SEARCH", [search |-> deserialiseSearch(inner)])
        [] type = "BLANK" -> clearType(hook)

checkHookValid(hook) ==
  LET least == hook.hookRva + CallBytes + hook.returnRva
  IN  CASE hook.type = "NAME" -> checkNameSearchValid(hook.data, least)
        [] hook.type = "SEARCH" -> checkSearchValid(hook.data.search, least)
        [] hook.type = "BLANK" -> FALSE

-----------------------------------------------------------------------------
(* Patches *)

PatchTypes == <<"BLANK", "HOOK", "REPLACE_NAME", "REPLACE_SEARCH">>

PatchType ==
  [type : {"BLANK"}, data : {Nothing}]
    \cup [type : {"HOOK"}, data : [hookName : Text, functionBody : Text]]
    \cup [type : {"REPLACE_NAME"},
          data : [search : Searches, functionName : Text, functionRva : Nat,
                  replaceBytes : Bytes, ignoredReplaceBytesRvas : Rvas]]
    \cup [type : {"REPLACE_SEARCH"},
          data : [search : Searches, replaceBytes : Bytes, ignoredReplaceBytesRvas : Rvas]]

serialisePatchData(patch) ==
  CASE patch.type = "HOOK" ->
         serialiseIntegralTypeContinuousContainer(patch.data.hookName)
           \o serialiseIntegralTypeContinuousContainer(patch.data.functionBody)
    [] patch.type \in {"REPLACE_NAME", "REPLACE_SEARCH"} ->
         serialiseIntegralTypeContinuousContainer(patch.data.replaceBytes)
           \o serialiseIntegralTypeContainer(patch.data.ignoredReplaceBytesRvas)
           \o serialiseIntegralTypeContinuousContainer(
                IF patch.type = "REPLACE_NAME" THEN serialiseNameSearch(patch.data)
                ELSE serialiseSearch(patch.data.search))

serialisePatch(patch) ==
  serialiseIntegralType(Place(PatchTypes, patch.type))
    \o IF patch.type = "BLANK" THEN <<>>
       ELSE serialiseIntegralTypeContinuousContainer(serialisePatchData(patch))

\* The data of a replacement by name, or of one by its bytes alone.
ReplaceName(search, bytes, ignored) ==
  [search |-> search.search, functionName |-> search.functionName,
   functionRva |-> search.functionRva, replaceBytes |-> bytes,
   ignoredReplaceBytesRvas |-> ignored]
ReplaceSearch(search, bytes, ignored) ==
  [search |-> search, replaceBytes |-> bytes, ignoredReplaceBytesRvas |-> ignored]

deserialisePatchData(type, data) ==
  LET texts == Fields(data, <<"continuous", "continuous">>)
      fields == Fields(data, <<"continuous", "container", "continuous">>)
  IN  CASE type = "HOOK" -> [hookName |-> texts[1], functionBody |-> texts[2]]
        [] type = "REPLACE_NAME" ->
             ReplaceName(deserialiseNameSearch(fields[3]), fields[1], fields[2])
        [] type = "REPLACE_SEARCH" ->
             ReplaceSearch(deserialiseSearch(fields[3]), fields[1], fields[2])

deserialisePatch(data) ==
  LET type == PatchTypes[Fields(data, <<"integral">>)[1] + 1]
  IN  IF type = "BLANK" THEN clearType(NewPatch)
      ELSE setType(NewPatch, type,
                   deserialisePatchData(type, Fields(data, <<"integral", "continuous">>)[2]))

checkPatchValid(patch) ==
  LET Replaced ==
        /\ \A rva \in patch.data.ignoredReplaceBytesRvas : rva < Len(patch.data.replaceBytes)
        /\ Len(patch.data.replaceBytes) = Len(patch.data.search.searchBytes)
  IN  CASE patch.type = "HOOK" -> patch.data.hookName # <<>> /\ patch.data.functionBody # <<>>
        [] patch.type = "REPLACE_NAME" ->
             Replaced /\ checkNameSearchValid(patch.data, Len(patch.data.replaceBytes))
        [] patch.type = "REPLACE_SEARCH" ->
             Replaced /\ checkSearchValid(patch.data.search, Len(patch.data.replaceBytes))
        [] patch.type = "BLANK" -> FALSE

-----------------------------------------------------------------------------
(* Settings, information and packs *)

SettingTypes == <<"TEXT", "NUMBER", "SLIDER", "CHECKBOX">>

ExtraSettingType ==
  [label : Text, type : {"TEXT", "NUMBER", "SLIDER", "CHECKBOX"}, currentValue : Text,
   defaultValue : Text, isNewlineAfterLabel : BOOLEAN, size : Nat, min : Int, max : Int,
   interval : Nat, precision : Nat]
InfoType ==
  [name : Text, desc : Text, isCurrentlyEnabled : BOOLEAN, isDefaultEnabled : BOOLEAN,
   extraSettings : Seq(ExtraSettingType)]
PatchPackType ==
  [info : InfoType, requiredPlugins : Seq(Text), patches : Seq(PatchType),
   headerIncludes : Seq(Text), sharedVariables : Seq([name : Text, type : Text])]

serialiseExtraSetting(s) ==
  serialiseIntegralTypeContinuousContainer(s.label)
    \o serialiseIntegralType(Place(SettingTypes, s.type))
    \o serialiseIntegralTypeContinuousContainer(s.currentValue)
    \o serialiseIntegralTypeContinuousContainer(s.defaultValue)
    \o <<Bit(s.isNewlineAfterLabel), s.size, s.min, s.max, s.interval, s.precision>>

deserialiseExtraSetting(data) ==
  LET f == Fields(data, <<"continuous", "integral", "continuous", "continuous", "integral",
                          "integral", "integral", "integral", "integral", "integral">>)
  IN  [label |-> f[1], type |-> SettingTypes[f[2] + 1], currentValue |-> f[3], defaultValue |-> f[4],
       isNewlineAfterLabel |-> f[5] # 0, size |-> f[6], min |-> f[7], max |-> f[8],
       interval |-> f[9], precision |-> f[10]]

\* The place of the first setting with the label, or Throws.
getExtraSettingByLabel(extraSettings, label) ==
  LET places == {i \in DOMAIN extraSettings : extraSettings[i].label = label}
  IN  IF places = {} THEN Throws ELSE Min(places)

serialiseInfo(info) ==
  serialiseIntegralTypeContinuousContainer(info.name)
    \o serialiseIntegralTypeContinuousContainer(info.desc)
    \o <<Bit(info.isCurrentlyEnabled), Bit(info.isDefaultEnabled)>>
    \o serialiseSerialisableTypeContainer(
         [i \in DOMAIN info.extraSettings |-> serialiseExtraSetting(info.extraSettings[i])])

deserialiseInfo(data) ==
  LET f == Fields(data, <<"continuous", "continuous", "integral", "integral", "elements">>)
  IN  [name |-> f[1], desc |-> f[2], isCurrentlyEnabled |-> f[3] # 0, isDefaultEnabled |-> f[4] # 0,
       extraSettings |-> [i \in DOMAIN f[5] |-> deserialiseExtraSetting(f[5][i])]]

\* The shared variables, a std::map, are the pairs in the order of their names.
WithSharedVariable(data, variable) ==
  data \o serialiseIntegralTypeContinuousContainer(variable.name)
       \o serialiseIntegralTypeContinuousContainer(variable.type)

serialisePatchPack(pack) ==
  serialiseIntegralTypeContinuousContainer(serialiseInfo(pack.info))
    \o serialiseSerialisableTypeContainer(pack.requiredPlugins)
    \o serialiseSerialisableTypeContainer(
         [i \in DOMAIN pack.patches |-> serialisePatch(pack.patches[i])])
    \o serialiseSerialisableTypeContainer(pack.headerIncludes)
    \o Folded(<<Len(pack.sharedVariables)>>, pack.sharedVariables, WithSharedVariable)

\* The arguments of make_pair are read in an order the compiler chooses:
\* swapped is whether the second is read first. The pairs are in the order read.
deserialisePatchPack(data, swapped) ==
  LET common == <<"continuous", "elements", "elements", "elements", "integral">>
      f == Fields(data, common)
      all == Fields(data, common \o [i \in 1..2 * f[5] |-> "continuous"])
      Read(i) == [name |-> all[IF swapped THEN 5 + 2 * i ELSE 4 + 2 * i],
                  type |-> all[IF swapped THEN 4 + 2 * i ELSE 5 + 2 * i]]
  IN  [info |-> deserialiseInfo(f[1]), requiredPlugins |-> f[2],
       patches |-> [i \in DOMAIN f[3] |-> deserialisePatch(f[3][i])],
       headerIncludes |-> f[4], sharedVariables |-> [i \in 1..f[5] |-> Read(i)]]
=============================================================================
