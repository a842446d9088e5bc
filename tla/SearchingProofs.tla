---------------------------- MODULE SearchingProofs ----------------------------
(***************************************************************************)
(* What a search asks for, from the plugin to the bytes that are replaced, *)
(* whatever the hooks, the packs, the memory and the depth of searches:    *)
(* what is registered stands apart, what is received is what was sent, and *)
(* what a patch opened and changed comes back.                             *)
(***************************************************************************)
EXTENDS Searching, FiniteSetTheorems, WellFoundedInduction, TLAPS

-----------------------------------------------------------------------------
(* Loops                                                                   *)

SearchesLoop == INSTANCE LoopProofs WITH Body <- SearchesOf

LEMMA CounterFacts ==
  ASSUME NEW n \in Nat
  PROVE  Len(Counter(n)) = n /\ \A i \in 1..n : Counter(n)[i] = i
BY DEF Counter

\* Depths start again from nothing.
LEMMA SearchesDepths ==
  /\ SearchesTo(0) = {}
  /\ \A d \in Nat : SearchesTo(d + 1) = SearchesOf(SearchesTo(d), d + 1)
<1>1. ASSUME NEW d PROVE SearchesTo(d) = SearchesLoop!Fold({}, Counter(d))
  BY DEF SearchesTo, SearchesLoop!Fold, Folded, SearchesLoop!Folded
<1>2. SearchesTo(0) = {}
  <2>1. Len(Counter(0)) = 0
    BY CounterFacts
  <2> QED
    BY <1>1, <2>1, SearchesLoop!FoldNone
<1>3. ASSUME NEW d \in Nat PROVE SearchesTo(d + 1) = SearchesOf(SearchesTo(d), d + 1)
  <2> DEFINE xs == Counter(d + 1)
             ys == Counter(d)
  <2>1. /\ Len(ys) \in Nat /\ Len(xs) = Len(ys) + 1 /\ xs[Len(xs)] = d + 1
        /\ \A i \in 1..Len(ys) : ys[i] = xs[i]
    BY CounterFacts
  <2> HIDE DEF xs, ys
  <2>2. SearchesLoop!Fold({}, xs) = SearchesOf(SearchesLoop!Fold({}, ys), d + 1)
    BY <2>1, SearchesLoop!FoldMore
  <2> QED
    BY <1>1, <2>2 DEF xs, ys
<1> QED
  BY <1>2, <1>3

-----------------------------------------------------------------------------
(* What a search is                                                        *)

LEMMA SearchFacts ==
  ASSUME NEW s \in Searches
  PROVE  /\ s.moduleName \in Text /\ s.searchBytes \in Bytes
         /\ s.ignoredSearchBytesRvas \in Rvas
         /\ \E d \in 0..(Depth - 1) : s.specialSearches \in Seq(SpecialSearchesOf(SearchesTo(d)))
         /\ s = [moduleName |-> s.moduleName, searchBytes |-> s.searchBytes,
                 ignoredSearchBytesRvas |-> s.ignoredSearchBytesRvas,
                 specialSearches |-> s.specialSearches]
<1>1. s \in SearchesTo(Depth)
  BY DEF Searches
<1>2. Depth \in Nat
  BY DataAssumption
<1>3. Depth # 0
  BY <1>1, SearchesDepths
<1>4. Depth - 1 \in Nat /\ (Depth - 1) + 1 = Depth /\ Depth - 1 \in 0..(Depth - 1)
  BY <1>2, <1>3
<1>5. SearchesTo((Depth - 1) + 1) = SearchesOf(SearchesTo(Depth - 1), (Depth - 1) + 1)
  BY <1>4, SearchesDepths
<1>6. s \in SearchesOf(SearchesTo(Depth - 1), Depth)
  BY <1>1, <1>4, <1>5
<1>7. /\ s.moduleName \in Text /\ s.searchBytes \in Bytes
      /\ s.ignoredSearchBytesRvas \in Rvas
      /\ s.specialSearches \in Seq(SpecialSearchesOf(SearchesTo(Depth - 1)))
      /\ s = [moduleName |-> s.moduleName, searchBytes |-> s.searchBytes,
              ignoredSearchBytesRvas |-> s.ignoredSearchBytesRvas,
              specialSearches |-> s.specialSearches]
  BY <1>6 DEF SearchesOf
<1> QED
  BY <1>4, <1>7

LEMMA NameSearchFacts ==
  ASSUME NEW s \in NameSearches
  PROVE  s.search \in Searches /\ s.functionName \in Text /\ s.functionRva \in Nat
BY DEF NameSearches

\* What is kept in the manager.
TypeOK == hooks \in Seq(HookType) /\ packs \in Seq(PatchPackType)

LEMMA CopyIsSame ==
  ASSUME NEW hook \in HookType, hook.type # "BLANK"
  PROVE  copyTypeFrom(hook, hook) = hook
BY DEF HookType, copyTypeFrom, setType, getTypeData

LEMMA HookFacts ==
  ASSUME NEW hook \in HookType
  PROVE  /\ hook.type \in {"BLANK", "NAME", "SEARCH"}
         /\ hook.type = "NAME" => hook.data \in NameSearches
         /\ hook.type = "SEARCH" => hook.data \in [search : Searches]
BY DEF HookType

LEMMA PatchFacts ==
  ASSUME NEW patch \in PatchType
  PROVE  /\ patch.type \in {"BLANK", "HOOK", "REPLACE_NAME", "REPLACE_SEARCH"}
         /\ patch.type = "HOOK" => patch.data \in [hookName : Text, functionBody : Text]
         /\ patch.type = "REPLACE_NAME" =>
              patch.data \in [search : Searches, functionName : Text, functionRva : Nat,
                              replaceBytes : Bytes, ignoredReplaceBytesRvas : Rvas]
         /\ patch.type = "REPLACE_SEARCH" =>
              patch.data \in [search : Searches, replaceBytes : Bytes,
                              ignoredReplaceBytesRvas : Rvas]
BY DEF PatchType

LEMMA AddedFacts ==
  ASSUME NEW pack \in PatchPackType
  PROVE  Added(pack) \in PatchPackType /\ Added(pack).patches = pack.patches
<1> DEFINE es == pack.info.extraSettings
           new == [i \in DOMAIN es |-> [es[i] EXCEPT !.currentValue = es[i].defaultValue]]
<1>1. es \in Seq(ExtraSettingType)
  BY DEF PatchPackType, InfoType
<1>2. ASSUME NEW e \in ExtraSettingType PROVE [e EXCEPT !.currentValue = e.defaultValue] \in ExtraSettingType
  BY DEF ExtraSettingType
<1>3. new \in Seq(ExtraSettingType)
  <2>1. DOMAIN es = 1..Len(es) /\ Len(es) \in Nat
    BY <1>1
  <2>2. \A i \in 1..Len(es) : es[i] \in ExtraSettingType
    BY <1>1
  <2>3. new \in [1..Len(es) -> ExtraSettingType]
    BY <1>2, <2>1, <2>2
  <2> QED
    BY <2>1, <2>3
<1>4. Added(pack) = [pack EXCEPT !.info = [pack.info EXCEPT
                       !.isCurrentlyEnabled = pack.info.isDefaultEnabled, !.extraSettings = new]]
  BY DEF Added, PatchPackType, InfoType
<1> HIDE DEF new
<1>5. pack.info \in InfoType /\ pack.info.isDefaultEnabled \in BOOLEAN
  BY DEF PatchPackType, InfoType
<1>6. [pack.info EXCEPT !.isCurrentlyEnabled = pack.info.isDefaultEnabled, !.extraSettings = new] \in InfoType
  BY <1>3, <1>5 DEF InfoType
<1> QED
  BY <1>4, <1>6 DEF PatchPackType

\* A setting of a pack: the rest of the pack stays.
LEMMA SettingFacts ==
  ASSUME NEW pack \in PatchPackType, NEW place, NEW text \in Text
  PROVE  /\ [pack EXCEPT !.info.extraSettings[place].currentValue = text] \in PatchPackType
         /\ [pack EXCEPT !.info.extraSettings[place].currentValue = text].patches = pack.patches
<1> DEFINE es == pack.info.extraSettings
           new == [es EXCEPT ![place].currentValue = text]
<1>1. es \in Seq(ExtraSettingType)
  BY DEF PatchPackType, InfoType
<1>2. ASSUME NEW e \in ExtraSettingType PROVE [e EXCEPT !.currentValue = text] \in ExtraSettingType
  BY DEF ExtraSettingType
<1>3. new \in Seq(ExtraSettingType)
  <2>1. DOMAIN es = 1..Len(es) /\ Len(es) \in Nat /\ es \in [1..Len(es) -> ExtraSettingType]
    BY <1>1
  <2>2. new \in [1..Len(es) -> ExtraSettingType]
    BY <1>2, <2>1
  <2> QED
    BY <2>1, <2>2
<1>4. [pack EXCEPT !.info.extraSettings[place].currentValue = text]
        = [pack EXCEPT !.info = [pack.info EXCEPT !.extraSettings = new]]
  BY DEF PatchPackType, InfoType
<1> HIDE DEF new
<1>5. [pack.info EXCEPT !.extraSettings = new] \in InfoType
  BY <1>3 DEF InfoType, PatchPackType
<1> QED
  BY <1>4, <1>5 DEF PatchPackType

LEMMA InputsAreTyped ==
  /\ \A hook \in Hooks : hook \in HookType
  /\ \A pack \in Packs : pack \in PatchPackType
  /\ \A text \in Texts : text \in Text
BY SearchingAssumption DEF Texts, Text

LEMMA Appended ==
  ASSUME NEW S, NEW xs \in Seq(S), NEW x \in S
  PROVE  /\ Append(xs, x) \in Seq(S) /\ DOMAIN Append(xs, x) = 1..Len(xs) + 1
         /\ DOMAIN xs = 1..Len(xs) /\ Len(xs) \in Nat
         /\ \A i \in 1..Len(xs) : Append(xs, x)[i] = xs[i]
         /\ Append(xs, x)[Len(xs) + 1] = x
OBVIOUS

\* What each step does to what is registered.
LEMMA RegisterHookFacts ==
  ASSUME NEW hook \in Hooks, RegisterHook(hook)
  PROVE  hook.type # "BLANK" /\ hooks' = Append(hooks, hook) /\ packs' = packs
<1>1. hook \in HookType
  BY InputsAreTyped
<1>2. hook.type # "BLANK"
  BY DEF RegisterHook, checkHookValid
<1> QED
  BY <1>1, <1>2, CopyIsSame DEF RegisterHook

LEMMA SetExtraSettingFacts ==
  ASSUME packs \in Seq(PatchPackType), NEW label, NEW text \in Texts, SetExtraSetting(label, text)
  PROVE  /\ packs' \in Seq(PatchPackType) /\ DOMAIN packs' = DOMAIN packs
         /\ \A i \in DOMAIN packs : packs'[i].patches = packs[i].patches
         /\ hooks' = hooks
<1>0. PICK p \in DOMAIN packs : \E place :
        /\ packs' = [packs EXCEPT ![p].info.extraSettings[place].currentValue = text]
        /\ hooks' = hooks
  BY DEF SetExtraSetting
<1>1. PICK place : /\ packs' = [packs EXCEPT ![p].info.extraSettings[place].currentValue = text]
                   /\ hooks' = hooks
  BY <1>0
<1> DEFINE new == [packs[p] EXCEPT !.info.extraSettings[place].currentValue = text]
<1>2. new \in PatchPackType /\ new.patches = packs[p].patches
  <2>1. packs[p] \in PatchPackType
    OBVIOUS
  <2> QED
    BY <2>1, InputsAreTyped, SettingFacts
<1>3. packs' = [packs EXCEPT ![p] = new]
  BY <1>1
<1> HIDE DEF new
<1>4. DOMAIN packs = 1..Len(packs) /\ Len(packs) \in Nat /\ packs \in [1..Len(packs) -> PatchPackType]
  OBVIOUS
<1>5. packs' \in [1..Len(packs) -> PatchPackType]
  BY <1>2, <1>3, <1>4
<1>6. packs' \in Seq(PatchPackType)
  BY <1>4, <1>5
<1> QED
  BY <1>1, <1>2, <1>3, <1>4, <1>5, <1>6

LEMMA TypeStep ==
  ASSUME TypeOK, [Next]_vars
  PROVE  TypeOK'
<1> USE DEF TypeOK
<1>1. ASSUME NEW hook \in Hooks, RegisterHook(hook) PROVE TypeOK'
  BY <1>1, RegisterHookFacts, InputsAreTyped, Appended
<1>2. ASSUME NEW pack \in Packs, AddPatchPack(pack) PROVE TypeOK'
  BY <1>2, AddedFacts, InputsAreTyped, Appended DEF AddPatchPack
<1>3. ASSUME NEW label \in Labels, NEW text \in Texts, SetExtraSetting(label, text) PROVE TypeOK'
  BY <1>3, SetExtraSettingFacts
<1>4. ASSUME SendAgain \/ Receive \/ Pass \/ Undo \/ UNCHANGED vars PROVE TypeOK'
  BY <1>4 DEF SendAgain, Receive, Pass, Undo, vars
<1> QED
  BY <1>1, <1>2, <1>3, <1>4 DEF Next

\* Two searches by name that are in order are apart, or the later is longer.
InOrder(older, newer) == Longer(newer, older) \/ Apart(older, newer)

LEMMA CheckedInOrder ==
  ASSUME NEW older, NEW newer, older.search \in Searches, newer.search \in Searches,
         older.functionRva \in Nat, newer.functionRva \in Nat, ~ checkOverlapWith(newer, older)
  PROVE  InOrder(older, newer)
<1>1. /\ older.search.searchBytes \in Bytes /\ newer.search.searchBytes \in Bytes
  BY SearchFacts
<1>2. /\ Len(older.search.searchBytes) \in Nat /\ Len(newer.search.searchBytes) \in Nat
  BY <1>1 DEF Bytes
<1>3. SameFunction(newer, older) <=> SameFunction(older, newer)
  BY DEF SameFunction
<1>4. \A a, b, m, n \in Nat :
        /\ ~ (b <= a + m) => a + m <= b
        /\ ~ (a <= b + m) => n > m \/ b + n <= a
  OBVIOUS
<1>5. CASE ~ SameFunction(newer, older)
  BY <1>3, <1>5 DEF InOrder, Apart
<1>6. CASE ~ (newer.functionRva <= older.functionRva + Len(older.search.searchBytes))
  BY <1>2, <1>4, <1>6 DEF InOrder, Apart
<1>7. CASE ~ (older.functionRva <= newer.functionRva + Len(older.search.searchBytes))
  BY <1>2, <1>4, <1>7 DEF InOrder, Longer, Apart
<1> QED
  BY <1>5, <1>6, <1>7 DEF checkOverlapWith

HooksInOrder ==
  \A i, j \in DOMAIN hooks :
    i < j /\ hooks[i].type = "NAME" /\ hooks[j].type = "NAME" => InOrder(hooks[i].data, hooks[j].data)
PacksInOrder ==
  \A p, q \in DOMAIN packs : p < q =>
    \A i \in NamedReplaces(packs[p]), j \in NamedReplaces(packs[q]) :
      InOrder(packs[p].patches[i].data, packs[q].patches[j].data)

LEMMA HooksStayInOrder ==
  ASSUME TypeOK, HooksInOrder, NEW hook \in Hooks, RegisterHook(hook)
  PROVE  HooksInOrder'
<1>1. hook \in HookType /\ hook.type # "BLANK" /\ hooks' = Append(hooks, hook)
  BY RegisterHookFacts, InputsAreTyped
<1>2. /\ DOMAIN hooks' = 1..Len(hooks) + 1 /\ DOMAIN hooks = 1..Len(hooks) /\ Len(hooks) \in Nat
      /\ \A i \in 1..Len(hooks) : hooks'[i] = hooks[i]
      /\ hooks'[Len(hooks) + 1] = hook
  BY <1>1, Appended DEF TypeOK
<1>3. SUFFICES ASSUME NEW i \in 1..Len(hooks) + 1, NEW j \in 1..Len(hooks) + 1, i < j,
                      hooks'[i].type = "NAME", hooks'[j].type = "NAME"
               PROVE  InOrder(hooks'[i].data, hooks'[j].data)
  BY <1>2 DEF HooksInOrder
<1>4. i \in 1..Len(hooks) /\ hooks'[i] = hooks[i]
  BY <1>2, <1>3
<1>5. CASE j \in 1..Len(hooks)
  BY <1>2, <1>3, <1>4, <1>5 DEF HooksInOrder
<1>6. CASE j = Len(hooks) + 1
  <2>1. hooks'[j] = hook /\ hook.type = "NAME"
    BY <1>2, <1>3, <1>6
  <2>2. ~ checkOverlapWith(hook.data, hooks[i].data)
    BY <1>2, <1>3, <1>4, <2>1 DEF RegisterHook
  <2>3. hook.data \in NameSearches /\ hooks[i].data \in NameSearches
    <3>1. hooks[i] \in HookType /\ hooks[i].type = "NAME"
      BY <1>3, <1>4 DEF TypeOK
    <3> QED
      BY <1>1, <2>1, <3>1, HookFacts
  <2>4. InOrder(hooks[i].data, hook.data)
    BY <2>2, <2>3, NameSearchFacts, CheckedInOrder
  <2> QED
    BY <1>4, <2>1, <2>4
<1> QED
  BY <1>2, <1>5, <1>6

LEMMA PacksStayInOrder ==
  ASSUME TypeOK, PacksInOrder, NEW pack \in Packs, AddPatchPack(pack)
  PROVE  PacksInOrder'
<1> DEFINE new == Added(pack)
<1>1. pack \in PatchPackType /\ new \in PatchPackType /\ new.patches = pack.patches
      /\ packs' = Append(packs, new)
  BY InputsAreTyped, AddedFacts DEF AddPatchPack
<1> HIDE DEF new
<1>2. /\ DOMAIN packs' = 1..Len(packs) + 1 /\ DOMAIN packs = 1..Len(packs) /\ Len(packs) \in Nat
      /\ \A i \in 1..Len(packs) : packs'[i] = packs[i]
      /\ packs'[Len(packs) + 1] = new
  BY <1>1, Appended DEF TypeOK
<1>3. SUFFICES ASSUME NEW p \in 1..Len(packs) + 1, NEW q \in 1..Len(packs) + 1, p < q,
                      NEW i \in NamedReplaces(packs'[p]), NEW j \in NamedReplaces(packs'[q])
               PROVE  InOrder(packs'[p].patches[i].data, packs'[q].patches[j].data)
  BY <1>2 DEF PacksInOrder
<1>4. p \in 1..Len(packs) /\ packs'[p] = packs[p]
  BY <1>2, <1>3
<1>5. CASE q \in 1..Len(packs)
  BY <1>2, <1>3, <1>4, <1>5 DEF PacksInOrder
<1>6. CASE q = Len(packs) + 1
  <2>1. packs'[q] = new /\ j \in NamedReplaces(pack) /\ i \in NamedReplaces(packs[p])
    BY <1>1, <1>2, <1>3, <1>4, <1>6 DEF NamedReplaces
  <2>2. ~ checkOverlapWith(pack.patches[j].data, packs[p].patches[i].data)
    BY <1>2, <1>4, <2>1 DEF AddPatchPack
  <2>3. /\ packs[p] \in PatchPackType /\ pack.patches[j] \in PatchType /\ packs[p].patches[i] \in PatchType
        /\ pack.patches[j].type = "REPLACE_NAME" /\ packs[p].patches[i].type = "REPLACE_NAME"
    <3>1. packs[p] \in PatchPackType
      BY <1>4 DEF TypeOK
    <3>2. pack.patches \in Seq(PatchType) /\ packs[p].patches \in Seq(PatchType)
      BY <1>1, <3>1 DEF PatchPackType
    <3>3. j \in DOMAIN pack.patches /\ i \in DOMAIN packs[p].patches
          /\ pack.patches[j].type = "REPLACE_NAME" /\ packs[p].patches[i].type = "REPLACE_NAME"
      BY <2>1 DEF NamedReplaces
    <3> QED
      BY <3>1, <3>2, <3>3
  <2>4. /\ pack.patches[j].data.search \in Searches /\ packs[p].patches[i].data.search \in Searches
        /\ pack.patches[j].data.functionRva \in Nat /\ packs[p].patches[i].data.functionRva \in Nat
    BY <2>3, PatchFacts
  <2>5. InOrder(packs[p].patches[i].data, pack.patches[j].data)
    BY <2>2, <2>4, CheckedInOrder
  <2> QED
    BY <1>1, <1>4, <2>1, <2>5
<1> QED
  BY <1>2, <1>5, <1>6

OrderInv == TypeOK /\ HooksInOrder /\ PacksInOrder

LEMMA OrderKept ==
  ASSUME OrderInv, [Next]_vars
  PROVE  OrderInv'
<1> USE DEF OrderInv
<1>1. TypeOK'
  BY TypeStep
<1>2. ASSUME NEW hook \in Hooks, RegisterHook(hook) PROVE HooksInOrder' /\ PacksInOrder'
  BY <1>2, HooksStayInOrder, RegisterHookFacts DEF PacksInOrder
<1>3. ASSUME NEW pack \in Packs, AddPatchPack(pack) PROVE HooksInOrder' /\ PacksInOrder'
  BY <1>3, PacksStayInOrder DEF AddPatchPack, HooksInOrder
<1>4. ASSUME NEW label \in Labels, NEW text \in Texts, SetExtraSetting(label, text)
      PROVE  HooksInOrder' /\ PacksInOrder'
  <2>1. /\ DOMAIN packs' = DOMAIN packs /\ hooks' = hooks
        /\ \A i \in DOMAIN packs : packs'[i].patches = packs[i].patches
    BY <1>4, SetExtraSettingFacts DEF TypeOK
  <2> QED
    BY <2>1 DEF HooksInOrder, PacksInOrder, NamedReplaces
<1>5. ASSUME SendAgain \/ Receive \/ Pass \/ Undo \/ UNCHANGED vars PROVE HooksInOrder' /\ PacksInOrder'
  <2>1. hooks' = hooks /\ packs' = packs
    BY <1>5 DEF SendAgain, Receive, Pass, Undo, vars
  <2> QED
    BY <2>1 DEF HooksInOrder, PacksInOrder
<1> QED
  BY <1>1, <1>2, <1>3, <1>4, <1>5 DEF Next

\* RegisteredApart: two hooks of the same function, or two replacements of
\* two packs, share no byte unless the later one is the longer one, whatever
\* the plugins register and in which order (checkOverlapWith in registerHook
\* and addPatchPack).
THEOREM RegisteredStayApart == Spec => []RegisteredApart
<1>1. Init => OrderInv
  BY DEF Init, OrderInv, TypeOK, HooksInOrder, PacksInOrder
<1>2. OrderInv => RegisteredApart
  BY DEF OrderInv, HooksInOrder, PacksInOrder, RegisteredApart, InOrder
<1> QED
  BY <1>1, <1>2, OrderKept, PTL DEF Spec

Loops == INSTANCE LoopProofs WITH Body <- Times
ElementLoop == INSTANCE LoopProofs WITH Body <- WithElement
ElementReadLoop == INSTANCE LoopProofs WITH Body <- ElementRead
FieldLoop == INSTANCE LoopProofs WITH Body <- FieldRead
SerialiserLoop == INSTANCE LoopProofs WITH Body <- SearchSerialiser
DeserialiserLoop == INSTANCE LoopProofs WITH Body <- SearchDeserialiser
AsSentLoop == INSTANCE LoopProofs WITH Body <- SearchesAsSent

-----------------------------------------------------------------------------
(* Data                                                                    *)

LEMMA JoinedFacts ==
  ASSUME NEW a \in Data, NEW b \in Data
  PROVE  /\ a \o b \in Data /\ Len(a \o b) = Len(a) + Len(b)
         /\ \A i \in 1..Len(a) : (a \o b)[i] = a[i]
         /\ \A i \in 1..Len(b) : (a \o b)[Len(a) + i] = b[i]
BY DEF Data

LEMMA SameData ==
  ASSUME NEW a \in Data, NEW b \in Data, Len(a) = Len(b), \A i \in 1..Len(a) : a[i] = b[i]
  PROVE  a = b
BY DEF Data

LEMMA Associative ==
  ASSUME NEW a \in Data, NEW b \in Data, NEW c \in Data
  PROVE  (a \o b) \o c = a \o (b \o c)
<1>1. /\ a \o b \in Data /\ b \o c \in Data /\ Len(a) \in Nat /\ Len(b) \in Nat /\ Len(c) \in Nat
      /\ Len(a \o b) = Len(a) + Len(b) /\ Len(b \o c) = Len(b) + Len(c)
  BY JoinedFacts DEF Data
<1>2. /\ (a \o b) \o c \in Data /\ a \o (b \o c) \in Data
      /\ Len((a \o b) \o c) = Len(a) + Len(b) + Len(c)
      /\ Len(a \o (b \o c)) = Len(a) + Len(b) + Len(c)
  BY <1>1, JoinedFacts
<1>3. ASSUME NEW i \in 1..Len(a) + Len(b) + Len(c)
      PROVE  ((a \o b) \o c)[i] = (a \o (b \o c))[i]
  <2>1. CASE i \in 1..Len(a)
    BY <1>1, <2>1, JoinedFacts
  <2>2. CASE i \in Len(a) + 1..Len(a) + Len(b)
    <3>1. PICK j \in 1..Len(b) : i = Len(a) + j
      BY <1>1, <2>2
    <3>2. ((a \o b) \o c)[i] = (a \o b)[Len(a) + j] /\ (a \o b)[Len(a) + j] = b[j]
      BY <1>1, <2>2, <3>1, JoinedFacts
    <3>3. (a \o (b \o c))[Len(a) + j] = (b \o c)[j] /\ (b \o c)[j] = b[j]
      BY <1>1, <3>1, JoinedFacts
    <3> QED
      BY <3>1, <3>2, <3>3
  <2>3. CASE i \in Len(a) + Len(b) + 1..Len(a) + Len(b) + Len(c)
    <3>1. PICK j \in 1..Len(c) : i = Len(a) + Len(b) + j
      <4> DEFINE j == i - (Len(a) + Len(b))
      <4>1. j \in 1..Len(c) /\ i = Len(a) + Len(b) + j
        BY <1>1, <2>3
      <4> QED
        BY <4>1
    <3>2. ((a \o b) \o c)[Len(a \o b) + j] = c[j]
      BY <1>1, <3>1, JoinedFacts
    <3>3. Len(b) + j \in 1..Len(b \o c) /\ (b \o c)[Len(b) + j] = c[j]
      BY <1>1, <3>1, JoinedFacts
    <3>4. (a \o (b \o c))[Len(a) + (Len(b) + j)] = c[j]
      BY <1>1, <3>3, JoinedFacts
    <3> QED
      BY <1>1, <3>1, <3>2, <3>4
  <2> QED
    BY <1>1, <2>1, <2>2, <2>3
<1> QED
  BY <1>2, <1>3, SameData

LEMMA SplitData ==
  ASSUME NEW a \in Data, NEW b \in Data
  PROVE  /\ SubSeq(a \o b, 1, Len(a)) = a
         /\ SubSeq(a \o b, Len(a) + 1, Len(a \o b)) = b
<1>1. /\ a \o b \in Data /\ Len(a) \in Nat /\ Len(b) \in Nat /\ Len(a \o b) = Len(a) + Len(b)
  BY JoinedFacts DEF Data
<1>2. \A m \in 1..Len(a \o b) + 1, n \in 0..Len(a \o b) : n >= m - 1 =>
        /\ SubSeq(a \o b, m, n) \in Data /\ Len(SubSeq(a \o b, m, n)) = n - m + 1
        /\ \A i \in 1..(n - m + 1) : SubSeq(a \o b, m, n)[i] = (a \o b)[m + i - 1]
  BY <1>1 DEF Data
<1>3. SubSeq(a \o b, 1, Len(a)) = a
  <2> DEFINE s == SubSeq(a \o b, 1, Len(a))
  <2>1. s \in Data /\ Len(s) = Len(a) /\ \A i \in 1..Len(a) : s[i] = (a \o b)[1 + i - 1]
    BY <1>1, <1>2
  <2>2. \A i \in 1..Len(a) : s[i] = a[i]
    BY <2>1, JoinedFacts
  <2> QED
    BY <2>1, <2>2, SameData
<1>4. SubSeq(a \o b, Len(a) + 1, Len(a \o b)) = b
  <2> DEFINE s == SubSeq(a \o b, Len(a) + 1, Len(a \o b))
  <2>1. s \in Data /\ Len(s) = Len(b) /\ \A i \in 1..Len(b) : s[i] = (a \o b)[Len(a) + 1 + i - 1]
    BY <1>1, <1>2
  <2> HIDE DEF s
  <2>2. ASSUME NEW i \in 1..Len(b) PROVE s[i] = b[i]
    <3>1. Len(a) + 1 + i - 1 = Len(a) + i
      BY <1>1
    <3>2. s[i] = (a \o b)[Len(a) + i]
      BY <2>1, <3>1
    <3> QED
      BY <3>2, JoinedFacts
  <2>3. s = b
    BY <2>1, <2>2, SameData
  <2> QED
    BY <2>3 DEF s
<1> QED
  BY <1>3, <1>4

\* A container is its length and what is in it.
Chunk(c) == <<Len(c)>> \o c

LEMMA ChunkFacts ==
  ASSUME NEW c \in Data
  PROVE  /\ Chunk(c) \in Data /\ serialiseIntegralTypeContinuousContainer(c) = Chunk(c)
         /\ Len(Chunk(c)) = 1 + Len(c) /\ Chunk(c)[1] = Len(c)
<1>1. <<Len(c)>> \in Data /\ Len(<<Len(c)>>) = 1 /\ <<Len(c)>>[1] = Len(c)
  BY DEF Data
<1> QED
  BY <1>1, JoinedFacts DEF Chunk, serialiseIntegralTypeContinuousContainer

FieldOf(kind, data) ==
  CASE kind = "integral" -> deserialiseIntegralType(data)
    [] kind = "continuous" -> deserialiseIntegralTypeContinuousContainer(data)
    [] kind = "container" -> deserialiseIntegralTypeContainer(data)
    [] kind = "elements" -> deserialiseDeserialisableTypeContainer(data)

\* The piece of the data that a value of the kind is read from.
Reads(kind, value, piece) ==
  /\ piece \in Data
  /\ \A rest \in Data : FieldOf(kind, piece \o rest) = [value |-> value, rest |-> rest]

LEMMA IntegralRead ==
  ASSUME NEW t \in Int
  PROVE  Reads("integral", t, <<t>>) /\ serialiseIntegralType(t) = <<t>>
<1>1. <<t>> \in Data
  BY DEF Data
<1>2. ASSUME NEW rest \in Data PROVE Head(<<t>> \o rest) = t /\ Tail(<<t>> \o rest) = rest
  BY <1>2 DEF Data
<1> QED
  BY <1>1, <1>2 DEF Reads, FieldOf, deserialiseIntegralType, serialiseIntegralType

\* What is behind a size: as much as it says, and the rest.
LEMMA SizedRead ==
  ASSUME NEW size \in Int, NEW c \in Data, NEW rest \in Data,
         NEW data, data = (<<size>> \o c) \o rest
  PROVE  /\ Head(data) = size /\ SubSeq(data, 2, 1 + Len(c)) = c
         /\ SubSeq(data, 2 + Len(c), Len(data)) = rest
<1> DEFINE one == <<size>>
           sized == one \o c
<1>0. one \in Data /\ Len(one) = 1 /\ one[1] = size /\ Len(c) \in Nat /\ Len(rest) \in Nat
  BY DEF Data
<1> HIDE DEF one
<1>1. sized \in Data /\ Len(sized) = 1 + Len(c) /\ sized[1] = size
  <2>1. /\ sized \in Data /\ Len(sized) = Len(one) + Len(c)
        /\ \A i \in 1..Len(one) : sized[i] = one[i]
    BY <1>0, JoinedFacts
  <2> HIDE DEF sized
  <2>2. 1 \in 1..Len(one)
    BY <1>0
  <2> QED
    BY <1>0, <2>1, <2>2
<1>2. data = sized \o rest
  BY DEF one
<1>3. data \in Data /\ Head(data) = size /\ Len(data) = 1 + Len(c) + Len(rest)
  <2>0. 1 \in 1..Len(sized)
    BY <1>0, <1>1
  <2> HIDE DEF sized
  <2>1. /\ data \in Data /\ Len(data) = Len(sized) + Len(rest)
        /\ \A i \in 1..Len(sized) : data[i] = sized[i]
    <3>1. sized \in Data /\ rest \in Data
      BY <1>1
    <3>2. /\ sized \o rest \in Data /\ Len(sized \o rest) = Len(sized) + Len(rest)
          /\ \A i \in 1..Len(sized) : (sized \o rest)[i] = sized[i]
      BY <3>1, JoinedFacts, Zenon
    <3> QED
      BY <1>2, <3>2, Zenon
  <2>2. Head(data) = data[1]
    BY <2>1 DEF Data
  <2> QED
    BY <1>0, <1>1, <2>0, <2>1, <2>2
<1>4. SubSeq(data, 2 + Len(c), Len(data)) = rest
  <2>1. SubSeq(data, Len(sized) + 1, Len(data)) = rest
    <3> HIDE DEF sized
    <3> QED
      BY <1>1, <1>2, SplitData
  <2>2. Len(sized) + 1 = 2 + Len(c)
    BY <1>0, <1>1
  <2> QED
    BY <2>1, <2>2
<1>5. SubSeq(data, 2, 1 + Len(c)) = c
  <2> DEFINE s == SubSeq(data, 2, 1 + Len(c))
  <2>1. s \in Data /\ Len(s) = Len(c) /\ \A i \in 1..Len(c) : s[i] = data[i + 1]
    BY <1>0, <1>3 DEF Data
  <2> HIDE DEF s
  <2>2. ASSUME NEW i \in 1..Len(c) PROVE s[i] = c[i]
    <3>1. i + 1 \in 1..Len(sized) /\ i + 1 = Len(one) + i
      BY <1>0, <1>1
    <3>2. sized[Len(one) + i] = c[i]
      BY <1>0, JoinedFacts
    <3> HIDE DEF sized
    <3>3. data[i + 1] = sized[i + 1]
      BY <1>1, <1>2, <3>1, JoinedFacts
    <3> QED
      BY <2>1, <3>1, <3>2, <3>3
  <2>3. s = c
    BY <2>1, <2>2, SameData
  <2> QED
    BY <2>3 DEF s
<1> QED
  BY <1>3, <1>4, <1>5

LEMMA ContinuousReadBack ==
  ASSUME NEW c \in Data, NEW rest \in Data
  PROVE  deserialiseIntegralTypeContinuousContainer(Chunk(c) \o rest) = [value |-> c, rest |-> rest]
<1> DEFINE data == Chunk(c) \o rest
           n == Len(c)
<1>1. n \in Int /\ data = (<<n>> \o c) \o rest
  BY DEF Chunk, Data
<1>2. n = Len(c)
  OBVIOUS
<1> HIDE DEF data, n
<1>3. /\ Head(data) = n /\ SubSeq(data, 2, 1 + Len(c)) = c
      /\ SubSeq(data, 2 + Len(c), Len(data)) = rest
  BY <1>1, SizedRead
<1> QED
  BY <1>2, <1>3 DEF deserialiseIntegralTypeContinuousContainer, data

LEMMA ContinuousRead ==
  ASSUME NEW c \in Data
  PROVE  Reads("continuous", c, Chunk(c))
BY ChunkFacts, ContinuousReadBack DEF Reads, FieldOf

\* The set of integers in its order, each of them once.
LEMMA AscendingFacts ==
  ASSUME NEW S \in SUBSET Int, IsFiniteSet(S)
  PROVE  /\ Ascending(S) \in Seq(S) /\ Len(Ascending(S)) = Cardinality(S) /\ Cardinality(S) \in Nat
         /\ \A i, j \in 1..Len(Ascending(S)) : i < j => Ascending(S)[i] < Ascending(S)[j]
         /\ \A t \in S : \E i \in 1..Len(Ascending(S)) : Ascending(S)[i] = t
<1> DEFINE n == Cardinality(S)
           Below(t) == {s \in S : s < t}
           rank == [t \in S |-> Cardinality(Below(t)) + 1]
<1>0. \A t \in S : t \in Int
  OBVIOUS
<1>1. n \in Nat
  BY FS_CardinalityType
<1>2. ASSUME NEW t \in S PROVE IsFiniteSet(Below(t)) /\ Cardinality(Below(t)) \in Nat
  BY FS_Subset, FS_CardinalityType
<1>3. ASSUME NEW t \in S, NEW u \in S, t < u PROVE Cardinality(Below(t)) < Cardinality(Below(u))
  <2>0. \A s \in S : s < t => s < u
    BY <1>0, <1>3
  <2>1. ~ (t < t)
    BY <1>0
  <2>2. Below(t) \in SUBSET Below(u)
    BY <2>0
  <2>3. t \in Below(u) /\ t \notin Below(t)
    BY <1>3, <2>1
  <2> HIDE DEF Below
  <2>4. Cardinality(Below(t)) <= Cardinality(Below(u)) /\ Cardinality(Below(t)) # Cardinality(Below(u))
    BY <1>2, <2>2, <2>3, FS_Subset
  <2> QED
    BY <1>2, <2>4
<1>4. ASSUME NEW t \in S PROVE Cardinality(Below(t)) < n
  <2>1. Below(t) \in SUBSET S /\ t \notin Below(t)
    OBVIOUS
  <2> HIDE DEF Below
  <2>2. Cardinality(Below(t)) <= n /\ Cardinality(Below(t)) # n
    BY <2>1, FS_Subset
  <2> QED
    BY <1>1, <1>2, <2>2
<1> HIDE DEF Below
<1>5. rank \in Surjection(S, 1..n)
  <2>1. rank \in [S -> 1..n]
    BY <1>1, <1>2, <1>4
  <2>2. ASSUME NEW t \in S, NEW u \in S, rank[t] = rank[u] PROVE t = u
    <3>1. Cardinality(Below(t)) = Cardinality(Below(u))
      BY <1>2, <2>2
    <3>2. ~ (t < u) /\ ~ (u < t)
      BY <1>2, <1>3, <3>1
    <3> QED
      BY <3>2
  <2>3. rank \in Injection(S, 1..n)
    BY <2>1, <2>2 DEF Injection, IsInjective
  <2>4. IsFiniteSet(1..n) /\ Cardinality(1..n) = n
    BY <1>1, FS_Interval
  <2> HIDE DEF rank
  <2> QED
    BY <2>3, <2>4, FS_Injection
<1> DEFINE At(i) == CHOOSE t \in S : Cardinality(Below(t)) = i - 1
<1>6. ASSUME NEW i \in 1..n PROVE At(i) \in S /\ Cardinality(Below(At(i))) = i - 1
  <2>1. PICK t \in S : rank[t] = i
    BY <1>5 DEF Surjection
  <2>2. Cardinality(Below(t)) = i - 1
    BY <1>2, <2>1
  <2> QED
    BY <2>2
<1>7. Ascending(S) = [i \in 1..n |-> At(i)]
  BY DEF Ascending, Below
<1> HIDE DEF At, n
<1>8. ASSUME NEW i \in 1..n, NEW j \in 1..n, i < j PROVE At(i) < At(j)
  <2>1. At(i) \in S /\ At(j) \in S /\ Cardinality(Below(At(i))) < Cardinality(Below(At(j)))
    BY <1>6, <1>8
  <2>2. \A t, u \in S : Cardinality(Below(t)) < Cardinality(Below(u)) => ~ (u < t) /\ t # u
    BY <1>2, <1>3
  <2>3. \A t, u \in S : ~ (u < t) /\ t # u => t < u
    BY <1>0
  <2> QED
    BY <2>1, <2>2, <2>3
<1>9. ASSUME NEW t \in S PROVE \E i \in 1..n : At(i) = t
  <2> DEFINE i == Cardinality(Below(t)) + 1
  <2>1. i \in 1..n
    BY <1>1, <1>2, <1>4 DEF n
  <2>2. At(i) \in S /\ Cardinality(Below(At(i))) = Cardinality(Below(t))
    BY <1>2, <1>6, <2>1
  <2>3. \A u \in S : Cardinality(Below(u)) = Cardinality(Below(t)) => ~ (u < t) /\ ~ (t < u)
    BY <1>2, <1>3
  <2>4. \A u \in S : ~ (u < t) /\ ~ (t < u) => u = t
    BY <1>0
  <2>5. At(i) = t
    BY <2>2, <2>3, <2>4
  <2> QED
    BY <2>1, <2>5
<1>10. Ascending(S) \in [1..n -> S] /\ Ascending(S) \in Seq(S) /\ Len(Ascending(S)) = n
  BY <1>1, <1>6, <1>7 DEF n
<1>11. \A i \in 1..n : Ascending(S)[i] = At(i)
  BY <1>7
<1> QED
  BY <1>1, <1>8, <1>9, <1>10, <1>11 DEF n

LEMMA WholeQuotient ==
  ASSUME NEW n \in Nat, NEW w \in Nat \ {0}
  PROVE  n * w \in Nat /\ (n * w) \div w = n
OBVIOUS

LEMMA ContainerRead ==
  ASSUME NEW c \in SUBSET Int, IsFiniteSet(c)
  PROVE  Reads("container", c, serialiseIntegralTypeContainer(c))
<1> DEFINE s == Ascending(c)
<1>1. s \in Seq(c) /\ \A t \in c : \E i \in 1..Len(s) : s[i] = t
  BY AscendingFacts
<1> HIDE DEF s
<1>2. s \in Data
  <2>0. \A t \in c : t \in Int
    OBVIOUS
  <2>1. s \in Seq(c)
    BY <1>1
  <2>2. Len(s) \in Nat /\ DOMAIN s = 1..Len(s) /\ s = [i \in 1..Len(s) |-> s[i]]
    BY <2>1
  <2>3. \A i \in 1..Len(s) : s[i] \in c
    BY <2>1
  <2>4. \A i \in 1..Len(s) : s[i] \in Int
    BY <2>0, <2>3
  <2> QED
    BY <2>2, <2>4 DEF Data
<1>3. ToSet(s) = c
  <2>1. DOMAIN s = 1..Len(s)
    BY <1>1
  <2>2. \A i \in 1..Len(s) : s[i] \in c
    BY <1>1
  <2> QED
    BY <1>1, <2>1, <2>2 DEF ToSet
<1> DEFINE n == Cardinality(c)
           size == n * PtrBytes
           piece == <<size>> \o s
<1>4. serialiseIntegralTypeContainer(c) = piece /\ n \in Nat /\ Len(s) = n
  BY AscendingFacts DEF serialiseIntegralTypeContainer, s
<1>5. size \in Int /\ size \div PtrBytes = n
  <2> HIDE DEF n
  <2> QED
    BY <1>4, WholeQuotient, WidthAssumption
<1> HIDE DEF size, n
<1>6. piece \in Data
  BY <1>2, <1>5, JoinedFacts DEF Data
<1>7. ASSUME NEW rest \in Data
      PROVE  deserialiseIntegralTypeContainer(piece \o rest) = [value |-> c, rest |-> rest]
  <2> DEFINE data == piece \o rest
  <2>1. data = (<<size>> \o s) \o rest
    OBVIOUS
  <2> HIDE DEF data
  <2>2. /\ Head(data) = size /\ SubSeq(data, 2, 1 + n) = s
        /\ SubSeq(data, 2 + n, Len(data)) = rest
    BY <1>2, <1>4, <1>5, <2>1, SizedRead
  <2> QED
    BY <1>3, <1>5, <2>2 DEF deserialiseIntegralTypeContainer, data
<1> QED
  BY <1>4, <1>6, <1>7 DEF Reads, FieldOf

\* Data put together of pieces, and what is left of it behind each piece.
PutTogether(n, pieces, heads) ==
  /\ heads[0] \in Data
  /\ \A i \in 1..n : pieces[i] \in Data /\ heads[i] = heads[i - 1] \o pieces[i]

LeftOf(n, pieces, heads, rest, tails) ==
  /\ \A i \in 0..n : tails[i] \in Data /\ heads[n] \o rest = heads[i] \o tails[i]
  /\ \A i \in 1..n : tails[i - 1] = pieces[i] \o tails[i]
  /\ tails[n] = rest

LEMMA TailsOf ==
  ASSUME NEW n \in Nat, NEW heads, NEW pieces, PutTogether(n, pieces, heads), NEW rest \in Data
  PROVE  /\ \A i \in 0..n : heads[i] \in Data
         /\ \E tails : LeftOf(n, pieces, heads, rest, tails)
<1> USE DEF PutTogether
<1> DEFINE K == {k \in 0..n : heads[k] \in Data}
<1>0. \A a, b \in Data : a \o b \in Data
  BY JoinedFacts
<1>1. 0 \in K
  OBVIOUS
<1>2. ASSUME NEW k \in 0..(n - 1), k \in K PROVE k + 1 \in K
  <2>1. k + 1 \in 1..n /\ (k + 1) - 1 = k /\ k + 1 \in 0..n
    OBVIOUS
  <2>2. heads[k + 1] = heads[k] \o pieces[k + 1] /\ pieces[k + 1] \in Data
    BY <2>1
  <2>3. heads[k] \in Data
    BY <1>2
  <2>4. heads[k + 1] \in Data
    BY <1>0, <2>2, <2>3
  <2> QED
    BY <2>1, <2>4
<1>3. \A i \in 0..n : heads[i] \in Data
  <2> HIDE DEF K
  <2>1. 0..n \subseteq K
    BY <1>1, <1>2, Loops!UpTo
  <2> QED
    BY <2>1 DEF K
<1> HIDE DEF K
<1> DEFINE data == heads[n] \o rest
           Tl(i) == SubSeq(data, Len(heads[i]) + 1, Len(data))
           D == {k \in 0..n : Tl(n - k) \in Data /\ data = heads[n - k] \o Tl(n - k)}
           tails == [i \in 0..n |-> Tl(i)]
<1>4. ASSUME NEW i \in 0..n, NEW b \in Data, data = heads[i] \o b PROVE Tl(i) = b
  <2>1. heads[i] \in Data
    BY <1>3
  <2>2. SubSeq(heads[i] \o b, Len(heads[i]) + 1, Len(heads[i] \o b)) = b
    BY <2>1, SplitData
  <2> HIDE DEF data
  <2>3. SubSeq(data, Len(heads[i]) + 1, Len(data)) = b
    BY <1>4, <2>2
  <2> QED
    BY <2>3
<1>5. Tl(n) = rest
  <2>1. n \in 0..n
    OBVIOUS
  <2> QED
    BY <1>4, <2>1
<1> HIDE DEF data, Tl
<1>6. ASSUME NEW i \in 1..n, Tl(i) \in Data, data = heads[i] \o Tl(i)
      PROVE  Tl(i - 1) = pieces[i] \o Tl(i) /\ data = heads[i - 1] \o Tl(i - 1)
  <2>0. i - 1 \in 0..n
    OBVIOUS
  <2>1. heads[i - 1] \in Data /\ pieces[i] \in Data
    BY <1>3, <2>0
  <2>2. data = (heads[i - 1] \o pieces[i]) \o Tl(i)
    BY <1>6
  <2>3. data = heads[i - 1] \o (pieces[i] \o Tl(i)) /\ pieces[i] \o Tl(i) \in Data
    <3>1. (heads[i - 1] \o pieces[i]) \o Tl(i) = heads[i - 1] \o (pieces[i] \o Tl(i))
      BY <1>6, <2>1, Associative
    <3>2. pieces[i] \o Tl(i) \in Data
      BY <1>0, <1>6, <2>1
    <3> QED
      BY <2>2, <3>1, <3>2
  <2>4. Tl(i - 1) = pieces[i] \o Tl(i)
    BY <1>4, <2>0, <2>3
  <2> QED
    BY <2>3, <2>4
<1>7. 0 \in D
  <2>1. n - 0 = n
    OBVIOUS
  <2>2. data = heads[n] \o Tl(n)
    BY <1>5 DEF data
  <2>3. Tl(n - 0) \in Data /\ data = heads[n - 0] \o Tl(n - 0)
    BY <1>5, <2>1, <2>2
  <2>4. 0 \in 0..n
    OBVIOUS
  <2> QED
    BY <2>3, <2>4, Zenon
<1>8. ASSUME NEW k \in 0..(n - 1), k \in D PROVE k + 1 \in D
  <2> DEFINE i == n - k
  <2>1. i \in 1..n /\ n - (k + 1) = i - 1 /\ k + 1 \in 0..n
    OBVIOUS
  <2>2. Tl(i) \in Data /\ data = heads[i] \o Tl(i)
    BY <1>8
  <2>3. Tl(i - 1) = pieces[i] \o Tl(i) /\ data = heads[i - 1] \o Tl(i - 1)
    BY <1>6, <2>1, <2>2
  <2>4. Tl(i - 1) \in Data
    <3>1. pieces[i] \in Data
      BY <2>1
    <3>2. pieces[i] \o Tl(i) \in Data
      BY <1>0, <2>2, <3>1
    <3> QED
      BY <2>3, <3>2
  <2> HIDE DEF i
  <2> QED
    BY <2>1, <2>3, <2>4
<1>9. \A i \in 0..n : Tl(i) \in Data /\ data = heads[i] \o Tl(i)
  <2> HIDE DEF D
  <2>1. 0..n \subseteq D
    BY <1>7, <1>8, Loops!UpTo
  <2>2. ASSUME NEW i \in 0..n PROVE Tl(i) \in Data /\ data = heads[i] \o Tl(i)
    <3>1. n - i \in 0..n /\ n - (n - i) = i
      OBVIOUS
    <3>2. Tl(n - (n - i)) \in Data /\ data = heads[n - (n - i)] \o Tl(n - (n - i))
      BY <2>1, <3>1 DEF D
    <3> QED
      BY <3>1, <3>2
  <2> QED
    BY <2>2
<1>10. \A i \in 0..n : tails[i] = Tl(i)
  OBVIOUS
<1> HIDE DEF tails
<1>11. \A i \in 1..n : tails[i - 1] = pieces[i] \o tails[i]
  <2>1. \A i \in 1..n : i \in 0..n /\ i - 1 \in 0..n
    OBVIOUS
  <2> QED
    BY <1>6, <1>9, <1>10, <2>1
<1>12. tails[n] = rest
  BY <1>5, <1>10
<1>13. \A i \in 0..n : tails[i] \in Data /\ heads[n] \o rest = heads[i] \o tails[i]
  <2>1. \A i \in 0..n : tails[i] \in Data /\ data = heads[i] \o tails[i]
    BY <1>9, <1>10
  <2> QED
    BY <2>1 DEF data
<1> HIDE DEF PutTogether
<1>14. LeftOf(n, pieces, heads, rest, tails)
  BY <1>11, <1>12, <1>13 DEF LeftOf
<1> QED
  BY <1>3, <1>14

LEMMA ElementsAre ==
  ASSUME NEW c \in Seq(Data)
  PROVE  \E heads : /\ heads[0] = <<Len(c)>>
                    /\ \A i \in 1..Len(c) : heads[i] = heads[i - 1] \o Chunk(c[i])
                    /\ serialiseSerialisableTypeContainer(c) = heads[Len(c)]
<1>1. serialiseSerialisableTypeContainer(c) = ElementLoop!Fold(<<Len(c)>>, c)
  BY DEF serialiseSerialisableTypeContainer, ElementLoop!Fold, Folded, ElementLoop!Folded
<1>2. Len(c) \in Nat
  OBVIOUS
<1>3. PICK heads : /\ ElementLoop!Runs(<<Len(c)>>, c, heads)
                   /\ ElementLoop!Fold(<<Len(c)>>, c) = heads[Len(c)]
  BY <1>2, ElementLoop!FoldDefined
<1>4. heads[0] = <<Len(c)>> /\ \A i \in 1..Len(c) : heads[i] = WithElement(heads[i - 1], c[i])
  BY <1>3 DEF ElementLoop!Runs
<1>5. ASSUME NEW i \in 1..Len(c) PROVE heads[i] = heads[i - 1] \o Chunk(c[i])
  <2>1. c[i] \in Data
    OBVIOUS
  <2> QED
    BY <1>4, <2>1, ChunkFacts DEF WithElement
<1> QED
  BY <1>1, <1>3, <1>4, <1>5

LEMMA ElementsRead ==
  ASSUME NEW c \in Seq(Data)
  PROVE  Reads("elements", c, serialiseSerialisableTypeContainer(c))
<1> DEFINE n == Len(c)
           whole == serialiseSerialisableTypeContainer(c)
           pieces == [i \in 1..n |-> Chunk(c[i])]
<1>1. n \in Nat /\ n \in Int /\ DOMAIN c = 1..n /\ c = [i \in 1..n |-> c[i]]
  OBVIOUS
<1>2. PICK heads : /\ heads[0] = <<n>> /\ \A i \in 1..n : heads[i] = heads[i - 1] \o Chunk(c[i])
                   /\ whole = heads[n]
  BY ElementsAre
<1>3. \A i \in 1..n : c[i] \in Data /\ pieces[i] = Chunk(c[i])
  OBVIOUS
<1> HIDE DEF n, whole, pieces
<1>4. \A i \in 1..n : pieces[i] \in Data /\ heads[i] = heads[i - 1] \o pieces[i]
  BY <1>2, <1>3, ChunkFacts
<1>5. heads[0] \in Data
  BY <1>1, <1>2 DEF Data
<1>5a. PutTogether(n, pieces, heads)
  BY <1>4, <1>5 DEF PutTogether
<1>6. whole \in Data
  <2>1. <<>> \in Data /\ n \in 0..n
    BY <1>1 DEF Data
  <2>2. \A i \in 0..n : heads[i] \in Data
    BY <1>1, <1>5a, <2>1, TailsOf
  <2> QED
    BY <1>2, <2>1, <2>2
<1>7. ASSUME NEW rest \in Data
      PROVE  deserialiseDeserialisableTypeContainer(whole \o rest) = [value |-> c, rest |-> rest]
  <2>0. PICK tails : LeftOf(n, pieces, heads, rest, tails)
    BY <1>1, <1>5a, TailsOf
  <2>1. /\ \A i \in 0..n : tails[i] \in Data /\ heads[n] \o rest = heads[i] \o tails[i]
        /\ \A i \in 1..n : tails[i - 1] = pieces[i] \o tails[i]
        /\ tails[n] = rest
    BY <2>0 DEF LeftOf
  <2> DEFINE data == whole \o rest
             start == [value |-> <<>>, rest |-> Tail(data)]
             Good == [k \in 0..n |-> {[value |-> [i \in 1..k |-> c[i]], rest |-> tails[k]]}]
  <2>2. 0 \in 0..n /\ n \in 0..n
    BY <1>1
  <2>3. data = <<n>> \o tails[0] /\ tails[0] \in Data
    BY <1>2, <2>1, <2>2
  <2>4. Head(data) = n /\ Tail(data) = tails[0]
    <3>1. Reads("integral", n, <<n>>)
      BY <1>1, IntegralRead
    <3>2. deserialiseIntegralType(<<n>> \o tails[0]) = [value |-> n, rest |-> tails[0]]
      BY <2>3, <3>1 DEF Reads, FieldOf
    <3> QED
      BY <2>3, <3>2 DEF deserialiseIntegralType
  <2> HIDE DEF data
  <2>5. start \in Good[0]
    <3>1. [i \in 1..0 |-> c[i]] = <<>>
      OBVIOUS
    <3> QED
      BY <2>2, <2>4, <3>1
  <2>6. ASSUME NEW k \in 1..n, NEW t \in Good[k - 1] PROVE ElementRead(t, k) \in Good[k]
    <3>1. k - 1 \in 0..n /\ k \in 0..n
      BY <1>1
    <3>2. t = [value |-> [i \in 1..(k - 1) |-> c[i]], rest |-> tails[k - 1]]
      BY <3>1
    <3>3. tails[k - 1] = Chunk(c[k]) \o tails[k] /\ tails[k] \in Data /\ c[k] \in Data
      BY <1>3, <2>1, <3>1
    <3>4. deserialiseIntegralTypeContinuousContainer(t.rest) = [value |-> c[k], rest |-> tails[k]]
      BY <3>2, <3>3, ContinuousReadBack
    <3>5. ElementRead(t, k) = [value |-> Append(t.value, c[k]), rest |-> tails[k]]
      BY <3>4 DEF ElementRead
    <3>6. Append(t.value, c[k]) = [i \in 1..k |-> c[i]]
      <4>1. t.value = [i \in 1..(k - 1) |-> c[i]]
        BY <3>2
      <4>2. Len(t.value) = k - 1 /\ t.value \in Seq(Data)
        <5>1. k - 1 \in Nat /\ \A i \in 1..(k - 1) : c[i] \in Data
          BY <1>1, <1>3
        <5> HIDE DEF Good
        <5> QED
          BY <4>1, <5>1
      <4> QED
        BY <4>1, <4>2
    <3> QED
      BY <3>1, <3>5, <3>6
  <2>7. Len(Counter(n)) = n /\ \A i \in 1..n : Counter(n)[i] = i
    BY <1>1, CounterFacts
  <2>8. ElementReadLoop!Fold(start, Counter(n)) \in Good[n]
    <3> HIDE DEF Good, start
    <3> QED
      BY <1>1, <2>5, <2>6, <2>7, ElementReadLoop!FoldKeeps
  <2>9. ElementReadLoop!Fold(start, Counter(n)) = [value |-> c, rest |-> rest]
    BY <1>1, <2>1, <2>2, <2>8
  <2> HIDE DEF start
  <2>10. deserialiseDeserialisableTypeContainer(data) = ElementReadLoop!Fold(start, Counter(n))
    BY <2>4 DEF deserialiseDeserialisableTypeContainer, ElementReadLoop!Fold, Folded,
                ElementReadLoop!Folded, start
  <2> QED
    BY <2>9, <2>10 DEF data
<1> QED
  BY <1>6, <1>7 DEF Reads, FieldOf, whole

\* Data that is put together of the pieces of its fields.
FromNothing(n, kinds, values, pieces, heads) ==
  /\ Len(kinds) = n /\ heads[0] = <<>>
  /\ \A i \in 1..n : Reads(kinds[i], values[i], pieces[i]) /\ heads[i] = heads[i - 1] \o pieces[i]

FromFirst(n, kinds, values, pieces, heads) ==
  /\ Len(kinds) = n /\ heads[1] = pieces[1]
  /\ \A i \in 2..n : heads[i] = heads[i - 1] \o pieces[i]
  /\ \A i \in 1..n : Reads(kinds[i], values[i], pieces[i])

LEMMA FieldsRead ==
  ASSUME NEW n \in Nat, NEW kinds, NEW values, NEW pieces, NEW heads,
         FromNothing(n, kinds, values, pieces, heads), NEW rest \in Data
  PROVE  heads[n] \in Data /\ Fields(heads[n] \o rest, kinds) = [i \in 1..n |-> values[i]]
<1> USE DEF FromNothing
<1>1. PutTogether(n, pieces, heads)
  <2>1. heads[0] \in Data
    BY DEF Data
  <2> QED
    BY <2>1 DEF PutTogether, Reads
<1>2. \A i \in 0..n : heads[i] \in Data
  BY <1>1, TailsOf
<1>3. PICK tails : LeftOf(n, pieces, heads, rest, tails)
  BY <1>1, TailsOf
<1>4. /\ \A i \in 0..n : tails[i] \in Data /\ heads[n] \o rest = heads[i] \o tails[i]
      /\ \A i \in 1..n : tails[i - 1] = pieces[i] \o tails[i]
      /\ tails[n] = rest
  BY <1>3 DEF LeftOf
<1> DEFINE data == heads[n] \o rest
           start == [value |-> <<>>, rest |-> data]
           Good == [k \in 0..n |-> {[value |-> [i \in 1..k |-> values[i]], rest |-> tails[k]]}]
<1>5. 0 \in 0..n /\ n \in 0..n
  OBVIOUS
<1>6. data = tails[0]
  <2>1. data = <<>> \o tails[0] /\ tails[0] \in Data
    BY <1>4, <1>5
  <2> HIDE DEF data
  <2> QED
    BY <2>1 DEF Data
<1>7. start \in Good[0]
  <2>1. [i \in 1..0 |-> values[i]] = <<>>
    OBVIOUS
  <2> HIDE DEF data
  <2> QED
    BY <1>5, <1>6, <2>1
<1>8. ASSUME NEW k \in 1..n, NEW t \in Good[k - 1] PROVE FieldRead(t, kinds[k]) \in Good[k]
  <2>1. k - 1 \in 0..n /\ k \in 0..n
    OBVIOUS
  <2>2. t = [value |-> [i \in 1..(k - 1) |-> values[i]], rest |-> tails[k - 1]]
    BY <2>1
  <2>3. FieldOf(kinds[k], t.rest) = [value |-> values[k], rest |-> tails[k]]
    <3>1. t.rest = pieces[k] \o tails[k] /\ tails[k] \in Data
      BY <1>4, <2>1, <2>2
    <3>2. Reads(kinds[k], values[k], pieces[k])
      OBVIOUS
    <3> HIDE DEF Good
    <3> QED
      BY <3>1, <3>2 DEF Reads
  <2>4. FieldRead(t, kinds[k]) = [value |-> Append(t.value, values[k]), rest |-> tails[k]]
    <3>1. FieldRead(t, kinds[k]) = [value |-> Append(t.value, FieldOf(kinds[k], t.rest).value),
                                    rest |-> FieldOf(kinds[k], t.rest).rest]
      BY DEF FieldRead, FieldOf
    <3> QED
      BY <2>3, <3>1
  <2>5. Append(t.value, values[k]) = [i \in 1..k |-> values[i]]
    <3>1. t.value = [i \in 1..(k - 1) |-> values[i]] /\ k - 1 \in Nat
      BY <2>2
    <3> HIDE DEF Good
    <3>2. Len(t.value) = k - 1 /\ Append(t.value, values[k]) = [i \in 1..(k - 1) + 1 |->
             IF i = (k - 1) + 1 THEN values[k] ELSE t.value[i]]
      BY <3>1
    <3>3. (k - 1) + 1 = k /\ \A i \in 1..k : i # k => i \in 1..(k - 1)
      OBVIOUS
    <3> QED
      BY <3>1, <3>2, <3>3
  <2> QED
    BY <2>1, <2>4, <2>5
<1>9. FieldLoop!Fold(start, kinds) \in Good[n]
  <2> HIDE DEF Good, start
  <2> QED
    BY <1>7, <1>8, FieldLoop!FoldKeeps
<1>10. FieldLoop!Fold(start, kinds) = [value |-> [i \in 1..n |-> values[i]], rest |-> rest]
  BY <1>4, <1>5, <1>9
<1>11. Fields(data, kinds) = FieldLoop!Fold(start, kinds).value
  BY DEF Fields, FieldLoop!Fold, Folded, FieldLoop!Folded
<1> HIDE DEF start, Good, data
<1>12. Fields(data, kinds) = [i \in 1..n |-> values[i]]
  BY <1>10, <1>11
<1> QED
  BY <1>2, <1>5, <1>12 DEF data

LEMMA NothingJoined ==
  ASSUME NEW a \in Data
  PROVE  <<>> \in Data /\ <<>> \o a = a /\ a \o <<>> = a
BY DEF Data

LEMMA FieldsJoined ==
  ASSUME NEW n \in Nat \ {0}, NEW kinds, NEW values, NEW pieces, NEW heads,
         FromFirst(n, kinds, values, pieces, heads)
  PROVE  /\ heads[n] \in Data
         /\ Fields(heads[n], kinds) = [i \in 1..n |-> values[i]]
         /\ \A rest \in Data : Fields(heads[n] \o rest, kinds) = [i \in 1..n |-> values[i]]
<1> USE DEF FromFirst
<1> DEFINE h == [i \in 0..n |-> IF i = 0 THEN <<>> ELSE heads[i]]
<1>1. h[0] = <<>> /\ h[n] = heads[n] /\ n \in Nat
  OBVIOUS
<1>2. ASSUME NEW i \in 1..n PROVE h[i] = h[i - 1] \o pieces[i]
  <2>1. CASE i = 1
    <3>1. pieces[1] \in Data
      BY <2>1 DEF Reads
    <3>2. h[i] = pieces[1] /\ h[i - 1] = <<>>
      BY <2>1
    <3> HIDE DEF h
    <3> QED
      BY <2>1, <3>1, <3>2, NothingJoined
  <2>2. CASE i # 1
    <3>1. h[i] = heads[i] /\ h[i - 1] = heads[i - 1] /\ i \in 2..n
      BY <2>2
    <3> HIDE DEF h
    <3> QED
      BY <3>1
  <2> QED
    BY <2>1, <2>2
<1> HIDE DEF h
<1>3. FromNothing(n, kinds, values, pieces, h)
  BY <1>1, <1>2 DEF FromNothing
<1> HIDE DEF FromFirst
<1>4. ASSUME NEW rest \in Data
      PROVE  h[n] \in Data /\ Fields(h[n] \o rest, kinds) = [i \in 1..n |-> values[i]]
  BY <1>1, <1>3, FieldsRead
<1>5. <<>> \in Data
  BY DEF Data
<1>6. h[n] \in Data /\ Fields(h[n] \o <<>>, kinds) = [i \in 1..n |-> values[i]]
  BY <1>4, <1>5
<1>7. h[n] \o <<>> = h[n]
  BY <1>6, NothingJoined
<1> QED
  BY <1>1, <1>4, <1>6, <1>7

LEMMA TwoRead ==
  ASSUME NEW k1, NEW k2, NEW v1, NEW v2, NEW p1, NEW p2, Reads(k1, v1, p1), Reads(k2, v2, p2)
  PROVE  /\ p1 \o p2 \in Data /\ Fields(p1 \o p2, <<k1, k2>>) = <<v1, v2>>
         /\ \A rest \in Data : Fields(p1 \o p2 \o rest, <<k1, k2>>) = <<v1, v2>>
<1> DEFINE kinds == <<k1, k2>>
           values == <<v1, v2>>
           pieces == <<p1, p2>>
           heads == <<p1, p1 \o p2>>
<1>1. /\ Len(kinds) = 2 /\ heads[1] = pieces[1] /\ \A i \in 2..2 : heads[i] = heads[i - 1] \o pieces[i]
      /\ heads[2] = p1 \o p2
  OBVIOUS
<1>2. ASSUME NEW i \in 1..2 PROVE Reads(kinds[i], values[i], pieces[i])
  <2>1. CASE i = 1
    BY <2>1
  <2>2. CASE i = 2
    BY <2>2
  <2> QED
    BY <2>1, <2>2
<1>3. [i \in 1..2 |-> values[i]] = <<v1, v2>> /\ 2 \in Nat \ {0}
  OBVIOUS
<1>4. FromFirst(2, kinds, values, pieces, heads)
  BY <1>1, <1>2 DEF FromFirst
<1> DEFINE n == 2
<1> HIDE DEF kinds, values, pieces, heads
<1>5. n \in Nat \ {0} /\ FromFirst(n, kinds, values, pieces, heads)
  BY <1>4
<1> HIDE DEF n
<1>6. /\ heads[n] \in Data
      /\ Fields(heads[n], kinds) = [i \in 1..n |-> values[i]]
      /\ \A rest \in Data : Fields(heads[n] \o rest, kinds) = [i \in 1..n |-> values[i]]
  BY <1>5, FieldsJoined
<1> QED
  BY <1>1, <1>3, <1>6 DEF kinds, n

LEMMA ThreeRead ==
  ASSUME NEW k1, NEW k2, NEW k3, NEW v1, NEW v2, NEW v3, NEW p1, NEW p2, NEW p3,
         Reads(k1, v1, p1), Reads(k2, v2, p2), Reads(k3, v3, p3)
  PROVE  /\ p1 \o p2 \o p3 \in Data
         /\ Fields(p1 \o p2 \o p3, <<k1, k2, k3>>) = <<v1, v2, v3>>
<1> DEFINE kinds == <<k1, k2, k3>>
           values == <<v1, v2, v3>>
           pieces == <<p1, p2, p3>>
           heads == <<p1, p1 \o p2, p1 \o p2 \o p3>>
<1>1. /\ Len(kinds) = 3 /\ heads[1] = pieces[1] /\ \A i \in 2..3 : heads[i] = heads[i - 1] \o pieces[i]
      /\ heads[3] = p1 \o p2 \o p3
  OBVIOUS
<1>2. ASSUME NEW i \in 1..3 PROVE Reads(kinds[i], values[i], pieces[i])
  <2>1. CASE i = 1
    BY <2>1
  <2>2. CASE i = 2
    BY <2>2
  <2>3. CASE i = 3
    BY <2>3
  <2> QED
    BY <2>1, <2>2, <2>3
<1>3. [i \in 1..3 |-> values[i]] = <<v1, v2, v3>> /\ 3 \in Nat \ {0}
  OBVIOUS
<1>4. FromFirst(3, kinds, values, pieces, heads)
  BY <1>1, <1>2 DEF FromFirst
<1> DEFINE n == 3
<1> HIDE DEF kinds, values, pieces, heads
<1>5. n \in Nat \ {0} /\ FromFirst(n, kinds, values, pieces, heads)
  BY <1>4
<1> HIDE DEF n
<1>6. heads[n] \in Data /\ Fields(heads[n], kinds) = [i \in 1..n |-> values[i]]
  BY <1>5, FieldsJoined
<1> QED
  BY <1>1, <1>3, <1>6 DEF kinds, n

LEMMA FourRead ==
  ASSUME NEW k1, NEW k2, NEW k3, NEW k4, NEW v1, NEW v2, NEW v3, NEW v4,
         NEW p1, NEW p2, NEW p3, NEW p4,
         Reads(k1, v1, p1), Reads(k2, v2, p2), Reads(k3, v3, p3), Reads(k4, v4, p4)
  PROVE  /\ p1 \o p2 \o p3 \o p4 \in Data
         /\ Fields(p1 \o p2 \o p3 \o p4, <<k1, k2, k3, k4>>) = <<v1, v2, v3, v4>>
<1> DEFINE kinds == <<k1, k2, k3, k4>>
           values == <<v1, v2, v3, v4>>
           pieces == <<p1, p2, p3, p4>>
           heads == <<p1, p1 \o p2, p1 \o p2 \o p3, p1 \o p2 \o p3 \o p4>>
<1>1. /\ Len(kinds) = 4 /\ heads[1] = pieces[1] /\ \A i \in 2..4 : heads[i] = heads[i - 1] \o pieces[i]
      /\ heads[4] = p1 \o p2 \o p3 \o p4
  OBVIOUS
<1>2. ASSUME NEW i \in 1..4 PROVE Reads(kinds[i], values[i], pieces[i])
  <2>1. CASE i = 1
    BY <2>1
  <2>2. CASE i = 2
    BY <2>2
  <2>3. CASE i = 3
    BY <2>3
  <2>4. CASE i = 4
    BY <2>4
  <2> QED
    BY <2>1, <2>2, <2>3, <2>4
<1>3. [i \in 1..4 |-> values[i]] = <<v1, v2, v3, v4>> /\ 4 \in Nat \ {0}
  OBVIOUS
<1>4. FromFirst(4, kinds, values, pieces, heads)
  BY <1>1, <1>2 DEF FromFirst
<1> DEFINE n == 4
<1> HIDE DEF kinds, values, pieces, heads
<1>5. n \in Nat \ {0} /\ FromFirst(n, kinds, values, pieces, heads)
  BY <1>4
<1> HIDE DEF n
<1>6. heads[n] \in Data /\ Fields(heads[n], kinds) = [i \in 1..n |-> values[i]]
  BY <1>5, FieldsJoined
<1> QED
  BY <1>1, <1>3, <1>6 DEF kinds, n

LEMMA OneRead ==
  ASSUME NEW k1, NEW v1, NEW p1, Reads(k1, v1, p1)
  PROVE  /\ p1 \in Data /\ Fields(p1, <<k1>>) = <<v1>>
         /\ \A rest \in Data : Fields(p1 \o rest, <<k1>>) = <<v1>>
<1> DEFINE kinds == <<k1>>
           values == <<v1>>
           pieces == <<p1>>
           heads == <<p1>>
           n == 1
<1>1. n \in Nat \ {0} /\ FromFirst(n, kinds, values, pieces, heads)
  BY DEF FromFirst
<1>2. [i \in 1..n |-> values[i]] = <<v1>> /\ heads[n] = p1
  OBVIOUS
<1> HIDE DEF kinds, values, pieces, heads, n
<1>3. /\ heads[n] \in Data
      /\ Fields(heads[n], kinds) = [i \in 1..n |-> values[i]]
      /\ \A rest \in Data : Fields(heads[n] \o rest, kinds) = [i \in 1..n |-> values[i]]
  BY <1>1, FieldsJoined
<1> QED
  BY <1>2, <1>3 DEF kinds

-----------------------------------------------------------------------------
(* Searches and what they become on their way                              *)

LEMMA TextIsData == ASSUME NEW t \in Text PROVE t \in Data
BY DEF Text, Data

LEMMA BytesAreData == ASSUME NEW b \in Bytes PROVE b \in Data
<1>1. \A t \in Byte : t \in Int
  BY DataAssumption DEF Byte
<1>2. b \in Seq(Byte)
  BY DEF Bytes
<1>3. Len(b) \in Nat /\ DOMAIN b = 1..Len(b) /\ b = [i \in 1..Len(b) |-> b[i]]
  BY <1>2
<1>4. \A i \in 1..Len(b) : b[i] \in Byte
  BY <1>2
<1>5. \A i \in 1..Len(b) : b[i] \in Int
  BY <1>1, <1>4
<1> QED
  BY <1>3, <1>5 DEF Data

LEMMA RvasAreIntegers == ASSUME NEW S \in Rvas PROVE S \in SUBSET Int /\ IsFiniteSet(S)
BY DEF Rvas

LEMMA TextRead ==
  ASSUME NEW t \in Text
  PROVE  /\ t \in Data /\ serialiseIntegralTypeContinuousContainer(t) = Chunk(t)
         /\ Reads("continuous", t, Chunk(t))
BY TextIsData, ChunkFacts, ContinuousRead

LEMMA BytesRead ==
  ASSUME NEW b \in Bytes
  PROVE  /\ b \in Data /\ serialiseIntegralTypeContinuousContainer(b) = Chunk(b)
         /\ Reads("continuous", b, Chunk(b))
BY BytesAreData, ChunkFacts, ContinuousRead

LEMMA DataRead ==
  ASSUME NEW b \in Data
  PROVE  /\ serialiseIntegralTypeContinuousContainer(b) = Chunk(b) /\ Chunk(b) \in Data
         /\ Reads("continuous", b, Chunk(b))
BY ChunkFacts, ContinuousRead

LEMMA RvasRead ==
  ASSUME NEW S \in Rvas
  PROVE  Reads("container", S, serialiseIntegralTypeContainer(S))
BY RvasAreIntegers, ContainerRead

\* A type is written as its place.
LEMMA PlaceFacts ==
  ASSUME NEW enumeration, NEW n \in Nat, DOMAIN enumeration = 1..n, NEW type,
         \E i \in 1..n : enumeration[i] = type
  PROVE  Place(enumeration, type) \in Int /\ enumeration[Place(enumeration, type) + 1] = type
<1> DEFINE i == CHOOSE i \in DOMAIN enumeration : enumeration[i] = type
<1>1. i \in 1..n /\ enumeration[i] = type
  OBVIOUS
<1> HIDE DEF i
<1>2. Place(enumeration, type) = i - 1
  BY DEF Place, i
<1>3. i - 1 \in Int /\ (i - 1) + 1 = i
  BY <1>1
<1> QED
  BY <1>1, <1>2, <1>3

LEMMA SpecialPlaces ==
  ASSUME NEW type \in {SpecialTypes[i] : i \in 1..6}
  PROVE  Place(SpecialTypes, type) \in Int /\ SpecialTypes[Place(SpecialTypes, type) + 1] = type
<1>1. DOMAIN SpecialTypes = 1..6 /\ 6 \in Nat
  BY DEF SpecialTypes
<1>2. \E i \in 1..6 : SpecialTypes[i] = type
  OBVIOUS
<1> QED
  BY <1>1, <1>2, PlaceFacts

\* What is read of the data that one of a set of searches became is the
\* search as it is sent.
ReadBack(X, ser, des, snt) == \A s \in X : ser[s] \in Data /\ des[ser[s]] = snt[s]

LEMMA TypeIsSet ==
  ASSUME NEW union, NEW type, NEW data
  PROVE  setType(union, type, data) = [[union EXCEPT !.type = type] EXCEPT !.data = data]
BY Zenon DEF setType

LEMMA SpecialDataBack ==
  ASSUME NEW X, NEW ser, NEW des, NEW snt, ReadBack(X, ser, des, snt),
         NEW special \in SpecialSearchesOf(X), special.type # "BLANK"
  PROVE  /\ serialiseSpecialData(ser, special) \in Data
         /\ [special EXCEPT !.data = deserialiseSpecialData(des, special.type,
                                       serialiseSpecialData(ser, special))]
              = SpecialAsSent(snt, special)
<1> DEFINE b == serialiseSpecialData(ser, special)
<1>1. CASE special.type = "NAMED_RELATIVE_FUNCTION_CALL"
  <2>1. special.data \in [moduleName : Text, functionName : Text]
        /\ special \in [searchBytesRva : Nat, type : NamedTypes, data : [moduleName : Text, functionName : Text]]
    BY <1>1 DEF SpecialSearchesOf, SearchTypes, NamedTypes
  <2> DEFINE f == special.data.functionName
  <2>2. f \in Text
    BY <2>1
  <2>3. b = Chunk(f) /\ Reads("continuous", f, Chunk(f)) /\ Chunk(f) \in Data
    BY <1>1, <2>2, TextRead, ChunkFacts DEF serialiseSpecialData
  <2>4. Fields(b, <<"continuous">>) = <<f>>
    BY <2>3, OneRead
  <2>5. deserialiseSpecialData(des, special.type, b) = [moduleName |-> <<>>, functionName |-> f]
    BY <1>1, <2>4 DEF deserialiseSpecialData
  <2> HIDE DEF b
  <2>6. SpecialAsSent(snt, special) = [special EXCEPT !.data.moduleName = <<>>]
    BY <1>1 DEF SpecialAsSent, SearchTypes
  <2>7. [special.data EXCEPT !.moduleName = <<>>] = [moduleName |-> <<>>, functionName |-> f]
    BY <2>1
  <2>8. [special EXCEPT !.data.moduleName = <<>>] = [special EXCEPT !.data = [special.data EXCEPT !.moduleName = <<>>]]
    BY <2>1
  <2> QED
    BY <2>3, <2>5, <2>6, <2>7, <2>8 DEF b
<1>2. CASE special.type = "NAMED_ABSOLUTE_INDIRECT_FUNCTION_CALL"
  <2>1. special.data \in [moduleName : Text, functionName : Text]
        /\ special \in [searchBytesRva : Nat, type : NamedTypes, data : [moduleName : Text, functionName : Text]]
    BY <1>2 DEF SpecialSearchesOf, SearchTypes, NamedTypes
  <2> DEFINE f == special.data.functionName
             m == special.data.moduleName
  <2>2. f \in Text /\ m \in Text
    BY <2>1
  <2>3. /\ b = Chunk(m) \o Chunk(f)
        /\ Reads("continuous", f, Chunk(f)) /\ Reads("continuous", m, Chunk(m))
    BY <1>2, <2>2, TextRead DEF serialiseSpecialData
  <2>4. b \in Data /\ Fields(b, <<"continuous", "continuous">>) = <<m, f>>
    BY <2>3, TwoRead
  <2>5. deserialiseSpecialData(des, special.type, b) = [moduleName |-> m, functionName |-> f]
    BY <1>2, <2>4 DEF deserialiseSpecialData
  <2> HIDE DEF b
  <2>6. SpecialAsSent(snt, special) = special
    BY <1>2 DEF SpecialAsSent, SearchTypes
  <2>7. special.data = [moduleName |-> m, functionName |-> f]
    BY <2>1
  <2>8. [special EXCEPT !.data = special.data] = special
    BY <2>1
  <2> QED
    BY <2>4, <2>5, <2>6, <2>7, <2>8 DEF b
<1>3. CASE special.type \in SearchTypes
  <2>1. special.data \in X /\ special \in [searchBytesRva : Nat, type : SearchTypes, data : X]
    BY <1>3 DEF SpecialSearchesOf, SearchTypes, NamedTypes
  <2>2. b = ser[special.data] /\ deserialiseSpecialData(des, special.type, b) = des[b]
    BY <1>3 DEF serialiseSpecialData, deserialiseSpecialData, SearchTypes
  <2>3. b \in Data /\ des[b] = snt[special.data]
    BY <2>1, <2>2 DEF ReadBack
  <2>4. SpecialAsSent(snt, special) = [special EXCEPT !.data = snt[special.data]]
    BY <1>3, <2>1 DEF SpecialAsSent, SearchTypes
  <2> HIDE DEF b
  <2> QED
    BY <2>2, <2>3, <2>4 DEF b
<1> QED
  BY <1>1, <1>2, <1>3 DEF SpecialSearchesOf, SearchTypes, NamedTypes

LEMMA SpecialBack ==
  ASSUME NEW X, NEW ser, NEW des, NEW snt, ReadBack(X, ser, des, snt),
         NEW special \in SpecialSearchesOf(X)
  PROVE  /\ serialiseSpecialSearch(ser, special) \in Data
         /\ deserialiseSpecialSearch(des, serialiseSpecialSearch(ser, special))
              = SpecialAsSent(snt, special)
<1> DEFINE r == special.searchBytesRva
           t == Place(SpecialTypes, special.type)
           data == serialiseSpecialSearch(ser, special)
           ii == <<"integral", "integral">>
           iic == <<"integral", "integral", "continuous">>
<1>1. /\ special \in [searchBytesRva : Nat, type : {SpecialTypes[i] : i \in 1..6},
                      data : {Nothing} \cup [moduleName : Text, functionName : Text] \cup X]
      /\ special.type = "BLANK" => special.data = Nothing
  BY DEF SpecialSearchesOf, SpecialTypes, NamedTypes, SearchTypes
<1>2. r \in Int /\ t \in Int /\ SpecialTypes[t + 1] = special.type
  BY <1>1, SpecialPlaces
<1> HIDE DEF r, t, data
<1>3. /\ Reads("integral", r, <<r>>) /\ Reads("integral", t, <<t>>)
      /\ serialiseIntegralType(r) = <<r>> /\ serialiseIntegralType(t) = <<t>>
  BY <1>2, IntegralRead
<1>4. /\ <<r>> \o <<t>> \in Data /\ \A rest \in Data : Fields(<<r>> \o <<t>> \o rest, ii) = <<r, t>>
  BY <1>3, TwoRead
<1> DEFINE new == [searchBytesRva |-> r, type |-> "BLANK", data |-> Nothing]
<1>5. [NewSpecialSearch EXCEPT !.searchBytesRva = r] = new
  BY DEF NewSpecialSearch
<1>6. CASE special.type = "BLANK"
  <2>1. data = <<r>> \o <<t>> \o <<>>
    BY <1>3, <1>6 DEF data, serialiseSpecialSearch, r, t
  <2>2. data \in Data /\ Fields(data, ii) = <<r, t>>
    BY <1>4, <2>1, NothingJoined
  <2>3. deserialiseSpecialSearch(des, data) = clearType(new)
    BY <1>2, <1>5, <1>6, <2>2 DEF deserialiseSpecialSearch
  <2>4. clearType(new) = special /\ SpecialAsSent(snt, special) = special
    BY <1>1, <1>6 DEF clearType, SpecialAsSent, SearchTypes, r
  <2> QED
    BY <2>2, <2>3, <2>4 DEF data
<1>7. CASE special.type # "BLANK"
  <2> DEFINE b == serialiseSpecialData(ser, special)
  <2>1. b \in Data /\ [special EXCEPT !.data = deserialiseSpecialData(des, special.type, b)] = SpecialAsSent(snt, special)
    BY <1>7, SpecialDataBack
  <2> HIDE DEF b
  <2>2. /\ Reads("continuous", b, Chunk(b)) /\ Chunk(b) \in Data
        /\ serialiseIntegralTypeContinuousContainer(b) = Chunk(b)
    BY <2>1, DataRead
  <2>3. data = <<r>> \o <<t>> \o Chunk(b)
    BY <1>3, <1>7, <2>2 DEF data, serialiseSpecialSearch, r, t, b
  <2>4. data \in Data /\ Fields(data, iic) = <<r, t, b>>
    BY <1>3, <2>2, <2>3, ThreeRead
  <2>5. Fields(data, ii) = <<r, t>>
    BY <1>4, <2>2, <2>3
  <2>6. deserialiseSpecialSearch(des, data)
          = setType(new, special.type, deserialiseSpecialData(des, special.type, b))
    BY <1>2, <1>5, <1>7, <2>4, <2>5 DEF deserialiseSpecialSearch
  <2> DEFINE v == deserialiseSpecialData(des, special.type, b)
  <2>7. setType(new, special.type, v) = [special EXCEPT !.data = v]
    <3> DEFINE ty == special.type
               da == special.data
    <3>1. special = [searchBytesRva |-> r, type |-> ty, data |-> da]
      BY <1>1 DEF r
    <3> HIDE DEF v, ty, da
    <3>2a. [new EXCEPT !.type = ty] = [searchBytesRva |-> r, type |-> ty, data |-> Nothing]
      OBVIOUS
    <3>2b. [[searchBytesRva |-> r, type |-> ty, data |-> Nothing] EXCEPT !.data = v]
             = [searchBytesRva |-> r, type |-> ty, data |-> v]
      OBVIOUS
    <3>2. [[new EXCEPT !.type = ty] EXCEPT !.data = v] = [searchBytesRva |-> r, type |-> ty, data |-> v]
      BY <3>2a, <3>2b, Zenon
    <3>3. [special EXCEPT !.data = v] = [searchBytesRva |-> r, type |-> ty, data |-> v]
      BY <3>1
    <3> QED
      BY <3>2, <3>3, TypeIsSet DEF ty
  <2> QED
    BY <2>1, <2>4, <2>6, <2>7 DEF data
<1> QED
  BY <1>6, <1>7

\* So is a search, if those in it are.
LEMMA SearchBack ==
  ASSUME NEW X, NEW ser, NEW des, NEW snt, ReadBack(X, ser, des, snt), NEW d,
         SearchesTo(d) = SearchesOf(X, d), NEW search \in SearchesOf(X, d)
  PROVE  /\ SearchSerialiser(ser, d)[search] \in Data
         /\ SearchDeserialiser(des, d)[SearchSerialiser(ser, d)[search]]
              = SearchesAsSent(snt, d)[search]
<1> DEFINE m == search.moduleName
           b == search.searchBytes
           r == search.ignoredSearchBytesRvas
           sp == search.specialSearches
           el == [i \in DOMAIN sp |-> serialiseSpecialSearch(ser, sp[i])]
           data == SearchSerialiser(ser, d)[search]
           kinds == <<"continuous", "continuous", "container", "elements">>
           back == [i \in DOMAIN sp |-> SpecialAsSent(snt, sp[i])]
<1>1. /\ m \in Text /\ b \in Bytes /\ r \in Rvas /\ sp \in Seq(SpecialSearchesOf(X))
      /\ search = [moduleName |-> m, searchBytes |-> b, ignoredSearchBytesRvas |-> r,
                   specialSearches |-> sp]
  BY DEF SearchesOf
<1>2. \A special \in SpecialSearchesOf(X) :
        /\ serialiseSpecialSearch(ser, special) \in Data
        /\ deserialiseSpecialSearch(des, serialiseSpecialSearch(ser, special))
             = SpecialAsSent(snt, special)
  BY SpecialBack
<1>3. el \in Seq(Data) /\ DOMAIN el = DOMAIN sp
  <2> HIDE DEF sp
  <2>1. [i \in DOMAIN sp |-> serialiseSpecialSearch(ser, sp[i])] \in Seq(Data)
    BY <1>1, <1>2
  <2> QED
    BY <2>1
<1>4. [i \in DOMAIN el |-> deserialiseSpecialSearch(des, el[i])] = back
  <2> HIDE DEF sp
  <2>1. \A i \in DOMAIN sp : sp[i] \in SpecialSearchesOf(X)
    BY <1>1
  <2>2. \A i \in DOMAIN sp : deserialiseSpecialSearch(des, el[i]) = back[i]
    BY <1>2, <2>1
  <2> QED
    BY <1>3, <2>2
<1>5. data = Chunk(m) \o Chunk(b) \o serialiseIntegralTypeContainer(r)
               \o serialiseSerialisableTypeContainer(el)
  <2>1. search \in SearchesTo(d)
    OBVIOUS
  <2>2. /\ serialiseIntegralTypeContinuousContainer(m) = Chunk(m)
        /\ serialiseIntegralTypeContinuousContainer(b) = Chunk(b)
    BY <1>1, TextRead, BytesRead
  <2> QED
    BY <2>1, <2>2 DEF SearchSerialiser
<1> HIDE DEF m, b, r, el, data, sp
<1>6. data \in Data /\ Fields(data, kinds) = <<m, b, r, el>>
  <2>1. /\ Reads("continuous", m, Chunk(m)) /\ Reads("continuous", b, Chunk(b))
        /\ Reads("container", r, serialiseIntegralTypeContainer(r))
        /\ Reads("elements", el, serialiseSerialisableTypeContainer(el))
    BY <1>1, <1>3, TextRead, BytesRead, RvasRead, ElementsRead
  <2> QED
    BY <1>5, <2>1, FourRead
<1>7. SearchDeserialiser(des, d)[data]
        = [moduleName |-> m, searchBytes |-> b, ignoredSearchBytesRvas |-> r,
           specialSearches |-> back]
  BY <1>4, <1>6 DEF SearchDeserialiser
<1>8. SearchesAsSent(snt, d)[search]
        = [moduleName |-> m, searchBytes |-> b, ignoredSearchBytesRvas |-> r,
           specialSearches |-> back]
  <2>1. SearchesAsSent(snt, d)[search] = [search EXCEPT !.specialSearches = back]
    BY DEF SearchesAsSent, sp
  <2> HIDE DEF back
  <2> QED
    BY <1>1, <2>1
<1> QED
  BY <1>6, <1>7, <1>8 DEF data

Serialisers(d) == Folded(<<>>, Counter(d), SearchSerialiser)
Deserialisers(d) == Folded(<<>>, Counter(d), SearchDeserialiser)
AsSents(d) == Folded(<<>>, Counter(d), SearchesAsSent)

LEMMA NextDepth ==
  ASSUME NEW d \in Nat
  PROVE  /\ Serialisers(d + 1) = SearchSerialiser(Serialisers(d), d + 1)
         /\ Deserialisers(d + 1) = SearchDeserialiser(Deserialisers(d), d + 1)
         /\ AsSents(d + 1) = SearchesAsSent(AsSents(d), d + 1)
<1> DEFINE xs == Counter(d + 1)
           ys == Counter(d)
<1>1. /\ Len(ys) \in Nat /\ Len(xs) = Len(ys) + 1 /\ xs[Len(xs)] = d + 1
      /\ \A i \in 1..Len(ys) : ys[i] = xs[i]
  BY CounterFacts
<1> HIDE DEF xs, ys
<1>2. Serialisers(d + 1) = SearchSerialiser(Serialisers(d), d + 1)
  <2>1. SerialiserLoop!Fold(<<>>, xs) = SearchSerialiser(SerialiserLoop!Fold(<<>>, ys), d + 1)
    BY <1>1, SerialiserLoop!FoldMore
  <2>2. /\ Serialisers(d + 1) = SerialiserLoop!Fold(<<>>, xs)
        /\ Serialisers(d) = SerialiserLoop!Fold(<<>>, ys)
    BY DEF Serialisers, SerialiserLoop!Fold, Folded, SerialiserLoop!Folded, xs, ys
  <2> QED
    BY <2>1, <2>2
<1>3. Deserialisers(d + 1) = SearchDeserialiser(Deserialisers(d), d + 1)
  <2>1. DeserialiserLoop!Fold(<<>>, xs) = SearchDeserialiser(DeserialiserLoop!Fold(<<>>, ys), d + 1)
    BY <1>1, DeserialiserLoop!FoldMore
  <2>2. /\ Deserialisers(d + 1) = DeserialiserLoop!Fold(<<>>, xs)
        /\ Deserialisers(d) = DeserialiserLoop!Fold(<<>>, ys)
    BY DEF Deserialisers, DeserialiserLoop!Fold, Folded, DeserialiserLoop!Folded, xs, ys
  <2> QED
    BY <2>1, <2>2
<1>4. AsSents(d + 1) = SearchesAsSent(AsSents(d), d + 1)
  <2>1. AsSentLoop!Fold(<<>>, xs) = SearchesAsSent(AsSentLoop!Fold(<<>>, ys), d + 1)
    BY <1>1, AsSentLoop!FoldMore
  <2>2. AsSents(d + 1) = AsSentLoop!Fold(<<>>, xs) /\ AsSents(d) = AsSentLoop!Fold(<<>>, ys)
    BY DEF AsSents, AsSentLoop!Fold, Folded, AsSentLoop!Folded, xs, ys
  <2> QED
    BY <2>1, <2>2
<1> QED
  BY <1>2, <1>3, <1>4

\* A search that was written is read as it is sent, at any depth.
LEMMA DepthsBack ==
  ASSUME NEW n \in Nat
  PROVE  ReadBack(SearchesTo(n), Serialisers(n), Deserialisers(n), AsSents(n))
<1> DEFINE K == {d \in 0..n : ReadBack(SearchesTo(d), Serialisers(d), Deserialisers(d), AsSents(d))}
<1>1. 0 \in K
  BY SearchesDepths DEF ReadBack
<1>2. ASSUME NEW d \in 0..(n - 1), d \in K PROVE d + 1 \in K
  <2>1. d \in Nat /\ d + 1 \in 0..n
    OBVIOUS
  <2>2. SearchesTo(d + 1) = SearchesOf(SearchesTo(d), d + 1)
    BY <2>1, SearchesDepths
  <2>3. ReadBack(SearchesTo(d), Serialisers(d), Deserialisers(d), AsSents(d))
    BY <1>2
  <2>4. ReadBack(SearchesTo(d + 1), SearchSerialiser(Serialisers(d), d + 1),
                 SearchDeserialiser(Deserialisers(d), d + 1), SearchesAsSent(AsSents(d), d + 1))
    BY <2>2, <2>3, SearchBack DEF ReadBack
  <2>5. ReadBack(SearchesTo(d + 1), Serialisers(d + 1), Deserialisers(d + 1), AsSents(d + 1))
    BY <2>1, <2>4, NextDepth
  <2> QED
    BY <2>1, <2>5
<1> HIDE DEF K
<1>3. 0..n \subseteq K
  BY <1>1, <1>2, Loops!UpTo
<1> QED
  BY <1>3 DEF K

LEMMA SearchIsReadBack ==
  ASSUME NEW s \in Searches
  PROVE  serialiseSearch(s) \in Data /\ deserialiseSearch(serialiseSearch(s)) = AsSent(s)
<1>1. ReadBack(Searches, Serialisers(Depth), Deserialisers(Depth), AsSents(Depth))
  BY DataAssumption, DepthsBack DEF Searches
<1> QED
  BY <1>1 DEF ReadBack, serialiseSearch, deserialiseSearch, AsSent, Serialisers, Deserialisers, AsSents

LEMMA NameSearchIsReadBack ==
  ASSUME NEW s, s.search \in Searches, s.functionName \in Text, s.functionRva \in Nat
  PROVE  /\ serialiseNameSearch(s) \in Data
         /\ deserialiseNameSearch(serialiseNameSearch(s))
              = [search |-> AsSent(s.search), functionName |-> s.functionName,
                 functionRva |-> s.functionRva]
<1> DEFINE b == serialiseSearch(s.search)
           f == s.functionName
           r == s.functionRva
           data == serialiseNameSearch(s)
<1>1. b \in Data /\ deserialiseSearch(b) = AsSent(s.search)
  BY SearchIsReadBack
<1>2. f \in Text /\ r \in Int
  OBVIOUS
<1>3. data = serialiseIntegralTypeContinuousContainer(b) \o serialiseIntegralTypeContinuousContainer(f)
               \o serialiseIntegralType(r)
  BY DEF serialiseNameSearch
<1> HIDE DEF b, f, r, data
<1>4. data = Chunk(b) \o Chunk(f) \o <<r>>
  BY <1>1, <1>2, <1>3, DataRead, TextRead, IntegralRead
<1>5. data \in Data /\ Fields(data, <<"continuous", "continuous", "integral">>) = <<b, f, r>>
  BY <1>1, <1>2, <1>4, DataRead, TextRead, IntegralRead, ThreeRead
<1>6. deserialiseNameSearch(data) = [search |-> AsSent(s.search), functionName |-> f, functionRva |-> r]
  BY <1>1, <1>5 DEF deserialiseNameSearch
<1> QED
  BY <1>5, <1>6 DEF data, f, r

JoinedTo(data, piece) == data \o piece
PieceLoop == INSTANCE LoopProofs WITH Body <- JoinedTo

\* What is put together of up to twelve pieces, piece by piece.
HeadsOf(n, p, heads) ==
  /\ heads[0] = <<>>
  /\ \A i \in 1..n : heads[i] = heads[i - 1] \o p[i]

LEMMA Pieces ==
  ASSUME NEW n \in Nat, NEW pieces, Len(pieces) = n
  PROVE  \E heads : HeadsOf(n, pieces, heads)
<1>1. PICK heads : PieceLoop!Runs(<<>>, pieces, heads)
  BY PieceLoop!FoldDefined
<1>2. heads[0] = <<>> /\ \A i \in 1..n : heads[i] = JoinedTo(heads[i - 1], pieces[i])
  BY <1>1 DEF PieceLoop!Runs
<1> QED
  BY <1>2 DEF HeadsOf, JoinedTo

LEMMA FivePieces ==
  ASSUME NEW n \in Nat, n >= 5, NEW p, NEW heads, HeadsOf(n, p, heads), p[1] \in Data
  PROVE  heads[5] = p[1] \o p[2] \o p[3] \o p[4] \o p[5]
<1>1. {1, 2, 3, 4, 5} \subseteq 1..n /\ 2 - 1 = 1 /\ 3 - 1 = 2 /\ 4 - 1 = 3 /\ 5 - 1 = 4 /\ 1 - 1 = 0
  OBVIOUS
<1>2. heads[1] = heads[0] \o p[1] /\ heads[0] = <<>>
  BY <1>1 DEF HeadsOf
<1>3. heads[1] = p[1]
  BY <1>2, NothingJoined
<1>4. /\ heads[2] = heads[1] \o p[2] /\ heads[3] = heads[2] \o p[3]
      /\ heads[4] = heads[3] \o p[4] /\ heads[5] = heads[4] \o p[5]
  BY <1>1 DEF HeadsOf
<1> QED
  BY <1>3, <1>4

LEMMA TenPieces ==
  ASSUME NEW n \in Nat, n >= 10, NEW p, NEW heads, HeadsOf(n, p, heads)
  PROVE  heads[10] = heads[5] \o p[6] \o p[7] \o p[8] \o p[9] \o p[10]
<1>1. {6, 7, 8, 9, 10} \subseteq 1..n /\ 6 - 1 = 5 /\ 7 - 1 = 6 /\ 8 - 1 = 7 /\ 9 - 1 = 8 /\ 10 - 1 = 9
  OBVIOUS
<1>2. /\ heads[6] = heads[5] \o p[6] /\ heads[7] = heads[6] \o p[7] /\ heads[8] = heads[7] \o p[8]
      /\ heads[9] = heads[8] \o p[9] /\ heads[10] = heads[9] \o p[10]
  BY <1>1 DEF HeadsOf
<1> QED
  BY <1>2

\* Values of n fields, each read from its piece.
PiecesRead(n, kinds, values, pieces) ==
  /\ Len(kinds) = n /\ Len(pieces) = n
  /\ \A i \in 1..n : Reads(kinds[i], values[i], pieces[i])

\* The pieces put together, and the values read from them, whatever follows.
ReadTogether(n, kinds, values, pieces, heads) ==
  /\ HeadsOf(n, pieces, heads) /\ heads[n] \in Data
  /\ Fields(heads[n], kinds) = [i \in 1..n |-> values[i]]
  /\ \A rest \in Data : Fields(heads[n] \o rest, kinds) = [i \in 1..n |-> values[i]]

LEMMA ManyRead ==
  ASSUME NEW n \in Nat, NEW kinds, NEW values, NEW pieces, PiecesRead(n, kinds, values, pieces)
  PROVE  \E heads : ReadTogether(n, kinds, values, pieces, heads)
<1>1. PICK heads : HeadsOf(n, pieces, heads)
  BY Pieces DEF PiecesRead
<1>2. FromNothing(n, kinds, values, pieces, heads)
  BY <1>1 DEF FromNothing, PiecesRead, HeadsOf
<1>3. \A rest \in Data : heads[n] \in Data /\ Fields(heads[n] \o rest, kinds) = [i \in 1..n |-> values[i]]
  BY <1>2, FieldsRead
<1>4. heads[n] \in Data /\ Fields(heads[n] \o <<>>, kinds) = [i \in 1..n |-> values[i]]
  <2>1. <<>> \in Data
    BY DEF Data
  <2> QED
    BY <1>3, <2>1
<1>5. Fields(heads[n], kinds) = [i \in 1..n |-> values[i]]
  BY <1>4, NothingJoined
<1> QED
  BY <1>1, <1>3, <1>4, <1>5 DEF ReadTogether

LEMMA AppendFacts ==
  ASSUME NEW S, NEW s \in Seq(S), NEW k \in S
  PROVE  /\ Len(Append(s, k)) = Len(s) + 1 /\ Append(s, k)[Len(s) + 1] = k
         /\ \A i \in 1..Len(s) : Append(s, k)[i] = s[i]
OBVIOUS

\* One field more than those that are read already.
Kinds == {"integral", "continuous", "container", "elements"}
LEMMA ReadOn ==
  ASSUME NEW n \in Nat, NEW kinds \in Seq(Kinds), NEW values, NEW pieces, NEW heads,
         PiecesRead(n, kinds, values, pieces), HeadsOf(n, pieces, heads),
         NEW k \in Kinds, NEW v, NEW p, Reads(k, v, p)
  PROVE  Fields(heads[n] \o p, Append(kinds, k))[n + 1] = v
<1> DEFINE m == n + 1
           ks == Append(kinds, k)
           vs == [i \in 1..m |-> IF i = m THEN v ELSE values[i]]
           ps == [i \in 1..m |-> IF i = m THEN p ELSE pieces[i]]
           hs == [i \in 0..m |-> IF i = m THEN heads[n] \o p ELSE heads[i]]
<1>1. m \in Nat /\ m \in 1..m /\ m - 1 = n /\ n + 1 = m /\ 1..n \subseteq 1..m /\ 0 # m
  OBVIOUS
<1>1a. Len(kinds) = n
  BY DEF PiecesRead
<1>2. Len(ks) = m /\ ks[m] = k /\ \A i \in 1..n : ks[i] = kinds[i]
  BY <1>1, <1>1a, AppendFacts
<1>3. /\ vs[m] = v /\ ps[m] = p /\ hs[m] = heads[n] \o p /\ hs[n] = heads[n] /\ hs[0] = <<>>
      /\ \A i \in 1..n : /\ vs[i] = values[i] /\ ps[i] = pieces[i] /\ hs[i] = heads[i]
                         /\ hs[i - 1] = heads[i - 1]
  BY <1>1 DEF HeadsOf
<1>4. vs = [i \in 1..m |-> vs[i]]
  OBVIOUS
<1> HIDE DEF ks, vs, ps, hs
<1>5. ASSUME NEW i \in 1..m PROVE Reads(ks[i], vs[i], ps[i]) /\ hs[i] = hs[i - 1] \o ps[i]
  <2>1. CASE i = m
    BY <1>1, <1>2, <1>3, <2>1
  <2>2. CASE i # m
    <3>1. i \in 1..n
      BY <1>1, <2>2
    <3>2. Reads(kinds[i], values[i], pieces[i]) /\ heads[i] = heads[i - 1] \o pieces[i]
      BY <3>1 DEF PiecesRead, HeadsOf
    <3> QED
      BY <1>2, <1>3, <3>1, <3>2
  <2> QED
    BY <2>1, <2>2
<1>6. FromNothing(m, ks, vs, ps, hs)
  BY <1>2, <1>3, <1>5 DEF FromNothing
<1>7. <<>> \in Data
  BY DEF Data
<1> HIDE DEF m
<1>8. hs[m] \in Data /\ Fields(hs[m] \o <<>>, ks) = [i \in 1..m |-> vs[i]]
  <2>1. m \in Nat
    BY <1>1
  <2>2. \A rest \in Data : hs[m] \in Data /\ Fields(hs[m] \o rest, ks) = [i \in 1..m |-> vs[i]]
    BY <1>6, <2>1, FieldsRead
  <2> QED
    BY <1>7, <2>2
<1>9. Fields(hs[m], ks) = vs
  BY <1>4, <1>8, NothingJoined
<1> QED
  BY <1>3, <1>9 DEF ks, m

LEMMA TwoIntegers ==
  ASSUME NEW x \in Data, NEW a \in Int, NEW b \in Int
  PROVE  x \o <<a, b>> = x \o <<a>> \o <<b>>
<1> DEFINE one == <<a>>
           two == <<b>>
           both == <<a, b>>
<1>1. /\ one \in Data /\ Len(one) = 1 /\ one[1] = a
      /\ two \in Data /\ Len(two) = 1 /\ two[1] = b
      /\ both \in Data /\ Len(both) = 2 /\ both[1] = a /\ both[2] = b
  BY DEF Data
<1> HIDE DEF one, two, both
<1>2. /\ one \o two \in Data /\ Len(one \o two) = 2
      /\ (one \o two)[1] = a /\ (one \o two)[2] = b
  <2>1. 1 \in 1..Len(one) /\ 1 \in 1..Len(two) /\ Len(one) + 1 = 2
    BY <1>1
  <2>2. /\ one \o two \in Data /\ Len(one \o two) = Len(one) + Len(two)
        /\ \A i \in 1..Len(one) : (one \o two)[i] = one[i]
        /\ \A i \in 1..Len(two) : (one \o two)[Len(one) + i] = two[i]
    BY <1>1, JoinedFacts
  <2>3. (one \o two)[1] = one[1] /\ (one \o two)[Len(one) + 1] = two[1]
    BY <2>1, <2>2, Zenon
  <2> QED
    BY <1>1, <2>1, <2>2, <2>3
<1>3. \A i \in 1..2 : i = 1 \/ i = 2
  OBVIOUS
<1>4. both = one \o two
  BY <1>1, <1>2, <1>3, SameData
<1> QED
  BY <1>1, <1>4, Associative DEF one, two, both

Four(a, b, c, d) == <<a, b, c, d>>
FourJoined(x, a, b, c, d) == x \o Four(a, b, c, d) = x \o <<a>> \o <<b>> \o <<c>> \o <<d>>

LEMMA FourIntegers ==
  ASSUME NEW x \in Data, NEW a \in Int, NEW b \in Int, NEW c \in Int, NEW d \in Int
  PROVE  FourJoined(x, a, b, c, d)
<1> DEFINE p == <<a, b>>
           q == <<c, d>>
           all == <<a, b, c, d>>
<1>1. /\ p \in Data /\ Len(p) = 2 /\ p[1] = a /\ p[2] = b
      /\ q \in Data /\ Len(q) = 2 /\ q[1] = c /\ q[2] = d
      /\ all \in Data /\ Len(all) = 4 /\ all[1] = a /\ all[2] = b /\ all[3] = c /\ all[4] = d
  BY DEF Data
<1> HIDE DEF p, q, all
<1>2. /\ p \o q \in Data /\ Len(p \o q) = 4
      /\ (p \o q)[1] = a /\ (p \o q)[2] = b /\ (p \o q)[3] = c /\ (p \o q)[4] = d
  <2>1. /\ 1 \in 1..Len(p) /\ 2 \in 1..Len(p) /\ 1 \in 1..Len(q) /\ 2 \in 1..Len(q)
        /\ Len(p) + 1 = 3 /\ Len(p) + 2 = 4
    BY <1>1
  <2>2. /\ p \o q \in Data /\ Len(p \o q) = Len(p) + Len(q)
        /\ \A i \in 1..Len(p) : (p \o q)[i] = p[i]
        /\ \A i \in 1..Len(q) : (p \o q)[Len(p) + i] = q[i]
    BY <1>1, JoinedFacts
  <2>3. (p \o q)[1] = p[1] /\ (p \o q)[2] = p[2]
    BY <2>1, <2>2, Zenon
  <2>4. (p \o q)[Len(p) + 1] = q[1] /\ (p \o q)[Len(p) + 2] = q[2]
    BY <2>1, <2>2, Zenon
  <2> QED
    BY <1>1, <2>1, <2>2, <2>3, <2>4
<1>3. \A i \in 1..4 : i = 1 \/ i = 2 \/ i = 3 \/ i = 4
  OBVIOUS
<1>4. all = p \o q
  BY <1>1, <1>2, <1>3, SameData
<1>5. x \o all = (x \o p) \o q /\ x \o p \in Data
  BY <1>1, <1>4, Associative, JoinedFacts
<1>6. /\ x \o p = x \o <<a>> \o <<b>>
      /\ (x \o p) \o q = (x \o p) \o <<c>> \o <<d>>
  BY <1>5, TwoIntegers DEF p, q
<1> QED
  BY <1>5, <1>6 DEF all, FourJoined, Four

Six(a, b, c, d, e, f) == <<a, b, c, d, e, f>>
SixJoined(x, a, b, c, d, e, f) ==
  x \o Six(a, b, c, d, e, f) = x \o <<a>> \o <<b>> \o <<c>> \o <<d>> \o <<e>> \o <<f>>

LEMMA SixIntegers ==
  ASSUME NEW x \in Data, NEW a \in Int, NEW b \in Int, NEW c \in Int, NEW d \in Int,
         NEW e \in Int, NEW f \in Int
  PROVE  SixJoined(x, a, b, c, d, e, f)
<1>0. FourJoined(x, a, b, c, d)
  BY FourIntegers
<1> DEFINE p == <<a, b, c, d>>
           q == <<e, f>>
           all == <<a, b, c, d, e, f>>
<1>1. /\ p \in Data /\ Len(p) = 4 /\ p[1] = a /\ p[2] = b /\ p[3] = c /\ p[4] = d
      /\ q \in Data /\ Len(q) = 2 /\ q[1] = e /\ q[2] = f
      /\ all \in Data /\ Len(all) = 6 /\ all[1] = a /\ all[2] = b /\ all[3] = c /\ all[4] = d
      /\ all[5] = e /\ all[6] = f
  BY DEF Data
<1> HIDE DEF p, q, all
<1>2. /\ p \o q \in Data /\ Len(p \o q) = 6
      /\ (p \o q)[1] = a /\ (p \o q)[2] = b /\ (p \o q)[3] = c /\ (p \o q)[4] = d
      /\ (p \o q)[5] = e /\ (p \o q)[6] = f
  <2>1. /\ 1 \in 1..Len(p) /\ 2 \in 1..Len(p) /\ 3 \in 1..Len(p) /\ 4 \in 1..Len(p)
        /\ 1 \in 1..Len(q) /\ 2 \in 1..Len(q) /\ Len(p) + 1 = 5 /\ Len(p) + 2 = 6
    BY <1>1
  <2>2. /\ p \o q \in Data /\ Len(p \o q) = Len(p) + Len(q)
        /\ \A i \in 1..Len(p) : (p \o q)[i] = p[i]
        /\ \A i \in 1..Len(q) : (p \o q)[Len(p) + i] = q[i]
    BY <1>1, JoinedFacts
  <2>3. (p \o q)[1] = p[1] /\ (p \o q)[2] = p[2] /\ (p \o q)[3] = p[3] /\ (p \o q)[4] = p[4]
    BY <2>1, <2>2, Zenon
  <2>4. (p \o q)[Len(p) + 1] = q[1] /\ (p \o q)[Len(p) + 2] = q[2]
    BY <2>1, <2>2, Zenon
  <2> QED
    BY <1>1, <2>1, <2>2, <2>3, <2>4
<1>3. \A i \in 1..6 : i = 1 \/ i = 2 \/ i = 3 \/ i = 4 \/ i = 5 \/ i = 6
  OBVIOUS
<1>4. all = p \o q
  BY <1>1, <1>2, <1>3, SameData
<1>5. x \o all = (x \o p) \o q /\ x \o p \in Data
  BY <1>1, <1>4, Associative, JoinedFacts
<1>6. (x \o p) \o q = (x \o p) \o <<e>> \o <<f>>
  BY <1>5, TwoIntegers DEF q
<1>7. x \o p = x \o <<a>> \o <<b>> \o <<c>> \o <<d>>
  BY <1>0 DEF p, FourJoined, Four
<1> QED
  BY <1>5, <1>6, <1>7 DEF all, SixJoined, Six

LEMMA HookBack ==
  ASSUME NEW hook \in HookType, hook.type # "BLANK"
  PROVE  /\ serialiseHook(hook) \in Data
         /\ deserialiseHook(serialiseHook(hook)) = [hook EXCEPT !.data.search = AsSent(@)]
<1> DEFINE v1 == hook.name
           v2 == hook.hookRva
           v3 == hook.returnRva
           v4 == hook.extraStackSpace
           v5 == hook.stackSpaceToPopAfterReturn
           v6 == hook.prologueFunction
           v7 == hook.epilogueFunction
           v8 == hook.prologueInstructionsBytes
           v9 == hook.epilogueInstructionsBytes
           v10 == hook.headerIncludes
           v11 == Place(HookTypes, hook.type)
           b == IF hook.type = "NAME" THEN serialiseNameSearch(hook.data)
                ELSE serialiseSearch(hook.data.search)
           elements == serialiseSerialisableTypeContainer(v10)
           common == <<"continuous", "integral", "integral", "integral", "integral", "continuous",
                       "continuous", "continuous", "continuous", "elements", "integral">>
           values == <<v1, v2, v3, v4, v5, v6, v7, v8, v9, v10, v11>>
           pieces == <<Chunk(v1), <<v2>>, <<v3>>, <<v4>>, <<v5>>, Chunk(v6), Chunk(v7), Chunk(v8),
                       Chunk(v9), elements, <<v11>>>>
           data == serialiseHook(hook)
<1>1. /\ v1 \in Text /\ v2 \in Int /\ v3 \in Int /\ v4 \in Int /\ v5 \in Int /\ v6 \in Text
      /\ v7 \in Text /\ v8 \in Bytes /\ v9 \in Bytes /\ v10 \in Seq(Text)
  BY DEF HookType
<1>2. hook.type \in {"NAME", "SEARCH"} /\ DOMAIN HookTypes = 1..3 /\ 3 \in Nat
      /\ HookTypes[2] = "NAME" /\ HookTypes[3] = "SEARCH" /\ 2 \in 1..3 /\ 3 \in 1..3
  BY HookFacts DEF HookTypes
<1>3. v11 \in Int /\ HookTypes[v11 + 1] = hook.type
  <2>1. \E i \in 1..3 : HookTypes[i] = hook.type
    BY <1>2
  <2> QED
    BY <1>2, <2>1, PlaceFacts
<1>4. b \in Data
  BY <1>2, HookFacts, NameSearchFacts, NameSearchIsReadBack, SearchIsReadBack
<1> HIDE DEF v1, v2, v3, v4, v5, v6, v7, v8, v9, v10, v11, b, data, elements
<1>5. v10 \in Seq(Data)
  <2>1. DOMAIN v10 = 1..Len(v10) /\ Len(v10) \in Nat /\ v10 = [i \in 1..Len(v10) |-> v10[i]]
        /\ \A i \in 1..Len(v10) : v10[i] \in Text
    BY <1>1
  <2>2. \A i \in 1..Len(v10) : v10[i] \in Data
    BY <2>1, TextIsData
  <2> QED
    BY <2>1, <2>2
<1>6. /\ Reads("continuous", v1, Chunk(v1)) /\ Reads("continuous", v6, Chunk(v6))
      /\ Reads("continuous", v7, Chunk(v7)) /\ Reads("continuous", v8, Chunk(v8))
      /\ Reads("continuous", v9, Chunk(v9))
      /\ Reads("elements", v10, elements)
      /\ Reads("integral", v2, <<v2>>) /\ Reads("integral", v3, <<v3>>)
      /\ Reads("integral", v4, <<v4>>) /\ Reads("integral", v5, <<v5>>)
      /\ Reads("integral", v11, <<v11>>)
  BY <1>1, <1>3, <1>5, TextRead, BytesRead, IntegralRead, ElementsRead DEF elements
<1>7. PiecesRead(11, common, values, pieces)
  <2>1. \A i \in 1..11 : Reads(common[i], values[i], pieces[i])
    BY <1>6
  <2>2. Len(common) = 11 /\ Len(pieces) = 11
    OBVIOUS
  <2> QED
    BY <2>1, <2>2 DEF PiecesRead
<1> DEFINE n == 11
<1>7a. n \in Nat /\ PiecesRead(n, common, values, pieces) /\ n >= 10
  BY <1>7
<1> HIDE DEF n, common, values, pieces
<1>7b. PICK heads : ReadTogether(n, common, values, pieces, heads)
  BY <1>7a, ManyRead
<1>8. /\ HeadsOf(n, pieces, heads) /\ heads[n] \in Data
      /\ Fields(heads[n], common) = [i \in 1..n |-> values[i]]
      /\ \A rest \in Data : Fields(heads[n] \o rest, common) = [i \in 1..n |-> values[i]]
  BY <1>7b DEF ReadTogether
<1>9. [i \in 1..n |-> values[i]] = values
  BY DEF n, values
<1>10. serialiseHook(hook) = heads[11] \o Chunk(Chunk(b))
  <2>1. /\ pieces[1] = Chunk(v1) /\ pieces[2] = <<v2>> /\ pieces[3] = <<v3>> /\ pieces[4] = <<v4>>
        /\ pieces[5] = <<v5>> /\ pieces[6] = Chunk(v6) /\ pieces[7] = Chunk(v7)
        /\ pieces[8] = Chunk(v8) /\ pieces[9] = Chunk(v9) /\ pieces[10] = elements
        /\ pieces[11] = <<v11>> /\ Chunk(v1) \in Data
    BY <1>6 DEF pieces, Reads
  <2>2. n >= 5 /\ pieces[1] \in Data
    BY <2>1 DEF n
  <2>3. heads[5] = pieces[1] \o pieces[2] \o pieces[3] \o pieces[4] \o pieces[5]
    BY <1>7a, <1>8, <2>2, FivePieces
  <2>4. heads[10] = heads[5] \o pieces[6] \o pieces[7] \o pieces[8] \o pieces[9] \o pieces[10]
    BY <1>7a, <1>8, TenPieces
  <2>5. heads[11] = heads[10] \o pieces[11]
    <3>1. 11 \in 1..n /\ 11 - 1 = 10
      BY DEF n
    <3> QED
      BY <1>8, <3>1 DEF HeadsOf
  <2>6. FourJoined(Chunk(v1), v2, v3, v4, v5)
    BY <1>1, <2>1, FourIntegers
  <2>7. heads[5] = Chunk(v1) \o <<v2, v3, v4, v5>>
    BY <2>1, <2>3, <2>6 DEF FourJoined, Four
  <2>8. heads[11] = Chunk(v1) \o <<v2, v3, v4, v5>> \o Chunk(v6) \o Chunk(v7)
                      \o Chunk(v8) \o Chunk(v9) \o elements \o <<v11>>
    BY <2>1, <2>4, <2>5, <2>7
  <2>9. /\ serialiseIntegralTypeContinuousContainer(v1) = Chunk(v1)
        /\ serialiseIntegralTypeContinuousContainer(v6) = Chunk(v6)
        /\ serialiseIntegralTypeContinuousContainer(v7) = Chunk(v7)
        /\ serialiseIntegralTypeContinuousContainer(v8) = Chunk(v8)
        /\ serialiseIntegralTypeContinuousContainer(v9) = Chunk(v9)
        /\ serialiseIntegralTypeContinuousContainer(serialiseIntegralTypeContinuousContainer(b))
             = Chunk(Chunk(b))
        /\ serialiseIntegralType(v11) = <<v11>>
    BY <1>1, <1>3, <1>4, TextRead, BytesRead, DataRead, IntegralRead
  <2>10. serialiseHook(hook)
          = serialiseIntegralTypeContinuousContainer(v1) \o <<v2, v3, v4, v5>>
              \o serialiseIntegralTypeContinuousContainer(v6)
              \o serialiseIntegralTypeContinuousContainer(v7)
              \o serialiseIntegralTypeContinuousContainer(v8)
              \o serialiseIntegralTypeContinuousContainer(v9)
              \o elements \o serialiseIntegralType(v11)
              \o serialiseIntegralTypeContinuousContainer(serialiseIntegralTypeContinuousContainer(b))
    BY <1>2 DEF serialiseHook, v1, v2, v3, v4, v5, v6, v7, v8, v9, v10, v11, elements, b
  <2> QED
    BY <2>8, <2>9, <2>10
<1>11. /\ data = heads[11] \o Chunk(Chunk(b)) /\ data \in Data /\ Fields(data, common) = values
       /\ Fields(data, Append(common, "continuous"))[12] = Chunk(b)
       /\ Fields(Chunk(b), <<"continuous">>)[1] = b
  <2>1. Chunk(b) \in Data /\ Chunk(Chunk(b)) \in Data
    BY <1>4, DataRead
  <2>2. n = 11
    BY DEF n
  <2>3. Reads("continuous", Chunk(b), Chunk(Chunk(b))) /\ Reads("continuous", b, Chunk(b))
    BY <1>4, <2>1, DataRead
  <2>4. common \in Seq(Kinds) /\ "continuous" \in Kinds
    BY DEF common, Kinds
  <2>5. Fields(heads[n] \o Chunk(Chunk(b)), Append(common, "continuous"))[n + 1] = Chunk(b)
    BY <1>7a, <1>8, <2>3, <2>4, ReadOn
  <2>6. Fields(Chunk(b), <<"continuous">>) = <<b>>
    BY <2>3, OneRead
  <2> QED
    BY <1>8, <1>9, <1>10, <2>1, <2>2, <2>5, <2>6, JoinedFacts DEF data
<1> DEFINE back == [name |-> v1, hookRva |-> v2, returnRva |-> v3, extraStackSpace |-> v4,
                    stackSpaceToPopAfterReturn |-> v5, prologueFunction |-> v6,
                    epilogueFunction |-> v7, prologueInstructionsBytes |-> v8,
                    epilogueInstructionsBytes |-> v9, headerIncludes |-> v10,
                    type |-> "BLANK", data |-> Nothing]
           Of(t, d) == [name |-> v1, hookRva |-> v2, returnRva |-> v3, extraStackSpace |-> v4,
                        stackSpaceToPopAfterReturn |-> v5, prologueFunction |-> v6,
                        epilogueFunction |-> v7, prologueInstructionsBytes |-> v8,
                        epilogueInstructionsBytes |-> v9, headerIncludes |-> v10,
                        type |-> t, data |-> d]
<1>12. deserialiseHook(data)
         = CASE hook.type = "NAME" -> setType(back, "NAME", deserialiseNameSearch(b))
             [] hook.type = "SEARCH" -> setType(back, "SEARCH", [search |-> deserialiseSearch(b)])
             [] hook.type = "BLANK" -> clearType(back)
  <2>1. /\ values[1] = v1 /\ values[2] = v2 /\ values[3] = v3 /\ values[4] = v4 /\ values[5] = v5
        /\ values[6] = v6 /\ values[7] = v7 /\ values[8] = v8 /\ values[9] = v9 /\ values[10] = v10
        /\ values[11] = v11
    BY DEF values
  <2>2. deserialiseHook(data)
          = LET f == Fields(data, common)
                inner == Fields(Fields(data, Append(common, "continuous"))[12], <<"continuous">>)[1]
                new == [name |-> f[1], hookRva |-> f[2], returnRva |-> f[3],
                        extraStackSpace |-> f[4], stackSpaceToPopAfterReturn |-> f[5],
                        prologueFunction |-> f[6], epilogueFunction |-> f[7],
                        prologueInstructionsBytes |-> f[8], epilogueInstructionsBytes |-> f[9],
                        headerIncludes |-> f[10], type |-> "BLANK", data |-> Nothing]
                type == HookTypes[f[11] + 1]
            IN  CASE type = "NAME" -> setType(new, "NAME", deserialiseNameSearch(inner))
                  [] type = "SEARCH" -> setType(new, "SEARCH", [search |-> deserialiseSearch(inner)])
                  [] type = "BLANK" -> clearType(new)
    BY DEF deserialiseHook, common
  <2> QED
    BY <1>3, <1>11, <2>1, <2>2
<1>13. \A t, d : /\ [back EXCEPT !.type = t] = Of(t, Nothing)
                 /\ [Of(t, Nothing) EXCEPT !.data = d] = Of(t, d)
  OBVIOUS
<1>14. hook = Of(hook.type, hook.data)
  BY DEF HookType, v1, v2, v3, v4, v5, v6, v7, v8, v9, v10
<1> HIDE DEF back
<1>15. \A t, d : setType(back, t, d) = Of(t, d)
  BY <1>13, TypeIsSet
<1>16. deserialiseHook(data) = [hook EXCEPT !.data.search = AsSent(@)]
  <2>1. CASE hook.type = "NAME"
    <3> DEFINE s == hook.data.search
               f == hook.data.functionName
               r == hook.data.functionRva
    <3>1. s \in Searches /\ f \in Text /\ r \in Nat
          /\ hook.data = [search |-> s, functionName |-> f, functionRva |-> r]
      BY <2>1, HookFacts, NameSearchFacts DEF NameSearches
    <3>2. deserialiseNameSearch(b) = [search |-> AsSent(s), functionName |-> f, functionRva |-> r]
      BY <2>1, <3>1, NameSearchIsReadBack DEF b
    <3>3. deserialiseHook(data) = Of("NAME", [search |-> AsSent(s), functionName |-> f, functionRva |-> r])
      BY <1>12, <1>15, <2>1, <3>2
    <3>4. hook = Of("NAME", hook.data)
      BY <1>14, <2>1
    <3>5. [hook.data EXCEPT !.search = AsSent(s)]
            = [search |-> AsSent(s), functionName |-> f, functionRva |-> r]
      BY <3>1
    <3>6. [hook EXCEPT !.data.search = AsSent(@)] = [hook EXCEPT !.data = [hook.data EXCEPT !.search = AsSent(s)]]
      BY <3>4
    <3> HIDE DEF s, f, r
    <3>7. \A d, e : [Of("NAME", d) EXCEPT !.data = e] = Of("NAME", e)
      OBVIOUS
    <3> QED
      BY <3>3, <3>4, <3>5, <3>6, <3>7
  <2>2. CASE hook.type = "SEARCH"
    <3> DEFINE s == hook.data.search
    <3>1. s \in Searches /\ hook.data = [search |-> s]
      BY <2>2, HookFacts
    <3>2. deserialiseSearch(b) = AsSent(s)
      BY <2>2, <3>1, SearchIsReadBack DEF b
    <3>3. deserialiseHook(data) = Of("SEARCH", [search |-> AsSent(s)])
      BY <1>12, <1>15, <2>2, <3>2
    <3>4. hook = Of("SEARCH", hook.data)
      BY <1>14, <2>2
    <3>5. [hook.data EXCEPT !.search = AsSent(s)] = [search |-> AsSent(s)]
      BY <3>1
    <3>6. [hook EXCEPT !.data.search = AsSent(@)] = [hook EXCEPT !.data = [hook.data EXCEPT !.search = AsSent(s)]]
      BY <3>4
    <3> HIDE DEF s
    <3>7. \A d, e : [Of("SEARCH", d) EXCEPT !.data = e] = Of("SEARCH", e)
      OBVIOUS
    <3> QED
      BY <3>3, <3>4, <3>5, <3>6, <3>7
  <2> QED
    BY <1>2, <2>1, <2>2
<1> QED
  BY <1>11, <1>16 DEF data

\* The data of a patch that is not blank is read back as it is sent.
LEMMA PatchDataBack ==
  ASSUME NEW patch \in PatchType, patch.type # "BLANK"
  PROVE  /\ serialisePatchData(patch) \in Data
         /\ deserialisePatchData(patch.type, serialisePatchData(patch)) = PatchAsSent(patch).data
<1> DEFINE data == serialisePatchData(patch)
<1>1. CASE patch.type = "HOOK"
  <2> DEFINE h == patch.data.hookName
             f == patch.data.functionBody
  <2>1. h \in Text /\ f \in Text /\ patch.data = [hookName |-> h, functionBody |-> f]
    BY <1>1, PatchFacts
  <2>2. data = serialiseIntegralTypeContinuousContainer(h) \o serialiseIntegralTypeContinuousContainer(f)
    BY <1>1 DEF serialisePatchData
  <2> HIDE DEF h, f, data
  <2>3. data = Chunk(h) \o Chunk(f)
    BY <2>1, <2>2, TextRead
  <2>4. data \in Data /\ Fields(data, <<"continuous", "continuous">>) = <<h, f>>
    BY <2>1, <2>3, TextRead, TwoRead
  <2>5. deserialisePatchData("HOOK", data) = [hookName |-> h, functionBody |-> f]
    BY <2>4 DEF deserialisePatchData
  <2>6. PatchAsSent(patch) = patch
    BY <1>1 DEF PatchAsSent
  <2> QED
    BY <1>1, <2>1, <2>4, <2>5, <2>6 DEF data
<1>2. CASE patch.type \in {"REPLACE_NAME", "REPLACE_SEARCH"}
  <2> DEFINE s == patch.data.search
             r == patch.data.replaceBytes
             i == patch.data.ignoredReplaceBytesRvas
             b == IF patch.type = "REPLACE_NAME" THEN serialiseNameSearch(patch.data)
                  ELSE serialiseSearch(s)
             kinds == <<"continuous", "container", "continuous">>
  <2>1. s \in Searches /\ r \in Bytes /\ i \in Rvas
    BY <1>2, PatchFacts
  <2>2. b \in Data
    <3>1. CASE patch.type = "REPLACE_NAME"
      BY <3>1, PatchFacts, NameSearchIsReadBack
    <3>2. CASE patch.type = "REPLACE_SEARCH"
      BY <2>1, <3>2, SearchIsReadBack
    <3> QED
      BY <1>2, <3>1, <3>2
  <2>3. data = serialiseIntegralTypeContinuousContainer(r) \o serialiseIntegralTypeContainer(i)
                 \o serialiseIntegralTypeContinuousContainer(b)
    BY <1>2 DEF serialisePatchData
  <2> HIDE DEF s, r, i, b, data
  <2>4. data = Chunk(r) \o serialiseIntegralTypeContainer(i) \o Chunk(b)
    BY <2>1, <2>2, <2>3, BytesRead, DataRead
  <2>5. data \in Data /\ Fields(data, kinds) = <<r, i, b>>
    BY <2>1, <2>2, <2>4, BytesRead, DataRead, RvasRead, ThreeRead
  <2>6. PatchAsSent(patch) = [patch EXCEPT !.data = [patch.data EXCEPT !.search = AsSent(s)]]
    BY <1>2 DEF PatchAsSent, PatchType, s
  <2>7. PatchAsSent(patch).data = [patch.data EXCEPT !.search = AsSent(s)]
    BY <1>2, <2>6 DEF PatchType
  <2>8. CASE patch.type = "REPLACE_NAME"
    <3> DEFINE f == patch.data.functionName
               a == patch.data.functionRva
    <3>1. f \in Text /\ a \in Nat
          /\ patch.data = [search |-> s, functionName |-> f, functionRva |-> a, replaceBytes |-> r,
                           ignoredReplaceBytesRvas |-> i]
      BY <2>8, PatchFacts DEF s, r, i
    <3> HIDE DEF f, a
    <3>2. deserialiseNameSearch(b) = [search |-> AsSent(s), functionName |-> f, functionRva |-> a]
      <4>1. patch.data.search \in Searches /\ patch.data.functionName \in Text /\ patch.data.functionRva \in Nat
        BY <2>1, <3>1 DEF s, f, a
      <4> QED
        BY <2>8, <4>1, NameSearchIsReadBack DEF b, s, f, a
    <3>3. deserialisePatchData("REPLACE_NAME", data)
            = [search |-> AsSent(s), functionName |-> f, functionRva |-> a, replaceBytes |-> r,
               ignoredReplaceBytesRvas |-> i]
      BY <2>5, <3>2 DEF deserialisePatchData, ReplaceName
    <3>4. [patch.data EXCEPT !.search = AsSent(s)]
            = [search |-> AsSent(s), functionName |-> f, functionRva |-> a, replaceBytes |-> r,
               ignoredReplaceBytesRvas |-> i]
      BY <3>1
    <3> QED
      BY <2>5, <2>7, <2>8, <3>3, <3>4 DEF data
  <2>9. CASE patch.type = "REPLACE_SEARCH"
    <3>1. patch.data = [search |-> s, replaceBytes |-> r, ignoredReplaceBytesRvas |-> i]
      BY <2>9, PatchFacts DEF s, r, i
    <3>2. deserialiseSearch(b) = AsSent(s)
      BY <2>1, <2>9, SearchIsReadBack DEF b
    <3>3. deserialisePatchData("REPLACE_SEARCH", data)
            = [search |-> AsSent(s), replaceBytes |-> r, ignoredReplaceBytesRvas |-> i]
      BY <2>5, <3>2 DEF deserialisePatchData, ReplaceSearch
    <3>4. [patch.data EXCEPT !.search = AsSent(s)]
            = [search |-> AsSent(s), replaceBytes |-> r, ignoredReplaceBytesRvas |-> i]
      BY <3>1
    <3> QED
      BY <2>5, <2>7, <2>9, <3>3, <3>4 DEF data
  <2> QED
    BY <1>2, <2>8, <2>9
<1> QED
  BY <1>1, <1>2, PatchFacts

\* A patch is read back as it is sent.
LEMMA PatchBack ==
  ASSUME NEW patch \in PatchType
  PROVE  /\ serialisePatch(patch) \in Data
         /\ deserialisePatch(serialisePatch(patch)) = PatchAsSent(patch)
<1> DEFINE t == Place(PatchTypes, patch.type)
           data == serialisePatch(patch)
<1>1. t \in Int /\ PatchTypes[t + 1] = patch.type
  <2>1. DOMAIN PatchTypes = 1..4 /\ 4 \in Nat
    BY DEF PatchTypes
  <2>2. \E i \in 1..4 : PatchTypes[i] = patch.type
    <3>1. /\ PatchTypes[1] = "BLANK" /\ PatchTypes[2] = "HOOK" /\ PatchTypes[3] = "REPLACE_NAME"
          /\ PatchTypes[4] = "REPLACE_SEARCH" /\ {1, 2, 3, 4} \subseteq 1..4
      BY DEF PatchTypes
    <3> QED
      BY <3>1, PatchFacts
  <2> QED
    BY <2>1, <2>2, PlaceFacts
<1> HIDE DEF t, data
<1>2. Reads("integral", t, <<t>>) /\ serialiseIntegralType(t) = <<t>> /\ <<t>> \in Data
  BY <1>1, IntegralRead DEF Reads
<1>3. /\ Fields(<<t>>, <<"integral">>) = <<t>>
      /\ \A rest \in Data : Fields(<<t>> \o rest, <<"integral">>) = <<t>>
  BY <1>2, OneRead
<1>4. CASE patch.type = "BLANK"
  <2>1. patch = NewPatch /\ PatchAsSent(patch) = patch /\ clearType(NewPatch) = NewPatch
    BY <1>4 DEF PatchType, NewPatch, PatchAsSent, clearType
  <2>2. data = <<t>>
    BY <1>2, <1>4, NothingJoined DEF data, serialisePatch, t
  <2>3. deserialisePatch(data) = clearType(NewPatch)
    BY <1>1, <1>3, <1>4, <2>2 DEF deserialisePatch
  <2> QED
    BY <1>2, <2>1, <2>2, <2>3 DEF data
<1>5. CASE patch.type # "BLANK"
  <2> DEFINE b == serialisePatchData(patch)
             v == PatchAsSent(patch).data
  <2>1. b \in Data /\ deserialisePatchData(patch.type, b) = v
    BY <1>5, PatchDataBack
  <2>2. data = serialiseIntegralType(t) \o serialiseIntegralTypeContinuousContainer(b)
    BY <1>5 DEF data, serialisePatch, t
  <2> HIDE DEF b, v
  <2>3. Reads("continuous", b, Chunk(b)) /\ Chunk(b) \in Data /\ data = <<t>> \o Chunk(b)
    BY <1>2, <2>1, <2>2, DataRead
  <2>4. data \in Data /\ Fields(data, <<"integral", "continuous">>) = <<t, b>>
    BY <1>2, <2>3, TwoRead
  <2>5. Fields(data, <<"integral">>) = <<t>>
    BY <1>3, <2>3
  <2>6. deserialisePatch(data) = setType(NewPatch, patch.type, v)
    BY <1>1, <1>5, <2>1, <2>4, <2>5 DEF deserialisePatch
  <2> DEFINE ty == patch.type
  <2>7. setType(NewPatch, ty, v) = [type |-> ty, data |-> v]
    <3> HIDE DEF ty
    <3>1. [NewPatch EXCEPT !.type = ty] = [type |-> ty, data |-> Nothing]
      BY DEF NewPatch
    <3>2. [[type |-> ty, data |-> Nothing] EXCEPT !.data = v] = [type |-> ty, data |-> v]
      OBVIOUS
    <3> QED
      BY <3>1, <3>2, TypeIsSet
  <2>8. PatchAsSent(patch) = [type |-> ty, data |-> v]
    <3>1. patch = [type |-> patch.type, data |-> patch.data]
      BY DEF PatchType
    <3>2. PatchAsSent(patch) = patch \/ PatchAsSent(patch) = [patch EXCEPT !.data.search = AsSent(@)]
      BY DEF PatchAsSent
    <3>3. CASE PatchAsSent(patch) = patch
      BY <3>1, <3>3 DEF v
    <3>4. CASE PatchAsSent(patch) = [patch EXCEPT !.data.search = AsSent(@)]
      <4> DEFINE d == patch.data
                 e == [d EXCEPT !.search = AsSent(d.search)]
      <4>1. PatchAsSent(patch) = [patch EXCEPT !.data = e]
        BY <3>1, <3>4
      <4> HIDE DEF d, e
      <4>2. [[type |-> ty, data |-> d] EXCEPT !.data = e] = [type |-> ty, data |-> e]
        OBVIOUS
      <4>3. patch = [type |-> ty, data |-> d]
        BY <3>1 DEF d
      <4>4. PatchAsSent(patch) = [type |-> ty, data |-> e]
        BY <4>1, <4>2, <4>3
      <4> QED
        BY <4>4 DEF v
    <3> QED
      BY <3>2, <3>3, <3>4
  <2> QED
    BY <2>4, <2>6, <2>7, <2>8 DEF data
<1> QED
  BY <1>4, <1>5

LEMMA PatchesBack ==
  ASSUME NEW s \in Seq(PatchType)
  PROVE  LET data == [i \in DOMAIN s |-> serialisePatch(s[i])]
         IN  /\ data \in Seq(Data)
             /\ [i \in DOMAIN data |-> deserialisePatch(data[i])] = [i \in DOMAIN s |-> PatchAsSent(s[i])]
<1> DEFINE data == [i \in DOMAIN s |-> serialisePatch(s[i])]
<1>1. DOMAIN s = 1..Len(s) /\ Len(s) \in Nat /\ \A i \in DOMAIN s : s[i] \in PatchType
  OBVIOUS
<1>2. \A i \in DOMAIN s : data[i] \in Data /\ deserialisePatch(data[i]) = PatchAsSent(s[i])
  BY <1>1, PatchBack
<1>3. DOMAIN data = DOMAIN s
  OBVIOUS
<1>4. data \in Seq(Data)
  <2>1. data = [i \in 1..Len(s) |-> data[i]]
    BY <1>1
  <2> HIDE DEF data
  <2>2. data \in [1..Len(s) -> Data]
    BY <1>1, <1>2, <2>1
  <2> QED
    BY <1>1, <2>2
<1> HIDE DEF data
<1>5. [i \in DOMAIN data |-> deserialisePatch(data[i])] = [i \in DOMAIN s |-> PatchAsSent(s[i])]
  BY <1>2, <1>3
<1> QED
  BY <1>4, <1>5 DEF data

LEMMA BitFacts ==
  ASSUME NEW b \in BOOLEAN
  PROVE  Bit(b) \in Int /\ (Bit(b) # 0) = b
BY DEF Bit

\* A setting is read back as it is.
LEMMA SettingBack ==
  ASSUME NEW s \in ExtraSettingType
  PROVE  /\ serialiseExtraSetting(s) \in Data
         /\ deserialiseExtraSetting(serialiseExtraSetting(s)) = s
<1> DEFINE v1 == s.label
           v2 == Place(SettingTypes, s.type)
           v3 == s.currentValue
           v4 == s.defaultValue
           v5 == Bit(s.isNewlineAfterLabel)
           v6 == s.size
           v7 == s.min
           v8 == s.max
           v9 == s.interval
           v10 == s.precision
           kinds == <<"continuous", "integral", "continuous", "continuous", "integral",
                      "integral", "integral", "integral", "integral", "integral">>
           values == <<v1, v2, v3, v4, v5, v6, v7, v8, v9, v10>>
           pieces == <<Chunk(v1), <<v2>>, Chunk(v3), Chunk(v4), <<v5>>, <<v6>>, <<v7>>, <<v8>>,
                       <<v9>>, <<v10>>>>
           data == serialiseExtraSetting(s)
<1>1. /\ v1 \in Text /\ v3 \in Text /\ v4 \in Text
      /\ v6 \in Int /\ v7 \in Int /\ v8 \in Int /\ v9 \in Int /\ v10 \in Int
      /\ s.isNewlineAfterLabel \in BOOLEAN /\ s.type \in {"TEXT", "NUMBER", "SLIDER", "CHECKBOX"}
  BY DEF ExtraSettingType
<1>2. v5 \in Int /\ (v5 # 0) = s.isNewlineAfterLabel
  BY <1>1, BitFacts
<1>3. v2 \in Int /\ SettingTypes[v2 + 1] = s.type
  <2>1. /\ DOMAIN SettingTypes = 1..4 /\ 4 \in Nat /\ {1, 2, 3, 4} \subseteq 1..4
        /\ SettingTypes[1] = "TEXT" /\ SettingTypes[2] = "NUMBER" /\ SettingTypes[3] = "SLIDER"
        /\ SettingTypes[4] = "CHECKBOX"
    BY DEF SettingTypes
  <2>2. \E i \in 1..4 : SettingTypes[i] = s.type
    BY <1>1, <2>1
  <2> QED
    BY <2>1, <2>2, PlaceFacts
<1>4. s = [label |-> v1, type |-> s.type, currentValue |-> v3, defaultValue |-> v4,
           isNewlineAfterLabel |-> s.isNewlineAfterLabel, size |-> v6, min |-> v7, max |-> v8,
           interval |-> v9, precision |-> v10]
  BY DEF ExtraSettingType
<1> HIDE DEF v1, v2, v3, v4, v5, v6, v7, v8, v9, v10, data
<1>5. /\ Reads("continuous", v1, Chunk(v1)) /\ Reads("continuous", v3, Chunk(v3))
      /\ Reads("continuous", v4, Chunk(v4)) /\ Reads("integral", v2, <<v2>>)
      /\ Reads("integral", v5, <<v5>>) /\ Reads("integral", v6, <<v6>>)
      /\ Reads("integral", v7, <<v7>>) /\ Reads("integral", v8, <<v8>>)
      /\ Reads("integral", v9, <<v9>>) /\ Reads("integral", v10, <<v10>>)
  BY <1>1, <1>2, <1>3, TextRead, IntegralRead
<1>6. PiecesRead(10, kinds, values, pieces)
  <2>1. \A i \in 1..10 : Reads(kinds[i], values[i], pieces[i])
    BY <1>5
  <2>2. Len(kinds) = 10 /\ Len(pieces) = 10
    OBVIOUS
  <2> QED
    BY <2>1, <2>2 DEF PiecesRead
<1> DEFINE n == 10
<1>7. n \in Nat /\ PiecesRead(n, kinds, values, pieces) /\ n >= 10 /\ n >= 5
  BY <1>6
<1>8. /\ pieces[1] = Chunk(v1) /\ pieces[2] = <<v2>> /\ pieces[3] = Chunk(v3)
      /\ pieces[4] = Chunk(v4) /\ pieces[5] = <<v5>> /\ pieces[6] = <<v6>> /\ pieces[7] = <<v7>>
      /\ pieces[8] = <<v8>> /\ pieces[9] = <<v9>> /\ pieces[10] = <<v10>>
  OBVIOUS
<1>9. [i \in 1..n |-> values[i]] = values
  OBVIOUS
<1> HIDE DEF n, kinds, values, pieces
<1>9a. PICK heads : ReadTogether(n, kinds, values, pieces, heads)
  BY <1>7, ManyRead
<1>10. /\ HeadsOf(n, pieces, heads) /\ heads[n] \in Data
       /\ Fields(heads[n], kinds) = [i \in 1..n |-> values[i]]
  BY <1>9a DEF ReadTogether
<1>11. data = heads[10]
  <2>1. pieces[1] \in Data /\ Chunk(v1) \in Data /\ Chunk(v3) \in Data /\ Chunk(v4) \in Data
        /\ <<v2>> \in Data
    BY <1>5, <1>8 DEF Reads
  <2>2. heads[5] = pieces[1] \o pieces[2] \o pieces[3] \o pieces[4] \o pieces[5]
    BY <1>7, <1>10, <2>1, FivePieces
  <2>3. heads[10] = heads[5] \o pieces[6] \o pieces[7] \o pieces[8] \o pieces[9] \o pieces[10]
    BY <1>7, <1>10, TenPieces
  <2> DEFINE start == Chunk(v1) \o <<v2>> \o Chunk(v3) \o Chunk(v4)
  <2>4. heads[10] = start \o <<v5>> \o <<v6>> \o <<v7>> \o <<v8>> \o <<v9>> \o <<v10>>
    BY <1>8, <2>2, <2>3
  <2>5. start \in Data
    BY <2>1, JoinedFacts
  <2>6. data = start \o <<v5, v6, v7, v8, v9, v10>>
    <3>1. /\ serialiseIntegralTypeContinuousContainer(v1) = Chunk(v1)
          /\ serialiseIntegralTypeContinuousContainer(v3) = Chunk(v3)
          /\ serialiseIntegralTypeContinuousContainer(v4) = Chunk(v4)
          /\ serialiseIntegralType(v2) = <<v2>>
      BY <1>1, <1>3, TextRead, IntegralRead
    <3>2. data = serialiseIntegralTypeContinuousContainer(v1) \o serialiseIntegralType(v2)
                   \o serialiseIntegralTypeContinuousContainer(v3)
                   \o serialiseIntegralTypeContinuousContainer(v4)
                   \o <<v5, v6, v7, v8, v9, v10>>
      BY DEF data, serialiseExtraSetting, v1, v2, v3, v4, v5, v6, v7, v8, v9, v10
    <3> QED
      BY <3>1, <3>2
  <2> HIDE DEF start
  <2>7. SixJoined(start, v5, v6, v7, v8, v9, v10)
    BY <1>1, <1>2, <2>5, SixIntegers
  <2> QED
    BY <2>4, <2>6, <2>7 DEF SixJoined, Six
<1>12. data \in Data /\ Fields(data, kinds) = values
  BY <1>9, <1>10, <1>11 DEF n
<1>13. /\ values[1] = v1 /\ values[2] = v2 /\ values[3] = v3 /\ values[4] = v4 /\ values[5] = v5
       /\ values[6] = v6 /\ values[7] = v7 /\ values[8] = v8 /\ values[9] = v9 /\ values[10] = v10
  BY DEF values
<1>14. deserialiseExtraSetting(data)
         = LET f == Fields(data, kinds)
           IN  [label |-> f[1], type |-> SettingTypes[f[2] + 1], currentValue |-> f[3],
                defaultValue |-> f[4], isNewlineAfterLabel |-> f[5] # 0, size |-> f[6],
                min |-> f[7], max |-> f[8], interval |-> f[9], precision |-> f[10]]
  BY DEF deserialiseExtraSetting, kinds
<1> DEFINE w == (v5 # 0)
<1>15. deserialiseExtraSetting(data)
         = [label |-> v1, type |-> s.type, currentValue |-> v3, defaultValue |-> v4,
            isNewlineAfterLabel |-> w, size |-> v6, min |-> v7, max |-> v8,
            interval |-> v9, precision |-> v10]
  BY <1>3, <1>12, <1>13, <1>14
<1>16. w = s.isNewlineAfterLabel
  BY <1>2
<1> HIDE DEF w
<1>17. deserialiseExtraSetting(data) = s
  BY <1>4, <1>15, <1>16
<1> QED
  BY <1>12, <1>17 DEF data

LEMMA SettingsBack ==
  ASSUME NEW s \in Seq(ExtraSettingType)
  PROVE  LET data == [i \in DOMAIN s |-> serialiseExtraSetting(s[i])]
         IN  /\ data \in Seq(Data)
             /\ [i \in DOMAIN data |-> deserialiseExtraSetting(data[i])] = s
<1> DEFINE data == [i \in DOMAIN s |-> serialiseExtraSetting(s[i])]
<1>1. /\ DOMAIN s = 1..Len(s) /\ Len(s) \in Nat /\ \A i \in DOMAIN s : s[i] \in ExtraSettingType
      /\ s = [i \in DOMAIN s |-> s[i]]
  OBVIOUS
<1>2. \A i \in DOMAIN s : data[i] \in Data /\ deserialiseExtraSetting(data[i]) = s[i]
  BY <1>1, SettingBack
<1>3. DOMAIN data = DOMAIN s
  OBVIOUS
<1>4. data \in Seq(Data)
  <2>1. data = [i \in 1..Len(s) |-> data[i]]
    BY <1>1
  <2> HIDE DEF data
  <2>2. data \in [1..Len(s) -> Data]
    BY <1>1, <1>2, <2>1
  <2> QED
    BY <1>1, <2>2
<1> HIDE DEF data
<1>5. [i \in DOMAIN data |-> deserialiseExtraSetting(data[i])] = s
  BY <1>1, <1>2, <1>3
<1> QED
  BY <1>4, <1>5 DEF data

\* The information of a pack is read back as it is.
LEMMA InfoBack ==
  ASSUME NEW info \in InfoType
  PROVE  serialiseInfo(info) \in Data /\ deserialiseInfo(serialiseInfo(info)) = info
<1> DEFINE v1 == info.name
           v2 == info.desc
           v3 == Bit(info.isCurrentlyEnabled)
           v4 == Bit(info.isDefaultEnabled)
           es == info.extraSettings
           v5 == [i \in DOMAIN es |-> serialiseExtraSetting(es[i])]
           p5 == serialiseSerialisableTypeContainer(v5)
           kinds == <<"continuous", "continuous", "integral", "integral", "elements">>
           values == <<v1, v2, v3, v4, v5>>
           pieces == <<Chunk(v1), Chunk(v2), <<v3>>, <<v4>>, p5>>
           data == serialiseInfo(info)
           back == [i \in DOMAIN v5 |-> deserialiseExtraSetting(v5[i])]
<1>1. /\ v1 \in Text /\ v2 \in Text /\ es \in Seq(ExtraSettingType)
      /\ info.isCurrentlyEnabled \in BOOLEAN /\ info.isDefaultEnabled \in BOOLEAN
  BY DEF InfoType
<1>2. /\ v3 \in Int /\ (v3 # 0) = info.isCurrentlyEnabled
      /\ v4 \in Int /\ (v4 # 0) = info.isDefaultEnabled
  BY <1>1, BitFacts
<1>3. v5 \in Seq(Data) /\ back = es
  <2> HIDE DEF es
  <2> QED
    BY <1>1, SettingsBack
<1>4. info = [name |-> v1, desc |-> v2, isCurrentlyEnabled |-> info.isCurrentlyEnabled,
              isDefaultEnabled |-> info.isDefaultEnabled, extraSettings |-> es]
  BY DEF InfoType
<1>4a. data = serialiseIntegralTypeContinuousContainer(v1)
                \o serialiseIntegralTypeContinuousContainer(v2) \o <<v3, v4>> \o p5
  BY DEF serialiseInfo
<1> HIDE DEF v1, v2, v3, v4, v5, es, p5, data
<1>5. /\ Reads("continuous", v1, Chunk(v1)) /\ Reads("continuous", v2, Chunk(v2))
      /\ Reads("integral", v3, <<v3>>) /\ Reads("integral", v4, <<v4>>) /\ Reads("elements", v5, p5)
  BY <1>1, <1>2, <1>3, TextRead, IntegralRead, ElementsRead DEF p5
<1>6. PiecesRead(5, kinds, values, pieces)
  <2>1. \A i \in 1..5 : Reads(kinds[i], values[i], pieces[i])
    BY <1>5
  <2>2. Len(kinds) = 5 /\ Len(pieces) = 5
    OBVIOUS
  <2> QED
    BY <2>1, <2>2 DEF PiecesRead
<1> DEFINE n == 5
<1>7. n \in Nat /\ PiecesRead(n, kinds, values, pieces) /\ n >= 5
  BY <1>6
<1>8. /\ pieces[1] = Chunk(v1) /\ pieces[2] = Chunk(v2) /\ pieces[3] = <<v3>>
      /\ pieces[4] = <<v4>> /\ pieces[5] = p5
  OBVIOUS
<1>9. [i \in 1..n |-> values[i]] = values
  OBVIOUS
<1> HIDE DEF n, kinds, values, pieces
<1>9a. PICK heads : ReadTogether(n, kinds, values, pieces, heads)
  BY <1>7, ManyRead
<1>10. /\ HeadsOf(n, pieces, heads) /\ heads[n] \in Data
       /\ Fields(heads[n], kinds) = [i \in 1..n |-> values[i]]
  BY <1>9a DEF ReadTogether
<1>11. data = heads[5]
  <2>1. pieces[1] \in Data /\ Chunk(v1) \in Data /\ Chunk(v2) \in Data
    BY <1>5, <1>8 DEF Reads
  <2>2. heads[5] = pieces[1] \o pieces[2] \o pieces[3] \o pieces[4] \o pieces[5]
    BY <1>7, <1>10, <2>1, FivePieces
  <2> DEFINE start == Chunk(v1) \o Chunk(v2)
  <2>3. heads[5] = start \o <<v3>> \o <<v4>> \o p5
    BY <1>8, <2>2
  <2>4. start \in Data
    BY <2>1, JoinedFacts
  <2>5. data = start \o <<v3, v4>> \o p5
    BY <1>1, <1>4a, TextRead
  <2> HIDE DEF start
  <2>6. start \o <<v3, v4>> = start \o <<v3>> \o <<v4>>
    BY <1>2, <2>4, TwoIntegers
  <2> QED
    BY <2>3, <2>5, <2>6
<1>12. data \in Data /\ Fields(data, kinds) = values
  BY <1>9, <1>10, <1>11 DEF n
<1>13. values[1] = v1 /\ values[2] = v2 /\ values[3] = v3 /\ values[4] = v4 /\ values[5] = v5
  BY DEF values
<1>14. deserialiseInfo(data)
         = LET f == Fields(data, kinds)
           IN  [name |-> f[1], desc |-> f[2], isCurrentlyEnabled |-> f[3] # 0,
                isDefaultEnabled |-> f[4] # 0,
                extraSettings |-> [i \in DOMAIN f[5] |-> deserialiseExtraSetting(f[5][i])]]
  BY DEF deserialiseInfo, kinds
<1> DEFINE w3 == (v3 # 0)
           w4 == (v4 # 0)
<1>15. deserialiseInfo(data)
         = [name |-> v1, desc |-> v2, isCurrentlyEnabled |-> w3, isDefaultEnabled |-> w4,
            extraSettings |-> back]
  BY <1>12, <1>13, <1>14
<1>16. w3 = info.isCurrentlyEnabled /\ w4 = info.isDefaultEnabled
  BY <1>2
<1> HIDE DEF w3, w4, back
<1>17. deserialiseInfo(data) = info
  BY <1>3, <1>4, <1>15, <1>16
<1> QED
  BY <1>12, <1>17 DEF data

SharedLoop == INSTANCE LoopProofs WITH Body <- WithSharedVariable

LEMMA ConcatFacts ==
  ASSUME NEW S, NEW s \in Seq(S), NEW t \in Seq(S)
  PROVE  /\ s \o t \in Seq(S) /\ Len(s \o t) = Len(s) + Len(t)
         /\ \A i \in 1..Len(s) : (s \o t)[i] = s[i]
         /\ \A i \in 1..Len(t) : (s \o t)[Len(s) + i] = t[i]
OBVIOUS

Variables == [name : Text, type : Text]
SharedData(s) == Folded(<<Len(s)>>, s, WithSharedVariable)

\* What the shared variables are written as, one variable after the other.
SharedHeads(s, hs) ==
  /\ hs[0] = <<Len(s)>>
  /\ \A j \in 1..Len(s) : hs[j] = hs[j - 1] \o Chunk(s[j].name) \o Chunk(s[j].type)

LEMMA SharedIs ==
  ASSUME NEW s \in Seq(Variables)
  PROVE  \E hs : SharedHeads(s, hs) /\ SharedData(s) = hs[Len(s)]
<1>1. SharedData(s) = SharedLoop!Fold(<<Len(s)>>, s)
  BY DEF SharedData, SharedLoop!Fold, Folded, SharedLoop!Folded
<1>2. Len(s) \in Nat
  OBVIOUS
<1>3. PICK hs : /\ SharedLoop!Runs(<<Len(s)>>, s, hs)
                /\ SharedLoop!Fold(<<Len(s)>>, s) = hs[Len(s)]
  BY <1>2, SharedLoop!FoldDefined
<1>4. hs[0] = <<Len(s)>> /\ \A j \in 1..Len(s) : hs[j] = WithSharedVariable(hs[j - 1], s[j])
  BY <1>3 DEF SharedLoop!Runs
<1>5. ASSUME NEW j \in 1..Len(s)
      PROVE  WithSharedVariable(hs[j - 1], s[j]) = hs[j - 1] \o Chunk(s[j].name) \o Chunk(s[j].type)
  <2>1. s[j] \in Variables
    OBVIOUS
  <2>2. s[j].name \in Text /\ s[j].type \in Text
    BY <2>1 DEF Variables
  <2> QED
    BY <2>2, TextRead DEF WithSharedVariable
<1> QED
  BY <1>1, <1>3, <1>4, <1>5 DEF SharedHeads

\* The pieces of the first five fields of a pack, and those of its variables.
Common == <<"continuous", "elements", "elements", "elements", "integral">>
VariableKinds(s) == [i \in 1..2 * Len(s) |-> "continuous"]

VariablesRead(s, all) ==
  \A i \in 1..Len(s) : all[4 + 2 * i] = s[i].name /\ all[5 + 2 * i] = s[i].type

LEMMA KindsFacts ==
  ASSUME NEW s \in Seq(Variables)
  PROVE  /\ Len(Common \o VariableKinds(s)) = 5 + 2 * Len(s)
         /\ \A i \in 1..5 : (Common \o VariableKinds(s))[i] = Common[i]
         /\ \A i \in 1..2 * Len(s) : (Common \o VariableKinds(s))[5 + i] = "continuous"
<1> DEFINE c == Common
           t == VariableKinds(s)
           m == Len(s)
<1>1. c \in Seq(Kinds) /\ Len(c) = 5
  BY DEF Common, Kinds
<1>2. t \in Seq(Kinds) /\ Len(t) = 2 * m /\ \A i \in 1..2 * m : t[i] = "continuous"
  <2>1. 2 * m \in Nat /\ "continuous" \in Kinds
    BY DEF Kinds
  <2>2. t = [i \in 1..2 * m |-> "continuous"]
    BY DEF VariableKinds
  <2> HIDE DEF m, t
  <2> QED
    BY <2>1, <2>2
<1> HIDE DEF c, t, m
<1>3. /\ Len(c \o t) = Len(c) + Len(t) /\ \A i \in 1..Len(c) : (c \o t)[i] = c[i]
      /\ \A i \in 1..Len(t) : (c \o t)[Len(c) + i] = t[i]
  BY <1>1, <1>2, ConcatFacts
<1>4. /\ Len(c \o t) = 5 + 2 * m /\ \A i \in 1..5 : (c \o t)[i] = c[i]
      /\ \A i \in 1..2 * m : (c \o t)[5 + i] = "continuous"
  BY <1>1, <1>2, <1>3
<1> QED
  BY <1>4 DEF c, t, m

PackPieces(s, values, pieces, data) ==
  /\ PiecesRead(5, Common, values, pieces) /\ pieces[5] = <<Len(s)>>
  /\ data = pieces[1] \o pieces[2] \o pieces[3] \o pieces[4] \o SharedData(s)

PackRead(s, values, data) ==
  /\ data \in Data /\ Fields(data, Common) = [i \in 1..5 |-> values[i]]
  /\ VariablesRead(s, Fields(data, Common \o VariableKinds(s)))

LEMMA PackFields ==
  ASSUME NEW s \in Seq(Variables), NEW values, NEW pieces, NEW data,
         PackPieces(s, values, pieces, data)
  PROVE  PackRead(s, values, data)
<1>0. /\ PiecesRead(5, Common, values, pieces) /\ pieces[5] = <<Len(s)>>
      /\ data = pieces[1] \o pieces[2] \o pieces[3] \o pieces[4] \o SharedData(s)
  BY DEF PackPieces
<1> DEFINE m == Len(s)
           n == 5 + 2 * m
           V == [i \in 6..n |-> IF i % 2 = 0 THEN s[(i - 4) \div 2].name ELSE s[(i - 5) \div 2].type]
           vs == [i \in 1..n |-> IF i <= 5 THEN values[i] ELSE V[i]]
           ps == [i \in 1..n |-> IF i <= 5 THEN pieces[i] ELSE Chunk(V[i])]
           ks == Common \o VariableKinds(s)
           start == pieces[1] \o pieces[2] \o pieces[3] \o pieces[4]
<1>1. m \in Nat /\ n \in Nat /\ n >= 5 /\ \A i \in 1..m : s[i].name \in Text /\ s[i].type \in Text
  <2>1. \A i \in 1..Len(s) : s[i] \in Variables
    OBVIOUS
  <2> QED
    BY <2>1 DEF Variables
<1>2. ASSUME NEW i \in 6..n PROVE V[i] \in Text
  <2> HIDE DEF m
  <2>1. CASE i % 2 = 0
    <3>1. (i - 4) \div 2 \in 1..m
      BY <1>1, <2>1
    <3> QED
      BY <1>1, <2>1, <3>1
  <2>2. CASE i % 2 # 0
    <3>1. (i - 5) \div 2 \in 1..m
      BY <1>1, <2>2
    <3> QED
      BY <1>1, <2>2, <3>1
  <2> QED
    BY <2>1, <2>2
<1>3. ASSUME NEW j \in 1..m
      PROVE  /\ 4 + 2 * j \in 6..n /\ 5 + 2 * j \in 6..n
             /\ V[4 + 2 * j] = s[j].name /\ V[5 + 2 * j] = s[j].type
  <2> HIDE DEF m
  <2>1. /\ 4 + 2 * j \in 6..n /\ 5 + 2 * j \in 6..n
        /\ (4 + 2 * j) % 2 = 0 /\ ((4 + 2 * j) - 4) \div 2 = j
        /\ (5 + 2 * j) % 2 # 0 /\ ((5 + 2 * j) - 5) \div 2 = j
    BY <1>1, <1>3
  <2> QED
    BY <2>1
<1>4. /\ Len(ks) = n /\ \A i \in 1..5 : ks[i] = Common[i] /\ \A k \in 6..n : ks[k] = "continuous"
  <2>3. /\ Len(ks) = 5 + 2 * m /\ \A i \in 1..5 : ks[i] = Common[i]
        /\ \A i \in 1..2 * m : ks[5 + i] = "continuous"
    BY KindsFacts DEF m
  <2> HIDE DEF ks
  <2>4. \A k \in 6..n : k - 5 \in 1..2 * m /\ 5 + (k - 5) = k
    BY <1>1
  <2>5. \A k \in 6..n : ks[k] = "continuous"
    BY <2>3, <2>4
  <2> QED
    BY <2>3, <2>5
<1> HIDE DEF m, V, ks, start
<1>5. PiecesRead(n, ks, vs, ps)
  <2>1. ASSUME NEW i \in 1..n PROVE Reads(ks[i], vs[i], ps[i])
    <3>1. CASE i <= 5
      <4>1. i \in 1..5
        BY <3>1
      <4>2. Reads(Common[i], values[i], pieces[i])
        BY <1>0, <4>1 DEF PiecesRead
      <4>3. ks[i] = Common[i]
        BY <1>4, <4>1
      <4> QED
        BY <3>1, <4>2, <4>3
    <3>2. CASE ~(i <= 5)
      <4>1. i \in 6..n
        BY <1>1, <3>2
      <4>2. V[i] \in Text /\ ks[i] = "continuous"
        BY <1>2, <1>4, <4>1
      <4>3. Reads("continuous", V[i], Chunk(V[i]))
        BY <4>2, TextRead
      <4> QED
        BY <3>2, <4>2, <4>3
    <3> QED
      BY <3>1, <3>2
  <2>2. Len(ps) = n
    BY <1>1
  <2> HIDE DEF vs, ps, n
  <2> QED
    BY <1>4, <2>1, <2>2 DEF PiecesRead
<1>6. /\ ps[1] = pieces[1] /\ ps[2] = pieces[2] /\ ps[3] = pieces[3] /\ ps[4] = pieces[4]
      /\ ps[5] = <<m>>
  BY <1>0, <1>1 DEF m
<1>7. \A j \in 1..m : ps[4 + 2 * j] = Chunk(s[j].name) /\ ps[5 + 2 * j] = Chunk(s[j].type)
  BY <1>1, <1>3
<1>8. /\ pieces[1] \in Data /\ pieces[2] \in Data /\ pieces[3] \in Data /\ pieces[4] \in Data
      /\ pieces[5] \in Data /\ <<m>> \in Data
  <2>1. {1, 2, 3, 4, 5} \subseteq 1..5
    OBVIOUS
  <2> QED
    BY <1>0, <2>1 DEF PiecesRead, Reads, m
<1>9. start \in Data
  BY <1>8, JoinedFacts DEF start
<1>9a. \A i \in 1..n : vs[i] = IF i <= 5 THEN values[i] ELSE V[i]
  OBVIOUS
<1> HIDE DEF vs, ps
<1>9b. PICK heads : ReadTogether(n, ks, vs, ps, heads)
  <2> HIDE DEF n
  <2> QED
    BY <1>1, <1>5, ManyRead
<1>10. /\ HeadsOf(n, ps, heads) /\ heads[n] \in Data
       /\ Fields(heads[n], ks) = [i \in 1..n |-> vs[i]]
  BY <1>9b DEF ReadTogether
<1>11. heads[5] = start \o <<m>>
  <2> HIDE DEF n
  <2>1. heads[5] = ps[1] \o ps[2] \o ps[3] \o ps[4] \o ps[5]
    BY <1>1, <1>6, <1>8, <1>10, FivePieces
  <2> QED
    BY <1>6, <2>1 DEF start
<1>12. PICK hs : SharedHeads(s, hs) /\ SharedData(s) = hs[m]
  BY SharedIs DEF m
<1> DEFINE K == {j \in 0..m : /\ heads[5 + 2 * j] = start \o hs[j] /\ hs[j] \in Data
                              /\ \E rest \in Data : hs[j] = <<m>> \o rest}
<1>13. 0 \in K
  <2>1. hs[0] = <<m>>
    BY <1>12 DEF SharedHeads, m
  <2>2. <<m>> \o <<>> = <<m>> /\ <<>> \in Data
    BY <1>8, NothingJoined
  <2>3. 5 + 2 * 0 = 5 /\ 0 \in 0..m
    BY <1>1
  <2> QED
    BY <1>8, <1>11, <2>1, <2>2, <2>3
<1>14. ASSUME NEW j \in 0..(m - 1), j \in K PROVE j + 1 \in K
  <2> DEFINE k == j + 1
             a == Chunk(s[k].name)
             b == Chunk(s[k].type)
  <2>1. k \in 1..m /\ k - 1 = j /\ k \in 0..m
    BY <1>1
  <2>2. /\ 4 + 2 * k \in 1..n /\ 5 + 2 * k \in 1..n /\ (4 + 2 * k) - 1 = 5 + 2 * j
        /\ (5 + 2 * k) - 1 = 4 + 2 * k
    BY <1>1, <2>1
  <2>3. a \in Data /\ b \in Data
    BY <1>1, <2>1, TextRead, ChunkFacts
  <2>4. PICK rest \in Data : hs[j] = <<m>> \o rest
    BY <1>14
  <2>5. hs[j] \in Data /\ heads[5 + 2 * j] = start \o hs[j]
    BY <1>14
  <2>6. hs[k] = hs[k - 1] \o a \o b
    BY <1>12, <2>1 DEF SharedHeads, m
  <2>6a. hs[k] = hs[j] \o a \o b
    BY <2>1, <2>6
  <2>7. ps[4 + 2 * k] = a /\ ps[5 + 2 * k] = b
    BY <1>7, <2>1
  <2> HIDE DEF a, b, k, K, n
  <2>8. heads[4 + 2 * k] = heads[5 + 2 * j] \o a
    BY <1>10, <2>2, <2>7 DEF HeadsOf
  <2>9. heads[5 + 2 * k] = heads[4 + 2 * k] \o b
    BY <1>10, <2>2, <2>7 DEF HeadsOf
  <2>10. heads[5 + 2 * k] = start \o hs[j] \o a \o b
    BY <2>5, <2>8, <2>9
  <2>11. start \o hs[j] \o a \o b = start \o (hs[j] \o a \o b) /\ hs[j] \o a \o b \in Data
    <3>1. hs[j] \o a \in Data /\ (hs[j] \o a) \o b \in Data
      BY <2>3, <2>5, JoinedFacts
    <3>2. start \o hs[j] \o a = start \o (hs[j] \o a)
      BY <1>9, <2>3, <2>5, Associative
    <3>3. (start \o (hs[j] \o a)) \o b = start \o ((hs[j] \o a) \o b)
      BY <1>9, <2>3, <3>1, Associative
    <3> QED
      BY <3>1, <3>2, <3>3
  <2>12. hs[j] \o a \o b = <<m>> \o (rest \o a \o b) /\ rest \o a \o b \in Data
    <3> DEFINE p == <<m>>
               ra == rest \o a
    <3>1. ra \in Data /\ ra \o b \in Data /\ p \in Data
      BY <1>8, <2>3, <2>4, JoinedFacts
    <3> HIDE DEF p
    <3>2. (p \o rest) \o a = p \o ra
      BY <2>3, <2>4, <3>1, Associative
    <3> HIDE DEF ra
    <3>3. (p \o ra) \o b = p \o (ra \o b)
      BY <2>3, <3>1, Associative
    <3>4. hs[j] \o a \o b = p \o (ra \o b)
      BY <2>4, <3>2, <3>3 DEF p
    <3> QED
      BY <3>1, <3>4 DEF p, ra
  <2>13. /\ heads[5 + 2 * k] = start \o hs[k] /\ hs[k] \in Data
         /\ \E more \in Data : hs[k] = <<m>> \o more
    BY <2>6a, <2>10, <2>11, <2>12
  <2>14. k \in K
    BY <2>1, <2>13 DEF K
  <2> QED
    BY <2>14 DEF k
<1>15. m \in K
  <2> HIDE DEF K
  <2>1. 0..m \subseteq K
    BY <1>1, <1>13, <1>14, Loops!UpTo
  <2> QED
    BY <1>1, <2>1
<1>16. data = heads[n]
  BY <1>0, <1>12, <1>15 DEF start
<1>17. PICK rest \in Data : hs[m] = <<m>> \o rest
  BY <1>15
<1>18. data = (start \o <<m>>) \o rest
  <2>1. data = start \o hs[m]
    BY <1>0, <1>12 DEF start
  <2> DEFINE p == <<m>>
  <2>2. p \in Data
    BY <1>8
  <2> HIDE DEF p
  <2>3. start \o (p \o rest) = (start \o p) \o rest
    BY <1>9, <2>2, Associative
  <2> QED
    BY <1>17, <2>1, <2>3 DEF p
<1>19. Fields(data, Common) = [i \in 1..5 |-> values[i]]
  <2> DEFINE five == 5
  <2>1. five \in Nat /\ PiecesRead(five, Common, values, pieces) /\ five >= 5
    BY <1>0
  <2> HIDE DEF five
  <2> DEFINE c == Common
  <2>1a. PiecesRead(five, c, values, pieces)
    BY <2>1
  <2> HIDE DEF c
  <2>1b. PICK first : ReadTogether(five, c, values, pieces, first)
    BY <2>1, <2>1a, ManyRead
  <2>2. /\ HeadsOf(five, pieces, first) /\ first[five] \in Data
        /\ Fields(first[five], c) = [i \in 1..five |-> values[i]]
        /\ \A more \in Data : Fields(first[five] \o more, c) = [i \in 1..five |-> values[i]]
    BY <2>1b DEF ReadTogether
  <2>3. first[5] = pieces[1] \o pieces[2] \o pieces[3] \o pieces[4] \o pieces[5]
    BY <1>8, <2>1, <2>2, FivePieces
  <2>4. first[five] = start \o <<m>>
    BY <1>0, <2>3 DEF start, five, m
  <2> QED
    BY <1>18, <2>2, <2>4 DEF five, c
<1>20. VariablesRead(s, Fields(data, ks))
  <2>1. ASSUME NEW i \in 1..m
        PROVE  vs[4 + 2 * i] = s[i].name /\ vs[5 + 2 * i] = s[i].type
               /\ 4 + 2 * i \in 1..n /\ 5 + 2 * i \in 1..n
    BY <1>1, <1>3, <1>9a, <2>1
  <2> HIDE DEF n
  <2>2. Fields(data, ks) = [i \in 1..n |-> vs[i]]
    BY <1>10, <1>16
  <2> QED
    BY <2>1, <2>2 DEF VariablesRead, m
<1> QED
  BY <1>10, <1>16, <1>19, <1>20 DEF ks, PackRead

PackAsSent(pack) == [pack EXCEPT !.patches = [i \in DOMAIN @ |-> PatchAsSent(@[i])]]

SameButVariables(back, pack) == [back EXCEPT !.sharedVariables = pack.sharedVariables] = pack

LEMMA TextsAreData ==
  ASSUME NEW s \in Seq(Text)
  PROVE  s \in Seq(Data)
<1>1. DOMAIN s = 1..Len(s) /\ Len(s) \in Nat /\ s = [i \in 1..Len(s) |-> s[i]]
      /\ \A i \in 1..Len(s) : s[i] \in Text
  OBVIOUS
<1>2. \A i \in 1..Len(s) : s[i] \in Data
  BY <1>1, TextIsData
<1> QED
  BY <1>1, <1>2

\* A pack is read back as it is sent, but for shared variables that are
\* read in the other order.
LEMMA PackBack ==
  ASSUME NEW pack \in PatchPackType
  PROVE  /\ serialisePatchPack(pack) \in Data
         /\ deserialisePatchPack(serialisePatchPack(pack), FALSE) = PackAsSent(pack)
         /\ SameButVariables(deserialisePatchPack(serialisePatchPack(pack), TRUE), PackAsSent(pack))
<1> DEFINE b == serialiseInfo(pack.info)
           v2 == pack.requiredPlugins
           ps == pack.patches
           v3 == [i \in DOMAIN ps |-> serialisePatch(ps[i])]
           v4 == pack.headerIncludes
           s == pack.sharedVariables
           m == Len(s)
           p2 == serialiseSerialisableTypeContainer(v2)
           p3 == serialiseSerialisableTypeContainer(v3)
           p4 == serialiseSerialisableTypeContainer(v4)
           values == <<b, v2, v3, v4, m>>
           pieces == <<Chunk(b), p2, p3, p4, <<m>>>>
           data == serialisePatchPack(pack)
           back3 == [i \in DOMAIN v3 |-> deserialisePatch(v3[i])]
           as3 == [i \in DOMAIN ps |-> PatchAsSent(ps[i])]
<1>1. /\ pack.info \in InfoType /\ v2 \in Seq(Text) /\ ps \in Seq(PatchType) /\ v4 \in Seq(Text)
      /\ s \in Seq(Variables)
  BY DEF PatchPackType, Variables
<1>2. b \in Data /\ deserialiseInfo(b) = pack.info
  BY <1>1, InfoBack
<1>3. v3 \in Seq(Data) /\ back3 = as3
  <2> HIDE DEF ps
  <2> QED
    BY <1>1, PatchesBack
<1>4. v2 \in Seq(Data) /\ v4 \in Seq(Data) /\ m \in Nat /\ m \in Int
  <2>1. m \in Nat /\ m \in Int
    BY <1>1
  <2> HIDE DEF v2, v4, m
  <2> QED
    BY <1>1, <2>1, TextsAreData
<1>5. pack = [info |-> pack.info, requiredPlugins |-> v2, patches |-> ps, headerIncludes |-> v4,
              sharedVariables |-> s]
  BY DEF PatchPackType
<1>6. data = serialiseIntegralTypeContinuousContainer(b) \o p2 \o p3 \o p4 \o SharedData(s)
  BY DEF serialisePatchPack, SharedData
<1>6a. PackAsSent(pack) = [pack EXCEPT !.patches = as3]
  BY DEF PackAsSent
<1> HIDE DEF b, v2, v3, v4, p2, p3, p4, s, m, data, ps
<1>7. /\ Reads("continuous", b, Chunk(b)) /\ Reads("elements", v2, p2) /\ Reads("elements", v3, p3)
      /\ Reads("elements", v4, p4) /\ Reads("integral", m, <<m>>)
  BY <1>2, <1>3, <1>4, DataRead, ElementsRead, IntegralRead DEF p2, p3, p4
<1>8. PiecesRead(5, Common, values, pieces)
  <2>1. \A i \in 1..5 : Reads(Common[i], values[i], pieces[i])
    BY <1>7 DEF Common
  <2>2. Len(Common) = 5 /\ Len(pieces) = 5
    BY DEF Common
  <2> QED
    BY <2>1, <2>2 DEF PiecesRead
<1>9. /\ pieces[1] = Chunk(b) /\ pieces[2] = p2 /\ pieces[3] = p3 /\ pieces[4] = p4
      /\ pieces[5] = <<m>> /\ [i \in 1..5 |-> values[i]] = values
  OBVIOUS
<1>10. /\ values[1] = b /\ values[2] = v2 /\ values[3] = v3 /\ values[4] = v4 /\ values[5] = m
  OBVIOUS
<1> HIDE DEF values, pieces
<1>11. /\ pieces[5] = <<Len(s)>>
       /\ data = pieces[1] \o pieces[2] \o pieces[3] \o pieces[4] \o SharedData(s)
  BY <1>2, <1>6, <1>9, DataRead DEF m
<1>12. /\ data \in Data /\ Fields(data, Common) = values
       /\ VariablesRead(s, Fields(data, Common \o VariableKinds(s)))
  <2>1. /\ data \in Data /\ Fields(data, Common) = [i \in 1..5 |-> values[i]]
        /\ VariablesRead(s, Fields(data, Common \o VariableKinds(s)))
    <3>1. PackPieces(s, values, pieces, data)
      BY <1>8, <1>11 DEF PackPieces
    <3>2. PackRead(s, values, data)
      BY <1>1, <3>1, PackFields
    <3> QED
      BY <3>2 DEF PackRead
  <2> QED
    BY <1>9, <2>1
<1> DEFINE all == Fields(data, Common \o VariableKinds(s))
           Read(swapped, i) == [name |-> all[IF swapped THEN 5 + 2 * i ELSE 4 + 2 * i],
                                type |-> all[IF swapped THEN 4 + 2 * i ELSE 5 + 2 * i]]
           Back(shared) == [info |-> pack.info, requiredPlugins |-> v2, patches |-> as3,
                            headerIncludes |-> v4, sharedVariables |-> shared]
           Shared(swapped) == [i \in 1..m |-> Read(swapped, i)]
<1>13. \A swapped \in BOOLEAN : deserialisePatchPack(data, swapped) = Back(Shared(swapped))
  <2> TAKE swapped \in BOOLEAN
  <2>1. deserialisePatchPack(data, swapped)
          = LET f == Fields(data, Common)
                a == Fields(data, Common \o [i \in 1..2 * f[5] |-> "continuous"])
                R(i) == [name |-> a[IF swapped THEN 5 + 2 * i ELSE 4 + 2 * i],
                         type |-> a[IF swapped THEN 4 + 2 * i ELSE 5 + 2 * i]]
            IN  [info |-> deserialiseInfo(f[1]), requiredPlugins |-> f[2],
                 patches |-> [i \in DOMAIN f[3] |-> deserialisePatch(f[3][i])],
                 headerIncludes |-> f[4], sharedVariables |-> [i \in 1..f[5] |-> R(i)]]
    BY DEF deserialisePatchPack, Common
  <2>2. VariableKinds(s) = [i \in 1..2 * m |-> "continuous"]
    BY DEF VariableKinds, m
  <2>3. deserialisePatchPack(data, swapped)
          = [info |-> deserialiseInfo(b), requiredPlugins |-> v2, patches |-> back3,
             headerIncludes |-> v4, sharedVariables |-> Shared(swapped)]
    BY <1>10, <1>12, <2>1, <2>2
  <2> QED
    BY <1>2, <1>3, <2>3
<1>14. Shared(FALSE) = s
  <2>1. s = [i \in 1..m |-> s[i]] /\ \A i \in 1..m : s[i] \in Variables
    BY <1>1 DEF m
  <2>2. \A i \in 1..m : all[4 + 2 * i] = s[i].name /\ all[5 + 2 * i] = s[i].type
    BY <1>12 DEF VariablesRead, m
  <2> HIDE DEF all
  <2>3. \A i \in 1..m : Read(FALSE, i) = s[i]
    <3> TAKE i \in 1..m
    <3>1. Read(FALSE, i) = [name |-> s[i].name, type |-> s[i].type]
      BY <2>2
    <3>2. s[i] = [name |-> s[i].name, type |-> s[i].type]
      BY <2>1 DEF Variables
    <3> QED
      BY <3>1, <3>2
  <2> QED
    BY <2>1, <2>3
<1> HIDE DEF Shared, as3
<1>15. \A shared : [Back(shared) EXCEPT !.sharedVariables = s] = Back(s)
  OBVIOUS
<1>16. PackAsSent(pack) = Back(s) /\ PackAsSent(pack).sharedVariables = s
  BY <1>5, <1>6a
<1>17. SameButVariables(Back(Shared(TRUE)), PackAsSent(pack))
  BY <1>15, <1>16 DEF SameButVariables
<1> QED
  BY <1>12, <1>13, <1>14, <1>16, <1>17 DEF data

-----------------------------------------------------------------------------
(* What a core has received                                                *)

\* What is sent is a hook or a pack that was registered, and what is
\* received is read from it.
Sendable ==
  \/ sent = NoPacket
  \/ \E hook \in HookType : hook.type # "BLANK" /\ sent = HookPacket(hook)
  \/ \E pack \in PatchPackType : sent = PackPacket(pack)

Read(swapped) ==
  LET data == deserialiseIntegralTypeContinuousContainer(sent.data).value
  IN  [kind |-> sent.kind, swapped |-> swapped,
       object |-> IF sent.kind = "hook" THEN deserialiseHook(data)
                  ELSE deserialisePatchPack(data, swapped)]

ReceivedIsRead ==
  \/ received = NotYet
  \/ sent # NoPacket /\ \E swapped \in BOOLEAN : received = Read(swapped)

NamedHooks == \A i \in 1..Len(hooks) : hooks[i].type # "BLANK"

SentInv == TypeOK /\ NamedHooks /\ Sendable /\ ReceivedIsRead

\* The data of a packet is what was serialised.
LEMMA PacketRead ==
  ASSUME NEW data \in Data
  PROVE  deserialiseIntegralTypeContinuousContainer(
           serialiseIntegralTypeContinuousContainer(data)).value = data
<1>1. <<>> \in Data /\ Chunk(data) \in Data /\ Chunk(data) \o <<>> = Chunk(data)
  BY ChunkFacts, NothingJoined
<1>2. deserialiseIntegralTypeContinuousContainer(Chunk(data) \o <<>>) = [value |-> data, rest |-> <<>>]
  BY <1>1, ContinuousReadBack
<1> QED
  BY <1>1, <1>2, ChunkFacts

LEMMA SentMeansReceived == SentInv => ReceivedAsSent
<1> SUFFICES ASSUME SentInv PROVE ReceivedAsSent
  OBVIOUS
<1>1. CASE received = NotYet
  BY <1>1 DEF NotYet, ReceivedAsSent
<1>2. CASE sent # NoPacket /\ \E swapped \in BOOLEAN : received = Read(swapped)
  <2>1. PICK swapped \in BOOLEAN : received = Read(swapped)
    BY <1>2
  <2>2. ASSUME NEW hook \in HookType, hook.type # "BLANK", sent = HookPacket(hook)
        PROVE  ReceivedAsSent
    <3> DEFINE data == serialiseHook(hook)
    <3>1. data \in Data /\ deserialiseHook(data) = [hook EXCEPT !.data.search = AsSent(@)]
      BY <2>2, HookBack
    <3>2. /\ sent.kind = "hook" /\ sent.object = hook
          /\ sent.data = serialiseIntegralTypeContinuousContainer(data)
      BY <2>2 DEF HookPacket
    <3> HIDE DEF data
    <3>3. received.kind = "hook" /\ received.object = deserialiseHook(data)
      BY <2>1, <3>1, <3>2, PacketRead DEF Read
    <3> QED
      BY <3>1, <3>2, <3>3 DEF ReceivedAsSent
  <2>3. ASSUME NEW pack \in PatchPackType, sent = PackPacket(pack)
        PROVE  ReceivedAsSent
    <3> DEFINE data == serialisePatchPack(pack)
    <3>1. /\ data \in Data /\ deserialisePatchPack(data, FALSE) = PackAsSent(pack)
          /\ SameButVariables(deserialisePatchPack(data, TRUE), PackAsSent(pack))
      BY PackBack
    <3>2. /\ sent.kind = "pack" /\ sent.object = pack
          /\ sent.data = serialiseIntegralTypeContinuousContainer(data)
      BY <2>3 DEF PackPacket
    <3> HIDE DEF data
    <3>3. /\ received.kind = "pack" /\ received.swapped = swapped
          /\ received.object = deserialisePatchPack(data, swapped)
      BY <2>1, <3>1, <3>2, PacketRead DEF Read
    <3>4. ReceivedAsSent = IF received.swapped
                           THEN SameButVariables(received.object, PackAsSent(pack))
                           ELSE received.object = PackAsSent(pack)
      BY <3>2, <3>3 DEF ReceivedAsSent, SameButVariables, PackAsSent
    <3> QED
      BY <3>1, <3>3, <3>4
  <2> QED
    BY <1>2, <2>2, <2>3 DEF SentInv, Sendable
<1> QED
  BY <1>1, <1>2 DEF SentInv, ReceivedIsRead

LEMMA SentInit ==
  ASSUME Init
  PROVE  SentInv
BY DEF Init, SentInv, TypeOK, NamedHooks, Sendable, ReceivedIsRead

LEMMA NothingReceived ==
  ASSUME SentInv, sent = NoPacket
  PROVE  received = NotYet
BY DEF SentInv, ReceivedIsRead

LEMMA SentStep ==
  ASSUME SentInv, [Next]_vars
  PROVE  SentInv'
<1> USE DEF SentInv
<1>1. TypeOK'
  BY TypeStep
<1>2. ASSUME NEW hook \in Hooks, RegisterHook(hook) PROVE SentInv'
  <2>1. /\ hook \in HookType /\ hook.type # "BLANK" /\ hooks' = Append(hooks, hook)
        /\ received' = NotYet
    BY <1>2, RegisterHookFacts, InputsAreTyped, NothingReceived DEF RegisterHook
  <2>2. NamedHooks'
    <3>1. /\ Len(hooks') = Len(hooks) + 1 /\ Len(hooks) \in Nat /\ hooks'[Len(hooks) + 1] = hook
          /\ \A i \in 1..Len(hooks) : hooks'[i] = hooks[i]
      <4>1. hooks \in Seq(HookType)
        BY DEF TypeOK
      <4> QED
        BY <2>1, <4>1
    <3>2. \A i \in 1..Len(hooks') : i \in 1..Len(hooks) \/ i = Len(hooks) + 1
      BY <3>1
    <3> QED
      BY <2>1, <3>1, <3>2 DEF NamedHooks
  <2>3. sent' = NoPacket \/ sent' = HookPacket(hook)
    BY <1>2 DEF RegisterHook
  <2>4. Sendable'
    BY <2>1, <2>3 DEF Sendable
  <2>5. ReceivedIsRead'
    BY <2>1 DEF ReceivedIsRead
  <2> QED
    BY <1>1, <2>2, <2>4, <2>5
<1>3. ASSUME NEW pack \in Packs, AddPatchPack(pack) PROVE SentInv'
  <2>1. Added(pack) \in PatchPackType /\ hooks' = hooks /\ received' = NotYet
    BY <1>3, AddedFacts, InputsAreTyped, NothingReceived DEF AddPatchPack
  <2>2. sent' = NoPacket \/ sent' = PackPacket(Added(pack))
    BY <1>3 DEF AddPatchPack
  <2>3. Sendable'
    BY <2>1, <2>2 DEF Sendable
  <2>4. NamedHooks' /\ ReceivedIsRead'
    BY <2>1 DEF NamedHooks, ReceivedIsRead
  <2> QED
    BY <1>1, <2>3, <2>4
<1>4. ASSUME NEW label \in Labels, NEW text \in Texts, SetExtraSetting(label, text) PROVE SentInv'
  <2>1. hooks' = hooks /\ sent' = sent /\ received' = received
    BY <1>4 DEF SetExtraSetting
  <2> QED
    BY <1>1, <2>1 DEF NamedHooks, Sendable, ReceivedIsRead, Read
<1>5. CASE SendAgain
  <2>1. hooks' = hooks /\ received' = NotYet
    BY <1>5, NothingReceived DEF SendAgain
  <2>2. Sendable'
    <3>1. CASE \E i \in DOMAIN hooks : sent' = HookPacket(hooks[i])
      <4>1. PICK i \in DOMAIN hooks : sent' = HookPacket(hooks[i])
        BY <3>1
      <4>2. hooks[i] \in HookType /\ i \in 1..Len(hooks)
        BY DEF TypeOK
      <4> QED
        BY <4>1, <4>2 DEF NamedHooks, Sendable
    <3>2. CASE \E i \in DOMAIN packs : sent' = PackPacket(packs[i])
      <4>1. PICK i \in DOMAIN packs : sent' = PackPacket(packs[i])
        BY <3>2
      <4>2. packs[i] \in PatchPackType
        BY DEF TypeOK
      <4> QED
        BY <4>1, <4>2 DEF Sendable
    <3> QED
      BY <1>5, <3>1, <3>2 DEF SendAgain
  <2> QED
    BY <1>1, <2>1, <2>2 DEF NamedHooks, ReceivedIsRead
<1>6. CASE Receive
  <2>1. /\ sent # NoPacket /\ sent' = sent /\ hooks' = hooks
        /\ \E swapped \in BOOLEAN : received' = Read(swapped)
    <3>1. \A b \in (IF sent.kind = "pack" THEN BOOLEAN ELSE {FALSE}) : b \in BOOLEAN
      OBVIOUS
    <3> QED
      BY <1>6, <3>1 DEF Receive, Read
  <2>2. ReceivedIsRead'
    BY <2>1 DEF ReceivedIsRead, Read
  <2> QED
    BY <1>1, <2>1, <2>2 DEF NamedHooks, Sendable
<1>7. CASE Pass \/ Undo \/ UNCHANGED vars
  <2>1. hooks' = hooks /\ sent' = sent /\ received' = received
    BY <1>7 DEF Pass, Undo, vars
  <2> QED
    BY <1>1, <2>1 DEF NamedHooks, Sendable, ReceivedIsRead, Read
<1> QED
  BY <1>2, <1>3, <1>4, <1>5, <1>6, <1>7 DEF Next

\* A core has the hook and the pack that the manager registered, whatever
\* their searches hold, at any depth (serialise() and deserialise() of
\* common/Search.cpp, Hook.cpp, Patch.cpp and Info.cpp).
THEOREM WhatIsReadWasSent == Spec => []ReceivedAsSent
<1>1. Init => SentInv
  BY SentInit
<1>2. SentInv /\ [Next]_vars => SentInv'
  BY SentStep
<1>3. SentInv => ReceivedAsSent
  BY SentMeansReceived
<1> QED
  BY <1>1, <1>2, <1>3, PTL DEF Spec

-----------------------------------------------------------------------------
(* Pages                                                                   *)

LEMMA SizeOfPage == PageSize \in Nat /\ PageSize > 0
BY MemoryAssumption

LEMMA PageFacts ==
  ASSUME NEW a \in Int
  PROVE  /\ PageOf(a) \in Int /\ PageOf(a) * PageSize \in Int
         /\ PageOf(a) * PageSize <= a /\ a < PageOf(a) * PageSize + PageSize
BY SizeOfPage DEF PageOf

LEMMA PageStarts ==
  ASSUME NEW p \in Int
  PROVE  /\ p * PageSize \in Int /\ (p + 1) * PageSize = p * PageSize + PageSize
         /\ PageOf(p * PageSize) = p
BY SizeOfPage DEF PageOf

LEMMA PagesInOrder ==
  ASSUME NEW p \in Int, NEW q \in Int
  PROVE  /\ p * PageSize \in Int /\ q * PageSize \in Int
         /\ (p < q) <=> (p * PageSize < q * PageSize)
         /\ (p <= q) <=> (p * PageSize <= q * PageSize)
         /\ (p < q) <=> (p * PageSize + PageSize <= q * PageSize)
         /\ p * PageSize + q * PageSize = (p + q) * PageSize
         /\ p * PageSize - q * PageSize = (p - q) * PageSize
BY SizeOfPage

LEMMA PageIs ==
  ASSUME NEW a \in Int, NEW p \in Int, NEW n \in Int
  PROVE  (p * PageSize <= a /\ a < n * PageSize) <=> (p <= PageOf(a) /\ PageOf(a) < n)
<1>1. /\ PageOf(a) \in Int /\ PageOf(a) * PageSize \in Int
      /\ PageOf(a) * PageSize <= a /\ a < PageOf(a) * PageSize + PageSize
  BY PageFacts
<1>2. /\ p * PageSize \in Int
      /\ (p <= PageOf(a)) <=> (p * PageSize <= PageOf(a) * PageSize)
      /\ (PageOf(a) < p) <=> (PageOf(a) * PageSize + PageSize <= p * PageSize)
  BY <1>1, PagesInOrder
<1>3. /\ n * PageSize \in Int
      /\ (PageOf(a) < n) <=> (PageOf(a) * PageSize + PageSize <= n * PageSize)
      /\ (n <= PageOf(a)) <=> (n * PageSize <= PageOf(a) * PageSize)
  BY <1>1, PagesInOrder
<1> QED
  BY <1>1, <1>2, <1>3, SizeOfPage

\* An aligned range: from the page of its start, as many as its size needs.
LEMMA Aligned ==
  ASSUME NEW start \in Nat, NEW size \in Nat \ {0}
  PROVE  \E s \in Nat, n \in Nat \ {0} :
           /\ alignPage(start, size) = <<s * PageSize, n * PageSize>>
           /\ s = PageOf(start) /\ size <= n * PageSize
           /\ (n - 1) * PageSize < size
<1> DEFINE s == PageOf(start)
           n == PageOf(size - 1) + 1
<1>1. start - (start % PageSize) = s * PageSize
  BY SizeOfPage DEF PageOf
<1>2. /\ s \in Int /\ s >= 0 /\ PageOf(size - 1) \in Int /\ PageOf(size - 1) >= 0
      /\ PageOf(size - 1) * PageSize <= size - 1 /\ size - 1 < PageOf(size - 1) * PageSize + PageSize
      /\ PageOf(size - 1) * PageSize \in Int
  BY SizeOfPage, PageFacts DEF PageOf
<1>3. PageOf(size - 1) * PageSize + PageSize = n * PageSize
  BY <1>2, PageStarts
<1>4. ((size - 1) \div PageSize) * PageSize + PageSize = n * PageSize
  BY <1>3 DEF PageOf
<1> HIDE DEF s, n
<1>5. alignPage(start, size) = <<s * PageSize, n * PageSize>>
  BY <1>1, <1>4 DEF alignPage
<1>6. n - 1 = PageOf(size - 1) /\ s \in Nat /\ n \in Nat \ {0}
  BY <1>2 DEF n
<1>7. size <= n * PageSize /\ (n - 1) * PageSize < size
  <2>1. n * PageSize = PageOf(size - 1) * PageSize + PageSize
    BY <1>3 DEF n
  <2>2. (n - 1) * PageSize = PageOf(size - 1) * PageSize
    BY <1>6
  <2> QED
    BY ONLY <1>2, <2>1, <2>2, size \in Nat, SizeOfPage
<1> QED
  BY <1>5, <1>6, <1>7 DEF s

LEMMA AlignedNothing ==
  ASSUME NEW start \in Nat
  PROVE  alignPage(start, 0)[2] = 0
BY SizeOfPage DEF alignPage

\* What is aligned stays.
LEMMA AlignedAlready ==
  ASSUME NEW s \in Nat, NEW n \in Nat
  PROVE  alignPage(s * PageSize, n * PageSize) = <<s * PageSize, n * PageSize>>
<1>1. s * PageSize \in Int /\ n * PageSize \in Int
  BY PageStarts
<1>2. (s * PageSize) % PageSize = 0 /\ s * PageSize - 0 = s * PageSize
  BY <1>1, SizeOfPage
<1>3. n - 1 <= PageOf(n * PageSize - 1) /\ PageOf(n * PageSize - 1) < n /\ PageOf(n * PageSize - 1) \in Int
  <2>1. (n - 1) * PageSize + PageSize = n * PageSize /\ (n - 1) * PageSize \in Int
    <3>1. n - 1 \in Int /\ (n - 1) + 1 = n
      OBVIOUS
    <3> QED
      BY <3>1, PageStarts
  <2>2. (n - 1) * PageSize <= n * PageSize - 1 /\ n * PageSize - 1 < n * PageSize
    BY <1>1, <2>1, SizeOfPage
  <2>3. n * PageSize - 1 \in Int /\ n - 1 \in Int /\ n \in Int
    BY <1>1
  <2> DEFINE a == n * PageSize - 1
             k == n - 1
  <2>4. a \in Int /\ k \in Int /\ k * PageSize <= a /\ a < n * PageSize
    BY <2>2, <2>3
  <2> HIDE DEF a, k
  <2>5. k <= PageOf(a) /\ PageOf(a) < n /\ PageOf(a) \in Int
    BY <2>3, <2>4, PageIs, PageFacts
  <2> QED
    BY <2>5 DEF a, k
<1>4. PageOf(n * PageSize - 1) = n - 1
  BY <1>3
<1>5. ((n * PageSize - 1) \div PageSize) * PageSize + PageSize = n * PageSize
  <2>1. n - 1 \in Int /\ (n - 1) + 1 = n
    OBVIOUS
  <2>2. (n - 1) * PageSize + PageSize = n * PageSize
    BY <2>1, PageStarts
  <2> QED
    BY <1>4, <2>2 DEF PageOf
<1> QED
  BY <1>2, <1>5 DEF alignPage

-----------------------------------------------------------------------------
(* Segments                                                                *)

LEMMA LeastOf ==
  ASSUME NEW S \in SUBSET Nat, S # {}
  PROVE  Min(S) \in S /\ \A x \in S : Min(S) <= x
<1>1. PICK k \in S : \A j \in S : <<j, k>> \notin OpToRel(<, Nat)
  BY NatLessThanWellFounded, WFMin
<1>2. \A j \in S : ~ (j < k)
  BY <1>1, Zenon DEF OpToRel
<1>3. k \in S /\ \A x \in S : k <= x
  BY <1>2
<1> QED
  BY <1>3 DEF Min

LEMMA GreatestOf ==
  ASSUME NEW S \in SUBSET Int, IsFiniteSet(S), S # {}
  PROVE  Max(S) \in S /\ \A x \in S : Max(S) >= x
<1> DEFINE n == Len(Ascending(S))
           k == Ascending(S)[n]
<1>1. /\ Ascending(S) \in Seq(S) /\ n \in Nat
      /\ \A i, j \in 1..n : i < j => Ascending(S)[i] < Ascending(S)[j]
      /\ \A t \in S : \E i \in 1..n : Ascending(S)[i] = t
  BY AscendingFacts
<1>2. n \in 1..n
  <2>1. PICK t \in S : TRUE
    OBVIOUS
  <2>2. PICK i \in 1..n : Ascending(S)[i] = t
    BY <1>1, <2>1
  <2> QED
    BY ONLY <1>1, <2>2
<1>3. k \in S
  BY <1>1, <1>2
<1>4. ASSUME NEW x \in S PROVE k >= x
  <2>1. PICK i \in 1..n : Ascending(S)[i] = x
    BY <1>1
  <2>2. i = n \/ i < n
    BY <1>1, <2>1
  <2>3. x = k \/ x < k
    BY <1>1, <1>2, <2>1, <2>2
  <2>4. x \in Int /\ k \in Int
    BY <1>3
  <2> HIDE DEF k
  <2> QED
    BY <2>3, <2>4
<1> HIDE DEF k
<1> QED
  BY <1>3, <1>4 DEF Max

PagesKept(m) == DOMAIN m.page = MappedPages

LEMMA MappedFacts ==
  /\ MappedPages \in SUBSET Nat /\ MappedPages \in SUBSET Int /\ IsFiniteSet(MappedPages)
  /\ Max(MappedPages) \in MappedPages /\ \A q \in MappedPages : Max(MappedPages) >= q
<1>1. MappedPages \in SUBSET Nat /\ IsFiniteSet(MappedPages) /\ MappedPages # {}
  BY MemoryAssumption
<1>2. MappedPages \in SUBSET Int
  BY <1>1
<1> QED
  BY <1>1, <1>2, GreatestOf

\* The end of a segment is the first page that starts one or is not mapped.
LEMMA EndFacts ==
  ASSUME NEW m, PagesKept(m), NEW p \in Starts(m)
  PROVE  /\ p \in Nat /\ End(m, p) \in Nat /\ p < End(m, p)
         /\ \A q \in p..End(m, p) - 1 : q \in MappedPages /\ m.page[q] = m.page[p]
         /\ \A q \in Starts(m) : p < q => End(m, p) <= q
<1> DEFINE S == {q \in p + 1..Max(MappedPages) + 1 : q \in Starts(m) \/ q \notin MappedPages}
<1>1. p \in MappedPages /\ p \in Nat /\ Max(MappedPages) \in Nat /\ p <= Max(MappedPages)
  BY MappedFacts DEF Starts, PagesKept
<1>2. Max(MappedPages) + 1 \in S
  BY <1>1, MappedFacts
<1>3. End(m, p) = Min(S)
  BY DEF End, PagesKept
<1>4. S \in SUBSET Nat /\ S # {}
  BY <1>1, <1>2
<1>5. End(m, p) \in S /\ \A x \in S : End(m, p) <= x
  BY <1>3, <1>4, LeastOf
<1>6. p \in Nat /\ End(m, p) \in Nat /\ p < End(m, p) /\ End(m, p) <= Max(MappedPages) + 1
  BY <1>1, <1>5
<1>7. ASSUME NEW q \in Starts(m), p < q PROVE End(m, p) <= q
  <2>1. q \in MappedPages /\ q \in Nat /\ q <= Max(MappedPages)
    BY MappedFacts DEF Starts, PagesKept
  <2>2. q \in S
    BY <1>1, <1>7, <2>1
  <2> QED
    BY <1>5, <2>2
<1>8. ASSUME NEW q \in p + 1..End(m, p) - 1 PROVE q \in MappedPages /\ q \notin Starts(m)
  <2>1. q \in Int /\ q < End(m, p) /\ q \in p + 1..Max(MappedPages) + 1 /\ ~ (End(m, p) <= q)
    BY <1>1, <1>6
  <2>2. q \notin S
    BY <1>5, <2>1
  <2> QED
    BY <2>1, <2>2
<1> HIDE DEF S
<1> DEFINE n == End(m, p) - 1 - p
           K == {k \in 0..n : p + k \in MappedPages /\ m.page[p + k] = m.page[p]}
<1>9. n \in Nat
  BY <1>6
<1>10. 0 \in K
  BY <1>1, <1>9
<1>11. ASSUME NEW k \in 0..(n - 1), k \in K PROVE k + 1 \in K
  <2> DEFINE r == p + (k + 1)
  <2>1. k + 1 \in 0..n /\ r \in p + 1..End(m, p) - 1 /\ r - 1 = p + k
    BY <1>6
  <2>2. m.page[p + k] = m.page[p] /\ p + k \in MappedPages
    BY <1>11
  <2> HIDE DEF r
  <2>3. r \in MappedPages /\ r \notin Starts(m)
    BY <1>8, <2>1
  <2>4. m.page[r - 1] = m.page[r]
    BY <2>1, <2>2, <2>3 DEF Starts, PagesKept
  <2>5. m.page[r] = m.page[p]
    BY <2>1, <2>2, <2>4
  <2>6. p + (k + 1) \in MappedPages /\ m.page[p + (k + 1)] = m.page[p]
    BY <2>3, <2>5 DEF r
  <2> QED
    BY <2>1, <2>6
<1> HIDE DEF K, n
<1>12. 0..n \subseteq K
  BY <1>9, <1>10, <1>11, SearchesLoop!UpTo
<1>13. ASSUME NEW q \in p..End(m, p) - 1 PROVE q \in MappedPages /\ m.page[q] = m.page[p]
  <2>1. q - p \in 0..n /\ p + (q - p) = q
    BY <1>6 DEF n
  <2>2. q - p \in K
    BY <1>12, <2>1
  <2> QED
    BY <2>1, <2>2 DEF K
<1> QED
  BY <1>6, <1>7, <1>13

\* Each mapped page is in one.
LEMMA InSegment ==
  ASSUME NEW m, PagesKept(m), NEW q \in MappedPages
  PROVE  \E p \in Starts(m) : p <= q /\ q < End(m, p)
<1> DEFINE D == {k \in Nat : q - k \notin MappedPages \/ m.page[q - k] # m.page[q]}
           j == Min(D)
           p == q - j + 1
<1>1. q \in Nat
  BY MappedFacts
<1>2. q - (q + 1) \notin MappedPages /\ q + 1 \in Nat
  BY <1>1, MappedFacts
<1>3. q + 1 \in D
  BY <1>2
<1>4. D \in SUBSET Nat /\ D # {}
  BY <1>3
<1>5. j \in D /\ \A x \in D : j <= x
  BY <1>4, LeastOf
<1>6. 0 \notin D
  BY <1>1
<1>7. j \in Nat /\ j >= 1 /\ (q - j \notin MappedPages \/ m.page[q - j] # m.page[q])
  <2>1. j \in Nat /\ j # 0
    BY <1>5, <1>6
  <2>2. \A k \in D : q - k \notin MappedPages \/ m.page[q - k] # m.page[q]
    OBVIOUS
  <2>3. q - j \notin MappedPages \/ m.page[q - j] # m.page[q]
    BY <1>5, <2>2
  <2> QED
    BY <2>1, <2>3
<1>8. ASSUME NEW k \in Nat, k < j PROVE q - k \in MappedPages /\ m.page[q - k] = m.page[q]
  <2>1. k \notin D
    BY <1>5, <1>7, <1>8
  <2> QED
    BY <2>1
<1> HIDE DEF D, j
<1>9. p \in MappedPages /\ m.page[p] = m.page[q] /\ p - 1 = q - j /\ p \in Int /\ p <= q
  <2>1. j - 1 \in Nat /\ j - 1 < j /\ q - (j - 1) = p
    BY <1>1, <1>7
  <2> QED
    BY <1>1, <1>7, <1>8, <2>1
<1>10. p \in Starts(m)
  BY <1>7, <1>9 DEF Starts, PagesKept
<1> HIDE DEF p
<1>11. ASSUME NEW r \in p + 1..q PROVE r \in MappedPages /\ r \notin Starts(m)
  <2>1. q - r \in Nat /\ q - r < j /\ q - (q - r) = r /\ q - r + 1 \in Nat /\ q - r + 1 < j
        /\ q - (q - r + 1) = r - 1
    BY <1>1, <1>7, <1>9 DEF p
  <2>2. r \in MappedPages /\ m.page[r] = m.page[q]
    BY <1>8, <2>1
  <2>3. r - 1 \in MappedPages /\ m.page[r - 1] = m.page[q]
    BY <1>8, <2>1
  <2> QED
    BY <2>2, <2>3 DEF Starts, PagesKept
<1> DEFINE S == {x \in p + 1..Max(MappedPages) + 1 : x \in Starts(m) \/ x \notin MappedPages}
<1>12. End(m, p) = Min(S)
  BY DEF End, PagesKept
<1>13. Max(MappedPages) + 1 \in S /\ S \in SUBSET Nat
  <2>1. Max(MappedPages) \in Nat /\ p \in Nat /\ p <= Max(MappedPages)
    BY <1>9, MappedFacts
  <2>2. Max(MappedPages) + 1 \notin MappedPages
    BY <2>1, MappedFacts
  <2> QED
    BY <2>1, <2>2
<1>14. End(m, p) \in S
  <2>1. S # {} /\ S \in SUBSET Nat
    BY <1>13
  <2> HIDE DEF S
  <2> QED
    BY <1>12, <2>1, LeastOf
<1>15. End(m, p) \notin p + 1..q
  BY <1>11, <1>14
<1>16. q < End(m, p)
  BY <1>1, <1>9, <1>13, <1>14, <1>15
<1> QED
  BY <1>9, <1>10, <1>16

PageType ==
  [isReadable : BOOLEAN, isWritable : BOOLEAN, isExecutable : BOOLEAN, pathfile : Text]
PageInfo ==
  [start : Nat, size : Nat, isReadable : BOOLEAN, isWritable : BOOLEAN, isExecutable : BOOLEAN,
   pathfile : Text]

LEMMA MemoryFacts ==
  ASSUME NEW m \in MemoryType
  PROVE  /\ PagesKept(m) /\ m = [byte |-> m.byte, page |-> m.page]
         /\ m.page \in [MappedPages -> PageType] /\ m.byte \in [Addresses -> Byte]
         /\ \A q \in MappedPages : m.page[q] \in PageType
BY DEF MemoryType, PagesKept, PageType

SameRights(a, b) ==
  a.isReadable = b.isReadable /\ a.isWritable = b.isWritable /\ a.isExecutable = b.isExecutable

\* Some pages, all mapped, of which each has the rights that it says.
IsPart(m, page) ==
  /\ page \in PageInfo
  /\ \E p \in Nat, n \in Nat \ {0} :
       /\ page.start = p * PageSize /\ page.size = n * PageSize
       /\ \A q \in p..p + n - 1 : q \in MappedPages /\ SameRights(m.page[q], page)
AreParts(m, pages) ==
  /\ pages \in Seq(PageInfo) /\ Len(pages) \in Nat
  /\ \A i \in 1..Len(pages) : IsPart(m, pages[i])

\* Whether a page is among them.
Holds(page, q) == page.start <= q * PageSize /\ q * PageSize < page.start + page.size
Covers(pages, s, n) == \A q \in s..s + n - 1 : \E i \in 1..Len(pages) : Holds(pages[i], q)
OneByOne(pages) ==
  \A i, j \in 1..Len(pages) : i < j => pages[i].start + pages[i].size <= pages[j].start

LEMMA HoldsFacts ==
  ASSUME NEW page, NEW p \in Int, NEW n \in Int,
         page.start = p * PageSize, page.size = n * PageSize, NEW q \in Int
  PROVE  Holds(page, q) <=> q \in p..p + n - 1
<1>1. /\ (p <= q) <=> (p * PageSize <= q * PageSize)
      /\ p * PageSize + n * PageSize = (p + n) * PageSize
  BY PagesInOrder
<1>2. p + n \in Int
  OBVIOUS
<1>3. (q < p + n) <=> (q * PageSize < (p + n) * PageSize)
  BY <1>2, PagesInOrder
<1> QED
  BY <1>1, <1>2, <1>3 DEF Holds

LEMMA SegmentFacts ==
  ASSUME NEW m \in MemoryType, NEW p \in Starts(m)
  PROVE  /\ IsPart(m, Segment(m, p)) /\ Segment(m, p) \in PageInfo
         /\ Segment(m, p).start = p * PageSize
         /\ Segment(m, p).start + Segment(m, p).size = End(m, p) * PageSize
         /\ \A q \in Int : Holds(Segment(m, p), q) <=> p <= q /\ q < End(m, p)
<1> DEFINE n == End(m, p) - p
           g == Segment(m, p)
<1>1. /\ p \in Nat /\ End(m, p) \in Nat /\ p < End(m, p)
      /\ \A q \in p..End(m, p) - 1 : q \in MappedPages /\ m.page[q] = m.page[p]
  BY EndFacts, MemoryFacts
<1>2. n \in Nat \ {0} /\ p + n = End(m, p) /\ p \in p..End(m, p) - 1
  BY <1>1
<1>3. p * PageSize \in Nat /\ n * PageSize \in Nat
  BY <1>1, <1>2, SizeOfPage
<1>4. m.page[p] \in PageType
  BY <1>1, <1>2, MemoryFacts
<1> HIDE DEF n
<1>5. /\ g = [start |-> p * PageSize, size |-> n * PageSize,
              isReadable |-> m.page[p].isReadable, isWritable |-> m.page[p].isWritable,
              isExecutable |-> m.page[p].isExecutable, pathfile |-> m.page[p].pathfile]
  BY DEF Segment, n
<1>6. g \in PageInfo /\ g.start = p * PageSize /\ g.size = n * PageSize
  BY <1>3, <1>4, <1>5 DEF PageInfo, PageType
<1>7. SameRights(m.page[p], g)
  BY <1>5 DEF SameRights
<1> HIDE DEF g
<1>8. \A q \in p..p + n - 1 : q \in MappedPages /\ SameRights(m.page[q], g)
  BY <1>1, <1>2, <1>7
<1>9. IsPart(m, g)
  BY <1>1, <1>2, <1>6, <1>8 DEF IsPart
<1>10. g.start + g.size = End(m, p) * PageSize
  BY <1>1, <1>2, <1>6, PagesInOrder
<1>11. ASSUME NEW q \in Int PROVE Holds(g, q) <=> p <= q /\ q < End(m, p)
  <2>1. Holds(g, q) <=> q \in p..p + n - 1
    BY <1>1, <1>2, <1>6, HoldsFacts
  <2> QED
    BY <1>1, <1>2, <2>1
<1> QED
  BY <1>6, <1>9, <1>10, <1>11 DEF g

LEMMA StartsFacts ==
  ASSUME NEW m \in MemoryType
  PROVE  Starts(m) \in SUBSET MappedPages /\ Starts(m) \in SUBSET Int /\ Starts(m) \in SUBSET Nat
         /\ \A T \in SUBSET Starts(m) : IsFiniteSet(T) /\ T \in SUBSET Int
<1>1. Starts(m) \in SUBSET MappedPages
  BY MemoryFacts DEF Starts, PagesKept
<1> QED
  BY <1>1, MappedFacts, FS_Subset

\* What is enumerated: parts of the memory, one behind the other.
LEMMA EnumeratedFacts ==
  ASSUME NEW m \in MemoryType, NEW T \in SUBSET Starts(m)
  PROVE  LET pages == SegmentsAt(m, T)
         IN  /\ AreParts(m, pages) /\ OneByOne(pages)
             /\ \A i \in 1..Len(pages) : \E p \in T : pages[i] = Segment(m, p)
             /\ \A p \in T : \E i \in 1..Len(pages) : pages[i] = Segment(m, p)
<1> DEFINE pages == SegmentsAt(m, T)
           n == Len(Ascending(T))
           At(i) == Ascending(T)[i]
<1>1. /\ Ascending(T) \in Seq(T) /\ n \in Nat
      /\ \A i, j \in 1..n : i < j => At(i) < At(j)
      /\ \A t \in T : \E i \in 1..n : At(i) = t
  BY StartsFacts, AscendingFacts
<1>2. DOMAIN Ascending(T) = 1..n /\ \A i \in 1..n : At(i) \in T
  BY <1>1
<1>3. pages = [i \in 1..n |-> Segment(m, At(i))]
  BY <1>2 DEF SegmentsAt
<1>4. \A i \in 1..n : At(i) \in Starts(m) /\ At(i) \in Int
  BY <1>2, StartsFacts
<1>5. \A i \in 1..n : IsPart(m, Segment(m, At(i))) /\ Segment(m, At(i)) \in PageInfo
  BY <1>4, SegmentFacts
<1> HIDE DEF n, At, pages
<1>6. pages \in Seq(PageInfo) /\ Len(pages) = n /\ \A i \in 1..n : pages[i] = Segment(m, At(i))
  BY <1>1, <1>3, <1>5
<1>7. ASSUME NEW i \in 1..n, NEW j \in 1..n, i < j
      PROVE  pages[i].start + pages[i].size <= pages[j].start
  <2>1. At(i) \in Starts(m) /\ At(j) \in Starts(m) /\ At(i) < At(j) /\ At(j) \in Int
    BY <1>1, <1>4, <1>7
  <2>2. End(m, At(i)) <= At(j) /\ End(m, At(i)) \in Int
    BY <2>1, EndFacts, MemoryFacts
  <2>3. End(m, At(i)) * PageSize <= At(j) * PageSize
    BY <2>1, <2>2, PagesInOrder
  <2> QED
    BY <1>6, <2>1, <2>3, SegmentFacts
<1> QED
  BY <1>1, <1>2, <1>5, <1>6, <1>7 DEF AreParts, OneByOne, pages

\* The segments of a range of pages, if all of these are mapped.
AllMapped(s, n) == \A q \in s..s + n - 1 : q \in MappedPages

LEMMA NothingQueried ==
  ASSUME NEW m, NEW start \in Nat
  PROVE  queryPage(m, start, 0) = InvalidPage
BY AlignedNothing DEF queryPage

LEMMA QueryFacts ==
  ASSUME NEW m \in MemoryType, NEW start, NEW size, NEW s \in Nat, NEW n \in Nat \ {0},
         alignPage(start, size) = <<s * PageSize, n * PageSize>>
  PROVE  LET pages == queryPage(m, start, size)
         IN  /\ (pages = InvalidPage) <=> ~AllMapped(s, n)
             /\ pages # InvalidPage =>
                  /\ AreParts(m, pages) /\ OneByOne(pages) /\ Covers(pages, s, n)
                  /\ Len(pages) >= 1
                  /\ \A i \in 1..Len(pages) : 
                       /\ pages[i].start < (s + n) * PageSize
                       /\ s * PageSize < pages[i].start + pages[i].size
<1> DEFINE pages == queryPage(m, start, size)
           e == (s + n) * PageSize
           T == {p \in Starts(m) : p * PageSize < e /\ s * PageSize < End(m, p) * PageSize}
<1>1. s * PageSize + n * PageSize = e /\ PageOf(s * PageSize) = s /\ PageOf(e) = s + n
  BY PagesInOrder, PageStarts
<1>2. n * PageSize # 0
  BY SizeOfPage
<1>3. DOMAIN m.page = MappedPages
  BY MemoryFacts DEF PagesKept
<1>4. pages = IF AllMapped(s, n) THEN SegmentsAt(m, T) ELSE InvalidPage
  <2> DEFINE range == <<s * PageSize, n * PageSize>>
  <2>1. range[1] = s * PageSize /\ range[2] = n * PageSize
    OBVIOUS
  <2>2. alignPage(start, size) = range
    OBVIOUS
  <2> HIDE DEF range
  <2>3. pages = IF range[2] = 0 \/ ~ (\A p \in PageOf(range[1])..PageOf(range[1] + range[2]) - 1 : p \in DOMAIN m.page)
                THEN InvalidPage
                ELSE SegmentsAt(m, {p \in Starts(m) : p * PageSize < range[1] + range[2] /\ range[1] < End(m, p) * PageSize})
    BY <2>2 DEF queryPage
  <2>4. (\A p \in PageOf(range[1])..PageOf(range[1] + range[2]) - 1 : p \in DOMAIN m.page) <=> AllMapped(s, n)
    BY <1>1, <1>3, <2>1 DEF AllMapped
  <2> HIDE DEF pages
  <2> QED
    BY <1>1, <1>2, <2>1, <2>3, <2>4
<1> HIDE DEF pages
<1>5. T \in SUBSET Starts(m)
  OBVIOUS
<1>6. s + n \in Int /\ s \in Int
  OBVIOUS
<1>7. ASSUME AllMapped(s, n), NEW q \in s..s + n - 1 PROVE \E p \in T : Holds(Segment(m, p), q)
  <2>1. q \in MappedPages /\ q \in Int
    BY <1>7 DEF AllMapped
  <2>2. PICK p \in Starts(m) : p <= q /\ q < End(m, p)
    BY <2>1, MemoryFacts, InSegment
  <2>3. p \in Int /\ End(m, p) \in Int
    BY <2>2, EndFacts, MemoryFacts
  <2>4. p < s + n /\ s < End(m, p)
    BY <2>1, <2>2, <2>3
  <2>5. p * PageSize < e /\ s * PageSize < End(m, p) * PageSize
    BY <1>6, <2>3, <2>4, PagesInOrder
  <2>6. p \in T
    BY <2>5
  <2>7. Holds(Segment(m, p), q)
    BY <2>1, <2>2, SegmentFacts
  <2> HIDE DEF T
  <2> QED
    BY <2>6, <2>7
<1>8. ASSUME NEW p \in T
      PROVE /\ Segment(m, p).start < e
            /\ s * PageSize < Segment(m, p).start + Segment(m, p).size
  BY SegmentFacts
<1> HIDE DEF T, e
<1>9. ASSUME AllMapped(s, n)
      PROVE  /\ AreParts(m, pages) /\ OneByOne(pages) /\ Covers(pages, s, n) /\ Len(pages) >= 1
             /\ \A i \in 1..Len(pages) : 
                       /\ pages[i].start < e
                       /\ s * PageSize < pages[i].start + pages[i].size
  <2>1. pages = SegmentsAt(m, T)
    BY <1>4, <1>9
  <2>2. /\ AreParts(m, pages) /\ OneByOne(pages)
        /\ \A i \in 1..Len(pages) : \E p \in T : pages[i] = Segment(m, p)
        /\ \A p \in T : \E i \in 1..Len(pages) : pages[i] = Segment(m, p)
    BY <1>5, <2>1, EnumeratedFacts
  <2>3. Covers(pages, s, n)
    <3>1. SUFFICES ASSUME NEW q \in s..s + n - 1 PROVE \E i \in 1..Len(pages) : Holds(pages[i], q)
      BY DEF Covers
    <3>2. PICK p \in T : Holds(Segment(m, p), q)
      BY <1>7, <1>9
    <3>3. PICK i \in 1..Len(pages) : pages[i] = Segment(m, p)
      BY <2>2
    <3> QED
      BY <3>2, <3>3
  <2>4. Len(pages) >= 1
    <3>1. s \in s..s + n - 1
      OBVIOUS
    <3>2. \E i \in 1..Len(pages) : Holds(pages[i], s)
      BY <2>3, <3>1 DEF Covers
    <3> QED
      BY <2>2, <3>2 DEF AreParts
  <2> QED
    BY <1>8, <2>2, <2>3, <2>4
<1>10. AllMapped(s, n) => pages # InvalidPage
  <2>1. ASSUME AllMapped(s, n) PROVE pages # <<>>
    BY <1>9, <2>1 DEF AreParts
  <2> QED
    BY <2>1 DEF InvalidPage
<1>11. ~AllMapped(s, n) => pages = InvalidPage
  BY <1>4
<1> QED
  BY <1>9, <1>10, <1>11 DEF pages, e

-----------------------------------------------------------------------------
(* Protections                                                             *)

First(page) == PageOf(page.start)
Behind(page) == PageOf(page.start + page.size)

LEMMA PartFacts ==
  ASSUME NEW m, NEW page, IsPart(m, page)
  PROVE  /\ page \in PageInfo
         /\ First(page) \in Nat /\ Behind(page) \in Nat /\ First(page) < Behind(page)
         /\ page.start = First(page) * PageSize
         /\ page.start + page.size = Behind(page) * PageSize
         /\ page.size = (Behind(page) - First(page)) * PageSize
         /\ \A q \in First(page)..Behind(page) - 1 : q \in MappedPages /\ SameRights(m.page[q], page)
         /\ \A q \in Int : Holds(page, q) <=> First(page) <= q /\ q < Behind(page)
<1>1. PICK p \in Nat, n \in Nat \ {0} :
        /\ page.start = p * PageSize /\ page.size = n * PageSize
        /\ \A q \in p..p + n - 1 : q \in MappedPages /\ SameRights(m.page[q], page)
  BY DEF IsPart
<1>2. p * PageSize + n * PageSize = (p + n) * PageSize /\ p + n \in Int
  BY PagesInOrder
<1>3. First(page) = p /\ Behind(page) = p + n /\ (p + n) - p = n
  BY <1>1, <1>2, PageStarts DEF First, Behind
<1>4. \A q \in Int : Holds(page, q) <=> q \in p..p + n - 1
  BY <1>1, HoldsFacts
<1> QED
  BY <1>1, <1>2, <1>3, <1>4 DEF IsPart

LEMMA PartIs ==
  ASSUME NEW m, NEW page \in PageInfo, NEW f \in Nat, NEW e \in Nat, f < e,
         page.start = f * PageSize, page.start + page.size = e * PageSize,
         \A q \in f..e - 1 : q \in MappedPages /\ SameRights(m.page[q], page)
  PROVE  IsPart(m, page) /\ First(page) = f /\ Behind(page) = e
<1>1. e - f \in Nat \ {0} /\ f + (e - f) = e /\ f * PageSize \in Int /\ e * PageSize \in Int
  BY PagesInOrder
<1>2. page.size \in Int /\ page.size = e * PageSize - f * PageSize
  BY <1>1 DEF PageInfo
<1>3. page.size = (e - f) * PageSize
  BY <1>2, PagesInOrder
<1>4. IsPart(m, page)
  BY <1>1, <1>3 DEF IsPart
<1>5. First(page) = f /\ Behind(page) = e
  BY PageStarts DEF First, Behind
<1> QED
  BY <1>4, <1>5

\* The memory after a change of protections.
Given(r, page) ==
  [isReadable |-> page.isReadable, isWritable |-> page.isWritable,
   isExecutable |-> page.isExecutable, pathfile |-> r.pathfile]

LEMMA WithRightsFacts ==
  ASSUME NEW m \in MemoryType, NEW page, NEW s \in Nat, NEW n \in Nat \ {0}, NEW range,
         range = <<s * PageSize, n * PageSize>>,
         page.isReadable \in BOOLEAN, page.isWritable \in BOOLEAN, page.isExecutable \in BOOLEAN
  PROVE  LET m2 == WithRights(m, range, page)
         IN  /\ m2 \in MemoryType /\ m2.byte = m.byte
             /\ \A q \in MappedPages :
                  m2.page[q] = IF q \in s..s + n - 1 THEN Given(m.page[q], page) ELSE m.page[q]
<1> DEFINE new == [q \in MappedPages |->
                     IF q \in s..s + n - 1 THEN Given(m.page[q], page) ELSE m.page[q]]
<1>1. s * PageSize + n * PageSize = (s + n) * PageSize /\ s + n \in Int
  BY PagesInOrder
<1>2. PageOf(range[1]) = s /\ PageOf(range[1] + range[2]) = s + n
  BY <1>1, PageStarts
<1>3. DOMAIN m.page = MappedPages /\ m = [byte |-> m.byte, page |-> m.page]
      /\ \A q \in MappedPages : m.page[q] \in PageType
  BY MemoryFacts DEF PagesKept
<1>4. ASSUME NEW q \in MappedPages
      PROVE  /\ Given(m.page[q], page) \in PageType
             /\ [m.page[q] EXCEPT !.isReadable = page.isReadable, !.isWritable = page.isWritable,
                   !.isExecutable = page.isExecutable] = Given(m.page[q], page)
  <2> DEFINE r == m.page[q]
  <2>1. r \in PageType
    BY <1>3
  <2> HIDE DEF r
  <2>2. r = [isReadable |-> r.isReadable, isWritable |-> r.isWritable,
              isExecutable |-> r.isExecutable, pathfile |-> r.pathfile] /\ r.pathfile \in Text
    BY <2>1 DEF PageType
  <2>3. Given(r, page) \in PageType
    BY <2>2 DEF Given, PageType
  <2>4. [r EXCEPT !.isReadable = page.isReadable, !.isWritable = page.isWritable,
                   !.isExecutable = page.isExecutable] = Given(r, page)
    <3> DEFINE a == [r EXCEPT !.isReadable = page.isReadable]
               b == [a EXCEPT !.isWritable = page.isWritable]
    <3>1. [r EXCEPT !.isReadable = page.isReadable, !.isWritable = page.isWritable,
                   !.isExecutable = page.isExecutable] = [b EXCEPT !.isExecutable = page.isExecutable]
      BY Zenon
    <3>2. a = [isReadable |-> page.isReadable, isWritable |-> r.isWritable,
               isExecutable |-> r.isExecutable, pathfile |-> r.pathfile]
      BY <2>2
    <3> HIDE DEF a
    <3>3. b = [isReadable |-> page.isReadable, isWritable |-> page.isWritable,
               isExecutable |-> r.isExecutable, pathfile |-> r.pathfile]
      BY <3>2
    <3> HIDE DEF b
    <3>4. [b EXCEPT !.isExecutable = page.isExecutable] = Given(r, page)
      BY <3>3 DEF Given
    <3> QED
      BY <3>1, <3>4 DEF b, a
  <2> QED
    BY <2>3, <2>4 DEF r
<1>5. WithRights(m, range, page) = [m EXCEPT !.page = new]
  <2> DEFINE F == [p \in DOMAIN m.page |->
               IF p \notin PageOf(range[1])..PageOf(range[1] + range[2]) - 1 THEN m.page[p]
               ELSE [m.page[p] EXCEPT !.isReadable = page.isReadable, !.isWritable = page.isWritable,
                       !.isExecutable = page.isExecutable]]
  <2>1. WithRights(m, range, page) = [m EXCEPT !.page = F]
    BY DEF WithRights
  <2>2. F = [p \in MappedPages |->
               IF p \notin s..s + n - 1 THEN m.page[p]
               ELSE [m.page[p] EXCEPT !.isReadable = page.isReadable, !.isWritable = page.isWritable,
                       !.isExecutable = page.isExecutable]]
    <3> DEFINE interval == PageOf(range[1])..PageOf(range[1] + range[2]) - 1
               D == DOMAIN m.page
               G(p) == [m.page[p] EXCEPT !.isReadable = page.isReadable, !.isWritable = page.isWritable,
                           !.isExecutable = page.isExecutable]
    <3>1. interval = s..s + n - 1 /\ D = MappedPages
      BY <1>2, <1>3
    <3>2. F = [p \in D |-> IF p \notin interval THEN m.page[p] ELSE G(p)]
      OBVIOUS
    <3> HIDE DEF interval, D, G, F
    <3>3. F = [p \in MappedPages |-> IF p \notin s..s + n - 1 THEN m.page[p] ELSE G(p)]
      BY <3>1, <3>2
    <3> QED
      BY <3>3 DEF G
  <2>3. F = new
    BY <1>4, <2>2, Zenon
  <2> QED
    BY <2>1, <2>3
<1>6. new \in [MappedPages -> PageType]
  BY <1>3, <1>4
<1> HIDE DEF new
<1>7. [m EXCEPT !.page = new] = [byte |-> m.byte, page |-> new]
  BY <1>3
<1>8. WithRights(m, range, page) \in MemoryType
  BY <1>5, <1>6, <1>7, MemoryFacts DEF MemoryType, PageType
<1> QED
  BY <1>5, <1>7, <1>8 DEF new

LEMMA ChangeFacts ==
  ASSUME NEW m \in MemoryType, NEW page, NEW s \in Nat, NEW n \in Nat \ {0},
         alignPage(page.start, page.size) = <<s * PageSize, n * PageSize>>
  PROVE  LET c == changePageProtection(m, page)
             range == <<s * PageSize, n * PageSize>>
         IN  /\ ~AllMapped(s, n) => ~c.ok /\ c.memory = m
             /\ AllMapped(s, n) =>
                  /\ c.ok /\ c.memory = WithRights(m, range, page)
                  /\ c.oldPages = TrimmedBack(TrimmedFront(queryPage(m, range[1], range[2]), range), range)
<1> DEFINE range == <<s * PageSize, n * PageSize>>
           old == queryPage(m, range[1], range[2])
<1>1. alignPage(range[1], range[2]) = range
  BY AlignedAlready
<1>2. (old = InvalidPage) <=> ~AllMapped(s, n)
  BY <1>1, QueryFacts
<1>3. changePageProtection(m, page) =
        IF old = InvalidPage THEN [ok |-> FALSE, memory |-> m, oldPages |-> <<>>]
        ELSE [ok |-> TRUE, oldPages |-> TrimmedBack(TrimmedFront(old, range), range),
              memory |-> WithRights(m, range, page)]
  BY DEF changePageProtection
<1> HIDE DEF old, range
<1> QED
  BY <1>2, <1>3 DEF old, range

LEMMA ProtectedFacts ==
  ASSUME NEW m \in MemoryType, NEW other, NEW part, IsPart(other, part), NEW page \in PageInfo,
         page.start = part.start, page.size = part.size
  PROVE  /\ Protected(m, page) \in MemoryType /\ Protected(m, page).byte = m.byte
         /\ \A q \in MappedPages :
              Protected(m, page).page[q] = IF Holds(part, q) THEN Given(m.page[q], page) ELSE m.page[q]
<1> DEFINE s == First(part)
           n == Behind(part) - First(part)
<1>1. /\ s \in Nat /\ n \in Nat \ {0} /\ page.start = s * PageSize /\ page.size = n * PageSize
      /\ s + n = Behind(part) /\ \A q \in s..s + n - 1 : q \in MappedPages
      /\ \A q \in Int : Holds(part, q) <=> s <= q /\ q < s + n
  BY PartFacts
<1> HIDE DEF s, n
<1>2. alignPage(page.start, page.size) = <<s * PageSize, n * PageSize>> /\ AllMapped(s, n)
  BY <1>1, AlignedAlready DEF AllMapped
<1>3. Protected(m, page) = WithRights(m, <<s * PageSize, n * PageSize>>, page)
  BY <1>1, <1>2, ChangeFacts DEF Protected
<1>4. page.isReadable \in BOOLEAN /\ page.isWritable \in BOOLEAN /\ page.isExecutable \in BOOLEAN
  BY DEF PageInfo
<1> DEFINE range == <<s * PageSize, n * PageSize>>
           m2 == WithRights(m, range, page)
<1>5. range = <<s * PageSize, n * PageSize>>
  OBVIOUS
<1>5a. Protected(m, page) = m2
  BY <1>3
<1> HIDE DEF range
<1>6. /\ m2 \in MemoryType /\ m2.byte = m.byte
      /\ \A q \in MappedPages :
           m2.page[q] = IF q \in s..s + n - 1 THEN Given(m.page[q], page) ELSE m.page[q]
  BY <1>1, <1>4, <1>5, WithRightsFacts
<1> HIDE DEF m2
<1>7. \A q \in MappedPages : q \in Int /\ (Holds(part, q) <=> q \in s..s + n - 1)
  BY <1>1, MappedFacts
<1> QED
  BY <1>5a, <1>6, <1>7

RestoreLoop == INSTANCE LoopProofs WITH Body <- Protected

LEMMA GivenBack ==
  ASSUME NEW r \in PageType, NEW r0 \in PageType, NEW page,
         r.pathfile = r0.pathfile, SameRights(r0, page)
  PROVE  Given(r, page) = r0
BY DEF Given, PageType, SameRights

\* What is left to restore: a page is as it was, or held by a part from the
\* k-th on.
ToRestore(m0, m, pages, k) ==
  \A q \in MappedPages :
    /\ m.page[q].pathfile = m0.page[q].pathfile
    /\ m.page[q] = m0.page[q] \/ \E i \in k..Len(pages) : Holds(pages[i], q)

LEMMA RestoredFacts ==
  ASSUME NEW m0 \in MemoryType, NEW m1 \in MemoryType, NEW pages, AreParts(m0, pages),
         ToRestore(m0, m1, pages, 1)
  PROVE  /\ Restored(m1, pages) \in MemoryType /\ Restored(m1, pages).byte = m1.byte
         /\ Restored(m1, pages).page = m0.page
<1> DEFINE n == Len(pages)
<1>1. n \in Nat
  BY DEF AreParts
<1>2. PICK a : RestoreLoop!Runs(m1, pages, a) /\ Restored(m1, pages) = a[n]
  <2>1. Restored(m1, pages) = RestoreLoop!Fold(m1, pages)
    BY DEF Restored, RestoreLoop!Fold, Folded, RestoreLoop!Folded
  <2> QED
    BY <1>1, <2>1, RestoreLoop!FoldDefined
<1> DEFINE K == {k \in 0..n : /\ a[k] \in MemoryType /\ a[k].byte = m1.byte
                              /\ ToRestore(m0, a[k], pages, k + 1)}
<1>3. 0 \in K
  BY <1>1, <1>2 DEF RestoreLoop!Runs
<1>4. ASSUME NEW k \in 0..(n - 1), k \in K PROVE k + 1 \in K
  <2> DEFINE j == k + 1
             m == a[k]
             page == pages[j]
  <2>1. j \in 1..n /\ j - 1 = k /\ j \in Nat /\ j \in 0..n
    BY <1>1
  <2>2. a[j] = Protected(m, page)
    BY <1>2, <2>1 DEF RestoreLoop!Runs
  <2>3. m \in MemoryType /\ m.byte = m1.byte /\ ToRestore(m0, m, pages, j)
    BY <1>4
  <2>4. IsPart(m0, page)
    BY <2>1 DEF AreParts
  <2> HIDE DEF j, m, page, K
  <2>5. /\ page \in PageInfo
        /\ \A q \in First(page)..Behind(page) - 1 : SameRights(m0.page[q], page)
        /\ \A q \in Int : Holds(page, q) <=> First(page) <= q /\ q < Behind(page)
        /\ First(page) \in Nat /\ Behind(page) \in Nat
    BY <2>4, PartFacts
  <2>6. /\ a[j] \in MemoryType /\ a[j].byte = m.byte
        /\ \A q \in MappedPages :
             a[j].page[q] = IF Holds(page, q) THEN Given(m.page[q], page) ELSE m.page[q]
    BY <2>2, <2>3, <2>4, <2>5, ProtectedFacts
  <2>7. ASSUME NEW q \in MappedPages
        PROVE  /\ a[j].page[q].pathfile = m0.page[q].pathfile
               /\ a[j].page[q] = m0.page[q] \/ \E i \in j + 1..n : Holds(pages[i], q)
    <3>1. m.page[q] \in PageType /\ m0.page[q] \in PageType /\ q \in Int
      BY <2>3, MemoryFacts, MappedFacts
    <3>2. m.page[q].pathfile = m0.page[q].pathfile
      BY <2>3 DEF ToRestore
    <3>3. CASE Holds(page, q)
      <4>1. SameRights(m0.page[q], page)
        BY <2>5, <3>1, <3>3
      <4>2. a[j].page[q] = m0.page[q]
        BY <2>6, <3>1, <3>2, <3>3, <4>1, GivenBack
      <4> QED
        BY <4>2
    <3>4. CASE ~Holds(page, q)
      <4>1. a[j].page[q] = m.page[q]
        BY <2>6, <3>4
      <4>2. m.page[q] = m0.page[q] \/ \E i \in j..n : Holds(pages[i], q)
        BY <2>3 DEF ToRestore
      <4>3. \A i \in j..n : Holds(pages[i], q) => i \in j + 1..n
        BY <1>1, <2>1, <3>4 DEF page
      <4> QED
        BY <3>2, <4>1, <4>2, <4>3
    <3> QED
      BY <3>3, <3>4
  <2>8. ToRestore(m0, a[j], pages, j + 1)
    BY <2>7 DEF ToRestore
  <2>9. j \in K
    BY <2>1, <2>3, <2>6, <2>8 DEF K
  <2> QED
    BY <2>9 DEF j
<1>5. n \in K
  <2> HIDE DEF K, n
  <2>1. 0..n \subseteq K
    BY <1>1, <1>3, <1>4, RestoreLoop!UpTo
  <2> QED
    BY <1>1, <2>1
<1> HIDE DEF n
<1>6. a[n] \in MemoryType /\ a[n].byte = m1.byte /\ ToRestore(m0, a[n], pages, n + 1)
  BY <1>5
<1>7. \A q \in MappedPages : a[n].page[q] = m0.page[q]
  BY <1>1, <1>6 DEF ToRestore, n
<1>8. a[n].page \in [MappedPages -> PageType] /\ m0.page \in [MappedPages -> PageType]
  BY <1>6, MemoryFacts
<1>9. a[n].page = m0.page
  BY <1>7, <1>8
<1> QED
  BY <1>2, <1>6, <1>9

-----------------------------------------------------------------------------
(* Trimming                                                                *)

\* Parts of a memory that reach over a range, one behind the other.
Spread(m, pages, s, n) ==
  /\ AreParts(m, pages) /\ OneByOne(pages) /\ Covers(pages, s, n) /\ Len(pages) >= 1
  /\ \A i \in 1..Len(pages) : pages[i].start < (s + n) * PageSize

LEMMA ReplacedMember ==
  ASSUME NEW S, NEW xs \in Seq(S), NEW i \in 1..Len(xs), NEW x \in S, Len(xs) \in Nat
  PROVE  LET ys == [xs EXCEPT ![i] = x]
         IN  /\ ys \in Seq(S) /\ Len(ys) = Len(xs) /\ ys[i] = x
             /\ \A j \in 1..Len(xs) : j # i => ys[j] = xs[j]
OBVIOUS

LEMMA PartsReplaced ==
  ASSUME NEW m, NEW xs, AreParts(m, xs), NEW i \in 1..Len(xs), NEW x, IsPart(m, x)
  PROVE  LET ys == [xs EXCEPT ![i] = x]
         IN  /\ AreParts(m, ys) /\ Len(ys) = Len(xs) /\ ys[i] = x
             /\ \A j \in 1..Len(xs) : j # i => ys[j] = xs[j]
<1> DEFINE ys == [xs EXCEPT ![i] = x]
<1>1. x \in PageInfo /\ xs \in Seq(PageInfo) /\ Len(xs) \in Nat
  BY DEF IsPart, AreParts
<1>2. /\ ys \in Seq(PageInfo) /\ Len(ys) = Len(xs) /\ ys[i] = x
      /\ \A j \in 1..Len(xs) : j # i => ys[j] = xs[j]
  BY <1>1, ReplacedMember
<1> HIDE DEF ys
<1>3. \A j \in 1..Len(ys) : IsPart(m, ys[j])
  BY <1>2 DEF AreParts
<1> QED
  BY <1>1, <1>2, <1>3 DEF AreParts, ys

LEMMA FrontTrimmed ==
  ASSUME NEW m, NEW s \in Nat, NEW n \in Nat \ {0}, NEW old, Spread(m, old, s, n),
         s * PageSize < old[1].start + old[1].size
  PROVE  Spread(m, TrimmedFront(old, <<s * PageSize, n * PageSize>>), s, n)
<1> DEFINE range == <<s * PageSize, n * PageSize>>
           L == Len(old)
           p == old[1]
           f == First(p)
           e == Behind(p)
           trim == [p EXCEPT !.size = @ - (range[1] - p.start), !.start = range[1]]
           new == [old EXCEPT ![1] = trim]
<1>1. /\ AreParts(m, old) /\ OneByOne(old) /\ Covers(old, s, n) /\ L \in Nat /\ L >= 1 /\ 1 \in 1..L
      /\ \A i \in 1..L : old[i].start < (s + n) * PageSize
  BY DEF Spread, AreParts
<1>2. IsPart(m, p)
  BY <1>1 DEF AreParts
<1>3. /\ p \in PageInfo /\ f \in Nat /\ e \in Nat /\ f < e
      /\ p.start = f * PageSize /\ p.start + p.size = e * PageSize
      /\ \A q \in f..e - 1 : q \in MappedPages /\ SameRights(m.page[q], p)
      /\ \A q \in Int : Holds(p, q) <=> f <= q /\ q < e
  BY <1>2, PartFacts
<1>4. s < e /\ s * PageSize \in Nat
  BY <1>3, PagesInOrder, SizeOfPage
\* The range starts in it.
<1>5. f <= s
  <2>1. s \in s..s + n - 1
    OBVIOUS
  <2>2. PICK i \in 1..L : Holds(old[i], s)
    BY <1>1, <2>1 DEF Covers
  <2>3. i = 1 \/ old[1].start + old[1].size <= old[i].start
    BY <1>1, <2>2 DEF OneByOne
  <2>4. old[i].start <= s * PageSize
    BY <2>2 DEF Holds
  <2>5. old[i] \in PageInfo /\ s * PageSize \in Int
    BY <1>1, <1>4 DEF AreParts, IsPart
  <2>6. old[i].start \in Int /\ old[1].start + old[1].size \in Int
    BY <1>3, <2>5 DEF PageInfo
  <2>7. i = 1
    BY <2>3, <2>4, <2>5, <2>6
  <2>8. Holds(p, s)
    BY <2>2, <2>7
  <2> QED
    BY <1>3, <2>8
<1> HIDE DEF f, e, p, L
<1>6. TrimmedFront(old, range) = new
  BY DEF TrimmedFront, p
<1>7. /\ trim \in PageInfo /\ trim.start = s * PageSize
      /\ trim.start + trim.size = e * PageSize
      /\ trim.isReadable = p.isReadable /\ trim.isWritable = p.isWritable
      /\ trim.isExecutable = p.isExecutable
  <2> DEFINE a == [p EXCEPT !.size = @ - (range[1] - p.start)]
             b == [a EXCEPT !.start = range[1]]
             z == p.size - (s * PageSize - p.start)
  <2>1. trim = b
    BY Zenon
  <2>2. range[1] = s * PageSize
    OBVIOUS
  <2>3. p = [start |-> p.start, size |-> p.size, isReadable |-> p.isReadable,
             isWritable |-> p.isWritable, isExecutable |-> p.isExecutable, pathfile |-> p.pathfile]
        /\ p.isReadable \in BOOLEAN /\ p.isWritable \in BOOLEAN /\ p.isExecutable \in BOOLEAN
        /\ p.pathfile \in Text /\ p.start \in Nat /\ p.size \in Nat
    BY <1>3 DEF PageInfo
  <2> HIDE DEF range
  <2>4. a = [start |-> p.start, size |-> z, isReadable |-> p.isReadable,
             isWritable |-> p.isWritable, isExecutable |-> p.isExecutable, pathfile |-> p.pathfile]
    BY <2>2, <2>3
  <2>5. z \in Nat /\ s * PageSize + z = e * PageSize
    <3>1. s * PageSize < e * PageSize /\ e * PageSize \in Int
      BY <1>3, <1>4, PagesInOrder
    <3> QED
      BY <1>3, <1>4, <2>3, <3>1
  <2> HIDE DEF a, z
  <2>6. b = [start |-> s * PageSize, size |-> z, isReadable |-> p.isReadable,
             isWritable |-> p.isWritable, isExecutable |-> p.isExecutable, pathfile |-> p.pathfile]
    BY <2>2, <2>4
  <2>7. b \in PageInfo
    BY <1>4, <2>3, <2>5, <2>6 DEF PageInfo
  <2> HIDE DEF b, trim
  <2> QED
    BY <2>1, <2>5, <2>6, <2>7
<1> HIDE DEF trim
<1>8. IsPart(m, trim) /\ First(trim) = s /\ Behind(trim) = e
  <2>1. \A q \in s..e - 1 : q \in MappedPages /\ SameRights(m.page[q], trim)
    BY <1>3, <1>5, <1>7 DEF SameRights
  <2> QED
    BY <1>3, <1>4, <1>7, <2>1, PartIs
<1>9. /\ AreParts(m, new) /\ Len(new) = L /\ new[1] = trim
      /\ \A j \in 1..L : j # 1 => new[j] = old[j]
  BY <1>1, <1>8, PartsReplaced DEF L
<1> HIDE DEF new, range
<1>10. OneByOne(new)
  <2>1. SUFFICES ASSUME NEW i \in 1..L, NEW j \in 1..L, i < j
                 PROVE  new[i].start + new[i].size <= new[j].start
    BY <1>9 DEF OneByOne
  <2>2. new[j] = old[j] /\ old[i].start + old[i].size <= old[j].start
    BY <1>1, <1>9, <2>1 DEF OneByOne, L
  <2>3. new[i].start + new[i].size = old[i].start + old[i].size
    BY <1>3, <1>7, <1>9 DEF p
  <2> QED
    BY <2>2, <2>3
<1>11. Covers(new, s, n)
  <2>1. SUFFICES ASSUME NEW q \in s..s + n - 1 PROVE \E i \in 1..L : Holds(new[i], q)
    BY <1>9 DEF Covers
  <2>2. PICK i \in 1..L : Holds(old[i], q)
    BY <1>1 DEF Covers, L
  <2>3. CASE i # 1
    BY <1>9, <2>2, <2>3
  <2>4. CASE i = 1
    <3>1. q \in Int /\ s <= q /\ q < e
      BY <1>3, <2>2, <2>4 DEF p
    <3>2. Holds(trim, q)
      BY <1>8, <3>1, PartFacts
    <3> QED
      BY <1>1, <1>9, <3>2
  <2> QED
    BY <2>3, <2>4
<1>12. ASSUME NEW i \in 1..L PROVE new[i].start < (s + n) * PageSize
  <2>1. CASE i # 1
    BY <1>1, <1>9, <2>1 DEF L
  <2>2. CASE i = 1
    <3>1. s < s + n /\ s + n \in Int
      OBVIOUS
    <3>2. s * PageSize < (s + n) * PageSize
      BY <3>1, PagesInOrder
    <3> QED
      BY <1>7, <1>9, <2>2, <3>2
  <2> QED
    BY <2>1, <2>2
<1> QED
  BY <1>1, <1>6, <1>9, <1>10, <1>11, <1>12 DEF Spread, range

LEMMA BackTrimmed ==
  ASSUME NEW m, NEW s \in Nat, NEW n \in Nat \ {0}, NEW old, Spread(m, old, s, n)
  PROVE  LET new == TrimmedBack(old, <<s * PageSize, n * PageSize>>)
         IN  AreParts(m, new) /\ Covers(new, s, n)
<1> DEFINE range == <<s * PageSize, n * PageSize>>
           L == Len(old)
           p == old[L]
           f == First(p)
           e == Behind(p)
           z == n * PageSize - (p.start - s * PageSize)
           trim == [p EXCEPT !.size = range[2] - (p.start - range[1])]
           new == [old EXCEPT ![L] = trim]
<1>1. /\ AreParts(m, old) /\ OneByOne(old) /\ Covers(old, s, n) /\ L \in Nat /\ L >= 1 /\ L \in 1..L
      /\ \A i \in 1..L : old[i].start < (s + n) * PageSize
  BY DEF Spread, AreParts
<1>2. IsPart(m, p)
  BY <1>1 DEF AreParts
<1>3. /\ p \in PageInfo /\ f \in Nat /\ e \in Nat /\ f < e
      /\ p.start = f * PageSize /\ p.start + p.size = e * PageSize
      /\ \A q \in f..e - 1 : q \in MappedPages /\ SameRights(m.page[q], p)
      /\ \A q \in Int : Holds(p, q) <=> f <= q /\ q < e
  BY <1>2, PartFacts
<1>4. f < s + n /\ s + n \in Nat
  <2>1. p.start < (s + n) * PageSize
    BY <1>1
  <2>2. s + n \in Int /\ f \in Int /\ s + n \in Nat
    BY <1>3
  <2>3. f * PageSize < (s + n) * PageSize
    BY <1>3, <2>1
  <2> HIDE DEF f, p
  <2> QED
    BY <2>2, <2>3, PagesInOrder
\* The range ends in it.
<1>5. s + n <= e
  <2>1. s + n - 1 \in s..s + n - 1 /\ s + n - 1 \in Int
    OBVIOUS
  <2>2. PICK i \in 1..L : Holds(old[i], s + n - 1)
    BY <1>1, <2>1 DEF Covers
  <2>3. IsPart(m, old[i])
    BY <1>1 DEF AreParts
  <2>4. /\ Behind(old[i]) \in Nat /\ old[i].start + old[i].size = Behind(old[i]) * PageSize
        /\ s + n - 1 < Behind(old[i])
    BY <2>1, <2>2, <2>3, PartFacts
  <2>5. s + n <= Behind(old[i]) /\ s + n \in Int
    BY <2>4
  <2>6. (s + n) * PageSize <= old[i].start + old[i].size
    <3>1. Behind(old[i]) \in Int /\ s + n \in Int
      BY <2>4
    <3>2. (s + n) * PageSize <= Behind(old[i]) * PageSize
      BY <2>5, <3>1, PagesInOrder
    <3> QED
      BY <2>4, <3>2
  <2>7. i = L \/ old[i].start + old[i].size <= p.start
    BY <1>1 DEF OneByOne
  <2>8. p.start < (s + n) * PageSize
    BY <1>1
  <2>9. (s + n) * PageSize \in Int /\ p.start \in Int /\ old[i].start + old[i].size \in Int
    <3>1. Behind(old[i]) \in Int /\ s + n \in Int /\ f \in Int
      BY <1>3, <2>4
    <3>2. Behind(old[i]) * PageSize \in Int /\ (s + n) * PageSize \in Int /\ f * PageSize \in Int
      BY <3>1, PagesInOrder
    <3> HIDE DEF f
    <3> QED
      BY <1>3, <2>4, <3>2
  <2>10. i = L
    BY <2>6, <2>7, <2>8, <2>9
  <2> QED
    BY <2>5, <2>10
<1> HIDE DEF f, e, p, L
<1>6. TrimmedBack(old, range) = new
  BY DEF TrimmedBack, p, L
<1>7. /\ trim \in PageInfo /\ trim.start = f * PageSize
      /\ trim.start + trim.size = (s + n) * PageSize
      /\ trim.isReadable = p.isReadable /\ trim.isWritable = p.isWritable
      /\ trim.isExecutable = p.isExecutable
  <2>1. range[1] = s * PageSize /\ range[2] = n * PageSize
    OBVIOUS
  <2>2. p = [start |-> p.start, size |-> p.size, isReadable |-> p.isReadable,
             isWritable |-> p.isWritable, isExecutable |-> p.isExecutable, pathfile |-> p.pathfile]
        /\ p.isReadable \in BOOLEAN /\ p.isWritable \in BOOLEAN /\ p.isExecutable \in BOOLEAN
        /\ p.pathfile \in Text /\ p.start \in Nat /\ p.size \in Nat
    BY <1>3 DEF PageInfo
  <2> HIDE DEF range
  <2>3. z \in Nat /\ p.start + z = (s + n) * PageSize
    <3>1. f * PageSize < (s + n) * PageSize /\ (s + n) * PageSize \in Int
          /\ s * PageSize + n * PageSize = (s + n) * PageSize
          /\ s * PageSize \in Int /\ n * PageSize \in Int
      BY <1>3, <1>4, PagesInOrder
    <3> QED
      BY <1>3, <2>2, <3>1
  <2> HIDE DEF z
  <2>4. trim = [start |-> p.start, size |-> z, isReadable |-> p.isReadable,
             isWritable |-> p.isWritable, isExecutable |-> p.isExecutable, pathfile |-> p.pathfile]
    BY <2>1, <2>2 DEF z
  <2> HIDE DEF trim
  <2>5. trim \in PageInfo
    BY <2>2, <2>3, <2>4 DEF PageInfo
  <2> QED
    BY <1>3, <2>3, <2>4, <2>5
<1> HIDE DEF trim
<1>8. IsPart(m, trim) /\ First(trim) = f /\ Behind(trim) = s + n
  <2>1. \A q \in f..(s + n) - 1 : q \in MappedPages /\ SameRights(m.page[q], trim)
    BY <1>3, <1>5, <1>7 DEF SameRights
  <2> QED
    BY <1>3, <1>4, <1>7, <2>1, PartIs
<1>9. /\ AreParts(m, new) /\ Len(new) = L /\ new[L] = trim
      /\ \A j \in 1..L : j # L => new[j] = old[j]
  BY <1>1, <1>8, PartsReplaced DEF L
<1> HIDE DEF new, range
<1>10. Covers(new, s, n)
  <2>1. SUFFICES ASSUME NEW q \in s..s + n - 1 PROVE \E i \in 1..L : Holds(new[i], q)
    BY <1>9 DEF Covers
  <2>2. PICK i \in 1..L : Holds(old[i], q)
    BY <1>1 DEF Covers, L
  <2>3. CASE i # L
    BY <1>9, <2>2, <2>3
  <2>4. CASE i = L
    <3>1. q \in Int /\ f <= q /\ q < s + n
      BY <1>3, <2>2, <2>4 DEF p
    <3>2. Holds(trim, q)
      BY <1>8, <3>1, PartFacts
    <3> QED
      BY <1>1, <1>9, <3>2
  <2> QED
    BY <2>3, <2>4
<1> QED
  BY <1>6, <1>9, <1>10 DEF range

\* The old pages of a change.
LEMMA OldPagesFacts ==
  ASSUME NEW m \in MemoryType, NEW page, NEW s \in Nat, NEW n \in Nat \ {0},
         alignPage(page.start, page.size) = <<s * PageSize, n * PageSize>>, AllMapped(s, n)
  PROVE  LET old == changePageProtection(m, page).oldPages
         IN  AreParts(m, old) /\ Covers(old, s, n)
<1> DEFINE range == <<s * PageSize, n * PageSize>>
           whole == queryPage(m, range[1], range[2])
           front == TrimmedFront(whole, range)
<1>1. changePageProtection(m, page).oldPages = TrimmedBack(front, range)
  BY ChangeFacts
<1>2. alignPage(range[1], range[2]) = range
  BY AlignedAlready
<1>3. Spread(m, whole, s, n) /\ s * PageSize < whole[1].start + whole[1].size
  <2>1. /\ whole # InvalidPage
        /\ AreParts(m, whole) /\ OneByOne(whole) /\ Covers(whole, s, n) /\ Len(whole) >= 1
        /\ \A i \in 1..Len(whole) : 
             /\ whole[i].start < (s + n) * PageSize
             /\ s * PageSize < whole[i].start + whole[i].size
    BY <1>2, QueryFacts
  <2> HIDE DEF whole
  <2>2. 1 \in 1..Len(whole)
    BY <2>1 DEF AreParts
  <2> QED
    BY <2>1, <2>2 DEF Spread
<1> HIDE DEF whole
<1>4. Spread(m, front, s, n)
  BY <1>3, FrontTrimmed
<1> HIDE DEF front
<1> QED
  BY <1>1, <1>4, BackTrimmed

-----------------------------------------------------------------------------
(* Writing                                                                 *)

LEMMA AddressFacts ==
  /\ Addresses \in SUBSET Nat
  /\ \A a \in Int : a \in Addresses <=> PageOf(a) \in MappedPages
<1>1. \A p \in MappedPages : p \in Int /\ p \in Nat
  BY MappedFacts
<1>2. ASSUME NEW p \in MappedPages, NEW a \in p * PageSize..(p + 1) * PageSize - 1
      PROVE  a \in Nat /\ PageOf(a) = p
  <2>1. p * PageSize \in Nat /\ (p + 1) * PageSize = p * PageSize + PageSize /\ p + 1 \in Int
    BY <1>1, SizeOfPage, PageStarts
  <2>2. a \in Nat /\ p * PageSize <= a /\ a < (p + 1) * PageSize
    BY <2>1, SizeOfPage
  <2>3. p <= PageOf(a) /\ PageOf(a) < p + 1 /\ PageOf(a) \in Int
    BY <1>1, <2>1, <2>2, PageIs, PageFacts
  <2> QED
    BY <1>1, <2>2, <2>3
<1>3. ASSUME NEW a \in Int, PageOf(a) \in MappedPages PROVE a \in Addresses
  <2> DEFINE p == PageOf(a)
  <2>1. p * PageSize \in Int /\ p * PageSize <= a /\ a < p * PageSize + PageSize /\ p \in MappedPages
    BY <1>3, PageFacts
  <2>2. (p + 1) * PageSize = p * PageSize + PageSize
    BY <1>1, <2>1, PageStarts
  <2> HIDE DEF p
  <2>3. a \in p * PageSize..(p + 1) * PageSize - 1
    BY <2>1, <2>2, SizeOfPage
  <2> QED
    BY <2>1, <2>3 DEF Addresses
<1>4. ASSUME NEW a \in Addresses PROVE a \in Nat /\ PageOf(a) \in MappedPages
  BY <1>2 DEF Addresses
<1> QED
  BY <1>3, <1>4

LEMMA ReadableFacts ==
  ASSUME NEW m \in MemoryType, NEW address \in Int, NEW n \in Nat, Readable(m, address, n) \/ Writable(m, address, n)
  PROVE  /\ \A a \in address..address + n - 1 : a \in Addresses /\ m.byte[a] \in Byte
         /\ BytesAt(m, address, n) \in Seq(Byte) /\ Len(BytesAt(m, address, n)) = n
         /\ \A i \in 1..n : BytesAt(m, address, n)[i] = m.byte[address + i - 1]
<1>1. DOMAIN m.page = MappedPages /\ m.byte \in [Addresses -> Byte]
  BY MemoryFacts DEF PagesKept
<1>2. ASSUME NEW a \in address..address + n - 1 PROVE a \in Addresses /\ m.byte[a] \in Byte
  <2>1. a \in Int /\ PageOf(a) \in MappedPages
    BY <1>1 DEF Readable, Writable
  <2> QED
    BY <1>1, <2>1, AddressFacts
<1>3. \A i \in 1..n : address + i - 1 \in address..address + n - 1
  OBVIOUS
<1>4. BytesAt(m, address, n) \in [1..n -> Byte]
  BY <1>2, <1>3 DEF BytesAt
<1> QED
  BY <1>2, <1>4 DEF BytesAt

LEMMA WrittenFacts ==
  ASSUME NEW m \in MemoryType, NEW address \in Nat, NEW bytes \in Seq(Byte)
  PROVE  LET m2 == Written(m, address, bytes)
         IN  /\ m2 \in MemoryType /\ m2.page = m.page
             /\ \A a \in Addresses :
                  m2.byte[a] = IF a \in address..address + Len(bytes) - 1 THEN bytes[a - address + 1]
                               ELSE m.byte[a]
<1> DEFINE n == Len(bytes)
           new == [a \in Addresses |-> IF a \in address..address + n - 1 THEN bytes[a - address + 1]
                                       ELSE m.byte[a]]
<1>1. /\ m = [byte |-> m.byte, page |-> m.page] /\ m.byte \in [Addresses -> Byte]
      /\ m.page \in [MappedPages -> PageType] /\ DOMAIN m.byte = Addresses
  BY MemoryFacts
<1>2. n \in Nat /\ \A i \in 1..n : bytes[i] \in Byte
  OBVIOUS
<1>3. ASSUME NEW a \in address..address + n - 1 PROVE a - address + 1 \in 1..n
  BY <1>2
<1>4. new \in [Addresses -> Byte]
  BY <1>1, <1>2, <1>3
<1>5. Written(m, address, bytes) = [m EXCEPT !.byte = new]
  BY <1>1 DEF Written
<1> HIDE DEF new
<1>6. [m EXCEPT !.byte = new] = [byte |-> new, page |-> m.page]
  BY <1>1
<1>7. Written(m, address, bytes) \in MemoryType
  BY <1>1, <1>4, <1>5, <1>6 DEF MemoryType, PageType
<1> QED
  BY <1>5, <1>6, <1>7 DEF new

-----------------------------------------------------------------------------
(* Opening                                                                 *)

OpenLoop == INSTANCE LoopProofs WITH Body <- Opened

LEMMA OpenedOne ==
  ASSUME NEW m \in MemoryType, NEW m0, NEW page, IsPart(m0, page)
  PROVE  /\ Opened(m, page) \in MemoryType /\ Opened(m, page).byte = m.byte
         /\ \A q \in MappedPages :
              /\ Opened(m, page).page[q].pathfile = m.page[q].pathfile
              /\ Holds(page, q) => Opened(m, page).page[q].isWritable
              /\ ~Holds(page, q) => Opened(m, page).page[q] = m.page[q]
<1> DEFINE a == [page EXCEPT !.isReadable = TRUE]
           b == [a EXCEPT !.isWritable = TRUE]
<1>1. page \in PageInfo
  BY PartFacts
<1>2. Opened(m, page) = Protected(m, b)
  BY Zenon DEF Opened
<1>3. a \in PageInfo /\ a.start = page.start /\ a.size = page.size
  BY <1>1 DEF PageInfo
<1> HIDE DEF a
<1>4. b \in PageInfo /\ b.start = page.start /\ b.size = page.size /\ b.isWritable = TRUE
  BY <1>3 DEF PageInfo
<1> HIDE DEF b
<1>5. /\ Opened(m, page) \in MemoryType /\ Opened(m, page).byte = m.byte
      /\ \A q \in MappedPages :
           Opened(m, page).page[q] = IF Holds(page, q) THEN Given(m.page[q], b) ELSE m.page[q]
  BY <1>2, <1>4, ProtectedFacts
<1>6. \A r : Given(r, b).pathfile = r.pathfile /\ Given(r, b).isWritable = TRUE
  BY <1>4 DEF Given
<1> QED
  BY <1>5, <1>6

LEMMA OpenedFacts ==
  ASSUME NEW m \in MemoryType, NEW pages, AreParts(m, pages)
  PROVE  LET m2 == Folded(m, pages, Opened)
         IN  /\ m2 \in MemoryType /\ m2.byte = m.byte /\ ToRestore(m, m2, pages, 1)
             /\ \A q \in MappedPages, i \in 1..Len(pages) : Holds(pages[i], q) => m2.page[q].isWritable
<1> DEFINE n == Len(pages)
           IsOpen(t, k) ==
             /\ t.byte = m.byte
             /\ \A q \in MappedPages :
                  /\ t.page[q].pathfile = m.page[q].pathfile
                  /\ t.page[q] = m.page[q] \/ \E i \in 1..k : Holds(pages[i], q)
                  /\ \A i \in 1..k : Holds(pages[i], q) => t.page[q].isWritable
           Good == [k \in 0..n |-> {t \in MemoryType : IsOpen(t, k)}]
<1>1. n \in Nat
  BY DEF AreParts
<1>2. m \in Good[0]
  BY <1>1
<1>3. ASSUME NEW k \in 1..n, NEW t \in Good[k - 1] PROVE Opened(t, pages[k]) \in Good[k]
  <2> DEFINE u == Opened(t, pages[k])
  <2>1. k \in 0..n /\ k - 1 \in 0..n /\ t \in MemoryType /\ IsOpen(t, k - 1)
    BY <1>1, <1>3
  <2>2. IsPart(m, pages[k])
    BY <1>3 DEF AreParts
  <2>3. /\ u \in MemoryType /\ u.byte = t.byte
        /\ \A q \in MappedPages :
              /\ u.page[q].pathfile = t.page[q].pathfile
              /\ Holds(pages[k], q) => u.page[q].isWritable
              /\ ~Holds(pages[k], q) => u.page[q] = t.page[q]
    BY <2>1, <2>2, OpenedOne
  <2> HIDE DEF u
  <2>4. \A i \in 1..k : i = k \/ i \in 1..k - 1
    OBVIOUS
  <2>5. \A i \in 1..k - 1 : i \in 1..k
    OBVIOUS
  <2>6. ASSUME NEW q \in MappedPages
        PROVE  /\ u.page[q].pathfile = m.page[q].pathfile
               /\ u.page[q] = m.page[q] \/ \E i \in 1..k : Holds(pages[i], q)
               /\ \A i \in 1..k : Holds(pages[i], q) => u.page[q].isWritable
    BY <2>1, <2>3, <2>4, <2>5
  <2>7. IsOpen(u, k)
    BY <2>1, <2>3, <2>6
  <2> QED
    BY <2>1, <2>3, <2>7 DEF u
<1>4. OpenLoop!Fold(m, pages) \in Good[n]
  <2> HIDE DEF Good
  <2> QED
    BY <1>1, <1>2, <1>3, OpenLoop!FoldKeeps
<1>5. Folded(m, pages, Opened) = OpenLoop!Fold(m, pages)
  BY DEF OpenLoop!Fold, Folded, OpenLoop!Folded
<1> DEFINE m2 == Folded(m, pages, Opened)
<1>6. m2 \in MemoryType /\ IsOpen(m2, n)
  BY <1>1, <1>4, <1>5
<1> HIDE DEF m2
<1> QED
  BY <1>6 DEF ToRestore, m2

\* A range of addresses, and the pages that are opened for it.
LEMMA RangeFacts ==
  ASSUME NEW address \in Nat, NEW size \in Nat \ {0}, NEW s \in Nat, NEW n \in Nat \ {0},
         s = PageOf(address), size <= n * PageSize, AllMapped(s, n),
         PageOf(address) = PageOf(address + size - 1)
  PROVE  \A a \in address..address + size - 1 : PageOf(a) = s /\ s \in s..s + n - 1 /\ s \in MappedPages
<1>1. s \in s..s + n - 1
  OBVIOUS
<1>2. s \in MappedPages
  BY <1>1 DEF AllMapped
<1>3. ASSUME NEW a \in address..address + size - 1 PROVE PageOf(a) = s
  <2>1. /\ address \in Int /\ a \in Int /\ address + size - 1 \in Int /\ s \in Int /\ s + 1 \in Int
        /\ address <= a /\ a <= address + size - 1
    OBVIOUS
  <2>2. /\ s * PageSize \in Int /\ (s + 1) * PageSize = s * PageSize + PageSize
        /\ s * PageSize <= address /\ address + size - 1 < s * PageSize + PageSize
    BY <2>1, PageFacts, PageStarts
  <2>3. s * PageSize <= a /\ a < (s + 1) * PageSize
    BY <2>1, <2>2, SizeOfPage
  <2>4. s <= PageOf(a) /\ PageOf(a) < s + 1 /\ PageOf(a) \in Int
    BY <2>1, <2>3, PageIs, PageFacts
  <2> QED
    BY <2>1, <2>4
<1> QED
  BY <1>1, <1>2, <1>3

\* What it needs to be written: a mapped range; and on one page it is enough.
Ranged(address, size) ==
  \A s \in Nat, n \in Nat \ {0} :
    alignPage(address, size) = <<s * PageSize, n * PageSize>> => AllMapped(s, n)

LEMMA RangedFacts ==
  ASSUME NEW address \in Nat, NEW size \in Nat \ {0}, NEW s \in Nat, NEW n \in Nat \ {0},
         alignPage(address, size) = <<s * PageSize, n * PageSize>>
  PROVE  Ranged(address, size) <=> AllMapped(s, n)
<1>1. SUFFICES ASSUME AllMapped(s, n), NEW s2 \in Nat, NEW n2 \in Nat \ {0},
                      alignPage(address, size) = <<s2 * PageSize, n2 * PageSize>>
               PROVE  AllMapped(s2, n2)
  BY Zenon DEF Ranged
<1>2. s2 * PageSize = s * PageSize /\ n2 * PageSize = n * PageSize
  BY <1>1
<1>3. /\ s \in Int /\ s2 \in Int /\ n \in Int /\ n2 \in Int
      /\ s2 * PageSize \in Int /\ s * PageSize \in Int /\ n2 * PageSize \in Int /\ n * PageSize \in Int
  <2>1. s \in Int /\ s2 \in Int /\ n \in Int /\ n2 \in Int
    OBVIOUS
  <2> QED
    BY <2>1, PageStarts
<1>4. s <= s2 /\ s2 <= s /\ n <= n2 /\ n2 <= n
  BY <1>2, <1>3, PagesInOrder
<1>5. s2 = s /\ n2 = n
  BY <1>3, <1>4
<1> QED
  BY <1>1, <1>5

OpenPage(from, to) ==
  [start |-> to, size |-> Len(from), isReadable |-> TRUE, isWritable |-> TRUE,
   isExecutable |-> TRUE, pathfile |-> <<>>]

LEMMA CopyIs ==
  ASSUME NEW m, NEW from, NEW to
  PROVE  LET c == changePageProtection(m, OpenPage(from, to))
         IN  safeCopy(m, from, to) =
               IF ~c.ok THEN [how |-> "throws", memory |-> m]
               ELSE IF ~Writable(c.memory, to, Len(from)) THEN [how |-> "died", memory |-> c.memory]
               ELSE [how |-> "copied", memory |-> Restored(Written(c.memory, to, from), c.oldPages)]
<1> DEFINE c == changePageProtection(m, OpenPage(from, to))
<1>1. c = changePageProtection(m, [start |-> to, size |-> Len(from), isReadable |-> TRUE,
                                   isWritable |-> TRUE, isExecutable |-> TRUE, pathfile |-> <<>>])
  BY DEF OpenPage
<1>2. safeCopy(m, from, to) =
       CASE ~c.ok -> [how |-> "throws", memory |-> m]
        [] c.ok /\ ~Writable(c.memory, to, Len(from)) ->
             [how |-> "died", memory |-> c.memory]
        [] OTHER -> [how |-> "copied",
                     memory |-> Restored(Written(c.memory, to, from), c.oldPages)]
  BY <1>1 DEF safeCopy
<1> HIDE DEF c
<1>3. safeCopy(m, from, to) =
               IF ~c.ok THEN [how |-> "throws", memory |-> m]
               ELSE IF ~Writable(c.memory, to, Len(from)) THEN [how |-> "died", memory |-> c.memory]
               ELSE [how |-> "copied", memory |-> Restored(Written(c.memory, to, from), c.oldPages)]
  BY <1>2
<1> QED
  BY <1>3 DEF c

LEMMA ChangedMemory ==
  ASSUME NEW m \in MemoryType, NEW page, NEW s \in Nat, NEW n \in Nat \ {0},
         alignPage(page.start, page.size) = <<s * PageSize, n * PageSize>>, AllMapped(s, n)
  PROVE  /\ changePageProtection(m, page).ok
         /\ changePageProtection(m, page).memory = WithRights(m, <<s * PageSize, n * PageSize>>, page)
BY ChangeFacts

LEMMA SafeCopyFacts ==
  ASSUME NEW m \in MemoryType, NEW to \in Nat, NEW from \in Seq(Byte), Len(from) # 0
  PROVE  LET c == safeCopy(m, from, to)
             size == Len(from)
         IN  /\ c.how \in {"throws", "died", "copied"} /\ c.memory \in MemoryType
             /\ Ranged(to, size) => c.how # "throws"
             /\ c.how = "died" => PageOf(to) # PageOf(to + size - 1)
             /\ c.how = "copied" =>
                  /\ c.memory.page = m.page
                  /\ \A a \in Addresses :
                       c.memory.byte[a] = IF a \in to..to + size - 1 THEN from[a - to + 1]
                                          ELSE m.byte[a]
<1> DEFINE size == Len(from)
           page == OpenPage(from, to)
           c == changePageProtection(m, page)
<1>1. size \in Nat \ {0}
  OBVIOUS
<1>2. PICK s \in Nat, n \in Nat \ {0} :
         /\ alignPage(to, size) = <<s * PageSize, n * PageSize>>
         /\ s = PageOf(to) /\ size <= n * PageSize
  BY <1>1, Aligned
<1>3. /\ page.start = to /\ page.size = size /\ page.isReadable = TRUE /\ page.isWritable = TRUE
      /\ page.isExecutable = TRUE
      /\ page.isReadable \in BOOLEAN /\ page.isWritable \in BOOLEAN /\ page.isExecutable \in BOOLEAN
  BY DEF OpenPage
<1>4. safeCopy(m, from, to) =
               IF ~c.ok THEN [how |-> "throws", memory |-> m]
               ELSE IF ~Writable(c.memory, to, size) THEN [how |-> "died", memory |-> c.memory]
               ELSE [how |-> "copied", memory |-> Restored(Written(c.memory, to, from), c.oldPages)]
  BY CopyIs
<1> HIDE DEF page, size
<1> DEFINE range == <<s * PageSize, n * PageSize>>
<1>5. Ranged(to, size) <=> AllMapped(s, n)
  BY <1>1, <1>2, RangedFacts
<1>5a. alignPage(page.start, page.size) = <<s * PageSize, n * PageSize>>
  BY <1>2, <1>3
<1> DEFINE r == safeCopy(m, from, to)
<1>6. CASE ~AllMapped(s, n)
  <2>1. ~c.ok
    BY <1>5a, <1>6, ChangeFacts
  <2> HIDE DEF c
  <2>2. r = [how |-> "throws", memory |-> m]
    BY <1>4, <2>1
  <2> HIDE DEF r
  <2>3. r.how = "throws" /\ r.memory = m /\ ~Ranged(to, size)
    BY <1>5, <1>6, <2>2
  <2> QED
    BY <2>3 DEF r, size
<1>7. CASE AllMapped(s, n)
  <2> DEFINE m1 == WithRights(m, range, page)
             old == c.oldPages
  <2>1. c.ok /\ c.memory = m1
    BY <1>5a, <1>7, ChangedMemory
  <2>2. AreParts(m, old) /\ Covers(old, s, n)
    BY <1>5a, <1>7, OldPagesFacts
  <2>3. range = <<s * PageSize, n * PageSize>>
    OBVIOUS
  <2> HIDE DEF range, c, old
  <2>3a. page.isReadable \in BOOLEAN /\ page.isWritable \in BOOLEAN /\ page.isExecutable \in BOOLEAN
    BY <1>3
  <2>4. /\ m1 \in MemoryType /\ m1.byte = m.byte
        /\ \A q \in MappedPages :
             m1.page[q] = IF q \in s..s + n - 1 THEN Given(m.page[q], page) ELSE m.page[q]
    BY <2>3, <2>3a, WithRightsFacts
  <2> HIDE DEF m1
  <2>5. safeCopy(m, from, to) =
           IF ~Writable(m1, to, size) THEN [how |-> "died", memory |-> m1]
           ELSE [how |-> "copied", memory |-> Restored(Written(m1, to, from), old)]
    BY <1>4, <2>1 DEF old
  <2>6. CASE ~Writable(m1, to, size)
    <3>1. safeCopy(m, from, to) = [how |-> "died", memory |-> m1]
      BY <2>5, <2>6
    <3>2. ASSUME PageOf(to) = PageOf(to + size - 1) PROVE FALSE
      <4>1. \A a \in to..to + size - 1 : PageOf(a) = s /\ s \in s..s + n - 1 /\ s \in MappedPages
        BY <1>1, <1>2, <1>7, <3>2, RangeFacts
      <4>2. DOMAIN m1.page = MappedPages
        BY <2>4, MemoryFacts DEF PagesKept
      <4>3. ASSUME s \in s..s + n - 1 /\ s \in MappedPages PROVE m1.page[s].isWritable
        <5>1. m1.page[s] = Given(m.page[s], page)
          BY <2>4, <4>3
        <5> QED
          BY <1>3, <5>1 DEF Given
      <4>4. Writable(m1, to, size)
        BY <4>1, <4>2, <4>3 DEF Writable
      <4> QED
        BY <2>6, <4>4
    <3> QED
      BY <2>4, <3>1, <3>2 DEF size
  <2>7. CASE Writable(m1, to, size)
    <3> DEFINE m2 == Written(m1, to, from)
               m3 == Restored(m2, old)
    <3>1. safeCopy(m, from, to) = [how |-> "copied", memory |-> m3]
      BY <2>5, <2>7
    <3>2. /\ m2 \in MemoryType /\ m2.page = m1.page
          /\ \A a \in Addresses :
               m2.byte[a] = IF a \in to..to + size - 1 THEN from[a - to + 1] ELSE m1.byte[a]
      BY <2>4, WrittenFacts DEF size
    <3> HIDE DEF m2
    <3>3. ASSUME NEW q \in MappedPages
          PROVE  /\ m2.page[q].pathfile = m.page[q].pathfile
                 /\ m2.page[q] = m.page[q] \/ \E i \in 1..Len(old) : Holds(old[i], q)
      <4>1. CASE q \in s..s + n - 1
        <5>1. m2.page[q] = Given(m.page[q], page)
          BY <2>4, <3>2, <4>1
        <5>2. \E i \in 1..Len(old) : Holds(old[i], q)
          BY <2>2, <4>1 DEF Covers
        <5> QED
          BY <5>1, <5>2 DEF Given
      <4>2. CASE q \notin s..s + n - 1
        BY <2>4, <3>2, <4>2
      <4> QED
        BY <4>1, <4>2
    <3>4. ToRestore(m, m2, old, 1)
      BY <3>3 DEF ToRestore
    <3>5. m3 \in MemoryType /\ m3.byte = m2.byte /\ m3.page = m.page
      BY <2>2, <3>2, <3>4, RestoredFacts
    <3> HIDE DEF m3
    <3> QED
      BY <2>4, <3>1, <3>2, <3>5 DEF size
  <2> QED
    BY <2>6, <2>7
<1> QED
  BY <1>6, <1>7

-----------------------------------------------------------------------------
(* Numbers and symbols                                                     *)

TimesLoop == INSTANCE LoopProofs WITH Body <- Times
ShiftLoop == INSTANCE LoopProofs WITH Body <- Shifted

LEMMA BaseFacts == Base \in Nat \ {0} /\ PtrBytes \in Nat \ {0}
BY DataAssumption, WidthAssumption

LEMMA PowerFacts ==
  ASSUME NEW n \in Nat
  PROVE  Power(n) \in Nat \ {0}
<1> DEFINE xs == [i \in 1..n |-> Base]
           Good == [i \in 0..n |-> Nat \ {0}]
<1>1. Len(xs) = n /\ \A i \in 1..n : xs[i] = Base
  OBVIOUS
<1>2. ASSUME NEW i \in 1..n, NEW t \in Good[i - 1] PROVE Times(t, xs[i]) \in Good[i]
  <2>1. i - 1 \in 0..n /\ i \in 0..n
    OBVIOUS
  <2>2. t \in Nat \ {0}
    BY <1>2, <2>1
  <2>3. t * Base \in Nat \ {0}
    BY <2>2, BaseFacts
  <2> QED
    BY <1>1, <2>1, <2>3 DEF Times
<1>3. 1 \in Good[0]
  OBVIOUS
<1>4. Power(n) = TimesLoop!Fold(1, xs)
  BY DEF Power, TimesLoop!Fold, Folded, TimesLoop!Folded
<1>5. Good[n] = Nat \ {0}
  OBVIOUS
<1> HIDE DEF xs, Good
<1>6. TimesLoop!Fold(1, xs) \in Good[Len(xs)]
  BY <1>1, <1>2, <1>3, TimesLoop!FoldKeeps
<1> QED
  BY <1>1, <1>4, <1>5, <1>6

LEMMA PointerBytesFacts ==
  ASSUME NEW a \in Int
  PROVE  PointerBytes(a) \in Seq(Byte) /\ Len(PointerBytes(a)) = PtrBytes
<1>1. ASSUME NEW i \in 1..PtrBytes PROVE (a \div Power(i - 1)) % Base \in Byte
  <2>1. i - 1 \in Nat
    BY BaseFacts
  <2>2. Power(i - 1) \in Nat \ {0}
    BY <2>1, PowerFacts
  <2> DEFINE p == Power(i - 1)
  <2>3. p \in Nat \ {0}
    BY <2>2
  <2> HIDE DEF p
  <2>4. a \div p \in Int
    BY <2>3
  <2> DEFINE x == a \div p
  <2>5. x \in Int
    BY <2>4
  <2> HIDE DEF x
  <2>6. x % Base \in 0..Base - 1
    BY <2>5, BaseFacts
  <2> QED
    BY <2>6 DEF Byte, x, p
<1>2. PointerBytes(a) \in [1..PtrBytes -> Byte]
  BY <1>1 DEF PointerBytes
<1> QED
  BY <1>2, BaseFacts

LEMMA PointerFacts ==
  ASSUME NEW m \in MemoryType, NEW address \in Int, Readable(m, address, PtrBytes)
  PROVE  Pointer(m, address) \in Nat
<1> DEFINE bytes == BytesAt(m, address, PtrBytes)
           xs == Reverse(bytes)
           Good == [i \in 0..PtrBytes |-> Nat]
<1>1. PtrBytes \in Nat /\ Base \in Nat
  BY BaseFacts
<1>2. bytes \in Seq(Byte) /\ Len(bytes) = PtrBytes
  BY <1>1, ReadableFacts
<1> HIDE DEF bytes
<1>3. Len(xs) = PtrBytes /\ \A i \in 1..PtrBytes : xs[i] \in Byte
  <2>1. \A i \in 1..PtrBytes : (PtrBytes - i) + 1 \in 1..PtrBytes
    BY <1>1
  <2>2. xs = [i \in 1..PtrBytes |-> bytes[(PtrBytes - i) + 1]]
    BY <1>2 DEF Reverse
  <2>3. \A i \in 1..PtrBytes : bytes[i] \in Byte
    BY <1>2
  <2>4. xs \in [1..PtrBytes -> Byte]
    BY <2>1, <2>2, <2>3
  <2> QED
    BY <1>1, <2>2, <2>4
<1> HIDE DEF xs
<1>4. ASSUME NEW i \in 1..PtrBytes, NEW t \in Good[i - 1] PROVE Shifted(t, xs[i]) \in Good[i]
  <2>1. i - 1 \in 0..PtrBytes /\ i \in 0..PtrBytes
    BY <1>1
  <2>2. t \in Nat /\ xs[i] \in Nat
    BY <1>3, <1>4, <2>1 DEF Byte
  <2>3. Base * t + xs[i] \in Nat
    BY <1>1, <2>2
  <2> QED
    BY <2>1, <2>3 DEF Shifted
<1>5. 0 \in Good[0] /\ Good[PtrBytes] = Nat
  BY <1>1
<1>6. Pointer(m, address) = ShiftLoop!Fold(0, xs)
  BY DEF Pointer, ShiftLoop!Fold, Folded, ShiftLoop!Folded, xs, bytes
<1> HIDE DEF Good
<1>7. ShiftLoop!Fold(0, xs) \in Good[Len(xs)]
  BY <1>1, <1>3, <1>4, <1>5, ShiftLoop!FoldKeeps
<1> QED
  BY <1>3, <1>5, <1>6, <1>7

LEMMA SymbolFacts ==
  ASSUME NEW m, NEW moduleName, NEW functionName, Symbol(m, moduleName, functionName) # Throws
  PROVE  Symbol(m, moduleName, functionName) \in Nat
<1> DEFINE module == open(m, moduleName)
<1>1. module # Throws /\ getSymbol(module, functionName) # Throws
      /\ Symbol(m, moduleName, functionName) = getSymbol(module, functionName)
  BY DEF Symbol
<1>2. PICK name \in DOMAIN Modules : module = Modules[name]
  BY <1>1, SearchAssumption DEF open
<1>3. module.symbols \in [DOMAIN module.symbols -> Nat]
  BY <1>2, SearchAssumption
<1>4. functionName \in DOMAIN module.symbols
      /\ getSymbol(module, functionName) = module.symbols[functionName]
  BY <1>1 DEF getSymbol
<1> HIDE DEF module
<1> QED
  BY <1>1, <1>3, <1>4

-----------------------------------------------------------------------------
(* Depths                                                                  *)

LEMMA SeqGrows ==
  ASSUME NEW S, NEW T, S \subseteq T
  PROVE  Seq(S) \subseteq Seq(T)
OBVIOUS

LEMMA SpecialsGrow ==
  ASSUME NEW S, NEW T, S \subseteq T
  PROVE  SpecialSearchesOf(S) \subseteq SpecialSearchesOf(T)
BY DEF SpecialSearchesOf

LEMMA NextGrows ==
  ASSUME NEW S, NEW T, S \subseteq T, NEW d, NEW e
  PROVE  SearchesOf(S, d) \subseteq SearchesOf(T, e)
<1>1. Seq(SpecialSearchesOf(S)) \subseteq Seq(SpecialSearchesOf(T))
  BY SpecialsGrow, SeqGrows
<1> QED
  BY <1>1 DEF SearchesOf

LEMMA DepthsGrow ==
  ASSUME NEW d \in Nat
  PROVE  SearchesTo(d) \subseteq SearchesTo(d + 1)
<1> DEFINE K == {k \in 0..d : SearchesTo(k) \subseteq SearchesTo(k + 1)}
<1>1. 0 \in K
  BY SearchesDepths
<1>2. ASSUME NEW k \in 0..(d - 1), k \in K PROVE k + 1 \in K
  <2>1. k \in Nat /\ k + 1 \in Nat /\ k + 1 \in 0..d
    OBVIOUS
  <2>2. /\ SearchesTo(k + 1) = SearchesOf(SearchesTo(k), k + 1)
        /\ SearchesTo((k + 1) + 1) = SearchesOf(SearchesTo(k + 1), (k + 1) + 1)
    BY <2>1, SearchesDepths
  <2>3. SearchesTo(k + 1) \subseteq SearchesTo((k + 1) + 1)
    BY <1>2, <2>2, NextGrows
  <2> QED
    BY <2>1, <2>3
<1> HIDE DEF K
<1>3. 0..d \subseteq K
  BY <1>1, <1>2, SearchesLoop!UpTo
<1>4. d \in K
  BY <1>3
<1> QED
  BY <1>4 DEF K

LEMMA DepthsAreSearches ==
  ASSUME NEW d \in 0..Depth
  PROVE  SearchesTo(d) \subseteq Searches
<1> DEFINE n == Depth - d
           K == {k \in 0..n : SearchesTo(d) \subseteq SearchesTo(d + k)}
<1>1. Depth \in Nat /\ n \in Nat /\ d + n = Depth /\ d \in Nat /\ d + 0 = d
  BY DataAssumption
<1> HIDE DEF n
<1>2. 0 \in K
  BY <1>1
<1>3. ASSUME NEW k \in 0..(n - 1), k \in K PROVE k + 1 \in K
  <2>1. d + k \in Nat /\ (d + k) + 1 = d + (k + 1) /\ k + 1 \in 0..n
    BY <1>1
  <2>2. SearchesTo(d + k) \subseteq SearchesTo(d + (k + 1))
    BY <2>1, DepthsGrow
  <2> QED
    BY <1>3, <2>1, <2>2
<1> HIDE DEF K
<1>4. 0..n \subseteq K
  BY <1>1, <1>2, <1>3, SearchesLoop!UpTo
<1>5. n \in K
  BY <1>1, <1>4
<1> QED
  BY <1>1, <1>5 DEF K, Searches

\* The searches that a special search makes.
LEMMA DataPointerFacts ==
  ASSUME NEW bytes \in Bytes, NEW ignored \in Rvas, NEW d \in 0..(Depth - 1),
         NEW specials \in Seq(SpecialSearchesOf(SearchesTo(d)))
  PROVE  DataPointer(bytes, ignored, specials) \in Searches
<1>1. d \in Nat /\ d + 1 \in 0..Depth
  BY DataAssumption
<1>2. SearchesTo(d + 1) = SearchesOf(SearchesTo(d), d + 1)
  BY <1>1, SearchesDepths
<1>3. <<>> \in Text
  BY DEF Text
<1>4. DataPointer(bytes, ignored, specials) \in SearchesTo(d + 1)
  BY <1>2, <1>3 DEF DataPointer, SearchesOf
<1> QED
  BY <1>1, <1>4, DepthsAreSearches

-----------------------------------------------------------------------------
(* Special searches                                                        *)

\* Found positions do not overlap.
Spaced(found, size) ==
  /\ found \in SUBSET Nat /\ IsFiniteSet(found)
  /\ \A a, b \in found : a < b => a + size <= b

\* What a search keeps: the bytes of the memory, and all of it unless it is
\* cut short; and one with no special search is not cut short by what throws.
Honestly(request, f) ==
  /\ f.how \in {"found", "throws", "died", "hangs"}
  /\ f.memory \in MemoryType /\ f.memory.byte = request.memory.byte
  /\ f.how = "found" =>
       f.memory = request.memory /\ Spaced(f.found, Len(request.search.searchBytes))
  /\ f.how = "throws" /\ request.search.specialSearches = <<>> => f.memory = request.memory
Honest(inner) == \A request \in Requests : Honestly(request, inner[request])

\* What a special search keeps.
Tells(r, m) ==
  /\ r.how \in {"yes", "no", "throws", "died", "hangs"}
  /\ r.memory \in MemoryType /\ r.memory.byte = m.byte
  /\ r.how \in {"yes", "no"} => r.memory = m

LEMMA RequestFacts ==
  ASSUME NEW m \in MemoryType, NEW search \in Searches, NEW start \in Nat, NEW size \in Nat
  PROVE  LET r == Request(m, search, start, size)
         IN  /\ r \in Requests
             /\ r.memory = m /\ r.search = search /\ r.start = start /\ r.size = size
BY DEF Request, Requests

LEMMA OutcomeTells ==
  ASSUME NEW m \in MemoryType, NEW how \in {"yes", "no", "throws", "died", "hangs"}
  PROVE  Tells(Outcome(how, m), m)
BY DEF Tells, Outcome

LEMMA DecidedTells ==
  ASSUME NEW m \in MemoryType, NEW c \in BOOLEAN
  PROVE  Tells(Decided(c, m), m)
BY OutcomeTells DEF Decided

LEMMA PointsFacts ==
  ASSUME NEW inner, Honest(inner), NEW m \in MemoryType, NEW data \in Searches, NEW address \in Int
  PROVE  LET r == PointsToMatch(inner, m, data, address)
         IN  /\ Tells(r, m)
             /\ r.how = "throws" /\ data.specialSearches = <<>> => r.memory = m
<1> DEFINE r == PointsToMatch(inner, m, data, address)
           to == Pointer(m, address)
           size == Len(data.searchBytes)
           request == Request(m, data, to, size)
           f == inner[request]
<1>1. CASE ~Readable(m, address, PtrBytes)
  <2>1. r = Outcome("died", m)
    BY <1>1 DEF PointsToMatch
  <2>2. Tells(Outcome("died", m), m)
    BY OutcomeTells
  <2> HIDE DEF r
  <2> QED
    BY <2>1, <2>2 DEF Outcome, r
<1>2. CASE Readable(m, address, PtrBytes)
  <2>1. to \in Nat /\ size \in Nat
    BY <1>2, PointerFacts, SearchFacts DEF Bytes
  <2>2. r = AnyFound(f)
    BY <1>2 DEF PointsToMatch
  <2> HIDE DEF to, size, r
  <2>3. request \in Requests /\ request.memory = m /\ request.search = data
    BY <2>1, RequestFacts
  <2> HIDE DEF request
  <2>4. /\ f.how \in {"found", "throws", "died", "hangs"}
        /\ f.memory \in MemoryType /\ f.memory.byte = m.byte
        /\ f.how = "found" => f.memory = m
        /\ f.how = "throws" /\ data.specialSearches = <<>> => f.memory = m
    BY <2>3 DEF Honest, Honestly
  <2> HIDE DEF f
  <2>5. CASE f.how = "found"
    <3>1. r = Decided(f.found # {}, m)
      BY <2>2, <2>4, <2>5 DEF AnyFound
    <3>2. Tells(r, m) /\ r.how # "throws"
      BY <3>1, DecidedTells DEF Decided, Outcome
    <3> QED
      BY <3>2 DEF r
  <2>6. CASE f.how # "found"
    <3>1. r = [how |-> f.how, memory |-> f.memory]
      BY <2>2, <2>6 DEF AnyFound, Outcome
    <3>2. r.how = f.how /\ r.memory = f.memory
      BY <3>1
    <3>3. Tells(r, m) /\ (r.how = "throws" /\ data.specialSearches = <<>> => r.memory = m)
      BY <2>4, <2>6, <3>2 DEF Tells
    <3> QED
      BY <3>3 DEF r
  <2> QED
    BY <2>5, <2>6
<1> QED
  BY <1>1, <1>2

LEMMA OperandFacts ==
  ASSUME NEW m \in MemoryType, NEW address \in Nat, Readable(m, address, InstructionSize)
  PROVE  Operand(m, address) \in Nat /\ Target(m, address) \in Nat
<1>1. PtrBytes \in Nat /\ 2 * PtrBytes \in Nat
  BY BaseFacts
<1>2. \A a \in address + PtrBytes..(address + PtrBytes) + PtrBytes - 1 :
        a \in address..address + 2 * PtrBytes - 1
  BY <1>1
<1>3. Readable(m, address + PtrBytes, PtrBytes)
  BY <1>2 DEF Readable, InstructionSize
<1>4. Operand(m, address) \in Nat
  BY <1>1, <1>3, PointerFacts DEF Operand
<1>5. AddressSpace \in Nat \ {0}
  BY <1>1, PowerFacts DEF AddressSpace
<1> DEFINE x == address + InstructionSize + Operand(m, address)
<1>6. x \in Int
  BY <1>1, <1>4 DEF InstructionSize
<1> HIDE DEF x
<1>7. x % AddressSpace \in Nat
  BY <1>5, <1>6
<1> QED
  BY <1>4, <1>7 DEF Target, x

LEMMA SpecialIs ==
  ASSUME NEW d, NEW special \in SpecialSearchesOf(SearchesTo(d))
  PROVE  /\ special.type \in {"BLANK", "DATA_POINTER"} \cup NamedTypes \cup SearchTypes
         /\ special.type \in SearchTypes => special.data \in SearchesTo(d)
BY DEF SpecialSearchesOf, NamedTypes, SearchTypes

LEMMA CallsMatchTells ==
  ASSUME NEW inner, Honest(inner), NEW m \in MemoryType, NEW data \in Searches, NEW address \in Nat,
         Readable(m, address, InstructionSize)
  PROVE  Tells(CallsMatch(inner, m, data, address), m)
<1>1. Target(m, address) \in Int
  BY OperandFacts
<1>2. Tells(PointsToMatch(inner, m, data, Target(m, address)), m)
  BY <1>1, PointsFacts
<1>3. Tells(Outcome("no", m), m)
  BY OutcomeTells
<1> QED
  BY <1>2, <1>3 DEF CallsMatch

LEMMA CallsIndirectlyNamedTells ==
  ASSUME NEW inner, Honest(inner), NEW m \in MemoryType, NEW data, NEW address \in Nat,
         Readable(m, address, InstructionSize), Depth # 0
  PROVE  Tells(CallsIndirectlyNamed(inner, m, data, address), m)
<1> DEFINE symbol == Symbol(m, data.moduleName, data.functionName)
           search == DataPointer(PointerBytes(symbol), {}, <<>>)
           to == Operand(m, address)
           r == PointsToMatch(inner, m, search, to)
           all == CallsIndirectlyNamed(inner, m, data, address)
<1>1. all = IF ~IsIndirectCall(m, address) \/ symbol = Throws THEN Outcome("no", m) ELSE Caught(r)
  BY DEF CallsIndirectlyNamed
<1>2. Tells(Outcome("no", m), m)
  BY OutcomeTells
<1>3. ASSUME symbol # Throws PROVE Tells(Caught(r), m)
  <2>1. symbol \in Nat
    BY <1>3, SymbolFacts
  <2>2. PointerBytes(symbol) \in Bytes
    BY <2>1, PointerBytesFacts DEF Bytes
  <2>3. {} \in Rvas
    BY FS_EmptySet DEF Rvas
  <2>4. <<>> \in Seq(SpecialSearchesOf(SearchesTo(0))) /\ 0 \in 0..(Depth - 1)
    BY DataAssumption
  <2>5. search \in Searches
    BY <2>2, <2>3, <2>4, DataPointerFacts
  <2>6. search.specialSearches = <<>>
    BY DEF DataPointer
  <2>7. to \in Int
    BY OperandFacts
  <2> HIDE DEF search, to, symbol
  <2>8. Tells(r, m) /\ (r.how = "throws" => r.memory = m)
    BY <2>5, <2>6, <2>7, PointsFacts
  <2> HIDE DEF r
  <2>9. CASE r.how = "throws"
    <3>1. Caught(r) = Outcome("no", m)
      BY <2>8, <2>9 DEF Caught
    <3> QED
      BY <1>2, <3>1
  <2>10. CASE r.how # "throws"
    <3>1. Caught(r) = r
      BY <2>10 DEF Caught
    <3> QED
      BY <2>8, <3>1
  <2> QED
    BY <2>9, <2>10
<1> HIDE DEF symbol, r, all
<1> QED
  BY <1>1, <1>2, <1>3 DEF all

LEMMA CallsIndirectlyMatchTells ==
  ASSUME NEW inner, Honest(inner), NEW m \in MemoryType, NEW d \in 0..(Depth - 1),
         NEW data \in SearchesTo(d), NEW address \in Nat, Readable(m, address, InstructionSize)
  PROVE  Tells(CallsIndirectlyMatch(inner, m, data, address), m)
<1> DEFINE special == [searchBytesRva |-> 0, type |-> "DATA_POINTER", data |-> data]
           bytes == [i \in 1..PtrBytes |-> Base - 1]
           any == DataPointer(bytes, 0..PtrBytes - 1, <<special>>)
           to == Operand(m, address)
<1>1. CallsIndirectlyMatch(inner, m, data, address) =
        IF IsIndirectCall(m, address) THEN PointsToMatch(inner, m, any, to) ELSE Outcome("no", m)
  BY DEF CallsIndirectlyMatch
<1>2. bytes \in Bytes
  <2>1. Base - 1 \in Byte
    BY BaseFacts DEF Byte
  <2>2. bytes \in [1..PtrBytes -> Byte]
    BY <2>1
  <2> QED
    BY <2>2, BaseFacts DEF Bytes
<1>3. 0..PtrBytes - 1 \in Rvas
  <2>1. IsFiniteSet(0..PtrBytes - 1)
    BY BaseFacts, FS_Interval
  <2> QED
    BY <2>1 DEF Rvas
<1>4. special \in SpecialSearchesOf(SearchesTo(d))
  BY DEF SpecialSearchesOf, SearchTypes
<1> HIDE DEF special, bytes
<1>5. any \in Searches
  <2>1. <<special>> \in Seq(SpecialSearchesOf(SearchesTo(d)))
    BY <1>4
  <2> QED
    BY <1>2, <1>3, <2>1, DataPointerFacts
<1>6. to \in Int
  BY OperandFacts
<1> HIDE DEF any, to
<1>7. Tells(PointsToMatch(inner, m, any, to), m) /\ Tells(Outcome("no", m), m)
  BY <1>5, <1>6, PointsFacts, OutcomeTells
<1> QED
  BY <1>1, <1>7

LEMMA SpecialTells ==
  ASSUME NEW inner, Honest(inner), NEW m \in MemoryType, NEW d \in 0..(Depth - 1),
         NEW special \in SpecialSearchesOf(SearchesTo(d)), NEW address \in Nat
  PROVE  Tells(SpecialHolds(inner, m, special, address), m)
<1> DEFINE data == special.data
           r == SpecialHolds(inner, m, special, address)
<1>1. /\ special.type \in {"BLANK", "DATA_POINTER"} \cup NamedTypes \cup SearchTypes
      /\ special.type \in SearchTypes => data \in SearchesTo(d)
  BY SpecialIs
<1>2. SearchesTo(d) \subseteq Searches /\ Depth # 0
  BY DataAssumption, DepthsAreSearches
<1>3. CASE special.type = "DATA_POINTER"
  <2>1. r = PointsToMatch(inner, m, data, address)
    BY <1>3 DEF SpecialHolds
  <2>2. data \in Searches
    BY <1>1, <1>2, <1>3 DEF SearchTypes
  <2> QED
    BY <2>1, <2>2, PointsFacts
<1>4. CASE special.type # "DATA_POINTER" /\ ~Readable(m, address, InstructionSize)
  <2>1. r = Outcome("died", m)
    BY <1>4 DEF SpecialHolds
  <2> QED
    BY <2>1, OutcomeTells
<1>5. CASE special.type # "DATA_POINTER" /\ Readable(m, address, InstructionSize)
  <2>1. r = CASE special.type = "NAMED_RELATIVE_FUNCTION_CALL" -> CallsNamed(m, data, address)
               [] special.type = "UNNAMED_RELATIVE_FUNCTION_CALL" ->
                    CallsMatch(inner, m, data, address)
               [] special.type = "NAMED_ABSOLUTE_INDIRECT_FUNCTION_CALL" ->
                    CallsIndirectlyNamed(inner, m, data, address)
               [] special.type = "UNNAMED_ABSOLUTE_INDIRECT_FUNCTION_CALL" ->
                    CallsIndirectlyMatch(inner, m, data, address)
               [] special.type = "BLANK" -> Outcome("died", m)
    BY <1>5 DEF SpecialHolds
  <2> HIDE DEF r, data
  <2>2. CASE special.type = "NAMED_RELATIVE_FUNCTION_CALL"
    <3>1. r = CallsNamed(m, data, address)
      BY <2>1, <2>2
    <3> QED
      BY <3>1, DecidedTells DEF CallsNamed, IsRelativeCall, r
  <2>3. CASE special.type = "UNNAMED_RELATIVE_FUNCTION_CALL"
    <3>1. r = CallsMatch(inner, m, data, address)
      BY <2>1, <2>3
    <3>2. data \in Searches
      BY <1>1, <1>2, <2>3 DEF SearchTypes
    <3> QED
      BY <1>5, <3>1, <3>2, CallsMatchTells DEF r
  <2>4. CASE special.type = "NAMED_ABSOLUTE_INDIRECT_FUNCTION_CALL"
    <3>1. r = CallsIndirectlyNamed(inner, m, data, address)
      BY <2>1, <2>4
    <3> QED
      BY <1>2, <1>5, <3>1, CallsIndirectlyNamedTells DEF r
  <2>5. CASE special.type = "UNNAMED_ABSOLUTE_INDIRECT_FUNCTION_CALL"
    <3>1. r = CallsIndirectlyMatch(inner, m, data, address)
      BY <2>1, <2>5
    <3>2. data \in SearchesTo(d)
      BY <1>1, <2>5 DEF SearchTypes
    <3> QED
      BY <1>5, <3>1, <3>2, CallsIndirectlyMatchTells DEF r
  <2>6. CASE special.type = "BLANK"
    <3>1. r = Outcome("died", m)
      BY <2>1, <2>6
    <3> QED
      BY <3>1, OutcomeTells DEF r
  <2> QED
    BY <1>1, <1>5, <2>2, <2>3, <2>4, <2>5, <2>6 DEF NamedTypes, SearchTypes
<1> QED
  BY <1>3, <1>4, <1>5

-----------------------------------------------------------------------------
(* Scans                                                                   *)

Ends == {"found", "throws", "died", "hangs"}
Matches == {"yes", "no", "end", "throws", "died", "hangs"}
ScanType(search, inner) ==
  [how : Ends, memory : MemoryType, found : SUBSET Nat, search : {search}, inner : {inner},
   next : Nat, end : Nat, at : Nat, match : Matches]

\* The fields that the steps set, one at a time.
Others(t, s, fields) ==
  /\ "how" \notin fields => t.how = s.how
  /\ "memory" \notin fields => t.memory = s.memory
  /\ "found" \notin fields => t.found = s.found
  /\ "next" \notin fields => t.next = s.next
  /\ "end" \notin fields => t.end = s.end
  /\ "at" \notin fields => t.at = s.at
  /\ "match" \notin fields => t.match = s.match

LEMMA ScanFacts ==
  ASSUME NEW search, NEW inner, NEW s \in ScanType(search, inner)
  PROVE  /\ s.how \in Ends /\ s.memory \in MemoryType /\ s.found \in SUBSET Nat
         /\ s.search = search /\ s.inner = inner
         /\ s.next \in Nat /\ s.end \in Nat /\ s.at \in Nat /\ s.match \in Matches
BY DEF ScanType

LEMMA SetHow ==
  ASSUME NEW search, NEW inner, NEW s \in ScanType(search, inner), NEW x \in Ends
  PROVE  LET t == [s EXCEPT !.how = x]
         IN  t \in ScanType(search, inner) /\ t.how = x /\ Others(t, s, {"how"})
BY DEF ScanType, Others

LEMMA SetMemory ==
  ASSUME NEW search, NEW inner, NEW s \in ScanType(search, inner), NEW x \in MemoryType
  PROVE  LET t == [s EXCEPT !.memory = x]
         IN  t \in ScanType(search, inner) /\ t.memory = x /\ Others(t, s, {"memory"})
BY DEF ScanType, Others

LEMMA SetFound ==
  ASSUME NEW search, NEW inner, NEW s \in ScanType(search, inner), NEW x \in SUBSET Nat
  PROVE  LET t == [s EXCEPT !.found = x]
         IN  t \in ScanType(search, inner) /\ t.found = x /\ Others(t, s, {"found"})
BY DEF ScanType, Others

LEMMA SetNext ==
  ASSUME NEW search, NEW inner, NEW s \in ScanType(search, inner), NEW x \in Nat
  PROVE  LET t == [s EXCEPT !.next = x]
         IN  t \in ScanType(search, inner) /\ t.next = x /\ Others(t, s, {"next"})
BY DEF ScanType, Others

LEMMA SetEnd ==
  ASSUME NEW search, NEW inner, NEW s \in ScanType(search, inner), NEW x \in Nat
  PROVE  LET t == [s EXCEPT !.end = x]
         IN  t \in ScanType(search, inner) /\ t.end = x /\ Others(t, s, {"end"})
BY DEF ScanType, Others

LEMMA SetAt ==
  ASSUME NEW search, NEW inner, NEW s \in ScanType(search, inner), NEW x \in Nat
  PROVE  LET t == [s EXCEPT !.at = x]
         IN  t \in ScanType(search, inner) /\ t.at = x /\ Others(t, s, {"at"})
BY DEF ScanType, Others

LEMMA SetMatch ==
  ASSUME NEW search, NEW inner, NEW s \in ScanType(search, inner), NEW x \in Matches
  PROVE  LET t == [s EXCEPT !.match = x]
         IN  t \in ScanType(search, inner) /\ t.match = x /\ Others(t, s, {"match"})
BY DEF ScanType, Others

LEMMA MemberOf ==
  ASSUME NEW S, NEW xs \in Seq(S), NEW i \in 1..Len(xs)
  PROVE  xs[i] \in S
OBVIOUS

\* A special search, if there is one there.
LEMMA SpecialAtTells ==
  ASSUME NEW inner, Honest(inner), NEW search \in Searches,
         NEW scan \in ScanType(search, inner), NEW i \in Nat \ {0}
  PROVE  LET special == SpecialAt(scan, i)
         IN  /\ Tells(special, scan.memory)
             /\ search.specialSearches = <<>> => special.how = "yes"
<1> DEFINE specials == scan.search.specialSearches
           here == {n \in DOMAIN specials : specials[n].searchBytesRva = i - 1}
           m == scan.memory
           k == Min(here)
           address == scan.at + i - 1
           special == SpecialAt(scan, i)
<1>1. /\ scan.search = search /\ scan.inner = inner /\ m \in MemoryType /\ scan.at \in Nat
      /\ address \in Nat
  BY ScanFacts
<1>2. PICK d \in 0..(Depth - 1) : specials \in Seq(SpecialSearchesOf(SearchesTo(d)))
  BY <1>1, SearchFacts
<1>3. special = IF here = {} THEN Outcome("yes", m) ELSE SpecialHolds(inner, m, specials[k], address)
  BY <1>1 DEF SpecialAt
<1> HIDE DEF special, address, m
<1>4. CASE here = {}
  <2>1. special = Outcome("yes", m)
    BY <1>3, <1>4
  <2>2. Tells(special, m) /\ special.how = "yes"
    BY <1>1, <2>1, OutcomeTells DEF Outcome
  <2> QED
    BY <2>2 DEF special, m
<1>5. CASE here # {}
  <2>1. DOMAIN specials = 1..Len(specials) /\ Len(specials) \in Nat
    BY <1>2
  <2>2. here \in SUBSET Nat
    BY <2>1
  <2>3. k \in here
    BY <1>5, <2>2, LeastOf
  <2>4. k \in 1..Len(specials)
    BY <2>1, <2>3
  <2>5. specials[k] \in SpecialSearchesOf(SearchesTo(d))
    BY <1>2, <2>4, MemberOf
  <2>6. specials # <<>>
    BY <2>4
  <2> DEFINE x == specials[k]
  <2>7. x \in SpecialSearchesOf(SearchesTo(d))
    BY <2>5
  <2>8. special = SpecialHolds(inner, m, x, address)
    BY <1>3, <1>5
  <2> HIDE DEF x
  <2>9. Tells(special, m)
    BY <1>1, <2>7, <2>8, SpecialTells
  <2> QED
    BY <1>1, <2>6, <2>9 DEF special, m
<1> QED
  BY <1>4, <1>5

-----------------------------------------------------------------------------
(* The bytes at an address                                                 *)

MatchLoop == INSTANCE LoopProofs WITH Body <- ByteMatched

\* What has been compared of i bytes, from u on.
Matching(t, u, search, i) ==
  /\ Others(t, u, {"memory", "match"})
  /\ t.memory.byte = u.memory.byte
  /\ t.match \in {"yes", "no", "end"} => t.memory = u.memory
  /\ t.match = "yes" /\ i >= 1 => t.at + i <= t.end
  /\ search.specialSearches = <<>> => t.match \in {"yes", "no", "end"}

LEMMA ByteKeeps ==
  ASSUME NEW inner, Honest(inner), NEW search \in Searches,
         NEW u \in ScanType(search, inner), NEW t \in ScanType(search, inner),
         NEW i \in Nat \ {0}, Matching(t, u, search, i - 1)
  PROVE  ByteMatched(t, i) \in ScanType(search, inner) /\ Matching(ByteMatched(t, i), u, search, i)
<1> DEFINE S == ScanType(search, inner)
           r == ByteMatched(t, i)
           special == SpecialAt(t, i)
<1>1. /\ t.memory \in MemoryType /\ t.at \in Nat /\ t.end \in Nat /\ t.match \in Matches
  BY ScanFacts
<1>2. CASE t.match # "yes"
  <2>1. r = t
    BY <1>2 DEF ByteMatched
  <2>2. Matching(t, u, search, i)
    BY <1>2 DEF Matching
  <2> QED
    BY <2>1, <2>2
<1>3. CASE t.match = "yes" /\ t.at + i - 1 >= t.end
  <2>1. r = [t EXCEPT !.match = "end"]
    BY <1>3 DEF ByteMatched
  <2> HIDE DEF r
  <2>1a. "end" \in Matches
    BY DEF Matches
  <2>2. r \in S /\ r.match = "end" /\ Others(r, t, {"match"})
    BY <2>1, <2>1a, SetMatch
  <2> HIDE DEF S
  <2>3. Matching(r, u, search, i)
    BY <1>3, <2>2 DEF Matching, Others
  <2> QED
    BY <2>2, <2>3 DEF r, S
<1>4. CASE t.match = "yes" /\ ~ (t.at + i - 1 >= t.end)
  <2> DEFINE same == \/ i - 1 \in t.search.ignoredSearchBytesRvas
                     \/ special.memory.byte[t.at + i - 1] = t.search.searchBytes[i]
             match == IF special.how = "yes" /\ ~same THEN "no" ELSE special.how
             a == [t EXCEPT !.memory = special.memory]
             b == [a EXCEPT !.match = match]
  <2>1. Tells(special, t.memory) /\ (search.specialSearches = <<>> => special.how = "yes")
    BY SpecialAtTells
  <2>2. r = Compared(t, i, special)
    BY <1>4 DEF ByteMatched
  <2>3. r = [t EXCEPT !.memory = special.memory, !.match = match]
    BY <2>2 DEF Compared
  <2> HIDE DEF special
  <2>4. /\ special.how \in {"yes", "no", "throws", "died", "hangs"}
        /\ special.memory \in MemoryType /\ special.memory.byte = t.memory.byte
        /\ special.how \in {"yes", "no"} => special.memory = t.memory
    BY <2>1 DEF Tells
  <2>5. match \in Matches /\ (match \in {"yes", "no", "end"} => special.how \in {"yes", "no"})
        /\ (special.how = "yes" => match \in {"yes", "no"})
    BY <2>4 DEF Matches
  <2> HIDE DEF match, r
  <2>6. r = b
    BY <2>3, Zenon
  <2>7. a \in S /\ a.memory = special.memory /\ Others(a, t, {"memory"})
    BY <2>4, SetMemory
  <2> HIDE DEF a, S
  <2>8. b \in S /\ b.match = match /\ Others(b, a, {"match"})
    BY <2>5, <2>7, SetMatch DEF S
  <2> HIDE DEF b
  <2>9. Others(b, t, {"memory", "match"}) /\ b.memory = special.memory /\ b.match = match
    BY <2>7, <2>8 DEF Others
  <2>10. Others(b, u, {"memory", "match"}) /\ t.memory.byte = u.memory.byte /\ t.memory = u.memory
    BY <1>4, <2>9 DEF Others, Matching
  <2>11. b.at = t.at /\ b.end = t.end
    BY <2>9 DEF Others
  <2>12. b.at + i <= b.end
    BY <1>1, <1>4, <2>11
  <2>13. Matching(b, u, search, i)
    BY <2>1, <2>4, <2>5, <2>9, <2>10, <2>12 DEF Matching
  <2> QED
    BY <2>6, <2>8, <2>13 DEF r, S
<1> QED
  BY <1>2, <1>3, <1>4

LEMMA MatchedKeeps ==
  ASSUME NEW inner, Honest(inner), NEW search \in Searches, search.searchBytes # <<>>,
         NEW u \in ScanType(search, inner), NEW at \in Nat
  PROVE  LET t == Matched(u, at)
             size == Len(search.searchBytes)
         IN  /\ t \in ScanType(search, inner) /\ Others(t, u, {"memory", "match", "at"})
             /\ t.at = at /\ t.memory.byte = u.memory.byte
             /\ t.match \in {"yes", "no", "end"} => t.memory = u.memory
             /\ t.match = "yes" => at + size <= t.end
             /\ search.specialSearches = <<>> => t.match \in {"yes", "no", "end"}
<1> DEFINE S == ScanType(search, inner)
           n == Len(search.searchBytes)
           a == [u EXCEPT !.at = at]
           v == [a EXCEPT !.match = "yes"]
           xs == Counter(n)
           Good == [i \in 0..n |-> {t \in S : Matching(t, v, search, i)}]
           t == Matched(u, at)
<1>1. u.search = search
  BY ScanFacts
<1>2. n \in Nat \ {0}
  BY SearchFacts DEF Bytes
<1>3. Len(xs) = n /\ \A i \in 1..n : xs[i] = i
  BY <1>2, CounterFacts
<1>4. t = MatchLoop!Fold(v, xs)
  <2>1. [u EXCEPT !.at = at, !.match = "yes"] = v
    BY Zenon
  <2>2. t = Folded([u EXCEPT !.at = at, !.match = "yes"], xs, ByteMatched)
    BY <1>1 DEF Matched
  <2> HIDE DEF v, t, xs
  <2> QED
    BY <2>1, <2>2 DEF MatchLoop!Fold, Folded, MatchLoop!Folded
<1>5. a \in S /\ a.at = at /\ Others(a, u, {"at"})
  BY SetAt
<1> HIDE DEF a, n, xs, t
<1>6. v \in S /\ v.match = "yes" /\ Others(v, a, {"match"})
  BY <1>5, SetMatch DEF Matches
<1> HIDE DEF v
<1>7. v.at = at /\ v.memory = u.memory /\ Others(v, u, {"at", "match"})
  BY <1>5, <1>6 DEF Others
<1>8. v \in Good[0]
  <2>1. Matching(v, v, search, 0)
    BY <1>6 DEF Matching, Others
  <2> QED
    BY <1>2, <1>6, <2>1
<1>9. ASSUME NEW i \in 1..n, NEW x \in Good[i - 1] PROVE ByteMatched(x, xs[i]) \in Good[i]
  <2>1. i - 1 \in 0..n /\ i \in 0..n /\ i \in Nat \ {0} /\ xs[i] = i
    BY <1>2, <1>3
  <2>2. x \in S /\ Matching(x, v, search, i - 1)
    BY <1>9, <2>1
  <2>3. ByteMatched(x, i) \in S /\ Matching(ByteMatched(x, i), v, search, i)
    BY <1>6, <2>1, <2>2, ByteKeeps
  <2> QED
    BY <2>1, <2>3
<1>10. t \in S /\ Matching(t, v, search, n)
  <2>1. MatchLoop!Fold(v, xs) \in Good[Len(xs)]
    <3> HIDE DEF Good
    <3> QED
      BY <1>2, <1>3, <1>8, <1>9, MatchLoop!FoldKeeps
  <2> QED
    BY <1>2, <1>3, <1>4, <2>1
<1>11. /\ Others(t, u, {"memory", "match", "at"}) /\ t.at = at /\ t.memory.byte = u.memory.byte
       /\ t.match \in {"yes", "no", "end"} => t.memory = u.memory
       /\ t.match = "yes" => at + n <= t.end
       /\ search.specialSearches = <<>> => t.match \in {"yes", "no", "end"}
  BY <1>2, <1>7, <1>10 DEF Matching, Others
<1> HIDE DEF S
<1> QED
  BY <1>10, <1>11 DEF n, t, S

-----------------------------------------------------------------------------
(* A segment                                                               *)

AtLoop == INSTANCE LoopProofs WITH Body <- SearchedAt

\* What has been searched of a segment whose memory was m.
Scanning(t, m, end, search) ==
  /\ t.end = end /\ t.next <= end
  /\ t.memory.byte = m.byte
  /\ t.how = "found" => t.memory = m
  /\ search.specialSearches = <<>> => t.how = "found"
  /\ Spaced(t.found, Len(search.searchBytes))
  /\ \A a \in t.found : a + Len(search.searchBytes) <= t.next

LEMMA FoundMore ==
  ASSUME NEW found, NEW size \in Nat, Spaced(found, size), NEW next \in Nat, NEW at \in Nat,
         \A a \in found : a + size <= next, next <= at
  PROVE  /\ Spaced(found \cup {at}, size)
         /\ \A a \in found \cup {at} : a + size <= at + size
<1>1. found \in SUBSET Nat /\ IsFiniteSet(found) /\ \A a, b \in found : a < b => a + size <= b
  BY DEF Spaced
<1>2. IsFiniteSet(found \cup {at})
  BY <1>1, FS_AddElement
<1>3. \A a \in found : a \in Nat /\ a + size <= at
  BY <1>1
<1> QED
  BY <1>1, <1>2, <1>3 DEF Spaced

LEMMA AtKeeps ==
  ASSUME NEW inner, Honest(inner), NEW search \in Searches, search.searchBytes # <<>>,
         NEW t \in ScanType(search, inner), NEW m \in MemoryType, NEW end \in Nat,
         Scanning(t, m, end, search), NEW at \in Nat
  PROVE  /\ SearchedAt(t, at) \in ScanType(search, inner)
         /\ Scanning(SearchedAt(t, at), m, end, search)
<1> DEFINE S == ScanType(search, inner)
           size == Len(search.searchBytes)
           u == Matched(t, at)
           r == SearchedAt(t, at)
<1>1. CASE t.how # "found" \/ at < t.next
  <2>1. r = t
    BY <1>1 DEF SearchedAt
  <2> QED
    BY <2>1
<1>2. CASE t.how = "found" /\ ~ (at < t.next)
  <2>1. r = Searched(u)
    BY <1>2 DEF SearchedAt
  <2>2. /\ u \in S /\ Others(u, t, {"memory", "match", "at"}) /\ u.at = at
        /\ u.memory.byte = t.memory.byte
        /\ u.match \in {"yes", "no", "end"} => u.memory = t.memory
        /\ u.match = "yes" => at + size <= u.end
        /\ search.specialSearches = <<>> => u.match \in {"yes", "no", "end"}
    BY MatchedKeeps
  <2>3. size \in Nat
    BY SearchFacts DEF Bytes
  <2>4. t.next \in Nat /\ t.found \in SUBSET Nat /\ u.match \in Matches /\ u.search = search
    BY <2>2, ScanFacts
  <2> HIDE DEF u, r, size, S
  <2>5. u.end = t.end /\ u.next = t.next /\ u.found = t.found /\ u.how = "found"
    BY <1>2, <2>2 DEF Others
  <2>6. Scanning(u, m, end, search) \/ u.match \notin {"yes", "no", "end"}
    BY <1>2, <2>2, <2>5 DEF Scanning
  <2>7. u.memory.byte = m.byte /\ t.end = end /\ t.next <= end
    BY <2>2 DEF Scanning
  <2>8. CASE u.match = "yes"
    <3> DEFINE a == [u EXCEPT !.found = u.found \cup {at}]
               b == [a EXCEPT !.next = at + size]
    <3>1. r = [u EXCEPT !.found = u.found \cup {u.at}, !.next = u.at + Len(u.search.searchBytes)]
      BY <2>1, <2>8 DEF Searched
    <3>2. r = [u EXCEPT !.found = u.found \cup {at}, !.next = at + size]
      BY <2>2, <2>4, <3>1 DEF size
    <3>3. r = b
      BY <3>2, Zenon
    <3>4. u.found \cup {at} \in SUBSET Nat /\ at + size \in Nat
      BY <2>3, <2>4, <2>5
    <3>5. a \in S /\ a.found = u.found \cup {at} /\ Others(a, u, {"found"})
      BY <2>2, <3>4, SetFound DEF S
    <3> HIDE DEF a
    <3>6. b \in S /\ b.next = at + size /\ Others(b, a, {"next"})
      BY <3>4, <3>5, SetNext DEF S
    <3> HIDE DEF b
    <3>7. b.found = t.found \cup {at} /\ b.memory = u.memory /\ b.how = "found" /\ b.end = end
      BY <2>5, <2>7, <3>5, <3>6 DEF Others
    <3>8. Spaced(t.found, size) /\ \A x \in t.found : x + size <= t.next
      BY DEF Scanning, size
    <3>9. Spaced(b.found, size) /\ \A x \in b.found : x + size <= b.next
      BY <1>2, <2>3, <2>4, <3>6, <3>7, <3>8, FoundMore
    <3>10. b.next <= end
      BY <2>2, <2>5, <2>7, <2>8, <3>6
    <3>11. b.memory = m
      BY <1>2, <2>2, <2>8, <3>7 DEF Scanning
    <3>12. Scanning(b, m, end, search)
      BY <3>7, <3>9, <3>10, <3>11 DEF Scanning, size
    <3> QED
      BY <3>3, <3>6, <3>12 DEF r, S
  <2>9. CASE u.match = "no"
    <3>1. r = u
      BY <2>1, <2>9 DEF Searched
    <3> QED
      BY <2>2, <2>6, <2>9, <3>1 DEF r, S
  <2>10. CASE u.match = "end"
    <3> DEFINE b == [u EXCEPT !.next = u.end]
    <3>1. r = b
      BY <2>1, <2>10 DEF Searched
    <3>2. u.end \in Nat
      BY <2>5, <2>7
    <3>3. b \in S /\ b.next = u.end /\ Others(b, u, {"next"})
      BY <2>2, <3>2, SetNext DEF S
    <3> HIDE DEF b
    <3>4. b.next = end /\ b.end = end /\ b.memory = u.memory /\ b.found = t.found /\ b.how = "found"
      BY <2>5, <2>7, <3>3 DEF Others
    <3>5. size \in Nat /\ t.found \in SUBSET Nat /\ \A x \in t.found : x + size <= t.next
      BY <2>3, <2>4 DEF Scanning, size
    <3>6. \A x \in b.found : x + size <= b.next
      BY <2>4, <2>7, <3>4, <3>5
    <3>7. b.memory = m /\ b.next <= end
      BY <1>2, <2>2, <2>7, <2>10, <3>4 DEF Scanning
    <3>8. Spaced(b.found, size)
      BY <3>4 DEF Scanning, size
    <3>9. Scanning(b, m, end, search)
      BY <3>4, <3>6, <3>7, <3>8 DEF Scanning, size
    <3> QED
      BY <3>1, <3>3, <3>9 DEF r, S
  <2>11. CASE u.match \notin {"yes", "no", "end"}
    <3> DEFINE b == [u EXCEPT !.how = u.match]
    <3>1. r = b
      BY <2>1, <2>11 DEF Searched
    <3>2. u.match \in Ends /\ u.match # "found"
      BY <2>4, <2>11 DEF Matches, Ends
    <3>3. b \in S /\ b.how = u.match /\ Others(b, u, {"how"})
      BY <2>2, <3>2, SetHow DEF S
    <3> HIDE DEF b
    <3>4. b.next = t.next /\ b.end = end /\ b.memory = u.memory /\ b.found = t.found
      BY <2>5, <2>7, <3>3 DEF Others
    <3>5. search.specialSearches # <<>>
      BY <2>2, <2>11
    <3>6. /\ Spaced(b.found, Len(search.searchBytes)) /\ b.how # "found"
          /\ \A x \in b.found : x + Len(search.searchBytes) <= b.next
      BY <3>2, <3>3, <3>4 DEF Scanning
    <3>7. b.end = end /\ b.next <= end /\ b.memory.byte = m.byte
      BY <2>7, <3>4
    <3>8. Scanning(b, m, end, search)
      BY <3>5, <3>6, <3>7 DEF Scanning
    <3> QED
      BY <3>1, <3>3, <3>8 DEF r, S
  <2> QED
    BY <2>8, <2>9, <2>10, <2>11
<1> QED
  BY <1>1, <1>2

LEMMA SegmentKeeps ==
  ASSUME NEW inner, Honest(inner), NEW search \in Searches, search.searchBytes # <<>>,
         NEW u \in ScanType(search, inner), NEW m \in MemoryType, NEW end \in Nat,
         Scanning(u, m, end, search), NEW start \in Nat, NEW size \in Nat
  PROVE  LET t == Folded(u, [i \in 1..size |-> start + i - 1], SearchedAt)
         IN  t \in ScanType(search, inner) /\ Scanning(t, m, end, search)
<1> DEFINE S == ScanType(search, inner)
           xs == [i \in 1..size |-> start + i - 1]
           Good == [i \in 0..size |-> {t \in S : Scanning(t, m, end, search)}]
<1>1. Len(xs) = size /\ \A i \in 1..size : xs[i] \in Nat
  OBVIOUS
<1> HIDE DEF xs
<1>2. u \in Good[0]
  OBVIOUS
<1>3. ASSUME NEW i \in 1..size, NEW t \in Good[i - 1] PROVE SearchedAt(t, xs[i]) \in Good[i]
  <2>1. i - 1 \in 0..size /\ i \in 0..size /\ xs[i] \in Nat
    BY <1>1
  <2>2. t \in S /\ Scanning(t, m, end, search)
    BY <1>3, <2>1
  <2>3. SearchedAt(t, xs[i]) \in S /\ Scanning(SearchedAt(t, xs[i]), m, end, search)
    BY <2>1, <2>2, AtKeeps
  <2> QED
    BY <2>1, <2>3
<1>4. AtLoop!Fold(u, xs) \in Good[Len(xs)]
  <2> HIDE DEF Good
  <2> QED
    BY <1>1, <1>2, <1>3, AtLoop!FoldKeeps
<1>5. Folded(u, xs, SearchedAt) = AtLoop!Fold(u, xs)
  BY DEF AtLoop!Fold, Folded, AtLoop!Folded
<1>6. Good[Len(xs)] = {t \in S : Scanning(t, m, end, search)}
  BY <1>1
<1> HIDE DEF Good
<1> DEFINE r == Folded(u, xs, SearchedAt)
<1>7. r \in S /\ Scanning(r, m, end, search)
  BY <1>4, <1>5, <1>6
<1> QED
  BY <1>7 DEF xs

-----------------------------------------------------------------------------
(* The segments                                                            *)

\* Pages made readable and changed back are as they were.
LEMMA ClosedAgain ==
  ASSUME NEW m \in MemoryType, NEW page, IsPart(m, page)
  PROVE  LET opened == Protected(m, [page EXCEPT !.isReadable = TRUE])
         IN  /\ opened \in MemoryType /\ opened.byte = m.byte
             /\ Protected(opened, page) = m
<1> DEFINE p1 == [page EXCEPT !.isReadable = TRUE]
           opened == Protected(m, p1)
           back == Protected(opened, page)
<1>1. page \in PageInfo
  BY PartFacts
<1>2. p1 \in PageInfo /\ p1.start = page.start /\ p1.size = page.size
  BY <1>1 DEF PageInfo
<1> HIDE DEF p1
<1>3. /\ opened \in MemoryType /\ opened.byte = m.byte
      /\ \A q \in MappedPages :
           opened.page[q] = IF Holds(page, q) THEN Given(m.page[q], p1) ELSE m.page[q]
  BY <1>2, ProtectedFacts
<1> HIDE DEF opened
<1>4. /\ back \in MemoryType /\ back.byte = opened.byte
      /\ \A q \in MappedPages :
           back.page[q] = IF Holds(page, q) THEN Given(opened.page[q], page) ELSE opened.page[q]
  BY <1>1, <1>3, ProtectedFacts
<1> HIDE DEF back
<1>5. ASSUME NEW q \in MappedPages PROVE back.page[q] = m.page[q]
  <2>1. CASE Holds(page, q)
    <3>1. opened.page[q] \in PageType /\ m.page[q] \in PageType
      BY <1>3, MemoryFacts
    <3>2. opened.page[q].pathfile = m.page[q].pathfile
      <4>1. opened.page[q] = Given(m.page[q], p1)
        BY <1>3, <2>1
      <4> QED
        BY <4>1 DEF Given
    <3>3. SameRights(m.page[q], page)
      <4>1. /\ \A r \in First(page)..Behind(page) - 1 : r \in MappedPages /\ SameRights(m.page[r], page)
            /\ \A r \in Int : Holds(page, r) <=> First(page) <= r /\ r < Behind(page)
            /\ First(page) \in Nat /\ Behind(page) \in Nat
        BY PartFacts
      <4>2. q \in Int
        BY MappedFacts
      <4> QED
        BY <2>1, <4>1, <4>2
    <3>4. Given(opened.page[q], page) = m.page[q]
      BY <3>1, <3>2, <3>3, GivenBack
    <3> QED
      BY <1>4, <2>1, <3>4
  <2>2. CASE ~Holds(page, q)
    BY <1>3, <1>4, <2>2
  <2> QED
    BY <2>1, <2>2
<1>6. /\ back = [byte |-> back.byte, page |-> back.page] /\ m = [byte |-> m.byte, page |-> m.page]
      /\ back.page \in [MappedPages -> PageType] /\ m.page \in [MappedPages -> PageType]
  BY <1>4, MemoryFacts
<1>7. back.page = m.page
  BY <1>5, <1>6
<1>8. back = m
  BY <1>3, <1>4, <1>6, <1>7
<1> QED
  BY <1>3, <1>8 DEF back, opened, p1

SegmentLoop == INSTANCE LoopProofs WITH Body <- SearchedSegment

\* What has been searched up to an address.
Passed(t, m, upTo, search) ==
  /\ t.memory.byte = m.byte
  /\ t.how = "found" => t.memory = m
  /\ search.specialSearches = <<>> => t.how = "found"
  /\ Spaced(t.found, Len(search.searchBytes))
  /\ \A a \in t.found : a + Len(search.searchBytes) <= upTo

LEMMA SegmentPassed ==
  ASSUME NEW inner, Honest(inner), NEW search \in Searches, search.searchBytes # <<>>,
         NEW t \in ScanType(search, inner), NEW m \in MemoryType, NEW page, IsPart(m, page),
         NEW before \in Nat, before <= page.start, Passed(t, m, before, search)
  PROVE  /\ SearchedSegment(t, page) \in ScanType(search, inner)
         /\ Passed(SearchedSegment(t, page), m, page.start + page.size, search)
<1> DEFINE S == ScanType(search, inner)
           r == SearchedSegment(t, page)
           end == page.start + page.size
           size == Len(search.searchBytes)
           p1 == [page EXCEPT !.isReadable = TRUE]
           opened == IF page.isReadable THEN t.memory ELSE Protected(t.memory, p1)
           a == [t EXCEPT !.memory = opened]
           b == [a EXCEPT !.next = page.start]
           c == [b EXCEPT !.end = end]
           xs == [i \in 1..page.size |-> page.start + i - 1]
           u == Folded(c, xs, SearchedAt)
<1>1. page \in PageInfo /\ page.start \in Nat /\ page.size \in Nat /\ end \in Nat
  <2>1. page \in PageInfo
    BY PartFacts
  <2> QED
    BY <2>1 DEF PageInfo
<1>2. size \in Nat /\ t.found \in SUBSET Nat /\ Spaced(t.found, size)
      /\ \A x \in t.found : x + size <= before
  BY SearchFacts, ScanFacts DEF Bytes, Passed
<1>3. r = IF t.how # "found" THEN t ELSE ChangedBack(u, page)
  <2> DEFINE start == [t EXCEPT !.memory = opened, !.next = page.start, !.end = page.start + page.size]
  <2>1. r = IF t.how # "found" THEN t ELSE ChangedBack(Folded(start, xs, SearchedAt), page)
    BY DEF SearchedSegment
  <2>2. start = c
    BY Zenon
  <2> HIDE DEF start, c, r, xs
  <2> QED
    BY <2>1, <2>2
<1> HIDE DEF u, xs, r, size
<1>4. CASE t.how # "found"
  <2>1. \A x \in t.found : x + size <= end
    BY <1>1, <1>2
  <2>2. Passed(t, m, end, search)
    BY <2>1 DEF Passed, size
  <2> QED
    BY <1>3, <1>4, <2>2 DEF r
<1>5. CASE t.how = "found"
  <2>1. t.memory = m /\ r = ChangedBack(u, page)
    BY <1>3, <1>5 DEF Passed
  <2>2. /\ opened \in MemoryType /\ opened.byte = m.byte
        /\ page.isReadable => opened = m
        /\ ~page.isReadable => Protected(opened, page) = m
    BY <2>1, ClosedAgain
  <2> HIDE DEF opened, p1, end
  <2>3. a \in S /\ a.memory = opened /\ Others(a, t, {"memory"})
    BY <2>2, SetMemory
  <2> HIDE DEF a
  <2>4. b \in S /\ b.next = page.start /\ Others(b, a, {"next"})
    BY <1>1, <2>3, SetNext
  <2> HIDE DEF b
  <2>5. c \in S /\ c.end = end /\ Others(c, b, {"end"})
    BY <1>1, <2>4, SetEnd
  <2> HIDE DEF c
  <2>6. c.memory = opened /\ c.next = page.start /\ c.found = t.found /\ c.how = "found"
    BY <1>5, <2>3, <2>4, <2>5 DEF Others
  <2>7. \A x \in c.found : x + size <= c.next
    BY <1>1, <1>2, <2>6
  <2>8. c.next <= end
    BY <1>1, <2>6 DEF end
  <2>9. Scanning(c, opened, end, search)
    BY <1>2, <2>5, <2>6, <2>7, <2>8 DEF Scanning, size
  <2>10. u \in S /\ Scanning(u, opened, end, search)
    BY <1>1, <2>2, <2>5, <2>9, SegmentKeeps DEF u, xs
  <2>11. /\ u.memory.byte = m.byte /\ u.how = "found" => u.memory = opened
    BY <2>2, <2>10 DEF Scanning
  <2>12. \A x \in u.found : x + size <= end
    <3>1. u.found \in SUBSET Nat /\ u.next \in Nat
      BY <2>10, ScanFacts
    <3>2. u.next <= end /\ \A x \in u.found : x + size <= u.next
      BY <2>10 DEF Scanning, size
    <3> QED
      BY <1>1, <1>2, <3>1, <3>2
  <2> HIDE DEF u, S
  <2>13. CASE u.how # "found" \/ page.isReadable
    <3>1. r = u
      BY <2>1, <2>13 DEF ChangedBack
    <3>2. u.how = "found" => u.memory = m
      BY <2>2, <2>10, <2>13 DEF Scanning
    <3>3. u.memory.byte = m.byte
      BY <2>2, <2>10 DEF Scanning
    <3>4. Passed(u, m, end, search)
      BY <2>10, <2>12, <3>2, <3>3 DEF Scanning, Passed, size
    <3> QED
      BY <2>10, <3>1, <3>4 DEF r, S, end
  <2>14. CASE u.how = "found" /\ ~page.isReadable
    <3> DEFINE v == [u EXCEPT !.memory = Protected(u.memory, page)]
    <3>1. r = v
      BY <2>1, <2>14 DEF ChangedBack
    <3>2. Protected(u.memory, page) = m
      BY <2>2, <2>10, <2>14 DEF Scanning
    <3>3. v = [u EXCEPT !.memory = m]
      BY <3>2
    <3> HIDE DEF v
    <3>4. v \in S /\ v.memory = m /\ Others(v, u, {"memory"})
      BY <2>10, <3>3, SetMemory DEF S
    <3>5. v.found = u.found /\ v.how = u.how
      BY <3>4 DEF Others
    <3>6. Passed(v, m, end, search)
      BY <2>10, <2>12, <3>4, <3>5 DEF Scanning, Passed, size
    <3> QED
      BY <3>1, <3>4, <3>6 DEF r, S, end
  <2> QED
    BY <2>13, <2>14
<1> QED
  BY <1>4, <1>5

-----------------------------------------------------------------------------
(* Requests                                                                *)

Answers == [Requests -> [how : Ends, memory : MemoryType, found : SUBSET Nat]]

LEMMA FindingHonest ==
  ASSUME NEW request \in Requests, NEW how \in {"throws", "died", "hangs"}
  PROVE  LET f == Finding(how, request.memory, {})
         IN  /\ Honestly(request, f)
             /\ f \in [how : Ends, memory : MemoryType, found : SUBSET Nat]
<1>1. request.memory \in MemoryType
  BY DEF Requests
<1> QED
  BY <1>1 DEF Honestly, Finding, Ends

LEMMA Queried ==
  ASSUME NEW m \in MemoryType, NEW start \in Nat, NEW size \in Nat,
         queryPage(m, start, size) # InvalidPage
  PROVE  LET pages == queryPage(m, start, size)
         IN  AreParts(m, pages) /\ OneByOne(pages)
<1>1. size # 0
  BY NothingQueried
<1>2. PICK s \in Nat, n \in Nat \ {0} : alignPage(start, size) = <<s * PageSize, n * PageSize>>
  BY <1>1, Aligned
<1> QED
  BY <1>2, QueryFacts

LEMMA ScanStarts ==
  ASSUME NEW inner, NEW m \in MemoryType, NEW search
  PROVE  Scan(inner, m, search) \in ScanType(search, inner)
         /\ Passed(Scan(inner, m, search), m, 0, search)
<1>1. Scan(inner, m, search) \in ScanType(search, inner)
  BY DEF Scan, ScanType, Ends, Matches
<1>2. Spaced({}, Len(search.searchBytes))
  BY FS_EmptySet DEF Spaced
<1> QED
  BY <1>1, <1>2 DEF Scan, Passed

LEMMA PagesSearched ==
  ASSUME NEW inner, Honest(inner), NEW search \in Searches, search.searchBytes # <<>>,
         NEW m \in MemoryType, NEW pages, AreParts(m, pages), OneByOne(pages)
  PROVE  LET t == Folded(Scan(inner, m, search), pages, SearchedSegment)
         IN  \E end \in Nat : t \in ScanType(search, inner) /\ Passed(t, m, end, search)
<1> DEFINE S == ScanType(search, inner)
           n == Len(pages)
           end == [k \in 0..n |-> IF k = 0 THEN 0 ELSE pages[k].start + pages[k].size]
           Good == [k \in 0..n |-> {t \in S : Passed(t, m, end[k], search)}]
           s == Scan(inner, m, search)
           r == Folded(s, pages, SearchedSegment)
<1>1. n \in Nat /\ pages \in Seq(PageInfo) /\ \A k \in 1..n : IsPart(m, pages[k])
  BY DEF AreParts
<1>2. /\ end[0] = 0
      /\ \A k \in 1..n : end[k] = pages[k].start + pages[k].size /\ end[k] \in Nat /\ k \in 0..n
  <2>1. ASSUME NEW k \in 1..n PROVE pages[k].start + pages[k].size \in Nat
    <3>1. pages[k] \in PageInfo
      BY <1>1, MemberOf
    <3> QED
      BY <3>1 DEF PageInfo
  <2> QED
    BY <1>1, <2>1
<1> HIDE DEF end
<1>3. \A k \in 0..n : end[k] \in Nat
  <2>1. \A k \in 0..n : k = 0 \/ k \in 1..n
    BY <1>1
  <2> QED
    BY <1>2, <2>1
<1>4. s \in Good[0]
  BY <1>1, <1>2, ScanStarts
<1>5. ASSUME NEW k \in 1..n, NEW t \in Good[k - 1] PROVE SearchedSegment(t, pages[k]) \in Good[k]
  <2> DEFINE page == pages[k]
             before == end[k - 1]
             u == SearchedSegment(t, page)
  <2>1. k - 1 \in 0..n /\ k \in 0..n
    BY <1>1
  <2>2. t \in S /\ Passed(t, m, before, search)
    BY <1>5, <2>1
  <2>3. IsPart(m, page) /\ page.start \in Nat /\ end[k] = page.start + page.size /\ before \in Nat
    <3>1. page \in PageInfo
      BY <1>1, MemberOf
    <3> QED
      BY <1>1, <1>2, <1>3, <2>1, <3>1 DEF PageInfo
  <2>4. before <= page.start
    <3>1. CASE k = 1
      BY <1>2, <2>3, <3>1
    <3>2. CASE k # 1
      <4>1. k - 1 \in 1..n /\ k - 1 < k
        BY <3>2
      <4> QED
        BY <1>2, <4>1 DEF OneByOne
    <3> QED
      BY <3>1, <3>2
  <2> HIDE DEF page, before, u
  <2>5. u \in S /\ Passed(u, m, end[k], search)
    BY <2>2, <2>3, <2>4, SegmentPassed DEF u
  <2> QED
    BY <2>1, <2>5 DEF u, page
<1>6. SegmentLoop!Fold(s, pages) \in Good[n]
  <2> HIDE DEF Good, s
  <2> QED
    BY <1>1, <1>4, <1>5, SegmentLoop!FoldKeeps
<1>7. r = SegmentLoop!Fold(s, pages)
  BY DEF SegmentLoop!Fold, Folded, SegmentLoop!Folded
<1> HIDE DEF r
<1>8. r \in S /\ Passed(r, m, end[n], search) /\ end[n] \in Nat
  BY <1>1, <1>3, <1>6, <1>7
<1> QED
  BY <1>8 DEF r

LEMMA EndingHonest ==
  ASSUME NEW request \in Requests, NEW inner, NEW t \in ScanType(request.search, inner),
         NEW end, Passed(t, request.memory, end, request.search)
  PROVE  /\ Honestly(request, Ending(t))
         /\ Ending(t) \in [how : Ends, memory : MemoryType, found : SUBSET Nat]
<1> DEFINE f == Ending(t)
<1>1. /\ t.how \in Ends /\ t.memory \in MemoryType /\ t.found \in SUBSET Nat
  BY ScanFacts
<1>2. f = [how |-> t.how, memory |-> t.memory, found |-> t.found]
  BY DEF Ending, Finding
<1> HIDE DEF f
<1>3. f.how = t.how /\ f.memory = t.memory /\ f.found = t.found
  BY <1>2
<1>4. Honestly(request, f)
  BY <1>1, <1>3 DEF Honestly, Passed, Ends
<1>5. f \in [how : Ends, memory : MemoryType, found : SUBSET Nat]
  BY <1>1, <1>2
<1> QED
  BY <1>4, <1>5 DEF f

LEMMA SearcherHonest ==
  ASSUME NEW inner, Honest(inner), NEW level
  PROVE  Searcher(inner, level) \in Answers /\ Honest(Searcher(inner, level))
<1> DEFINE F(request) ==
             LET m == request.memory
                 pages == queryPage(m, request.start, request.size)
             IN  CASE pages = InvalidPage -> Finding("throws", m, {})
                   [] pages # InvalidPage /\ request.search.searchBytes = <<>> -> Finding("hangs", m, {})
                   [] OTHER -> Ending(Folded(Scan(inner, m, request.search), pages, SearchedSegment))
           T == [how : Ends, memory : MemoryType, found : SUBSET Nat]
<1>1. Searcher(inner, level) = [request \in Requests |-> F(request)]
  BY DEF Searcher
<1>2. ASSUME NEW request \in Requests PROVE Honestly(request, F(request)) /\ F(request) \in T
  <2> DEFINE m == request.memory
             search == request.search
             pages == queryPage(m, request.start, request.size)
             t == Folded(Scan(inner, m, search), pages, SearchedSegment)
             f == F(request)
  <2>1. m \in MemoryType /\ search \in Searches /\ request.start \in Nat /\ request.size \in Nat
    BY DEF Requests
  <2>2. CASE pages = InvalidPage
    <3>1. f = Finding("throws", request.memory, {})
      BY <2>2
    <3> HIDE DEF f
    <3> QED
      BY <3>1, FindingHonest DEF f
  <2>3. CASE pages # InvalidPage /\ search.searchBytes = <<>>
    <3>1. f = Finding("hangs", request.memory, {})
      BY <2>3
    <3> HIDE DEF f
    <3> QED
      BY <3>1, FindingHonest DEF f
  <2>4. CASE pages # InvalidPage /\ search.searchBytes # <<>>
    <3>1. f = Ending(t)
      BY <2>4
    <3>2. AreParts(m, pages) /\ OneByOne(pages)
      BY <2>1, <2>4, Queried
    <3>3. \E end \in Nat : t \in ScanType(search, inner) /\ Passed(t, m, end, search)
      BY <2>1, <2>4, <3>2, PagesSearched
    <3> HIDE DEF t, f
    <3>4. Honestly(request, Ending(t)) /\ Ending(t) \in T
      BY <3>3, EndingHonest
    <3> QED
      BY <3>1, <3>4 DEF f
  <2> HIDE DEF pages, search
  <2> QED
    BY <2>2, <2>3, <2>4
<1> HIDE DEF F
<1> QED
  BY <1>1, <1>2 DEF Answers, Honest

LevelLoop == INSTANCE LoopProofs WITH Body <- Searcher

\* What a search keeps.
SearchKeeps(m, size, f) ==
  /\ f.how \in Ends /\ f.memory \in MemoryType /\ f.memory.byte = m.byte
  /\ f.how = "found" => f.memory = m /\ Spaced(f.found, size)

LEMMA RequestSearched ==
  ASSUME NEW m \in MemoryType, NEW search \in Searches, NEW start \in Nat, NEW size \in Nat
  PROVE  SearchKeeps(m, Len(search.searchBytes), doSearch_(m, search, start, size))
<1> DEFINE xs == Counter(2 * Depth)
           n == 2 * Depth
           Good == [i \in 0..n |-> {f \in Answers : Honest(f)}]
           request == Request(m, search, start, size)
           all == Folded(UsedUp, xs, Searcher)
<1>1. n \in Nat /\ Len(xs) = n
  BY DataAssumption, CounterFacts
<1> HIDE DEF xs, n
<1>2. UsedUp \in Good[0]
  <2>1. UsedUp = [request2 \in Requests |-> Finding("hangs", request2.memory, {})]
    BY DEF UsedUp
  <2>2. UsedUp \in Answers /\ Honest(UsedUp)
    BY <2>1, FindingHonest DEF Answers, Honest
  <2> QED
    BY <1>1, <2>2
<1>3. ASSUME NEW i \in 1..n, NEW f \in Good[i - 1] PROVE Searcher(f, xs[i]) \in Good[i]
  <2>1. i - 1 \in 0..n /\ i \in 0..n
    BY <1>1
  <2>2. Honest(f)
    BY <1>3, <2>1
  <2>3. Searcher(f, xs[i]) \in Answers /\ Honest(Searcher(f, xs[i]))
    BY <2>2, SearcherHonest
  <2> QED
    BY <2>1, <2>3
<1>4. LevelLoop!Fold(UsedUp, xs) \in Good[n]
  <2> HIDE DEF Good
  <2> QED
    BY <1>1, <1>2, <1>3, LevelLoop!FoldKeeps
<1>5. all = LevelLoop!Fold(UsedUp, xs)
  BY DEF LevelLoop!Fold, Folded, LevelLoop!Folded
<1> HIDE DEF all
<1>6. Honest(all)
  BY <1>1, <1>4, <1>5
<1>7. doSearch_(m, search, start, size) = all[request]
  BY DEF doSearch_, all, xs, n
<1>8. request \in Requests /\ request.memory = m /\ request.search = search
  BY RequestFacts
<1> HIDE DEF request
<1> DEFINE f == all[request]
<1>9. Honestly(request, f)
  BY <1>6, <1>8 DEF Honest
<1> HIDE DEF f
<1>10. SearchKeeps(m, Len(search.searchBytes), f)
  BY <1>8, <1>9 DEF Honestly, SearchKeeps, Ends
<1> QED
  BY <1>7, <1>10 DEF f

LEMMA NotSearched ==
  ASSUME NEW m \in MemoryType, NEW size, NEW how \in {"throws", "died"}
  PROVE  SearchKeeps(m, size, Finding(how, m, {}))
BY DEF SearchKeeps, Finding, Ends

LEMMA WholeRange ==
  ASSUME NEW m, NEW parts, AreParts(m, parts), OneByOne(parts), parts # <<>>
  PROVE  parts[1].start \in Nat /\ Last(parts).start + Last(parts).size - parts[1].start \in Nat
<1> DEFINE n == Len(parts)
<1>1. n \in Nat /\ n # 0 /\ parts \in Seq(PageInfo) /\ 1 \in 1..n /\ n \in 1..n
  BY DEF AreParts
<1>2. parts[1] \in PageInfo /\ parts[n] \in PageInfo
  BY <1>1, MemberOf
<1>3. /\ parts[1].start \in Nat /\ parts[1].size \in Nat
      /\ parts[n].start \in Nat /\ parts[n].size \in Nat
  BY <1>2 DEF PageInfo
<1>4. n = 1 \/ parts[1].start + parts[1].size <= parts[n].start
  <2>1. n = 1 \/ 1 < n
    <3> HIDE DEF n
    <3> QED
      BY <1>1
  <2> QED
    BY <1>1, <2>1 DEF OneByOne
<1>5. Last(parts) = parts[n]
  BY DEF Last
<1> HIDE DEF n
<1>6. parts[n].start + parts[n].size - parts[1].start \in Nat
  BY <1>3, <1>4
<1> QED
  BY <1>3, <1>5, <1>6

\* Search::doSearch and NameSearch::doSearch keep it.
LEMMA SearchSearched ==
  ASSUME NEW m \in MemoryType, NEW search \in Searches
  PROVE  SearchKeeps(m, Len(search.searchBytes), doSearch(m, search))
<1> DEFINE size == Len(search.searchBytes)
           module == open(m, search.moduleName)
           parts == segments(m, module)
           f == doSearch(m, search)
<1>1. AreParts(m, parts) /\ OneByOne(parts)
  <2> DEFINE T == {p \in Starts(m) : isPathfileMatch_(m, m.page[p].pathfile, module.path \o module.file)}
  <2>1. T \in SUBSET Starts(m)
    OBVIOUS
  <2>2. parts = SegmentsAt(m, T)
    BY DEF segments
  <2> HIDE DEF T, parts
  <2> QED
    BY <2>1, <2>2, EnumeratedFacts
<1>2. f = CASE ~checkSearchValid(search, size) \/ module = Throws -> Finding("throws", m, {})
        [] checkSearchValid(search, size) /\ module # Throws /\ parts = <<>> -> Finding("died", m, {})
        [] OTHER ->
             doSearch_(m, search, parts[1].start, Last(parts).start + Last(parts).size - parts[1].start)
  BY DEF doSearch
<1> HIDE DEF module, parts, f
<1>3. CASE ~checkSearchValid(search, size) \/ module = Throws
  <2>1. f = Finding("throws", m, {})
    BY <1>2, <1>3
  <2> QED
    BY <2>1, NotSearched DEF f
<1>4. CASE checkSearchValid(search, size) /\ module # Throws /\ parts = <<>>
  <2>1. f = Finding("died", m, {})
    BY <1>2, <1>4
  <2> QED
    BY <2>1, NotSearched DEF f
<1>5. CASE checkSearchValid(search, size) /\ module # Throws /\ parts # <<>>
  <2>1. f = doSearch_(m, search, parts[1].start, Last(parts).start + Last(parts).size - parts[1].start)
    BY <1>2, <1>5
  <2>2. parts[1].start \in Nat /\ Last(parts).start + Last(parts).size - parts[1].start \in Nat
    BY <1>1, <1>5, WholeRange
  <2> QED
    BY <2>1, <2>2, RequestSearched DEF f
<1> QED
  BY <1>3, <1>4, <1>5 DEF f

LEMMA NameSearched ==
  ASSUME NEW m \in MemoryType, NEW search, search.search \in Searches, search.functionRva \in Nat
  PROVE  SearchKeeps(m, Len(search.search.searchBytes), doNameSearch(m, search))
<1> DEFINE s == search.search
           size == Len(s.searchBytes)
           symbol == Symbol(m, s.moduleName, search.functionName)
           f == doNameSearch(m, search)
<1>1. f = IF ~checkNameSearchValid(search, size) \/ symbol = Throws THEN Finding("throws", m, {})
          ELSE doSearch_(m, s, symbol + search.functionRva, size)
  BY DEF doNameSearch
<1>2. s \in Searches /\ size \in Nat
  BY SearchFacts DEF Bytes
<1>3. ASSUME symbol # Throws PROVE symbol + search.functionRva \in Nat
  BY <1>3, SymbolFacts
<1> HIDE DEF f, symbol, s
<1>4. CASE ~checkNameSearchValid(search, size) \/ symbol = Throws
  <2>1. f = Finding("throws", m, {})
    BY <1>1, <1>4
  <2> QED
    BY <2>1, NotSearched DEF f, s
<1>5. CASE ~ (~checkNameSearchValid(search, size) \/ symbol = Throws)
  <2>1. f = doSearch_(m, s, symbol + search.functionRva, size)
    BY <1>1, <1>5
  <2>2. SearchKeeps(m, size, f)
    BY <1>2, <1>3, <1>5, <2>1, RequestSearched
  <2> QED
    BY <2>2 DEF f, s
<1> QED
  BY <1>4, <1>5

-----------------------------------------------------------------------------
(* What the core patches                                                   *)

\* What is sent of a search is one, with the same bytes.
SentSame(X, snt) ==
  \A s \in X : snt[s] \in X /\ snt[s].searchBytes = s.searchBytes

LEMMA SpecialSent ==
  ASSUME NEW X, NEW snt, SentSame(X, snt), NEW special \in SpecialSearchesOf(X)
  PROVE  SpecialAsSent(snt, special) \in SpecialSearchesOf(X)
<1>1. CASE special.type = "NAMED_RELATIVE_FUNCTION_CALL"
  <2>1. /\ special \in [searchBytesRva : Nat, type : NamedTypes,
                        data : [moduleName : Text, functionName : Text]]
    BY <1>1 DEF SpecialSearchesOf, SearchTypes, NamedTypes
  <2>2. <<>> \in Text
    BY DEF Text
  <2>3. SpecialAsSent(snt, special) = [special EXCEPT !.data.moduleName = <<>>]
    BY <1>1 DEF SpecialAsSent, SearchTypes
  <2> DEFINE data == [special.data EXCEPT !.moduleName = <<>>]
  <2>4. data \in [moduleName : Text, functionName : Text]
    BY <2>1, <2>2
  <2>5. SpecialAsSent(snt, special) = [special EXCEPT !.data = data]
    BY <2>1, <2>3
  <2> HIDE DEF data
  <2>6. [special EXCEPT !.data = data] \in [searchBytesRva : Nat, type : NamedTypes,
                        data : [moduleName : Text, functionName : Text]]
    BY <2>1, <2>4
  <2> QED
    BY <2>5, <2>6 DEF SpecialSearchesOf
<1>2. CASE special.type \in SearchTypes
  <2>1. special \in [searchBytesRva : Nat, type : SearchTypes, data : X]
    BY <1>2 DEF SpecialSearchesOf, SearchTypes, NamedTypes
  <2>2. SpecialAsSent(snt, special) = [special EXCEPT !.data = snt[special.data]]
    BY <1>2 DEF SpecialAsSent, SearchTypes
  <2>3. snt[special.data] \in X
    BY <2>1 DEF SentSame
  <2>4. SpecialAsSent(snt, special) \in [searchBytesRva : Nat, type : SearchTypes, data : X]
    BY <2>1, <2>2, <2>3
  <2> QED
    BY <2>4 DEF SpecialSearchesOf
<1>3. CASE special.type # "NAMED_RELATIVE_FUNCTION_CALL" /\ special.type \notin SearchTypes
  BY <1>3 DEF SpecialAsSent
<1> QED
  BY <1>1, <1>2, <1>3

LEMMA NextSent ==
  ASSUME NEW X, NEW snt, SentSame(X, snt), NEW d, SearchesTo(d) = SearchesOf(X, d)
  PROVE  SentSame(SearchesTo(d), SearchesAsSent(snt, d))
<1> SUFFICES ASSUME NEW s \in SearchesTo(d)
             PROVE  /\ SearchesAsSent(snt, d)[s] \in SearchesTo(d)
                    /\ SearchesAsSent(snt, d)[s].searchBytes = s.searchBytes
  BY DEF SentSame
<1> DEFINE xs == s.specialSearches
           new == [i \in DOMAIN xs |-> SpecialAsSent(snt, xs[i])]
           r == SearchesAsSent(snt, d)[s]
<1>1. s \in SearchesOf(X, d) /\ xs \in Seq(SpecialSearchesOf(X))
  BY DEF SearchesOf
<1>2. r = [s EXCEPT !.specialSearches = new]
  BY DEF SearchesAsSent
<1>3. new \in Seq(SpecialSearchesOf(X))
  <2>1. DOMAIN xs = 1..Len(xs) /\ Len(xs) \in Nat /\ \A i \in 1..Len(xs) : xs[i] \in SpecialSearchesOf(X)
    BY <1>1
  <2>2. \A i \in 1..Len(xs) : SpecialAsSent(snt, xs[i]) \in SpecialSearchesOf(X)
    BY <2>1, SpecialSent
  <2>3. new \in [1..Len(xs) -> SpecialSearchesOf(X)]
    BY <2>1, <2>2
  <2> QED
    BY <2>1, <2>3
<1> HIDE DEF new, r
<1>4. r \in SearchesOf(X, d) /\ r.searchBytes = s.searchBytes
  BY <1>1, <1>2, <1>3 DEF SearchesOf
<1> QED
  BY <1>4 DEF r

LEMMA SearchSent ==
  ASSUME NEW s \in Searches
  PROVE  AsSent(s) \in Searches /\ AsSent(s).searchBytes = s.searchBytes
<1> DEFINE K == {d \in 0..Depth : SentSame(SearchesTo(d), AsSents(d))}
<1>1. Depth \in Nat
  BY DataAssumption
<1>2. 0 \in K
  BY <1>1, SearchesDepths DEF SentSame
<1>3. ASSUME NEW d \in 0..(Depth - 1), d \in K PROVE d + 1 \in K
  <2>1. d \in Nat /\ d + 1 \in 0..Depth
    BY <1>1
  <2>2. SearchesTo(d + 1) = SearchesOf(SearchesTo(d), d + 1)
    BY <2>1, SearchesDepths
  <2>3. SentSame(SearchesTo(d + 1), SearchesAsSent(AsSents(d), d + 1))
    BY <1>3, <2>2, NextSent
  <2>4. SentSame(SearchesTo(d + 1), AsSents(d + 1))
    BY <2>1, <2>3, NextDepth
  <2> QED
    BY <2>1, <2>4
<1> HIDE DEF K
<1>4. 0..Depth \subseteq K
  BY <1>1, <1>2, <1>3, SearchesLoop!UpTo
<1>5. Depth \in K
  BY <1>1, <1>4
<1> QED
  BY <1>5 DEF K, SentSame, Searches, AsSent, AsSents

\* A patch that can be looked for and replaced.
Replaces(patch) ==
  /\ patch.type \in {"REPLACE_NAME", "REPLACE_SEARCH"}
  /\ patch.data.search \in Searches /\ patch.data.replaceBytes \in Seq(Byte)
  /\ Len(patch.data.replaceBytes) = Len(patch.data.search.searchBytes)
  /\ patch.type = "REPLACE_NAME" => patch.data.functionRva \in Nat

LEMMA HookReplaces ==
  ASSUME NEW hook \in HookType, hook.type # "BLANK", NEW object,
         object = [hook EXCEPT !.data.search = AsSent(@)]
  PROVE  Replaces(PatchOfHook(object)) /\ object.hookRva + 1 \in Int
<1> DEFINE search == object.data.search
           size == Len(search.searchBytes)
           bytes == [i \in 1..size |-> IF i = object.hookRva + 1 THEN CallOpCode ELSE Base - 1]
           ignored == 0..size - 1 \ {object.hookRva}
<1>1. hook.type \in {"NAME", "SEARCH"}
  BY HookFacts
<1>2. hook.data.search \in Searches /\ (hook.type = "NAME" => hook.data.functionRva \in Nat)
  BY <1>1, HookFacts DEF NameSearches
<1>3. /\ object.type = hook.type /\ object.hookRva = hook.hookRva /\ hook.hookRva \in Nat
      /\ object.data = [hook.data EXCEPT !.search = AsSent(@)]
  BY DEF HookType
<1>4. /\ search = AsSent(hook.data.search)
      /\ hook.type = "NAME" => object.data.functionRva = hook.data.functionRva
  BY <1>1, <1>3, HookFacts DEF NameSearches
<1>5. search \in Searches
  BY <1>2, <1>4, SearchSent
<1>6. size \in Nat
  BY <1>5, SearchFacts DEF Bytes
<1>7. bytes \in Seq(Byte) /\ Len(bytes) = size
  <2>1. CallOpCode \in Byte /\ Base - 1 \in Byte
    BY SearchAssumption, BaseFacts DEF Byte
  <2>2. bytes \in [1..size -> Byte]
    BY <2>1
  <2> QED
    BY <1>6, <2>2
<1> DEFINE p == PatchOfHook(object)
<1>8. p = IF object.type = "NAME"
          THEN setType(NewPatch, "REPLACE_NAME", ReplaceName(object.data, bytes, ignored))
          ELSE setType(NewPatch, "REPLACE_SEARCH", ReplaceSearch(object.data.search, bytes, ignored))
  BY DEF PatchOfHook
<1> HIDE DEF search, size, bytes, ignored, p
<1>9. CASE hook.type = "NAME"
  <2>1. p = setType(NewPatch, "REPLACE_NAME", ReplaceName(object.data, bytes, ignored))
    BY <1>3, <1>8, <1>9
  <2>2. /\ p.type = "REPLACE_NAME" /\ p.data.search = search /\ p.data.replaceBytes = bytes
        /\ p.data.functionRva = object.data.functionRva
    BY <2>1 DEF setType, NewPatch, ReplaceName, search
  <2>3. Replaces(p)
    BY <1>2, <1>4, <1>5, <1>7, <1>9, <2>2 DEF Replaces, size
  <2> QED
    BY <1>3, <2>3 DEF p
<1>10. CASE hook.type = "SEARCH"
  <2>1. p = setType(NewPatch, "REPLACE_SEARCH", ReplaceSearch(object.data.search, bytes, ignored))
    BY <1>3, <1>8, <1>10
  <2>2. p.type = "REPLACE_SEARCH" /\ p.data.search = search /\ p.data.replaceBytes = bytes
    BY <2>1 DEF setType, NewPatch, ReplaceSearch, search
  <2>3. Replaces(p)
    BY <1>5, <1>7, <2>2 DEF Replaces, size
  <2> QED
    BY <1>3, <2>3 DEF p
<1> QED
  BY <1>1, <1>9, <1>10

LEMMA PatchReplaces ==
  ASSUME NEW patch \in PatchType, checkPatchValid(patch), patch.type # "HOOK"
  PROVE  Replaces(PatchAsSent(patch)) /\ PatchAsSent(patch).type = patch.type
<1> DEFINE p == PatchAsSent(patch)
           search == AsSent(patch.data.search)
           data == [patch.data EXCEPT !.search = search]
<1>1. patch.type \in {"REPLACE_NAME", "REPLACE_SEARCH"}
  BY PatchFacts DEF checkPatchValid
<1>2. /\ patch.data.search \in Searches /\ patch.data.replaceBytes \in Seq(Byte)
      /\ patch.type = "REPLACE_NAME" => patch.data.functionRva \in Nat
  BY <1>1, PatchFacts DEF Bytes
<1>3. Len(patch.data.replaceBytes) = Len(patch.data.search.searchBytes)
  BY <1>1 DEF checkPatchValid
<1>4. search \in Searches /\ search.searchBytes = patch.data.search.searchBytes
  BY <1>2, SearchSent
<1>5. p = [patch EXCEPT !.data.search = AsSent(@)]
  BY <1>1 DEF PatchAsSent
<1>6. p.type = patch.type /\ p.data = data
  BY <1>1, <1>5 DEF PatchType
<1> HIDE DEF search, p
<1>7. /\ data.search = search /\ data.replaceBytes = patch.data.replaceBytes
      /\ patch.type = "REPLACE_NAME" => data.functionRva = patch.data.functionRva
  BY <1>1, PatchFacts
<1> HIDE DEF data
<1>8. Replaces(p)
  BY <1>1, <1>2, <1>3, <1>4, <1>6, <1>7 DEF Replaces
<1> QED
  BY <1>6, <1>8 DEF p

\* The patches of a pack are valid: they were checked when it was added.
PatchesValid(pack) == \A i \in 1..Len(pack.patches) : checkPatchValid(pack.patches[i])
PacksValid ==
  /\ \A p \in 1..Len(packs) : PatchesValid(packs[p])
  /\ sent.kind = "pack" => PatchesValid(sent.object)

LEMMA QueuedReplaces ==
  ASSUME SentInv, PacksValid, NEW queued \in Queued
  PROVE  Replaces(queued.patch) /\ queued.relative \in Int
<1>1. ReceivedAsSent
  BY SentMeansReceived
<1>2. CASE received = NotYet
  BY <1>2 DEF NotYet, Queued
<1>3. CASE received # NotYet
  <2>1. PICK swapped \in BOOLEAN : received = Read(swapped)
    BY <1>3 DEF SentInv, ReceivedIsRead
  <2>2. received.kind = sent.kind /\ sent # NoPacket
    BY <1>3, <2>1 DEF Read, SentInv, ReceivedIsRead
  <2>3. ASSUME NEW hook \in HookType, hook.type # "BLANK", sent = HookPacket(hook)
        PROVE  Replaces(queued.patch) /\ queued.relative \in Int
    <3>1. sent.kind = "hook" /\ sent.object = hook
      BY <2>3 DEF HookPacket
    <3>2. received.object = [hook EXCEPT !.data.search = AsSent(@)] /\ received.kind = "hook"
      BY <1>1, <2>2, <3>1 DEF ReceivedAsSent
    <3> DEFINE object == received.object
    <3>3. queued = [patch |-> PatchOfHook(object), relative |-> object.hookRva + 1]
      BY <3>2 DEF Queued
    <3>4. object = [hook EXCEPT !.data.search = AsSent(@)]
      BY <3>2
    <3> HIDE DEF object
    <3>5. Replaces(PatchOfHook(object)) /\ object.hookRva + 1 \in Int
      BY <2>3, <3>4, HookReplaces
    <3> QED
      BY <3>3, <3>5
  <2>4. ASSUME NEW pack \in PatchPackType, sent = PackPacket(pack)
        PROVE  Replaces(queued.patch) /\ queued.relative \in Int
    <3> DEFINE patches == [i \in DOMAIN pack.patches |-> PatchAsSent(pack.patches[i])]
               asSent == [pack EXCEPT !.patches = patches]
    <3>1. sent.kind = "pack" /\ sent.object = pack /\ received.kind = "pack"
      BY <2>2, <2>4 DEF PackPacket
    <3>2. \/ received.object = asSent
          \/ [received.object EXCEPT !.sharedVariables = asSent.sharedVariables] = asSent
      BY <1>1, <3>1 DEF ReceivedAsSent
    <3>3. asSent.patches = patches /\ "patches" \in DOMAIN asSent
      BY DEF PatchPackType
    <3> HIDE DEF asSent, patches
    <3>4. received.object.patches = patches
      BY <3>2, <3>3
    <3>5. PICK i \in DOMAIN patches :
            queued = [patch |-> patches[i], relative |-> -1] /\ patches[i].type # "HOOK"
      BY <3>1, <3>4 DEF Queued
    <3>6. pack.patches \in Seq(PatchType) /\ i \in 1..Len(pack.patches)
      BY <3>5 DEF patches, PatchPackType
    <3>7. pack.patches[i] \in PatchType /\ checkPatchValid(pack.patches[i])
      BY <3>1, <3>6 DEF PacksValid, PatchesValid
    <3>8. patches[i] = PatchAsSent(pack.patches[i])
      BY <3>5 DEF patches
    <3>9. pack.patches[i].type # "HOOK"
      BY <3>5, <3>8 DEF PatchAsSent
    <3>10. Replaces(patches[i])
      BY <3>7, <3>8, <3>9, PatchReplaces
    <3> QED
      BY <3>5, <3>10
  <2> QED
    BY <2>2, <2>3, <2>4 DEF SentInv, Sendable
<1> QED
  BY <1>2, <1>3

-----------------------------------------------------------------------------
(* The bytes of a patch                                                    *)

LEMMA CallFacts ==
  ASSUME NEW address \in Nat, NEW relative \in Int
  PROVE  LET call == PointerBytes((Wrapper - (address + relative + PtrBytes)) % AddressSpace)
         IN  call \in Seq(Byte) /\ Len(call) = PtrBytes
<1>1. Wrapper \in Int /\ PtrBytes \in Int
  BY SearchingAssumption, BaseFacts
<1>2. AddressSpace \in Nat \ {0}
  BY BaseFacts, PowerFacts DEF AddressSpace
<1> DEFINE x == Wrapper - (address + relative + PtrBytes)
<1>3. x \in Int
  BY <1>1
<1> HIDE DEF x
<1>4. x % AddressSpace \in Int
  BY <1>2, <1>3
<1> QED
  BY <1>4, PointerBytesFacts DEF x

LEMMA NewBytesFacts ==
  ASSUME NEW m \in MemoryType, NEW address \in Nat, NEW patch, Replaces(patch), NEW relative \in Int,
         \A a \in address..address + Len(patch.data.replaceBytes) - 1 : m.byte[a] \in Byte
  PROVE  /\ NewBytes(m, address, patch, relative) \in Seq(Byte)
         /\ Len(NewBytes(m, address, patch, relative)) = Len(patch.data.replaceBytes)
<1> DEFINE bytes == patch.data.replaceBytes
           n == Len(bytes)
           call == PointerBytes((Wrapper - (address + relative + PtrBytes)) % AddressSpace)
           New(rva) == IF relative >= 0 /\ rva \in relative..relative + PtrBytes - 1
                   THEN call[rva - relative + 1]
                   ELSE IF rva \in patch.data.ignoredReplaceBytesRvas THEN m.byte[address + rva]
                   ELSE bytes[rva + 1]
<1>1. bytes \in Seq(Byte) /\ n \in Nat
  BY DEF Replaces
<1>2. call \in Seq(Byte) /\ Len(call) = PtrBytes
  BY CallFacts
<1>3. \A a \in address..address + n - 1 : m.byte[a] \in Byte
  OBVIOUS
<1>4. NewBytes(m, address, patch, relative) = [i \in 1..n |-> New(i - 1)]
  <2>1. DOMAIN bytes = 1..n
    BY <1>1
  <2> QED
    BY <2>1 DEF NewBytes
<1>5. PtrBytes \in Int
  BY BaseFacts
<1> HIDE DEF bytes, n, call
<1>6. ASSUME NEW i \in 1..n PROVE New(i - 1) \in Byte
  <2>1. i - 1 \in Int /\ address + (i - 1) \in address..address + n - 1 /\ (i - 1) + 1 = i
    BY <1>1
  <2>2. bytes[i] \in Byte
    BY <1>1, MemberOf DEF n
  <2>3. ASSUME i - 1 \in relative..relative + PtrBytes - 1 PROVE call[(i - 1) - relative + 1] \in Byte
    <3>1. (i - 1) - relative + 1 \in 1..Len(call)
      BY <1>2, <1>5, <2>3
    <3> QED
      BY <1>2, <3>1, MemberOf
  <2> QED
    BY <1>3, <2>1, <2>2, <2>3
<1> HIDE DEF New
<1>7. [i \in 1..n |-> New(i - 1)] \in [1..n -> Byte]
  BY <1>6
<1> QED
  BY <1>1, <1>4, <1>7 DEF n, bytes

-----------------------------------------------------------------------------
(* One result replaced                                                     *)

\* What is kept of one: its bytes in the memory m, where they may be put back.
Kept(m, size, result, address) ==
  /\ result = [address |-> address, original |-> result.original]
  /\ result.original \in Seq(Byte) /\ Len(result.original) = size
  /\ size # 0 /\ Ranged(address, size)
  /\ \A i \in 1..size : result.original[i] = m.byte[address + i - 1]

Crosses(address, size) == PageOf(address) # PageOf(address + size - 1)
InRange(a, address, size) == a \in address..address + size - 1

ReplacingType(patch, relative) ==
  [patch : {patch}, relative : {relative}, memory : MemoryType,
   results : Seq([address : Nat, original : Seq(Byte)]), how : {"patched", "throws", "died"}]

LEMMA ReplacingFacts ==
  ASSUME NEW patch, NEW relative, NEW t \in ReplacingType(patch, relative)
  PROVE  /\ t.patch = patch /\ t.relative = relative /\ t.memory \in MemoryType
         /\ t.results \in Seq([address : Nat, original : Seq(Byte)])
         /\ t.how \in {"patched", "throws", "died"}
BY DEF ReplacingType

\* The state behind one, by what is queried, opened and written.
ReplacedWith(t, address, size, pages, open1, restored) ==
  IF t.how # "patched" THEN t
  ELSE IF pages = InvalidPage THEN [t EXCEPT !.how = "throws"]
  ELSE IF ~Writable(open1, address, size) THEN [t EXCEPT !.how = "died", !.memory = open1]
  ELSE [t EXCEPT !.memory = restored,
                 !.results = Append(@, [address |-> address, original |-> BytesAt(open1, address, size)])]

LEMMA ReplacedIs ==
  ASSUME NEW patch, NEW relative, NEW t \in ReplacingType(patch, relative), NEW address
  PROVE  LET size == Len(patch.data.replaceBytes)
             pages == queryPage(t.memory, address, size)
             open1 == Folded(t.memory, pages, Opened)
             written == Written(open1, address, NewBytes(t.memory, address, patch, relative))
         IN  Replaced(t, address) = ReplacedWith(t, address, size, pages, open1, Restored(written, pages))
<1> DEFINE size == Len(patch.data.replaceBytes)
           pages == queryPage(t.memory, address, size)
           open1 == Folded(t.memory, pages, Opened)
           written == Written(open1, address, NewBytes(t.memory, address, patch, relative))
           result == [address |-> address, original |-> BytesAt(open1, address, size)]
<1>1. t.patch = patch /\ t.relative = relative
  BY ReplacingFacts
<1>2. Replaced(t, address) =
       CASE t.how # "patched" -> t
        [] t.how = "patched" /\ pages = InvalidPage -> [t EXCEPT !.how = "throws"]
        [] OTHER ->
             IF ~Writable(open1, address, size) THEN [t EXCEPT !.how = "died", !.memory = open1]
             ELSE [t EXCEPT !.memory = Restored(written, pages), !.results = Append(@, result)]
  BY <1>1, Zenon DEF Replaced
<1> HIDE DEF size, pages, open1, written
<1>3. Replaced(t, address) = ReplacedWith(t, address, size, pages, open1, Restored(written, pages))
  BY <1>2 DEF ReplacedWith
<1> QED
  BY <1>3 DEF size, pages, open1, written

\* What replacing one comes to.
ReplacedSo(t, u, address, size) ==
  /\ t.how # "patched" => u = t
  /\ u.how = "died" /\ t.how = "patched" => Crosses(address, size)
  /\ u.how = "patched" =>
       /\ t.how = "patched" /\ u.memory.page = t.memory.page
       /\ \E result : u.results = Append(t.results, result) /\ Kept(t.memory, size, result, address)
       /\ \A a \in address..address + size - 1 : a \in Addresses
       /\ \A a \in Addresses : u.memory.byte[a] = t.memory.byte[a] \/ InRange(a, address, size)

LEMMA ReplacedOne ==
  ASSUME NEW patch, Replaces(patch), NEW relative \in Int,
         NEW t \in ReplacingType(patch, relative), NEW address \in Nat
  PROVE  /\ Replaced(t, address) \in ReplacingType(patch, relative)
         /\ ReplacedSo(t, Replaced(t, address), address, Len(patch.data.replaceBytes))
<1> DEFINE size == Len(patch.data.replaceBytes)
           m == t.memory
           pages == queryPage(m, address, size)
           open1 == Folded(m, pages, Opened)
           bytes == NewBytes(m, address, patch, relative)
           written == Written(open1, address, bytes)
           restored == Restored(written, pages)
           result == [address |-> address, original |-> BytesAt(open1, address, size)]
           u == Replaced(t, address)
<1>1. size \in Nat
  BY DEF Replaces
<1>2. /\ t.patch = patch /\ t.relative = relative /\ m \in MemoryType
      /\ t.results \in Seq([address : Nat, original : Seq(Byte)])
      /\ t.how \in {"patched", "throws", "died"}
  BY ReplacingFacts
<1>3. u = ReplacedWith(t, address, size, pages, open1, restored)
  BY ReplacedIs
<1>4. ASSUME size = 0 PROVE pages = InvalidPage
  BY <1>4, NothingQueried
<1>5. ASSUME size # 0
      PROVE  \E s \in Nat, n \in Nat \ {0} :
               /\ alignPage(address, size) = <<s * PageSize, n * PageSize>>
               /\ s = PageOf(address) /\ size <= n * PageSize
  BY <1>1, <1>5, Aligned
<1>6. ASSUME size # 0, NEW s \in Nat, NEW n \in Nat \ {0},
             alignPage(address, size) = <<s * PageSize, n * PageSize>>
      PROVE  /\ AllMapped(s, n) <=> pages # InvalidPage
             /\ pages # InvalidPage => AreParts(m, pages) /\ Covers(pages, s, n)
  BY <1>2, <1>6, QueryFacts
<1>7. ASSUME AreParts(m, pages)
      PROVE  /\ open1 \in MemoryType /\ open1.byte = m.byte /\ ToRestore(m, open1, pages, 1)
             /\ \A q \in MappedPages, i \in 1..Len(pages) : Holds(pages[i], q) => open1.page[q].isWritable
  BY <1>2, <1>7, OpenedFacts
<1> HIDE DEF u, size, pages
<1>8. CASE t.how # "patched"
  <2>1. u = t
    BY <1>3, <1>8 DEF ReplacedWith
  <2> QED
    BY <1>8, <2>1 DEF u, ReplacedSo, size
<1>9. CASE t.how = "patched" /\ pages = InvalidPage
  <2>1. u = [t EXCEPT !.how = "throws"]
    BY <1>3, <1>9 DEF ReplacedWith
  <2>2. u.how = "throws" /\ u \in ReplacingType(patch, relative)
    BY <2>1 DEF ReplacingType
  <2> QED
    BY <1>9, <2>2 DEF u, ReplacedSo, size
<1>10. CASE t.how = "patched" /\ pages # InvalidPage
  <2>0. size # 0
    BY <1>4, <1>10
  <2>1. PICK s \in Nat, n \in Nat \ {0} :
               /\ alignPage(address, size) = <<s * PageSize, n * PageSize>>
               /\ s = PageOf(address) /\ size <= n * PageSize
    BY <1>5, <2>0
  <2>2. AllMapped(s, n) /\ AreParts(m, pages) /\ Covers(pages, s, n)
    BY <1>6, <1>10, <2>0, <2>1
  <2>3. /\ open1 \in MemoryType /\ open1.byte = m.byte /\ ToRestore(m, open1, pages, 1)
        /\ \A q \in MappedPages, i \in 1..Len(pages) : Holds(pages[i], q) => open1.page[q].isWritable
    BY <1>7, <2>2
  <2> HIDE DEF m, open1
  <2>4. CASE ~Writable(open1, address, size)
    <3>1. u = [t EXCEPT !.how = "died", !.memory = open1]
      BY <1>3, <1>10, <2>4 DEF ReplacedWith
    <3>2. u.how = "died" /\ u \in ReplacingType(patch, relative)
      BY <2>3, <3>1 DEF ReplacingType
    <3>3. Crosses(address, size)
      <4>1. SUFFICES ASSUME PageOf(address) = PageOf(address + size - 1) PROVE FALSE
        BY DEF Crosses
      <4>2. \A a \in address..address + size - 1 : PageOf(a) = s /\ s \in s..s + n - 1 /\ s \in MappedPages
        BY <1>1, <2>0, <2>1, <2>2, <4>1, RangeFacts
      <4>3. DOMAIN open1.page = MappedPages
        BY <2>3, MemoryFacts DEF PagesKept
      <4>4. ASSUME s \in s..s + n - 1, s \in MappedPages PROVE open1.page[s].isWritable
        BY <2>2, <2>3, <4>4 DEF Covers
      <4>5. Writable(open1, address, size)
        BY <4>2, <4>3, <4>4 DEF Writable
      <4> QED
        BY <2>4, <4>5
    <3> QED
      BY <1>10, <3>2, <3>3 DEF u, ReplacedSo, size
  <2>5. CASE Writable(open1, address, size)
    <3>1. u = [t EXCEPT !.memory = restored, !.results = Append(@, result)]
      BY <1>3, <1>10, <2>5 DEF ReplacedWith
    <3>2. /\ \A a \in address..address + size - 1 : a \in Addresses
          /\ BytesAt(open1, address, size) \in Seq(Byte) /\ Len(BytesAt(open1, address, size)) = size
          /\ \A i \in 1..size : BytesAt(open1, address, size)[i] = open1.byte[address + i - 1]
      <4>1. address \in Int
        OBVIOUS
      <4> QED
        BY <1>1, <2>3, <2>5, <4>1, ReadableFacts
    <3>3. \A a \in address..address + size - 1 : m.byte[a] \in Byte
      <4>1. m.byte \in [Addresses -> Byte]
        BY <1>2, MemoryFacts
      <4> QED
        BY <3>2, <4>1
    <3>4. bytes \in Seq(Byte) /\ Len(bytes) = size
      BY <1>2, <3>3, NewBytesFacts DEF size
    <3> HIDE DEF bytes
    <3>5. /\ written \in MemoryType /\ written.page = open1.page
          /\ \A a \in Addresses :
               written.byte[a] = IF a \in address..address + size - 1 THEN bytes[a - address + 1]
                                 ELSE open1.byte[a]
      <4>1. /\ written \in MemoryType /\ written.page = open1.page
            /\ \A a \in Addresses :
                 written.byte[a] = IF a \in address..address + Len(bytes) - 1 THEN bytes[a - address + 1]
                                   ELSE open1.byte[a]
        BY <2>3, <3>4, WrittenFacts
      <4> HIDE DEF written
      <4> QED
        BY <3>4, <4>1
    <3> HIDE DEF written
    <3>6. ToRestore(m, written, pages, 1)
      BY <2>3, <3>5 DEF ToRestore
    <3>7. restored \in MemoryType /\ restored.byte = written.byte /\ restored.page = m.page
      BY <1>2, <2>2, <3>5, <3>6, RestoredFacts
    <3> HIDE DEF restored
    <3>8. Ranged(address, size)
      BY <1>1, <2>0, <2>1, <2>2, RangedFacts
    <3>9. Kept(m, size, result, address)
      BY <2>0, <2>3, <3>2, <3>8 DEF Kept
    <3>10. result \in [address : Nat, original : Seq(Byte)]
      BY <3>2
    <3> HIDE DEF result
    <3>11. Append(t.results, result) \in Seq([address : Nat, original : Seq(Byte)])
      BY <1>2, <3>10
    <3>12. /\ u.how = "patched" /\ u.memory = restored /\ u.results = Append(t.results, result)
           /\ u \in ReplacingType(patch, relative)
      BY <1>10, <3>1, <3>7, <3>11 DEF ReplacingType
    <3>13. \A a \in Addresses : u.memory.byte[a] = m.byte[a] \/ InRange(a, address, size)
      BY <2>3, <3>5, <3>7, <3>12 DEF InRange
    <3>14. \E x : u.results = Append(t.results, x) /\ Kept(m, size, x, address)
      BY <3>9, <3>12
    <3>15. ReplacedSo(t, u, address, size)
      BY <1>10, <3>2, <3>7, <3>12, <3>13, <3>14 DEF ReplacedSo, m
    <3> QED
      BY <3>12, <3>15 DEF u, size
  <2> QED
    BY <2>4, <2>5
<1> QED
  BY <1>8, <1>9, <1>10 DEF u, size

-----------------------------------------------------------------------------
(* All results replaced                                                    *)

ReplaceLoop == INSTANCE LoopProofs WITH Body <- Replaced

\* What replacing the first k of the results xs, in the memory m, keeps.
Replacing(m, xs, size, t, k) ==
  /\ t.how = "died" => \E i \in 1..Len(xs) : Crosses(xs[i], size)
  /\ t.how = "patched" =>
       /\ t.memory.page = m.page /\ Len(t.results) = k
       /\ \A i \in 1..k : Kept(m, size, t.results[i], xs[i])
       /\ \A a \in Addresses :
            t.memory.byte[a] = m.byte[a] \/ \E i \in 1..k : InRange(a, xs[i], size)

\* Results that do not overlap, from low to high.
LowToHigh(xs, size) ==
  /\ xs \in Seq(Nat) /\ \A i, j \in 1..Len(xs) : i < j => xs[i] + size <= xs[j]

LEMMA NotInEarlier ==
  ASSUME NEW xs, NEW size \in Nat, LowToHigh(xs, size), NEW i \in 1..Len(xs), NEW j \in 1..Len(xs), i < j,
         NEW a, InRange(a, xs[j], size), InRange(a, xs[i], size)
  PROVE  FALSE
<1>1. xs[i] \in Nat /\ xs[j] \in Nat /\ xs[i] + size <= xs[j]
  BY DEF LowToHigh
<1> QED
  BY <1>1 DEF InRange

LEMMA ReplacingStep ==
  ASSUME NEW patch, Replaces(patch), NEW relative \in Int, NEW m, NEW xs, NEW k \in 1..Len(xs),
         LowToHigh(xs, Len(patch.data.replaceBytes)), NEW t \in ReplacingType(patch, relative),
         Replacing(m, xs, Len(patch.data.replaceBytes), t, k - 1)
  PROVE  /\ Replaced(t, xs[k]) \in ReplacingType(patch, relative)
         /\ Replacing(m, xs, Len(patch.data.replaceBytes), Replaced(t, xs[k]), k)
<1> DEFINE size == Len(patch.data.replaceBytes)
           u == Replaced(t, xs[k])
<1>1. size \in Nat /\ xs[k] \in Nat /\ Len(xs) \in Nat
  BY DEF Replaces, LowToHigh
<1>2. u \in ReplacingType(patch, relative) /\ ReplacedSo(t, u, xs[k], size)
  BY <1>1, ReplacedOne
<1> HIDE DEF size, u
<1>3. /\ LowToHigh(xs, size) /\ Replacing(m, xs, size, t, k - 1)
      /\ t.results \in Seq([address : Nat, original : Seq(Byte)])
  BY ReplacingFacts DEF size
<1>4. u.how = "died" => \E i \in 1..Len(xs) : Crosses(xs[i], size)
  <2>1. CASE t.how = "patched"
    BY <1>2, <2>1 DEF ReplacedSo
  <2>2. CASE t.how # "patched"
    <3>1. u = t
      BY <1>2, <2>2 DEF ReplacedSo
    <3> QED
      BY <1>3, <3>1 DEF Replacing
  <2> QED
    BY <2>1, <2>2
<1>5. ASSUME u.how = "patched"
      PROVE  /\ u.memory.page = m.page /\ Len(u.results) = k
             /\ \A i \in 1..k : Kept(m, size, u.results[i], xs[i])
             /\ \A a \in Addresses :
                  u.memory.byte[a] = m.byte[a] \/ \E i \in 1..k : InRange(a, xs[i], size)
  <2>1. /\ t.how = "patched" /\ u.memory.page = t.memory.page
        /\ \A a \in xs[k]..xs[k] + size - 1 : a \in Addresses
        /\ \A a \in Addresses : u.memory.byte[a] = t.memory.byte[a] \/ InRange(a, xs[k], size)
    BY <1>2, <1>5 DEF ReplacedSo
  <2>2. PICK result : u.results = Append(t.results, result) /\ Kept(t.memory, size, result, xs[k])
    BY <1>2, <1>5 DEF ReplacedSo
  <2>3. /\ t.memory.page = m.page /\ Len(t.results) = k - 1
        /\ \A i \in 1..k - 1 : Kept(m, size, t.results[i], xs[i])
        /\ \A a \in Addresses :
             t.memory.byte[a] = m.byte[a] \/ \E i \in 1..k - 1 : InRange(a, xs[i], size)
    BY <1>3, <2>1 DEF Replacing
  <2>4. Len(u.results) = k /\ u.results[k] = result /\ \A i \in 1..k - 1 : u.results[i] = t.results[i]
    BY <1>3, <2>2, <2>3
  <2>5. Kept(m, size, result, xs[k])
    <3>1. ASSUME NEW i \in 1..size PROVE result.original[i] = m.byte[xs[k] + i - 1]
      <4> DEFINE a == xs[k] + i - 1
      <4>1. a \in xs[k]..xs[k] + size - 1
        BY <1>1
      <4>2. a \in Addresses /\ InRange(a, xs[k], size) /\ result.original[i] = t.memory.byte[a]
        BY <2>1, <2>2, <4>1 DEF InRange, Kept
      <4> HIDE DEF a
      <4>3. ASSUME NEW j \in 1..k - 1, InRange(a, xs[j], size) PROVE FALSE
        <5>1. j \in 1..Len(xs) /\ j < k
          BY <1>1
        <5> QED
          BY <1>1, <1>3, <4>2, <4>3, <5>1, NotInEarlier
      <4>4. t.memory.byte[a] = m.byte[a]
        BY <2>3, <4>2, <4>3
      <4> QED
        BY <4>2, <4>4 DEF a
    <3> QED
      BY <2>2, <3>1 DEF Kept
  <2>6. \A i \in 1..k : i = k \/ i \in 1..k - 1
    OBVIOUS
  <2>7. \A i \in 1..k - 1 : i \in 1..k
    OBVIOUS
  <2>8. \A i \in 1..k : Kept(m, size, u.results[i], xs[i])
    BY <2>3, <2>4, <2>5, <2>6
  <2>9. ASSUME NEW a \in Addresses
        PROVE  u.memory.byte[a] = m.byte[a] \/ \E i \in 1..k : InRange(a, xs[i], size)
    <3>1. k \in 1..k
      OBVIOUS
    <3> QED
      BY <2>1, <2>3, <2>7, <3>1
  <2> QED
    BY <2>1, <2>3, <2>4, <2>8, <2>9
<1>6. Replacing(m, xs, size, u, k)
  BY <1>4, <1>5 DEF Replacing
<1> QED
  BY <1>2, <1>6 DEF u, size

\* What undoing needs: the bytes that differ are in ranges that were kept.
PutsBack(before, m, size, results) ==
  /\ size \in Nat /\ before \in MemoryType /\ m.page = before.page
  /\ results \in Seq([address : Nat, original : Seq(Byte)])
  /\ \A i \in 1..Len(results) : Kept(before, size, results[i], results[i].address)
  /\ \A a \in Addresses :
       m.byte[a] = before.byte[a] \/ \E i \in 1..Len(results) : InRange(a, results[i].address, size)

LEMMA PatchResultsFacts ==
  ASSUME NEW queued, Replaces(queued.patch), queued.relative \in Int, NEW finding,
         finding.memory \in MemoryType,
         Spaced(finding.found, Len(queued.patch.data.replaceBytes))
  PROVE  LET size == Len(queued.patch.data.replaceBytes)
             done == PatchResults(queued, finding)
         IN  /\ done.memory \in MemoryType
             /\ done.how \in {"patched", "throws", "died"}
             /\ done.how = "died" => \E a \in finding.found : Crosses(a, size)
             /\ done.how = "patched" => PutsBack(finding.memory, done.memory, size, done.results)
<1> DEFINE patch == queued.patch
           relative == queued.relative
           size == Len(patch.data.replaceBytes)
           m == finding.memory
           found == finding.found
           xs == Ascending(found)
           n == Len(xs)
           s0 == [patch |-> patch, relative |-> relative, memory |-> m, results |-> <<>>, how |-> "patched"]
           done == PatchResults(queued, finding)
           Good == [k \in 0..n |-> {t \in ReplacingType(patch, relative) : Replacing(m, xs, size, t, k)}]
<1>1. /\ Replaces(patch) /\ relative \in Int /\ m \in MemoryType /\ Spaced(found, size) /\ size \in Nat
  BY DEF Replaces
<1>2. found \in SUBSET Int /\ IsFiniteSet(found) /\ found \in SUBSET Nat
  BY <1>1 DEF Spaced
<1>3. /\ xs \in Seq(found) /\ n \in Nat
      /\ \A i, j \in 1..n : i < j => xs[i] < xs[j]
  BY <1>2, AscendingFacts
<1>4. done = ReplaceLoop!Fold(s0, xs)
  BY DEF PatchResults, ReplaceLoop!Fold, Folded, ReplaceLoop!Folded
<1> HIDE DEF patch, relative, size, m, found, xs, done
<1>5. LowToHigh(xs, size)
  <2>1. \A i \in 1..n : xs[i] \in found
    BY <1>3
  <2>2. xs \in Seq(Nat)
    BY <1>2, <1>3, SeqGrows
  <2> QED
    BY <1>1, <1>3, <2>1, <2>2 DEF LowToHigh, Spaced
<1>6. s0 \in Good[0]
  <2>1. s0 \in ReplacingType(patch, relative)
    BY <1>1 DEF ReplacingType
  <2>2. Replacing(m, xs, size, s0, 0)
    BY DEF Replacing
  <2>3. 0 \in 0..n
    BY <1>3
  <2> QED
    BY <2>1, <2>2, <2>3
<1>7. ASSUME NEW k \in 1..n, NEW t \in Good[k - 1] PROVE Replaced(t, xs[k]) \in Good[k]
  <2>1. k - 1 \in 0..n /\ k \in 0..n
    BY <1>3
  <2>2. t \in ReplacingType(patch, relative) /\ Replacing(m, xs, size, t, k - 1)
    BY <1>7, <2>1
  <2>3. Replaced(t, xs[k]) \in ReplacingType(patch, relative) /\ Replacing(m, xs, size, Replaced(t, xs[k]), k)
    BY <1>1, <1>5, <2>2, ReplacingStep DEF size
  <2> QED
    BY <2>1, <2>3
<1>8. Good[n] = {t \in ReplacingType(patch, relative) : Replacing(m, xs, size, t, n)}
  BY <1>3
<1> HIDE DEF Good, s0
<1>9. ReplaceLoop!Fold(s0, xs) \in Good[n]
  BY <1>3, <1>6, <1>7, ReplaceLoop!FoldKeeps
<1>10. done \in ReplacingType(patch, relative) /\ Replacing(m, xs, size, done, n)
  BY <1>4, <1>8, <1>9
<1>11. /\ done.memory \in MemoryType /\ done.how \in {"patched", "throws", "died"}
       /\ done.results \in Seq([address : Nat, original : Seq(Byte)])
  BY <1>10, ReplacingFacts
<1>12. done.how = "died" => \E a \in found : Crosses(a, size)
  BY <1>3, <1>10 DEF Replacing
<1>13. ASSUME done.how = "patched" PROVE PutsBack(m, done.memory, size, done.results)
  <2>1. /\ done.memory.page = m.page /\ Len(done.results) = n
        /\ \A i \in 1..n : Kept(m, size, done.results[i], xs[i])
        /\ \A a \in Addresses :
             done.memory.byte[a] = m.byte[a] \/ \E i \in 1..n : InRange(a, xs[i], size)
    BY <1>10, <1>13 DEF Replacing
  <2>2. ASSUME NEW i \in 1..n PROVE done.results[i].address = xs[i]
    <3> DEFINE result == done.results[i]
    <3>1. result = [address |-> xs[i], original |-> result.original]
      BY <2>1 DEF Kept
    <3> HIDE DEF result
    <3> QED
      BY <3>1 DEF result
  <2> QED
    BY <1>1, <1>11, <2>1, <2>2 DEF PutsBack
<1> QED
  BY <1>11, <1>12, <1>13 DEF done, size, patch, m, found

-----------------------------------------------------------------------------
(* Undone                                                                  *)

CopyLoop == INSTANCE LoopProofs WITH Body <- Copied

\* What putting back the first k of the results keeps.
Undoing(before, size, results, t, k) ==
  /\ t.how \in {"copied", "died"}
  /\ t.how = "died" => \E i \in 1..Len(results) : Crosses(results[i].address, size)
  /\ t.how = "copied" =>
       /\ t.memory.page = before.page
       /\ \A a \in Addresses :
            \/ t.memory.byte[a] = before.byte[a]
            \/ \E i \in k + 1..Len(results) : InRange(a, results[i].address, size)

CopyingType == [how : {"copied", "died"}, memory : MemoryType]

LEMMA CopyShape ==
  ASSUME NEW m, NEW from, NEW to
  PROVE  safeCopy(m, from, to) = [how |-> safeCopy(m, from, to).how, memory |-> safeCopy(m, from, to).memory]
<1> DEFINE c == changePageProtection(m, OpenPage(from, to))
           r == safeCopy(m, from, to)
           m2 == Restored(Written(c.memory, to, from), c.oldPages)
<1>1. r = IF ~c.ok THEN [how |-> "throws", memory |-> m]
          ELSE IF ~Writable(c.memory, to, Len(from)) THEN [how |-> "died", memory |-> c.memory]
          ELSE [how |-> "copied", memory |-> m2]
  BY CopyIs
<1> HIDE DEF c, r, m2
<1>2. r = [how |-> r.how, memory |-> r.memory]
  <2>1. CASE r = [how |-> "throws", memory |-> m]
    BY <2>1
  <2>2. CASE r = [how |-> "died", memory |-> c.memory]
    BY <2>2
  <2>3. CASE r = [how |-> "copied", memory |-> m2]
    BY <2>3
  <2> QED
    BY <1>1, <2>1, <2>2, <2>3
<1> QED
  BY <1>2 DEF r

LEMMA UndoingStep ==
  ASSUME NEW before, NEW m, NEW size, NEW results, PutsBack(before, m, size, results),
         NEW k \in 1..Len(results), NEW t \in CopyingType,
         Undoing(before, size, results, t, k - 1)
  PROVE  /\ Copied(t, results[k]) \in CopyingType
         /\ Undoing(before, size, results, Copied(t, results[k]), k)
<1> DEFINE u == Copied(t, results[k])
           to == results[k].address
           from == results[k].original
<1>1. /\ size \in Nat /\ Len(results) \in Nat /\ results[k] \in [address : Nat, original : Seq(Byte)]
      /\ Kept(before, size, results[k], to)
  <2> DEFINE R == [address : Nat, original : Seq(Byte)]
  <2>1. results \in Seq(R)
    BY DEF PutsBack
  <2> HIDE DEF R
  <2>2. results[k] \in R /\ Len(results) \in Nat
    BY <2>1, MemberOf
  <2> QED
    BY <2>2 DEF PutsBack, R
<1>2. to \in Nat /\ from \in Seq(Byte) /\ Len(from) = size /\ size # 0 /\ Ranged(to, size)
  BY <1>1 DEF Kept
<1>3. \A i \in 1..size : from[i] = before.byte[to + i - 1]
  BY <1>1 DEF Kept
<1>4. u = IF t.how # "copied" THEN t ELSE safeCopy(t.memory, from, to)
  BY DEF Copied
<1>4a. t.memory \in MemoryType /\ t.how \in {"copied", "died"}
  BY DEF CopyingType
<1> HIDE DEF u, from, to
<1>5. CASE t.how # "copied"
  <2>1. u = t
    BY <1>4, <1>5
  <2> QED
    BY <1>5, <2>1 DEF Undoing, u
<1>6. CASE t.how = "copied"
  <2> DEFINE c == safeCopy(t.memory, from, to)
  <2>0. Len(from) # 0 /\ Ranged(to, Len(from))
    BY <1>2
  <2>1. /\ c.how \in {"throws", "died", "copied"} /\ c.memory \in MemoryType
        /\ c.how # "throws"
        /\ c.how = "died" => PageOf(to) # PageOf(to + Len(from) - 1)
        /\ c.how = "copied" =>
             /\ c.memory.page = t.memory.page
             /\ \A a \in Addresses :
                  c.memory.byte[a] = IF a \in to..to + Len(from) - 1 THEN from[a - to + 1]
                                     ELSE t.memory.byte[a]
    BY <1>2, <1>4a, <2>0, SafeCopyFacts
  <2>2. u = c /\ c = [how |-> c.how, memory |-> c.memory]
    BY <1>4, <1>6, CopyShape
  <2> HIDE DEF c
  <2>2a. u \in CopyingType
    BY <2>1, <2>2 DEF CopyingType
  <2>3. u.how = "died" => Crosses(to, size)
    BY <1>2, <2>1, <2>2 DEF Crosses
  <2>4. /\ t.memory.page = before.page
        /\ \A a \in Addresses :
            \/ t.memory.byte[a] = before.byte[a]
            \/ \E i \in (k - 1) + 1..Len(results) : InRange(a, results[i].address, size)
    BY <1>6 DEF Undoing
  <2>5. ASSUME u.how = "copied", NEW a \in Addresses
        PROVE  \/ u.memory.byte[a] = before.byte[a]
               \/ \E i \in k + 1..Len(results) : InRange(a, results[i].address, size)
    <3>1. u.memory.byte[a] = IF a \in to..to + size - 1 THEN from[a - to + 1] ELSE t.memory.byte[a]
      BY <1>2, <2>1, <2>2, <2>5
    <3>2. CASE a \in to..to + size - 1
      <4>1. a - to + 1 \in 1..size /\ to + (a - to + 1) - 1 = a
        BY <1>1, <1>2, <3>2
      <4> QED
        BY <1>3, <3>1, <3>2, <4>1
    <3>3. CASE a \notin to..to + size - 1
      <4>1. \A i \in (k - 1) + 1..Len(results) : i = k \/ i \in k + 1..Len(results)
        BY <1>1
      <4>2. ~ InRange(a, results[k].address, size)
        BY <3>3 DEF InRange, to
      <4> QED
        BY <2>4, <3>1, <3>3, <4>1, <4>2
    <3> QED
      BY <3>2, <3>3
  <2> QED
    BY <2>1, <2>2, <2>2a, <2>3, <2>4, <2>5 DEF Undoing, u, to
<1> QED
  BY <1>5, <1>6

LEMMA UndoneFacts ==
  ASSUME NEW before, NEW m \in MemoryType, NEW size, NEW results, PutsBack(before, m, size, results)
  PROVE  LET done == Folded([how |-> "copied", memory |-> m], results, Copied)
         IN  /\ done.memory \in MemoryType /\ done.how \in {"copied", "died"}
             /\ done.how = "died" => \E i \in 1..Len(results) : Crosses(results[i].address, size)
             /\ done.how = "copied" => done.memory = before
<1> DEFINE n == Len(results)
           s0 == [how |-> "copied", memory |-> m]
           done == Folded(s0, results, Copied)
           Good == [k \in 0..n |-> {t \in CopyingType : Undoing(before, size, results, t, k)}]
<1>1. n \in Nat
  BY DEF PutsBack
<1>2. done = CopyLoop!Fold(s0, results)
  BY DEF CopyLoop!Fold, Folded, CopyLoop!Folded
<1>3. s0 \in Good[0]
  <2>1. s0 \in CopyingType
    BY DEF CopyingType
  <2>2. Undoing(before, size, results, s0, 0)
    BY <1>1 DEF Undoing, PutsBack
  <2> QED
    BY <1>1, <2>1, <2>2
<1>4. ASSUME NEW k \in 1..n, NEW t \in Good[k - 1] PROVE Copied(t, results[k]) \in Good[k]
  <2>1. k - 1 \in 0..n /\ k \in 0..n
    BY <1>1
  <2>2. t \in CopyingType /\ Undoing(before, size, results, t, k - 1)
    BY <1>4, <2>1
  <2>3. Copied(t, results[k]) \in CopyingType /\ Undoing(before, size, results, Copied(t, results[k]), k)
    BY <2>2, UndoingStep
  <2> QED
    BY <2>1, <2>3
<1>5. Good[n] = {t \in CopyingType : Undoing(before, size, results, t, n)}
  BY <1>1
<1> HIDE DEF Good, s0, done
<1>6. CopyLoop!Fold(s0, results) \in Good[n]
  BY <1>1, <1>3, <1>4, CopyLoop!FoldKeeps
<1>7. done \in CopyingType /\ Undoing(before, size, results, done, n)
  BY <1>2, <1>5, <1>6
<1>8. done.memory \in MemoryType /\ done.how \in {"copied", "died"}
  BY <1>7 DEF CopyingType
<1>9. done.how = "died" => \E i \in 1..n : Crosses(results[i].address, size)
  BY <1>7 DEF Undoing
<1>10. ASSUME done.how = "copied" PROVE done.memory = before
  <2>1. done.memory.page = before.page
    BY <1>7, <1>10 DEF Undoing
  <2>2. \A a \in Addresses : done.memory.byte[a] = before.byte[a]
    <3>1. n + 1..n = {}
      BY <1>1
    <3> QED
      BY <1>7, <1>10, <3>1 DEF Undoing
  <2>3. before \in MemoryType
    BY DEF PutsBack
  <2>4. /\ done.memory = [byte |-> done.memory.byte, page |-> done.memory.page]
        /\ done.memory.byte \in [Addresses -> Byte]
        /\ before = [byte |-> before.byte, page |-> before.page]
        /\ before.byte \in [Addresses -> Byte]
    BY <1>8, <2>3, MemoryFacts
  <2>5. done.memory.byte = before.byte
    BY <2>2, <2>4
  <2> QED
    BY <2>1, <2>4, <2>5
<1> QED
  BY <1>8, <1>9, <1>10 DEF done, s0

-----------------------------------------------------------------------------
(* The memory through all steps                                            *)

LEMMA PacksStayValid ==
  ASSUME TypeOK, PacksValid, [Next]_vars
  PROVE  PacksValid'
<1>0. packs \in Seq(PatchPackType)
  BY DEF TypeOK
<1>1. ASSUME NEW hook \in Hooks, RegisterHook(hook) PROVE PacksValid'
  <2>1. packs' = packs /\ (sent' = NoPacket \/ sent' = HookPacket(hook))
    BY <1>1 DEF RegisterHook
  <2>2. sent'.kind # "pack"
    BY <2>1 DEF NoPacket, HookPacket
  <2> QED
    BY <2>1, <2>2 DEF PacksValid, PatchesValid
<1>2. ASSUME NEW pack \in Packs, AddPatchPack(pack) PROVE PacksValid'
  <2> DEFINE new == Added(pack)
  <2>1. pack \in PatchPackType /\ new \in PatchPackType /\ new.patches = pack.patches
    BY InputsAreTyped, AddedFacts
  <2>2. /\ \A i \in DOMAIN pack.patches : checkPatchValid(pack.patches[i])
        /\ packs' = Append(packs, new)
        /\ sent' = NoPacket \/ sent' = PackPacket(new)
    BY <1>2 DEF AddPatchPack
  <2> HIDE DEF new
  <2>3. DOMAIN pack.patches = 1..Len(pack.patches)
    BY <2>1 DEF PatchPackType
  <2>4. PatchesValid(new)
    BY <2>1, <2>2, <2>3 DEF PatchesValid
  <2>5. /\ Len(packs') = Len(packs) + 1 /\ Len(packs) \in Nat /\ packs'[Len(packs) + 1] = new
        /\ \A i \in 1..Len(packs) : packs'[i] = packs[i]
    BY <1>0, <2>1, <2>2
  <2>6. \A i \in 1..Len(packs') : i \in 1..Len(packs) \/ i = Len(packs) + 1
    BY <2>5
  <2>7. \A i \in 1..Len(packs') : PatchesValid(packs'[i])
    BY <2>4, <2>5, <2>6 DEF PacksValid
  <2>8. sent'.kind = "pack" => PatchesValid(sent'.object)
    BY <2>2, <2>4 DEF NoPacket, PackPacket
  <2> QED
    BY <2>7, <2>8 DEF PacksValid, PatchesValid
<1>3. ASSUME NEW label \in Labels, NEW text \in Texts, SetExtraSetting(label, text) PROVE PacksValid'
  <2>1. /\ packs' \in Seq(PatchPackType) /\ DOMAIN packs' = DOMAIN packs
        /\ \A i \in DOMAIN packs : packs'[i].patches = packs[i].patches
        /\ sent' = sent
    BY <1>0, <1>3, SetExtraSettingFacts DEF SetExtraSetting
  <2>2. DOMAIN packs = 1..Len(packs) /\ DOMAIN packs' = 1..Len(packs')
    BY <1>0, <2>1
  <2> QED
    BY <2>1, <2>2 DEF PacksValid, PatchesValid
<1>4. CASE SendAgain
  <2>1. packs' = packs
    BY <1>4 DEF SendAgain
  <2>2. CASE \E i \in DOMAIN hooks : sent' = HookPacket(hooks[i])
    <3>1. sent'.kind # "pack"
      BY <2>2 DEF HookPacket
    <3> QED
      BY <2>1, <3>1 DEF PacksValid, PatchesValid
  <2>3. CASE \E i \in DOMAIN packs : sent' = PackPacket(packs[i])
    <3>1. PICK i \in DOMAIN packs : sent' = PackPacket(packs[i])
      BY <2>3
    <3>2. i \in 1..Len(packs) /\ sent'.object = packs[i]
      BY <1>0, <3>1 DEF PackPacket
    <3> QED
      BY <2>1, <3>2 DEF PacksValid, PatchesValid
  <2> QED
    BY <1>4, <2>2, <2>3 DEF SendAgain
<1>5. CASE Receive \/ Pass \/ Undo \/ UNCHANGED vars
  <2>1. packs' = packs /\ sent' = sent
    BY <1>5 DEF Receive, Pass, Undo, vars
  <2> QED
    BY <2>1 DEF PacksValid, PatchesValid
<1> QED
  BY <1>1, <1>2, <1>3, <1>4, <1>5 DEF Next

SizeOf(patch) == Len(patch.data.search.searchBytes)

\* A patch that is in place can be put back.
PatchedKept ==
  patched = NoPatch \/ PutsBack(patched.before, memory, SizeOf(patched.patch), patched.results)

\* What how an operation went says of the memory.
MemoryInv == memory \in MemoryType /\ PatchedKept /\ MemoryIsRestored

LEMMA NothingFoundKeeps ==
  ASSUME NEW patch, NEW finding, MemoryInv, patched = NoPatch,
         SearchKeeps(memory, SizeOf(patch), finding), NothingFound(patch, finding)
  PROVE  MemoryInv'
<1>1. /\ finding.how \in Ends /\ finding.memory \in MemoryType
      /\ finding.memory.byte = memory.byte
      /\ finding.how = "found" => finding.memory = memory
  BY DEF SearchKeeps
<1>2. /\ memory' = finding.memory /\ patched' = NoPatch
      /\ last' = [op |-> "search", how |-> finding.how, patch |-> patch, before |-> memory,
                  found |-> finding.found]
  BY DEF NothingFound, Ended
<1>3. /\ last'.op = "search" /\ last'.how = finding.how /\ last'.before = memory
  BY <1>2
<1>4. MemoryIsRestored'
  BY <1>1, <1>2, <1>3 DEF MemoryIsRestored, Ends
<1>5. PatchedKept'
  BY <1>2 DEF PatchedKept
<1> QED
  BY <1>1, <1>2, <1>4, <1>5 DEF MemoryInv

LEMMA AllReplacedKeeps ==
  ASSUME NEW queued, Replaces(queued.patch), queued.relative \in Int, NEW finding,
         MemoryInv, patched = NoPatch,
         SearchKeeps(memory, SizeOf(queued.patch), finding), finding.how = "found",
         AllReplaced(queued.patch, finding.found, PatchResults(queued, finding))
  PROVE  MemoryInv'
<1> DEFINE patch == queued.patch
           size == SizeOf(patch)
           done == PatchResults(queued, finding)
<1>1. finding.memory = memory /\ memory \in MemoryType /\ Spaced(finding.found, size)
  BY DEF SearchKeeps, MemoryInv
<1>2. size = Len(patch.data.replaceBytes)
  BY DEF Replaces, SizeOf
<1>3. /\ done.memory \in MemoryType
      /\ done.how \in {"patched", "throws", "died"}
      /\ done.how = "died" => \E a \in finding.found : Crosses(a, size)
      /\ done.how = "patched" => PutsBack(finding.memory, done.memory, size, done.results)
  <2>1. finding.memory \in MemoryType /\ Spaced(finding.found, Len(patch.data.replaceBytes))
    BY <1>1, <1>2
  <2>2. /\ done.memory \in MemoryType
        /\ done.how \in {"patched", "throws", "died"}
        /\ done.how = "died" => \E a \in finding.found : Crosses(a, Len(patch.data.replaceBytes))
        /\ done.how = "patched" =>
             PutsBack(finding.memory, done.memory, Len(patch.data.replaceBytes), done.results)
    BY <2>1, PatchResultsFacts
  <2> HIDE DEF done, size
  <2> QED
    BY <1>2, <2>2
<1>4. /\ memory' = done.memory
      /\ patched' = IF done.how = "patched"
                    THEN [patch |-> patch, results |-> done.results, before |-> memory]
                    ELSE patched
      /\ last' = [op |-> "patch", how |-> done.how, patch |-> patch, before |-> memory,
                  found |-> finding.found]
  BY DEF AllReplaced, Ended
<1> HIDE DEF done
<1>5. /\ last'.op = "patch" /\ last'.how = done.how /\ last'.before = memory
      /\ last'.patch = patch /\ last'.found = finding.found
  BY <1>4
<1>6. done.how = "died" => SomeCross'
  BY <1>3, <1>5 DEF SomeCross, Crosses, SizeOf
<1>7. done.how = "patched" => memory'.page = memory.page
  BY <1>1, <1>3, <1>4 DEF PutsBack
<1>8. MemoryIsRestored'
  BY <1>3, <1>5, <1>6, <1>7 DEF MemoryIsRestored
<1>9. PatchedKept'
  <2>1. CASE done.how = "patched"
    <3>1. patched' = [patch |-> patch, results |-> done.results, before |-> memory]
      BY <1>4, <2>1
    <3> HIDE DEF size, patch
    <3>2. patched'.patch = patch /\ patched'.results = done.results /\ patched'.before = memory
      BY <3>1
    <3>3. PutsBack(memory, done.memory, size, done.results)
      BY <1>1, <1>3, <2>1
    <3> QED
      BY <1>4, <3>2, <3>3 DEF PatchedKept, size
  <2>2. CASE done.how # "patched"
    BY <1>4, <2>2 DEF PatchedKept
  <2> QED
    BY <2>1, <2>2
<1> QED
  BY <1>3, <1>4, <1>8, <1>9 DEF MemoryInv

LEMMA PassKeeps ==
  ASSUME SentInv, PacksValid, MemoryInv, Pass
  PROVE  MemoryInv'
<1> DEFINE FindingOf(patch) ==
             IF patch.type = "REPLACE_NAME" THEN doNameSearch(memory, patch.data)
             ELSE doSearch(memory, patch.data.search)
<1>1. PICK queued \in Queued : patched = NoPatch /\ PassOver(queued, FindingOf(queued.patch))
  BY DEF Pass
<1> DEFINE patch == queued.patch
           finding == FindingOf(queued.patch)
<1>2. Replaces(patch) /\ queued.relative \in Int
  BY QueuedReplaces
<1>3. memory \in MemoryType /\ patch.data.search \in Searches
  BY <1>2 DEF MemoryInv, Replaces
<1>4. SearchKeeps(memory, SizeOf(patch), finding)
  <2>1. CASE patch.type = "REPLACE_NAME"
    <3>1. finding = doNameSearch(memory, patch.data) /\ patch.data.functionRva \in Nat
      BY <1>2, <2>1 DEF Replaces
    <3> HIDE DEF finding, patch
    <3> QED
      BY <1>3, <3>1, NameSearched DEF SizeOf
  <2>2. CASE patch.type # "REPLACE_NAME"
    <3>1. finding = doSearch(memory, patch.data.search)
      BY <2>2
    <3> HIDE DEF finding, patch
    <3> QED
      BY <1>3, <3>1, SearchSearched DEF SizeOf
  <2> QED
    BY <2>1, <2>2
<1> HIDE DEF FindingOf
<1>5. CASE NothingFound(patch, finding)
  BY <1>1, <1>4, <1>5, NothingFoundKeeps
<1>6. CASE /\ finding.how = "found"
           /\ AllReplaced(patch, finding.found, PatchResults(queued, finding))
  BY <1>1, <1>2, <1>4, <1>6, AllReplacedKeeps
<1> QED
  BY <1>1, <1>5, <1>6 DEF PassOver

LEMMA UndoKeeps ==
  ASSUME MemoryInv, Undo
  PROVE  MemoryInv'
<1> DEFINE results == patched.results
           patch == patched.patch
           done == Folded([how |-> "copied", memory |-> memory], results, Copied)
<1>1. /\ patched # NoPatch /\ memory' = done.memory /\ patched' = NoPatch
      /\ last' = [op |-> "undo", how |-> done.how, patch |-> patch,
                  before |-> patched.before,
                  found |-> {results[i].address : i \in DOMAIN results}]
  BY DEF Undo
<1>2. PutsBack(patched.before, memory, SizeOf(patch), results) /\ memory \in MemoryType
  BY <1>1 DEF MemoryInv, PatchedKept
<1>3. /\ done.memory \in MemoryType /\ done.how \in {"copied", "died"}
      /\ done.how = "died" => \E i \in 1..Len(results) : Crosses(results[i].address, SizeOf(patch))
      /\ done.how = "copied" => done.memory = patched.before
  BY <1>2, UndoneFacts
<1>4. DOMAIN results = 1..Len(results)
  BY <1>2 DEF PutsBack
<1> HIDE DEF done
<1>5. /\ last'.op = "undo" /\ last'.how = done.how /\ last'.patch = patch
      /\ last'.before = patched.before
      /\ \A i \in 1..Len(results) : results[i].address \in last'.found
  BY <1>1, <1>4
<1>6. done.how = "died" => SomeCross'
  BY <1>3, <1>5 DEF SomeCross, Crosses, SizeOf
<1>7. MemoryIsRestored'
  BY <1>1, <1>3, <1>5, <1>6 DEF MemoryIsRestored
<1>8. PatchedKept'
  BY <1>1 DEF PatchedKept
<1> QED
  BY <1>1, <1>3, <1>7, <1>8 DEF MemoryInv

RestoreInv == SentInv /\ PacksValid /\ MemoryInv

LEMMA RestoreInit ==
  ASSUME Init
  PROVE  RestoreInv
<1>1. SentInv
  BY SentInit
<1>2. PacksValid
  BY DEF Init, PacksValid, NoPacket
<1>3. memory \in MemoryType /\ PatchedKept
  BY SearchingAssumption DEF Init, PatchedKept
<1>4. MemoryIsRestored
  BY DEF Init, Idle, MemoryIsRestored
<1> QED
  BY <1>1, <1>2, <1>3, <1>4 DEF RestoreInv, MemoryInv

LEMMA RestoreStep ==
  ASSUME RestoreInv, [Next]_vars
  PROVE  RestoreInv'
<1>1. SentInv /\ PacksValid /\ MemoryInv /\ TypeOK
  BY DEF RestoreInv, SentInv
<1>2. SentInv'
  BY <1>1, SentStep
<1>3. PacksValid'
  BY <1>1, PacksStayValid
<1>4. CASE UNCHANGED <<memory, patched, last>>
  <2>1. memory' = memory /\ patched' = patched /\ last' = last
    BY <1>4
  <2>2. MemoryInv'
    BY <1>1, <2>1 DEF MemoryInv, PatchedKept, MemoryIsRestored, SomeCross
  <2> QED
    BY <1>2, <1>3, <2>2 DEF RestoreInv
<1>5. CASE Pass
  BY <1>1, <1>2, <1>3, <1>5, PassKeeps DEF RestoreInv
<1>6. CASE Undo
  BY <1>1, <1>2, <1>3, <1>6, UndoKeeps DEF RestoreInv
<1>7. \/ UNCHANGED <<memory, patched, last>> \/ Pass \/ Undo
  BY DEF Next, RegisterHook, AddPatchPack, SetExtraSetting, SendAgain, Receive, vars
<1> QED
  BY <1>4, <1>5, <1>6, <1>7

\* MemoryIsRestored: whatever is searched for and replaced, the protections
\* are what they were behind every pass that does not throw, the bytes are
\* what they were once the patch is undone, and no copy dies or throws but on
\* a result that lies on two pages (SafeMemoryCopy, changePageProtection and
\* queryPage of common/Memory.cpp, called by Search and Patcher).
THEOREM ProtectionsComeBack == Spec => []MemoryIsRestored
<1>1. Init => RestoreInv
  BY RestoreInit
<1>2. RestoreInv /\ [Next]_vars => RestoreInv'
  BY RestoreStep
<1>3. RestoreInv => MemoryIsRestored
  BY DEF RestoreInv, MemoryInv
<1> QED
  BY <1>1, <1>2, <1>3, PTL DEF Spec
=============================================================================
