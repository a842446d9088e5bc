------------------------------- MODULE Searching -------------------------------
(***************************************************************************)
(* A search from the plugin that asks for it to the bytes it replaces: the *)
(* manager checks hooks and packs and registers them (PatchManager), sends *)
(* them serialised, and the core makes patches of them (PatchLoader),      *)
(* looks for their bytes, replaces these and puts them back (Patcher). One *)
(* patch is followed at a time; Patcher and PatchSystem have the queues.   *)
(***************************************************************************)
EXTENDS Search

CONSTANTS
  Hooks,        \* the hooks and the packs that plugins register
  Packs,
  LoadedPlugins, \* of the plugins that packs require
  Memories,     \* what the memory of the application may be
  Wrapper,      \* the address of the functions that are hooked in
  MaxRegistered \* bound on what is registered

ASSUME SearchingAssumption ==
  /\ Hooks \subseteq HookType /\ Packs \subseteq PatchPackType /\ Memories \subseteq MemoryType
  /\ Wrapper \in Nat

VARIABLES
  hooks,        \* hooks_ of PatchManager, the hooks in it
  packs,        \* patchPacks_
  sent,         \* what was serialised last, and its data
  received,     \* what the core made of it
  memory,       \* of the application
  patched,      \* the patch in place: its results, with their original bytes
  last          \* how the last operation of the core went, and the memory before it

vars == <<hooks, packs, sent, received, memory, patched, last>>

NoPacket == [kind |-> "none", data |-> <<>>, object |-> Nothing]
NotYet == [kind |-> "none", object |-> Nothing, swapped |-> FALSE]
NoPatch == [patch |-> NewPatch, results |-> <<>>, before |-> Nothing]
Idle == [op |-> "none", how |-> "none", patch |-> NewPatch, before |-> Nothing, found |-> {}]

Init ==
  /\ hooks = <<>> /\ packs = <<>> /\ sent = NoPacket /\ received = NotYet
  /\ memory \in Memories /\ patched = NoPatch /\ last = Idle

-----------------------------------------------------------------------------
(* The manager *)

HookPacket(hook) ==
  [kind |-> "hook", object |-> hook,
   data |-> serialiseIntegralTypeContinuousContainer(serialiseHook(hook))]
PackPacket(pack) ==
  [kind |-> "pack", object |-> pack,
   data |-> serialiseIntegralTypeContinuousContainer(serialisePatchPack(pack))]

\* registerHook: it is sent to the core at once, if one is connected.
RegisterHook(hook) ==
  /\ sent = NoPacket /\ Len(hooks) + Len(packs) < MaxRegistered
  /\ hook.name # <<>> /\ \A i \in DOMAIN hooks : hooks[i].name # hook.name
  /\ checkHookValid(hook)
  /\ hook.type = "NAME" =>
       \A i \in DOMAIN hooks : hooks[i].type = "NAME" => ~checkOverlapWith(hook.data, hooks[i].data)
  /\ hooks' = Append(hooks, copyTypeFrom(hook, hook))
  /\ sent' \in {NoPacket, HookPacket(hook)}
  /\ UNCHANGED <<packs, received, memory, patched, last>>

\* restorePatchPackExtraSettingDefaults_, and enablePatchPack_ for a pack
\* that is enabled by default
Added(pack) ==
  [pack EXCEPT
     !.info.isCurrentlyEnabled = pack.info.isDefaultEnabled,
     !.info.extraSettings =
       [i \in DOMAIN @ |-> [@[i] EXCEPT !.currentValue = pack.info.extraSettings[i].defaultValue]]]

NamedReplaces(pack) == {i \in DOMAIN pack.patches : pack.patches[i].type = "REPLACE_NAME"}

\* addPatchPack: the patches of one pack are not compared with each other.
AddPatchPack(pack) ==
  /\ sent = NoPacket /\ Len(hooks) + Len(packs) < MaxRegistered
  /\ pack.info.name # <<>> /\ \A i \in DOMAIN packs : packs[i].info.name # pack.info.name
  /\ ToSet(pack.requiredPlugins) \subseteq LoadedPlugins
  /\ \A i \in DOMAIN pack.patches :
       /\ checkPatchValid(pack.patches[i])
       /\ pack.patches[i].type = "HOOK" =>
            \E h \in DOMAIN hooks : hooks[h].name = pack.patches[i].data.hookName
  /\ \A i \in NamedReplaces(pack), p \in DOMAIN packs : \A j \in NamedReplaces(packs[p]) :
       ~checkOverlapWith(pack.patches[i].data, packs[p].patches[j].data)
  /\ packs' = Append(packs, Added(pack))
  /\ sent' \in {NoPacket} \cup IF pack.info.isDefaultEnabled THEN {PackPacket(Added(pack))} ELSE {}
  /\ UNCHANGED <<hooks, received, memory, patched, last>>

\* setPatchPackExtraSetting
SetExtraSetting(label, text) ==
  \E p \in DOMAIN packs :
    LET place == getExtraSettingByLabel(packs[p].info.extraSettings, label)
    IN  /\ sent = NoPacket /\ place # Throws
        /\ packs' = [packs EXCEPT ![p].info.extraSettings[place].currentValue = text]
        /\ UNCHANGED <<hooks, sent, received, memory, patched, last>>

\* updateCoreAboutPatchPack_, updateCoreAboutHook_: a core that has just
\* connected is told everything.
SendAgain ==
  /\ sent = NoPacket
  /\ \/ \E i \in DOMAIN hooks : sent' = HookPacket(hooks[i])
     \/ \E i \in DOMAIN packs : sent' = PackPacket(packs[i])
  /\ UNCHANGED <<hooks, packs, received, memory, patched, last>>

-----------------------------------------------------------------------------
(* The core *)

Alive == last.how \notin {"died", "hangs"}

\* patchHookReceiveHandler_, patchPackReceiveHandler_
Receive ==
  LET data == deserialiseIntegralTypeContinuousContainer(sent.data).value
  IN  /\ sent # NoPacket /\ received = NotYet
      /\ \E swapped \in IF sent.kind = "pack" THEN BOOLEAN ELSE {FALSE} :
           received' = [kind |-> sent.kind, swapped |-> swapped,
                        object |-> IF sent.kind = "hook" THEN deserialiseHook(data)
                                   ELSE deserialisePatchPack(data, swapped)]
      /\ UNCHANGED <<hooks, packs, sent, memory, patched, last>>

\* applyHook_: every byte is ignored but those of the call.
PatchOfHook(hook) ==
  LET size == Len(hook.data.search.searchBytes)
      bytes == [i \in 1..size |-> IF i = hook.hookRva + 1 THEN CallOpCode ELSE Base - 1]
      ignored == 0..size - 1 \ {hook.hookRva}
  IN  IF hook.type = "NAME"
      THEN setType(NewPatch, "REPLACE_NAME", ReplaceName(hook.data, bytes, ignored))
      ELSE setType(NewPatch, "REPLACE_SEARCH", ReplaceSearch(hook.data.search, bytes, ignored))

\* The patches and the addresses that the core gives to addToQueue().
Queued ==
  CASE received.kind = "hook" ->
         {[patch |-> PatchOfHook(received.object), relative |-> received.object.hookRva + 1]}
    [] received.kind = "pack" /\ received.object.info.isCurrentlyEnabled ->
         {[patch |-> received.object.patches[i], relative |-> -1] :
            i \in {j \in DOMAIN received.object.patches : received.object.patches[j].type # "HOOK"}}
    [] OTHER -> {}

\* What the bytes at a result become: an address is relative to its end.
NewBytes(m, address, patch, relative) ==
  LET data == patch.data
      call == PointerBytes((Wrapper - (address + relative + PtrBytes)) % AddressSpace)
      New(rva) == IF relative >= 0 /\ rva \in relative..relative + PtrBytes - 1
                   THEN call[rva - relative + 1]
                   ELSE IF rva \in data.ignoredReplaceBytesRvas THEN m.byte[address + rva]
                   ELSE data.replaceBytes[rva + 1]
  IN  [i \in DOMAIN data.replaceBytes |-> New(i - 1)]

\* The pages of one result are made writable, its bytes are saved and
\* written, and the pages are changed back.
Opened(m, page) == Protected(m, [page EXCEPT !.isReadable = TRUE, !.isWritable = TRUE])
Replaced(state, address) ==
  LET m == state.memory
      size == Len(state.patch.data.replaceBytes)
      pages == queryPage(m, address, size)
      open1 == Folded(m, pages, Opened)
      written == Written(open1, address, NewBytes(m, address, state.patch, state.relative))
  IN  CASE state.how # "patched" -> state
        [] state.how = "patched" /\ pages = InvalidPage -> [state EXCEPT !.how = "throws"]
        [] OTHER ->
             IF ~Writable(open1, address, size) THEN [state EXCEPT !.how = "died", !.memory = open1]
             ELSE [state EXCEPT !.memory = Restored(written, pages),
                     !.results = Append(@, [address |-> address,
                                            original |-> BytesAt(open1, address, size)])]

Ended(op, how, patch, found) ==
  last' = [op |-> op, how |-> how, patch |-> patch, before |-> memory, found |-> found]

\* The results of a search replaced, one after the other.
PatchResults(queued, finding) ==
  Folded([patch |-> queued.patch, relative |-> queued.relative, memory |-> finding.memory,
          results |-> <<>>, how |-> "patched"],
         Ascending(finding.found), Replaced)

NothingFound(patch, finding) ==
  /\ finding.how # "found" \/ finding.found = {}
  /\ memory' = finding.memory /\ patched' = patched
  /\ Ended("search", finding.how, patch, finding.found)

AllReplaced(patch, found, done) ==
  /\ memory' = done.memory
  /\ patched' = IF done.how = "patched"
                THEN [patch |-> patch, results |-> done.results, before |-> memory]
                ELSE patched
  /\ Ended("patch", done.how, patch, found)

PassOver(queued, finding) ==
  \/ NothingFound(queued.patch, finding)
  \/ /\ finding.how = "found" /\ finding.found # {}
     /\ AllReplaced(queued.patch, finding.found, PatchResults(queued, finding))

\* One pass of the thread of Patcher over a patch.
Pass ==
  \E queued \in Queued :
    /\ patched = NoPatch /\ Alive
    /\ PassOver(queued, IF queued.patch.type = "REPLACE_NAME" THEN doNameSearch(memory, queued.patch.data)
                        ELSE doSearch(memory, queued.patch.data.search))
    /\ UNCHANGED <<hooks, packs, sent, received>>

\* undoPatchGroup
Copied(state, result) ==
  IF state.how # "copied" THEN state ELSE safeCopy(state.memory, result.original, result.address)
Undo ==
  LET done == Folded([how |-> "copied", memory |-> memory], patched.results, Copied)
  IN  /\ patched # NoPatch /\ Alive
      /\ memory' = done.memory
      /\ patched' = NoPatch
      /\ last' = [op |-> "undo", how |-> done.how, patch |-> patched.patch,
                  before |-> patched.before,
                  found |-> {patched.results[i].address : i \in DOMAIN patched.results}]
      /\ UNCHANGED <<hooks, packs, sent, received>>

Texts == {<<1>>}
Labels == {<<2>>}

Next ==
  \/ \E hook \in Hooks : RegisterHook(hook)
  \/ \E pack \in Packs : AddPatchPack(pack)
  \/ \E label \in Labels, text \in Texts : SetExtraSetting(label, text)
  \/ SendAgain \/ Receive \/ Pass \/ Undo

Spec == Init /\ [][Next]_vars

-----------------------------------------------------------------------------
(* Properties *)

\* The name of the module of a named relative call, which is not sent, is
\* the main program's in the core (NamedRelativeFunctionCallSpecialSearch).
SpecialAsSent(inner, special) ==
  CASE special.type = "NAMED_RELATIVE_FUNCTION_CALL" -> [special EXCEPT !.data.moduleName = <<>>]
    [] special.type \in SearchTypes -> [special EXCEPT !.data = inner[@]]
    [] OTHER -> special
SearchesAsSent(inner, depth) ==
  [search \in SearchesTo(depth) |->
     [search EXCEPT !.specialSearches = [i \in DOMAIN @ |-> SpecialAsSent(inner, @[i])]]]
AsSent(search) == Folded(<<>>, Counter(Depth), SearchesAsSent)[search]

PatchAsSent(patch) ==
  IF patch.type \in {"BLANK", "HOOK"} THEN patch ELSE [patch EXCEPT !.data.search = AsSent(@)]

\* A core has the hook and the pack that the manager registered, whatever
\* is empty or nested in them, but for the name above and for shared
\* variables that were read in the other order.
ReceivedAsSent ==
  LET hook == sent.object
      pack == [sent.object EXCEPT !.patches = [i \in DOMAIN @ |-> PatchAsSent(@[i])]]
  IN  CASE received.kind = "none" -> TRUE
        [] received.kind = "hook" -> received.object = [hook EXCEPT !.data.search = AsSent(@)]
        [] received.kind = "pack" ->
             IF received.swapped
             THEN [received.object EXCEPT !.sharedVariables = pack.sharedVariables] = pack
             ELSE received.object = pack

\* Whether the bytes of the search are at the address.
BytesMatch(m, search, address) ==
  \A i \in DOMAIN search.searchBytes :
    i - 1 \in search.ignoredSearchBytesRvas \/ m.byte[address + i - 1] = search.searchBytes[i]

\* The pages that a search goes through: from the first to the last one of
\* the module, or those around each one of the function's bytes that are
\* like it.
SearchedPages(m, patch) ==
  LET search == patch.data.search
      of == open(m, search.moduleName)
      pathfile == (IF of.path = <<Slash>> THEN of.path ELSE of.path \o <<Slash>>) \o of.file
      own == {p \in DOMAIN m.page : m.page[p].pathfile = pathfile}
      first == PageOf(getSymbol(of, patch.data.functionName) + patch.data.functionRva)
      expected == first..first + (Len(search.searchBytes) - 1) \div PageSize
  IN  IF patch.type = "REPLACE_SEARCH" THEN Min(own)..Max(own)
      ELSE {q \in DOMAIN m.page : \E p \in expected : \A r \in Min({p, q})..Max({p, q}) :
              r \in DOMAIN m.page /\ m.page[r] = m.page[p]}

\* The addresses where the search fits in a run of pages that are alike.
Places(m, patch) ==
  LET size == Len(patch.data.search.searchBytes)
      pages == SearchedPages(m, patch)
  IN  {a \in DOMAIN m.byte :
         /\ PageOf(a) \in pages
         /\ \A p \in PageOf(a)..PageOf(a + size - 1) : p \in pages /\ m.page[p] = m.page[PageOf(a)]}

\* What a search that ends has found are places of its bytes that do not
\* overlap, and without special searches all that were left after those
\* before them; so a patch never writes over bytes it was not made for, nor
\* over its own.
FoundIsReference ==
  last.how = "found" \/ last.op = "patch" =>
    LET search == last.patch.data.search
        size == Len(search.searchBytes)
        matches == {a \in Places(last.before, last.patch) : BytesMatch(last.before, search, a)}
    IN  /\ last.found \subseteq matches
        /\ \A a, b \in last.found : a < b => a + size <= b
        /\ search.specialSearches = <<>> =>
             \A a \in matches : \E b \in last.found : b <= a /\ a < b + size

SomeCross == \E a \in last.found : PageOf(a) # PageOf(a + Len(last.patch.data.search.searchBytes) - 1)

\* Protections are what they were after every pass that does not throw, the
\* bytes of the application are what they were once a patch is undone, and
\* it dies in neither unless a result lies on two pages (alignPage() is
\* given a size for an end, so that the second is not made writable).
MemoryIsRestored ==
  /\ last.how \in {"found", "patched", "copied"} => memory.page = last.before.page
  /\ last.op = "search" => memory.byte = last.before.byte
  /\ last.op = "undo" /\ last.how = "copied" => memory = last.before
  /\ last.op \in {"patch", "undo"} /\ last.how = "died" => SomeCross
  /\ last.op = "undo" => last.how # "throws"

Apart(s, t) ==
  ~SameFunction(s, t)
    \/ s.functionRva + Len(s.search.searchBytes) <= t.functionRva
    \/ t.functionRva + Len(t.search.searchBytes) <= s.functionRva

Longer(s, t) == Len(s.search.searchBytes) > Len(t.search.searchBytes)

\* Two hooks in the same function, or two replacements of two packs, do not
\* share a byte, if the later one is not the longer one (checkOverlapWith).
RegisteredApart ==
  /\ \A i, j \in DOMAIN hooks :
       i < j /\ hooks[i].type = "NAME" /\ hooks[j].type = "NAME" =>
         Longer(hooks[j].data, hooks[i].data) \/ Apart(hooks[i].data, hooks[j].data)
  /\ \A p, q \in DOMAIN packs : p < q =>
       \A i \in NamedReplaces(packs[p]), j \in NamedReplaces(packs[q]) :
         LET older == packs[p].patches[i].data
             newer == packs[q].patches[j].data
         IN  Longer(newer, older) \/ Apart(older, newer)
=============================================================================
