----------------------------- MODULE PatchLoader -----------------------------
(***************************************************************************)
(* The core's PatchLoader (core/PatchLoader.cpp), each handler from a      *)
(* state c to its outcomes:                                                *)
(*                                                                         *)
(*   c.hooks, c.packs  hooks_ and patchPacks_, each with its patch group   *)
(*   c.capacity        of hooks_                                           *)
(*   c.library         patcherLibrary_: the source of each object in it,   *)
(*                     or Missing                                          *)
(*   c.functions       the hookPatchFunctions of each hook in the library: *)
(*                     of which pack, and whether it is code of the        *)
(*                     library that is loaded                              *)
(*   c.saved           savedPatcherLibraryState_                           *)
(*   c.groups          the groups that the Patcher has: of which item,     *)
(*                     made from which source, and what their code calls   *)
(***************************************************************************)
EXTENDS Outcomes, Maps

CONSTANTS Hook, Pack, HooksUsed, Replaces, Missing, MaxFaults

NoGroup == 0   \* (PatchGroupId)-1

NoFunctions == [h \in Hook |-> {}]

NewCore ==
  [hooks |-> <<>>, capacity |-> 0, packs |-> <<>>, library |-> Missing,
   functions |-> NoFunctions, saved |-> <<>>, savedCapacity |-> 0,
   groups |-> {}, lastGroup |-> 0, faults |-> 0,
   threw |-> FALSE, aborted |-> FALSE, undefined |-> FALSE]

IsModuleOpen(c) == c.library # Missing

\* getSymbol()
HasSymbol(c, item) == IsModuleOpen(c) /\ c.library[item] # Missing

NamedIn(entries, name) == {i \in DOMAIN entries : entries[i].name = name}
FirstNamed(entries, name) ==
  CHOOSE i \in NamedIn(entries, name) : \A j \in NamedIn(entries, name) : i <= j

-----------------------------------------------------------------------------
(* The Patcher.                                                            *)

\* Mutant: the same id is given again.
ReusesId(c, item, calls, source) ==
  [c EXCEPT !.groups = @ \cup {[id |-> c.lastGroup + 1, item |-> item, calls |-> calls,
                                source |-> source]}]

AddToQueue(c, item, calls, source) ==
  [c EXCEPT !.lastGroup = @ + 1,
            !.groups = @ \cup {[id |-> c.lastGroup + 1, item |-> item, calls |-> calls,
                                source |-> source]}]

UndoPatchGroup(c, id) ==
  IF \E g \in c.groups : g.id = id
  THEN {[c EXCEPT !.groups = {g \in @ : g.id # id}]}
  ELSE {Throws(c)}

-----------------------------------------------------------------------------
(* Hooks.                                                                  *)

ApplyHook(c, i) ==
  LET name == c.hooks[i].name
      added == AddToQueue(c, name, "library", c.library[name])
  IN  IF ~ HasSymbol(c, name) THEN {Throws(c)}
      ELSE {[added EXCEPT !.hooks[i].group = added.lastGroup]}

UnapplyHook(c, i) ==
  Then(UndoPatchGroup(c, c.hooks[i].group), LAMBDA d : {[d EXCEPT !.hooks[i].group = NoGroup]})

\* PATCH_HOOK
RegisterHook(c, packet) ==
  LET n == Len(c.hooks) + 1
      hook == [name |-> packet.name, source |-> packet.source, group |-> NoGroup]
  IN  ApplyHook([c EXCEPT !.hooks = Append(@, hook), !.capacity = Grown(@, n)], n)

\* PATCH_HOOK_REMOVE
UnregisterHook(c, packet) ==
  LET i == FirstNamed(c.hooks, packet.name) IN
  IF NamedIn(c.hooks, packet.name) = {} THEN {c}
  ELSE Then(UnapplyHook(c, i), LAMBDA d : {[d EXCEPT !.hooks = RemoveAt(@, i)]})

-----------------------------------------------------------------------------
(* Patch packs.                                                            *)

\* A missing symbol fails an assertion.
AddFunction(c, pack, hook) ==
  IF HasSymbol(c, pack) /\ HasSymbol(c, hook)
  THEN {[c EXCEPT !.functions[hook] = @ \cup {[pack |-> pack, loaded |-> TRUE]}]}
  ELSE {[c EXCEPT !.aborted = TRUE, !.threw = TRUE]}

EnablePatchPack(c, i) ==
  LET name == c.packs[i].name IN
  IF c.packs[i].enabled THEN {c}
  ELSE Then(ForEach(c, HooksUsed[name], LAMBDA d, hook : AddFunction(d, name, hook)),
    LAMBDA d : LET e == AddToQueue(d, name, "nothing", name) IN
      IF name \in Replaces
      THEN {[e EXCEPT !.packs[i].group = e.lastGroup, !.packs[i].enabled = TRUE]}
      ELSE {[d EXCEPT !.packs[i].group = NoGroup, !.packs[i].enabled = TRUE]})

RemoveFunction(c, pack, hook) ==
  IF HasSymbol(c, pack) /\ HasSymbol(c, hook)
  THEN {[c EXCEPT !.functions[hook] = @ \ {[pack |-> pack, loaded |-> TRUE]}]}
  ELSE {c}

\* Mutant: the group of the pack is not undone.
ForgetsGroup(c, i) ==
  {[c EXCEPT !.packs[i].group = NoGroup, !.packs[i].enabled = FALSE]}

DisablePatchPack(c, i) ==
  LET name == c.packs[i].name IN
  IF ~ c.packs[i].enabled THEN {c}
  ELSE Then(IF c.packs[i].group = NoGroup THEN {c} ELSE UndoPatchGroup(c, c.packs[i].group),
    LAMBDA d : Then(ForEach(d, HooksUsed[name], LAMBDA e, hook : RemoveFunction(e, name, hook)),
    LAMBDA e : {[e EXCEPT !.packs[i].group = NoGroup, !.packs[i].enabled = FALSE]}))

AddPatchPack(c, packet) ==
  LET d == [c EXCEPT !.packs = Append(@, [name |-> packet.name, enabled |-> FALSE,
                                          group |-> NoGroup])]
  IN  IF packet.enabled THEN EnablePatchPack(d, Len(d.packs)) ELSE {d}

\* PATCH_PACK
UpdatePatchPack(c, packet) ==
  LET i == FirstNamed(c.packs, packet.name) IN
  IF NamedIn(c.packs, packet.name) = {} THEN AddPatchPack(c, packet)
  ELSE IF packet.enabled THEN EnablePatchPack(c, i) ELSE DisablePatchPack(c, i)

\* PATCH_PACK_REMOVE
RemovePatchPack(c, packet) ==
  LET i == FirstNamed(c.packs, packet.name) IN
  IF NamedIn(c.packs, packet.name) = {} THEN {c}
  ELSE Then(DisablePatchPack(c, i), LAMBDA d : {[d EXCEPT !.packs = RemoveAt(@, i)]})

-----------------------------------------------------------------------------
(* The patcher library.                                                    *)

SaveHook(c, i) ==
  Then(UnapplyHook(c, i), LAMBDA d :
    IF HasSymbol(d, d.hooks[i].name)
    THEN {[d EXCEPT !.saved = With(@, i, d.functions[d.hooks[i].name])]}
    ELSE {Throws(d)})

Closed(c) ==
  [c EXCEPT !.library = Missing, !.functions = NoFunctions,
            !.groups = {[g EXCEPT !.calls = IF @ = "library" THEN "gone" ELSE @] : g \in @}]

\* Mutant: the hooks are not unapplied.
ClosesAtOnce(c) == {Closed(c)}

\* PATCH_LIB_UNLOAD: the first hook that is not applied ends it.
UnloadLibrary(c) ==
  IF ~ IsModuleOpen(c) THEN {c}
  ELSE Then(ForEach([c EXCEPT !.saved = <<>>, !.savedCapacity = c.capacity],
                    [i \in DOMAIN c.hooks |-> i], SaveHook),
            LAMBDA d : {Closed(d)})

\* The saved functions are addresses in the library that was closed, which
\* may be other functions, or none, in this one; the iterators they are saved
\* under may point nowhere.
RestoreHook(c, i) ==
  LET name == c.hooks[i].name IN
  IF c.savedCapacity # c.capacity \/ i > Len(c.hooks)
  THEN {[c EXCEPT !.undefined = TRUE, !.threw = TRUE]}
  ELSE IF ~ HasSymbol(c, name) THEN ApplyHook(c, i)
  ELSE UNION {ApplyHook([c EXCEPT !.functions[name] =
                          {[f EXCEPT !.loaded = @ /\ same] : f \in c.saved[i]}], i) :
              same \in BOOLEAN}

\* PATCH_LIB_LOAD: dlopen() finds what is on the disk by now.
LoadLibrary(c, onDisk) ==
  Then(UnloadLibrary(c), LAMBDA d :
    IF onDisk = Missing THEN {Throws(d)}
    ELSE {Throws(e) : e \in {[f EXCEPT !.faults = @ + 1] : f \in {g \in {d} : g.faults < MaxFaults}}}
         \cup ForEach([d EXCEPT !.library = onDisk], Ascending(DOMAIN d.saved), RestoreHook))

Handle(c, packet, onDisk) ==
  IF packet.type = "PATCH_HOOK" THEN RegisterHook(c, packet)
  ELSE IF packet.type = "PATCH_HOOK_REMOVE" THEN UnregisterHook(c, packet)
  ELSE IF packet.type = "PATCH_PACK" THEN UpdatePatchPack(c, packet)
  ELSE IF packet.type = "PATCH_PACK_REMOVE" THEN RemovePatchPack(c, packet)
  ELSE IF packet.type = "PATCH_LIB_UNLOAD" THEN UnloadLibrary(c)
  ELSE LoadLibrary(c, onDisk)
=============================================================================
