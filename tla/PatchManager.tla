----------------------------- MODULE PatchManager -----------------------------
(***************************************************************************)
(* The manager's PatchManager (manager/PatchManager.cpp), each operation   *)
(* from a state s to its outcomes.  Beside the parts of PatchCompiler:     *)
(*                                                                         *)
(*   s.hooks      hooks_: name, source and dependantPatchPacks             *)
(*   s.packs      patchPacks_: name and isCurrentlyEnabled                 *)
(*   s.capacity   of patchPacks_: an iterator into it is good for as long  *)
(*                as it does not move, and means an index                  *)
(*   s.sent       what is sent to the cores, in order                      *)
(*   s.resent     a hook was sent to cores that have it                   *)
(*   s.undefined  an iterator was used that points nowhere                 *)
(***************************************************************************)
EXTENDS PatchCompiler

CONSTANTS
  Hook, Pack,       \* names
  Source,           \* what a hook may be made of
  HooksUsed,        \* the hooks that a pack's patches of type HOOK name
  Replaces,         \* the packs that have replacement patches
  DefaultEnabled    \* the packs with isDefaultEnabled

Item == Hook \cup Pack

NewManager(objects, modified, library, crc32) ==
  [hooks |-> <<>>, packs |-> <<>>, capacity |-> 0, sent |-> <<>>,
   objects |-> objects, modified |-> modified, library |-> library, crc32 |-> crc32,
   isAllSkipped |-> TRUE, faults |-> 0, threw |-> FALSE, resent |-> FALSE, undefined |-> FALSE]

Nothing == [item \in Item |-> Missing]

Send(s, packet) == {[s EXCEPT !.sent = Append(@, packet)]}

Named(entries, name) == {i \in DOMAIN entries : entries[i].name = name}

\* getIteratorToHook_, getIteratorToPatchPack_: they throw when there is none.
WithNamed(s, entries, name, f(_)) ==
  IF Named(entries, name) = {} THEN {Throws(s)}
  ELSE f(CHOOSE i \in Named(entries, name) : TRUE)

\* A pack has one source: its name.
CompileAll(s) ==
  Then(ForEach(s, s.hooks, LAMBDA t, hook : Compile(t, hook.name, hook.source)),
       LAMBDA t : ForEach(t, t.packs, LAMBDA u, pack : Compile(u, pack.name, pack.name)))

\* compileHooksAndPatchPacks
CompileHooksAndPatchPacks(s) ==
  Then(CompileAll([s EXCEPT !.isAllSkipped = TRUE]), LAMBDA t :
    IF t.isAllSkipped THEN {t}
    ELSE Then(Send(t, [type |-> "PATCH_LIB_UNLOAD"]), LAMBDA u :
         Then(LinkObjects(u), LAMBDA v : Send(v, [type |-> "PATCH_LIB_LOAD"]))))

UpdateCoresAboutHook(s, hook) ==
  Then(CompileHooksAndPatchPacks(s), LAMBDA t :
    Send(t, [type |-> "PATCH_HOOK", name |-> hook.name, source |-> hook.source]))

UpdateCoresAboutPatchPack(s, pack) ==
  Then(CompileHooksAndPatchPacks(s), LAMBDA t :
    Send(t, [type |-> "PATCH_PACK", name |-> pack.name, enabled |-> pack.enabled]))

\* What finishConnectCore_ has a new core told.
UpdateCoreAboutAll(s) ==
  Then(ForEach(s, s.hooks, UpdateCoresAboutHook), LAMBDA t :
    ForEach(t, t.packs, UpdateCoresAboutPatchPack))

-----------------------------------------------------------------------------
(* Hooks.                                                                  *)

RegisterHook(s, name, source) ==
  LET hook == [name |-> name, source |-> source, dependants |-> <<>>] IN
  IF Named(s.hooks, name) # {} THEN {Throws(s)}
  ELSE UpdateCoresAboutHook([s EXCEPT !.hooks = Append(@, hook)], hook)

-----------------------------------------------------------------------------
(* Patch packs.                                                            *)

\* enablePatchPack_, disablePatchPack_
SetEnabled(s, i, enabled) ==
  LET t == [s EXCEPT !.packs[i].enabled = enabled] IN
  UpdateCoresAboutPatchPack(t, t.packs[i])

\* Each patch that uses a hook adds the new pack to it.
AddDependants(s, hooksUsed, iterator) ==
  {[s EXCEPT !.hooks = [i \in DOMAIN s.hooks |->
      [s.hooks[i] EXCEPT !.dependants =
         @ \o [j \in 1..Cardinality({k \in DOMAIN hooksUsed : hooksUsed[k] = s.hooks[i].name})
                |-> iterator]]]]}

\* It is enabled before the hooks know of it.
AddPatchPack(s, name) ==
  LET n == Len(s.packs) + 1
      t == [s EXCEPT !.packs = Append(@, [name |-> name, enabled |-> FALSE]),
                     !.capacity = Grown(@, n)]
  IN
  IF Named(s.packs, name) # {} \/ \E i \in DOMAIN HooksUsed[name] : Named(s.hooks, HooksUsed[name][i]) = {}
  THEN {Throws(s)}
  ELSE Then(IF name \in DefaultEnabled THEN SetEnabled(t, n, TRUE) ELSE {t},
            LAMBDA u : AddDependants(u, HooksUsed[name], <<u.capacity, n>>))

\* The pack is taken out of the first place it has in the hook's dependants.
RemoveDependant(s, hookName, iterator) ==
  WithNamed(s, s.hooks, hookName, LAMBDA h :
    LET places == {j \in DOMAIN s.hooks[h].dependants : s.hooks[h].dependants[j] = iterator} IN
    {IF places = {} THEN s
     ELSE [s EXCEPT !.hooks[h].dependants =
             RemoveAt(@, CHOOSE j \in places : \A k \in places : j <= k)]})

\* removePatchPack_
RemoveAtIndex(s, i) ==
  LET name == s.packs[i].name IN
  Then(ForEach(s, HooksUsed[name], LAMBDA t, hook : RemoveDependant(t, hook, <<t.capacity, i>>)),
    LAMBDA t : Then(SetEnabled(t, i, FALSE),
    LAMBDA u : Then(Send(u, [type |-> "PATCH_PACK_REMOVE", name |-> name]),
    LAMBDA v : {[v EXCEPT !.packs = RemoveAt(@, i)]})))

\* An iterator into a buffer that was given up, or past the end, points nowhere.
IsDangling(s, iterator) == iterator[1] # s.capacity \/ iterator[2] > Len(s.packs)

RemoveFirstDependant(s, h) ==
  LET first == Head(s.hooks[h].dependants)
      t     == [s EXCEPT !.hooks[h].dependants = Tail(@)]
  IN  IF IsDangling(s, first) THEN {[t EXCEPT !.undefined = TRUE, !.threw = TRUE]}
      ELSE RemoveAtIndex(t, first[2])

\* unregisterHook_
UnregisterAtIndex(s, h) ==
  Then(Repeat(s, Len(s.hooks[h].dependants), LAMBDA t : t.hooks[h].dependants = <<>>,
              LAMBDA t : RemoveFirstDependant(t, h)),
    LAMBDA t : Then(Send(t, [type |-> "PATCH_HOOK_REMOVE", name |-> t.hooks[h].name]),
    LAMBDA u : {[u EXCEPT !.hooks = RemoveAt(@, h)]}))

-----------------------------------------------------------------------------
(* The calls of the API.                                                   *)

UnregisterHook(s, name) ==
  WithNamed(s, s.hooks, name, LAMBDA h : UnregisterAtIndex(s, h))
UnregisterAllHooks(s) ==
  Repeat(s, Len(s.hooks), LAMBDA t : t.hooks = <<>>, LAMBDA t : UnregisterAtIndex(t, 1))
RemovePatchPack(s, name) ==
  WithNamed(s, s.packs, name, LAMBDA i : RemoveAtIndex(s, i))
RemoveAllPatchPacks(s) ==
  Repeat(s, Len(s.packs), LAMBDA t : t.packs = <<>>, LAMBDA t : RemoveAtIndex(t, 1))
EnablePatchPack(s, name, enabled) ==
  WithNamed(s, s.packs, name, LAMBDA i : SetEnabled(s, i, enabled))
EnableAllPatchPacks(s, enabled) ==
  ForEach(s, [i \in DOMAIN s.packs |-> i], LAMBDA t, i : SetEnabled(t, i, enabled))

\* updateCoresAboutHook, updateCoresAboutAllHooks
TellAboutHook(s, name) ==
  WithNamed(s, s.hooks, name,
            LAMBDA i : UpdateCoresAboutHook([s EXCEPT !.resent = TRUE], s.hooks[i]))
TellAboutAllHooks(s) == ForEach([s EXCEPT !.resent = TRUE], s.hooks, UpdateCoresAboutHook)

\* updateCoresAboutPatchPack, updateCoresAboutAllPatchPacks
TellAboutPatchPack(s, name) ==
  WithNamed(s, s.packs, name, LAMBDA i : UpdateCoresAboutPatchPack(s, s.packs[i]))
TellAboutAllPatchPacks(s) == ForEach(s, s.packs, UpdateCoresAboutPatchPack)
=============================================================================
