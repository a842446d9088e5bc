------------------------------ MODULE PatchSystem ------------------------------
(***************************************************************************)
(* PatchManager with PatchCompiler in the manager, PatchLoader in a core,  *)
(* and the packets between them.  The client makes the calls one after the *)
(* other; the core handles packets when it likes.                          *)
(***************************************************************************)
EXTENDS PatchManager

CONSTANTS MaxCalls, MaxRestarts   \* bounds: calls of the API, restarts of the manager

ASSUME PatchAssumption ==
  /\ MaxCalls \in Nat /\ MaxRestarts \in Nat /\ MaxFaults \in Nat
  /\ Hook \cap Pack = {} /\ Missing \notin Hook \cup Pack \cup Source
  /\ HooksUsed \in [Pack -> Seq(Hook)]
  /\ Replaces \subseteq Pack /\ DefaultEnabled \subseteq Pack

Loader == INSTANCE PatchLoader

VARIABLES
  manager,     \* the state of PatchManager and PatchCompiler
  core,        \* the state of PatchLoader, when there is a core
  connected,   \* whether there is one
  toCore,      \* packets it has not handled
  reported,    \* whether somebody was told of an error, by an exception or a log
  saved,       \* the checksums in the settings file
  killed,      \* whether a manager ended without saving its settings
  calls, restarts

vars == <<manager, core, connected, toCore, reported, saved, killed, calls, restarts>>

Init ==
  /\ manager = NewManager(Nothing, FALSE, Missing, Nothing)
  /\ core = Loader!NewCore /\ connected = FALSE /\ toCore = <<>>
  /\ reported = FALSE /\ saved = Nothing /\ killed = FALSE
  /\ calls = 0 /\ restarts = 0

\* What a call of the manager does, in each of its outcomes.
Runs(outcomes, hasCore) ==
  /\ calls < MaxCalls /\ ~ manager.undefined
  /\ calls' = calls + 1
  /\ \E s \in outcomes :
       /\ manager' = [s EXCEPT !.sent = <<>>, !.threw = FALSE]
       /\ toCore' = IF hasCore THEN toCore \o s.sent ELSE toCore
       /\ reported' = (reported \/ s.threw)
  /\ UNCHANGED <<saved, killed, restarts>>

Calling(outcomes) == Runs(outcomes, connected) /\ UNCHANGED <<core, connected>>

CallRegisterHook ==
  \E h \in Hook, source \in Source : Calling(RegisterHook(manager, h, source))
CallUnregisterHook == \E h \in Hook : Calling(UnregisterHook(manager, h))
CallUnregisterAllHooks == Calling(UnregisterAllHooks(manager))
CallAddPatchPack == \E p \in Pack : Calling(AddPatchPack(manager, p))
CallRemovePatchPack == \E p \in Pack : Calling(RemovePatchPack(manager, p))
CallRemoveAllPatchPacks == Calling(RemoveAllPatchPacks(manager))
CallEnablePatchPack ==
  \E p \in Pack, enabled \in BOOLEAN : Calling(EnablePatchPack(manager, p, enabled))
CallEnableAllPatchPacks ==
  \E enabled \in BOOLEAN : Calling(EnableAllPatchPacks(manager, enabled))
CallCompileHooksAndPatchPacks == Calling(CompileHooksAndPatchPacks(manager))

\* Without a core they only compile.
CallUpdateCoresAboutHook == connected /\ \E h \in Hook : Calling(TellAboutHook(manager, h))
CallUpdateCoresAboutAllHooks == connected /\ Calling(TellAboutAllHooks(manager))
CallUpdateCoresAboutPatchPack == \E p \in Pack : Calling(TellAboutPatchPack(manager, p))
CallUpdateCoresAboutAllPatchPacks == Calling(TellAboutAllPatchPacks(manager))

\* A core is started, and told of everything.
Connect ==
  /\ ~ connected /\ connected' = TRUE
  /\ Runs(UpdateCoreAboutAll(manager), TRUE)
  /\ UNCHANGED core

\* The core's listener: a handler that throws is logged.
HandlePacket ==
  /\ toCore # <<>> /\ ~ core.aborted /\ ~ core.undefined
  /\ toCore' = Tail(toCore)
  /\ \E c \in Loader!Handle(core, Head(toCore), manager.library) :
       /\ core' = [c EXCEPT !.threw = FALSE]
       /\ reported' = (reported \/ c.threw)
  /\ UNCHANGED <<manager, connected, saved, killed, calls, restarts>>

\* The next process of the manager starts cores of its own.
Restart(objects, crc32) ==
  /\ restarts < MaxRestarts /\ restarts' = restarts + 1
  /\ manager' = NewManager(objects, manager.modified, manager.library, crc32)
  /\ core' = Loader!NewCore /\ connected' = FALSE /\ toCore' = <<>> /\ reported' = FALSE
  /\ UNCHANGED calls

\* The destructor of SettingsManager saves.
Exit ==
  /\ ~ manager.undefined
  /\ saved' = manager.crc32
  /\ Restart(manager.objects, manager.crc32)
  /\ UNCHANGED killed

\* It is killed, perhaps when the compiler has just written an object.
Kill ==
  /\ \/ Restart(manager.objects, saved)
     \/ \E h \in Hook, source \in Source :
          Restart([manager.objects EXCEPT ![h] = source], saved)
  /\ killed' = TRUE
  /\ UNCHANGED saved

Next ==
  \/ CallRegisterHook \/ CallUnregisterHook \/ CallUnregisterAllHooks
  \/ CallAddPatchPack \/ CallRemovePatchPack \/ CallRemoveAllPatchPacks
  \/ CallEnablePatchPack \/ CallEnableAllPatchPacks
  \/ CallCompileHooksAndPatchPacks
  \/ CallUpdateCoresAboutHook \/ CallUpdateCoresAboutAllHooks
  \/ CallUpdateCoresAboutPatchPack \/ CallUpdateCoresAboutAllPatchPacks
  \/ Connect \/ HandlePacket \/ Exit \/ Kill

Spec == Init /\ [][Next]_vars
-----------------------------------------------------------------------------
SourceOf == [item \in Item |-> (IF item \in Hook THEN Source ELSE {item}) \cup {Missing}]

\* Every part of the two states holds a value of its type.
TypeOK ==
  /\ \A i \in DOMAIN manager.hooks : manager.hooks[i].name \in Hook /\ manager.hooks[i].source \in Source
  /\ \A i \in DOMAIN manager.packs : manager.packs[i].name \in Pack
  /\ \A item \in Item : {manager.objects[item], manager.crc32[item], saved[item]} \subseteq SourceOf[item]
  /\ manager.sent = <<>> /\ manager.faults \in 0..MaxFaults
  /\ \A i \in DOMAIN core.hooks : core.hooks[i].group \in 0..core.lastGroup
  /\ \A g \in core.groups : g.id \in 1..core.lastGroup
  /\ core.library = Missing \/ \A item \in Item : core.library[item] \in SourceOf[item]

\* The checksum of an object that is there is that of its source.
ChecksumsAgree(s) ==
  \A item \in Item :
    s.objects[item] # Missing /\ s.crc32[item] # Missing => s.crc32[item] = s.objects[item]

\* A compilation that is skipped would have made the object that is there:
\* a checksum is set only after the object was written, whatever fails in
\* between and through a regular exit and a new process.
SkipIsSound == ~ killed => ChecksumsAgree(manager)

\* A group calls nothing, or a wrapper in the library, made of the source
\* that the group was made of.
WrapperIn(library, g) ==
  \/ g.calls = "nothing"
  \/ /\ g.calls = "library" /\ library # Missing
     /\ library[g.item] # Missing /\ library[g.item] = g.source

\* The program jumps only into the library that is loaded, and there into the
\* wrapper its hook was applied with: each hook is undone before a library is
\* unloaded, an unload that cannot undo one leaves the library where it is, and
\* no library takes the place of another under a hook. That is the jump out of
\* the program alone: the functions that the wrapper calls then may be addresses
\* in a library that was unloaded (RestoreHook), and that is not excluded.
WrapperIsLoaded == \A g \in core.groups : WrapperIn(core.library, g)

\* Every group of the Patcher belongs to one hook or pack that can undo it.
NoOrphanGroup ==
  \A g \in core.groups :
    Cardinality({i \in DOMAIN core.hooks : core.hooks[i].group = g.id})
      + Cardinality({i \in DOMAIN core.packs : core.packs[i].group = g.id}) = 1

Applied(i) ==
  \E g \in core.groups :
    g.id = core.hooks[i].group /\ g.source = core.hooks[i].source

EnabledIn(packs) == {packs[i].name : i \in {j \in DOMAIN packs : packs[j].enabled}}

\* The core does what the manager thinks it does: once it has handled every
\* packet, its hooks are the registered ones, each applied with code made of
\* its current source, and the enabled packs agree, unless an error was
\* reported to somebody, the behaviour was undefined, a hook was sent again,
\* which the core then registers twice, or a checksum is not that of its
\* object, as after a kill between a save and the next.
NoSilentDivergence ==
  (/\ connected /\ toCore = <<>> /\ ~ reported /\ ~ manager.undefined /\ ~ manager.resent
   /\ ChecksumsAgree(manager)) =>
    /\ Len(core.hooks) = Len(manager.hooks)
    /\ \A i \in DOMAIN core.hooks :
         /\ core.hooks[i].name = manager.hooks[i].name
         /\ core.hooks[i].source = manager.hooks[i].source
         /\ Applied(i)
    /\ EnabledIn(core.packs) = EnabledIn(manager.packs)

\* "No exceptions should be thrown if the manager did it's job right".
SymbolsAreThere == ~ core.aborted
=============================================================================
