----------------------------- MODULE PluginSystem -----------------------------
(***************************************************************************)
(* PluginManager in the manager and PluginLoader in a core, with the       *)
(* packets between them.  The client makes the calls one after the other;  *)
(* the core handles packets when it likes.                                 *)
(***************************************************************************)
EXTENDS PluginManager, PluginLoader

CONSTANT MaxCalls   \* bound: calls of the API

ASSUME PluginAssumption ==
  /\ MaxCalls \in Nat /\ MaxFaults \in Nat
  /\ DefaultOf \in Value /\ DefaultEnabled \subseteq Plugin /\ HasCore \subseteq Plugin

VARIABLES
  manager,     \* the state of PluginManager
  core,        \* the state of PluginLoader, when there is a core
  connected,   \* whether there is one
  toCore,      \* packets it has not handled
  calls

vars == <<manager, core, connected, toCore, calls>>

Init ==
  /\ manager = NewHost /\ core = NewHost
  /\ connected = FALSE /\ toCore = <<>> /\ calls = 0

Caught(s) == [s EXCEPT !.threw = FALSE]

\* A call, in each of its outcomes; the client catches what it throws.
Runs(outcomes, hasCore) ==
  /\ calls < MaxCalls /\ calls' = calls + 1
  /\ \E s \in outcomes :
       /\ manager' = [Caught(s) EXCEPT !.sent = <<>>]
       /\ toCore' = IF hasCore THEN toCore \o s.sent ELSE toCore

Calling(outcomes) == Runs(outcomes, connected) /\ UNCHANGED <<core, connected>>

CallAdd == \E p \in Plugin : Calling(Add(manager, p))
CallRemove == \E p \in Plugin : Calling(RemoveOne(manager, p))
CallRemoveAll == Calling(RemoveAll(manager))
CallEnable == \E p \in Plugin, enabled \in BOOLEAN : Calling(EnableOne(manager, p, enabled))
CallEnableAll == \E enabled \in BOOLEAN : Calling(EnableAll(manager, enabled))
CallSetExtraSettingValue ==
  \E p \in Plugin, value \in Value : Calling(SetExtraSettingValue(manager, p, value))
CallRestoreAllExtraSettingDefaults == Calling(RestoreAllExtraSettingDefaults(manager))
CallUpdateCoresAbout == \E p \in Plugin : Calling(UpdateCoresAboutOne(manager, p))
CallUpdateCoresAboutAll == Calling(UpdateCoreAboutAll(manager))

\* The manager exits. No call comes after it; its core is cut off, and
\* handles what it was sent.
Exit ==
  /\ calls < MaxCalls /\ calls' = MaxCalls
  /\ \E s \in Destroy(manager) : manager' = Caught(s)
  /\ connected' = FALSE
  /\ UNCHANGED <<core, toCore>>

\* A core is started, and told of everything.
Connect ==
  /\ ~ connected /\ connected' = TRUE /\ core' = NewHost
  /\ Runs(UpdateCoreAboutAll(manager), TRUE)

\* The core's listener: a handler that throws is logged.
HandlePacket ==
  /\ toCore # <<>> /\ toCore' = Tail(toCore)
  /\ \E c \in Handle(core, Head(toCore)) : core' = Caught(c)
  /\ UNCHANGED <<manager, connected, calls>>

\* The core's destructors: one that throws ends the process.
Leave ==
  /\ connected /\ connected' = FALSE /\ toCore' = <<>>
  /\ \E c \in RemoveAllCorePlugins(core) : core' = Caught(c)
  /\ UNCHANGED <<manager, calls>>

Next ==
  \/ CallAdd \/ CallRemove \/ CallRemoveAll \/ CallEnable \/ CallEnableAll
  \/ CallSetExtraSettingValue \/ CallRestoreAllExtraSettingDefaults
  \/ CallUpdateCoresAbout \/ CallUpdateCoresAboutAll
  \/ Connect \/ HandlePacket \/ Leave \/ Exit

Spec == Init /\ [][Next]_vars
-----------------------------------------------------------------------------
TypeOK ==
  /\ \A s \in {manager, core} : HostOK(s)
  /\ manager.sent = <<>> /\ connected \in BOOLEAN /\ calls \in 0..MaxCalls
  /\ \A i \in DOMAIN toCore : toCore[i].type \in {"PLUGIN", "PLUGIN_REMOVE"}

\* What is counted as enabled is what was enabled last and not disabled since,
\* in the manager and in the core, whatever the callbacks throw.
EnabledAreActive == \A s \in {manager, core} : EnabledAreActiveIn(s)

\* An enabled plugin was last told of the info that it has now, also when it
\* was enabled, updated or told of a new value while it was disabled.
EnabledHeard == \A s \in {manager, core} : EnabledHeardIn(s)

\* The library of a plugin is loaded for as long as the plugin is listed, and
\* while it is destroyed: in a vector that is erased from anywhere.
CodeIsLoaded == \A s \in {manager, core} : CodeIsLoadedIn(s)

\* Each plugin of a core is as the manager has it, once every packet is
\* handled, unless that plugin itself threw or could not be loaded: the errors
\* of one are not those of another.
Mirrored ==
  connected /\ toCore = <<>> =>
    \A p \in HasCore \ (manager.blamed \cup core.blamed) :
      {InfoOf(core.plugins[i]) : i \in IndexOf(core, p)}
        = {InfoOf(manager.plugins[i]) : i \in IndexOf(manager, p)}
=============================================================================
