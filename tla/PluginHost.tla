------------------------------ MODULE PluginHost ------------------------------
(***************************************************************************)
(* What manager/PluginManager.cpp and core/PluginLoader.cpp do alike: the  *)
(* vector plugins_ of each, on a state s of its process.                   *)
(*                                                                         *)
(*   s.plugins   plugins_: name, isCurrentlyEnabled and the value of an    *)
(*               extra setting from info; whether the plugin itself was    *)
(*               enabled last (isActive), and what it was last told (heard)*)
(*   s.loaded    how often each plugin's library is loaded                 *)
(*   s.crashed   a plugin was destroyed whose library was not loaded       *)
(*   s.blamed    the plugins that threw or could not be loaded             *)
(*   s.sent      what a call sends to the cores: a core sends nothing      *)
(***************************************************************************)
EXTENDS Outcomes, FiniteSets

CONSTANTS
  Plugin,      \* names of plugins, each with a library of its own
  Value,       \* values of an extra setting
  DefaultOf,   \* its default
  DefaultEnabled,   \* the plugins with isDefaultEnabled
  HasCore,     \* the plugins with a core plugin that can be loaded
  MaxFaults    \* bound: callbacks that throw and libraries that do not load

\* The faults of both processes count.
Blames(s, name) ==
  {[t EXCEPT !.faults = @ + 1, !.blamed = @ \cup {name}] : t \in {u \in {s} : u.faults < MaxFaults}}

Fails(s, name) == {Throws(t) : t \in Blames(s, name)}

NewHost == [plugins |-> <<>>, loaded |-> [p \in Plugin |-> 0], crashed |-> FALSE,
            blamed |-> {}, faults |-> 0, threw |-> FALSE, sent |-> <<>>]

IndexOf(s, name) == {i \in DOMAIN s.plugins : s.plugins[i].name = name}
At(s, name) == CHOOSE i \in IndexOf(s, name) : TRUE

InfoOf(plugin) == [name |-> plugin.name, enabled |-> plugin.enabled, value |-> plugin.value]
NewPlugin(name, value) ==
  [name |-> name, enabled |-> FALSE, value |-> value, isActive |-> FALSE, heard |-> <<>>]

\* The library is loaded, and plugins_.push_back()
Listed(s, name, value) ==
  [s EXCEPT !.plugins = Append(@, NewPlugin(name, value)), !.loaded[name] = @ + 1]

\* plugin.plugin->onSettingChange(plugin.info)
OnSettingChange(s, i) ==
  LET t == [s EXCEPT !.plugins[i].heard = <<InfoOf(s.plugins[i])>>] IN
  {t} \cup Fails(t, s.plugins[i].name)

OnEnable(s, i) ==
  {[s EXCEPT !.plugins[i].isActive = TRUE]} \cup Fails(s, s.plugins[i].name)

\* The callers gobble what it throws.
OnDisable(s, i) ==
  LET t == [s EXCEPT !.plugins[i].isActive = FALSE] IN
  {t} \cup Blames(t, s.plugins[i].name)

\* Mutant: a plugin that throws is marked as enabled.
EnableFirst(s, i) ==
  IF s.plugins[i].enabled THEN {s}
  ELSE Then(OnEnable([s EXCEPT !.plugins[i].enabled = TRUE], i), LAMBDA t : OnSettingChange(t, i))

\* Mutant: the plugin is told before it is marked.
EnableToldFirst(s, i) ==
  IF s.plugins[i].enabled THEN {s}
  ELSE Then(OnEnable(s, i), LAMBDA t :
       Then(OnSettingChange(t, i), LAMBDA u : {[u EXCEPT !.plugins[i].enabled = TRUE]}))

\* enable_, up to what the manager sends.
Enable(s, i) ==
  IF s.plugins[i].enabled THEN {s}
  ELSE Then(OnEnable(s, i), LAMBDA t : OnSettingChange([t EXCEPT !.plugins[i].enabled = TRUE], i))

\* disable_, up to what the manager sends.
Disable(s, i) ==
  IF ~ s.plugins[i].enabled THEN {s}
  ELSE Then(OnDisable(s, i), LAMBDA t : OnSettingChange([t EXCEPT !.plugins[i].enabled = FALSE], i))

\* dlclose()
Unloaded(loaded, name) == [loaded EXCEPT ![name] = @ - 1]

\* Module::operator=(Module&&) forgets the handle it had: nothing is unloaded.
Overwritten(loaded, name) == loaded

\* plugins_.erase(): the last one is destroyed, the plugin before its module.
\* Another one is assigned what comes after it, the module before the plugin.
Erase(s, i) ==
  LET name == s.plugins[i].name
      isLast == i = Len(s.plugins)
      assigned == IF isLast THEN s.loaded ELSE Overwritten(s.loaded, name) IN
  [s EXCEPT !.plugins = RemoveAt(@, i),
            !.crashed = @ \/ assigned[name] = 0,
            !.loaded = IF isLast THEN Unloaded(@, name) ELSE assigned]
-----------------------------------------------------------------------------
HostOK(s) ==
  /\ \A i \in DOMAIN s.plugins :
       /\ InfoOf(s.plugins[i]) \in [name : Plugin, enabled : BOOLEAN, value : Value]
       /\ IndexOf(s, s.plugins[i].name) = {i}
  /\ s.loaded \in [Plugin -> Nat] /\ s.blamed \subseteq Plugin
  /\ s.faults \in 0..MaxFaults /\ ~ s.threw

EnabledAreActiveIn(s) ==
  \A i \in DOMAIN s.plugins : s.plugins[i].enabled <=> s.plugins[i].isActive

EnabledHeardIn(s) ==
  \A i \in DOMAIN s.plugins :
    s.plugins[i].enabled => s.plugins[i].heard = <<InfoOf(s.plugins[i])>>

CodeIsLoadedIn(s) ==
  ~ s.crashed /\ \A i \in DOMAIN s.plugins : s.loaded[s.plugins[i].name] > 0
=============================================================================
