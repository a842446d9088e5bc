----------------------------- MODULE PluginManager -----------------------------
(***************************************************************************)
(* The manager's PluginManager (manager/PluginManager.cpp), each operation *)
(* from a state s to its outcomes.                                         *)
(***************************************************************************)
EXTENDS PluginHost

Send(s, packet) == {[s EXCEPT !.sent = Append(@, packet)]}

\* updateCoresAbout_, updateCoreAbout_
UpdateCoresAbout(s, i) ==
  Send(s, [type |-> "PLUGIN", info |-> InfoOf(s.plugins[i])])

\* Mutant: the cores are not told.
EnableAlone(s, i) == Enable(s, i)

\* enable_: what is enabled already is not sent again.
EnablePlugin(s, i) ==
  IF s.plugins[i].enabled THEN {s}
  ELSE Then(Enable(s, i), LAMBDA t : UpdateCoresAbout(t, i))

\* disable_
DisablePlugin(s, i) ==
  IF ~ s.plugins[i].enabled THEN {s}
  ELSE Then(Disable(s, i), LAMBDA t : UpdateCoresAbout(t, i))

\* setExtraSettingValue_, restoreExtraSettingDefaults_
SetExtra(s, i, value) ==
  Then(OnSettingChange([s EXCEPT !.plugins[i].value = value], i),
       LAMBDA t : UpdateCoresAbout(t, i))

\* What follows push_back in add.
Introduce(s, i) ==
  Then(SetExtra(s, i, DefaultOf), LAMBDA t :
  Then(IF t.plugins[i].name \in DefaultEnabled THEN EnablePlugin(t, i) ELSE {t},
       LAMBDA u : UpdateCoresAbout(u, i)))

\* Mutant: a plugin that is loaded already is added again.
AddAgain(s, name) ==
  LET t == Listed(s, name, DefaultOf) IN
  Fails(s, name) \cup Introduce(t, Len(t.plugins))

\* add: what was loaded for nothing is unloaded when the call throws.
Add(s, name) ==
  LET t == Listed(s, name, DefaultOf) IN
  Fails(s, name) \cup
  IF IndexOf(s, name) # {} THEN {Throws(s)} ELSE Introduce(t, Len(t.plugins))

\* remove_, when the manager does not exit
RemovePlugin(s, i) ==
  Then(DisablePlugin(s, i), LAMBDA t :
  Then(Send(t, [type |-> "PLUGIN_REMOVE", name |-> t.plugins[i].name]), LAMBDA u : {Erase(u, i)}))

\* getIteratorToPlugin_: a call that names no plugin throws and does nothing.
WithPlugin(s, name, f(_, _)) ==
  IF IndexOf(s, name) = {} THEN {Throws(s)} ELSE f(s, At(s, name))

\* remove, removeAll
RemoveOne(s, name) == WithPlugin(s, name, RemovePlugin)
RemoveAll(s) ==
  Repeat(s, Len(s.plugins), LAMBDA t : t.plugins = <<>>, LAMBDA t : RemovePlugin(t, 1))

SetEnabled(s, i, enabled) == IF enabled THEN EnablePlugin(s, i) ELSE DisablePlugin(s, i)

\* enable, disable
EnableOne(s, name, enabled) ==
  WithPlugin(s, name, LAMBDA t, i : SetEnabled(t, i, enabled))

ForEachPlugin(s, f(_, _)) == ForEach(s, [i \in DOMAIN s.plugins |-> i], f)

\* enableAll, disableAll
EnableAll(s, enabled) == ForEachPlugin(s, LAMBDA t, i : SetEnabled(t, i, enabled))

SetExtraSettingValue(s, name, value) ==
  WithPlugin(s, name, LAMBDA t, i : SetExtra(t, i, value))
RestoreAllExtraSettingDefaults(s) ==
  ForEachPlugin(s, LAMBDA t, i : SetExtra(t, i, DefaultOf))

\* updateCoresAbout, updateCoreAbout and those for all plugins
UpdateCoresAboutOne(s, name) == WithPlugin(s, name, UpdateCoresAbout)
UpdateCoreAboutAll(s) == ForEachPlugin(s, UpdateCoresAbout)

\* ~PluginManager: remove_ with isExiting, which sends nothing.
Destroy(s) ==
  Repeat(s, Len(s.plugins), LAMBDA t : t.plugins = <<>>,
         LAMBDA t : Then(Disable(t, 1), LAMBDA u : {Erase(u, 1)}))
=============================================================================
