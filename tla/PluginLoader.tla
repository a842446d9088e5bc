----------------------------- MODULE PluginLoader -----------------------------
(***************************************************************************)
(* A core's PluginLoader (core/PluginLoader.cpp): what its handlers make   *)
(* of a state c and a packet.                                              *)
(***************************************************************************)
EXTENDS PluginHost

\* add_ with a library that loads: a disabled plugin is not told anything.
AddLoaded(c, info) ==
  LET d == Listed(c, info.name, info.value) IN
  IF info.enabled THEN Enable(d, Len(d.plugins)) ELSE {d}

\* add_: a library that does not load is only logged; one without
\* createInstance makes it throw.
AddPlugin(c, info) ==
  IF info.name \notin HasCore THEN {c}
  ELSE AddLoaded(c, info) \cup Blames(c, info.name) \cup Fails(c, info.name)

WithInfo(c, i, info, enabled) ==
  [c EXCEPT !.plugins[i].value = info.value, !.plugins[i].enabled = enabled]

\* Mutant: the new info says that it is enabled already.
UpdateInPlace(c, i, info) == OnSettingChange(WithInfo(c, i, info, info.enabled), i)

\* update_
Update(c, i, info) ==
  LET wasEnabled == c.plugins[i].enabled
      d == WithInfo(c, i, info, wasEnabled) IN
  IF info.enabled = wasEnabled THEN OnSettingChange(d, i)
  ELSE IF info.enabled THEN Enable(d, i) ELSE Disable(d, i)

\* remove_
RemoveCorePlugin(c, i) == Then(Disable(c, i), LAMBDA d : {Erase(d, i)})

\* removeAll_, in the destructor
RemoveAllCorePlugins(c) ==
  Repeat(c, Len(c.plugins), LAMBDA d : d.plugins = <<>>, LAMBDA d : RemoveCorePlugin(d, 1))

\* pluginReceiveHandler_, pluginRemoveReceiveHandler_
Handle(c, packet) ==
  IF packet.type = "PLUGIN"
  THEN IF IndexOf(c, packet.info.name) = {} THEN AddPlugin(c, packet.info)
       ELSE Update(c, At(c, packet.info.name), packet.info)
  ELSE IF IndexOf(c, packet.name) = {} THEN {c} ELSE RemoveCorePlugin(c, At(c, packet.name))
=============================================================================
