------------------------------- MODULE MCPlugins -------------------------------
(***************************************************************************)
(* Two plugins, of which one is enabled when it is added; both have a core *)
(* plugin.                                                                 *)
(***************************************************************************)
EXTENDS PluginSystem
=============================================================================
