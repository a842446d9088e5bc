------------------------------- MODULE MCPatcher -------------------------------
(***************************************************************************)
(* Instances of Patcher for TLC.  The process is a library at 0..1, maybe  *)
(* loaded late, and an executable at 2..4.  The hook in the executable     *)
(* meets the pack, the one in the library writes past its end.             *)
(***************************************************************************)
EXTENDS Patcher, TLC

MCAddr == 0..4
MCByte == {"A", "B", "C", "n", "rel"}
MCOriginal == 0 :> "C" @@ 1 :> "B" @@ 2 :> "A" @@ 3 :> "B" @@ 4 :> "A"
MCModule == {"exe", "lib"}
MCSegment == "lib" :> 0..1 @@ "exe" :> 2..4

\* One byte of a module is replaced.
Poke(m, from, to) ==
  [module |-> m, search |-> <<{from}>>, replace |-> <<to>>, relative |-> {}]

\* What applyHook_ builds: a relative call over bytes that are otherwise kept.
HookCall(m, from, rva) ==
  [module |-> m, search |-> <<{from}, MCByte>>, replace |-> <<"n", Keep>>,
   relative |-> {rva}]

Ask(patches, secondsToTry, onFailure, onSuccess) ==
  [patches |-> patches, secondsToTry |-> secondsToTry,
   onFailure |-> onFailure, onSuccess |-> onSuccess]

\* A pack over both modules, found twice in one of them; a hook that meets it;
\* a hook that gives up; a poke undone at once.
MCCatalogue ==
  {Ask(<<Poke("exe", "A", "n"), Poke("lib", "C", "n")>>, Forever, "nullptr", "nullptr"),
   Ask(<<HookCall("exe", "B", 0)>>, Forever, "nullptr", "nullptr"),
   Ask(<<HookCall("lib", "C", 1)>>, 1, "undoSelf", "nullptr"),
   Ask(<<Poke("exe", "B", "n")>>, Forever, "nullptr", "undoSelf")}

\* A group whose callback undoes another one, in the queue or applied.
MCUndoOther ==
  {Ask(<<Poke("exe", "A", "n")>>, 1, "undoOther", "undoOther"),
   Ask(<<Poke("lib", "C", "n")>>, Forever, "nullptr", "nullptr")}
=============================================================================
