---------------------------- MODULE PatchCompiler ----------------------------
(***************************************************************************)
(* The manager's PatchCompiler (manager/PatchCompiler.cpp) on the part of  *)
(* a state s that it uses.  An item is a hook or a patch pack; its source  *)
(* stands for the checksum of the source too.                              *)
(*                                                                         *)
(*   s.objects   the object directory: the source each object is made of   *)
(*   s.modified  whether the file "modified" is there                      *)
(*   s.library   the patcher library on disk: the objects linked into it,  *)
(*               or Missing                                                *)
(*   s.crc32     the checksums in the settings, in memory                  *)
(***************************************************************************)
EXTENDS Outcomes

CONSTANTS
  Missing,    \* no such file, no such setting
  MaxFaults   \* bound: tools that fail

Fails(s) == {[t EXCEPT !.faults = @ + 1, !.threw = TRUE] : t \in {u \in {s} : u.faults < MaxFaults}}

IsSkipped(s, item, source) == s.crc32[item] = source /\ s.objects[item] # Missing

\* The object is written, "modified" touched and the checksum set.
Compiled(s, item, source) ==
  [s EXCEPT !.objects[item] = source, !.modified = TRUE, !.crc32[item] = source,
            !.isAllSkipped = FALSE]

\* Mutant: the checksum is set first.
ChecksumFirst(s, item, source) ==
  Fails([s EXCEPT !.crc32[item] = source])

\* The compiler fails, and takes the object with it or not; nothing else of
\* the item is touched.
CompileFails(s, item, source) ==
  Fails(s) \cup Fails([s EXCEPT !.objects[item] = Missing])

\* compileHook, compilePatchPack
Compile(s, item, source) ==
  IF IsSkipped(s, item, source) THEN {s}
  ELSE {Compiled(s, item, source)} \cup CompileFails(s, item, source)

\* Mutant: "modified" is not looked at.
LibraryExists(s) == s.library # Missing

IsUpToDate(s) == s.library # Missing /\ ~ s.modified

\* "modified" is removed before the linker runs, if there was a library.
LinkObjects(s) ==
  LET started == [s EXCEPT !.modified = @ /\ s.library = Missing] IN
  IF IsUpToDate(s) THEN {s}
  ELSE {[started EXCEPT !.library = s.objects]}
       \cup Fails(started) \cup Fails([started EXCEPT !.library = Missing])
=============================================================================
