---------------------------- MODULE MCPatchSystem ----------------------------
(***************************************************************************)
(* Instances of PatchSystem for TLC: a pack with a patch in a hook, and a  *)
(* pack with a replacement that is enabled by default.                     *)
(***************************************************************************)
EXTENDS PatchSystem, TLC

CONSTANTS h1, h2, inHook, replacing

\* The sources are only compared with each other.
SourceSymmetry == Permutations(Source)

MCHooksUsed == [p \in Pack |-> IF p = inHook THEN <<h1>> ELSE <<>>]
=============================================================================
