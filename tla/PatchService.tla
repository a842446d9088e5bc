----------------------------- MODULE PatchService -----------------------------
(***************************************************************************)
(* What the Patcher promises the code that uses it.  A group of patches is *)
(* applied everywhere it is found, or expires, or is withdrawn; what an    *)
(* application wrote stands until the group is withdrawn, and withdrawing  *)
(* it puts the program's own bytes back.  There is no thread, queue, lock  *)
(* or order of writes here; Patcher.tla implements it.                     *)
(*                                                                         *)
(* Nothing keeps two groups from each other's bytes, nor a patch from      *)
(* writing past its own: no more is promised of the addresses where that   *)
(* happens, nor of those a step was writing when it failed.                *)
(***************************************************************************)
EXTENDS Integers, Sequences

CONSTANTS
  Addr, Original, PatchGroupId, Catalogue,
  FoundIn(_, _),     \* where the search of a patch matches in a memory
  Span(_, _),        \* the addresses of a patch that was found somewhere
  Covers(_, _, _),   \* the addresses it writes when it is applied there
  Written(_, _, _)   \* and the byte it leaves at each

VARIABLES
  image,    \* the memory of the target process
  status,   \* what became of each group
  asked,    \* the patches of each group
  sites,    \* where they were found, pairs of a patch and an address
  damaged,  \* the addresses of which nothing is promised any more
  failures  \* steps that failed so far

vars == <<image, status, asked, sites, damaged, failures>>

Init ==
  /\ image = Original
  /\ status = [id \in PatchGroupId |-> "unused"]
  /\ asked = [id \in PatchGroupId |-> <<>>]
  /\ sites = [id \in PatchGroupId |-> {}]
  /\ damaged = {} /\ failures = 0

Spanned(id, S) == {x \in Addr : \E w \in S : x \in Span(asked[id][w[1]], w[2])}
Covered(id, S) == {x \in Addr : \E w \in S : Covers(asked[id][w[1]], w[2], x)}

Applied == {id \in PatchGroupId : status[id] = "applied"}

Taken == UNION {Spanned(id, sites[id]) : id \in Applied}

\* Where the group would now be found.
Found(id) ==
  {w \in (DOMAIN asked[id]) \X Addr : w[2] \in FoundIn(asked[id][w[1]], image)}

\* The addresses of group id at the sites S that are not its own: it writes
\* past its span, or two sites share them, of this group or of two.
Clash(id, S) ==
  {x \in Addr : \E w \in S :
     LET p(v) == asked[id][v[1]] IN
       \/ Covers(p(w), w[2], x) /\ x \notin Span(p(w), w[2])
       \/ /\ x \in Span(p(w), w[2])
          /\ x \in Taken \/ \E v \in S \ {w} : x \in Span(p(v), v[2])}

Becomes(id, from, to) ==
  /\ status[id] = from
  /\ status' = [status EXCEPT ![id] = to]

\* The memory changes nowhere outside S.
SameOutside(S) == image' = [x \in Addr |-> IF x \in S THEN image'[x] ELSE image[x]]

\* The sites S of group id are written, and nothing else.
Writes(id, S) ==
  /\ SameOutside(Covered(id, S))
  /\ \A x \in Covered(id, S) : \E w \in S :
       /\ Covers(asked[id][w[1]], w[2], x)
       /\ image'[x] = Written(asked[id][w[1]], w[2], x)

\* A group is looked for: it is found now, or was found at an earlier try.
Locates(id, S) ==
  /\ S \subseteq sites[id] \cup Found(id)
  /\ sites' = [sites EXCEPT ![id] = S]

-----------------------------------------------------------------------------
Submit(id) ==
  /\ Becomes(id, "unused", "waiting")
  /\ \E r \in Catalogue : asked' = [asked EXCEPT ![id] = r.patches]
  /\ UNCHANGED <<image, sites, damaged, failures>>

\* A try that writes nothing: some patch is not found, or the search fails.
Look(id) ==
  /\ status[id] = "waiting"
  /\ Locates(id, sites'[id])
  /\ failures' \in {failures, failures + 1}
  /\ UNCHANGED <<image, status, asked, damaged>>

Expire(id) ==
  /\ Becomes(id, "waiting", "expired")
  /\ UNCHANGED <<image, asked, sites, damaged, failures>>

\* Every patch of the group is there, and is written wherever it is.
Apply(id) ==
  /\ Becomes(id, "waiting", "applied")
  /\ \A i \in DOMAIN asked[id] : FoundIn(asked[id][i], image) # {}
  /\ Locates(id, sites'[id]) /\ Found(id) \subseteq sites'[id]
  /\ Writes(id, sites'[id])
  /\ damaged' = damaged \cup Clash(id, sites'[id])
  /\ UNCHANGED <<asked, failures>>

\* An application fails part way, and the group is still to be applied.
FailApply(id) ==
  /\ status[id] = "waiting"
  /\ \A i \in DOMAIN asked[id] : FoundIn(asked[id][i], image) # {}
  /\ Locates(id, sites'[id])
  /\ \E S \in SUBSET sites'[id] :
       Writes(id, S) /\ damaged' = damaged \cup Covered(id, S)
  /\ failures' = failures + 1
  /\ UNCHANGED <<status, asked>>

Withdraw(id) ==
  /\ \E from \in {"waiting", "applied", "expired"} : Becomes(id, from, "withdrawn")
  /\ LET S == IF id \in Applied THEN Spanned(id, sites[id]) ELSE {} IN
       SameOutside(S) /\ \A x \in S \ damaged : image'[x] = Original[x]
  /\ asked' = [asked EXCEPT ![id] = <<>>]
  /\ sites' = [sites EXCEPT ![id] = {}]
  /\ UNCHANGED <<damaged, failures>>

\* A withdrawal fails part way, and the group is still applied.
FailWithdraw(id) ==
  /\ id \in Applied
  /\ LET S == Spanned(id, sites[id]) IN
       /\ SameOutside(S)
       /\ \A x \in S \ damaged : image'[x] \in {image[x], Original[x]}
  /\ damaged' = damaged \cup Covered(id, sites[id])
  /\ failures' = failures + 1
  /\ UNCHANGED <<status, asked, sites>>

Next ==
  \E id \in PatchGroupId :
    \/ Submit(id) \/ Look(id) \/ Expire(id) \/ Apply(id) \/ FailApply(id)
    \/ Withdraw(id) \/ FailWithdraw(id)

Spec == Init /\ [][Next]_vars

-----------------------------------------------------------------------------
(* What follows for the program and for the author of a patch.             *)

\* An address of no applied group holds the program's own byte.
ProgramIntact ==
  \A x \in Addr \ damaged : x \notin Taken => image[x] = Original[x]

\* An address that an applied group wrote still holds what it wrote, whatever
\* groups were applied and withdrawn since.
PatchesStand ==
  \A id \in Applied : \A w \in sites[id], x \in Addr \ damaged :
    LET p == asked[id][w[1]] IN
      Covers(p, w[2], x) => image[x] = Written(p, w[2], x)
=============================================================================
