-------------------------- MODULE PatchLoaderProofs --------------------------
(***************************************************************************)
(* What PatchLoader does with a packet, for any packet and any state that  *)
(* keeps CoreInv: each handler keeps it, and does what the packet says     *)
(* (HandledAsTold).                                                        *)
(***************************************************************************)
EXTENDS PatchSystem, SequenceTheorems, FiniteSetTheorems, WellFoundedInduction, TLAPS

-----------------------------------------------------------------------------
(* Types.                                                                  *)

\* What objects, checksums and libraries are.
Image == {o \in [Item -> Source \cup Pack \cup {Missing}] : \A item \in Item : o[item] \in SourceOf[item]}

Packet ==
  [type : {"PATCH_HOOK"}, name : Hook, source : Source]
  \cup [type : {"PATCH_HOOK_REMOVE"}, name : Hook]
  \cup [type : {"PATCH_PACK"}, name : Pack, enabled : BOOLEAN]
  \cup [type : {"PATCH_PACK_REMOVE"}, name : Pack]
  \cup [type : {"PATCH_LIB_UNLOAD", "PATCH_LIB_LOAD"}]

Function == [pack : Pack, loaded : BOOLEAN]
Group ==
  [id : Nat, item : Item, calls : {"library", "nothing", "gone"},
   source : Source \cup Pack \cup {Missing}]
CoreHook == [name : Hook, source : Source, group : Nat]
CorePack == [name : Pack, enabled : BOOLEAN, group : Nat]

Core ==
  [hooks : Seq(CoreHook), capacity : Nat, packs : Seq(CorePack), library : Image \cup {Missing},
   functions : [Hook -> SUBSET Function], saved : Seq(SUBSET Function), savedCapacity : Nat,
   groups : SUBSET Group, lastGroup : Nat, faults : 0..MaxFaults,
   threw : BOOLEAN, aborted : BOOLEAN, undefined : BOOLEAN]

\* No name is listed twice.
Apart(entries) == \A i, j \in DOMAIN entries : entries[i].name = entries[j].name => i = j
NamesApart(s) == Apart(s.hooks) /\ Apart(s.packs)

-----------------------------------------------------------------------------
(* What a core has been told, and what a packet tells it.                  *)

\* The hooks with their sources, and the enabled packs.
HooksTold(hooks) == [i \in DOMAIN hooks |-> [name |-> hooks[i].name, source |-> hooks[i].source]]
Shadow(s) == [hooks |-> HooksTold(s.hooks), enabled |-> EnabledIn(s.packs)]

ShadowHook == [name : Hook, source : Source]

WithoutHook(hooks, name) ==
  IF Loader!NamedIn(hooks, name) = {} THEN hooks
  ELSE RemoveAt(hooks, Loader!FirstNamed(hooks, name))

Told(x, packet) ==
  IF packet.type = "PATCH_HOOK"
  THEN [x EXCEPT !.hooks = Append(x.hooks, [name |-> packet.name, source |-> packet.source])]
  ELSE IF packet.type = "PATCH_HOOK_REMOVE"
  THEN [x EXCEPT !.hooks = WithoutHook(x.hooks, packet.name)]
  ELSE IF packet.type = "PATCH_PACK"
  THEN [x EXCEPT !.enabled =
          IF packet.enabled THEN x.enabled \cup {packet.name} ELSE x.enabled \ {packet.name}]
  ELSE IF packet.type = "PATCH_PACK_REMOVE"
  THEN [x EXCEPT !.enabled = x.enabled \ {packet.name}]
  ELSE x

-----------------------------------------------------------------------------
(* The libraries.                                                          *)

IsLoad(packet) == packet.type = "PATCH_LIB_LOAD"
HasLoad(packets) == \E k \in DOMAIN packets : IsLoad(packets[k])

-----------------------------------------------------------------------------
(* The core.                                                               *)

\* Each group has one owner, and each owner a group of its own.
GroupsOwned(c) ==
  /\ \A g \in c.groups :
       /\ g.id \in 1..c.lastGroup
       /\ \/ \E i \in DOMAIN c.hooks : c.hooks[i].group = g.id
          \/ g.calls = "nothing" /\ \E i \in DOMAIN c.packs : c.packs[i].group = g.id
       /\ WrapperIn(c.library, g)
  /\ \A i \in DOMAIN c.hooks : c.hooks[i].group <= c.lastGroup
  /\ \A i \in DOMAIN c.packs : c.packs[i].group <= c.lastGroup
  /\ \A i, j \in DOMAIN c.hooks : c.hooks[i].group = c.hooks[j].group /\ c.hooks[i].group # 0 => i = j
  /\ \A i, j \in DOMAIN c.packs : c.packs[i].group = c.packs[j].group /\ c.packs[i].group # 0 => i = j
  /\ \A i \in DOMAIN c.hooks, j \in DOMAIN c.packs : c.hooks[i].group = c.packs[j].group => c.hooks[i].group = 0

\* What is not enabled has no group.
DisabledUngrouped(c) == \A i \in DOMAIN c.packs : ~ c.packs[i].enabled => c.packs[i].group = 0

\* Without a library no hook is applied.
ClosedUnapplied(c) ==
  ~ Loader!IsModuleOpen(c) => \A i \in DOMAIN c.hooks : c.hooks[i].group = 0

CoreInv(c) ==
  /\ c \in Core /\ Apart(c.packs)
  /\ GroupsOwned(c) /\ DisabledUngrouped(c) /\ ClosedUnapplied(c)

\* While nothing has gone wrong: every hook is applied, or is to be.
HookApplied(c, i) ==
  \E g \in c.groups : g.id = c.hooks[i].group /\ g.source = c.library[c.hooks[i].name]

AllApplied(c) ==
  IF Loader!IsModuleOpen(c) THEN \A i \in DOMAIN c.hooks : HookApplied(c, i)
  ELSE Len(c.saved) = Len(c.hooks)

-----------------------------------------------------------------------------
(* Vectors.                                                                *)

\* A vector without its member i.
LEMMA RemoveAtFacts ==
  ASSUME NEW S, NEW q \in Seq(S), NEW i \in DOMAIN q
  PROVE  /\ RemoveAt(q, i) \in Seq(S) /\ DOMAIN RemoveAt(q, i) = 1..(Len(q) - 1)
         /\ \A j \in 1..(Len(q) - 1) : RemoveAt(q, i)[j] = IF j < i THEN q[j] ELSE q[j + 1]
<1> DEFINE a == SubSeq(q, 1, i - 1)
           b == SubSeq(q, i + 1, Len(q))
<1>1. Len(q) \in Nat /\ i \in 1..Len(q) /\ \A k \in 1..Len(q) : q[k] \in S
  OBVIOUS
<1>2. a \in Seq(S) /\ Len(a) = i - 1 /\ \A j \in 1..(i - 1) : a[j] = q[j]
  <2>1. \A k \in 1..(i - 1) : q[k] \in S
    BY <1>1
  <2> QED
    BY <1>1, <2>1, SubSeqProperties
<1>3. b \in Seq(S) /\ Len(b) = Len(q) - i /\ \A j \in 1..(Len(q) - i) : b[j] = q[i + j]
  BY <1>1, SubSeqProperties
<1> HIDE DEF a, b
<1>4. RemoveAt(q, i) = a \o b
  BY DEF RemoveAt, a, b
<1>5. /\ a \o b \in Seq(S) /\ Len(a \o b) = Len(q) - 1
      /\ \A j \in 1..(Len(q) - 1) : (a \o b)[j] = IF j <= i - 1 THEN a[j] ELSE b[j - (i - 1)]
  <2>1. Len(a) + Len(b) = Len(q) - 1
    BY <1>1, <1>2, <1>3
  <2>2. /\ a \o b \in Seq(S) /\ Len(a \o b) = Len(a) + Len(b)
        /\ \A j \in 1..(Len(a) + Len(b)) :
             (a \o b)[j] = IF j <= Len(a) THEN a[j] ELSE b[j - Len(a)]
    BY <1>2, <1>3, ConcatProperties
  <2> QED
    BY <1>2, <2>1, <2>2
<1>6. DOMAIN (a \o b) = 1..(Len(q) - 1)
  BY <1>5
<1>7. ASSUME NEW j \in 1..(Len(q) - 1)
      PROVE  (a \o b)[j] = IF j < i THEN q[j] ELSE q[j + 1]
  <2>1. CASE j < i
    <3>1. j <= i - 1 /\ j \in 1..(i - 1)
      BY <1>1, <2>1
    <3> QED
      BY <1>2, <1>5, <2>1, <3>1
  <2>2. CASE ~ (j < i)
    <3>1. ~ (j <= i - 1) /\ j - (i - 1) \in 1..(Len(q) - i) /\ i + (j - (i - 1)) = j + 1
      BY <1>1, <2>2
    <3> QED
      BY <1>3, <1>5, <2>2, <3>1
  <2> QED
    BY <2>1, <2>2
<1> QED
  BY <1>4, <1>5, <1>6, <1>7

LEMMA LeastFacts ==
  ASSUME NEW S \in SUBSET Nat, S # {}
  PROVE  \E i \in S : \A j \in S : i <= j
<1>1. PICK i \in S : \A j \in S : <<j, i>> \notin OpToRel(<, Nat)
  BY NatLessThanWellFounded, WFMin
<1>2. \A j \in S : ~ (j < i)
  BY <1>1, Zenon DEF OpToRel
<1> QED
  BY <1>2

\* The first entry of a name is one.
LEMMA FirstFacts ==
  ASSUME NEW S, NEW q \in Seq(S), NEW name, Loader!NamedIn(q, name) # {}
  PROVE  Loader!FirstNamed(q, name) \in DOMAIN q /\ q[Loader!FirstNamed(q, name)].name = name
<1> DEFINE N == Loader!NamedIn(q, name)
<1>1. N \in SUBSET Nat /\ N # {}
  BY DEF Loader!NamedIn
<1>2. \E i \in N : \A j \in N : i <= j
  BY <1>1, LeastFacts
<1>3. Loader!FirstNamed(q, name) \in N
  BY <1>2 DEF Loader!FirstNamed
<1> QED
  BY <1>3 DEF Loader!NamedIn

\* In ascending order the first numbers are as they are.
LEMMA AscendingFacts ==
  ASSUME NEW n \in Nat
  PROVE  Loader!Ascending(1..n) = [i \in 1..n |-> i]
<1>1. \A S : Loader!Cardinality(S) = Cardinality(S)
  BY Zenon DEF Loader!Cardinality, Cardinality
<1>2. Loader!Cardinality(1..n) = n
  BY <1>1, FS_Interval
<1>3. ASSUME NEW t \in 1..n PROVE Loader!Cardinality({s \in 1..n : s < t}) = t - 1
  <2>1. {s \in 1..n : s < t} = 1..(t - 1)
    OBVIOUS
  <2>2. Cardinality(1..(t - 1)) = t - 1
    BY FS_Interval
  <2> QED
    BY <1>1, <2>1, <2>2
<1>4. ASSUME NEW i \in 1..n
      PROVE  (CHOOSE t \in 1..n : Loader!Cardinality({s \in 1..n : s < t}) = i - 1) = i
  <2>1. \A t \in 1..n : Loader!Cardinality({s \in 1..n : s < t}) = i - 1 <=> t = i
    BY <1>3
  <2> QED
    BY <2>1
<1> QED
  BY <1>2, <1>4 DEF Loader!Ascending

-----------------------------------------------------------------------------
(* Lists of packs.                                                         *)

\* The enabled packs of a list in which the pack i is told of.
WithPack(enabledPacks, name, enabled) ==
  IF enabled THEN enabledPacks \cup {name} ELSE enabledPacks \ {name}

\* The packs of a list without the pack i.
LEMMA EntryRemoved ==
  ASSUME NEW Entry, NEW packs \in Seq(Entry), Apart(packs), NEW i \in DOMAIN packs,
         NEW q, q = RemoveAt(packs, i)
  PROVE  q \in Seq(Entry) /\ Apart(q) /\ EnabledIn(q) = EnabledIn(packs) \ {packs[i].name}
<1> DEFINE n == Len(packs)
<1>1. n \in Nat /\ DOMAIN packs = 1..n
  OBVIOUS
<1>2. /\ q \in Seq(Entry) /\ DOMAIN q = 1..(n - 1)
      /\ \A j \in 1..(n - 1) : q[j] = IF j < i THEN packs[j] ELSE packs[j + 1]
  BY RemoveAtFacts
<1> HIDE DEF n
<1>3. ASSUME NEW j \in 1..(n - 1)
      PROVE  \E k \in 1..n : k # i /\ q[j] = packs[k] /\ k = IF j < i THEN j ELSE j + 1
  <2>1. CASE j < i
    <3>1. j \in 1..n /\ j # i
      BY <1>1, <2>1
    <3> QED
      BY <1>2, <2>1, <3>1
  <2>2. CASE ~ (j < i)
    <3>1. j + 1 \in 1..n /\ j + 1 # i
      BY <1>1, <2>2
    <3> QED
      BY <1>2, <2>2, <3>1
  <2> QED
    BY <2>1, <2>2
<1>4. ASSUME NEW k \in 1..n, k # i PROVE \E j \in 1..(n - 1) : q[j] = packs[k]
  <2>1. CASE k < i
    <3>1. k \in 1..(n - 1)
      BY <1>1, <2>1
    <3> QED
      BY <1>2, <2>1, <3>1
  <2>2. CASE ~ (k < i)
    <3>1. k - 1 \in 1..(n - 1) /\ ~ (k - 1 < i) /\ (k - 1) + 1 = k
      BY <1>1, <1>4, <2>2
    <3> QED
      BY <1>2, <3>1
  <2> QED
    BY <2>1, <2>2
<1>5. Apart(q)
  <2>1. ASSUME NEW a \in 1..(n - 1), NEW b \in 1..(n - 1), q[a].name = q[b].name PROVE a = b
    <3>1. PICK k \in 1..n : q[a] = packs[k] /\ k = IF a < i THEN a ELSE a + 1
      BY <1>3
    <3>2. PICK l \in 1..n : q[b] = packs[l] /\ l = IF b < i THEN b ELSE b + 1
      BY <1>3
    <3>3. k = l
      BY <1>1, <2>1, <3>1, <3>2 DEF Apart
    <3> QED
      BY <1>1, <3>1, <3>2, <3>3
  <2> QED
    BY <1>2, <2>1 DEF Apart
<1>6. EnabledIn(q) = EnabledIn(packs) \ {packs[i].name}
  <2>1. ASSUME NEW p \in EnabledIn(q) PROVE p \in EnabledIn(packs) /\ p # packs[i].name
    <3>1. PICK j \in 1..(n - 1) : q[j].enabled /\ p = q[j].name
      BY <1>2, <2>1 DEF EnabledIn
    <3>2. PICK k \in 1..n : k # i /\ q[j] = packs[k]
      BY <1>3
    <3> QED
      BY <1>1, <3>1, <3>2 DEF EnabledIn, Apart
  <2>2. ASSUME NEW p \in EnabledIn(packs), p # packs[i].name PROVE p \in EnabledIn(q)
    <3>1. PICK k \in 1..n : packs[k].enabled /\ p = packs[k].name
      BY <1>1, <2>2 DEF EnabledIn
    <3>2. PICK j \in 1..(n - 1) : q[j] = packs[k]
      BY <1>4, <2>2, <3>1
    <3> QED
      BY <1>2, <3>1, <3>2 DEF EnabledIn
  <2> QED
    BY <2>1, <2>2
<1> QED
  BY <1>2, <1>5, <1>6

LEMMA EntryAdded ==
  ASSUME NEW Entry, NEW packs \in Seq(Entry), Apart(packs), NEW pack \in Entry,
         Named(packs, pack.name) = {}, ~ pack.enabled, NEW q, q = Append(packs, pack)
  PROVE  /\ q \in Seq(Entry) /\ Apart(q) /\ EnabledIn(q) = EnabledIn(packs)
         /\ DOMAIN q = 1..(Len(packs) + 1) /\ Len(packs) + 1 \in DOMAIN q
<1> DEFINE n == Len(packs)
<1>1. n \in Nat /\ DOMAIN packs = 1..n
  OBVIOUS
<1>2. /\ q \in Seq(Entry) /\ DOMAIN q = 1..(n + 1) /\ q[n + 1] = pack /\ n + 1 \in 1..(n + 1)
      /\ \A k \in 1..n : q[k] = packs[k] /\ k \in 1..(n + 1)
  OBVIOUS
<1> HIDE DEF n
<1>3. ASSUME NEW k \in 1..(n + 1) PROVE k \in 1..n \/ k = n + 1
  BY <1>1
<1>4. \A k \in 1..n : packs[k].name # pack.name
  BY <1>1 DEF Named
<1>5. Apart(q)
  <2>1. ASSUME NEW a \in 1..(n + 1), NEW b \in 1..(n + 1), q[a].name = q[b].name PROVE a = b
    BY <1>1, <1>2, <1>3, <1>4, <2>1 DEF Apart
  <2> QED
    BY <1>2, <2>1 DEF Apart
<1>6. EnabledIn(q) = EnabledIn(packs)
  <2>1. ASSUME NEW p \in EnabledIn(q) PROVE p \in EnabledIn(packs)
    <3>1. PICK k \in 1..(n + 1) : q[k].enabled /\ p = q[k].name
      BY <1>2, <2>1 DEF EnabledIn
    <3>2. k \in 1..n
      BY <1>2, <1>3, <3>1
    <3> QED
      BY <1>1, <1>2, <3>1, <3>2 DEF EnabledIn
  <2>2. ASSUME NEW p \in EnabledIn(packs) PROVE p \in EnabledIn(q)
    <3>1. PICK k \in 1..n : packs[k].enabled /\ p = packs[k].name
      BY <1>1, <2>2 DEF EnabledIn
    <3> QED
      BY <1>2, <3>1 DEF EnabledIn
  <2> QED
    BY <2>1, <2>2
<1> QED
  BY <1>2, <1>5, <1>6 DEF n

-----------------------------------------------------------------------------
(* The core's lists and groups.                                            *)

LEMMA CoreFacts ==
  ASSUME NEW c \in Core
  PROVE  /\ c.hooks \in Seq(CoreHook) /\ c.capacity \in Nat /\ c.packs \in Seq(CorePack)
         /\ c.library \in Image \cup {Missing} /\ c.functions \in [Hook -> SUBSET Function]
         /\ c.saved \in Seq(SUBSET Function) /\ c.savedCapacity \in Nat /\ c.groups \in SUBSET Group
         /\ c.lastGroup \in Nat /\ c.faults \in 0..MaxFaults /\ c.threw \in BOOLEAN
         /\ c.aborted \in BOOLEAN /\ c.undefined \in BOOLEAN
         /\ DOMAIN c = {"hooks", "capacity", "packs", "library", "functions", "saved", "savedCapacity",
                        "groups", "lastGroup", "faults", "threw", "aborted", "undefined"}
         /\ DOMAIN c.hooks = 1..Len(c.hooks) /\ Len(c.hooks) \in Nat
         /\ DOMAIN c.packs = 1..Len(c.packs) /\ Len(c.packs) \in Nat
         /\ \A i \in DOMAIN c.hooks :
              /\ c.hooks[i] \in CoreHook /\ c.hooks[i].name \in Hook /\ c.hooks[i].source \in Source
              /\ c.hooks[i].group \in Nat
         /\ \A i \in DOMAIN c.packs :
              /\ c.packs[i] \in CorePack /\ c.packs[i].name \in Pack /\ c.packs[i].enabled \in BOOLEAN
              /\ c.packs[i].group \in Nat
<1>1. /\ c.hooks \in Seq(CoreHook) /\ c.capacity \in Nat /\ c.packs \in Seq(CorePack)
      /\ c.library \in Image \cup {Missing} /\ c.functions \in [Hook -> SUBSET Function]
      /\ c.saved \in Seq(SUBSET Function) /\ c.savedCapacity \in Nat /\ c.groups \in SUBSET Group
      /\ c.lastGroup \in Nat /\ c.faults \in 0..MaxFaults /\ c.threw \in BOOLEAN
      /\ c.aborted \in BOOLEAN /\ c.undefined \in BOOLEAN
  BY DEF Core
<1>2. DOMAIN c = {"hooks", "capacity", "packs", "library", "functions", "saved", "savedCapacity",
                  "groups", "lastGroup", "faults", "threw", "aborted", "undefined"}
  BY DEF Core
<1>3. /\ DOMAIN c.hooks = 1..Len(c.hooks) /\ Len(c.hooks) \in Nat
      /\ \A i \in DOMAIN c.hooks : c.hooks[i] \in CoreHook
  BY <1>1
<1>4. /\ DOMAIN c.packs = 1..Len(c.packs) /\ Len(c.packs) \in Nat
      /\ \A i \in DOMAIN c.packs : c.packs[i] \in CorePack
  BY <1>1
<1>5. /\ \A h \in CoreHook : h.name \in Hook /\ h.source \in Source /\ h.group \in Nat
      /\ \A p \in CorePack : p.name \in Pack /\ p.enabled \in BOOLEAN /\ p.group \in Nat
  BY DEF CoreHook, CorePack
<1> QED
  BY <1>1, <1>2, <1>3, <1>4, <1>5

\* Fewer groups, and anything else that CoreInv does not look at.
LEMMA FewerGroups ==
  ASSUME NEW c, CoreInv(c), NEW d \in Core, d.hooks = c.hooks, d.packs = c.packs,
         d.groups \subseteq c.groups, d.lastGroup = c.lastGroup, d.library = c.library
  PROVE  CoreInv(d)
BY DEF CoreInv, GroupsOwned, DisabledUngrouped, ClosedUnapplied, Loader!IsModuleOpen

\* A hook gives up the group that is gone.
LEMMA HookUnowned ==
  ASSUME NEW c, CoreInv(c), NEW d \in Core, NEW i \in DOMAIN c.hooks,
         DOMAIN d.hooks = DOMAIN c.hooks, d.hooks[i].group = 0,
         \A j \in DOMAIN c.hooks : j # i => d.hooks[j].group = c.hooks[j].group,
         d.packs = c.packs, d.groups = c.groups, d.lastGroup = c.lastGroup, d.library = c.library,
         \A g \in c.groups : g.id # c.hooks[i].group
  PROVE  CoreInv(d)
<1>1. c \in Core /\ c.lastGroup \in Nat
  BY CoreFacts DEF CoreInv
<1>2. GroupsOwned(d)
  <2>1. ASSUME NEW g \in d.groups
        PROVE  /\ g.id \in 1..d.lastGroup
               /\ \/ \E k \in DOMAIN d.hooks : d.hooks[k].group = g.id
                  \/ g.calls = "nothing" /\ \E k \in DOMAIN d.packs : d.packs[k].group = g.id
               /\ WrapperIn(d.library, g)
    BY DEF CoreInv, GroupsOwned
  <2>2. /\ \A k \in DOMAIN d.hooks : d.hooks[k].group <= d.lastGroup
        /\ \A k \in DOMAIN d.packs : d.packs[k].group <= d.lastGroup
    BY <1>1 DEF CoreInv, GroupsOwned
  <2>3. \A a, b \in DOMAIN d.hooks : d.hooks[a].group = d.hooks[b].group /\ d.hooks[a].group # 0 => a = b
    BY DEF CoreInv, GroupsOwned
  <2>4. /\ \A a, b \in DOMAIN d.packs : d.packs[a].group = d.packs[b].group /\ d.packs[a].group # 0 => a = b
        /\ \A a \in DOMAIN d.hooks, b \in DOMAIN d.packs : d.hooks[a].group = d.packs[b].group => d.hooks[a].group = 0
    BY DEF CoreInv, GroupsOwned
  <2> QED
    BY <2>1, <2>2, <2>3, <2>4 DEF GroupsOwned
<1> QED
  BY <1>2 DEF CoreInv, DisabledUngrouped, ClosedUnapplied, Loader!IsModuleOpen

\* A hook that has none gets a new one.
LEMMA HookOwned ==
  ASSUME NEW c, CoreInv(c), NEW d \in Core, NEW i \in DOMAIN c.hooks, c.hooks[i].group = 0,
         DOMAIN d.hooks = DOMAIN c.hooks, d.hooks[i].group = c.lastGroup + 1,
         \A j \in DOMAIN c.hooks : j # i => d.hooks[j].group = c.hooks[j].group,
         d.packs = c.packs, d.lastGroup = c.lastGroup + 1, d.library = c.library,
         NEW g, d.groups = c.groups \cup {g}, g.id = c.lastGroup + 1, WrapperIn(c.library, g),
         c.library # Missing
  PROVE  CoreInv(d)
<1>1. c \in Core /\ c.lastGroup \in Nat
  BY CoreFacts DEF CoreInv
<1>2. GroupsOwned(d)
  <2>1. ASSUME NEW f \in d.groups
        PROVE  /\ f.id \in 1..d.lastGroup
               /\ \/ \E k \in DOMAIN d.hooks : d.hooks[k].group = f.id
                  \/ f.calls = "nothing" /\ \E k \in DOMAIN d.packs : d.packs[k].group = f.id
               /\ WrapperIn(d.library, f)
    <3>1. CASE f = g
      BY <1>1, <3>1
    <3>2. CASE f \in c.groups
      <4>1. /\ f.id \in 1..c.lastGroup /\ WrapperIn(c.library, f)
            /\ \/ \E k \in DOMAIN c.hooks : c.hooks[k].group = f.id
               \/ f.calls = "nothing" /\ \E k \in DOMAIN c.packs : c.packs[k].group = f.id
        BY <3>2 DEF CoreInv, GroupsOwned
      <4>2. ASSUME NEW k \in DOMAIN c.hooks, c.hooks[k].group = f.id PROVE d.hooks[k].group = f.id
        BY <1>1, <4>1, <4>2
      <4> QED
        BY <1>1, <4>1, <4>2
    <3> QED
      BY <3>1, <3>2
  <2>2. /\ \A k \in DOMAIN d.hooks : d.hooks[k].group <= d.lastGroup
        /\ \A k \in DOMAIN d.packs : d.packs[k].group <= d.lastGroup
    <3>1. /\ \A k \in DOMAIN c.hooks : c.hooks[k].group <= c.lastGroup /\ c.hooks[k].group \in Nat
          /\ \A k \in DOMAIN c.packs : c.packs[k].group <= c.lastGroup /\ c.packs[k].group \in Nat
      BY <1>1, CoreFacts DEF CoreInv, GroupsOwned
    <3> QED
      BY <1>1, <3>1
  <2>3. /\ \A k \in DOMAIN c.hooks : c.hooks[k].group # c.lastGroup + 1
        /\ \A k \in DOMAIN c.packs : c.packs[k].group # c.lastGroup + 1
    BY <1>1, CoreFacts DEF CoreInv, GroupsOwned
  <2>4. \A a, b \in DOMAIN d.hooks : d.hooks[a].group = d.hooks[b].group /\ d.hooks[a].group # 0 => a = b
    BY <2>3 DEF CoreInv, GroupsOwned
  <2>5. \A a, b \in DOMAIN d.packs : d.packs[a].group = d.packs[b].group /\ d.packs[a].group # 0 => a = b
    BY DEF CoreInv, GroupsOwned
  <2>6. \A a \in DOMAIN d.hooks, b \in DOMAIN d.packs : d.hooks[a].group = d.packs[b].group => d.hooks[a].group = 0
    BY <2>3 DEF CoreInv, GroupsOwned
  <2> QED
    BY <2>1, <2>2, <2>4, <2>5, <2>6 DEF GroupsOwned
<1> QED
  BY <1>2 DEF CoreInv, DisabledUngrouped, ClosedUnapplied, Loader!IsModuleOpen

\* A pack gives up the group that is gone, and is disabled or enabled.
LEMMA PackUnowned ==
  ASSUME NEW c, CoreInv(c), NEW d \in Core, NEW i \in DOMAIN c.packs,
         DOMAIN d.packs = DOMAIN c.packs, d.packs[i].group = 0,
         \A j \in DOMAIN c.packs : d.packs[j].name = c.packs[j].name,
         \A j \in DOMAIN c.packs : j # i => d.packs[j] = c.packs[j],
         d.hooks = c.hooks, d.groups = c.groups, d.lastGroup = c.lastGroup, d.library = c.library,
         \A g \in c.groups : g.id # c.packs[i].group
  PROVE  CoreInv(d)
<1>1. c \in Core /\ c.lastGroup \in Nat
  BY CoreFacts DEF CoreInv
<1>2. GroupsOwned(d)
  <2>1. ASSUME NEW g \in d.groups
        PROVE  /\ g.id \in 1..d.lastGroup
               /\ \/ \E k \in DOMAIN d.hooks : d.hooks[k].group = g.id
                  \/ g.calls = "nothing" /\ \E k \in DOMAIN d.packs : d.packs[k].group = g.id
               /\ WrapperIn(d.library, g)
    BY DEF CoreInv, GroupsOwned
  <2>2. /\ \A k \in DOMAIN d.hooks : d.hooks[k].group <= d.lastGroup
        /\ \A k \in DOMAIN d.packs : d.packs[k].group <= d.lastGroup
    BY <1>1 DEF CoreInv, GroupsOwned
  <2>3. \A a, b \in DOMAIN d.packs : d.packs[a].group = d.packs[b].group /\ d.packs[a].group # 0 => a = b
    BY DEF CoreInv, GroupsOwned
  <2>4. /\ \A a, b \in DOMAIN d.hooks : d.hooks[a].group = d.hooks[b].group /\ d.hooks[a].group # 0 => a = b
        /\ \A a \in DOMAIN d.hooks, b \in DOMAIN d.packs : d.hooks[a].group = d.packs[b].group => d.hooks[a].group = 0
    BY DEF CoreInv, GroupsOwned
  <2> QED
    BY <2>1, <2>2, <2>3, <2>4 DEF GroupsOwned
<1>3. Apart(d.packs)
  BY DEF CoreInv, Apart
<1>4. DisabledUngrouped(d)
  BY DEF CoreInv, DisabledUngrouped
<1> QED
  BY <1>2, <1>3, <1>4 DEF CoreInv, ClosedUnapplied, Loader!IsModuleOpen

\* A pack that has none gets a new one.
LEMMA PackOwned ==
  ASSUME NEW c, CoreInv(c), NEW d \in Core, NEW i \in DOMAIN c.packs, c.packs[i].group = 0,
         DOMAIN d.packs = DOMAIN c.packs, d.packs[i].group = c.lastGroup + 1, d.packs[i].enabled,
         \A j \in DOMAIN c.packs : d.packs[j].name = c.packs[j].name,
         \A j \in DOMAIN c.packs : j # i => d.packs[j] = c.packs[j],
         d.hooks = c.hooks, d.lastGroup = c.lastGroup + 1, d.library = c.library,
         NEW g, d.groups = c.groups \cup {g}, g.id = c.lastGroup + 1, g.calls = "nothing"
  PROVE  CoreInv(d)
<1>1. c \in Core /\ c.lastGroup \in Nat
  BY CoreFacts DEF CoreInv
<1>2. GroupsOwned(d)
  <2>1. ASSUME NEW f \in d.groups
        PROVE  /\ f.id \in 1..d.lastGroup
               /\ \/ \E k \in DOMAIN d.hooks : d.hooks[k].group = f.id
                  \/ f.calls = "nothing" /\ \E k \in DOMAIN d.packs : d.packs[k].group = f.id
               /\ WrapperIn(d.library, f)
    <3>1. CASE f = g
      BY <1>1, <3>1 DEF WrapperIn
    <3>2. CASE f \in c.groups
      <4>1. /\ f.id \in 1..c.lastGroup /\ WrapperIn(c.library, f)
            /\ \/ \E k \in DOMAIN c.hooks : c.hooks[k].group = f.id
               \/ f.calls = "nothing" /\ \E k \in DOMAIN c.packs : c.packs[k].group = f.id
        BY <3>2 DEF CoreInv, GroupsOwned
      <4>2. ASSUME NEW k \in DOMAIN c.packs, c.packs[k].group = f.id PROVE d.packs[k].group = f.id
        BY <1>1, <4>1, <4>2
      <4> QED
        BY <1>1, <4>1, <4>2
    <3> QED
      BY <3>1, <3>2
  <2>2. /\ \A k \in DOMAIN d.hooks : d.hooks[k].group <= d.lastGroup
        /\ \A k \in DOMAIN d.packs : d.packs[k].group <= d.lastGroup
    <3>1. /\ \A k \in DOMAIN c.hooks : c.hooks[k].group <= c.lastGroup /\ c.hooks[k].group \in Nat
          /\ \A k \in DOMAIN c.packs : c.packs[k].group <= c.lastGroup /\ c.packs[k].group \in Nat
      BY <1>1, CoreFacts DEF CoreInv, GroupsOwned
    <3> QED
      BY <1>1, <3>1
  <2>3. /\ \A k \in DOMAIN c.hooks : c.hooks[k].group # c.lastGroup + 1
        /\ \A k \in DOMAIN c.packs : c.packs[k].group # c.lastGroup + 1
    BY <1>1, CoreFacts DEF CoreInv, GroupsOwned
  <2>4. \A a, b \in DOMAIN d.packs : d.packs[a].group = d.packs[b].group /\ d.packs[a].group # 0 => a = b
    BY <2>3 DEF CoreInv, GroupsOwned
  <2>5. \A a, b \in DOMAIN d.hooks : d.hooks[a].group = d.hooks[b].group /\ d.hooks[a].group # 0 => a = b
    BY DEF CoreInv, GroupsOwned
  <2>6. \A a \in DOMAIN d.hooks, b \in DOMAIN d.packs : d.hooks[a].group = d.packs[b].group => d.hooks[a].group = 0
    BY <2>3 DEF CoreInv, GroupsOwned
  <2> QED
    BY <2>1, <2>2, <2>4, <2>5, <2>6 DEF GroupsOwned
<1>3. Apart(d.packs)
  BY DEF CoreInv, Apart
<1>4. DisabledUngrouped(d)
  BY DEF CoreInv, DisabledUngrouped
<1> QED
  BY <1>2, <1>3, <1>4 DEF CoreInv, ClosedUnapplied, Loader!IsModuleOpen

\* What an operation on hooks and packs leaves alone.
SameLibrary(c, d) ==
  d.library = c.library /\ d.saved = c.saved /\ d.savedCapacity = c.savedCapacity

LEMMA CoreThrows ==
  ASSUME NEW c, CoreInv(c)
  PROVE  CoreInv(Loader!Throws(c)) /\ Loader!Throws(c).threw
<1> DEFINE d == Loader!Throws(c)
<1>1. c \in Core
  BY DEF CoreInv
<1>2. d \in Core
  BY <1>1 DEF Core, Loader!Throws
<1>3. /\ d.hooks = c.hooks /\ d.packs = c.packs /\ d.groups = c.groups
      /\ d.lastGroup = c.lastGroup /\ d.library = c.library /\ d.threw
  BY <1>1, CoreFacts DEF Loader!Throws
<1> HIDE DEF d
<1>4. CoreInv(d)
  BY <1>2, <1>3, FewerGroups
<1> QED
  BY <1>3, <1>4 DEF d

LEMMA UndoFacts ==
  ASSUME NEW c, CoreInv(c), ~ c.threw, NEW id, NEW d \in Loader!UndoPatchGroup(c, id)
  PROVE  /\ CoreInv(d)
         /\ ~ d.threw =>
              /\ \E g \in c.groups : g.id = id
              /\ d.groups = {g \in c.groups : g.id # id}
              /\ d.hooks = c.hooks /\ d.packs = c.packs /\ d.lastGroup = c.lastGroup
              /\ d.functions = c.functions /\ SameLibrary(c, d)
<1>1. c \in Core
  BY DEF CoreInv
<1>2. CASE \E g \in c.groups : g.id = id
  <2>1. d = [c EXCEPT !.groups = {g \in c.groups : g.id # id}]
    BY <1>2 DEF Loader!UndoPatchGroup
  <2>2. {g \in c.groups : g.id # id} \in SUBSET Group
    BY <1>1, CoreFacts
  <2>3. d \in Core
    BY <1>1, <2>1, <2>2 DEF Core
  <2>4. /\ d.groups = {g \in c.groups : g.id # id}
        /\ d.hooks = c.hooks /\ d.packs = c.packs /\ d.lastGroup = c.lastGroup
        /\ d.functions = c.functions /\ SameLibrary(c, d)
    BY <1>1, <2>1, CoreFacts DEF SameLibrary
  <2>5. CoreInv(d)
    <3>1. d.groups \subseteq c.groups /\ d.library = c.library
      BY <2>4 DEF SameLibrary
    <3> QED
      BY <2>3, <2>4, <3>1, FewerGroups
  <2> QED
    BY <1>2, <2>4, <2>5
<1>3. CASE ~ \E g \in c.groups : g.id = id
  <2>1. d = Loader!Throws(c)
    BY <1>3 DEF Loader!UndoPatchGroup
  <2> QED
    BY <2>1, CoreThrows
<1> QED
  BY <1>2, <1>3

-----------------------------------------------------------------------------
(* The core's hooks.                                                       *)

LEMMA UnapplyFacts ==
  ASSUME NEW c, CoreInv(c), ~ c.threw, NEW i \in DOMAIN c.hooks, NEW d \in Loader!UnapplyHook(c, i)
  PROVE  /\ CoreInv(d)
         /\ ~ d.threw =>
              /\ d.hooks = [c.hooks EXCEPT ![i].group = 0] /\ d.packs = c.packs
              /\ d.functions = c.functions /\ SameLibrary(c, d) /\ c.library # Missing
              /\ \A j \in DOMAIN c.hooks : j # i /\ HookApplied(c, j) => HookApplied(d, j)
<1>1. c \in Core
  BY DEF CoreInv
<1>2. PICK e \in Loader!UndoPatchGroup(c, c.hooks[i].group) :
        d \in IF e.threw THEN {e} ELSE {[e EXCEPT !.hooks[i].group = 0]}
  BY DEF Loader!UnapplyHook, Loader!Then, Loader!NoGroup
<1>3. /\ CoreInv(e)
      /\ ~ e.threw =>
           /\ \E g \in c.groups : g.id = c.hooks[i].group
           /\ e.groups = {g \in c.groups : g.id # c.hooks[i].group}
           /\ e.hooks = c.hooks /\ e.packs = c.packs /\ e.lastGroup = c.lastGroup
           /\ e.functions = c.functions /\ SameLibrary(c, e)
  BY UndoFacts
<1>4. CASE e.threw
  BY <1>2, <1>3, <1>4
<1>5. CASE ~ e.threw
  <2> DEFINE q == [c.hooks EXCEPT ![i].group = 0]
  <2>1. d = [e EXCEPT !.hooks = q]
    BY <1>2, <1>3, <1>5
  <2>2. e \in Core /\ c.hooks \in Seq(CoreHook) /\ c.hooks[i] \in CoreHook
    BY <1>1, <1>3, CoreFacts DEF CoreInv
  <2>3. q \in Seq(CoreHook)
    <3>1. [c.hooks[i] EXCEPT !.group = 0] \in CoreHook
      BY <2>2 DEF CoreHook
    <3> QED
      BY <2>2, <3>1
  <2>4. /\ DOMAIN q = DOMAIN c.hooks /\ q[i].group = 0
        /\ \A j \in DOMAIN c.hooks : j # i => q[j] = c.hooks[j]
    BY <2>2 DEF CoreHook
  <2> HIDE DEF q
  <2>5. d \in Core
    BY <2>1, <2>2, <2>3 DEF Core
  <2>6. /\ d.hooks = q /\ d.packs = e.packs /\ d.groups = e.groups /\ d.lastGroup = e.lastGroup
        /\ d.functions = e.functions /\ SameLibrary(e, d)
    BY <2>1, <2>2, CoreFacts DEF SameLibrary
  <2>7. \A j \in DOMAIN c.hooks : j # i => d.hooks[j].group = e.hooks[j].group
    BY <1>3, <1>5, <2>4, <2>6
  <2>8. CoreInv(d)
    <3>1. \A g \in e.groups : g.id # e.hooks[i].group
      BY <1>3, <1>5
    <3>2. d.library = e.library
      BY <2>6 DEF SameLibrary
    <3> QED
      BY <1>3, <1>5, <2>4, <2>5, <2>6, <2>7, <3>1, <3>2, HookUnowned
  <2>9. c.library # Missing
    <3>1. c.hooks[i].group # 0
      BY <1>3, <1>5, CoreFacts, <1>1 DEF CoreInv, GroupsOwned
    <3> QED
      BY <3>1 DEF CoreInv, ClosedUnapplied, Loader!IsModuleOpen
  <2>10. ASSUME NEW j \in DOMAIN c.hooks, j # i, HookApplied(c, j) PROVE HookApplied(d, j)
    <3>1. PICK g \in c.groups : g.id = c.hooks[j].group /\ g.source = c.library[c.hooks[j].name]
      BY <2>10 DEF HookApplied
    <3>2. g.id # 0
      BY <1>1, <3>1, CoreFacts DEF CoreInv, GroupsOwned
    <3>3. g.id # c.hooks[i].group
      BY <2>10, <3>1, <3>2 DEF CoreInv, GroupsOwned
    <3>4. g \in d.groups
      BY <1>3, <1>5, <2>6, <3>3
    <3>5. d.hooks[j] = c.hooks[j] /\ d.library = c.library
      BY <1>3, <1>5, <2>4, <2>6, <2>10 DEF SameLibrary
    <3> QED
      BY <3>1, <3>4, <3>5 DEF HookApplied
  <2> QED
    BY <1>3, <1>5, <2>6, <2>8, <2>9, <2>10 DEF SameLibrary, q
<1> QED
  BY <1>4, <1>5

\* A group that is new.
NewGroup(c, item, callee, source) ==
  [id |-> c.lastGroup + 1, item |-> item, calls |-> callee, source |-> source]

LEMMA QueueFacts ==
  ASSUME NEW c, CoreInv(c), NEW item \in Item, NEW callee \in {"library", "nothing"},
         NEW source \in Source \cup Pack \cup {Missing}, NEW e, e = Loader!AddToQueue(c, item, callee, source)
  PROVE  /\ e \in Core /\ e.groups = c.groups \cup {NewGroup(c, item, callee, source)}
         /\ e.lastGroup = c.lastGroup + 1 /\ e.threw = c.threw
         /\ e.hooks = c.hooks /\ e.packs = c.packs /\ e.functions = c.functions /\ SameLibrary(c, e)
<1>1. c \in Core /\ c.lastGroup \in Nat /\ c.groups \in SUBSET Group
  BY CoreFacts DEF CoreInv
<1>2. NewGroup(c, item, callee, source) \in Group
  BY <1>1 DEF NewGroup, Group
<1>3. e = [c EXCEPT !.lastGroup = c.lastGroup + 1,
                    !.groups = c.groups \cup {NewGroup(c, item, callee, source)}]
  BY <1>1 DEF Loader!AddToQueue, NewGroup
<1>4. c.lastGroup + 1 \in Nat /\ c.groups \cup {NewGroup(c, item, callee, source)} \in SUBSET Group
  BY <1>1, <1>2
<1>5. e \in Core
  BY <1>1, <1>3, <1>4 DEF Core
<1>6. DOMAIN c = {"hooks", "capacity", "packs", "library", "functions", "saved", "savedCapacity",
                  "groups", "lastGroup", "faults", "threw", "aborted", "undefined"}
  BY <1>1, CoreFacts
<1> QED
  BY <1>3, <1>5, <1>6 DEF SameLibrary

LEMMA ApplyFacts ==
  ASSUME NEW c, CoreInv(c), ~ c.threw, NEW i \in DOMAIN c.hooks, c.hooks[i].group = 0,
         NEW d \in Loader!ApplyHook(c, i)
  PROVE  /\ CoreInv(d)
         /\ ~ d.threw =>
              /\ d.hooks = [c.hooks EXCEPT ![i].group = c.lastGroup + 1] /\ d.packs = c.packs
              /\ d.functions = c.functions /\ SameLibrary(c, d) /\ c.library # Missing
              /\ HookApplied(d, i)
              /\ \A j \in DOMAIN c.hooks : j # i /\ HookApplied(c, j) => HookApplied(d, j)
<1> DEFINE name == c.hooks[i].name
           source == c.library[name]
           q == [c.hooks EXCEPT ![i].group = c.lastGroup + 1]
<1>1. /\ c \in Core /\ c.hooks \in Seq(CoreHook) /\ c.hooks[i] \in CoreHook /\ name \in Hook
      /\ c.lastGroup \in Nat
  BY CoreFacts DEF CoreInv
<1>2. CASE ~ Loader!HasSymbol(c, name)
  <2>1. d = Loader!Throws(c)
    BY <1>2 DEF Loader!ApplyHook
  <2> QED
    BY <2>1, CoreThrows
<1>3. CASE Loader!HasSymbol(c, name)
  <2> DEFINE e == Loader!AddToQueue(c, name, "library", source)
             g == NewGroup(c, name, "library", source)
  <2>1. c.library # Missing
    BY <1>3 DEF Loader!HasSymbol, Loader!IsModuleOpen
  <2>2. source \in Source \cup Pack \cup {Missing}
    BY <1>1, <2>1, CoreFacts DEF Image, Item
  <2> HIDE DEF source
  <2>3. /\ e \in Core /\ e.groups = c.groups \cup {g}
        /\ e.lastGroup = c.lastGroup + 1 /\ e.threw = c.threw
        /\ e.hooks = c.hooks /\ e.packs = c.packs /\ e.functions = c.functions /\ SameLibrary(c, e)
    <3>1. name \in Item
      BY <1>1, SMTT(40) DEF Item
    <3> QED
      BY <2>2, <3>1, QueueFacts
  <2>4. d = [e EXCEPT !.hooks[i].group = e.lastGroup]
    BY <1>3, Zenon DEF Loader!ApplyHook, source
  <2> HIDE DEF name, e, g
  <2>5. d = [e EXCEPT !.hooks = q]
    BY <2>3, <2>4
  <2>6. q \in Seq(CoreHook)
    <3>1. [c.hooks[i] EXCEPT !.group = c.lastGroup + 1] \in CoreHook
      BY <1>1 DEF CoreHook
    <3> QED
      BY <1>1, <3>1
  <2>7. /\ DOMAIN q = DOMAIN c.hooks /\ q[i].group = c.lastGroup + 1 /\ q[i].name = c.hooks[i].name
        /\ \A j \in DOMAIN c.hooks : j # i => q[j] = c.hooks[j]
    BY <1>1 DEF CoreHook
  <2> HIDE DEF q
  <2>8. d \in Core
    BY <2>3, <2>5, <2>6 DEF Core
  <2>9. /\ d.hooks = q /\ d.packs = e.packs /\ d.groups = e.groups /\ d.lastGroup = e.lastGroup
        /\ d.functions = e.functions /\ SameLibrary(e, d) /\ d.threw = e.threw
    BY <2>3, <2>5, CoreFacts DEF SameLibrary
  <2>10. g.id = c.lastGroup + 1 /\ WrapperIn(c.library, g) /\ g.source = source
    BY <1>3, <2>1 DEF g, NewGroup, WrapperIn, Loader!HasSymbol, source, name
  <2>11. CoreInv(d)
    <3>1. \A j \in DOMAIN c.hooks : j # i => d.hooks[j].group = c.hooks[j].group
      BY <2>7, <2>9
    <3>2. d.library = c.library /\ d.groups = c.groups \cup {g} /\ d.lastGroup = c.lastGroup + 1
          /\ d.packs = c.packs /\ DOMAIN d.hooks = DOMAIN c.hooks /\ d.hooks[i].group = c.lastGroup + 1
      BY <2>3, <2>7, <2>9 DEF SameLibrary
    <3> QED
      BY <2>1, <2>8, <2>10, <3>1, <3>2, HookOwned
  <2>12. HookApplied(d, i)
    <3>1. d.hooks[i].group = g.id /\ d.hooks[i].name = name /\ d.library = c.library /\ g \in d.groups
      BY <2>3, <2>7, <2>9, <2>10 DEF SameLibrary, name
    <3> QED
      BY <2>10, <3>1 DEF HookApplied, source
  <2>13. ASSUME NEW j \in DOMAIN c.hooks, j # i, HookApplied(c, j) PROVE HookApplied(d, j)
    <3>1. d.hooks[j] = c.hooks[j] /\ d.library = c.library /\ c.groups \subseteq d.groups
      BY <2>3, <2>7, <2>9, <2>13 DEF SameLibrary
    <3> QED
      BY <2>13, <3>1 DEF HookApplied
  <2> QED
    BY <2>1, <2>3, <2>9, <2>11, <2>12, <2>13 DEF SameLibrary, q
<1> QED
  BY <1>2, <1>3

\* What a core has been told of the hooks, one of which changed its group.
LEMMA SameHooksTold ==
  ASSUME NEW hooks \in Seq(CoreHook), NEW i \in DOMAIN hooks, NEW group
  PROVE  HooksTold([hooks EXCEPT ![i].group = group]) = HooksTold(hooks)
<1> DEFINE q == [hooks EXCEPT ![i].group = group]
<1>1. hooks[i] \in CoreHook
  OBVIOUS
<1>2. /\ DOMAIN q = DOMAIN hooks
      /\ \A j \in DOMAIN hooks : q[j].name = hooks[j].name /\ q[j].source = hooks[j].source
  BY <1>1 DEF CoreHook
<1> HIDE DEF q
<1> QED
  BY <1>2 DEF HooksTold, q

LEMMA CoreHookAdded ==
  ASSUME NEW hooks \in Seq(CoreHook), NEW hook \in CoreHook
  PROVE  /\ Append(hooks, hook) \in Seq(CoreHook)
         /\ HooksTold(Append(hooks, hook))
              = Append(HooksTold(hooks), [name |-> hook.name, source |-> hook.source])
<1> DEFINE n == Len(hooks)
           q == Append(hooks, hook)
           told == HooksTold(hooks)
           entry == [name |-> hook.name, source |-> hook.source]
<1>1. n \in Nat /\ DOMAIN hooks = 1..n /\ \A k \in 1..n : hooks[k] \in CoreHook
  OBVIOUS
<1>2. q \in Seq(CoreHook) /\ DOMAIN q = 1..(n + 1) /\ q[n + 1] = hook /\ \A k \in 1..n : q[k] = hooks[k]
  OBVIOUS
<1> HIDE DEF n, q
<1>3. told = [k \in 1..n |-> [name |-> hooks[k].name, source |-> hooks[k].source]]
  BY <1>1 DEF HooksTold
<1>4. told \in Seq(ShadowHook) /\ Len(told) = n /\ entry \in ShadowHook
  <2>1. \A k \in 1..n : [name |-> hooks[k].name, source |-> hooks[k].source] \in ShadowHook
    BY <1>1 DEF CoreHook, ShadowHook
  <2>2. entry \in ShadowHook
    BY DEF CoreHook, ShadowHook
  <2> QED
    BY <1>1, <1>3, <2>1, <2>2
<1> HIDE DEF told, entry
<1>5. /\ DOMAIN Append(told, entry) = 1..(n + 1) /\ Append(told, entry)[n + 1] = entry
      /\ \A k \in 1..n : Append(told, entry)[k] = told[k]
      /\ Append(told, entry) = [k \in 1..(n + 1) |-> Append(told, entry)[k]]
  <2>1. /\ Append(told, entry) \in Seq(ShadowHook) /\ Len(Append(told, entry)) = n + 1
        /\ Append(told, entry)[n + 1] = entry /\ \A k \in 1..n : Append(told, entry)[k] = told[k]
    BY <1>1, <1>4
  <2>2. \A z \in Seq(ShadowHook) : DOMAIN z = 1..Len(z) /\ z = [k \in 1..Len(z) |-> z[k]]
    OBVIOUS
  <2> QED
    BY <2>1, <2>2
<1>6. \A k \in 1..(n + 1) : Append(told, entry)[k] = [name |-> q[k].name, source |-> q[k].source]
  <2>1. \A k \in 1..n : told[k] = [name |-> hooks[k].name, source |-> hooks[k].source]
    BY <1>3
  <2>2. \A k \in 1..(n + 1) : k \in 1..n \/ k = n + 1
    BY <1>1
  <2> QED
    BY <1>2, <1>5, <2>1, <2>2 DEF entry
<1>7. HooksTold(q) = Append(told, entry)
  BY <1>2, <1>5, <1>6 DEF HooksTold
<1> QED
  BY <1>2, <1>7 DEF told, entry, q

LEMMA CoreHookRemoved ==
  ASSUME NEW hooks \in Seq(CoreHook), NEW name, Loader!NamedIn(hooks, name) # {},
         NEW i, i = Loader!FirstNamed(hooks, name)
  PROVE  WithoutHook(HooksTold(hooks), name) = HooksTold(RemoveAt(hooks, i))
<1> DEFINE n == Len(hooks)
           told == HooksTold(hooks)
           q == RemoveAt(hooks, i)
<1>1. n \in Nat /\ DOMAIN hooks = 1..n /\ (\A k \in 1..n : hooks[k] \in CoreHook) /\ i \in 1..n
  BY FirstFacts
<1>2. /\ DOMAIN q = 1..(n - 1)
      /\ \A j \in 1..(n - 1) : q[j] = IF j < i THEN hooks[j] ELSE hooks[j + 1]
  BY <1>1, RemoveAtFacts
<1> HIDE DEF n, q
<1>3. /\ told \in Seq(ShadowHook) /\ Len(told) = n /\ DOMAIN told = 1..n
      /\ \A k \in 1..n : told[k] = [name |-> hooks[k].name, source |-> hooks[k].source]
  <2>1. \A k \in 1..n : [name |-> hooks[k].name, source |-> hooks[k].source] \in ShadowHook
    BY <1>1 DEF CoreHook, ShadowHook
  <2> QED
    BY <1>1, <2>1 DEF HooksTold
<1> HIDE DEF told
<1>4. Loader!NamedIn(told, name) = Loader!NamedIn(hooks, name)
  BY <1>1, <1>3 DEF Loader!NamedIn
<1>5. WithoutHook(told, name) = RemoveAt(told, i)
  BY <1>4 DEF WithoutHook, Loader!FirstNamed
<1>6. /\ RemoveAt(told, i) \in Seq(ShadowHook) /\ DOMAIN RemoveAt(told, i) = 1..(n - 1)
      /\ \A j \in 1..(n - 1) : RemoveAt(told, i)[j] = IF j < i THEN told[j] ELSE told[j + 1]
  BY <1>1, <1>3, RemoveAtFacts, ZenonT(40)
<1>7. \A j \in 1..(n - 1) : RemoveAt(told, i)[j] = [name |-> q[j].name, source |-> q[j].source]
  <2>1. ASSUME NEW j \in 1..(n - 1) PROVE (j < i => j \in 1..n) /\ (~ (j < i) => j + 1 \in 1..n)
    BY <1>1
  <2> QED
    BY <1>2, <1>3, <1>6, <2>1, ZenonT(40)
<1>8. RemoveAt(told, i) = HooksTold(q)
  <2>1. RemoveAt(told, i) = [j \in 1..(n - 1) |-> RemoveAt(told, i)[j]]
    BY <1>6
  <2> QED
    BY <1>2, <1>7, <2>1 DEF HooksTold
<1> QED
  BY <1>5, <1>8 DEF told, q

\* A hook is added, which is not applied yet.
LEMMA HookAppended ==
  ASSUME NEW c, CoreInv(c), NEW d \in Core, NEW hook, hook.group = 0, d.hooks = Append(c.hooks, hook),
         d.packs = c.packs, d.groups = c.groups, d.lastGroup = c.lastGroup, d.library = c.library
  PROVE  CoreInv(d)
<1> DEFINE n == Len(c.hooks)
<1>1. c \in Core /\ c.lastGroup \in Nat /\ n \in Nat /\ DOMAIN c.hooks = 1..n
  BY CoreFacts DEF CoreInv
<1>2. /\ DOMAIN d.hooks = 1..(n + 1) /\ d.hooks[n + 1].group = 0
      /\ \A k \in 1..n : d.hooks[k] = c.hooks[k]
  <2>1. c.hooks \in Seq(CoreHook)
    BY <1>1, CoreFacts
  <2> QED
    BY <1>1, <2>1
<1> HIDE DEF n
<1>3. \A k \in 1..(n + 1) : k \in 1..n \/ k = n + 1
  BY <1>1
<1>4. GroupsOwned(d)
  <2>1. ASSUME NEW g \in d.groups
        PROVE  /\ g.id \in 1..d.lastGroup
               /\ \/ \E k \in DOMAIN d.hooks : d.hooks[k].group = g.id
                  \/ g.calls = "nothing" /\ \E k \in DOMAIN d.packs : d.packs[k].group = g.id
               /\ WrapperIn(d.library, g)
    <3>1. \A k \in 1..n : k \in 1..(n + 1)
      BY <1>1
    <3> QED
      BY <1>1, <1>2, <3>1 DEF CoreInv, GroupsOwned
  <2>2. /\ \A k \in DOMAIN d.hooks : d.hooks[k].group <= d.lastGroup
        /\ \A k \in DOMAIN d.packs : d.packs[k].group <= d.lastGroup
    BY <1>1, <1>2, <1>3 DEF CoreInv, GroupsOwned
  <2>3. \A a, b \in DOMAIN d.hooks : d.hooks[a].group = d.hooks[b].group /\ d.hooks[a].group # 0 => a = b
    BY <1>1, <1>2, <1>3 DEF CoreInv, GroupsOwned
  <2>4. \A a, b \in DOMAIN d.packs : d.packs[a].group = d.packs[b].group /\ d.packs[a].group # 0 => a = b
    BY DEF CoreInv, GroupsOwned
  <2>5. \A a \in DOMAIN d.hooks, b \in DOMAIN d.packs : d.hooks[a].group = d.packs[b].group => d.hooks[a].group = 0
    BY <1>1, <1>2, <1>3 DEF CoreInv, GroupsOwned
  <2> QED
    BY <2>1, <2>2, <2>3, <2>4, <2>5 DEF GroupsOwned
<1>5. ClosedUnapplied(d)
  BY <1>1, <1>2, <1>3 DEF CoreInv, ClosedUnapplied, Loader!IsModuleOpen
<1> QED
  BY <1>4, <1>5 DEF CoreInv, DisabledUngrouped

\* A hook is removed, which is not applied any more.
LEMMA HookDropped ==
  ASSUME NEW c, CoreInv(c), NEW d \in Core, NEW i \in DOMAIN c.hooks, c.hooks[i].group = 0,
         d.hooks = RemoveAt(c.hooks, i),
         d.packs = c.packs, d.groups = c.groups, d.lastGroup = c.lastGroup, d.library = c.library
  PROVE  CoreInv(d)
<1> DEFINE n == Len(c.hooks)
           From(k) == IF k < i THEN k ELSE k + 1
<1>1. /\ c \in Core /\ c.lastGroup \in Nat /\ n \in Nat /\ DOMAIN c.hooks = 1..n /\ i \in 1..n
      /\ c.hooks \in Seq(CoreHook)
  BY CoreFacts DEF CoreInv
<1>2. /\ DOMAIN d.hooks = 1..(n - 1)
      /\ \A k \in 1..(n - 1) : d.hooks[k] = c.hooks[From(k)] /\ From(k) \in 1..n
  <2>1. DOMAIN d.hooks = 1..(n - 1) /\ \A k \in 1..(n - 1) : d.hooks[k] = c.hooks[From(k)]
    BY <1>1, RemoveAtFacts
  <2>2. \A k \in 1..(n - 1) : From(k) \in 1..n
    BY <1>1
  <2> QED
    BY <2>1, <2>2
<1>3. \A k \in 1..n : k # i => \E l \in 1..(n - 1) : From(l) = k
  <2>1. ASSUME NEW k \in 1..n, k # i PROVE \E l \in 1..(n - 1) : From(l) = k
    <3>1. CASE k < i
      BY <1>1, <3>1
    <3>2. CASE k > i
      <4>1. k - 1 \in 1..(n - 1) /\ From(k - 1) = k
        BY <1>1, <3>2
      <4> QED
        BY <4>1
    <3> QED
      BY <1>1, <2>1, <3>1, <3>2
  <2> QED
    BY <2>1
<1>4. \A k, l \in 1..(n - 1) : From(k) = From(l) => k = l
  BY <1>1
<1> HIDE DEF n, From
<1>5. GroupsOwned(d)
  <2>1. ASSUME NEW g \in d.groups
        PROVE  /\ g.id \in 1..d.lastGroup
               /\ \/ \E k \in DOMAIN d.hooks : d.hooks[k].group = g.id
                  \/ g.calls = "nothing" /\ \E k \in DOMAIN d.packs : d.packs[k].group = g.id
               /\ WrapperIn(d.library, g)
    <3>1. /\ g.id \in 1..c.lastGroup /\ WrapperIn(c.library, g)
          /\ \/ \E k \in 1..n : c.hooks[k].group = g.id
             \/ g.calls = "nothing" /\ \E k \in DOMAIN c.packs : c.packs[k].group = g.id
      BY <1>1 DEF CoreInv, GroupsOwned
    <3>2. g.id # 0
      BY <1>1, <3>1
    <3>3. ASSUME NEW k \in 1..n, c.hooks[k].group = g.id PROVE \E l \in 1..(n - 1) : d.hooks[l].group = g.id
      BY <1>2, <1>3, <3>2, <3>3
    <3> QED
      BY <1>2, <3>1, <3>3
  <2>2. /\ \A k \in DOMAIN d.hooks : d.hooks[k].group <= d.lastGroup
        /\ \A k \in DOMAIN d.packs : d.packs[k].group <= d.lastGroup
    BY <1>1, <1>2 DEF CoreInv, GroupsOwned
  <2>3. \A a, b \in DOMAIN d.hooks : d.hooks[a].group = d.hooks[b].group /\ d.hooks[a].group # 0 => a = b
    <3>1. SUFFICES ASSUME NEW a \in 1..(n - 1), NEW b \in 1..(n - 1),
                          d.hooks[a].group = d.hooks[b].group, d.hooks[a].group # 0
                   PROVE  a = b
      BY <1>2
    <3>2. /\ From(a) \in DOMAIN c.hooks /\ From(b) \in DOMAIN c.hooks
          /\ c.hooks[From(a)].group = c.hooks[From(b)].group /\ c.hooks[From(a)].group # 0
      BY <1>1, <1>2, <3>1
    <3>3. From(a) = From(b)
      BY <3>2 DEF CoreInv, GroupsOwned
    <3> QED
      BY <1>4, <3>3
  <2>4. \A a, b \in DOMAIN d.packs : d.packs[a].group = d.packs[b].group /\ d.packs[a].group # 0 => a = b
    BY DEF CoreInv, GroupsOwned
  <2>5. \A a \in DOMAIN d.hooks, b \in DOMAIN d.packs : d.hooks[a].group = d.packs[b].group => d.hooks[a].group = 0
    BY <1>1, <1>2 DEF CoreInv, GroupsOwned
  <2> QED
    BY <2>1, <2>2, <2>3, <2>4, <2>5 DEF GroupsOwned
<1>6. ClosedUnapplied(d)
  BY <1>1, <1>2 DEF CoreInv, ClosedUnapplied, Loader!IsModuleOpen
<1> QED
  BY <1>5, <1>6 DEF CoreInv, DisabledUngrouped

\* What a handler that leaves the library alone leaves of a core, which is
\* then told x.
Kept(c, d, x) ==
  /\ CoreInv(d)
  /\ ~ d.threw =>
       /\ Shadow(d) = x
       /\ AllApplied(c) => AllApplied(d)
       /\ d.library = c.library
       /\ d.library = Missing /\ d.hooks # <<>> => c.hooks # <<>>

LEMMA RegisterKept ==
  ASSUME NEW c, CoreInv(c), ~ c.threw, NEW packet \in Packet, packet.type = "PATCH_HOOK",
         NEW d \in Loader!RegisterHook(c, packet)
  PROVE  Kept(c, d, Told(Shadow(c), packet))
<1> DEFINE n == Len(c.hooks) + 1
           hook == [name |-> packet.name, source |-> packet.source, group |-> 0]
           t == [c EXCEPT !.hooks = Append(@, hook), !.capacity = Loader!Grown(@, n)]
<1>1. packet.name \in Hook /\ packet.source \in Source
  BY DEF Packet
<1>2. hook \in CoreHook /\ hook.name = packet.name /\ hook.source = packet.source /\ hook.group = 0
  BY <1>1 DEF CoreHook
<1>3. d \in Loader!ApplyHook(t, n)
  BY DEF Loader!RegisterHook, Loader!NoGroup
<1>4. c \in Core /\ c.hooks \in Seq(CoreHook) /\ n \in Nat /\ Loader!Grown(c.capacity, n) \in Nat
  BY CoreFacts DEF CoreInv, Loader!Grown
<1> HIDE DEF hook
<1>5. /\ Append(c.hooks, hook) \in Seq(CoreHook)
      /\ HooksTold(Append(c.hooks, hook))
           = Append(HooksTold(c.hooks), [name |-> packet.name, source |-> packet.source])
  BY <1>2, <1>4, CoreHookAdded
<1>6. t \in Core
  BY <1>4, <1>5 DEF Core
<1>7. /\ t.hooks = Append(c.hooks, hook) /\ t.packs = c.packs /\ t.groups = c.groups
      /\ t.lastGroup = c.lastGroup /\ t.library = c.library /\ t.threw = c.threw
  BY <1>4, CoreFacts
<1> HIDE DEF t
<1>8. CoreInv(t)
  BY <1>2, <1>6, <1>7, HookAppended
<1>9. /\ n \in DOMAIN t.hooks /\ t.hooks[n].group = 0 /\ DOMAIN t.hooks = 1..n
      /\ \A j \in DOMAIN c.hooks : t.hooks[j] = c.hooks[j] /\ j # n /\ j \in DOMAIN t.hooks
      /\ \A j \in 1..n : j \in DOMAIN c.hooks \/ j = n
  BY <1>2, <1>4, <1>7
<1> HIDE DEF n
<1>10. /\ CoreInv(d)
       /\ ~ d.threw =>
            /\ d.hooks = [t.hooks EXCEPT ![n].group = t.lastGroup + 1] /\ d.packs = t.packs
            /\ d.functions = t.functions /\ SameLibrary(t, d) /\ t.library # Missing
            /\ HookApplied(d, n)
            /\ \A j \in DOMAIN t.hooks : j # n /\ HookApplied(t, j) => HookApplied(d, j)
  BY <1>3, <1>7, <1>8, <1>9, ApplyFacts
<1>11. ASSUME ~ d.threw
       PROVE  /\ Shadow(d) = Told(Shadow(c), packet)
              /\ AllApplied(c) => AllApplied(d)
              /\ d.library = c.library /\ d.library # Missing
  <2>1. d.library = c.library /\ d.library # Missing
    BY <1>7, <1>10, <1>11 DEF SameLibrary
  <2>2. Shadow(d) = Told(Shadow(c), packet)
    <3>1. HooksTold(d.hooks) = HooksTold(t.hooks)
      <4>1. t.hooks \in Seq(CoreHook)
        BY <1>5, <1>7
      <4>2. \A group : HooksTold([t.hooks EXCEPT ![n].group = group]) = HooksTold(t.hooks)
        BY <1>9, <4>1, SameHooksTold
      <4> QED
        BY <1>10, <1>11, <4>2
    <3>2. Told(Shadow(c), packet)
            = [hooks |-> Append(HooksTold(c.hooks), [name |-> packet.name, source |-> packet.source]),
               enabled |-> EnabledIn(c.packs)]
      BY DEF Told, Shadow
    <3> QED
      BY <1>5, <1>7, <1>10, <1>11, <3>1, <3>2 DEF Shadow
  <2>3. ASSUME AllApplied(c) PROVE AllApplied(d)
    <3>1. \A j \in DOMAIN c.hooks : HookApplied(c, j)
      BY <2>1, <2>3 DEF AllApplied, Loader!IsModuleOpen
    <3>2. \A j \in DOMAIN c.hooks : HookApplied(t, j)
      BY <1>7, <1>9, <3>1 DEF HookApplied
    <3>3. DOMAIN d.hooks = DOMAIN t.hooks
      BY <1>10, <1>11
    <3>4. \A j \in DOMAIN d.hooks : HookApplied(d, j)
      BY <1>9, <1>10, <1>11, <3>2, <3>3
    <3> QED
      BY <2>1, <3>4 DEF AllApplied, Loader!IsModuleOpen
  <2> QED
    BY <2>1, <2>2, <2>3
<1> QED
  BY <1>10, <1>11 DEF Kept

\* A packet changes nothing for a core that has not what it names.
LEMMA NothingKept ==
  ASSUME NEW c, CoreInv(c)
  PROVE  Kept(c, c, Shadow(c))
BY DEF Kept

LEMMA UnregisterKept ==
  ASSUME NEW c, CoreInv(c), ~ c.threw, NEW packet \in Packet, packet.type = "PATCH_HOOK_REMOVE",
         NEW d \in Loader!UnregisterHook(c, packet)
  PROVE  Kept(c, d, Told(Shadow(c), packet))
<1> DEFINE name == packet.name
           i == Loader!FirstNamed(c.hooks, name)
           told == HooksTold(c.hooks)
<1>1. c \in Core /\ c.hooks \in Seq(CoreHook)
  BY CoreFacts DEF CoreInv
<1>2. Told(Shadow(c), packet) = [hooks |-> WithoutHook(told, name), enabled |-> EnabledIn(c.packs)]
  BY DEF Told, Shadow
<1>3. Loader!NamedIn(told, name) = Loader!NamedIn(c.hooks, name)
  BY DEF Loader!NamedIn, HooksTold
<1>4. CASE Loader!NamedIn(c.hooks, name) = {}
  <2>1. d = c
    BY <1>4 DEF Loader!UnregisterHook
  <2>2. Told(Shadow(c), packet) = Shadow(c)
    BY <1>2, <1>3, <1>4 DEF WithoutHook, Shadow
  <2> QED
    BY <2>1, <2>2, NothingKept
<1>5. CASE Loader!NamedIn(c.hooks, name) # {}
  <2>1. PICK e \in Loader!UnapplyHook(c, i) :
          d \in IF e.threw THEN {e} ELSE {[e EXCEPT !.hooks = Loader!RemoveAt(@, i)]}
    BY <1>5 DEF Loader!UnregisterHook, Loader!Then
  <2>2. i \in DOMAIN c.hooks
    BY <1>1, <1>5, FirstFacts
  <2>3. WithoutHook(told, name) = HooksTold(RemoveAt(c.hooks, i))
    BY <1>1, <1>5, CoreHookRemoved
  <2> HIDE DEF told, i, name
  <2>4. /\ CoreInv(e)
        /\ ~ e.threw =>
              /\ e.hooks = [c.hooks EXCEPT ![i].group = 0] /\ e.packs = c.packs
              /\ e.functions = c.functions /\ SameLibrary(c, e) /\ c.library # Missing
              /\ \A j \in DOMAIN c.hooks : j # i /\ HookApplied(c, j) => HookApplied(e, j)
    BY <2>1, <2>2, UnapplyFacts
  <2>5. CASE e.threw
    BY <2>1, <2>4, <2>5 DEF Kept
  <2>6. CASE ~ e.threw
    <3> DEFINE q == RemoveAt(e.hooks, i)
               n == Len(c.hooks)
    <3>1. d = [e EXCEPT !.hooks = q]
      BY <2>1, <2>6 DEF Loader!RemoveAt, RemoveAt
    <3>2. e \in Core /\ e.hooks \in Seq(CoreHook) /\ DOMAIN e.hooks = DOMAIN c.hooks
          /\ e.hooks[i].group = 0 /\ (\A j \in DOMAIN c.hooks : j # i => e.hooks[j] = c.hooks[j])
          /\ DOMAIN c.hooks = 1..n /\ n \in Nat /\ Len(e.hooks) = n
          /\ \A j \in DOMAIN c.hooks : e.hooks[j].name = c.hooks[j].name /\ e.hooks[j].source = c.hooks[j].source
      <4>1. e \in Core /\ e.hooks \in Seq(CoreHook) /\ c.hooks[i] \in CoreHook /\ DOMAIN e.hooks = DOMAIN c.hooks
        BY <1>1, <2>2, <2>4, <2>6, CoreFacts DEF CoreInv
      <4>2. DOMAIN c.hooks = 1..n /\ n \in Nat /\ Len(e.hooks) = n
        BY <1>1, <4>1
      <4>3. /\ e.hooks[i].group = 0 /\ e.hooks[i].name = c.hooks[i].name
            /\ e.hooks[i].source = c.hooks[i].source
            /\ \A j \in DOMAIN c.hooks : j # i => e.hooks[j] = c.hooks[j]
        BY <2>2, <2>4, <2>6, <4>1 DEF CoreHook
      <4> QED
        BY <4>1, <4>2, <4>3
    <3> HIDE DEF n
    <3>3. /\ q \in Seq(CoreHook) /\ DOMAIN q = 1..(n - 1)
          /\ \A j \in 1..(n - 1) : q[j] = IF j < i THEN e.hooks[j] ELSE e.hooks[j + 1]
      <4>1. i \in DOMAIN e.hooks
        BY <2>2, <3>2
      <4>2. /\ RemoveAt(e.hooks, i) \in Seq(CoreHook) /\ DOMAIN RemoveAt(e.hooks, i) = 1..(Len(e.hooks) - 1)
            /\ \A j \in 1..(Len(e.hooks) - 1) :
                 RemoveAt(e.hooks, i)[j] = IF j < i THEN e.hooks[j] ELSE e.hooks[j + 1]
        BY <3>2, <4>1, RemoveAtFacts
      <4> QED
        BY <3>2, <4>2
    <3> HIDE DEF q
    <3>4. d \in Core
      BY <3>1, <3>2, <3>3 DEF Core
    <3>5. /\ d.hooks = q /\ d.packs = e.packs /\ d.groups = e.groups /\ d.lastGroup = e.lastGroup
          /\ d.library = e.library
      BY <3>1, <3>2, CoreFacts
    <3>6. CoreInv(d)
      BY <2>2, <2>4, <3>2, <3>4, <3>5, HookDropped DEF q
    <3>7. Shadow(d) = Told(Shadow(c), packet)
      <4>1. DOMAIN RemoveAt(c.hooks, i) = 1..(n - 1)
            /\ \A j \in 1..(n - 1) : RemoveAt(c.hooks, i)[j] = IF j < i THEN c.hooks[j] ELSE c.hooks[j + 1]
        BY <1>1, <2>2, RemoveAtFacts DEF n
      <4>2. \A j \in 1..(n - 1) : j \in 1..n /\ j + 1 \in 1..n
        BY <3>2
      <4>3. \A j \in 1..(n - 1) : q[j].name = RemoveAt(c.hooks, i)[j].name
                                  /\ q[j].source = RemoveAt(c.hooks, i)[j].source
        <5>1. \A k \in 1..n : e.hooks[k].name = c.hooks[k].name /\ e.hooks[k].source = c.hooks[k].source
          BY <3>2
        <5>2. ASSUME NEW j \in 1..(n - 1)
              PROVE  /\ q[j].name = RemoveAt(c.hooks, i)[j].name
                     /\ q[j].source = RemoveAt(c.hooks, i)[j].source
          <6>1. CASE j < i
            BY <3>3, <4>1, <4>2, <5>1, <6>1
          <6>2. CASE ~ (j < i)
            BY <3>3, <4>1, <4>2, <5>1, <6>2
          <6> QED
            BY <6>1, <6>2
        <5> QED
          BY <5>2
      <4>4. HooksTold(q) = HooksTold(RemoveAt(c.hooks, i))
        BY <3>3, <4>1, <4>3 DEF HooksTold
      <4> QED
        BY <1>2, <2>3, <2>4, <2>6, <3>5, <4>4 DEF Shadow
    <3>8. d.library = c.library /\ d.library # Missing
      BY <2>4, <2>6, <3>5 DEF SameLibrary
    <3>9. ASSUME AllApplied(c) PROVE AllApplied(d)
      <4>1. \A j \in DOMAIN c.hooks : j # i => HookApplied(e, j)
        BY <2>4, <2>6, <3>8, <3>9 DEF AllApplied, Loader!IsModuleOpen
      <4>2. ASSUME NEW j \in 1..(n - 1) PROVE HookApplied(d, j)
        <5>1. PICK k \in 1..n : k # i /\ q[j] = e.hooks[k]
          <6>1. CASE j < i
            BY <3>2, <3>3, <4>2, <6>1
          <6>2. CASE ~ (j < i)
            <7>1. j + 1 \in 1..n /\ j + 1 # i /\ q[j] = e.hooks[j + 1]
              BY <2>2, <3>2, <3>3, <4>2, <6>2
            <7> QED
              BY <7>1
          <6> QED
            BY <6>1, <6>2
        <5> QED
          BY <3>2, <3>5, <4>1, <5>1 DEF HookApplied
      <4> QED
        BY <3>3, <3>5, <3>8, <4>2 DEF AllApplied, Loader!IsModuleOpen
    <3> QED
      BY <3>6, <3>7, <3>8, <3>9 DEF Kept
  <2> QED
    BY <2>5, <2>6
<1> QED
  BY <1>4, <1>5

-----------------------------------------------------------------------------
(* The core's packs.                                                       *)

\* Nothing but the functions of the hooks may differ, and whether it threw.
OnlyFunctions(c, d) ==
  /\ d.hooks = c.hooks /\ d.packs = c.packs /\ d.groups = c.groups /\ d.lastGroup = c.lastGroup
  /\ SameLibrary(c, d)

Adding(t, x) == Loader!AddFunction(t, x[1], x[2])
AddLoop == INSTANCE LoopProofs WITH Body <- Adding

AddFunctions(c, pack) == Loader!ForEach(c, HooksUsed[pack], LAMBDA d, hook : Loader!AddFunction(d, pack, hook))

LEMMA AddFunctionFacts ==
  ASSUME NEW c, NEW d \in Core, OnlyFunctions(c, d), ~ d.threw, NEW pack \in Pack, NEW hook \in Hook,
         NEW e \in Loader!AddFunction(d, pack, hook)
  PROVE  e \in Core /\ OnlyFunctions(c, e)
<1>1. [pack |-> pack, loaded |-> TRUE] \in Function
  BY DEF Function
<1>2. d.functions \in [Hook -> SUBSET Function] /\ d.aborted \in BOOLEAN
  BY CoreFacts
<1> DEFINE f == [d.functions EXCEPT ![hook] = d.functions[hook] \cup {[pack |-> pack, loaded |-> TRUE]}]
<1>3. f \in [Hook -> SUBSET Function]
  BY <1>1, <1>2
<1>4. e = [d EXCEPT !.functions = f] \/ e = [d EXCEPT !.aborted = TRUE, !.threw = TRUE]
  BY DEF Loader!AddFunction
<1> HIDE DEF f
<1>5. e \in Core
  BY <1>3, <1>4, ZenonT(40) DEF Core
<1> QED
  BY <1>4, <1>5, CoreFacts DEF OnlyFunctions, SameLibrary

LEMMA AddFunctionsFacts ==
  ASSUME NEW c \in Core, NEW pack \in Pack, NEW u \in AddFunctions(c, pack)
  PROVE  u \in Core /\ OnlyFunctions(c, u)
<1> DEFINE ks == HooksUsed[pack]
           n == Len(ks)
           xs == [i \in 1..n |-> <<pack, ks[i]>>]
           Like == {t \in Core : OnlyFunctions(c, t)}
           Good == [k \in 0..n |-> Like]
           Step(after, j) == UNION {IF t.threw THEN {t} ELSE Loader!AddFunction(t, pack, ks[j]) : t \in after[j - 1]}
<1>1. c \in Like /\ n \in Nat /\ \A j \in 1..n : ks[j] \in Hook
  BY PatchAssumption DEF OnlyFunctions, SameLibrary
<1>2. Len(xs) = n /\ (\A j \in 1..n : xs[j] = <<pack, ks[j]>>) /\ Len(ks) = n
  BY <1>1
<1> HIDE DEF xs, n, ks
<1>3. ASSUME NEW j \in 1..n, NEW r \in Like
      PROVE  AddLoop!Pass(r, xs[j]) \subseteq Like
  <2>1. CASE r.threw
    BY <1>3, <2>1 DEF AddLoop!Pass
  <2>2. CASE ~ r.threw
    <3>1. SUFFICES ASSUME NEW t \in Loader!AddFunction(r, pack, ks[j]) PROVE t \in Like
      BY <1>2, <2>2 DEF AddLoop!Pass, Adding
    <3>2. ks[j] \in Hook
      BY <1>1
    <3> QED
      BY <1>3, <2>2, <3>1, <3>2, AddFunctionFacts
  <2> QED
    BY <2>1, <2>2
<1> HIDE DEF Like
<1>4. \A j \in 1..n : \A t \in Good[j - 1] : AddLoop!Pass(t, xs[j]) \subseteq Good[j]
  <2>1. ASSUME NEW j \in 1..n PROVE j - 1 \in 0..n /\ j \in 0..n
    BY <1>1
  <2> QED
    BY <1>3, <2>1
<1>5. c \in Good[0] /\ Good[n] = Like
  BY <1>1
<1> HIDE DEF Good
<1>6. \E after : after = AddLoop!After(c, xs, after)
  BY <1>1, <1>2, AddLoop!LoopDefined
<1>7. \A after : after = AddLoop!After(c, xs, after) => after[n] \subseteq Good[n]
  BY <1>1, <1>2, <1>4, <1>5, AddLoop!LoopKeeps
<1>8. ASSUME NEW after
      PROVE  AddLoop!After(c, xs, after) = [j \in 0..n |-> IF j = 0 THEN {c} ELSE Step(after, j)]
  <2>1. ASSUME NEW j \in 0..n, j # 0
        PROVE  Step(after, j)
                 = UNION {IF t.threw THEN {t} ELSE Adding(t, xs[j]) : t \in after[j - 1]}
    <3>1. xs[j] = <<pack, ks[j]>>
      BY <1>1, <1>2, <2>1
    <3> QED
      BY <3>1 DEF Adding
  <2> HIDE DEF Step
  <2> QED
    BY <1>2, <2>1 DEF AddLoop!After
<1>9. AddFunctions(c, pack) \subseteq Like
  <2> DEFINE F(after) == [j \in 0..n |-> IF j = 0 THEN {c} ELSE Step(after, j)]
             a == CHOOSE after : after = F(after)
  <2>1. AddFunctions(c, pack) = a[n]
    <3>1. AddFunctions(c, pack)
            = (CHOOSE after : after = [j \in 0..Len(ks) |-> IF j = 0 THEN {c} ELSE Step(after, j)])[Len(ks)]
      BY DEF AddFunctions, Loader!ForEach, Loader!Then, ks
    <3> QED
      BY <1>2, <3>1
  <2> HIDE DEF Step
  <2>2. \A after : AddLoop!After(c, xs, after) = F(after)
    BY <1>8
  <2> HIDE DEF F
  <2>3. \E after : after = F(after)
    BY <1>6, <2>2
  <2>4. a = F(a)
    BY <2>3
  <2> HIDE DEF a
  <2>5. a[n] \subseteq Good[n]
    BY <1>7, <2>2, <2>4
  <2> QED
    BY <1>5, <2>1, <2>5
<1> QED
  BY <1>9 DEF Like

RemovingFunction(t, x) == Loader!RemoveFunction(t, x[1], x[2])
RemoveFunctionLoop == INSTANCE LoopProofs WITH Body <- RemovingFunction

RemoveFunctions(c, pack) == Loader!ForEach(c, HooksUsed[pack], LAMBDA d, hook : Loader!RemoveFunction(d, pack, hook))

LEMMA RemoveFunctionFacts ==
  ASSUME NEW c, NEW d \in Core, OnlyFunctions(c, d), ~ d.threw, NEW pack \in Pack, NEW hook \in Hook,
         NEW e \in Loader!RemoveFunction(d, pack, hook)
  PROVE  e \in Core /\ OnlyFunctions(c, e)
<1>2. d.functions \in [Hook -> SUBSET Function]
  BY CoreFacts
<1> DEFINE f == [d.functions EXCEPT ![hook] = d.functions[hook] \ {[pack |-> pack, loaded |-> TRUE]}]
<1>3. f \in [Hook -> SUBSET Function]
  BY <1>2
<1>4. e = [d EXCEPT !.functions = f] \/ e = d
  BY DEF Loader!RemoveFunction
<1> HIDE DEF f
<1>5. e \in Core
  BY <1>3, <1>4 DEF Core
<1> QED
  BY <1>4, <1>5, CoreFacts DEF OnlyFunctions, SameLibrary

LEMMA RemoveFunctionsFacts ==
  ASSUME NEW c \in Core, NEW pack \in Pack, NEW u \in RemoveFunctions(c, pack)
  PROVE  u \in Core /\ OnlyFunctions(c, u)
<1> DEFINE ks == HooksUsed[pack]
           n == Len(ks)
           xs == [i \in 1..n |-> <<pack, ks[i]>>]
           Like == {t \in Core : OnlyFunctions(c, t)}
           Good == [k \in 0..n |-> Like]
           Step(after, j) == UNION {IF t.threw THEN {t} ELSE Loader!RemoveFunction(t, pack, ks[j]) : t \in after[j - 1]}
<1>1. c \in Like /\ n \in Nat /\ \A j \in 1..n : ks[j] \in Hook
  BY PatchAssumption DEF OnlyFunctions, SameLibrary
<1>2. Len(xs) = n /\ (\A j \in 1..n : xs[j] = <<pack, ks[j]>>) /\ Len(ks) = n
  BY <1>1
<1> HIDE DEF xs, n, ks
<1>3. ASSUME NEW j \in 1..n, NEW r \in Like
      PROVE  RemoveFunctionLoop!Pass(r, xs[j]) \subseteq Like
  <2>1. CASE r.threw
    BY <1>3, <2>1 DEF RemoveFunctionLoop!Pass
  <2>2. CASE ~ r.threw
    <3>1. SUFFICES ASSUME NEW t \in Loader!RemoveFunction(r, pack, ks[j]) PROVE t \in Like
      BY <1>2, <2>2 DEF RemoveFunctionLoop!Pass, RemovingFunction
    <3>2. ks[j] \in Hook
      BY <1>1
    <3> QED
      BY <1>3, <2>2, <3>1, <3>2, RemoveFunctionFacts
  <2> QED
    BY <2>1, <2>2
<1> HIDE DEF Like
<1>4. \A j \in 1..n : \A t \in Good[j - 1] : RemoveFunctionLoop!Pass(t, xs[j]) \subseteq Good[j]
  <2>1. ASSUME NEW j \in 1..n PROVE j - 1 \in 0..n /\ j \in 0..n
    BY <1>1
  <2> QED
    BY <1>3, <2>1
<1>5. c \in Good[0] /\ Good[n] = Like
  BY <1>1
<1> HIDE DEF Good
<1>6. \E after : after = RemoveFunctionLoop!After(c, xs, after)
  BY <1>1, <1>2, RemoveFunctionLoop!LoopDefined
<1>7. \A after : after = RemoveFunctionLoop!After(c, xs, after) => after[n] \subseteq Good[n]
  BY <1>1, <1>2, <1>4, <1>5, RemoveFunctionLoop!LoopKeeps
<1>8. ASSUME NEW after
      PROVE  RemoveFunctionLoop!After(c, xs, after) = [j \in 0..n |-> IF j = 0 THEN {c} ELSE Step(after, j)]
  <2>1. ASSUME NEW j \in 0..n, j # 0
        PROVE  Step(after, j)
                 = UNION {IF t.threw THEN {t} ELSE RemovingFunction(t, xs[j]) : t \in after[j - 1]}
    <3>1. xs[j] = <<pack, ks[j]>>
      BY <1>1, <1>2, <2>1
    <3> QED
      BY <3>1 DEF RemovingFunction
  <2> HIDE DEF Step
  <2> QED
    BY <1>2, <2>1 DEF RemoveFunctionLoop!After
<1>9. RemoveFunctions(c, pack) \subseteq Like
  <2> DEFINE F(after) == [j \in 0..n |-> IF j = 0 THEN {c} ELSE Step(after, j)]
             a == CHOOSE after : after = F(after)
  <2>1. RemoveFunctions(c, pack) = a[n]
    <3>1. RemoveFunctions(c, pack)
            = (CHOOSE after : after = [j \in 0..Len(ks) |-> IF j = 0 THEN {c} ELSE Step(after, j)])[Len(ks)]
      BY DEF RemoveFunctions, Loader!ForEach, Loader!Then, ks
    <3> QED
      BY <1>2, <3>1
  <2> HIDE DEF Step
  <2>2. \A after : RemoveFunctionLoop!After(c, xs, after) = F(after)
    BY <1>8
  <2> HIDE DEF F
  <2>3. \E after : after = F(after)
    BY <1>6, <2>2
  <2>4. a = F(a)
    BY <2>3
  <2> HIDE DEF a
  <2>5. a[n] \subseteq Good[n]
    BY <1>7, <2>2, <2>4
  <2> QED
    BY <1>5, <2>1, <2>5
<1> QED
  BY <1>9 DEF Like

LEMMA OnlyFunctionsKept ==
  ASSUME NEW c, CoreInv(c), NEW d \in Core, OnlyFunctions(c, d)
  PROVE  CoreInv(d) /\ (AllApplied(c) => AllApplied(d))
<1>1. CoreInv(d)
  <2>1. d.library = c.library /\ d.groups \subseteq c.groups
    BY DEF OnlyFunctions, SameLibrary
  <2> QED
    BY <2>1, FewerGroups DEF OnlyFunctions
<1>2. AllApplied(c) => AllApplied(d)
  BY DEF OnlyFunctions, SameLibrary, AllApplied, HookApplied, Loader!IsModuleOpen
<1> QED
  BY <1>1, <1>2

\* A pack with a group, enabled or disabled.
Grouped(pack, group, e) == [[pack EXCEPT !.group = group] EXCEPT !.enabled = e]

PackSet(packs, i, group, e, q) ==
  /\ q \in Seq(CorePack) /\ DOMAIN q = DOMAIN packs
  /\ q[i].group = group /\ q[i].enabled = e
  /\ \A j \in DOMAIN packs : q[j].name = packs[j].name
  /\ \A j \in DOMAIN packs : j # i => q[j] = packs[j]
  /\ EnabledIn(q) = WithPack(EnabledIn(packs), packs[i].name, e)

\* The pack i of a list gets a group, and is enabled or disabled.
LEMMA CorePackSet ==
  ASSUME NEW packs \in Seq(CorePack), Apart(packs), NEW i \in DOMAIN packs, NEW e \in BOOLEAN,
         NEW group \in Nat,
         NEW q, q = [packs EXCEPT ![i] = Grouped(packs[i], group, e)]
  PROVE  PackSet(packs, i, group, e, q)
<1> DEFINE n == Len(packs)
<1>1. n \in Nat /\ DOMAIN packs = 1..n /\ \A j \in 1..n : packs[j] \in CorePack
  OBVIOUS
<1>2. /\ Grouped(packs[i], group, e)
           = [name |-> packs[i].name, enabled |-> e, group |-> group]
      /\ packs[i].name \in Pack
  <2> DEFINE p == packs[i]
             r == [p EXCEPT !.group = group]
  <2>1. p \in CorePack
    BY <1>1
  <2> HIDE DEF p
  <2>2. r = [name |-> p.name, enabled |-> p.enabled, group |-> group] /\ p.name \in Pack
    BY <2>1 DEF CorePack
  <2> HIDE DEF r
  <2>3. [r EXCEPT !.enabled = e] = [name |-> p.name, enabled |-> e, group |-> group]
    BY <2>2
  <2> QED
    BY <2>2, <2>3 DEF Grouped, r, p
<1>3. [name |-> packs[i].name, enabled |-> e, group |-> group] \in CorePack
  BY <1>2 DEF CorePack
<1>4. /\ DOMAIN q = 1..n /\ q[i] = [name |-> packs[i].name, enabled |-> e, group |-> group]
      /\ \A j \in 1..n : j # i => q[j] = packs[j]
  BY <1>1, <1>2
<1>5. q \in Seq(CorePack) /\ Len(q) = n
  <2>1. Grouped(packs[i], group, e) \in CorePack
    BY <1>2, <1>3
  <2> QED
    BY <1>1, <2>1
<1>6. \A j \in 1..n : q[j].name = packs[j].name
  BY <1>4
<1>7. Apart(q)
  BY <1>1, <1>4, <1>6 DEF Apart
<1>8. EnabledIn(q) = WithPack(EnabledIn(packs), packs[i].name, e)
  <2>1. ASSUME NEW p, p # packs[i].name PROVE p \in EnabledIn(q) <=> p \in EnabledIn(packs)
    BY <1>1, <1>4, <2>1 DEF EnabledIn
  <2>2. packs[i].name \in EnabledIn(q) <=> e
    BY <1>1, <1>4, <1>7 DEF EnabledIn, Apart
  <2>3. CASE e
    BY <2>1, <2>2, <2>3 DEF WithPack
  <2>4. CASE ~ e
    BY <2>1, <2>2, <2>4 DEF WithPack
  <2> QED
    BY <2>3, <2>4
<1> QED
  BY <1>1, <1>4, <1>5, <1>6, <1>8 DEF PackSet

\* What a core has been told once the pack is enabled, or disabled.
PackTold(c, name, e) == [hooks |-> HooksTold(c.hooks), enabled |-> WithPack(EnabledIn(c.packs), name, e)]

LEMMA PackSetKept ==
  ASSUME NEW c, NEW d, CoreInv(d), d.hooks = c.hooks, SameLibrary(c, d), NEW name, NEW e \in BOOLEAN,
         EnabledIn(d.packs) = WithPack(EnabledIn(c.packs), name, e),
         AllApplied(c) => AllApplied(d)
  PROVE  Kept(c, d, PackTold(c, name, e))
BY DEF Kept, SameLibrary, Shadow, PackTold

LEMMA EnableKept ==
  ASSUME NEW c, CoreInv(c), ~ c.threw, NEW i \in DOMAIN c.packs,
         NEW u \in Loader!EnablePatchPack(c, i)
  PROVE  Kept(c, u, PackTold(c, c.packs[i].name, TRUE))
<1> DEFINE name == c.packs[i].name
           on == TRUE
<1>5. on \in BOOLEAN /\ on
  OBVIOUS
<1>1. /\ c \in Core /\ name \in Pack /\ c.packs \in Seq(CorePack) /\ Apart(c.packs)
      /\ DOMAIN c.packs = 1..Len(c.packs) /\ Len(c.packs) \in Nat /\ c.packs[i].enabled \in BOOLEAN
      /\ c.packs[i] \in CorePack
  BY CoreFacts DEF CoreInv
<1>4. ASSUME NEW e \in BOOLEAN, NEW group \in Nat,
             NEW q, q = [c.packs EXCEPT ![i] = Grouped(c.packs[i], group, e)]
      PROVE  PackSet(c.packs, i, group, e, q)
  BY <1>1, <1>4, CorePackSet
<1>6. SUFFICES Kept(c, u, PackTold(c, name, on))
  OBVIOUS
<1>2. CASE c.packs[i].enabled
  <2>1. u = c
    BY <1>2 DEF Loader!EnablePatchPack
  <2>2. EnabledIn(c.packs) = WithPack(EnabledIn(c.packs), name, on)
    BY <1>1, <1>2, <1>5 DEF EnabledIn, WithPack
  <2>3. on \in BOOLEAN /\ SameLibrary(c, c)
    BY <1>5 DEF SameLibrary
  <2> HIDE DEF on
  <2> QED
    BY <2>1, <2>2, <2>3, PackSetKept
<1>3. CASE ~ c.packs[i].enabled
  <2>1. PICK d \in AddFunctions(c, name) :
          u \in IF d.threw THEN {d}
                ELSE IF name \in Replaces
                     THEN {[Loader!AddToQueue(d, name, "nothing", name) EXCEPT
                              !.packs[i].group = Loader!AddToQueue(d, name, "nothing", name).lastGroup,
                              !.packs[i].enabled = on]}
                     ELSE {[d EXCEPT !.packs[i].group = 0, !.packs[i].enabled = on]}
    BY <1>3, Zenon DEF Loader!EnablePatchPack, Loader!Then, AddFunctions, Loader!NoGroup
  <2> HIDE DEF on
  <2>2. d \in Core /\ OnlyFunctions(c, d)
    BY <1>1, <2>1, AddFunctionsFacts
  <2>3. CoreInv(d) /\ (AllApplied(c) => AllApplied(d)) /\ d.packs = c.packs /\ d.hooks = c.hooks
        /\ d.lastGroup = c.lastGroup /\ d.lastGroup \in Nat /\ SameLibrary(c, d)
    BY <2>2, OnlyFunctionsKept, CoreFacts DEF OnlyFunctions
  <2>4. d.packs[i].group = 0
    BY <1>3, <2>3 DEF CoreInv, DisabledUngrouped
  <2>5. CASE d.threw
    BY <2>1, <2>3, <2>5 DEF Kept
  <2>6. CASE ~ d.threw /\ name \in Replaces
    <3> DEFINE e == Loader!AddToQueue(d, name, "nothing", name)
               g == NewGroup(d, name, "nothing", name)
               q == [c.packs EXCEPT ![i] = Grouped(c.packs[i], d.lastGroup + 1, on)]
    <3>1. /\ e \in Core /\ e.groups = d.groups \cup {g}
          /\ e.lastGroup = d.lastGroup + 1 /\ e.threw = d.threw
          /\ e.hooks = d.hooks /\ e.packs = d.packs /\ e.functions = d.functions /\ SameLibrary(d, e)
      <4>1. name \in Item /\ name \in Source \cup Pack \cup {Missing}
        BY <1>1 DEF Item
      <4> HIDE DEF name, g
      <4>2. \A callee \in {"library", "nothing"} : \A f : f = Loader!AddToQueue(d, name, callee, name) =>
              /\ f \in Core /\ f.groups = d.groups \cup {NewGroup(d, name, callee, name)}
              /\ f.lastGroup = d.lastGroup + 1 /\ f.threw = d.threw
              /\ f.hooks = d.hooks /\ f.packs = d.packs /\ f.functions = d.functions /\ SameLibrary(d, f)
        BY <2>3, <4>1, QueueFacts, SMTT(40)
      <4> QED
        BY <4>2 DEF g
    <3>2. u = [[e EXCEPT !.packs[i].group = e.lastGroup] EXCEPT !.packs[i].enabled = on]
      BY <2>1, <2>6, Zenon
    <3> HIDE DEF e
    <3>3. u = [e EXCEPT !.packs = q]
      BY <1>1, <2>3, <3>1, <3>2 DEF Grouped
    <3>4. on \in BOOLEAN /\ on /\ d.lastGroup + 1 \in Nat
      BY <1>5, <2>3
    <3>5. /\ q \in Seq(CorePack) /\ DOMAIN q = DOMAIN c.packs
          /\ q[i].group = d.lastGroup + 1 /\ q[i].enabled = on
          /\ \A j \in DOMAIN c.packs : q[j].name = c.packs[j].name
          /\ \A j \in DOMAIN c.packs : j # i => q[j] = c.packs[j]
          /\ EnabledIn(q) = WithPack(EnabledIn(c.packs), c.packs[i].name, on)
      <4>1. q = [c.packs EXCEPT ![i] = Grouped(c.packs[i], d.lastGroup + 1, on)]
        OBVIOUS
      <4>2. d.lastGroup + 1 \in Nat
        BY <3>4
      <4> HIDE DEF q
      <4>3. PackSet(c.packs, i, d.lastGroup + 1, on, q)
        BY <1>4, <3>4, <4>1, <4>2, Zenon
      <4> QED
        BY <4>3, Zenon DEF PackSet
    <3> HIDE DEF q
    <3>6. u \in Core
      BY <3>1, <3>3, <3>5 DEF Core
    <3>7. /\ u.packs = q /\ u.hooks = e.hooks /\ u.groups = e.groups /\ u.lastGroup = e.lastGroup
          /\ SameLibrary(e, u)
      BY <3>1, <3>3, CoreFacts DEF SameLibrary
    <3>8. g.id = d.lastGroup + 1 /\ g.calls = "nothing"
      BY DEF NewGroup
    <3> HIDE DEF g, name
    <3>9. CoreInv(u)
      <4>1. /\ DOMAIN u.packs = DOMAIN d.packs /\ u.packs[i].group = d.lastGroup + 1 /\ u.packs[i].enabled
            /\ \A j \in DOMAIN d.packs : u.packs[j].name = d.packs[j].name
            /\ \A j \in DOMAIN d.packs : j # i => u.packs[j] = d.packs[j]
            /\ u.hooks = d.hooks /\ u.lastGroup = d.lastGroup + 1 /\ u.library = d.library
            /\ u.groups = d.groups \cup {g} /\ i \in DOMAIN d.packs
        BY <2>3, <3>1, <3>4, <3>5, <3>7, ZenonT(40) DEF SameLibrary
      <4> QED
        BY <2>3, <2>4, <3>6, <3>8, <4>1, PackOwned
    <3>10. AllApplied(d) => AllApplied(u)
      <4>1. u.hooks = d.hooks /\ d.groups \subseteq u.groups /\ u.library = d.library /\ u.saved = d.saved
        BY <3>1, <3>7 DEF SameLibrary
      <4> QED
        BY <4>1 DEF AllApplied, HookApplied, Loader!IsModuleOpen
    <3>11. SameLibrary(c, u) /\ u.hooks = c.hooks
      BY <2>3, <3>1, <3>7 DEF SameLibrary
    <3> QED
      BY <2>3, <3>4, <3>5, <3>7, <3>9, <3>10, <3>11, PackSetKept DEF name
  <2>7. CASE ~ d.threw /\ name \notin Replaces
    <3> DEFINE q == [c.packs EXCEPT ![i] = Grouped(c.packs[i], 0, on)]
    <3>2. u = [[d EXCEPT !.packs[i].group = 0] EXCEPT !.packs[i].enabled = on]
      BY <2>1, <2>7
    <3>3. u = [d EXCEPT !.packs = q]
      BY <1>1, <2>2, <2>3, <3>2 DEF Grouped
    <3>4. on \in BOOLEAN /\ on
      BY <1>5
    <3>5. /\ q \in Seq(CorePack) /\ DOMAIN q = DOMAIN c.packs
          /\ q[i].group = 0 /\ q[i].enabled = on
          /\ \A j \in DOMAIN c.packs : q[j].name = c.packs[j].name
          /\ \A j \in DOMAIN c.packs : j # i => q[j] = c.packs[j]
          /\ EnabledIn(q) = WithPack(EnabledIn(c.packs), c.packs[i].name, on)
      <4>1. q = [c.packs EXCEPT ![i] = Grouped(c.packs[i], 0, on)]
        OBVIOUS
      <4>2. 0 \in Nat
        BY <3>4
      <4> HIDE DEF q
      <4>3. PackSet(c.packs, i, 0, on, q)
        BY <1>4, <3>4, <4>1, <4>2, Zenon
      <4> QED
        BY <4>3, Zenon DEF PackSet
    <3> HIDE DEF q
    <3>6. u \in Core
      BY <2>2, <3>3, <3>5 DEF Core
    <3>7. /\ u.packs = q /\ u.hooks = d.hooks /\ u.groups = d.groups /\ u.lastGroup = d.lastGroup
          /\ SameLibrary(d, u)
      BY <2>2, <3>3, CoreFacts DEF SameLibrary
    <3>9. CoreInv(u)
      <4>1. /\ DOMAIN u.packs = DOMAIN d.packs /\ u.packs[i].group = 0
            /\ \A j \in DOMAIN d.packs : u.packs[j].name = d.packs[j].name
            /\ \A j \in DOMAIN d.packs : j # i => u.packs[j] = d.packs[j]
            /\ u.hooks = d.hooks /\ u.lastGroup = d.lastGroup /\ u.library = d.library
            /\ u.groups = d.groups /\ i \in DOMAIN d.packs
        BY <2>3, <3>5, <3>7 DEF SameLibrary
      <4>2. \A g \in d.groups : g.id # d.packs[i].group
        BY <2>3, <2>4 DEF CoreInv, GroupsOwned
      <4> QED
        BY <2>3, <3>6, <4>1, <4>2, PackUnowned
    <3>10. AllApplied(d) => AllApplied(u)
      <4>1. u.hooks = d.hooks /\ d.groups \subseteq u.groups /\ u.library = d.library /\ u.saved = d.saved
        BY <3>7 DEF SameLibrary
      <4> QED
        BY <4>1 DEF AllApplied, HookApplied, Loader!IsModuleOpen
    <3>11. SameLibrary(c, u) /\ u.hooks = c.hooks
      BY <2>3, <3>7 DEF SameLibrary
    <3> QED
      BY <2>3, <3>4, <3>5, <3>7, <3>9, <3>10, <3>11, PackSetKept
  <2> QED
    BY <2>5, <2>6, <2>7, SMTT(40)
<1> QED
  BY <1>1, <1>2, <1>3

\* A pack that is disabled has no group any more.
LEMMA DisableKept ==
  ASSUME NEW c, CoreInv(c), ~ c.threw, NEW i \in DOMAIN c.packs,
         NEW u \in Loader!DisablePatchPack(c, i)
  PROVE  /\ Kept(c, u, PackTold(c, c.packs[i].name, FALSE))
         /\ ~ u.threw =>
              /\ u.hooks = c.hooks /\ SameLibrary(c, u)
              /\ DOMAIN u.packs = DOMAIN c.packs
              /\ u.packs[i].name = c.packs[i].name /\ u.packs[i].group = 0
<1> DEFINE name == c.packs[i].name
           id == c.packs[i].group
           on == FALSE
<1>0. on \in BOOLEAN /\ ~ on
  OBVIOUS
<1>1. /\ c \in Core /\ name \in Pack /\ c.packs \in Seq(CorePack) /\ Apart(c.packs)
      /\ DOMAIN c.packs = 1..Len(c.packs) /\ Len(c.packs) \in Nat /\ c.packs[i].enabled \in BOOLEAN
      /\ c.packs[i] \in CorePack /\ id \in Nat
  BY CoreFacts DEF CoreInv
<1>2. ASSUME NEW e \in BOOLEAN, NEW group \in Nat,
             NEW q, q = [c.packs EXCEPT ![i] = Grouped(c.packs[i], group, e)]
      PROVE  PackSet(c.packs, i, group, e, q)
  BY <1>1, <1>2, CorePackSet
<1>3. SUFFICES /\ Kept(c, u, PackTold(c, name, on))
               /\ ~ u.threw =>
                    /\ u.hooks = c.hooks /\ SameLibrary(c, u) /\ DOMAIN u.packs = DOMAIN c.packs
                    /\ u.packs[i].name = c.packs[i].name /\ u.packs[i].group = 0
  OBVIOUS
<1>4. CASE ~ c.packs[i].enabled
  <2>1. u = c
    BY <1>4 DEF Loader!DisablePatchPack
  <2>2. EnabledIn(c.packs) = WithPack(EnabledIn(c.packs), name, on)
    BY <1>0, <1>1, <1>4 DEF EnabledIn, WithPack, Apart
  <2>3. on \in BOOLEAN /\ SameLibrary(c, c)
    BY <1>0 DEF SameLibrary
  <2>4. c.packs[i].group = 0
    BY <1>4 DEF CoreInv, DisabledUngrouped
  <2> HIDE DEF on
  <2> QED
    BY <2>1, <2>2, <2>3, <2>4, PackSetKept
<1>5. CASE c.packs[i].enabled
  <2>1. PICK d \in IF id = 0 THEN {c} ELSE Loader!UndoPatchGroup(c, id) :
          u \in IF d.threw THEN {d}
                ELSE Loader!Then(RemoveFunctions(d, name),
                       LAMBDA e : {[e EXCEPT !.packs[i].group = 0, !.packs[i].enabled = on]})
    BY <1>5 DEF Loader!DisablePatchPack, Loader!Then, RemoveFunctions, Loader!NoGroup
  <2> HIDE DEF on
  <2>2. /\ CoreInv(d)
        /\ ~ d.threw =>
             /\ \A g \in d.groups : g.id # id
             /\ \A g \in c.groups : g.id # id => g \in d.groups
             /\ d.hooks = c.hooks /\ d.packs = c.packs /\ SameLibrary(c, d)
    <3>1. CASE id = 0
      <4>1. d = c /\ SameLibrary(c, c)
        BY <2>1, <3>1 DEF SameLibrary
      <4>2. \A g \in c.groups : g.id \in 1..c.lastGroup
        BY DEF CoreInv, GroupsOwned
      <4>3. \A g \in c.groups : g.id # id
        BY <1>1, <3>1, <4>2, CoreFacts
      <4> HIDE DEF id
      <4> QED
        BY <4>1, <4>3
    <3>2. CASE id # 0
      <4>1. d \in Loader!UndoPatchGroup(c, id)
        BY <2>1, <3>2
      <4> HIDE DEF id
      <4> QED
        BY <4>1, UndoFacts
    <3> QED
      BY <3>1, <3>2
  <2>3. CASE d.threw
    BY <2>1, <2>2, <2>3 DEF Kept
  <2>4. CASE ~ d.threw
    <3>1. PICK e \in RemoveFunctions(d, name) :
            u \in IF e.threw THEN {e} ELSE {[e EXCEPT !.packs[i].group = 0, !.packs[i].enabled = on]}
      BY <2>1, <2>4 DEF Loader!Then
    <3>2. e \in Core /\ OnlyFunctions(d, e)
      BY <1>1, <2>2, <3>1, RemoveFunctionsFacts DEF CoreInv
    <3>3. CoreInv(e) /\ (AllApplied(d) => AllApplied(e)) /\ e.packs = c.packs /\ e.hooks = c.hooks
          /\ e.groups = d.groups /\ SameLibrary(c, e)
      BY <2>2, <2>4, <3>2, OnlyFunctionsKept DEF OnlyFunctions, SameLibrary
    <3>4. AllApplied(c) => AllApplied(d)
      <4>1. SUFFICES ASSUME AllApplied(c), d.library # Missing, NEW j \in DOMAIN c.hooks
                     PROVE  HookApplied(d, j)
        BY <2>2, <2>4 DEF AllApplied, Loader!IsModuleOpen, SameLibrary
      <4>2. HookApplied(c, j)
        BY <2>2, <2>4, <4>1 DEF AllApplied, Loader!IsModuleOpen, SameLibrary
      <4>3. PICK g \in c.groups : g.id = c.hooks[j].group /\ g.source = c.library[c.hooks[j].name]
        BY <4>2 DEF HookApplied
      <4>4. g.id # 0
        BY <1>1, CoreFacts DEF CoreInv, GroupsOwned
      <4>5. g.id # id
        BY <4>3, <4>4 DEF CoreInv, GroupsOwned
      <4>6. g \in d.groups /\ d.hooks = c.hooks /\ d.library = c.library
        BY <2>2, <2>4, <4>5 DEF SameLibrary
      <4> QED
        BY <4>3, <4>6 DEF HookApplied
    <3>5. CASE e.threw
      BY <3>1, <3>3, <3>5 DEF Kept
    <3>6. CASE ~ e.threw
      <4> DEFINE q == [c.packs EXCEPT ![i] = Grouped(c.packs[i], 0, on)]
      <4>1. u = [[e EXCEPT !.packs[i].group = 0] EXCEPT !.packs[i].enabled = on]
        BY <3>1, <3>6
      <4>2. u = [e EXCEPT !.packs = q]
        BY <1>1, <3>2, <3>3, <4>1 DEF Grouped
      <4>3. /\ q \in Seq(CorePack) /\ DOMAIN q = DOMAIN c.packs
            /\ q[i].group = 0 /\ q[i].enabled = on
            /\ \A j \in DOMAIN c.packs : q[j].name = c.packs[j].name
            /\ \A j \in DOMAIN c.packs : j # i => q[j] = c.packs[j]
            /\ EnabledIn(q) = WithPack(EnabledIn(c.packs), c.packs[i].name, on)
        <5>1. q = [c.packs EXCEPT ![i] = Grouped(c.packs[i], 0, on)]
          OBVIOUS
        <5>2. 0 \in Nat
          OBVIOUS
        <5> HIDE DEF q
        <5>3. PackSet(c.packs, i, 0, on, q)
          BY <1>0, <1>2, <5>1, <5>2, Zenon
        <5> QED
          BY <5>3, Zenon DEF PackSet
      <4> HIDE DEF q
      <4>4. u \in Core
        BY <3>2, <4>2, <4>3 DEF Core
      <4>5. /\ u.packs = q /\ u.hooks = e.hooks /\ u.groups = e.groups /\ u.lastGroup = e.lastGroup
            /\ SameLibrary(e, u)
        BY <3>2, <4>2, CoreFacts DEF SameLibrary
      <4>6. CoreInv(u)
        <5>1. /\ DOMAIN u.packs = DOMAIN e.packs /\ u.packs[i].group = 0
              /\ \A j \in DOMAIN e.packs : u.packs[j].name = e.packs[j].name
              /\ \A j \in DOMAIN e.packs : j # i => u.packs[j] = e.packs[j]
              /\ u.hooks = e.hooks /\ u.lastGroup = e.lastGroup /\ u.library = e.library
              /\ u.groups = e.groups /\ i \in DOMAIN e.packs
          BY <3>3, <4>3, <4>5 DEF SameLibrary
        <5>2. \A g \in e.groups : g.id # e.packs[i].group
          BY <2>2, <2>4, <3>3
        <5> QED
          BY <3>3, <4>4, <5>1, <5>2, PackUnowned
      <4>7. AllApplied(e) => AllApplied(u)
        <5>1. u.hooks = e.hooks /\ u.groups = e.groups /\ u.library = e.library /\ u.saved = e.saved
          BY <4>5 DEF SameLibrary
        <5> QED
          BY <5>1 DEF AllApplied, HookApplied, Loader!IsModuleOpen
      <4>8. SameLibrary(c, u) /\ u.hooks = c.hooks
        BY <3>3, <4>5 DEF SameLibrary
      <4>9. Kept(c, u, PackTold(c, name, on))
        BY <1>0, <3>3, <3>4, <4>3, <4>5, <4>6, <4>7, <4>8, PackSetKept
      <4> QED
        BY <4>3, <4>5, <4>8, <4>9
    <3> QED
      BY <3>5, <3>6
  <2> QED
    BY <2>3, <2>4, SMTT(40)
<1> QED
  BY <1>1, <1>4, <1>5

LEMMA CoreEntryAdded ==
  \A packs \in Seq(CorePack), p \in CorePack :
    Apart(packs) /\ Named(packs, p.name) = {} /\ ~ p.enabled =>
      Apart(Append(packs, p)) /\ EnabledIn(Append(packs, p)) = EnabledIn(packs)
BY EntryAdded

\* A pack is added, which is disabled.
LEMMA PackAppended ==
  ASSUME NEW c, CoreInv(c), NEW d \in Core, NEW pack \in CorePack, pack.group = 0, ~ pack.enabled,
         Loader!NamedIn(c.packs, pack.name) = {}, d.packs = Append(c.packs, pack),
         d.hooks = c.hooks, d.groups = c.groups, d.lastGroup = c.lastGroup, d.library = c.library
  PROVE  /\ CoreInv(d) /\ EnabledIn(d.packs) = EnabledIn(c.packs)
         /\ Len(c.packs) + 1 \in DOMAIN d.packs /\ d.packs[Len(c.packs) + 1] = pack
         /\ Len(d.packs) = Len(c.packs) + 1
<1> DEFINE n == Len(c.packs)
<1>1. c \in Core /\ c.lastGroup \in Nat /\ n \in Nat /\ DOMAIN c.packs = 1..n
      /\ c.packs \in Seq(CorePack) /\ Apart(c.packs)
  BY CoreFacts DEF CoreInv
<1>2. /\ DOMAIN d.packs = 1..(n + 1) /\ d.packs[n + 1] = pack /\ Len(d.packs) = n + 1
      /\ \A k \in 1..n : d.packs[k] = c.packs[k]
  BY <1>1
<1>3. Apart(d.packs) /\ EnabledIn(d.packs) = EnabledIn(c.packs)
  <2>1. Named(c.packs, pack.name) = {}
    BY DEF Named, Loader!NamedIn
  <2> QED
    BY <1>1, <2>1, CoreEntryAdded
<1> HIDE DEF n
<1>4. \A k \in 1..(n + 1) : k \in 1..n \/ k = n + 1
  BY <1>1
<1>5. \A k \in 1..n : k \in 1..(n + 1)
  BY <1>1
<1>6. GroupsOwned(d)
  <2>1. ASSUME NEW g \in d.groups
        PROVE  /\ g.id \in 1..d.lastGroup
               /\ \/ \E k \in DOMAIN d.hooks : d.hooks[k].group = g.id
                  \/ g.calls = "nothing" /\ \E k \in DOMAIN d.packs : d.packs[k].group = g.id
               /\ WrapperIn(d.library, g)
    BY <1>1, <1>2, <1>5 DEF CoreInv, GroupsOwned
  <2>2. /\ \A k \in DOMAIN d.hooks : d.hooks[k].group <= d.lastGroup
        /\ \A k \in DOMAIN d.packs : d.packs[k].group <= d.lastGroup
    BY <1>1, <1>2, <1>4 DEF CoreInv, GroupsOwned
  <2>3. \A a, b \in DOMAIN d.hooks : d.hooks[a].group = d.hooks[b].group /\ d.hooks[a].group # 0 => a = b
    BY DEF CoreInv, GroupsOwned
  <2>4. \A a, b \in DOMAIN d.packs : d.packs[a].group = d.packs[b].group /\ d.packs[a].group # 0 => a = b
    BY <1>1, <1>2, <1>4 DEF CoreInv, GroupsOwned
  <2>5. \A a \in DOMAIN d.hooks, b \in DOMAIN d.packs : d.hooks[a].group = d.packs[b].group => d.hooks[a].group = 0
    BY <1>1, <1>2, <1>4 DEF CoreInv, GroupsOwned
  <2> QED
    BY <2>1, <2>2, <2>3, <2>4, <2>5 DEF GroupsOwned
<1>7. DisabledUngrouped(d)
  BY <1>1, <1>2, <1>4 DEF CoreInv, DisabledUngrouped
<1>8. CoreInv(d)
  BY <1>3, <1>6, <1>7 DEF CoreInv, ClosedUnapplied, Loader!IsModuleOpen
<1>9. n + 1 \in 1..(n + 1)
  BY <1>1
<1> QED
  BY <1>2, <1>3, <1>8, <1>9 DEF n

\* A pack is removed, which has no group.
LEMMA PackDropped ==
  ASSUME NEW c, CoreInv(c), NEW d \in Core, NEW i \in DOMAIN c.packs, c.packs[i].group = 0,
         d.packs = RemoveAt(c.packs, i),
         d.hooks = c.hooks, d.groups = c.groups, d.lastGroup = c.lastGroup, d.library = c.library
  PROVE  CoreInv(d)
<1> DEFINE n == Len(c.packs)
           From(k) == IF k < i THEN k ELSE k + 1
<1>1. /\ c \in Core /\ c.lastGroup \in Nat /\ n \in Nat /\ DOMAIN c.packs = 1..n /\ i \in 1..n
      /\ c.packs \in Seq(CorePack) /\ Apart(c.packs)
  BY CoreFacts DEF CoreInv
<1>2. /\ DOMAIN d.packs = 1..(n - 1)
      /\ \A k \in 1..(n - 1) : d.packs[k] = c.packs[From(k)] /\ From(k) \in 1..n
  <2>1. DOMAIN d.packs = 1..(n - 1) /\ \A k \in 1..(n - 1) : d.packs[k] = c.packs[From(k)]
    BY <1>1, RemoveAtFacts
  <2>2. \A k \in 1..(n - 1) : From(k) \in 1..n
    BY <1>1
  <2> QED
    BY <2>1, <2>2
<1>3. \A k \in 1..n : k # i => \E l \in 1..(n - 1) : From(l) = k
  <2>1. ASSUME NEW k \in 1..n, k # i PROVE \E l \in 1..(n - 1) : From(l) = k
    <3>1. CASE k < i
      BY <1>1, <3>1
    <3>2. CASE k > i
      <4>1. k - 1 \in 1..(n - 1) /\ From(k - 1) = k
        BY <1>1, <3>2
      <4> QED
        BY <4>1
    <3> QED
      BY <1>1, <2>1, <3>1, <3>2
  <2> QED
    BY <2>1
<1>4. \A k, l \in 1..(n - 1) : From(k) = From(l) => k = l
  BY <1>1
<1> HIDE DEF n, From
<1>5. GroupsOwned(d)
  <2>1. ASSUME NEW g \in d.groups
        PROVE  /\ g.id \in 1..d.lastGroup
               /\ \/ \E k \in DOMAIN d.hooks : d.hooks[k].group = g.id
                  \/ g.calls = "nothing" /\ \E k \in DOMAIN d.packs : d.packs[k].group = g.id
               /\ WrapperIn(d.library, g)
    <3>1. /\ g.id \in 1..c.lastGroup /\ WrapperIn(c.library, g)
          /\ \/ \E k \in DOMAIN c.hooks : c.hooks[k].group = g.id
             \/ g.calls = "nothing" /\ \E k \in 1..n : c.packs[k].group = g.id
      BY <1>1 DEF CoreInv, GroupsOwned
    <3>2. g.id # 0
      BY <1>1, <3>1
    <3>3. ASSUME NEW k \in 1..n, c.packs[k].group = g.id PROVE \E l \in 1..(n - 1) : d.packs[l].group = g.id
      BY <1>2, <1>3, <3>2, <3>3
    <3> QED
      BY <1>2, <3>1, <3>3
  <2>2. /\ \A k \in DOMAIN d.hooks : d.hooks[k].group <= d.lastGroup
        /\ \A k \in DOMAIN d.packs : d.packs[k].group <= d.lastGroup
    BY <1>1, <1>2, SMTT(40) DEF CoreInv, GroupsOwned
  <2>3. \A a, b \in DOMAIN d.packs : d.packs[a].group = d.packs[b].group /\ d.packs[a].group # 0 => a = b
    <3>1. SUFFICES ASSUME NEW a \in 1..(n - 1), NEW b \in 1..(n - 1),
                          d.packs[a].group = d.packs[b].group, d.packs[a].group # 0
                   PROVE  a = b
      BY <1>2
    <3>2. /\ From(a) \in DOMAIN c.packs /\ From(b) \in DOMAIN c.packs
          /\ c.packs[From(a)].group = c.packs[From(b)].group /\ c.packs[From(a)].group # 0
      BY <1>1, <1>2, <3>1
    <3>3. From(a) = From(b)
      BY <3>2 DEF CoreInv, GroupsOwned
    <3> QED
      BY <1>4, <3>3
  <2>4. \A a, b \in DOMAIN d.hooks : d.hooks[a].group = d.hooks[b].group /\ d.hooks[a].group # 0 => a = b
    BY DEF CoreInv, GroupsOwned
  <2>5. \A a \in DOMAIN d.hooks, b \in DOMAIN d.packs : d.hooks[a].group = d.packs[b].group => d.hooks[a].group = 0
    <3>1. SUFFICES ASSUME NEW a \in DOMAIN d.hooks, NEW b \in 1..(n - 1), d.hooks[a].group = d.packs[b].group
                   PROVE  d.hooks[a].group = 0
      BY <1>2
    <3>2. From(b) \in DOMAIN c.packs /\ c.hooks[a].group = c.packs[From(b)].group /\ a \in DOMAIN c.hooks
      BY <1>1, <1>2, <3>1
    <3> QED
      BY <3>2 DEF CoreInv, GroupsOwned
  <2> QED
    BY <2>1, <2>2, <2>3, <2>4, <2>5 DEF GroupsOwned
<1>6. DisabledUngrouped(d)
  BY <1>1, <1>2 DEF CoreInv, DisabledUngrouped
<1>7. Apart(d.packs)
  BY <1>1, EntryRemoved
<1> QED
  BY <1>5, <1>6, <1>7 DEF CoreInv, ClosedUnapplied, Loader!IsModuleOpen

\* What a packet on a pack says.
LEMMA PackPacketTold ==
  ASSUME NEW c, NEW packet \in Packet
  PROVE  /\ packet.type = "PATCH_PACK" =>
              /\ packet.name \in Pack /\ packet.enabled \in BOOLEAN
              /\ packet.enabled => Told(Shadow(c), packet) = PackTold(c, packet.name, TRUE)
              /\ ~ packet.enabled => Told(Shadow(c), packet) = PackTold(c, packet.name, FALSE)
         /\ packet.type = "PATCH_PACK_REMOVE" =>
              Told(Shadow(c), packet) = PackTold(c, packet.name, FALSE)
<1>1. packet.type = "PATCH_PACK" => packet.name \in Pack /\ packet.enabled \in BOOLEAN
  BY DEF Packet
<1>2. ASSUME packet.type = "PATCH_PACK", packet.enabled
      PROVE  Told(Shadow(c), packet) = PackTold(c, packet.name, TRUE)
  BY <1>2 DEF Told, Shadow, PackTold, WithPack
<1>3. ASSUME packet.type = "PATCH_PACK", ~ packet.enabled
      PROVE  Told(Shadow(c), packet) = PackTold(c, packet.name, FALSE)
  BY <1>3 DEF Told, Shadow, PackTold, WithPack
<1>4. ASSUME packet.type = "PATCH_PACK_REMOVE"
      PROVE  Told(Shadow(c), packet) = PackTold(c, packet.name, FALSE)
  BY <1>4 DEF Told, Shadow, PackTold, WithPack
<1> QED
  BY <1>1, <1>2, <1>3, <1>4

LEMMA AddPackKept ==
  ASSUME NEW c, CoreInv(c), ~ c.threw, NEW packet \in Packet, packet.type = "PATCH_PACK",
         Loader!NamedIn(c.packs, packet.name) = {}, NEW u \in Loader!AddPatchPack(c, packet)
  PROVE  Kept(c, u, Told(Shadow(c), packet))
<1> DEFINE pack == [name |-> packet.name, enabled |-> FALSE, group |-> 0]
           d == [c EXCEPT !.packs = Append(@, pack)]
           n == Len(c.packs) + 1
<1>1. u \in IF packet.enabled THEN Loader!EnablePatchPack(d, Len(d.packs)) ELSE {d}
  BY DEF Loader!AddPatchPack, Loader!NoGroup
<1>2. c \in Core /\ c.packs \in Seq(CorePack) /\ packet.name \in Pack /\ packet.enabled \in BOOLEAN
  BY CoreFacts, PackPacketTold DEF CoreInv
<1>3. pack \in CorePack /\ pack.group = 0 /\ ~ pack.enabled /\ pack.name = packet.name
  BY <1>2 DEF CorePack
<1> HIDE DEF pack
<1>4. Append(c.packs, pack) \in Seq(CorePack)
  BY <1>2, <1>3
<1>5. d \in Core
  BY <1>2, <1>4 DEF Core
<1>6. /\ d.packs = Append(c.packs, pack) /\ d.hooks = c.hooks /\ d.groups = c.groups
      /\ d.lastGroup = c.lastGroup /\ d.threw = c.threw /\ SameLibrary(c, d)
  BY <1>2, CoreFacts DEF SameLibrary
<1> HIDE DEF d
<1>7. /\ CoreInv(d) /\ EnabledIn(d.packs) = EnabledIn(c.packs)
      /\ n \in DOMAIN d.packs /\ d.packs[n] = pack /\ Len(d.packs) = n
  <2>1. d.library = c.library /\ Loader!NamedIn(c.packs, pack.name) = {}
    BY <1>3, <1>6 DEF SameLibrary
  <2> QED
    BY <1>3, <1>5, <1>6, <2>1, PackAppended
<1>8. AllApplied(c) <=> AllApplied(d)
  BY <1>6 DEF SameLibrary, AllApplied, HookApplied, Loader!IsModuleOpen
<1> HIDE DEF n
<1>9. CASE packet.enabled
  <2>1. u \in Loader!EnablePatchPack(d, n)
    BY <1>1, <1>7, <1>9
  <2>2. Kept(d, u, PackTold(d, d.packs[n].name, TRUE))
    BY <1>6, <1>7, <2>1, EnableKept
  <2>3. PackTold(d, d.packs[n].name, TRUE) = Told(Shadow(c), packet)
    <3>1. PackTold(d, d.packs[n].name, TRUE) = PackTold(c, packet.name, TRUE)
      BY <1>3, <1>6, <1>7, Zenon DEF PackTold
    <3> QED
      BY <1>9, <3>1, PackPacketTold
  <2>4. Kept(d, u, Told(Shadow(c), packet))
    BY <2>2, <2>3
  <2> QED
    BY <1>6, <1>8, <2>4 DEF Kept, SameLibrary
<1>10. CASE ~ packet.enabled
  <2>1. u = d
    BY <1>1, <1>10
  <2>2. Told(Shadow(c), packet) = Shadow(d)
    <3>1. packet.name \notin EnabledIn(c.packs)
      BY DEF EnabledIn, Loader!NamedIn
    <3>2. Told(Shadow(c), packet) = [hooks |-> HooksTold(c.hooks), enabled |-> EnabledIn(c.packs) \ {packet.name}]
      BY <1>10 DEF Told, Shadow
    <3> QED
      BY <1>6, <1>7, <3>1, <3>2 DEF Shadow
  <2> QED
    BY <1>6, <1>7, <1>8, <2>1, <2>2 DEF Kept, SameLibrary
<1> QED
  BY <1>2, <1>9, <1>10

LEMMA UpdateKept ==
  ASSUME NEW c, CoreInv(c), ~ c.threw, NEW packet \in Packet, packet.type = "PATCH_PACK",
         NEW u \in Loader!UpdatePatchPack(c, packet)
  PROVE  Kept(c, u, Told(Shadow(c), packet))
<1> DEFINE i == Loader!FirstNamed(c.packs, packet.name)
<1>1. c \in Core /\ c.packs \in Seq(CorePack) /\ packet.name \in Pack /\ packet.enabled \in BOOLEAN
  BY CoreFacts, PackPacketTold DEF CoreInv
<1>2. CASE Loader!NamedIn(c.packs, packet.name) = {}
  BY <1>2, AddPackKept DEF Loader!UpdatePatchPack
<1>3. CASE Loader!NamedIn(c.packs, packet.name) # {}
  <2>1. i \in DOMAIN c.packs /\ c.packs[i].name = packet.name
    BY <1>1, <1>3, FirstFacts
  <2>2. u \in IF packet.enabled THEN Loader!EnablePatchPack(c, i) ELSE Loader!DisablePatchPack(c, i)
    BY <1>3 DEF Loader!UpdatePatchPack
  <2> HIDE DEF i
  <2>3. CASE packet.enabled
    <3>1. Kept(c, u, PackTold(c, c.packs[i].name, TRUE))
      BY <2>1, <2>2, <2>3, EnableKept
    <3> QED
      BY <2>1, <2>3, <3>1, PackPacketTold
  <2>4. CASE ~ packet.enabled
    <3>1. Kept(c, u, PackTold(c, c.packs[i].name, FALSE))
      BY <2>1, <2>2, <2>4, DisableKept
    <3> QED
      BY <2>1, <2>4, <3>1, PackPacketTold
  <2> QED
    BY <1>1, <2>3, <2>4
<1> QED
  BY <1>2, <1>3

LEMMA RemovePackKept ==
  ASSUME NEW c, CoreInv(c), ~ c.threw, NEW packet \in Packet, packet.type = "PATCH_PACK_REMOVE",
         NEW u \in Loader!RemovePatchPack(c, packet)
  PROVE  Kept(c, u, Told(Shadow(c), packet))
<1> DEFINE i == Loader!FirstNamed(c.packs, packet.name)
           name == packet.name
<1>1. c \in Core /\ c.packs \in Seq(CorePack)
  BY CoreFacts DEF CoreInv
<1>2. Told(Shadow(c), packet) = [hooks |-> HooksTold(c.hooks), enabled |-> EnabledIn(c.packs) \ {name}]
  BY DEF Told, Shadow
<1>3. CASE Loader!NamedIn(c.packs, name) = {}
  <2>1. u = c
    BY <1>3 DEF Loader!RemovePatchPack
  <2>2. name \notin EnabledIn(c.packs)
    BY <1>3 DEF EnabledIn, Loader!NamedIn
  <2>3. Told(Shadow(c), packet) = Shadow(c)
    BY <1>2, <2>2 DEF Shadow
  <2> QED
    BY <2>1, <2>3, NothingKept
<1>4. CASE Loader!NamedIn(c.packs, name) # {}
  <2>1. i \in DOMAIN c.packs /\ c.packs[i].name = name
    BY <1>1, <1>4, FirstFacts
  <2>2. PICK d \in Loader!DisablePatchPack(c, i) :
          u \in IF d.threw THEN {d} ELSE {[d EXCEPT !.packs = Loader!RemoveAt(@, i)]}
    BY <1>4 DEF Loader!RemovePatchPack, Loader!Then
  <2> HIDE DEF i, name
  <2>3. /\ Kept(c, d, PackTold(c, c.packs[i].name, FALSE))
        /\ ~ d.threw =>
             /\ d.hooks = c.hooks /\ SameLibrary(c, d)
             /\ DOMAIN d.packs = DOMAIN c.packs
             /\ d.packs[i].name = c.packs[i].name /\ d.packs[i].group = 0
    BY <2>1, <2>2, DisableKept
  <2>4. PackTold(c, c.packs[i].name, FALSE) = Told(Shadow(c), packet)
    BY <1>2, <2>1 DEF PackTold, WithPack
  <2>5. CASE d.threw
    BY <2>2, <2>3, <2>5 DEF Kept
  <2>6. CASE ~ d.threw
    <3> DEFINE q == RemoveAt(d.packs, i)
    <3>1. u = [d EXCEPT !.packs = q]
      BY <2>2, <2>6 DEF Loader!RemoveAt, RemoveAt
    <3>2. CoreInv(d) /\ d \in Core /\ d.packs \in Seq(CorePack) /\ i \in DOMAIN d.packs /\ Apart(d.packs)
      BY <2>1, <2>3, <2>6, CoreFacts DEF Kept, CoreInv
    <3>3. q \in Seq(CorePack) /\ EnabledIn(q) = EnabledIn(d.packs) \ {d.packs[i].name}
      BY <3>2, EntryRemoved
    <3> HIDE DEF q
    <3>4. u \in Core
      BY <3>1, <3>2, <3>3 DEF Core
    <3>5. /\ u.packs = q /\ u.hooks = d.hooks /\ u.groups = d.groups /\ u.lastGroup = d.lastGroup
          /\ SameLibrary(d, u)
      BY <3>1, <3>2, CoreFacts DEF SameLibrary
    <3>6. CoreInv(u)
      <4>1. u.library = d.library
        BY <3>5 DEF SameLibrary
      <4> QED
        BY <2>3, <2>6, <3>2, <3>4, <3>5, <4>1, PackDropped DEF q
    <3>7. AllApplied(d) => AllApplied(u)
      BY <3>5 DEF SameLibrary, AllApplied, HookApplied, Loader!IsModuleOpen
    <3>8. Shadow(u) = Told(Shadow(c), packet)
      <4>1. Shadow(d) = Told(Shadow(c), packet)
        BY <2>3, <2>4, <2>6 DEF Kept
      <4>2. EnabledIn(d.packs) = EnabledIn(c.packs) \ {name} /\ HooksTold(d.hooks) = HooksTold(c.hooks)
        BY <1>2, <4>1 DEF Shadow
      <4>3. EnabledIn(q) = EnabledIn(c.packs) \ {name}
        BY <2>1, <2>3, <2>6, <3>3, <4>2
      <4> QED
        BY <1>2, <3>5, <4>2, <4>3 DEF Shadow
    <3> QED
      BY <2>3, <2>6, <3>5, <3>6, <3>7, <3>8 DEF Kept, SameLibrary
  <2> QED
    BY <2>5, <2>6
<1> QED
  BY <1>3, <1>4

-----------------------------------------------------------------------------
(* The patcher library.                                                    *)

LEMMA WithNext ==
  ASSUME NEW S, NEW q \in Seq(S), NEW v \in S, NEW i, i = Len(q) + 1
  PROVE  Loader!With(q, i, v) \in Seq(S) /\ Len(Loader!With(q, i, v)) = i
<1> DEFINE n == Len(q)
<1>1. n \in Nat /\ DOMAIN q = 1..n /\ \A j \in 1..n : q[j] \in S
  OBVIOUS
<1>2. i = n + 1
  OBVIOUS
<1> HIDE DEF n
<1>3. Loader!With(q, i, v) = [j \in 1..i |-> IF j = i THEN v ELSE q[j]]
  <2>1. DOMAIN q \cup {i} = 1..i
    BY <1>1, <1>2
  <2> QED
    BY <2>1 DEF Loader!With
<1>4. \A j \in 1..i : (IF j = i THEN v ELSE q[j]) \in S
  BY <1>1, <1>2
<1> QED
  BY <1>1, <1>2, <1>3, <1>4

LEMMA SavedNext ==
  \A q \in Seq(SUBSET Function), v \in SUBSET Function : \A j : j = Len(q) + 1 =>
    Loader!With(q, j, v) \in Seq(SUBSET Function) /\ Len(Loader!With(q, j, v)) = j
<1> DEFINE S == SUBSET Function
<1>1. \A q \in Seq(S), v \in S : \A j : j = Len(q) + 1 =>
        Loader!With(q, j, v) \in Seq(S) /\ Len(Loader!With(q, j, v)) = j
  <2> HIDE DEF S
  <2> QED
    BY WithNext
<1> QED
  BY <1>1

\* A core whose first k hooks are saved; the list of its hooks is that of c.
Saving(c, k) ==
  {d \in Core :
     /\ CoreInv(d)
     /\ ~ d.threw =>
          /\ d.library = c.library /\ d.packs = c.packs /\ HooksTold(d.hooks) = HooksTold(c.hooks)
          /\ DOMAIN d.hooks = DOMAIN c.hooks /\ Len(d.saved) = k
          /\ \A j \in DOMAIN c.hooks : j <= k => d.hooks[j].group = 0}

LEMMA SaveHookFacts ==
  ASSUME NEW c, NEW k \in Nat, NEW d \in Saving(c, k), ~ d.threw, k + 1 \in DOMAIN c.hooks,
         NEW u \in Loader!SaveHook(d, k + 1)
  PROVE  u \in Saving(c, k + 1)
<1> DEFINE i == k + 1
<1>1. /\ CoreInv(d) /\ d \in Core /\ i \in DOMAIN d.hooks /\ d.hooks \in Seq(CoreHook) /\ i \in Nat
      /\ d.library = c.library /\ d.packs = c.packs /\ HooksTold(d.hooks) = HooksTold(c.hooks)
      /\ DOMAIN d.hooks = DOMAIN c.hooks /\ Len(d.saved) = k
      /\ \A j \in DOMAIN c.hooks : j <= k => d.hooks[j].group = 0
  BY CoreFacts DEF Saving
<1>2. DOMAIN c.hooks \subseteq Nat
  <2>1. DOMAIN d.hooks = 1..Len(d.hooks) /\ Len(d.hooks) \in Nat
    BY <1>1, CoreFacts
  <2> QED
    BY <1>1, <2>1
<1>3. PICK e \in Loader!UnapplyHook(d, i) :
        u \in IF e.threw THEN {e}
              ELSE IF Loader!HasSymbol(e, e.hooks[i].name)
              THEN {[e EXCEPT !.saved = Loader!With(@, i, e.functions[e.hooks[i].name])]}
              ELSE {Loader!Throws(e)}
  BY DEF Loader!SaveHook, Loader!Then
<1>4. i = k + 1
  OBVIOUS
<1> HIDE DEF i
<1>5. /\ CoreInv(e)
      /\ ~ e.threw =>
              /\ e.hooks = [d.hooks EXCEPT ![i].group = 0] /\ e.packs = d.packs
              /\ e.functions = d.functions /\ SameLibrary(d, e) /\ d.library # Missing
              /\ \A j \in DOMAIN d.hooks : j # i /\ HookApplied(d, j) => HookApplied(e, j)
  BY <1>1, <1>3, UnapplyFacts
<1>6. CASE e.threw
  BY <1>3, <1>4, <1>5, <1>6 DEF Saving, CoreInv
<1>7. CASE ~ e.threw /\ ~ Loader!HasSymbol(e, e.hooks[i].name)
  <2>1. u = Loader!Throws(e)
    BY <1>3, <1>7
  <2>2. CoreInv(u) /\ u.threw
    BY <1>5, <2>1, CoreThrows
  <2> QED
    BY <1>4, <2>2 DEF Saving, CoreInv
<1>8. CASE ~ e.threw /\ Loader!HasSymbol(e, e.hooks[i].name)
  <2> DEFINE w == Loader!With(e.saved, i, e.functions[e.hooks[i].name])
  <2>1. u = [e EXCEPT !.saved = w]
    BY <1>3, <1>8
  <2>2. /\ e \in Core /\ e.saved \in Seq(SUBSET Function) /\ Len(e.saved) = k
        /\ e.functions \in [Hook -> SUBSET Function]
    BY <1>1, <1>5, <1>8, CoreFacts DEF CoreInv, SameLibrary
  <2>3. HooksTold(e.hooks) = HooksTold(d.hooks)
    <3>1. \A group : HooksTold([d.hooks EXCEPT ![i].group = group]) = HooksTold(d.hooks)
      BY <1>1, SameHooksTold
    <3> QED
      BY <1>5, <1>8, <3>1
  <2>4. DOMAIN e.hooks = DOMAIN d.hooks /\ e.hooks[i].group = 0
        /\ \A j \in DOMAIN d.hooks : j # i => e.hooks[j] = d.hooks[j]
    <3>1. d.hooks[i] \in CoreHook
      BY <1>1
    <3> QED
      BY <1>1, <1>5, <1>8, <3>1 DEF CoreHook
  <2>5. e.functions[e.hooks[i].name] \in SUBSET Function
    <3>1. e.hooks[i].name \in Hook
      BY <1>1, <2>2, <2>4, CoreFacts
    <3> QED
      BY <2>2, <3>1
  <2>6. w \in Seq(SUBSET Function) /\ Len(w) = i
    BY <1>4, <2>2, <2>5, SavedNext
  <2> HIDE DEF w
  <2>7. u \in Core
    BY <2>1, <2>2, <2>6 DEF Core
  <2>8. /\ u.saved = w /\ u.hooks = e.hooks /\ u.packs = e.packs /\ u.groups = e.groups
        /\ u.lastGroup = e.lastGroup /\ u.library = e.library
    BY <2>1, <2>2, CoreFacts
  <2>9. CoreInv(u)
    BY <1>5, <2>7, <2>8, FewerGroups
  <2>10. \A j \in DOMAIN c.hooks : j <= i => u.hooks[j].group = 0
    <3>1. \A j \in DOMAIN c.hooks : j <= i => j <= k \/ j = i
      BY <1>2, <1>4
    <3> QED
      BY <1>1, <2>4, <2>8, <3>1
  <2>11. u.library = c.library /\ u.packs = c.packs
    BY <1>1, <1>5, <1>8, <2>8 DEF SameLibrary
  <2>12. u \in Saving(c, i)
    BY <1>1, <2>3, <2>4, <2>6, <2>7, <2>8, <2>9, <2>10, <2>11 DEF Saving
  <2> QED
    BY <1>4, <2>12
<1> QED
  BY <1>6, <1>7, <1>8

\* A core whose hooks are all unapplied loses its library.
LEMMA ClosedFacts ==
  ASSUME NEW d, CoreInv(d), \A j \in DOMAIN d.hooks : d.hooks[j].group = 0,
         NEW u, u = Loader!Closed(d)
  PROVE  /\ CoreInv(u) /\ u.library = Missing /\ u.hooks = d.hooks /\ u.packs = d.packs
         /\ u.saved = d.saved /\ u.threw = d.threw
<1>1. d \in Core /\ d.lastGroup \in Nat /\ d.groups \in SUBSET Group
  BY CoreFacts DEF CoreInv
<1>2. \A g \in d.groups : g \in Group /\ g.calls = "nothing"
  BY <1>1 DEF CoreInv, GroupsOwned
<1>3. {[g EXCEPT !.calls = IF @ = "library" THEN "gone" ELSE @] : g \in d.groups} = d.groups
  <2>1. ASSUME NEW g \in d.groups
        PROVE  [g EXCEPT !.calls = IF g.calls = "library" THEN "gone" ELSE g.calls] = g
    <3>1. g \in Group /\ g.calls = "nothing"
      BY <1>2
    <3> QED
      BY <3>1 DEF Group
  <2> QED
    BY <2>1
<1>4. Loader!NoFunctions \in [Hook -> SUBSET Function]
  BY DEF Loader!NoFunctions
<1>5. u = [d EXCEPT !.library = Missing, !.functions = Loader!NoFunctions, !.groups = d.groups]
  BY <1>3 DEF Loader!Closed
<1>6. u \in Core
  BY <1>1, <1>4, <1>5 DEF Core
<1>7. /\ u.library = Missing /\ u.hooks = d.hooks /\ u.packs = d.packs /\ u.saved = d.saved
      /\ u.threw = d.threw /\ u.groups = d.groups /\ u.lastGroup = d.lastGroup
  BY <1>1, <1>5, CoreFacts
<1>8. CoreInv(u)
  <2>1. \A g \in u.groups : WrapperIn(u.library, g)
    BY <1>2, <1>7 DEF WrapperIn
  <2> QED
    BY <1>6, <1>7, <2>1 DEF CoreInv, GroupsOwned, DisabledUngrouped, ClosedUnapplied
<1> QED
  BY <1>7, <1>8

SavingHook(t, i) == Loader!SaveHook(t, i)
SaveLoop == INSTANCE LoopProofs WITH Body <- SavingHook

\* What the unloaded core has left.
Unloaded(c, u) ==
  /\ CoreInv(u)
  /\ ~ u.threw =>
       /\ u.library = Missing /\ Shadow(u) = Shadow(c) /\ DOMAIN u.hooks = DOMAIN c.hooks
       /\ AllApplied(c) => AllApplied(u)

LEMMA UnloadFacts ==
  ASSUME NEW c, CoreInv(c), ~ c.threw, NEW u \in Loader!UnloadLibrary(c)
  PROVE  Unloaded(c, u)
<1> DEFINE b == [c EXCEPT !.saved = <<>>, !.savedCapacity = c.capacity]
           n == Len(c.hooks)
           xs == [i \in DOMAIN c.hooks |-> i]
           Good == [k \in 0..n |-> Saving(c, k)]
<1>1. c \in Core /\ n \in Nat /\ DOMAIN c.hooks = 1..n /\ c.capacity \in Nat
  BY CoreFacts DEF CoreInv
<1>2. CASE ~ Loader!IsModuleOpen(c)
  <2>1. u = c /\ c.library = Missing
    BY <1>2 DEF Loader!UnloadLibrary, Loader!IsModuleOpen
  <2> QED
    BY <2>1 DEF Unloaded
<1>3. CASE Loader!IsModuleOpen(c)
  <2>1. PICK d \in Loader!ForEach(b, xs, Loader!SaveHook) : u \in IF d.threw THEN {d} ELSE {Loader!Closed(d)}
    BY <1>3 DEF Loader!UnloadLibrary, Loader!Then
  <2>2. b \in Saving(c, 0)
    <3>1. b \in Core
      <4>1. <<>> \in Seq(SUBSET Function)
        OBVIOUS
      <4> QED
        BY <1>1, <4>1 DEF Core
    <3>2. /\ b.hooks = c.hooks /\ b.packs = c.packs /\ b.groups = c.groups
          /\ b.lastGroup = c.lastGroup /\ b.library = c.library /\ b.saved = <<>>
      BY <1>1, CoreFacts
    <3> HIDE DEF b
    <3>3. CoreInv(b)
      BY <3>1, <3>2, FewerGroups
    <3>4. \A j \in DOMAIN c.hooks : ~ (j <= 0)
      BY <1>1
    <3> QED
      BY <3>1, <3>2, <3>3, <3>4 DEF Saving
  <2>3. Len(xs) = n /\ \A j \in 1..n : xs[j] = j
    BY <1>1
  <2> HIDE DEF xs, n, b
  <2>4. ASSUME NEW j \in 1..n, NEW t \in Saving(c, j - 1)
        PROVE  SaveLoop!Pass(t, xs[j]) \subseteq Saving(c, j)
    <3>1. j - 1 \in Nat /\ (j - 1) + 1 = j /\ j \in DOMAIN c.hooks /\ xs[j] = j
      BY <1>1, <2>3
    <3>2. CASE t.threw
      BY <2>4, <3>2 DEF SaveLoop!Pass, Saving
    <3>3. CASE ~ t.threw
      <4>1. SUFFICES ASSUME NEW v \in Loader!SaveHook(t, j) PROVE v \in Saving(c, j)
        BY <3>1, <3>3 DEF SaveLoop!Pass, SavingHook
      <4>2. \A k \in Nat : k + 1 = j /\ t \in Saving(c, k) => v \in Saving(c, k + 1)
        BY <3>1, <3>3, <4>1, SaveHookFacts
      <4> QED
        BY <2>4, <3>1, <4>2
    <3> QED
      BY <3>2, <3>3
  <2>5. \A j \in 1..n : \A t \in Good[j - 1] : SaveLoop!Pass(t, xs[j]) \subseteq Good[j]
    <3>1. ASSUME NEW j \in 1..n PROVE j - 1 \in 0..n /\ j \in 0..n
      BY <1>1
    <3> QED
      BY <2>4, <3>1
  <2>6. b \in Good[0] /\ Good[n] = Saving(c, n)
    BY <1>1, <2>2
  <2> HIDE DEF Good
  <2>7. \E after : after = SaveLoop!After(b, xs, after)
    BY <1>1, <2>3, SaveLoop!LoopDefined
  <2>8. \A after : after = SaveLoop!After(b, xs, after) => after[n] \subseteq Good[n]
    BY <1>1, <2>3, <2>5, <2>6, SaveLoop!LoopKeeps
  <2>9. Loader!ForEach(b, xs, Loader!SaveHook) \subseteq Good[Len(xs)]
    BY <2>3, <2>7, <2>8 DEF Loader!ForEach, Loader!Then, SavingHook, SaveLoop!After
  <2>10. d \in Saving(c, n)
    BY <2>1, <2>3, <2>6, <2>9
  <2>11. CASE d.threw
    BY <2>1, <2>10, <2>11 DEF Saving, Unloaded
  <2>12. CASE ~ d.threw
    <3>1. /\ CoreInv(d) /\ d.packs = c.packs /\ HooksTold(d.hooks) = HooksTold(c.hooks)
          /\ DOMAIN d.hooks = DOMAIN c.hooks /\ Len(d.saved) = n
          /\ \A j \in DOMAIN d.hooks : d.hooks[j].group = 0
      BY <1>1, <2>10, <2>12 DEF Saving
    <3>2. /\ CoreInv(u) /\ u.library = Missing /\ u.hooks = d.hooks /\ u.packs = d.packs
          /\ u.saved = d.saved /\ u.threw = d.threw
      <4>1. u = Loader!Closed(d)
        BY <2>1, <2>12
      <4> QED
        BY <3>1, <4>1, ClosedFacts
    <3>3. Len(u.hooks) = n
      <4>1. u.hooks \in Seq(CoreHook)
        BY <3>2, CoreFacts DEF CoreInv
      <4> QED
        BY <1>1, <3>1, <3>2, <4>1
    <3>4. AllApplied(u)
      BY <3>1, <3>2, <3>3 DEF AllApplied, Loader!IsModuleOpen
    <3> QED
      BY <3>1, <3>2, <3>4 DEF Unloaded, Shadow
  <2> QED
    BY <2>11, <2>12
<1> QED
  BY <1>2, <1>3

\* A core with the library onDisk: the first k hooks of c are applied again,
\* the others are not.
Restoring(c, onDisk, k) ==
  {d \in Core :
     /\ CoreInv(d)
     /\ ~ d.threw =>
          /\ d.library = onDisk /\ Shadow(d) = Shadow(c) /\ DOMAIN d.hooks = DOMAIN c.hooks
          /\ \A j \in DOMAIN c.hooks : IF j <= k THEN HookApplied(d, j) ELSE d.hooks[j].group = 0}

\* A hook gets back functions of before, which may be code of this library.
Refilled(d, i, same) ==
  [d EXCEPT !.functions[d.hooks[i].name] = {[f EXCEPT !.loaded = @ /\ same] : f \in d.saved[i]}]

LEMMA RefilledFacts ==
  ASSUME NEW d, CoreInv(d), NEW i \in DOMAIN d.hooks, i \in DOMAIN d.saved, NEW same \in BOOLEAN,
         NEW e, e = Refilled(d, i, same)
  PROVE  /\ CoreInv(e) /\ e.hooks = d.hooks /\ e.packs = d.packs /\ e.library = d.library
         /\ e.groups = d.groups /\ e.threw = d.threw
<1> DEFINE fs == {[f EXCEPT !.loaded = @ /\ same] : f \in d.saved[i]}
           functions == [d.functions EXCEPT ![d.hooks[i].name] = fs]
<1>1. /\ d \in Core /\ d.hooks[i].name \in Hook /\ d.functions \in [Hook -> SUBSET Function]
      /\ d.saved \in Seq(SUBSET Function)
  BY CoreFacts DEF CoreInv
<1>2. d.saved[i] \in SUBSET Function
  BY <1>1
<1>3. fs \in SUBSET Function
  <2>1. ASSUME NEW f \in d.saved[i] PROVE [f EXCEPT !.loaded = f.loaded /\ same] \in Function
    <3>1. f \in Function /\ (f.loaded /\ same) \in BOOLEAN
      BY <1>2
    <3> QED
      BY <3>1 DEF Function
  <2> QED
    BY <2>1
<1> HIDE DEF fs
<1>4. functions \in [Hook -> SUBSET Function]
  BY <1>1, <1>3
<1>5. e = [d EXCEPT !.functions = functions]
  BY <1>1 DEF Refilled, fs
<1> HIDE DEF functions
<1>6. e \in Core
  BY <1>1, <1>4, <1>5 DEF Core
<1>7. /\ e.hooks = d.hooks /\ e.packs = d.packs /\ e.library = d.library
      /\ e.groups = d.groups /\ e.threw = d.threw /\ e.lastGroup = d.lastGroup
  BY <1>1, <1>5, CoreFacts
<1>8. CoreInv(e)
  BY <1>6, <1>7, FewerGroups
<1> QED
  BY <1>7, <1>8

LEMMA RestoreHookFacts ==
  ASSUME NEW c, NEW onDisk, NEW k \in Nat, NEW d \in Restoring(c, onDisk, k), ~ d.threw,
         k + 1 \in DOMAIN d.saved, NEW u \in Loader!RestoreHook(d, k + 1)
  PROVE  u \in Restoring(c, onDisk, k + 1) /\ (u.threw \/ u.saved = d.saved)
<1> DEFINE i == k + 1
           Apply(e) == Loader!ApplyHook(e, i)
<1>1. /\ CoreInv(d) /\ d \in Core /\ d.hooks \in Seq(CoreHook) /\ i \in Nat /\ i \in DOMAIN d.saved
      /\ d.library = onDisk /\ Shadow(d) = Shadow(c) /\ DOMAIN d.hooks = DOMAIN c.hooks
      /\ DOMAIN d.hooks = 1..Len(d.hooks) /\ Len(d.hooks) \in Nat
      /\ \A j \in DOMAIN c.hooks : IF j <= k THEN HookApplied(d, j) ELSE d.hooks[j].group = 0
  BY CoreFacts DEF Restoring
<1>2. i = k + 1
  OBVIOUS
<1>3. \/ /\ u = [d EXCEPT !.undefined = TRUE, !.threw = TRUE]
      \/ /\ i \in DOMAIN d.hooks
         /\ \/ u \in Loader!ApplyHook(d, i)
            \/ \E same \in BOOLEAN : u \in Loader!ApplyHook(Refilled(d, i, same), i)
  <2>1. i \in DOMAIN d.hooks <=> ~ (i > Len(d.hooks))
    BY <1>1
  <2> QED
    BY <2>1 DEF Loader!RestoreHook, Refilled
<1> HIDE DEF i
<1>4. CASE u = [d EXCEPT !.undefined = TRUE, !.threw = TRUE]
  <2>1. u \in Core
    BY <1>1, <1>4 DEF Core
  <2>2. /\ u.hooks = d.hooks /\ u.packs = d.packs /\ u.library = d.library
        /\ u.groups = d.groups /\ u.threw /\ u.lastGroup = d.lastGroup
    BY <1>1, <1>4, CoreFacts
  <2>3. CoreInv(u)
    BY <1>1, <2>1, <2>2, FewerGroups
  <2> QED
    BY <2>1, <2>2, <2>3 DEF Restoring
<1>5. ASSUME NEW e, u \in Loader!ApplyHook(e, i), i \in DOMAIN d.hooks, CoreInv(e), e.hooks = d.hooks,
             e.packs = d.packs, e.library = d.library, e.groups = d.groups, e.threw = d.threw,
             e.saved = d.saved
      PROVE  u \in Restoring(c, onDisk, i) /\ (u.threw \/ u.saved = d.saved)
  <2>1. e.hooks[i].group = 0 /\ i \in DOMAIN e.hooks /\ ~ e.threw
    BY <1>1, <1>2, <1>5
  <2>2. /\ CoreInv(u)
        /\ ~ u.threw =>
              /\ u.hooks = [e.hooks EXCEPT ![i].group = e.lastGroup + 1] /\ u.packs = e.packs
              /\ u.functions = e.functions /\ SameLibrary(e, u) /\ e.library # Missing
              /\ HookApplied(u, i)
              /\ \A j \in DOMAIN e.hooks : j # i /\ HookApplied(e, j) => HookApplied(u, j)
    BY <1>5, <2>1, ApplyFacts
  <2>3. CASE u.threw
    BY <2>2, <2>3 DEF Restoring, CoreInv
  <2>4. CASE ~ u.threw
    <3>1. HooksTold(u.hooks) = HooksTold(d.hooks)
      <4>1. \A group : HooksTold([d.hooks EXCEPT ![i].group = group]) = HooksTold(d.hooks)
        BY <1>1, <1>5, SameHooksTold
      <4>2. u.hooks = [d.hooks EXCEPT ![i].group = e.lastGroup + 1]
        BY <1>5, <2>2, <2>4
      <4> QED
        BY <4>1, <4>2
    <3>2. DOMAIN u.hooks = DOMAIN d.hooks /\ \A j \in DOMAIN d.hooks : j # i => u.hooks[j] = d.hooks[j]
      BY <1>5, <2>2, <2>4
    <3>3. Shadow(u) = Shadow(c)
      BY <1>1, <1>5, <2>2, <2>4, <3>1 DEF Shadow
    <3>4. \A j \in DOMAIN d.hooks : HookApplied(d, j) => HookApplied(e, j)
      BY <1>5 DEF HookApplied
    <3>5. ASSUME NEW j \in DOMAIN c.hooks
          PROVE  IF j <= i THEN HookApplied(u, j) ELSE u.hooks[j].group = 0
      <4>1. j \in Nat /\ j \in DOMAIN d.hooks
        BY <1>1
      <4>2. CASE j = i
        BY <1>1, <2>2, <2>4, <4>2
      <4>3. CASE j < i
        <5>1. j <= k /\ j <= i /\ j # i
          BY <1>1, <1>2, <4>1, <4>3
        <5>2. HookApplied(e, j)
          BY <1>1, <3>4, <4>1, <5>1
        <5> QED
          BY <1>5, <2>2, <2>4, <4>1, <5>1, <5>2
      <4>4. CASE j > i
        <5>1. ~ (j <= k) /\ ~ (j <= i) /\ j # i
          BY <1>1, <1>2, <4>1, <4>4
        <5> QED
          BY <1>1, <3>2, <4>1, <5>1
      <4> QED
        BY <1>1, <4>1, <4>2, <4>3, <4>4
    <3>6. u.library = onDisk /\ u \in Core /\ u.saved = d.saved
      BY <1>1, <1>5, <2>2, <2>4 DEF SameLibrary, CoreInv
    <3> QED
      BY <1>1, <2>2, <3>2, <3>3, <3>5, <3>6 DEF Restoring
  <2> QED
    BY <2>3, <2>4
<1>6. CASE i \in DOMAIN d.hooks /\ u \in Loader!ApplyHook(d, i)
  BY <1>1, <1>2, <1>5, <1>6
<1>7. CASE i \in DOMAIN d.hooks /\ \E same \in BOOLEAN : u \in Loader!ApplyHook(Refilled(d, i, same), i)
  <2>1. PICK same \in BOOLEAN : u \in Loader!ApplyHook(Refilled(d, i, same), i)
    BY <1>7
  <2> DEFINE e == Refilled(d, i, same)
  <2>2. e = Refilled(d, i, same)
    OBVIOUS
  <2>3. e.saved = d.saved
    BY <1>1, CoreFacts DEF Refilled
  <2> HIDE DEF e
  <2>4. /\ CoreInv(e) /\ e.hooks = d.hooks /\ e.packs = d.packs /\ e.library = d.library
        /\ e.groups = d.groups /\ e.threw = d.threw
    BY <1>1, <1>7, <2>2, RefilledFacts
  <2> QED
    BY <1>2, <1>5, <1>7, <2>1, <2>2, <2>3, <2>4
<1> QED
  BY <1>2, <1>3, <1>4, <1>6, <1>7

RestoringHook(t, i) == Loader!RestoreHook(t, i)
RestoreLoop == INSTANCE LoopProofs WITH Body <- RestoringHook

\* What the core has once the library is loaded.
LoadedFrom(c, onDisk, u) ==
  /\ CoreInv(u)
  /\ ~ u.threw =>
       /\ u.library = onDisk /\ onDisk # Missing /\ Shadow(u) = Shadow(c)
       /\ AllApplied(c) => AllApplied(u)

LEMMA LoadFacts ==
  ASSUME NEW c, CoreInv(c), ~ c.threw, NEW onDisk \in Image \cup {Missing},
         NEW u \in Loader!LoadLibrary(c, onDisk)
  PROVE  LoadedFrom(c, onDisk, u)
<1> DEFINE Body(d) ==
             IF onDisk = Missing THEN {Loader!Throws(d)}
             ELSE {Loader!Throws(e) : e \in {[f EXCEPT !.faults = @ + 1] : f \in {g \in {d} : g.faults < MaxFaults}}}
                  \cup Loader!ForEach([d EXCEPT !.library = onDisk], Loader!Ascending(DOMAIN d.saved),
                                      Loader!RestoreHook)
<1>1. PICK d \in Loader!UnloadLibrary(c) : u \in IF d.threw THEN {d} ELSE Body(d)
  BY DEF Loader!LoadLibrary, Loader!Then
<1> HIDE DEF Body
<1>2. Unloaded(c, d)
  BY <1>1, UnloadFacts
<1>3. CoreInv(d) /\ d \in Core
  BY <1>2 DEF Unloaded, CoreInv
<1>4. CASE d.threw
  BY <1>1, <1>3, <1>4 DEF LoadedFrom
<1>5. CASE ~ d.threw /\ u = Loader!Throws(d)
  <2>1. CoreInv(u) /\ u.threw
    BY <1>3, <1>5, CoreThrows
  <2> QED
    BY <2>1 DEF LoadedFrom
<1>6. CASE d.faults < MaxFaults /\ u = Loader!Throws([d EXCEPT !.faults = @ + 1])
  <2> DEFINE e == [d EXCEPT !.faults = d.faults + 1]
  <2>1. d.faults + 1 \in 0..MaxFaults
    BY <1>3, <1>6, CoreFacts, PatchAssumption
  <2>2. e \in Core
    BY <1>3, <2>1 DEF Core
  <2>3. /\ e.hooks = d.hooks /\ e.packs = d.packs /\ e.library = d.library
        /\ e.groups = d.groups /\ e.lastGroup = d.lastGroup
    BY <1>3, CoreFacts
  <2>4. u = Loader!Throws(e)
    BY <1>6
  <2> HIDE DEF e
  <2>5. CoreInv(e)
    BY <1>3, <2>2, <2>3, FewerGroups
  <2>6. CoreInv(u) /\ u.threw
    BY <2>4, <2>5, CoreThrows
  <2> QED
    BY <2>6 DEF LoadedFrom
<1>7. CASE /\ ~ d.threw /\ onDisk # Missing
           /\ u \in Loader!ForEach([d EXCEPT !.library = onDisk], Loader!Ascending(DOMAIN d.saved),
                                   Loader!RestoreHook)
  <2> DEFINE b == [d EXCEPT !.library = onDisk]
             m == Len(d.saved)
             xs == [i \in 1..m |-> i]
             Like(k) == {t \in Restoring(c, onDisk, k) : t.threw \/ t.saved = d.saved}
             Good == [k \in 0..m |-> Like(k)]
  <2>1. m \in Nat /\ DOMAIN d.saved = 1..m
    BY <1>3, CoreFacts
  <2>2. u \in Loader!ForEach(b, xs, Loader!RestoreHook)
    <3>1. Loader!Ascending(DOMAIN d.saved) = xs
      BY <2>1, AscendingFacts
    <3> QED
      BY <1>7, <3>1
  <2>3. Len(xs) = m /\ \A j \in 1..m : xs[j] = j
    BY <2>1
  <2>4. b \in Like(0)
    <3>1. b \in Core
      BY <1>3, <1>7 DEF Core
    <3>2. /\ b.hooks = d.hooks /\ b.packs = d.packs /\ b.groups = d.groups
          /\ b.lastGroup = d.lastGroup /\ b.library = onDisk /\ b.saved = d.saved
      BY <1>3, CoreFacts
    <3> HIDE DEF b
    <3>3. CoreInv(b)
      <4>1. \A g \in b.groups : WrapperIn(b.library, g)
        <5>1. d.library = Missing
          BY <1>2, <1>7 DEF Unloaded
        <5> QED
          BY <1>3, <3>2, <5>1 DEF CoreInv, GroupsOwned, WrapperIn
      <4> QED
        BY <1>3, <1>7, <3>1, <3>2, <4>1 DEF CoreInv, GroupsOwned, DisabledUngrouped, ClosedUnapplied, Loader!IsModuleOpen
    <3>4. /\ Shadow(b) = Shadow(c) /\ DOMAIN b.hooks = DOMAIN c.hooks
          /\ \A j \in DOMAIN c.hooks : b.hooks[j].group = 0
      <4>1. d.library = Missing /\ Shadow(d) = Shadow(c) /\ DOMAIN d.hooks = DOMAIN c.hooks
        BY <1>2, <1>7 DEF Unloaded
      <4> QED
        BY <1>3, <3>2, <4>1 DEF Shadow, CoreInv, ClosedUnapplied, Loader!IsModuleOpen
    <3>5. \A j \in DOMAIN c.hooks : ~ (j <= 0)
      <4>1. DOMAIN b.hooks = 1..Len(b.hooks) /\ Len(b.hooks) \in Nat
        BY <3>1, CoreFacts
      <4> QED
        BY <3>4, <4>1
    <3> QED
      BY <3>1, <3>2, <3>3, <3>4, <3>5 DEF Restoring
  <2> HIDE DEF xs, b
  <2>5. ASSUME NEW j \in 1..m, NEW t \in Like(j - 1)
        PROVE  RestoreLoop!Pass(t, xs[j]) \subseteq Like(j)
    <3>1. j - 1 \in Nat /\ (j - 1) + 1 = j /\ xs[j] = j /\ j <= m
      BY <2>1, <2>3
    <3>2. CASE t.threw
      BY <2>5, <3>2 DEF RestoreLoop!Pass, Restoring
    <3>3. CASE ~ t.threw
      <4>1. SUFFICES ASSUME NEW v \in Loader!RestoreHook(t, j) PROVE v \in Like(j)
        BY <3>1, <3>3 DEF RestoreLoop!Pass, RestoringHook
      <4>3. Len(t.saved) = m /\ t.saved = d.saved /\ t \in Restoring(c, onDisk, j - 1)
        BY <2>5, <3>3
      <4>2. \A k \in Nat : k + 1 = j /\ t \in Restoring(c, onDisk, k) =>
              v \in Restoring(c, onDisk, k + 1) /\ (v.threw \/ v.saved = t.saved)
        <5>1. SUFFICES ASSUME NEW k \in Nat, k + 1 = j, t \in Restoring(c, onDisk, k)
                       PROVE  v \in Restoring(c, onDisk, k + 1) /\ (v.threw \/ v.saved = t.saved)
          OBVIOUS
        <5>2. v \in Loader!RestoreHook(t, k + 1) /\ k + 1 \in DOMAIN t.saved
          BY <2>1, <3>1, <4>1, <4>3, <5>1
        <5> QED
          BY <3>3, <5>1, <5>2, RestoreHookFacts
      <4> QED
        BY <3>1, <4>2, <4>3
    <3> QED
      BY <3>2, <3>3
  <2> HIDE DEF m, Like
  <2>6. \A j \in 1..m : \A t \in Good[j - 1] : RestoreLoop!Pass(t, xs[j]) \subseteq Good[j]
    <3>1. ASSUME NEW j \in 1..m PROVE j - 1 \in 0..m /\ j \in 0..m
      BY <2>1
    <3> QED
      BY <2>5, <3>1
  <2>7. b \in Good[0] /\ Good[m] = Like(m)
    BY <2>1, <2>4
  <2> HIDE DEF Good
  <2>8. \E after : after = RestoreLoop!After(b, xs, after)
    BY <2>1, <2>3, RestoreLoop!LoopDefined
  <2>9. \A after : after = RestoreLoop!After(b, xs, after) => after[m] \subseteq Good[m]
    BY <2>1, <2>3, <2>6, <2>7, RestoreLoop!LoopKeeps
  <2>10. Loader!ForEach(b, xs, Loader!RestoreHook) \subseteq Good[Len(xs)]
    BY <2>3, <2>8, <2>9 DEF Loader!ForEach, Loader!Then, RestoringHook, RestoreLoop!After
  <2>11. u \in Restoring(c, onDisk, m)
    BY <2>2, <2>3, <2>7, <2>10 DEF Like
  <2>12. CASE u.threw
    BY <2>11, <2>12 DEF Restoring, LoadedFrom
  <2>13. CASE ~ u.threw
    <3>1. /\ CoreInv(u) /\ u.library = onDisk /\ Shadow(u) = Shadow(c) /\ DOMAIN u.hooks = DOMAIN c.hooks
          /\ \A j \in DOMAIN c.hooks : IF j <= m THEN HookApplied(u, j) ELSE u.hooks[j].group = 0
      BY <2>11, <2>13 DEF Restoring
    <3>2. ASSUME AllApplied(c) PROVE AllApplied(u)
      <4>1. Len(d.saved) = Len(d.hooks) /\ DOMAIN d.hooks = DOMAIN c.hooks
        BY <1>2, <1>7, <3>2 DEF Unloaded, AllApplied, Loader!IsModuleOpen
      <4>2. DOMAIN d.hooks = 1..m
        BY <1>3, <4>1, CoreFacts DEF m
      <4>3. \A j \in DOMAIN u.hooks : HookApplied(u, j)
        BY <2>1, <3>1, <4>1, <4>2
      <4> QED
        BY <1>7, <3>1, <4>3 DEF AllApplied, Loader!IsModuleOpen
    <3> QED
      BY <1>7, <3>1, <3>2 DEF LoadedFrom
  <2> QED
    BY <2>12, <2>13
<1> QED
  <2>1. CASE ~ d.threw
    BY <1>1, <1>5, <1>6, <1>7, <2>1 DEF Body
  <2> QED
    BY <1>4, <2>1

-----------------------------------------------------------------------------
(* A packet.                                                               *)

Handled(c, d, packet, onDisk) ==
  /\ CoreInv(d)
  /\ ~ d.threw =>
       /\ Shadow(d) = Told(Shadow(c), packet)
       /\ AllApplied(c) => AllApplied(d)
       /\ IsLoad(packet) => d.library = onDisk /\ d.library # Missing
       /\ packet.type = "PATCH_LIB_UNLOAD" => d.library = Missing
       /\ ~ IsLoad(packet) /\ packet.type # "PATCH_LIB_UNLOAD" =>
            /\ d.library = c.library
            /\ d.library = Missing /\ d.hooks # <<>> => c.hooks # <<>>

LEMMA KeptHandled ==
  ASSUME NEW c, NEW packet, NEW onDisk, NEW d, Kept(c, d, Told(Shadow(c), packet)),
         ~ IsLoad(packet), packet.type # "PATCH_LIB_UNLOAD"
  PROVE  Handled(c, d, packet, onDisk)
BY DEF Kept, Handled

\* Whatever state the core is in, a handler of PatchLoader that does not throw
\* leaves it with the hooks and packs that the packet says, every hook applied
\* if every one was, and the library that the packet says; one that throws
\* leaves no group without an owner and none over a library that is closed.
THEOREM HandledAsTold ==
  ASSUME NEW c, CoreInv(c), ~ c.threw, NEW packet \in Packet, NEW onDisk \in Image \cup {Missing},
         NEW d \in Loader!Handle(c, packet, onDisk)
  PROVE  Handled(c, d, packet, onDisk)
<1>1. packet.type \in {"PATCH_HOOK", "PATCH_HOOK_REMOVE", "PATCH_PACK", "PATCH_PACK_REMOVE",
                       "PATCH_LIB_UNLOAD", "PATCH_LIB_LOAD"}
  BY DEF Packet
<1>2. CASE packet.type = "PATCH_HOOK"
  <2>1. d \in Loader!RegisterHook(c, packet) /\ ~ IsLoad(packet) /\ packet.type # "PATCH_LIB_UNLOAD"
    BY <1>2 DEF Loader!Handle, IsLoad
  <2> QED
    BY <1>2, <2>1, RegisterKept, KeptHandled
<1>3. CASE packet.type = "PATCH_HOOK_REMOVE"
  <2>1. d \in Loader!UnregisterHook(c, packet) /\ ~ IsLoad(packet) /\ packet.type # "PATCH_LIB_UNLOAD"
    BY <1>3 DEF Loader!Handle, IsLoad
  <2> QED
    BY <1>3, <2>1, UnregisterKept, KeptHandled
<1>4. CASE packet.type = "PATCH_PACK"
  <2>1. d \in Loader!UpdatePatchPack(c, packet) /\ ~ IsLoad(packet) /\ packet.type # "PATCH_LIB_UNLOAD"
    BY <1>4 DEF Loader!Handle, IsLoad
  <2> QED
    BY <1>4, <2>1, UpdateKept, KeptHandled
<1>5. CASE packet.type = "PATCH_PACK_REMOVE"
  <2>1. d \in Loader!RemovePatchPack(c, packet) /\ ~ IsLoad(packet) /\ packet.type # "PATCH_LIB_UNLOAD"
    BY <1>5 DEF Loader!Handle, IsLoad
  <2> QED
    BY <1>5, <2>1, RemovePackKept, KeptHandled
<1>6. CASE packet.type = "PATCH_LIB_UNLOAD"
  <2>1. d \in Loader!UnloadLibrary(c) /\ ~ IsLoad(packet) /\ Told(Shadow(c), packet) = Shadow(c)
    BY <1>6 DEF Loader!Handle, IsLoad, Told
  <2>2. Unloaded(c, d)
    BY <2>1, UnloadFacts
  <2> QED
    BY <1>6, <2>1, <2>2 DEF Unloaded, Handled
<1>7. CASE packet.type = "PATCH_LIB_LOAD"
  <2>1. d \in Loader!LoadLibrary(c, onDisk) /\ IsLoad(packet) /\ Told(Shadow(c), packet) = Shadow(c)
    BY <1>7 DEF Loader!Handle, IsLoad, Told
  <2>2. LoadedFrom(c, onDisk, d)
    BY <2>1, LoadFacts
  <2> QED
    BY <1>7, <2>1, <2>2 DEF LoadedFrom, Handled
<1> QED
  BY <1>1, <1>2, <1>3, <1>4, <1>5, <1>6, <1>7
=============================================================================
