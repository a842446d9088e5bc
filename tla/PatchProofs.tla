----------------------------- MODULE PatchProofs -----------------------------
(***************************************************************************)
(* The invariants of PatchSystem, for any hooks, packs and sources, and    *)
(* any number of faults, calls and restarts.                               *)
(***************************************************************************)
EXTENDS PatchLoaderProofs

-----------------------------------------------------------------------------
(* Types.                                                                  *)

Iterator == Nat \X (Nat \ {0})
HookEntry == [name : Hook, source : Source, dependants : Seq(Iterator)]
PackEntry == [name : Pack, enabled : BOOLEAN]

Manager ==
  [hooks : Seq(HookEntry), packs : Seq(PackEntry), capacity : Nat, sent : Seq(Packet),
   objects : Image, modified : BOOLEAN, library : Image \cup {Missing}, crc32 : Image,
   isAllSkipped : BOOLEAN, faults : 0..MaxFaults, threw : BOOLEAN, resent : BOOLEAN,
   undefined : BOOLEAN]

-----------------------------------------------------------------------------
(* What a core has been told, and what a packet tells it.                  *)

NoShadow == [hooks |-> <<>>, enabled |-> {}]

\* The packets take a core from x to y.
Path(x, packets, y) ==
  \E run : /\ run[0] = x /\ run[Len(packets)] = y
           /\ \A k \in DOMAIN packets : run[k] = Told(run[k - 1], packets[k])

-----------------------------------------------------------------------------
(* The libraries.                                                          *)

\* The library is loaded again whenever it was unloaded.
LoadFollows(packets) ==
  \A k \in DOMAIN packets :
    packets[k].type = "PATCH_LIB_UNLOAD" =>
      \E j \in DOMAIN packets : j > k /\ IsLoad(packets[j])

\* The library on disk is made of the objects that are there.
Linked(s) == s.library = s.objects

\* Nothing is to be compiled for the hooks.
AllCompiled(s) ==
  \A i \in DOMAIN s.hooks : IsSkipped(s, s.hooks[i].name, s.hooks[i].source)

-----------------------------------------------------------------------------
(* Both.                                                                   *)

\* Nobody was told of an error: the library that the core has, or is going to
\* load, is the one that was linked last.
Attached ==
  /\ AllApplied(core)
  /\ core.library # Missing \/ HasLoad(toCore) => Linked(manager)
  /\ core.library \in {Missing, manager.library} \/ HasLoad(toCore)
  /\ LoadFollows(toCore)
  /\ core.library = Missing /\ core.hooks # <<>> => HasLoad(toCore)
  /\ ~ manager.resent => Path(Shadow(core), toCore, Shadow(manager))

IInv ==
  /\ manager \in Manager /\ NamesApart(manager) /\ manager.sent = <<>> /\ ~ manager.threw
  /\ ~ killed => ChecksumsAgree(manager)
  /\ CoreInv(core) /\ ~ core.threw
  /\ connected \in BOOLEAN /\ toCore \in Seq(Packet) /\ reported \in BOOLEAN
  /\ saved \in Image /\ killed \in BOOLEAN /\ calls \in 0..MaxCalls /\ restarts \in 0..MaxRestarts
  /\ ~ connected => core = Loader!NewCore /\ toCore = <<>>
  /\ ~ reported => AllCompiled(manager)
  /\ ~ reported /\ connected => Attached

-----------------------------------------------------------------------------
(* Vectors.                                                                *)

LEMMA IndicesFacts ==
  ASSUME NEW n \in Nat
  PROVE  LET xs == [i \in 1..n |-> i] IN Len(xs) = n /\ \A i \in 1..n : xs[i] = i
OBVIOUS

-----------------------------------------------------------------------------
(* Paths.                                                                  *)

LEMMA PathNothing ==
  ASSUME NEW x PROVE Path(x, <<>>, x)
<1> DEFINE run == [k \in 0..0 |-> x]
<1>1. run[0] = x /\ run[Len(<<>>)] = x /\ DOMAIN <<>> = {}
  OBVIOUS
<1> HIDE DEF run
<1> QED
  BY <1>1 DEF Path

LEMMA PathAppend ==
  ASSUME NEW packets \in Seq(Packet), NEW packet \in Packet, NEW x, NEW y, Path(x, packets, y)
  PROVE  Path(x, Append(packets, packet), Told(y, packet))
<1> DEFINE n == Len(packets)
           longer == Append(packets, packet)
<1>1. /\ n \in Nat /\ DOMAIN packets = 1..n /\ DOMAIN longer = 1..(n + 1) /\ Len(longer) = n + 1
      /\ longer[n + 1] = packet /\ \A k \in 1..n : longer[k] = packets[k]
  OBVIOUS
<1>2. PICK run : /\ run[0] = x /\ run[n] = y
                 /\ \A k \in DOMAIN packets : run[k] = Told(run[k - 1], packets[k])
  BY DEF Path
<1> HIDE DEF n, longer
<1> DEFINE next == [k \in 0..(n + 1) |-> IF k = n + 1 THEN Told(y, packet) ELSE run[k]]
<1>3. next[0] = x /\ next[n + 1] = Told(y, packet)
  BY <1>1, <1>2
<1>4. ASSUME NEW k \in 1..(n + 1) PROVE next[k] = Told(next[k - 1], longer[k])
  <2>1. next[k - 1] = run[k - 1]
    BY <1>1
  <2>2. CASE k = n + 1
    BY <1>1, <1>2, <1>3, <2>1, <2>2
  <2>3. CASE k # n + 1
    <3>1. k \in 1..n /\ next[k] = run[k]
      BY <1>1, <2>3
    <3> QED
      BY <1>1, <1>2, <2>1, <3>1
  <2> QED
    BY <2>2, <2>3
<1> HIDE DEF next
<1> QED
  BY <1>1, <1>3, <1>4 DEF Path, longer

LEMMA PathConcat ==
  ASSUME NEW first \in Seq(Packet), NEW second \in Seq(Packet), NEW x, NEW y, NEW z,
         Path(x, first, y), Path(y, second, z)
  PROVE  Path(x, first \o second, z)
<1> DEFINE both == first \o second
           m == Len(first)
           n == Len(second)
<1>1. /\ m \in Nat /\ n \in Nat /\ DOMAIN first = 1..m /\ DOMAIN second = 1..n
      /\ DOMAIN both = 1..(m + n) /\ Len(both) = m + n
      /\ \A k \in 1..m : both[k] = first[k]
      /\ \A k \in 1..(m + n) : k > m => both[k] = second[k - m]
  OBVIOUS
<1>2. PICK a : /\ a[0] = x /\ a[m] = y
               /\ \A k \in DOMAIN first : a[k] = Told(a[k - 1], first[k])
  BY DEF Path
<1>3. PICK b : /\ b[0] = y /\ b[n] = z
               /\ \A k \in DOMAIN second : b[k] = Told(b[k - 1], second[k])
  BY DEF Path
<1> HIDE DEF both, m, n
<1> DEFINE run == [k \in 0..(m + n) |-> IF k <= m THEN a[k] ELSE b[k - m]]
<1>4. run[0] = x /\ run[m + n] = z
  <2>1. run[0] = a[0]
    BY <1>1
  <2>2. CASE n = 0
    BY <1>1, <1>2, <1>3, <2>1, <2>2
  <2>3. CASE n # 0
    <3>1. run[m + n] = b[(m + n) - m] /\ (m + n) - m = n
      BY <1>1, <2>3
    <3> QED
      BY <1>2, <1>3, <2>1, <3>1
  <2> QED
    BY <2>2, <2>3
<1>5. ASSUME NEW k \in 1..(m + n) PROVE run[k] = Told(run[k - 1], both[k])
  <2>1. CASE k <= m
    <3>1. k \in 1..m /\ run[k] = a[k] /\ run[k - 1] = a[k - 1]
      BY <1>1, <2>1
    <3> QED
      BY <1>1, <1>2, <3>1
  <2>2. CASE k = m + 1
    <3>1. run[k] = b[1] /\ run[k - 1] = a[m] /\ 1 \in 1..n /\ both[k] = second[1]
      <4>1. k - 1 = m /\ k - m = 1 /\ ~ (k <= m) /\ 1 \in 1..n /\ k - 1 \in 0..(m + n)
        BY <1>1, <2>2
      <4>2. run[k] = b[k - m] /\ run[k - 1] = a[k - 1]
        BY <1>1, <4>1
      <4>3. both[k] = second[k - m]
        BY <1>1, <4>1
      <4> QED
        BY <4>1, <4>2, <4>3
    <3>2. b[1] = Told(b[0], second[1])
      BY <1>1, <1>3, <3>1
    <3> QED
      BY <1>2, <1>3, <3>1, <3>2
  <2>3. CASE k > m + 1
    <3>1. /\ run[k] = b[k - m] /\ run[k - 1] = b[(k - m) - 1] /\ k - m \in 1..n
          /\ both[k] = second[k - m]
      <4>1. /\ k - m \in 1..n /\ ~ (k <= m) /\ ~ (k - 1 <= m) /\ k - 1 \in 0..(m + n)
            /\ (k - 1) - m = (k - m) - 1
        BY <1>1, <2>3
      <4>2. run[k] = b[k - m] /\ run[k - 1] = b[(k - 1) - m]
        BY <1>1, <4>1
      <4>3. both[k] = second[k - m]
        BY <1>1, <4>1
      <4> QED
        BY <4>1, <4>2, <4>3
    <3> QED
      BY <1>1, <1>3, <3>1
  <2> QED
    BY <1>1, <2>1, <2>2, <2>3
<1> HIDE DEF run
<1> QED
  BY <1>1, <1>4, <1>5 DEF Path, both

LEMMA PathTail ==
  ASSUME NEW packets \in Seq(Packet), packets # <<>>, NEW x, NEW y, Path(x, packets, y)
  PROVE  Path(Told(x, Head(packets)), Tail(packets), y)
<1> DEFINE n == Len(packets)
           rest == Tail(packets)
<1>1. /\ n \in Nat /\ n >= 1 /\ DOMAIN packets = 1..n /\ DOMAIN rest = 1..(n - 1)
      /\ Len(rest) = n - 1 /\ Head(packets) = packets[1]
      /\ \A k \in 1..(n - 1) : rest[k] = packets[k + 1]
  OBVIOUS
<1>2. PICK run : /\ run[0] = x /\ run[n] = y
                 /\ \A k \in DOMAIN packets : run[k] = Told(run[k - 1], packets[k])
  BY DEF Path
<1> HIDE DEF n, rest
<1> DEFINE next == [k \in 0..(n - 1) |-> run[k + 1]]
<1>3. next[0] = run[1] /\ next[n - 1] = run[n] /\ run[1] = Told(x, Head(packets))
  BY <1>1, <1>2
<1>4. ASSUME NEW k \in 1..(n - 1) PROVE next[k] = Told(next[k - 1], rest[k])
  <2>1. next[k] = run[k + 1] /\ next[k - 1] = run[k] /\ k + 1 \in 1..n /\ (k + 1) - 1 = k
    BY <1>1
  <2> QED
    BY <1>1, <1>2, <2>1
<1> HIDE DEF next
<1> QED
  BY <1>1, <1>2, <1>3, <1>4, ZenonT(40) DEF Path, rest

-----------------------------------------------------------------------------
(* Unloading and loading.                                                  *)

UnloadPacket == [type |-> "PATCH_LIB_UNLOAD"]
LoadPacket == [type |-> "PATCH_LIB_LOAD"]

LEMMA LoadNothing == LoadFollows(<<>>) /\ ~ HasLoad(<<>>)
BY DEF LoadFollows, HasLoad

LEMMA LoadAppend ==
  ASSUME NEW packets \in Seq(Packet), NEW packet \in Packet,
         packet.type \notin {"PATCH_LIB_UNLOAD", "PATCH_LIB_LOAD"}
  PROVE  /\ LoadFollows(packets) => LoadFollows(Append(packets, packet))
         /\ HasLoad(Append(packets, packet)) <=> HasLoad(packets)
<1> DEFINE n == Len(packets)
           longer == Append(packets, packet)
<1>1. /\ n \in Nat /\ DOMAIN packets = 1..n /\ DOMAIN longer = 1..(n + 1)
      /\ longer[n + 1] = packet /\ \A k \in 1..n : longer[k] = packets[k]
  OBVIOUS
<1> HIDE DEF n, longer
<1>2. ASSUME NEW k \in 1..(n + 1) PROVE k \in 1..n \/ k = n + 1
  BY <1>1
<1>3. LoadFollows(packets) => LoadFollows(longer)
  BY <1>1, <1>2 DEF LoadFollows, IsLoad
<1>4. HasLoad(longer) <=> HasLoad(packets)
  BY <1>1, <1>2 DEF HasLoad, IsLoad
<1> QED
  BY <1>3, <1>4 DEF longer

LEMMA LoadReload ==
  ASSUME NEW packets \in Seq(Packet)
  PROVE  LET longer == Append(Append(packets, UnloadPacket), LoadPacket) IN
         /\ longer \in Seq(Packet) /\ HasLoad(longer)
         /\ LoadFollows(packets) => LoadFollows(longer)
<1> DEFINE n == Len(packets)
           longer == Append(Append(packets, UnloadPacket), LoadPacket)
<1>1. UnloadPacket \in Packet /\ LoadPacket \in Packet /\ IsLoad(LoadPacket)
  BY DEF UnloadPacket, LoadPacket, Packet, IsLoad
<1>2. /\ longer \in Seq(Packet) /\ n \in Nat /\ DOMAIN packets = 1..n /\ DOMAIN longer = 1..(n + 2)
      /\ longer[n + 2] = LoadPacket /\ longer[n + 1] = UnloadPacket
      /\ \A k \in 1..n : longer[k] = packets[k]
  BY <1>1
<1> HIDE DEF n, longer
<1>3. HasLoad(longer)
  BY <1>1, <1>2 DEF HasLoad
<1>4. ASSUME NEW k \in 1..(n + 2), longer[k].type = "PATCH_LIB_UNLOAD"
      PROVE  \E j \in 1..(n + 2) : j > k /\ IsLoad(longer[j])
  <2>1. k # n + 2
    BY <1>2, <1>4 DEF LoadPacket
  <2>2. n + 2 \in 1..(n + 2) /\ n + 2 > k
    BY <1>2, <2>1
  <2> QED
    BY <1>1, <1>2, <2>2
<1>5. LoadFollows(longer)
  BY <1>2, <1>4 DEF LoadFollows
<1> QED
  BY <1>2, <1>3, <1>5 DEF longer

LEMMA LoadConcat ==
  ASSUME NEW first \in Seq(Packet), NEW second \in Seq(Packet)
  PROVE  /\ LoadFollows(first) /\ LoadFollows(second) => LoadFollows(first \o second)
         /\ HasLoad(first \o second) <=> HasLoad(first) \/ HasLoad(second)
<1> DEFINE both == first \o second
           m == Len(first)
           n == Len(second)
<1>1. /\ m \in Nat /\ n \in Nat /\ DOMAIN first = 1..m /\ DOMAIN second = 1..n
      /\ DOMAIN both = 1..(m + n)
      /\ \A k \in 1..m : both[k] = first[k]
      /\ \A k \in 1..n : both[m + k] = second[k]
      /\ \A k \in 1..(m + n) : k <= m \/ (k - m \in 1..n /\ both[k] = second[k - m])
  OBVIOUS
<1> HIDE DEF both, m, n
<1>2. ASSUME LoadFollows(first), LoadFollows(second) PROVE LoadFollows(both)
  <2>1. SUFFICES ASSUME NEW k \in 1..(m + n), both[k].type = "PATCH_LIB_UNLOAD"
                 PROVE  \E j \in 1..(m + n) : j > k /\ IsLoad(both[j])
    BY <1>1 DEF LoadFollows
  <2>2. CASE k <= m
    <3>1. k \in 1..m /\ first[k].type = "PATCH_LIB_UNLOAD"
      BY <1>1, <2>1, <2>2
    <3>2. PICK j \in 1..m : j > k /\ IsLoad(first[j])
      BY <1>1, <1>2, <3>1 DEF LoadFollows
    <3> QED
      BY <1>1, <3>2
  <2>3. CASE ~ (k <= m)
    <3>1. k - m \in 1..n /\ second[k - m].type = "PATCH_LIB_UNLOAD"
      BY <1>1, <2>1, <2>3
    <3>2. PICK j \in 1..n : j > k - m /\ IsLoad(second[j])
      BY <1>1, <1>2, <3>1 DEF LoadFollows
    <3>3. m + j \in 1..(m + n) /\ m + j > k /\ both[m + j] = second[j]
      BY <1>1, <3>2
    <3> QED
      BY <3>2, <3>3
  <2> QED
    BY <2>2, <2>3
<1>3. HasLoad(both) <=> HasLoad(first) \/ HasLoad(second)
  <2>1. ASSUME HasLoad(both) PROVE HasLoad(first) \/ HasLoad(second)
    <3>1. PICK k \in 1..(m + n) : IsLoad(both[k])
      BY <1>1, <2>1 DEF HasLoad
    <3>2. CASE k <= m
      <4>1. k \in 1..m /\ IsLoad(first[k])
        BY <1>1, <3>1, <3>2
      <4> QED
        BY <1>1, <4>1 DEF HasLoad
    <3>3. CASE ~ (k <= m)
      <4>1. k - m \in 1..n /\ IsLoad(second[k - m])
        BY <1>1, <3>1, <3>3
      <4> QED
        BY <1>1, <4>1 DEF HasLoad
    <3> QED
      BY <3>2, <3>3
  <2>2. ASSUME HasLoad(first) PROVE HasLoad(both)
    BY <1>1, <2>2 DEF HasLoad
  <2>3. ASSUME HasLoad(second) PROVE HasLoad(both)
    <3>1. PICK j \in 1..n : IsLoad(second[j])
      BY <1>1, <2>3 DEF HasLoad
    <3>2. m + j \in 1..(m + n) /\ both[m + j] = second[j]
      BY <1>1
    <3> QED
      BY <1>1, <3>1, <3>2 DEF HasLoad
  <2> QED
    BY <2>1, <2>2, <2>3
<1> QED
  BY <1>2, <1>3 DEF both

LEMMA LoadTail ==
  ASSUME NEW packets \in Seq(Packet), packets # <<>>, LoadFollows(packets)
  PROVE  /\ LoadFollows(Tail(packets))
         /\ HasLoad(packets) => IsLoad(Head(packets)) \/ HasLoad(Tail(packets))
         /\ Head(packets).type = "PATCH_LIB_UNLOAD" => HasLoad(Tail(packets))
<1> DEFINE n == Len(packets)
           rest == Tail(packets)
<1>1. /\ n \in Nat /\ n >= 1 /\ DOMAIN packets = 1..n /\ DOMAIN rest = 1..(n - 1)
      /\ Head(packets) = packets[1] /\ 1 \in 1..n
      /\ \A k \in 1..(n - 1) : k + 1 \in 1..n /\ rest[k] = packets[k + 1]
      /\ \A k \in 1..n : k > 1 => k - 1 \in 1..(n - 1) /\ rest[k - 1] = packets[k]
  OBVIOUS
<1> HIDE DEF n, rest
<1>2. LoadFollows(rest)
  <2>1. SUFFICES ASSUME NEW k \in 1..(n - 1), rest[k].type = "PATCH_LIB_UNLOAD"
                 PROVE  \E j \in 1..(n - 1) : j > k /\ IsLoad(rest[j])
    BY <1>1 DEF LoadFollows
  <2>2. PICK j \in 1..n : j > k + 1 /\ IsLoad(packets[j])
    BY <1>1, <2>1 DEF LoadFollows
  <2>3. j - 1 \in 1..(n - 1) /\ j - 1 > k /\ rest[j - 1] = packets[j]
    BY <1>1, <2>2
  <2> QED
    BY <2>2, <2>3
<1>3. ASSUME NEW j \in 1..n, IsLoad(packets[j]), j > 1 PROVE HasLoad(rest)
  BY <1>1, <1>3 DEF HasLoad
<1>4. HasLoad(packets) => IsLoad(Head(packets)) \/ HasLoad(rest)
  BY <1>1, <1>3 DEF HasLoad
<1>5. ASSUME Head(packets).type = "PATCH_LIB_UNLOAD" PROVE HasLoad(rest)
  <2>1. PICK j \in 1..n : j > 1 /\ IsLoad(packets[j])
    BY <1>1, <1>5 DEF LoadFollows
  <2> QED
    BY <1>3, <2>1
<1> QED
  BY <1>2, <1>4, <1>5 DEF rest

-----------------------------------------------------------------------------
(* PatchCompiler.                                                          *)

Agree(s) == ChecksumsAgree(s)

LEMMA ManagerFacts ==
  ASSUME NEW s \in Manager
  PROVE  /\ s.hooks \in Seq(HookEntry) /\ s.packs \in Seq(PackEntry) /\ s.capacity \in Nat
         /\ s.sent \in Seq(Packet) /\ s.objects \in Image /\ s.modified \in BOOLEAN
         /\ s.library \in Image \cup {Missing} /\ s.crc32 \in Image /\ s.isAllSkipped \in BOOLEAN
         /\ s.faults \in 0..MaxFaults /\ s.threw \in BOOLEAN /\ s.resent \in BOOLEAN
         /\ s.undefined \in BOOLEAN
         /\ DOMAIN s = {"hooks", "packs", "capacity", "sent", "objects", "modified", "library",
                        "crc32", "isAllSkipped", "faults", "threw", "resent", "undefined"}
         /\ DOMAIN s.hooks = 1..Len(s.hooks) /\ Len(s.hooks) \in Nat
         /\ DOMAIN s.packs = 1..Len(s.packs) /\ Len(s.packs) \in Nat
         /\ \A i \in DOMAIN s.hooks :
              s.hooks[i] \in HookEntry /\ s.hooks[i].name \in Hook /\ s.hooks[i].source \in Source
         /\ \A i \in DOMAIN s.packs :
              s.packs[i] \in PackEntry /\ s.packs[i].name \in Pack /\ s.packs[i].enabled \in BOOLEAN
<1>1. /\ s.hooks \in Seq(HookEntry) /\ s.packs \in Seq(PackEntry) /\ s.capacity \in Nat
      /\ s.sent \in Seq(Packet) /\ s.objects \in Image /\ s.modified \in BOOLEAN
      /\ s.library \in Image \cup {Missing} /\ s.crc32 \in Image /\ s.isAllSkipped \in BOOLEAN
      /\ s.faults \in 0..MaxFaults /\ s.threw \in BOOLEAN /\ s.resent \in BOOLEAN
      /\ s.undefined \in BOOLEAN
  BY DEF Manager
<1>2. DOMAIN s = {"hooks", "packs", "capacity", "sent", "objects", "modified", "library",
                  "crc32", "isAllSkipped", "faults", "threw", "resent", "undefined"}
  BY DEF Manager
<1>3. /\ DOMAIN s.hooks = 1..Len(s.hooks) /\ Len(s.hooks) \in Nat
      /\ \A i \in DOMAIN s.hooks : s.hooks[i] \in HookEntry
  BY <1>1
<1>4. /\ DOMAIN s.packs = 1..Len(s.packs) /\ Len(s.packs) \in Nat
      /\ \A i \in DOMAIN s.packs : s.packs[i] \in PackEntry
  BY <1>1
<1>5. /\ \A h \in HookEntry : h.name \in Hook /\ h.source \in Source
      /\ \A p \in PackEntry : p.name \in Pack /\ p.enabled \in BOOLEAN
  BY DEF HookEntry, PackEntry
<1> QED
  BY <1>1, <1>2, <1>3, <1>4, <1>5

\* An object is written, or lost.
LEMMA PutImage ==
  ASSUME NEW o \in Image, NEW item \in Item, NEW source \in SourceOf[item]
  PROVE  /\ [o EXCEPT ![item] = source] \in Image /\ [o EXCEPT ![item] = Missing] \in Image
         /\ source \in Source \cup Pack \cup {Missing} /\ Missing \in SourceOf[item]
<1>1. source \in Source \cup Pack \cup {Missing} /\ Missing \in SourceOf[item]
  BY DEF SourceOf, Item
<1> QED
  BY <1>1 DEF Image

LEMMA SourceFacts ==
  /\ \A h \in Hook, source \in Source : h \in Item /\ source \in SourceOf[h] /\ source # Missing
  /\ \A p \in Pack : p \in Item /\ p \in SourceOf[p] /\ p # Missing /\ p \notin Hook
<1>1. \A h \in Hook, source \in Source : h \in Item /\ source \in SourceOf[h] /\ source # Missing
  BY PatchAssumption DEF Item, SourceOf
<1>2. \A p \in Pack : p \in Item /\ p # Missing /\ p \notin Hook
  BY PatchAssumption DEF Item
<1>3. \A p \in Pack : p \in SourceOf[p]
  BY <1>2 DEF Item, SourceOf
<1> QED
  BY <1>1, <1>2, <1>3

\* What compiling and linking leave alone.
SameLists(s, t) ==
  /\ t.hooks = s.hooks /\ t.packs = s.packs /\ t.capacity = s.capacity
  /\ t.resent = s.resent /\ t.undefined = s.undefined

\* Where the compilation may be that began in s.
CompiledFrom(s, t) ==
  /\ t \in Manager /\ SameLists(s, t) /\ t.sent = s.sent /\ t.library = s.library
  /\ Agree(s) => Agree(t)
  /\ ~ t.threw => IF t.isAllSkipped THEN t.objects = s.objects ELSE t.modified

LEMMA FailsFacts ==
  ASSUME NEW s \in Manager, NEW t \in Fails(s)
  PROVE  /\ t \in Manager /\ SameLists(s, t) /\ t.sent = s.sent /\ t.library = s.library
         /\ t.objects = s.objects /\ t.crc32 = s.crc32 /\ t.threw
<1>1. t = [s EXCEPT !.faults = s.faults + 1, !.threw = TRUE] /\ s.faults < MaxFaults
  BY DEF Fails
<1>2. s.faults + 1 \in 0..MaxFaults
  BY <1>1, ManagerFacts, PatchAssumption
<1>3. t \in Manager
  BY <1>1, <1>2 DEF Manager
<1> QED
  BY <1>1, <1>3, ManagerFacts DEF SameLists

LEMMA CompileFacts ==
  ASSUME NEW s, NEW r, CompiledFrom(s, r), ~ r.threw,
         NEW item \in Item, NEW source \in SourceOf[item], source # Missing,
         NEW t \in Compile(r, item, source)
  PROVE  /\ CompiledFrom(s, t)
         /\ ~ t.threw => IsSkipped(t, item, source)
         /\ ~ t.threw => \A other, src : other # item /\ IsSkipped(r, other, src) => IsSkipped(t, other, src)
<1>1. r \in Manager /\ r.objects \in Image /\ r.crc32 \in Image
  BY ManagerFacts DEF CompiledFrom
<1>2. \/ IsSkipped(r, item, source) /\ t = r
      \/ ~ IsSkipped(r, item, source) /\ t = Compiled(r, item, source)
      \/ t \in Fails(r)
      \/ t \in Fails([r EXCEPT !.objects[item] = Missing])
  BY DEF Compile, CompileFails
<1>3. CASE IsSkipped(r, item, source) /\ t = r
  BY <1>3
<1>4. CASE t = Compiled(r, item, source)
  <2>1. t = [r EXCEPT !.objects = [r.objects EXCEPT ![item] = source], !.modified = TRUE,
                      !.crc32 = [r.crc32 EXCEPT ![item] = source], !.isAllSkipped = FALSE]
    BY <1>4 DEF Compiled
  <2> DEFINE o == [r.objects EXCEPT ![item] = source]
             c == [r.crc32 EXCEPT ![item] = source]
  <2>2. o \in Image /\ c \in Image
    BY <1>1, PutImage
  <2>3. /\ o[item] = source /\ c[item] = source
        /\ \A other : other # item => o[other] = r.objects[other] /\ c[other] = r.crc32[other]
    BY <1>1 DEF Image
  <2>a. t = [r EXCEPT !.objects = o, !.modified = TRUE, !.crc32 = c, !.isAllSkipped = FALSE]
    BY <2>1
  <2> HIDE DEF o, c
  <2>b. t \in Manager
    BY <1>1, <2>2, <2>a DEF Manager
  <2>4. /\ t \in Manager /\ SameLists(r, t) /\ t.sent = r.sent /\ t.library = r.library
        /\ t.objects = o /\ t.modified = TRUE /\ t.crc32 = c /\ t.isAllSkipped = FALSE
        /\ t.threw = r.threw
    BY <1>1, <2>a, <2>b, ManagerFacts DEF SameLists
  <2>5. Agree(r) => Agree(t)
    BY <2>3, <2>4 DEF Agree, ChecksumsAgree
  <2>6. IsSkipped(t, item, source)
    BY <2>3, <2>4 DEF IsSkipped
  <2>7. \A other, src : other # item /\ IsSkipped(r, other, src) => IsSkipped(t, other, src)
    BY <2>3, <2>4 DEF IsSkipped
  <2> QED
    BY <2>4, <2>5, <2>6, <2>7 DEF CompiledFrom, SameLists
<1>5. CASE t \in Fails(r)
  <2>1. /\ t \in Manager /\ SameLists(r, t) /\ t.sent = r.sent /\ t.library = r.library
        /\ t.objects = r.objects /\ t.crc32 = r.crc32 /\ t.threw
    BY <1>1, <1>5, FailsFacts
  <2> QED
    BY <2>1 DEF CompiledFrom, SameLists, Agree, ChecksumsAgree
<1>6. CASE t \in Fails([r EXCEPT !.objects[item] = Missing])
  <2> DEFINE o == [r.objects EXCEPT ![item] = Missing]
             lost == [r EXCEPT !.objects = o]
  <2>a. o \in Image
    BY <1>1, PutImage
  <2>b. o[item] = Missing /\ \A other : other # item => o[other] = r.objects[other]
    BY <1>1 DEF Image
  <2>c. t \in Fails(lost)
    BY <1>6
  <2>d. lost = [r EXCEPT !.objects = o]
    OBVIOUS
  <2> HIDE DEF o, lost
  <2>e. lost \in Manager
    BY <1>1, <2>a, <2>d DEF Manager
  <2>4. /\ SameLists(r, lost) /\ lost.sent = r.sent /\ lost.library = r.library
        /\ lost.objects = o /\ lost.crc32 = r.crc32
    BY <1>1, <2>d, ManagerFacts DEF SameLists
  <2>6. /\ t \in Manager /\ SameLists(lost, t) /\ t.sent = lost.sent /\ t.library = lost.library
        /\ t.objects = lost.objects /\ t.crc32 = lost.crc32 /\ t.threw
    BY <2>c, <2>e, FailsFacts
  <2>7. Agree(r) => Agree(t)
    BY <2>b, <2>4, <2>6 DEF Agree, ChecksumsAgree
  <2> QED
    BY <2>4, <2>6, <2>7 DEF CompiledFrom, SameLists
<1> QED
  BY <1>2, <1>3, <1>4, <1>5, <1>6

-----------------------------------------------------------------------------
(* Compiling everything.                                                   *)

CompilingHook(t, hook) == Compile(t, hook.name, hook.source)
CompilingPack(t, pack) == Compile(t, pack.name, pack.name)

HookLoop == INSTANCE LoopProofs WITH Body <- CompilingHook
PackLoop == INSTANCE LoopProofs WITH Body <- CompilingPack

CompileHooks(s) == ForEach(s, s.hooks, LAMBDA t, hook : Compile(t, hook.name, hook.source))
CompilePacks(s) == ForEach(s, s.packs, LAMBDA t, pack : Compile(t, pack.name, pack.name))

LEMMA CompileHooksFacts ==
  ASSUME NEW s \in Manager, NamesApart(s), s.isAllSkipped, ~ s.threw, NEW u \in CompileHooks(s)
  PROVE  CompiledFrom(s, u) /\ (~ u.threw => AllCompiled(u))
<1> DEFINE xs == s.hooks
           Like(k) == {t \in Manager : /\ CompiledFrom(s, t)
                                       /\ ~ t.threw => \A i \in 1..k : IsSkipped(t, xs[i].name, xs[i].source)}
           Good == [k \in 0..Len(xs) |-> Like(k)]
<1>1. Len(xs) \in Nat /\ DOMAIN xs = 1..Len(xs) /\ \A i \in 1..Len(xs) : xs[i].name \in Hook /\ xs[i].source \in Source
  BY ManagerFacts
<1>2. s \in Good[0]
  BY <1>1 DEF CompiledFrom, SameLists
<1>3. ASSUME NEW i, NEW j, i \in 1..Len(xs), j \in 1..Len(xs), xs[i].name = xs[j].name PROVE i = j
  BY <1>1, <1>3 DEF NamesApart, Apart
<1> HIDE DEF xs
<1>4. ASSUME NEW i \in 1..Len(xs), NEW r \in Like(i - 1)
      PROVE  HookLoop!Pass(r, xs[i]) \subseteq Like(i)
  <2>1. CASE r.threw
    BY <1>4, <2>1 DEF HookLoop!Pass
  <2>2. CASE ~ r.threw
    <3>1. SUFFICES ASSUME NEW t \in Compile(r, xs[i].name, xs[i].source) PROVE t \in Like(i)
      BY <2>2 DEF HookLoop!Pass, CompilingHook
    <3>2. xs[i].name \in Item /\ xs[i].source \in SourceOf[xs[i].name] /\ xs[i].source # Missing
      BY <1>1, SourceFacts
    <3>3. /\ CompiledFrom(s, t) /\ t \in Manager
          /\ ~ t.threw => IsSkipped(t, xs[i].name, xs[i].source)
          /\ ~ t.threw => \A other, src : other # xs[i].name /\ IsSkipped(r, other, src) => IsSkipped(t, other, src)
      BY <1>4, <2>2, <3>1, <3>2, CompileFacts DEF CompiledFrom
    <3>4. ASSUME ~ t.threw, NEW j \in 1..i PROVE IsSkipped(t, xs[j].name, xs[j].source)
      <4>1. CASE j = i
        BY <3>3, <3>4, <4>1
      <4>2. CASE j # i
        <5>1. j \in 1..(i - 1) /\ j \in 1..Len(xs)
          BY <1>1, <4>2
        <5>2. xs[j].name # xs[i].name
          BY <1>3, <4>2, <5>1
        <5>3. IsSkipped(r, xs[j].name, xs[j].source)
          BY <1>4, <2>2, <5>1
        <5> QED
          BY <3>3, <3>4, <5>2, <5>3
      <4> QED
        BY <4>1, <4>2
    <3> QED
      BY <3>3, <3>4
  <2> QED
    BY <2>1, <2>2
<1> HIDE DEF Like
<1>5. \A i \in 1..Len(xs) : \A t \in Good[i - 1] : HookLoop!Pass(t, xs[i]) \subseteq Good[i]
  <2>1. ASSUME NEW i \in 1..Len(xs) PROVE i - 1 \in 0..Len(xs) /\ i \in 0..Len(xs)
    BY <1>1
  <2> QED
    BY <1>4, <2>1
<1>6. Good[Len(xs)] = Like(Len(xs))
  BY <1>1
<1> HIDE DEF Good
<1>7. \E after : after = HookLoop!After(s, xs, after)
  BY <1>1, HookLoop!LoopDefined
<1>8. \A after : after = HookLoop!After(s, xs, after) => after[Len(xs)] \subseteq Good[Len(xs)]
  BY <1>1, <1>2, <1>5, HookLoop!LoopKeeps
<1>9. CompileHooks(s) \subseteq Good[Len(xs)]
  BY <1>7, <1>8 DEF CompileHooks, ForEach, Then, HookLoop!After, CompilingHook, xs
<1>10. CompiledFrom(s, u) /\ (~ u.threw => \A i \in 1..Len(xs) : IsSkipped(u, xs[i].name, xs[i].source))
  BY <1>6, <1>9 DEF Like
<1>11. u.hooks = xs
  BY <1>10 DEF CompiledFrom, SameLists, xs
<1> QED
  BY <1>1, <1>10, <1>11 DEF AllCompiled

LEMMA CompilePacksFacts ==
  ASSUME NEW s, NEW v, CompiledFrom(s, v), ~ v.threw, AllCompiled(v), NEW u \in CompilePacks(v)
  PROVE  CompiledFrom(s, u) /\ (~ u.threw => AllCompiled(u))
<1> DEFINE xs == v.packs
           Like == {t \in Manager : CompiledFrom(s, t) /\ (~ t.threw => AllCompiled(t))}
           Good == [k \in 0..Len(xs) |-> Like]
<1>1. v \in Manager /\ Len(xs) \in Nat /\ \A i \in 1..Len(xs) : xs[i].name \in Pack
  BY ManagerFacts DEF CompiledFrom
<1>3. v \in Good[0]
  BY <1>1
<1> HIDE DEF xs
<1>4. ASSUME NEW i \in 1..Len(xs), NEW r \in Like
      PROVE  PackLoop!Pass(r, xs[i]) \subseteq Like
  <2>1. CASE r.threw
    BY <1>4, <2>1 DEF PackLoop!Pass
  <2>2. CASE ~ r.threw
    <3>1. SUFFICES ASSUME NEW t \in Compile(r, xs[i].name, xs[i].name) PROVE t \in Like
      BY <2>2 DEF PackLoop!Pass, CompilingPack
    <3>2. xs[i].name \in Item /\ xs[i].name \in SourceOf[xs[i].name] /\ xs[i].name # Missing /\ xs[i].name \notin Hook
      BY <1>1, SourceFacts
    <3>3. /\ CompiledFrom(s, t) /\ t \in Manager
          /\ ~ t.threw => \A other, src : other # xs[i].name /\ IsSkipped(r, other, src) => IsSkipped(t, other, src)
      BY <1>4, <2>2, <3>1, <3>2, CompileFacts DEF CompiledFrom
    <3>4. ASSUME ~ t.threw PROVE AllCompiled(t)
      <4>1. t.hooks = r.hooks /\ AllCompiled(r)
        BY <1>4, <2>2, <3>3 DEF CompiledFrom, SameLists
      <4>2. \A j \in DOMAIN r.hooks : r.hooks[j].name \in Hook
        BY <1>4, ManagerFacts
      <4> QED
        BY <3>2, <3>3, <3>4, <4>1, <4>2 DEF AllCompiled
    <3> QED
      BY <3>3, <3>4
  <2> QED
    BY <2>1, <2>2
<1> HIDE DEF Like
<1>5. \A i \in 1..Len(xs) : \A t \in Good[i - 1] : PackLoop!Pass(t, xs[i]) \subseteq Good[i]
  <2>1. ASSUME NEW i \in 1..Len(xs) PROVE i - 1 \in 0..Len(xs) /\ i \in 0..Len(xs)
    BY <1>1
  <2> QED
    BY <1>4, <2>1
<1>6. Good[Len(xs)] = Like
  BY <1>1
<1> HIDE DEF Good
<1>7. \E after : after = PackLoop!After(v, xs, after)
  BY <1>1, PackLoop!LoopDefined
<1>8. \A after : after = PackLoop!After(v, xs, after) => after[Len(xs)] \subseteq Good[Len(xs)]
  BY <1>1, <1>3, <1>5, PackLoop!LoopKeeps
<1>9. CompilePacks(v) \subseteq Good[Len(xs)]
  BY <1>7, <1>8 DEF CompilePacks, ForEach, Then, PackLoop!After, CompilingPack, xs
<1> QED
  BY <1>6, <1>9 DEF Like

LEMMA CompileAllFacts ==
  ASSUME NEW s \in Manager, NamesApart(s), s.isAllSkipped, ~ s.threw, NEW u \in CompileAll(s)
  PROVE  CompiledFrom(s, u) /\ (~ u.threw => AllCompiled(u))
<1>1. PICK v \in CompileHooks(s) : u \in IF v.threw THEN {v} ELSE CompilePacks(v)
  BY DEF CompileAll, CompileHooks, CompilePacks, Then
<1> QED
  BY <1>1, CompileHooksFacts, CompilePacksFacts

LEMMA LinkFacts ==
  ASSUME NEW s \in Manager, s.modified, NEW t \in LinkObjects(s)
  PROVE  /\ t \in Manager /\ SameLists(s, t) /\ t.sent = s.sent
         /\ t.objects = s.objects /\ t.crc32 = s.crc32
         /\ ~ t.threw => Linked(t)
<1> DEFINE m == s.modified /\ s.library = Missing
           started == [s EXCEPT !.modified = m]
           lost == [started EXCEPT !.library = Missing]
           made == [started EXCEPT !.library = s.objects]
<1>1. t = made \/ t \in Fails(started) \/ t \in Fails(lost)
  BY DEF LinkObjects, IsUpToDate
<1>2. m \in BOOLEAN /\ started = [s EXCEPT !.modified = m]
  OBVIOUS
<1> HIDE DEF m, started
<1>3. started \in Manager
  BY <1>2 DEF Manager
<1>4. /\ SameLists(s, started) /\ started.sent = s.sent /\ started.objects = s.objects
      /\ started.crc32 = s.crc32
  BY <1>2, ManagerFacts DEF SameLists
<1>5. lost \in Manager /\ made \in Manager
  BY <1>3, ManagerFacts DEF Manager
<1>6. /\ SameLists(s, lost) /\ lost.sent = s.sent /\ lost.objects = s.objects
      /\ lost.crc32 = s.crc32
      /\ SameLists(s, made) /\ made.sent = s.sent /\ made.objects = s.objects
      /\ made.crc32 = s.crc32 /\ made.library = s.objects
  BY <1>3, <1>4, ManagerFacts DEF SameLists
<1> HIDE DEF lost, made
<1>7. CASE t = made
  BY <1>5, <1>6, <1>7 DEF Linked
<1>8. CASE t \in Fails(started)
  BY <1>3, <1>4, <1>8, FailsFacts DEF SameLists
<1>9. CASE t \in Fails(lost)
  BY <1>5, <1>6, <1>9, FailsFacts DEF SameLists
<1> QED
  BY <1>1, <1>7, <1>8, <1>9

-----------------------------------------------------------------------------
(* What is sent.                                                           *)

\* What was sent since s0 loads the library whenever it unloads it, and the
\* library loaded is that of the objects; without it nothing was compiled.
Loads(s0, t) ==
  /\ LoadFollows(t.sent)
  /\ HasLoad(t.sent) => Linked(t)
  /\ ~ HasLoad(t.sent) => t.objects = s0.objects /\ t.library = s0.library

\* t is on the way of a call that began in s0 with a core that has been told
\* x0; what was sent since takes the core to x, unless a hook was sent again.
Reached(x0, s0, t, x) ==
  /\ t \in Manager
  /\ Agree(s0) => Agree(t)
  /\ s0.resent => t.resent
  /\ ~ t.threw => Loads(s0, t) /\ (~ t.resent => Path(x0, t.sent, x))

\* What Reached does not look at may change.
LEMMA EditReaches ==
  ASSUME NEW x0, NEW s0, NEW s, NEW x, Reached(x0, s0, s, x), NEW t \in Manager,
         t.sent = s.sent, t.objects = s.objects, t.library = s.library, t.crc32 = s.crc32,
         t.threw = s.threw, t.resent = s.resent
  PROVE  Reached(x0, s0, t, x)
<1>1. Agree(s) => Agree(t)
  BY DEF Agree, ChecksumsAgree
<1>2. Loads(s0, s) => Loads(s0, t)
  BY DEF Loads, Linked
<1> QED
  BY <1>1, <1>2 DEF Reached

LEMMA ThrowReaches ==
  ASSUME NEW x0, NEW s0, NEW s, NEW x, Reached(x0, s0, s, x), NEW y, NEW t \in Manager,
         t.objects = s.objects, t.crc32 = s.crc32, t.threw, t.resent = s.resent
  PROVE  Reached(x0, s0, t, y)
<1>1. Agree(s) => Agree(t)
  BY DEF Agree, ChecksumsAgree
<1> QED
  BY <1>1 DEF Reached

\* Unloading and loading tell the core nothing.
LEMMA CompileReaches ==
  ASSUME NEW x0, NEW s0, NEW s, NEW x, Reached(x0, s0, s, x), NamesApart(s), ~ s.threw,
         NEW t \in CompileHooksAndPatchPacks(s)
  PROVE  Reached(x0, s0, t, x) /\ SameLists(s, t) /\ (~ t.threw => AllCompiled(t))
<1> DEFINE b == [s EXCEPT !.isAllSkipped = TRUE]
<1>1. s \in Manager /\ b \in Manager
  BY DEF Reached, Manager
<1>2. /\ SameLists(s, b) /\ b.sent = s.sent /\ b.objects = s.objects /\ b.crc32 = s.crc32
      /\ b.library = s.library /\ b.threw = s.threw /\ b.isAllSkipped /\ b.resent = s.resent
  BY <1>1, ManagerFacts DEF SameLists
<1>3. PICK v \in CompileAll(b) :
        t \in IF v.threw THEN {v}
              ELSE IF v.isAllSkipped THEN {v}
              ELSE Then(Send(v, [type |-> "PATCH_LIB_UNLOAD"]), LAMBDA u :
                   Then(LinkObjects(u), LAMBDA w : Send(w, [type |-> "PATCH_LIB_LOAD"])))
  BY DEF CompileHooksAndPatchPacks, Then
<1> HIDE DEF b
<1>4. NamesApart(b)
  BY <1>2 DEF SameLists, NamesApart
<1>5. CompiledFrom(b, v) /\ (~ v.threw => AllCompiled(v))
  BY <1>1, <1>2, <1>3, <1>4, CompileAllFacts
<1>6. Reached(x0, s0, b, x)
  BY <1>1, <1>2, EditReaches
<1>7. /\ v \in Manager /\ SameLists(s, v) /\ v.sent = s.sent /\ v.library = s.library
      /\ v.resent = s.resent
      /\ Agree(s0) => Agree(v)
      /\ ~ v.threw => IF v.isAllSkipped THEN v.objects = s.objects ELSE v.modified
  BY <1>2, <1>5, <1>6 DEF CompiledFrom, SameLists, Reached
<1>8. CASE v.threw /\ t = v
  BY <1>7, <1>8 DEF Reached
<1>9. CASE ~ v.threw /\ v.isAllSkipped /\ t = v
  <2>1. v.objects = s.objects /\ v.library = s.library /\ v.sent = s.sent
    BY <1>7, <1>9
  <2>2. Loads(s0, s) => Loads(s0, v)
    BY <2>1 DEF Loads, Linked
  <2> QED
    BY <1>5, <1>7, <1>9, <2>2 DEF Reached
<1>10. CASE ~ v.threw /\ ~ v.isAllSkipped
  <2> DEFINE u == [v EXCEPT !.sent = Append(@, UnloadPacket)]
  <2>1. UnloadPacket \in Packet /\ LoadPacket \in Packet /\ v.sent \in Seq(Packet)
    BY <1>7, ManagerFacts DEF UnloadPacket, LoadPacket, Packet
  <2>2. u \in Manager
    <3>1. Append(v.sent, UnloadPacket) \in Seq(Packet)
      BY <2>1
    <3> QED
      BY <1>7, <3>1 DEF Manager
  <2>3. /\ SameLists(v, u) /\ u.objects = v.objects /\ u.crc32 = v.crc32 /\ u.library = v.library
        /\ u.sent = Append(v.sent, UnloadPacket) /\ u.threw = v.threw /\ u.modified = v.modified
    BY <1>7, ManagerFacts DEF SameLists
  <2>4. Send(v, [type |-> "PATCH_LIB_UNLOAD"]) = {u}
    BY DEF Send, UnloadPacket
  <2> HIDE DEF u
  <2>5. t \in Then(LinkObjects(u), LAMBDA w : Send(w, [type |-> "PATCH_LIB_LOAD"]))
    BY <1>3, <1>10, <2>3, <2>4 DEF Then
  <2>6. PICK w \in LinkObjects(u) : t \in IF w.threw THEN {w} ELSE Send(w, [type |-> "PATCH_LIB_LOAD"])
    BY <2>5 DEF Then
  <2>7. /\ w \in Manager /\ SameLists(u, w) /\ w.sent = u.sent
        /\ w.objects = u.objects /\ w.crc32 = u.crc32
        /\ ~ w.threw => Linked(w)
    BY <1>7, <1>10, <2>2, <2>3, <2>6, LinkFacts
  <2>8. /\ SameLists(s, w) /\ w.resent = s.resent /\ w.objects = v.objects /\ w.crc32 = v.crc32
        /\ w.sent = Append(s.sent, UnloadPacket)
    BY <1>7, <2>3, <2>7 DEF SameLists
  <2>9. Agree(s0) => Agree(w)
    BY <1>7, <2>8 DEF Agree, ChecksumsAgree
  <2>10. CASE w.threw
    <3>1. t = w
      BY <2>6, <2>10
    <3> QED
      BY <1>6, <1>2, <2>7, <2>8, <2>9, <2>10, <3>1 DEF Reached
  <2>11. CASE ~ w.threw
    <3>1. t = [w EXCEPT !.sent = Append(w.sent, LoadPacket)]
      BY <2>6, <2>11 DEF Send, LoadPacket
    <3>2. w.sent \in Seq(Packet)
      BY <2>7, ManagerFacts
    <3>3. t \in Manager
      <4>1. Append(w.sent, LoadPacket) \in Seq(Packet)
        BY <2>1, <3>2
      <4> QED
        BY <2>7, <3>1, <4>1 DEF Manager
    <3>4. /\ SameLists(w, t) /\ t.objects = w.objects /\ t.crc32 = w.crc32 /\ t.library = w.library
          /\ t.sent = Append(w.sent, LoadPacket) /\ t.threw = w.threw /\ t.resent = w.resent
      BY <2>7, <3>1, ManagerFacts DEF SameLists
    <3>5. SameLists(s, t) /\ t.resent = s.resent
      BY <2>8, <3>4 DEF SameLists
    <3>6. Agree(s0) => Agree(t)
      BY <2>9, <3>4 DEF Agree, ChecksumsAgree
    <3>7. s.sent \in Seq(Packet) /\ t.sent = Append(Append(s.sent, UnloadPacket), LoadPacket)
      BY <1>1, <2>8, <3>4, ManagerFacts
    <3>8. Loads(s0, t)
      <4>1. HasLoad(t.sent) /\ LoadFollows(t.sent)
        BY <1>6, <1>2, <3>7, LoadReload DEF Reached, Loads
      <4>2. Linked(t)
        BY <2>7, <2>11, <3>4 DEF Linked
      <4> QED
        BY <4>1, <4>2 DEF Loads
    <3>9. ~ t.resent => Path(x0, t.sent, x)
      <4>1. Told(Told(x, UnloadPacket), LoadPacket) = x
        BY DEF Told, UnloadPacket, LoadPacket
      <4>2. ASSUME Path(x0, s.sent, x) PROVE Path(x0, t.sent, x)
        <5>1. Append(s.sent, UnloadPacket) \in Seq(Packet)
          BY <2>1, <3>7
        <5>2. Path(x0, Append(s.sent, UnloadPacket), Told(x, UnloadPacket))
          BY <2>1, <3>7, <4>2, PathAppend
        <5>3. Path(x0, t.sent, Told(Told(x, UnloadPacket), LoadPacket))
          BY <2>1, <3>7, <5>1, <5>2, PathAppend
        <5> QED
          BY <4>1, <5>3
      <4> QED
        BY <3>5, <4>2 DEF Reached
    <3>10. AllCompiled(t)
      <4>1. AllCompiled(v) /\ t.hooks = v.hooks /\ t.objects = v.objects /\ t.crc32 = v.crc32
        BY <1>5, <1>7, <1>10, <2>8, <3>4, <3>5 DEF SameLists
      <4> QED
        BY <4>1 DEF AllCompiled, IsSkipped
    <3> QED
      BY <1>6, <1>2, <3>3, <3>5, <3>6, <3>8, <3>9, <3>10 DEF Reached
  <2> QED
    BY <2>10, <2>11
<1> QED
  BY <1>3, <1>8, <1>9, <1>10

LEMMA SendReaches ==
  ASSUME NEW x0, NEW s0, NEW s, NEW x, Reached(x0, s0, s, x), ~ s.threw, NEW packet \in Packet,
         packet.type \notin {"PATCH_LIB_UNLOAD", "PATCH_LIB_LOAD"}, NEW t \in Send(s, packet)
  PROVE  /\ Reached(x0, s0, t, Told(x, packet)) /\ SameLists(s, t) /\ ~ t.threw
         /\ AllCompiled(s) => AllCompiled(t)
<1>1. t = [s EXCEPT !.sent = Append(s.sent, packet)]
  BY DEF Send
<1>2. s \in Manager /\ s.sent \in Seq(Packet)
  BY ManagerFacts DEF Reached
<1>3. t \in Manager
  <2>1. Append(s.sent, packet) \in Seq(Packet)
    BY <1>2
  <2> QED
    BY <1>1, <1>2, <2>1 DEF Manager
<1>4. /\ SameLists(s, t) /\ t.objects = s.objects /\ t.crc32 = s.crc32 /\ t.library = s.library
      /\ t.sent = Append(s.sent, packet) /\ t.threw = s.threw /\ t.resent = s.resent
  BY <1>1, <1>2, ManagerFacts DEF SameLists
<1>5. Agree(s) => Agree(t)
  BY <1>4 DEF Agree, ChecksumsAgree
<1>6. Loads(s0, s) => Loads(s0, t)
  BY <1>2, <1>4, LoadAppend DEF Loads, Linked
<1>7. Path(x0, s.sent, x) => Path(x0, t.sent, Told(x, packet))
  BY <1>2, <1>4, PathAppend
<1>8. AllCompiled(s) => AllCompiled(t)
  BY <1>4 DEF AllCompiled, IsSkipped, SameLists
<1> QED
  BY <1>3, <1>4, <1>5, <1>6, <1>7, <1>8 DEF Reached

HookPacket(hook) == [type |-> "PATCH_HOOK", name |-> hook.name, source |-> hook.source]
PackPacket(pack) == [type |-> "PATCH_PACK", name |-> pack.name, enabled |-> pack.enabled]

LEMMA UpdateHookReaches ==
  ASSUME NEW x0, NEW s0, NEW s, NEW x, Reached(x0, s0, s, x), NamesApart(s), ~ s.threw,
         NEW hook \in HookEntry, NEW t \in UpdateCoresAboutHook(s, hook)
  PROVE  /\ Reached(x0, s0, t, Told(x, HookPacket(hook))) /\ SameLists(s, t)
         /\ ~ t.threw => AllCompiled(t)
<1>1. PICK v \in CompileHooksAndPatchPacks(s) : t \in IF v.threw THEN {v} ELSE Send(v, HookPacket(hook))
  BY DEF UpdateCoresAboutHook, Then, HookPacket
<1>2. Reached(x0, s0, v, x) /\ SameLists(s, v) /\ (~ v.threw => AllCompiled(v))
  BY <1>1, CompileReaches
<1>3. CASE v.threw
  BY <1>1, <1>2, <1>3 DEF Reached
<1>4. CASE ~ v.threw
  <2>1. HookPacket(hook) \in Packet /\ HookPacket(hook).type \notin {"PATCH_LIB_UNLOAD", "PATCH_LIB_LOAD"}
    BY DEF HookPacket, Packet, HookEntry
  <2>2. t \in Send(v, HookPacket(hook))
    BY <1>1, <1>4
  <2>3. Reached(x0, s0, t, Told(x, HookPacket(hook))) /\ SameLists(v, t) /\ AllCompiled(t)
    BY <1>2, <1>4, <2>1, <2>2, SendReaches
  <2> QED
    BY <1>2, <2>3 DEF SameLists
<1> QED
  BY <1>3, <1>4

LEMMA UpdatePackReaches ==
  ASSUME NEW x0, NEW s0, NEW s, NEW x, Reached(x0, s0, s, x), NamesApart(s), ~ s.threw,
         NEW pack \in PackEntry, NEW t \in UpdateCoresAboutPatchPack(s, pack)
  PROVE  /\ Reached(x0, s0, t, Told(x, PackPacket(pack))) /\ SameLists(s, t)
         /\ ~ t.threw => AllCompiled(t)
<1>1. PICK v \in CompileHooksAndPatchPacks(s) : t \in IF v.threw THEN {v} ELSE Send(v, PackPacket(pack))
  BY DEF UpdateCoresAboutPatchPack, Then, PackPacket
<1>2. Reached(x0, s0, v, x) /\ SameLists(s, v) /\ (~ v.threw => AllCompiled(v))
  BY <1>1, CompileReaches
<1>3. CASE v.threw
  BY <1>1, <1>2, <1>3 DEF Reached
<1>4. CASE ~ v.threw
  <2>1. PackPacket(pack) \in Packet /\ PackPacket(pack).type \notin {"PATCH_LIB_UNLOAD", "PATCH_LIB_LOAD"}
    BY DEF PackPacket, Packet, PackEntry
  <2>2. t \in Send(v, PackPacket(pack))
    BY <1>1, <1>4
  <2>3. Reached(x0, s0, t, Told(x, PackPacket(pack))) /\ SameLists(v, t) /\ AllCompiled(t)
    BY <1>2, <1>4, <2>1, <2>2, SendReaches
  <2> QED
    BY <1>2, <2>3 DEF SameLists
<1> QED
  BY <1>3, <1>4

-----------------------------------------------------------------------------
(* Enabling and disabling.                                                 *)

LEMMA EnabledFacts ==
  ASSUME NEW packs, NEW n \in Nat, DOMAIN packs = 1..n, Apart(packs), NEW i \in 1..n,
         packs[i].enabled \in BOOLEAN
  PROVE  EnabledIn(packs) = WithPack(EnabledIn(packs), packs[i].name, packs[i].enabled)
<1>1. packs[i].enabled <=> packs[i].name \in EnabledIn(packs)
  BY DEF EnabledIn, Apart
<1> QED
  BY <1>1 DEF WithPack

LEMMA EntrySet ==
  ASSUME NEW packs \in Seq(PackEntry), Apart(packs), NEW i \in DOMAIN packs, NEW e \in BOOLEAN,
         NEW q, q = [packs EXCEPT ![i] = [packs[i] EXCEPT !.enabled = e]]
  PROVE  /\ q \in Seq(PackEntry) /\ Len(q) = Len(packs) /\ DOMAIN q = DOMAIN packs /\ Apart(q)
         /\ q[i].enabled = e /\ q[i] \in PackEntry
         /\ \A j \in DOMAIN packs : q[j].name = packs[j].name
         /\ EnabledIn(q) = WithPack(EnabledIn(packs), q[i].name, e)
<1> DEFINE n == Len(packs)
<1>1. n \in Nat /\ DOMAIN packs = 1..n /\ \A j \in 1..n : packs[j] \in PackEntry
  OBVIOUS
<1>2. [packs[i] EXCEPT !.enabled = e] = [name |-> packs[i].name, enabled |-> e] /\ packs[i].name \in Pack
  BY <1>1 DEF PackEntry
<1>3. [packs[i] EXCEPT !.enabled = e] \in PackEntry
  BY <1>2 DEF PackEntry
<1>4. /\ DOMAIN q = 1..n /\ q[i] = [name |-> packs[i].name, enabled |-> e]
      /\ \A j \in 1..n : j # i => q[j] = packs[j]
  BY <1>1, <1>2
<1>5. q \in Seq(PackEntry) /\ Len(q) = n
  BY <1>1, <1>3
<1>6. \A j \in 1..n : q[j].name = packs[j].name
  BY <1>4
<1>7. Apart(q)
  BY <1>1, <1>4, <1>6 DEF Apart
<1>8. EnabledIn(q) = WithPack(EnabledIn(packs), packs[i].name, e)
  <2>1. ASSUME NEW p, p # packs[i].name PROVE p \in EnabledIn(q) <=> p \in EnabledIn(packs)
    BY <1>1, <1>4, <2>1 DEF EnabledIn
  <2>2. packs[i].name \in EnabledIn(q) <=> e
    BY <1>1, <1>4, <1>7 DEF EnabledIn, Apart
  <2>3. CASE e
    BY <2>1, <2>2, <2>3 DEF WithPack
  <2>4. CASE ~ e
    BY <2>1, <2>2, <2>4 DEF WithPack
  <2> QED
    BY <2>3, <2>4
<1> QED
  BY <1>1, <1>3, <1>4, <1>5, <1>6, <1>7, <1>8

LEMMA ToldPack ==
  ASSUME NEW hooks, NEW packs, NEW pack \in PackEntry
  PROVE  Told([hooks |-> hooks, enabled |-> packs], PackPacket(pack))
              = [hooks |-> hooks, enabled |-> WithPack(packs, pack.name, pack.enabled)]
BY DEF Told, PackPacket, WithPack, PackEntry

\* The lists of s are those of t, as far as a core is concerned.
SameHooks(s, t) ==
  /\ DOMAIN t.hooks = DOMAIN s.hooks
  /\ \A i \in DOMAIN s.hooks : t.hooks[i].name = s.hooks[i].name /\ t.hooks[i].source = s.hooks[i].source

LEMMA SameShadow ==
  ASSUME NEW s, NEW t, SameHooks(s, t), t.packs = s.packs
  PROVE  Shadow(t) = Shadow(s)
BY DEF SameHooks, Shadow, HooksTold

LEMMA SetEnabledReaches ==
  ASSUME NEW x0, NEW s0, NEW s, Reached(x0, s0, s, Shadow(s)), NamesApart(s), ~ s.threw,
         NEW i \in DOMAIN s.packs, NEW e \in BOOLEAN, NEW t \in SetEnabled(s, i, e)
  PROVE  /\ Reached(x0, s0, t, Shadow(t)) /\ NamesApart(t) /\ t.hooks = s.hooks
         /\ t.capacity = s.capacity
         /\ t.packs \in Seq(PackEntry) /\ DOMAIN t.packs = DOMAIN s.packs
         /\ \A j \in DOMAIN s.packs : t.packs[j].name = s.packs[j].name
         /\ ~ t.threw => AllCompiled(t) /\ t.packs[i].enabled = e
<1> DEFINE q == [s.packs EXCEPT ![i] = [s.packs[i] EXCEPT !.enabled = e]]
           r == [s EXCEPT !.packs = q]
<1>1. s \in Manager /\ s.packs \in Seq(PackEntry) /\ Apart(s.packs)
  BY ManagerFacts DEF Reached, NamesApart
<1>2. [s EXCEPT !.packs[i].enabled = e] = r
  BY <1>1, ManagerFacts
<1>3. /\ q \in Seq(PackEntry) /\ Len(q) = Len(s.packs) /\ DOMAIN q = DOMAIN s.packs /\ Apart(q)
      /\ q[i].enabled = e /\ q[i] \in PackEntry
      /\ \A j \in DOMAIN s.packs : q[j].name = s.packs[j].name
      /\ EnabledIn(q) = WithPack(EnabledIn(s.packs), q[i].name, e)
  BY <1>1, EntrySet
<1>4. r = [s EXCEPT !.packs = q]
  OBVIOUS
<1>5. t \in UpdateCoresAboutPatchPack(r, r.packs[i])
  BY <1>2 DEF SetEnabled
<1> HIDE DEF q, r
<1>6. r \in Manager
  BY <1>1, <1>3, <1>4 DEF Manager
<1>7. /\ r.packs = q /\ r.hooks = s.hooks /\ r.capacity = s.capacity
      /\ r.sent = s.sent /\ r.objects = s.objects /\ r.library = s.library /\ r.crc32 = s.crc32
      /\ r.threw = s.threw /\ r.resent = s.resent
  BY <1>1, <1>4, ManagerFacts
<1>8. Reached(x0, s0, r, Shadow(s)) /\ NamesApart(r) /\ ~ r.threw
  BY <1>3, <1>6, <1>7, EditReaches DEF NamesApart
<1>9. /\ Reached(x0, s0, t, Told(Shadow(s), PackPacket(q[i]))) /\ SameLists(r, t)
      /\ ~ t.threw => AllCompiled(t)
  BY <1>3, <1>5, <1>7, <1>8, UpdatePackReaches
<1>10. t.packs = q /\ t.hooks = s.hooks /\ t.capacity = s.capacity
  BY <1>7, <1>9 DEF SameLists
<1>11. Told(Shadow(s), PackPacket(q[i])) = Shadow(t)
  <2> DEFINE hooks == HooksTold(s.hooks)
  <2>1. Shadow(s) = [hooks |-> hooks, enabled |-> EnabledIn(s.packs)]
    BY DEF Shadow
  <2>2. Shadow(t) = [hooks |-> hooks, enabled |-> EnabledIn(q)]
    BY <1>10 DEF Shadow
  <2> HIDE DEF hooks
  <2>3. Told(Shadow(s), PackPacket(q[i]))
          = [hooks |-> hooks, enabled |-> WithPack(EnabledIn(s.packs), q[i].name, q[i].enabled)]
    <3>1. q[i] \in PackEntry
      BY <1>3
    <3>2. \A h, ps : Told([hooks |-> h, enabled |-> ps], PackPacket(q[i]))
                     = [hooks |-> h, enabled |-> WithPack(ps, q[i].name, q[i].enabled)]
      BY <3>1, ToldPack, Zenon
    <3> QED
      BY <2>1, <3>2
  <2> QED
    BY <1>3, <2>2, <2>3
<1>12. NamesApart(t)
  BY <1>3, <1>7, <1>8, <1>10 DEF NamesApart
<1> QED
  BY <1>3, <1>9, <1>10, <1>11, <1>12

-----------------------------------------------------------------------------
(* The operations of a call.                                               *)

\* t is on the way of a call that began in s0, and a core that was told x0
\* then is told of what t has now.
Going(x0, s0, t) ==
  /\ Reached(x0, s0, t, Shadow(t)) /\ NamesApart(t)
  /\ AllCompiled(s0) /\ ~ t.threw => AllCompiled(t)

LEMMA ThrowsGoing ==
  ASSUME NEW x0, NEW s0, NEW s, Going(x0, s0, s), NEW t, t = Throws(s)
  PROVE  /\ Going(x0, s0, t) /\ t.threw /\ SameHooks(s, t) /\ t.hooks = s.hooks
         /\ t.packs = s.packs /\ t.capacity = s.capacity
<1>1. s \in Manager /\ t = [s EXCEPT !.threw = TRUE]
  BY DEF Going, Reached, Throws
<1>2. t \in Manager
  BY <1>1 DEF Manager
<1>3. /\ t.hooks = s.hooks /\ t.packs = s.packs /\ t.capacity = s.capacity /\ t.threw
      /\ t.objects = s.objects /\ t.crc32 = s.crc32 /\ t.resent = s.resent
  BY <1>1, ManagerFacts
<1>4. NamesApart(t) /\ SameHooks(s, t)
  BY <1>3 DEF Going, NamesApart, SameHooks
<1>5. Reached(x0, s0, t, Shadow(t))
  BY <1>2, <1>3, ThrowReaches DEF Going
<1> QED
  BY <1>3, <1>4, <1>5 DEF Going

WithHooks(s, hooks) == [s EXCEPT !.hooks = hooks]
WithoutPack(s, i) == [s EXCEPT !.packs = RemoveAt(s.packs, i)]

\* The hooks may come to have other dependants.
LEMMA HooksGoing ==
  ASSUME NEW x0, NEW s0, NEW s, Going(x0, s0, s), NEW hs \in Seq(HookEntry),
         DOMAIN hs = DOMAIN s.hooks,
         \A i \in DOMAIN s.hooks : hs[i].name = s.hooks[i].name /\ hs[i].source = s.hooks[i].source,
         NEW t, t = WithHooks(s, hs)
  PROVE  /\ Going(x0, s0, t) /\ SameHooks(s, t) /\ t.hooks = hs /\ t.packs = s.packs
         /\ t.capacity = s.capacity /\ t.threw = s.threw
<1>1. s \in Manager
  BY DEF Going, Reached
<1>2. t \in Manager
  BY <1>1 DEF Manager, WithHooks
<1>3. /\ t.hooks = hs /\ t.packs = s.packs /\ t.capacity = s.capacity
      /\ t.sent = s.sent /\ t.objects = s.objects /\ t.library = s.library /\ t.crc32 = s.crc32
      /\ t.threw = s.threw /\ t.resent = s.resent
  BY <1>1, ManagerFacts DEF WithHooks
<1>4. SameHooks(s, t)
  BY <1>3 DEF SameHooks
<1>a. Shadow(t) = Shadow(s)
  BY <1>3, <1>4, SameShadow
<1>5. Reached(x0, s0, t, Shadow(t))
  BY <1>2, <1>3, <1>a, EditReaches DEF Going
<1>6. NamesApart(t)
  BY <1>3 DEF Going, NamesApart, Apart
<1>7. AllCompiled(s) => AllCompiled(t)
  BY <1>3 DEF AllCompiled, IsSkipped
<1> QED
  BY <1>3, <1>4, <1>5, <1>6, <1>7 DEF Going

WithDependants(hooks, h, d) == [hooks EXCEPT ![h] = [hooks[h] EXCEPT !.dependants = d]]

LEMMA DependantsSet ==
  ASSUME NEW hooks \in Seq(HookEntry), NEW h \in DOMAIN hooks, NEW d \in Seq(Iterator),
         NEW hs, hs = WithDependants(hooks, h, d)
  PROVE  /\ hs \in Seq(HookEntry) /\ DOMAIN hs = DOMAIN hooks
         /\ \A i \in DOMAIN hooks : hs[i].name = hooks[i].name /\ hs[i].source = hooks[i].source
<1>1. hooks[h] \in HookEntry /\ hooks \in Seq(HookEntry)
  OBVIOUS
<1>2. [hooks[h] EXCEPT !.dependants = d] \in HookEntry
  BY <1>1 DEF HookEntry
<1>3. /\ [hooks[h] EXCEPT !.dependants = d].name = hooks[h].name
      /\ [hooks[h] EXCEPT !.dependants = d].source = hooks[h].source
  BY <1>1 DEF HookEntry
<1> QED
  BY <1>2, <1>3 DEF WithDependants

LEMMA RemoveDependantGoing ==
  ASSUME NEW x0, NEW s0, NEW s, Going(x0, s0, s), ~ s.threw, NEW name, NEW iterator,
         NEW t \in RemoveDependant(s, name, iterator)
  PROVE  Going(x0, s0, t) /\ SameHooks(s, t) /\ t.packs = s.packs /\ t.capacity = s.capacity
<1>1. CASE Named(s.hooks, name) = {}
  BY <1>1, ThrowsGoing DEF RemoveDependant, WithNamed
<1>2. CASE Named(s.hooks, name) # {}
  <2> DEFINE h == CHOOSE i \in Named(s.hooks, name) : TRUE
             places == {j \in DOMAIN s.hooks[h].dependants : s.hooks[h].dependants[j] = iterator}
             first == CHOOSE j \in places : \A k \in places : j <= k
             d == RemoveAt(s.hooks[h].dependants, first)
             hs == [s.hooks EXCEPT ![h] = [s.hooks[h] EXCEPT !.dependants = d]]
  <2>1. h \in DOMAIN s.hooks
    BY <1>2 DEF Named
  <2>2. s \in Manager /\ s.hooks \in Seq(HookEntry)
    BY ManagerFacts DEF Going, Reached
  <2>a. s.hooks[h] \in HookEntry
    BY <2>1, <2>2, ManagerFacts
  <2>b. \A entry \in HookEntry : entry.dependants \in Seq(Iterator)
    BY DEF HookEntry
  <2>3. s.hooks[h].dependants \in Seq(Iterator)
    BY <2>a, <2>b
  <2>c. DOMAIN s.hooks[h].dependants = 1..Len(s.hooks[h].dependants)
    BY <2>3
  <2>4. t = IF places = {} THEN s ELSE [s EXCEPT !.hooks[h].dependants = d]
    BY <1>2 DEF RemoveDependant, WithNamed
  <2>5. CASE places = {}
    BY <2>4, <2>5 DEF SameHooks
  <2>6. CASE places # {}
    <3>1. places \in SUBSET Nat
      BY <2>c
    <3>2. \E j \in places : \A k \in places : j <= k
      BY <2>6, <3>1, LeastFacts
    <3>3. first \in DOMAIN s.hooks[h].dependants
      BY <3>2
    <3> HIDE DEF first, h
    <3>4. d \in Seq(Iterator)
      BY <2>3, <3>3, RemoveAtFacts
    <3>5. t = [s EXCEPT !.hooks[h].dependants = d]
      BY <2>4, <2>6
    <3> HIDE DEF d
    <3>6. t = WithHooks(s, hs)
      BY <2>2, <3>5, ManagerFacts DEF WithHooks
    <3>a. hs = WithDependants(s.hooks, h, d)
      BY DEF WithDependants
    <3> HIDE DEF hs
    <3>7. /\ hs \in Seq(HookEntry) /\ DOMAIN hs = DOMAIN s.hooks
          /\ \A i \in DOMAIN s.hooks : hs[i].name = s.hooks[i].name /\ hs[i].source = s.hooks[i].source
      BY <2>1, <2>2, <3>4, <3>a, DependantsSet
    <3> QED
      BY <3>6, <3>7, HooksGoing
  <2> QED
    BY <2>5, <2>6
<1> QED
  BY <1>1, <1>2

RemovingDependant(t, x) == RemoveDependant(t, x[2], <<t.capacity, x[1]>>)
DependantLoop == INSTANCE LoopProofs WITH Body <- RemovingDependant

RemoveDependants(s, i, hooks) ==
  ForEach(s, hooks, LAMBDA t, hook : RemoveDependant(t, hook, <<t.capacity, i>>))

LEMMA RemoveDependantsGoing ==
  ASSUME NEW x0, NEW s0, NEW s, Going(x0, s0, s), ~ s.threw, NEW i, NEW hooks, Len(hooks) \in Nat,
         NEW u \in RemoveDependants(s, i, hooks)
  PROVE  Going(x0, s0, u) /\ SameHooks(s, u) /\ u.packs = s.packs /\ u.capacity = s.capacity
<1> DEFINE n == Len(hooks)
           xs == [j \in 1..n |-> <<i, hooks[j]>>]
           Like == {t \in Manager : /\ Going(x0, s0, t) /\ SameHooks(s, t)
                                    /\ t.packs = s.packs /\ t.capacity = s.capacity}
           Good == [k \in 0..n |-> Like]
           Step(after, j) ==
             UNION {IF t.threw THEN {t} ELSE RemoveDependant(t, hooks[j], <<t.capacity, i>>) :
                    t \in after[j - 1]}
<1>1. s \in Like /\ n \in Nat
  BY DEF SameHooks, Going, Reached
<1>2. Len(xs) = n /\ \A j \in 1..n : xs[j] = <<i, hooks[j]>>
  BY <1>1
<1> HIDE DEF xs, n
<1>3. ASSUME NEW j \in 1..n, NEW r \in Like
      PROVE  DependantLoop!Pass(r, xs[j]) \subseteq Like
  <2>1. CASE r.threw
    BY <1>3, <2>1 DEF DependantLoop!Pass
  <2>2. CASE ~ r.threw
    <3>1. SUFFICES ASSUME NEW t \in RemoveDependant(r, hooks[j], <<r.capacity, i>>) PROVE t \in Like
      BY <1>2, <2>2 DEF DependantLoop!Pass, RemovingDependant
    <3>2. Going(x0, s0, t) /\ SameHooks(r, t) /\ t.packs = r.packs /\ t.capacity = r.capacity
      BY <1>3, <2>2, <3>1, RemoveDependantGoing
    <3> QED
      BY <1>3, <3>2 DEF SameHooks, Going, Reached
  <2> QED
    BY <2>1, <2>2
<1> HIDE DEF Like
<1>4. \A j \in 1..n : \A t \in Good[j - 1] : DependantLoop!Pass(t, xs[j]) \subseteq Good[j]
  <2>1. ASSUME NEW j \in 1..n PROVE j - 1 \in 0..n /\ j \in 0..n
    BY <1>1
  <2> QED
    BY <1>3, <2>1
<1>5. s \in Good[0] /\ Good[n] = Like
  BY <1>1
<1> HIDE DEF Good
<1>6. \E after : after = DependantLoop!After(s, xs, after)
  BY <1>1, <1>2, DependantLoop!LoopDefined
<1>7. \A after : after = DependantLoop!After(s, xs, after) => after[n] \subseteq Good[n]
  BY <1>1, <1>2, <1>4, <1>5, DependantLoop!LoopKeeps
<1>8. ASSUME NEW after
      PROVE  DependantLoop!After(s, xs, after) = [j \in 0..n |-> IF j = 0 THEN {s} ELSE Step(after, j)]
  <2>1. ASSUME NEW j \in 0..n, j # 0
        PROVE  Step(after, j)
                 = UNION {IF t.threw THEN {t} ELSE RemovingDependant(t, xs[j]) : t \in after[j - 1]}
    <3>1. xs[j] = <<i, hooks[j]>>
      BY <1>1, <1>2, <2>1
    <3> QED
      BY <3>1 DEF RemovingDependant
  <2> HIDE DEF Step
  <2> QED
    BY <1>2, <2>1 DEF DependantLoop!After
<1>9. RemoveDependants(s, i, hooks) \subseteq Like
  <2> DEFINE F(after) == [j \in 0..n |-> IF j = 0 THEN {s} ELSE Step(after, j)]
             c == CHOOSE after : after = F(after)
  <2>1. RemoveDependants(s, i, hooks) = c[n]
    BY DEF RemoveDependants, ForEach, Then, n
  <2> HIDE DEF Step
  <2>2. \A after : DependantLoop!After(s, xs, after) = F(after)
    BY <1>8
  <2> HIDE DEF F
  <2>3. \E after : after = F(after)
    BY <1>6, <2>2
  <2>4. c = F(c)
    BY <2>3
  <2> HIDE DEF c
  <2>5. c[n] \subseteq Good[n]
    BY <1>7, <2>2, <2>4
  <2> QED
    BY <1>5, <2>1, <2>5
<1> QED
  BY <1>9 DEF Like

PackRemoved(name) == [type |-> "PATCH_PACK_REMOVE", name |-> name]
HookRemoved(name) == [type |-> "PATCH_HOOK_REMOVE", name |-> name]

LEMMA ToldPackRemoved ==
  ASSUME NEW hooks, NEW packs, NEW name
  PROVE  Told([hooks |-> hooks, enabled |-> packs], PackRemoved(name))
           = [hooks |-> hooks, enabled |-> packs \ {name}]
BY DEF Told, PackRemoved

\* The list of packs loses the one a core was told is gone.
LEMMA PackGoneGoing ==
  ASSUME NEW x0, NEW s0, NEW w, Reached(x0, s0, w, Shadow(w)), NamesApart(w), ~ w.threw, AllCompiled(w),
         NEW i \in DOMAIN w.packs, NEW y \in Send(w, PackRemoved(w.packs[i].name)),
         NEW u, u = WithoutPack(y, i)
  PROVE  Going(x0, s0, u) /\ u.hooks = w.hooks
<1> DEFINE name == w.packs[i].name
           q == RemoveAt(w.packs, i)
<1>1. /\ w \in Manager /\ w.packs \in Seq(PackEntry) /\ Apart(w.packs) /\ Apart(w.hooks)
      /\ name \in Pack
  BY ManagerFacts DEF Reached, NamesApart
<1>2. PackRemoved(name) \in Packet /\ PackRemoved(name).type \notin {"PATCH_LIB_UNLOAD", "PATCH_LIB_LOAD"}
  BY <1>1 DEF PackRemoved, Packet
<1>3. q \in Seq(PackEntry) /\ Apart(q) /\ EnabledIn(q) = EnabledIn(w.packs) \ {name}
  BY <1>1, EntryRemoved
<1> HIDE DEF name, q
<1>4. y \in Send(w, PackRemoved(name))
  BY DEF name
<1>5. /\ Reached(x0, s0, y, Told(Shadow(w), PackRemoved(name))) /\ SameLists(w, y) /\ ~ y.threw
      /\ AllCompiled(y)
  BY <1>2, <1>4, SendReaches
<1>6. y \in Manager /\ y.packs = w.packs /\ y.hooks = w.hooks /\ u = [y EXCEPT !.packs = q]
  BY <1>5 DEF Reached, SameLists, q, WithoutPack
<1>7. u \in Manager
  BY <1>3, <1>6 DEF Manager
<1>8. /\ u.packs = q /\ u.hooks = w.hooks
      /\ u.sent = y.sent /\ u.objects = y.objects /\ u.library = y.library /\ u.crc32 = y.crc32
      /\ u.threw = y.threw /\ u.resent = y.resent
  BY <1>6, ManagerFacts
<1>9. Told(Shadow(w), PackRemoved(name)) = Shadow(u)
  <2> DEFINE hooks == HooksTold(w.hooks)
  <2>1. Shadow(w) = [hooks |-> hooks, enabled |-> EnabledIn(w.packs)]
    BY DEF Shadow
  <2>2. Shadow(u) = [hooks |-> hooks, enabled |-> EnabledIn(q)]
    BY <1>8 DEF Shadow
  <2> HIDE DEF hooks
  <2>3. Told(Shadow(w), PackRemoved(name)) = [hooks |-> hooks, enabled |-> EnabledIn(w.packs) \ {name}]
    BY <2>1, ToldPackRemoved
  <2> QED
    BY <1>3, <2>2, <2>3
<1>10. Reached(x0, s0, u, Shadow(u))
  BY <1>5, <1>7, <1>8, <1>9, EditReaches
<1>11. NamesApart(u) /\ AllCompiled(u)
  BY <1>1, <1>3, <1>5, <1>6, <1>8 DEF NamesApart, AllCompiled, IsSkipped
<1> QED
  BY <1>8, <1>10, <1>11 DEF Going

LEMMA RemoveAtIndexGoing ==
  ASSUME NEW x0, NEW s0, NEW s, Going(x0, s0, s), ~ s.threw, NEW i \in DOMAIN s.packs,
         NEW u \in RemoveAtIndex(s, i)
  PROVE  Going(x0, s0, u) /\ SameHooks(s, u)
<1> DEFINE name == s.packs[i].name
           off == FALSE
<1>1. s \in Manager /\ name \in Pack /\ Len(HooksUsed[name]) \in Nat
  <2>1. s \in Manager
    BY DEF Going, Reached
  <2>2. name \in Pack
    BY <2>1, ManagerFacts
  <2> QED
    BY <2>1, <2>2, PatchAssumption
<1>2. PICK v \in RemoveDependants(s, i, HooksUsed[name]) :
        u \in IF v.threw THEN {v}
              ELSE Then(SetEnabled(v, i, off), LAMBDA w :
                   Then(Send(w, PackRemoved(name)), LAMBDA y : {[y EXCEPT !.packs = RemoveAt(@, i)]}))
  BY DEF RemoveAtIndex, RemoveDependants, Then, PackRemoved
<1>a. off \in BOOLEAN
  OBVIOUS
<1>b. name = s.packs[i].name
  OBVIOUS
<1> HIDE DEF name, off
<1>c. Len(HooksUsed[name]) \in Nat
  BY <1>1
<1>d. \A hooks : Len(hooks) \in Nat => \A r \in RemoveDependants(s, i, hooks) :
        Going(x0, s0, r) /\ SameHooks(s, r) /\ r.packs = s.packs
  BY RemoveDependantsGoing
<1>3. Going(x0, s0, v) /\ SameHooks(s, v) /\ v.packs = s.packs
  BY <1>c, <1>2, <1>d
<1>4. CASE v.threw
  BY <1>2, <1>3, <1>4
<1>5. CASE ~ v.threw
  <2>1. PICK w \in SetEnabled(v, i, off) :
          u \in IF w.threw THEN {w}
                ELSE Then(Send(w, PackRemoved(name)), LAMBDA y : {[y EXCEPT !.packs = RemoveAt(@, i)]})
    BY <1>2, <1>5 DEF Then
  <2>2. Reached(x0, s0, v, Shadow(v)) /\ NamesApart(v) /\ i \in DOMAIN v.packs 
    BY <1>3 DEF Going
  <2>3. /\ Reached(x0, s0, w, Shadow(w)) /\ NamesApart(w) /\ w.hooks = v.hooks
        /\ DOMAIN w.packs = DOMAIN v.packs
        /\ \A j \in DOMAIN v.packs : w.packs[j].name = v.packs[j].name
        /\ ~ w.threw => AllCompiled(w)
    <3>1. \A r \in SetEnabled(v, i, off) :
            /\ Reached(x0, s0, r, Shadow(r)) /\ NamesApart(r) /\ r.hooks = v.hooks
            /\ DOMAIN r.packs = DOMAIN v.packs
            /\ \A j \in DOMAIN v.packs : r.packs[j].name = v.packs[j].name
            /\ ~ r.threw => AllCompiled(r)
      BY <1>5, <1>a, <2>2, SetEnabledReaches
    <3> QED
      BY <2>1, <3>1
  <2>4. CASE w.threw
    <3>1. u = w
      BY <2>1, <2>4
    <3> QED
      BY <1>3, <2>3, <2>4, <3>1 DEF Going, SameHooks
  <2>5. CASE ~ w.threw
    <3>1. w.packs[i].name = name /\ i \in DOMAIN w.packs
      BY <1>3, <1>b, <2>2, <2>3
    <3>2. PICK y \in Send(w, PackRemoved(name)) :
            u \in IF y.threw THEN {y} ELSE {[y EXCEPT !.packs = RemoveAt(@, i)]}
      BY <2>1, <2>5 DEF Then
    <3>3. ~ y.threw
      <4>1. PackRemoved(name) \in Packet /\ PackRemoved(name).type \notin {"PATCH_LIB_UNLOAD", "PATCH_LIB_LOAD"}
        BY <1>1 DEF PackRemoved, Packet
      <4> QED
        BY <2>3, <2>5, <3>2, <4>1, SendReaches
    <3>4. u = WithoutPack(y, i)
      BY <3>2, <3>3 DEF WithoutPack
    <3>5. y \in Send(w, PackRemoved(w.packs[i].name))
      BY <3>1, <3>2
    <3>6. Going(x0, s0, u) /\ u.hooks = w.hooks
      BY <2>3, <2>5, <3>1, <3>4, <3>5, PackGoneGoing
    <3> QED
      BY <1>3, <2>3, <3>6 DEF SameHooks
  <2> QED
    BY <2>4, <2>5
<1> QED
  BY <1>4, <1>5

\* A dangling iterator ends the call.
LEMMA RemoveFirstGoing ==
  ASSUME NEW x0, NEW s0, NEW s, Going(x0, s0, s), ~ s.threw, NEW h \in DOMAIN s.hooks,
         s.hooks[h].dependants # <<>>, NEW u \in RemoveFirstDependant(s, h)
  PROVE  Going(x0, s0, u) /\ SameHooks(s, u)
<1> DEFINE ds == s.hooks[h].dependants
           first == Head(ds)
           hs == WithDependants(s.hooks, h, Tail(ds))
           t == [s EXCEPT !.hooks = hs]
<1>1. s \in Manager /\ s.hooks \in Seq(HookEntry) /\ s.hooks[h] \in HookEntry
  BY ManagerFacts DEF Going, Reached
<1>2. ds \in Seq(Iterator)
  BY <1>1 DEF HookEntry
<1>3. first \in Iterator /\ Tail(ds) \in Seq(Iterator)
  BY <1>2
<1>4. t = [s EXCEPT !.hooks[h].dependants = Tail(@)]
  BY <1>1, ManagerFacts DEF WithDependants
<1>5. /\ hs \in Seq(HookEntry) /\ DOMAIN hs = DOMAIN s.hooks
      /\ \A i \in DOMAIN s.hooks : hs[i].name = s.hooks[i].name /\ hs[i].source = s.hooks[i].source
  BY <1>1, <1>3, DependantsSet, ZenonT(40)
<1>6. t = WithHooks(s, hs)
  BY DEF WithHooks
<1>7. u \in IF IsDangling(s, first) THEN {[t EXCEPT !.undefined = TRUE, !.threw = TRUE]}
            ELSE RemoveAtIndex(t, first[2])
  BY <1>4 DEF RemoveFirstDependant
<1> HIDE DEF hs, t, first
<1>8. Going(x0, s0, t) /\ SameHooks(s, t) /\ t.packs = s.packs /\ t.threw = s.threw /\ t \in Manager
  <2>1. \A r : r = WithHooks(s, hs) => /\ Going(x0, s0, r) /\ SameHooks(s, r) /\ r.packs = s.packs
                                       /\ r.threw = s.threw
    BY <1>5, HooksGoing
  <2>2. Going(x0, s0, t) /\ SameHooks(s, t) /\ t.packs = s.packs /\ t.threw = s.threw
    BY <1>6, <2>1
  <2> QED
    BY <2>2 DEF Going, Reached
<1>9. CASE IsDangling(s, first)
  <2>1. u = [t EXCEPT !.undefined = TRUE, !.threw = TRUE]
    BY <1>7, <1>9
  <2>2. u \in Manager
    BY <1>8, <2>1 DEF Manager
  <2>3. /\ u.hooks = t.hooks /\ u.packs = t.packs /\ u.threw
        /\ u.objects = t.objects /\ u.crc32 = t.crc32 /\ u.resent = t.resent
    BY <1>8, <2>1, ManagerFacts
  <2>4. NamesApart(u) /\ SameHooks(s, u)
    BY <1>8, <2>3 DEF Going, NamesApart, SameHooks
  <2>5. Reached(x0, s0, u, Shadow(u))
    BY <1>8, <2>2, <2>3, ThrowReaches DEF Going
  <2> QED
    BY <2>3, <2>4, <2>5 DEF Going
<1>10. CASE ~ IsDangling(s, first)
  <2>1. first[2] \in DOMAIN t.packs
    BY <1>1, <1>3, <1>8, <1>10, ManagerFacts DEF IsDangling, Iterator
  <2>2. u \in RemoveAtIndex(t, first[2])
    BY <1>7, <1>10
  <2>3. Going(x0, s0, u) /\ SameHooks(t, u)
    BY <1>8, <2>1, <2>2, RemoveAtIndexGoing
  <2> QED
    BY <1>8, <2>3 DEF SameHooks
<1> QED
  BY <1>9, <1>10

FirstGoing(t, h) == IF t.hooks[h].dependants = <<>> THEN {t} ELSE RemoveFirstDependant(t, h)
FirstLoop == INSTANCE LoopProofs WITH Body <- FirstGoing

RemoveAllDependants(s, h) ==
  Repeat(s, Len(s.hooks[h].dependants), LAMBDA t : t.hooks[h].dependants = <<>>,
         LAMBDA t : RemoveFirstDependant(t, h))

LEMMA RemoveAllDependantsGoing ==
  ASSUME NEW x0, NEW s0, NEW s, Going(x0, s0, s), ~ s.threw, NEW h \in DOMAIN s.hooks,
         NEW u \in RemoveAllDependants(s, h)
  PROVE  Going(x0, s0, u) /\ SameHooks(s, u)
<1> DEFINE n == Len(s.hooks[h].dependants)
           ks == [i \in 1..n |-> i]
           xs == [i \in 1..n |-> h]
           Like == {t \in Manager : Going(x0, s0, t) /\ SameHooks(s, t)}
           Good == [k \in 0..n |-> Like]
           Step(after, j) ==
             UNION {IF t.threw THEN {t}
                    ELSE IF t.hooks[h].dependants = <<>> THEN {t} ELSE RemoveFirstDependant(t, h) :
                    t \in after[j - 1]}
<1>1. s \in Like /\ n \in Nat
  <2>1. s \in Manager /\ s.hooks[h] \in HookEntry
    BY ManagerFacts DEF Going, Reached
  <2>2. \A entry \in HookEntry : Len(entry.dependants) \in Nat
    BY DEF HookEntry
  <2> QED
    BY <2>1, <2>2 DEF SameHooks
<1>2. Len(xs) = n /\ (\A j \in 1..n : xs[j] = h) /\ Len(ks) = n
  BY <1>1
<1> HIDE DEF xs, n, ks
<1>3. ASSUME NEW j \in 1..n, NEW r \in Like
      PROVE  FirstLoop!Pass(r, xs[j]) \subseteq Like
  <2>1. CASE r.threw \/ r.hooks[h].dependants = <<>>
    BY <1>2, <1>3, <2>1 DEF FirstLoop!Pass, FirstGoing
  <2>2. CASE ~ r.threw /\ r.hooks[h].dependants # <<>>
    <3>1. SUFFICES ASSUME NEW t \in RemoveFirstDependant(r, h) PROVE t \in Like
      BY <1>2, <2>2 DEF FirstLoop!Pass, FirstGoing
    <3>2. h \in DOMAIN r.hooks
      BY <1>3 DEF SameHooks
    <3>3. Going(x0, s0, t) /\ SameHooks(r, t)
      BY <1>3, <2>2, <3>1, <3>2, RemoveFirstGoing
    <3> QED
      BY <1>3, <3>3 DEF SameHooks, Going, Reached
  <2> QED
    BY <2>1, <2>2
<1> HIDE DEF Like
<1>4. \A j \in 1..n : \A t \in Good[j - 1] : FirstLoop!Pass(t, xs[j]) \subseteq Good[j]
  <2>1. ASSUME NEW j \in 1..n PROVE j - 1 \in 0..n /\ j \in 0..n
    BY <1>1
  <2> QED
    BY <1>3, <2>1
<1>5. s \in Good[0] /\ Good[n] = Like
  BY <1>1
<1> HIDE DEF Good
<1>6. \E after : after = FirstLoop!After(s, xs, after)
  BY <1>1, <1>2, FirstLoop!LoopDefined
<1>7. \A after : after = FirstLoop!After(s, xs, after) => after[n] \subseteq Good[n]
  BY <1>1, <1>2, <1>4, <1>5, FirstLoop!LoopKeeps
<1>8. ASSUME NEW after
      PROVE  FirstLoop!After(s, xs, after) = [j \in 0..n |-> IF j = 0 THEN {s} ELSE Step(after, j)]
  <2>1. ASSUME NEW j \in 0..n, j # 0
        PROVE  Step(after, j)
                 = UNION {IF t.threw THEN {t} ELSE FirstGoing(t, xs[j]) : t \in after[j - 1]}
    <3>1. xs[j] = h
      BY <1>1, <1>2, <2>1
    <3> QED
      BY <3>1 DEF FirstGoing
  <2> HIDE DEF Step
  <2> QED
    BY <1>2, <2>1 DEF FirstLoop!After
<1>9. RemoveAllDependants(s, h) \subseteq Like
  <2> DEFINE F(after) == [j \in 0..n |-> IF j = 0 THEN {s} ELSE Step(after, j)]
             c == CHOOSE after : after = F(after)
  <2>1. RemoveAllDependants(s, h) = c[n]
    <3>1. RemoveAllDependants(s, h)
            = (CHOOSE after : after = [j \in 0..Len(ks) |-> IF j = 0 THEN {s} ELSE Step(after, j)])[Len(ks)]
      BY DEF RemoveAllDependants, Repeat, ForEach, Then, n, ks
    <3> QED
      BY <1>2, <3>1
  <2> HIDE DEF Step
  <2>2. \A after : FirstLoop!After(s, xs, after) = F(after)
    BY <1>8
  <2> HIDE DEF F
  <2>3. \E after : after = F(after)
    BY <1>6, <2>2
  <2>4. c = F(c)
    BY <2>3
  <2> HIDE DEF c
  <2>5. c[n] \subseteq Good[n]
    BY <1>7, <2>2, <2>4
  <2> QED
    BY <1>5, <2>1, <2>5
<1> QED
  BY <1>9 DEF Like

\* What a core has of the hooks when one of them is removed.
LEMMA HookRemovedTold ==
  ASSUME NEW hooks \in Seq(HookEntry), Apart(hooks), NEW h \in DOMAIN hooks,
         NEW q, q = RemoveAt(hooks, h)
  PROVE  /\ q \in Seq(HookEntry) /\ Apart(q)
         /\ \A i \in DOMAIN q : \E k \in DOMAIN hooks : q[i] = hooks[k]
         /\ WithoutHook(HooksTold(hooks), hooks[h].name) = HooksTold(q)
<1> DEFINE n == Len(hooks)
           told == HooksTold(hooks)
<1>1. n \in Nat /\ DOMAIN hooks = 1..n /\ h \in 1..n /\ \A k \in 1..n : hooks[k] \in HookEntry
  OBVIOUS
<1>2. /\ q \in Seq(HookEntry) /\ DOMAIN q = 1..(n - 1)
      /\ \A j \in 1..(n - 1) : q[j] = IF j < h THEN hooks[j] ELSE hooks[j + 1]
  BY RemoveAtFacts
<1> HIDE DEF n
<1>3. ASSUME NEW j \in 1..(n - 1) PROVE (j < h => j \in 1..n) /\ (~ (j < h) => j + 1 \in 1..n)
  BY <1>1
<1>4. \A i \in DOMAIN q : \E k \in DOMAIN hooks : q[i] = hooks[k]
  BY <1>1, <1>2, <1>3
<1>5. Apart(q)
  <2>1. ASSUME NEW a \in 1..(n - 1), NEW b \in 1..(n - 1), q[a].name = q[b].name PROVE a = b
    <3>1. PICK k \in 1..n : q[a] = hooks[k] /\ k = IF a < h THEN a ELSE a + 1
      BY <1>2, <1>3
    <3>2. PICK l \in 1..n : q[b] = hooks[l] /\ l = IF b < h THEN b ELSE b + 1
      BY <1>2, <1>3
    <3>3. k = l
      BY <1>1, <2>1, <3>1, <3>2 DEF Apart
    <3> QED
      BY <1>1, <3>1, <3>2, <3>3
  <2> QED
    BY <1>2, <2>1 DEF Apart
<1>6. /\ told \in Seq(ShadowHook) /\ Len(told) = n /\ DOMAIN told = 1..n
      /\ \A k \in 1..n : told[k] = [name |-> hooks[k].name, source |-> hooks[k].source]
  <2>1. \A k \in 1..n : [name |-> hooks[k].name, source |-> hooks[k].source] \in ShadowHook
    BY <1>1 DEF HookEntry, ShadowHook
  <2> QED
    BY <1>1, <2>1 DEF HooksTold
<1> HIDE DEF told
<1>7. Loader!NamedIn(told, hooks[h].name) = {h}
  <2>1. \A k \in 1..n : told[k].name = hooks[h].name <=> k = h
    BY <1>1, <1>6 DEF Apart
  <2> QED
    BY <1>1, <1>6, <2>1 DEF Loader!NamedIn
<1>8. Loader!FirstNamed(told, hooks[h].name) = h
  BY <1>1, <1>7 DEF Loader!FirstNamed
<1>9. WithoutHook(told, hooks[h].name) = RemoveAt(told, h)
  BY <1>7, <1>8 DEF WithoutHook
<1>10. /\ RemoveAt(told, h) \in Seq(ShadowHook) /\ DOMAIN RemoveAt(told, h) = 1..(n - 1)
       /\ \A j \in 1..(n - 1) : RemoveAt(told, h)[j] = IF j < h THEN told[j] ELSE told[j + 1]
  BY <1>1, <1>6, RemoveAtFacts, ZenonT(40)
<1>11. \A j \in 1..(n - 1) : RemoveAt(told, h)[j] = [name |-> q[j].name, source |-> q[j].source]
  BY <1>2, <1>3, <1>6, <1>10
<1>12. RemoveAt(told, h) = HooksTold(q)
  <2>1. RemoveAt(told, h) = [j \in 1..(n - 1) |-> RemoveAt(told, h)[j]]
    BY <1>10
  <2> QED
    BY <1>2, <1>11, <2>1 DEF HooksTold
<1> QED
  BY <1>2, <1>4, <1>5, <1>9, <1>12 DEF told

LEMMA ToldHookRemoved ==
  ASSUME NEW hooks, NEW packs, NEW name
  PROVE  Told([hooks |-> hooks, enabled |-> packs], HookRemoved(name))
           = [hooks |-> WithoutHook(hooks, name), enabled |-> packs]
BY DEF Told, HookRemoved

LEMMA UnregisterGoing ==
  ASSUME NEW x0, NEW s0, NEW s, Going(x0, s0, s), ~ s.threw, NEW h \in DOMAIN s.hooks,
         NEW u \in UnregisterAtIndex(s, h)
  PROVE  Going(x0, s0, u)
<1>1. PICK v \in RemoveAllDependants(s, h) :
        u \in IF v.threw THEN {v}
              ELSE Then(Send(v, HookRemoved(v.hooks[h].name)), LAMBDA y : {[y EXCEPT !.hooks = RemoveAt(@, h)]})
  BY DEF UnregisterAtIndex, RemoveAllDependants, Then, HookRemoved
<1>2. Going(x0, s0, v) /\ SameHooks(s, v)
  BY <1>1, RemoveAllDependantsGoing
<1>3. CASE v.threw
  BY <1>1, <1>2, <1>3
<1>4. CASE ~ v.threw
  <2> DEFINE name == v.hooks[h].name
             q == RemoveAt(v.hooks, h)
  <2>1. /\ v \in Manager /\ v.hooks \in Seq(HookEntry) /\ Apart(v.hooks) /\ Apart(v.packs)
        /\ h \in DOMAIN v.hooks
    BY <1>2, ManagerFacts DEF Going, Reached, NamesApart, SameHooks
  <2>2. name \in Hook
    BY <2>1, ManagerFacts
  <2>3. HookRemoved(name) \in Packet /\ HookRemoved(name).type \notin {"PATCH_LIB_UNLOAD", "PATCH_LIB_LOAD"}
    BY <2>2 DEF HookRemoved, Packet
  <2>4. /\ q \in Seq(HookEntry) /\ Apart(q)
        /\ \A i \in DOMAIN q : \E k \in DOMAIN v.hooks : q[i] = v.hooks[k]
        /\ WithoutHook(HooksTold(v.hooks), name) = HooksTold(q)
    BY <2>1, HookRemovedTold
  <2> HIDE DEF name, q
  <2>5. PICK y \in Send(v, HookRemoved(name)) : u \in IF y.threw THEN {y} ELSE {[y EXCEPT !.hooks = RemoveAt(@, h)]}
    BY <1>1, <1>4 DEF Then, name
  <2>6. /\ Reached(x0, s0, y, Told(Shadow(v), HookRemoved(name))) /\ SameLists(v, y) /\ ~ y.threw
        /\ AllCompiled(v) => AllCompiled(y)
    BY <1>2, <1>4, <2>3, <2>5, SendReaches DEF Going
  <2>7. y \in Manager /\ y.packs = v.packs /\ y.hooks = v.hooks /\ u = [y EXCEPT !.hooks = q]
    BY <2>5, <2>6 DEF Reached, SameLists, q
  <2>8. u \in Manager
    BY <2>4, <2>7 DEF Manager
  <2>9. /\ u.hooks = q /\ u.packs = v.packs
        /\ u.sent = y.sent /\ u.objects = y.objects /\ u.library = y.library /\ u.crc32 = y.crc32
        /\ u.threw = y.threw /\ u.resent = y.resent
    BY <2>7, ManagerFacts
  <2>10. Told(Shadow(v), HookRemoved(name)) = Shadow(u)
    <3>1. Told(Shadow(v), HookRemoved(name))
            = [hooks |-> WithoutHook(HooksTold(v.hooks), name), enabled |-> EnabledIn(v.packs)]
      BY ToldHookRemoved DEF Shadow
    <3> QED
      BY <2>4, <2>9, <3>1 DEF Shadow
  <2>11. Reached(x0, s0, u, Shadow(u))
    BY <2>6, <2>8, <2>9, <2>10, EditReaches
  <2>12. NamesApart(u)
    BY <2>1, <2>4, <2>9 DEF NamesApart
  <2>13. AllCompiled(y) => AllCompiled(u)
    BY <2>4, <2>7, <2>9 DEF AllCompiled, IsSkipped
  <2> QED
    BY <1>2, <1>4, <2>6, <2>11, <2>12, <2>13 DEF Going
<1> QED
  BY <1>3, <1>4

LEMMA ToldHook ==
  ASSUME NEW hooks, NEW packs, NEW hook \in HookEntry
  PROVE  Told([hooks |-> hooks, enabled |-> packs], HookPacket(hook))
           = [hooks |-> Append(hooks, [name |-> hook.name, source |-> hook.source]), enabled |-> packs]
BY DEF Told, HookPacket, HookEntry

LEMMA HookAddedTold ==
  ASSUME NEW hooks \in Seq(HookEntry), Apart(hooks), NEW hook \in HookEntry,
         Named(hooks, hook.name) = {}, NEW q, q = Append(hooks, hook)
  PROVE  /\ q \in Seq(HookEntry) /\ Apart(q)
         /\ HooksTold(q) = Append(HooksTold(hooks), [name |-> hook.name, source |-> hook.source])
<1> DEFINE n == Len(hooks)
           told == HooksTold(hooks)
           entry == [name |-> hook.name, source |-> hook.source]
<1>1. n \in Nat /\ DOMAIN hooks = 1..n /\ \A k \in 1..n : hooks[k] \in HookEntry
  OBVIOUS
<1>2. /\ q \in Seq(HookEntry) /\ DOMAIN q = 1..(n + 1) /\ q[n + 1] = hook
      /\ \A k \in 1..n : q[k] = hooks[k]
  OBVIOUS
<1> HIDE DEF n
<1>3. ASSUME NEW k \in 1..(n + 1) PROVE k \in 1..n \/ k = n + 1
  BY <1>1
<1>4. \A k \in 1..n : hooks[k].name # hook.name
  BY <1>1 DEF Named
<1>5. Apart(q)
  <2>1. ASSUME NEW a \in 1..(n + 1), NEW b \in 1..(n + 1), q[a].name = q[b].name PROVE a = b
    BY <1>1, <1>2, <1>3, <1>4, <2>1 DEF Apart
  <2> QED
    BY <1>2, <2>1 DEF Apart
<1>6. told = [k \in 1..n |-> [name |-> hooks[k].name, source |-> hooks[k].source]]
  BY <1>1 DEF HooksTold
<1>7. told \in Seq(ShadowHook) /\ Len(told) = n /\ entry \in ShadowHook
  <2>1. \A k \in 1..n : [name |-> hooks[k].name, source |-> hooks[k].source] \in ShadowHook
    BY <1>1 DEF HookEntry, ShadowHook
  <2>2. entry \in ShadowHook
    BY DEF HookEntry, ShadowHook
  <2> QED
    BY <1>1, <1>6, <2>1, <2>2
<1> HIDE DEF told, entry
<1>8. /\ DOMAIN Append(told, entry) = 1..(n + 1) /\ Append(told, entry)[n + 1] = entry
      /\ \A k \in 1..n : Append(told, entry)[k] = told[k]
      /\ Append(told, entry) = [k \in 1..(n + 1) |-> Append(told, entry)[k]]
  <2>1. /\ Append(told, entry) \in Seq(ShadowHook) /\ Len(Append(told, entry)) = n + 1
        /\ Append(told, entry)[n + 1] = entry /\ \A k \in 1..n : Append(told, entry)[k] = told[k]
    BY <1>1, <1>7
  <2>2. \A z \in Seq(ShadowHook) : DOMAIN z = 1..Len(z) /\ z = [k \in 1..Len(z) |-> z[k]]
    OBVIOUS
  <2> QED
    BY <2>1, <2>2
<1>9. \A k \in 1..(n + 1) : Append(told, entry)[k] = [name |-> q[k].name, source |-> q[k].source]
  <2>1. \A k \in 1..n : told[k] = [name |-> hooks[k].name, source |-> hooks[k].source]
    BY <1>6
  <2> QED
    BY <1>2, <1>3, <1>8, <2>1 DEF entry
<1>10. HooksTold(q) = Append(told, entry)
  BY <1>2, <1>8, <1>9 DEF HooksTold
<1> QED
  BY <1>2, <1>5, <1>10 DEF told, entry

LEMMA RegisterGoing ==
  ASSUME NEW x0, NEW s0, NEW s, Going(x0, s0, s), ~ s.threw, NEW name \in Hook, NEW source \in Source,
         NEW u \in RegisterHook(s, name, source)
  PROVE  Going(x0, s0, u)
<1> DEFINE hook == [name |-> name, source |-> source, dependants |-> <<>>]
           q == Append(s.hooks, hook)
           r == WithHooks(s, q)
<1>1. CASE Named(s.hooks, name) # {}
  BY <1>1, ThrowsGoing DEF RegisterHook
<1>2. CASE Named(s.hooks, name) = {}
  <2>1. hook \in HookEntry /\ hook.name = name /\ hook.source = source
    BY DEF HookEntry
  <2>2. u \in UpdateCoresAboutHook(r, hook)
    BY <1>2 DEF RegisterHook, WithHooks
  <2>3. s \in Manager /\ s.hooks \in Seq(HookEntry) /\ Apart(s.hooks) /\ Apart(s.packs)
    BY ManagerFacts DEF Going, Reached, NamesApart
  <2>4. Named(s.hooks, hook.name) = {}
    BY <1>2
  <2> HIDE DEF hook
  <2>5. /\ q \in Seq(HookEntry) /\ Apart(q)
        /\ HooksTold(q) = Append(HooksTold(s.hooks), [name |-> hook.name, source |-> hook.source])
    BY <2>1, <2>3, <2>4, HookAddedTold
  <2> HIDE DEF q
  <2>6. r \in Manager
    BY <2>3, <2>5 DEF Manager, WithHooks
  <2>7. /\ r.hooks = q /\ r.packs = s.packs
        /\ r.sent = s.sent /\ r.objects = s.objects /\ r.library = s.library /\ r.crc32 = s.crc32
        /\ r.threw = s.threw /\ r.resent = s.resent
    BY <2>3, ManagerFacts DEF WithHooks
  <2> HIDE DEF r
  <2>8. Reached(x0, s0, r, Shadow(s)) /\ NamesApart(r) /\ ~ r.threw
    BY <2>3, <2>5, <2>6, <2>7, EditReaches DEF Going, NamesApart
  <2>9. /\ Reached(x0, s0, u, Told(Shadow(s), HookPacket(hook))) /\ SameLists(r, u)
        /\ ~ u.threw => AllCompiled(u)
    BY <2>1, <2>2, <2>8, UpdateHookReaches
  <2>10. u.hooks = q /\ u.packs = s.packs
    BY <2>7, <2>9 DEF SameLists
  <2>11. Told(Shadow(s), HookPacket(hook)) = Shadow(u)
    <3>1. Told(Shadow(s), HookPacket(hook))
            = [hooks |-> Append(HooksTold(s.hooks), [name |-> hook.name, source |-> hook.source]),
               enabled |-> EnabledIn(s.packs)]
      BY <2>1, ToldHook DEF Shadow
    <3> QED
      BY <2>5, <2>10, <3>1 DEF Shadow
  <2>12. NamesApart(u)
    BY <2>3, <2>5, <2>10 DEF NamesApart
  <2> QED
    BY <2>9, <2>11, <2>12 DEF Going
<1> QED
  BY <1>1, <1>2

LEMMA AddDependantsGoing ==
  ASSUME NEW x0, NEW s0, NEW s, Going(x0, s0, s), NEW used \in Seq(Hook), NEW iterator \in Iterator,
         NEW u \in AddDependants(s, used, iterator)
  PROVE  Going(x0, s0, u)
<1> DEFINE more(i) == [j \in 1..Cardinality({k \in DOMAIN used : used[k] = s.hooks[i].name}) |-> iterator]
           hs == [i \in DOMAIN s.hooks |->
                    [s.hooks[i] EXCEPT !.dependants = s.hooks[i].dependants \o more(i)]]
<1>1. s \in Manager /\ s.hooks \in Seq(HookEntry)
  BY ManagerFacts DEF Going, Reached
<1>2. u = WithHooks(s, hs)
  BY DEF AddDependants, WithHooks
<1>3. ASSUME NEW i \in DOMAIN s.hooks PROVE more(i) \in Seq(Iterator)
  <2> DEFINE K == {k \in DOMAIN used : used[k] = s.hooks[i].name}
  <2>1. DOMAIN used = 1..Len(used) /\ Len(used) \in Nat
    OBVIOUS
  <2>2. IsFiniteSet(DOMAIN used) /\ K \subseteq DOMAIN used
    BY <2>1, FS_Interval
  <2>3. IsFiniteSet(K)
    BY <2>2, FS_Subset
  <2> HIDE DEF K
  <2>4. Cardinality(K) \in Nat
    BY <2>3, FS_CardinalityType
  <2>5. [j \in 1..Cardinality(K) |-> iterator] \in Seq(Iterator)
    BY <2>4
  <2> QED
    BY <2>5 DEF K
<1> HIDE DEF more
<1>4. ASSUME NEW i \in DOMAIN s.hooks
      PROVE  /\ hs[i] \in HookEntry /\ hs[i].name = s.hooks[i].name /\ hs[i].source = s.hooks[i].source
  <2>1. s.hooks[i] \in HookEntry
    BY <1>1
  <2>2. \A entry \in HookEntry : entry.dependants \in Seq(Iterator)
    BY DEF HookEntry
  <2>3. s.hooks[i].dependants \o more(i) \in Seq(Iterator)
    BY <1>3, <2>1, <2>2, ConcatProperties
  <2>4. \A entry \in HookEntry, d \in Seq(Iterator) :
          LET e == [entry EXCEPT !.dependants = d] IN
          e \in HookEntry /\ e.name = entry.name /\ e.source = entry.source
    BY DEF HookEntry
  <2> QED
    BY <2>1, <2>3, <2>4
<1>5. DOMAIN hs = DOMAIN s.hooks
  OBVIOUS
<1> HIDE DEF hs
<1>6. hs \in Seq(HookEntry)
  <2>1. Len(s.hooks) \in Nat /\ DOMAIN s.hooks = 1..Len(s.hooks)
    BY <1>1
  <2>2. hs = [i \in 1..Len(s.hooks) |-> hs[i]]
    BY <2>1 DEF hs
  <2>3. \A i \in 1..Len(s.hooks) : hs[i] \in HookEntry
    BY <1>4, <2>1
  <2>4. \A m \in Nat : \A f : (f = [i \in 1..m |-> f[i]]) /\ (\A i \in 1..m : f[i] \in HookEntry) => f \in Seq(HookEntry)
    OBVIOUS
  <2> QED
    BY <2>1, <2>2, <2>3, <2>4
<1>7. \A r : r = WithHooks(s, hs) => Going(x0, s0, r)
  BY <1>4, <1>5, <1>6, HooksGoing
<1> QED
  BY <1>2, <1>7

LEMMA AddGoing ==
  ASSUME NEW x0, NEW s0, NEW s, Going(x0, s0, s), ~ s.threw, NEW name \in Pack,
         NEW u \in AddPatchPack(s, name)
  PROVE  Going(x0, s0, u)
<1> DEFINE n == Len(s.packs) + 1
           pack == [name |-> name, enabled |-> FALSE]
           q == Append(s.packs, pack)
           c == Grown(s.capacity, n)
           t == [s EXCEPT !.packs = q, !.capacity = c]
           on == TRUE
<1>1. \/ u = Throws(s)
      \/ /\ Named(s.packs, name) = {}
         /\ u \in Then(IF name \in DefaultEnabled THEN SetEnabled(t, n, on) ELSE {t},
                       LAMBDA v : AddDependants(v, HooksUsed[name], <<v.capacity, n>>))
  BY DEF AddPatchPack
<1>2. CASE u = Throws(s)
  BY <1>2, ThrowsGoing
<1>3. CASE /\ Named(s.packs, name) = {}
           /\ u \in Then(IF name \in DefaultEnabled THEN SetEnabled(t, n, on) ELSE {t},
                         LAMBDA v : AddDependants(v, HooksUsed[name], <<v.capacity, n>>))
  <2>1. /\ s \in Manager /\ s.packs \in Seq(PackEntry) /\ Apart(s.hooks) /\ Apart(s.packs)
        /\ s.capacity \in Nat /\ n \in Nat \ {0}
    BY ManagerFacts DEF Going, Reached, NamesApart
  <2>2. pack \in PackEntry /\ pack.name = name /\ ~ pack.enabled
    BY DEF PackEntry
  <2>3. Named(s.packs, pack.name) = {}
    BY <1>3
  <2>4. on \in BOOLEAN
    OBVIOUS
  <2> HIDE DEF pack, on
  <2>5. q \in Seq(PackEntry) /\ Apart(q) /\ EnabledIn(q) = EnabledIn(s.packs) /\ n \in DOMAIN q
    <3>1. \A packs \in Seq(PackEntry), p \in PackEntry :
            Apart(packs) /\ Named(packs, p.name) = {} /\ ~ p.enabled =>
              /\ Append(packs, p) \in Seq(PackEntry) /\ Apart(Append(packs, p))
              /\ EnabledIn(Append(packs, p)) = EnabledIn(packs)
              /\ Len(packs) + 1 \in DOMAIN Append(packs, p)
      BY EntryAdded, ZenonT(40)
    <3> QED
      BY <2>1, <2>2, <2>3, <3>1
  <2>6. c \in Nat
    BY <2>1 DEF Grown
  <2> HIDE DEF q, c, n
  <2>7. t \in Manager
    BY <2>1, <2>5, <2>6 DEF Manager
  <2>8. /\ t.packs = q /\ t.hooks = s.hooks /\ t.capacity = c
        /\ t.sent = s.sent /\ t.objects = s.objects /\ t.library = s.library /\ t.crc32 = s.crc32
        /\ t.threw = s.threw /\ t.resent = s.resent
    BY <2>1, ManagerFacts
  <2> HIDE DEF t
  <2>9. Shadow(t) = Shadow(s)
    BY <2>5, <2>8 DEF Shadow
  <2>10. NamesApart(t) /\ (AllCompiled(s) => AllCompiled(t))
    BY <2>1, <2>5, <2>8 DEF NamesApart, AllCompiled, IsSkipped
  <2>11. Going(x0, s0, t) /\ ~ t.threw
    BY <2>7, <2>8, <2>9, <2>10, EditReaches DEF Going
  <2>12. PICK v \in (IF name \in DefaultEnabled THEN SetEnabled(t, n, on) ELSE {t}) :
           u \in IF v.threw THEN {v} ELSE AddDependants(v, HooksUsed[name], <<v.capacity, n>>)
    BY <1>3 DEF Then
  <2>13. Going(x0, s0, v) /\ v.capacity = t.capacity
    <3>1. CASE v = t
      BY <2>11, <3>1
    <3>2. CASE v \in SetEnabled(t, n, on)
      <4>1. \A r \in SetEnabled(t, n, on) :
              /\ Reached(x0, s0, r, Shadow(r)) /\ NamesApart(r) /\ r.capacity = t.capacity
              /\ ~ r.threw => AllCompiled(r)
        BY <2>4, <2>5, <2>8, <2>11, SetEnabledReaches DEF Going
      <4> QED
        BY <3>2, <4>1 DEF Going
    <3> QED
      BY <2>12, <3>1, <3>2
  <2>14. CASE v.threw
    BY <2>12, <2>13, <2>14
  <2>15. CASE ~ v.threw
    <3>1. u \in AddDependants(v, HooksUsed[name], <<v.capacity, n>>)
      BY <2>12, <2>15
    <3>2. <<v.capacity, n>> \in Iterator
      BY <2>1, <2>6, <2>8, <2>13 DEF Iterator
    <3>3. HooksUsed[name] \in Seq(Hook)
      BY PatchAssumption
    <3> QED
      BY <2>13, <3>1, <3>2, <3>3, AddDependantsGoing
  <2> QED
    BY <2>14, <2>15
<1> QED
  BY <1>1, <1>2, <1>3

Unregistering(t, i) == IF t.hooks = <<>> THEN {t} ELSE UnregisterAtIndex(t, 1)
UnregisterLoop == INSTANCE LoopProofs WITH Body <- Unregistering

LEMMA UnregisterAllHooksGoing ==
  ASSUME NEW x0, NEW s0, NEW s, Going(x0, s0, s), ~ s.threw, NEW u \in UnregisterAllHooks(s)
  PROVE  Going(x0, s0, u)
<1> DEFINE n == Len(s.hooks)
           xs == [i \in 1..n |-> i]
           Like == {t \in Manager : Going(x0, s0, t)}
           Good == [k \in 0..n |-> Like]
<1>1. s \in Like /\ n \in Nat
  BY ManagerFacts DEF Going, Reached
<1>2. Len(xs) = n
  BY <1>1
<1> HIDE DEF xs, n
<1>3. ASSUME NEW j \in 1..n, NEW r \in Like
      PROVE  UnregisterLoop!Pass(r, xs[j]) \subseteq Like
  <2>1. CASE r.threw \/ r.hooks = <<>>
    BY <1>3, <2>1 DEF UnregisterLoop!Pass, Unregistering
  <2>2. CASE ~ r.threw /\ r.hooks # <<>>
    <3>1. SUFFICES ASSUME NEW t \in UnregisterAtIndex(r, 1) PROVE t \in Like
      BY <2>2 DEF UnregisterLoop!Pass, Unregistering
    <3>2. 1 \in DOMAIN r.hooks
      BY <1>3, <2>2, ManagerFacts
    <3>3. Going(x0, s0, t)
      BY <1>3, <2>2, <3>1, <3>2, UnregisterGoing
    <3> QED
      BY <3>3 DEF Going, Reached
  <2> QED
    BY <2>1, <2>2
<1> HIDE DEF Like
<1>4. \A j \in 1..n : \A t \in Good[j - 1] : UnregisterLoop!Pass(t, xs[j]) \subseteq Good[j]
  <2>1. ASSUME NEW j \in 1..n PROVE j - 1 \in 0..n /\ j \in 0..n
    BY <1>1
  <2> QED
    BY <1>3, <2>1
<1>5. s \in Good[0] /\ Good[n] = Like
  BY <1>1
<1> HIDE DEF Good
<1>6. \E after : after = UnregisterLoop!After(s, xs, after)
  BY <1>1, <1>2, UnregisterLoop!LoopDefined
<1>7. \A after : after = UnregisterLoop!After(s, xs, after) => after[n] \subseteq Good[n]
  BY <1>1, <1>2, <1>4, <1>5, UnregisterLoop!LoopKeeps
<1>8. UnregisterAllHooks(s) \subseteq Good[Len(xs)]
  BY <1>2, <1>6, <1>7 DEF UnregisterAllHooks, Repeat, ForEach, Then, Unregistering, n, UnregisterLoop!After, xs
<1> QED
  BY <1>2, <1>5, <1>8 DEF Like

Removing(t, i) == IF t.packs = <<>> THEN {t} ELSE RemoveAtIndex(t, 1)
RemoveLoop == INSTANCE LoopProofs WITH Body <- Removing

LEMMA RemoveAllPatchPacksGoing ==
  ASSUME NEW x0, NEW s0, NEW s, Going(x0, s0, s), ~ s.threw, NEW u \in RemoveAllPatchPacks(s)
  PROVE  Going(x0, s0, u)
<1> DEFINE n == Len(s.packs)
           xs == [i \in 1..n |-> i]
           Like == {t \in Manager : Going(x0, s0, t)}
           Good == [k \in 0..n |-> Like]
<1>1. s \in Like /\ n \in Nat
  BY ManagerFacts DEF Going, Reached
<1>2. Len(xs) = n
  BY <1>1
<1> HIDE DEF xs, n
<1>3. ASSUME NEW j \in 1..n, NEW r \in Like
      PROVE  RemoveLoop!Pass(r, xs[j]) \subseteq Like
  <2>1. CASE r.threw \/ r.packs = <<>>
    BY <1>3, <2>1 DEF RemoveLoop!Pass, Removing
  <2>2. CASE ~ r.threw /\ r.packs # <<>>
    <3>1. SUFFICES ASSUME NEW t \in RemoveAtIndex(r, 1) PROVE t \in Like
      BY <2>2 DEF RemoveLoop!Pass, Removing
    <3>2. 1 \in DOMAIN r.packs
      BY <1>3, <2>2, ManagerFacts
    <3>3. Going(x0, s0, t)
      BY <1>3, <2>2, <3>1, <3>2, RemoveAtIndexGoing
    <3> QED
      BY <3>3 DEF Going, Reached
  <2> QED
    BY <2>1, <2>2
<1> HIDE DEF Like
<1>4. \A j \in 1..n : \A t \in Good[j - 1] : RemoveLoop!Pass(t, xs[j]) \subseteq Good[j]
  <2>1. ASSUME NEW j \in 1..n PROVE j - 1 \in 0..n /\ j \in 0..n
    BY <1>1
  <2> QED
    BY <1>3, <2>1
<1>5. s \in Good[0] /\ Good[n] = Like
  BY <1>1
<1> HIDE DEF Good
<1>6. \E after : after = RemoveLoop!After(s, xs, after)
  BY <1>1, <1>2, RemoveLoop!LoopDefined
<1>7. \A after : after = RemoveLoop!After(s, xs, after) => after[n] \subseteq Good[n]
  BY <1>1, <1>2, <1>4, <1>5, RemoveLoop!LoopKeeps
<1>8. RemoveAllPatchPacks(s) \subseteq Good[Len(xs)]
  BY <1>2, <1>6, <1>7 DEF RemoveAllPatchPacks, Repeat, ForEach, Then, Removing, n, RemoveLoop!After, xs
<1> QED
  BY <1>2, <1>5, <1>8 DEF Like

Enabling(t, x) == SetEnabled(t, x[1], x[2])
EnableLoop == INSTANCE LoopProofs WITH Body <- Enabling

LEMMA EnableAllGoing ==
  ASSUME NEW x0, NEW s0, NEW s, Going(x0, s0, s), ~ s.threw, NEW e \in BOOLEAN,
         NEW u \in EnableAllPatchPacks(s, e)
  PROVE  Going(x0, s0, u)
<1> DEFINE n == Len(s.packs)
           ks == [i \in DOMAIN s.packs |-> i]
           xs == [i \in 1..n |-> <<i, e>>]
           Like == {t \in Manager : Going(x0, s0, t) /\ DOMAIN t.packs = DOMAIN s.packs}
           Good == [k \in 0..n |-> Like]
           Step(after, j) == UNION {IF t.threw THEN {t} ELSE SetEnabled(t, ks[j], e) : t \in after[j - 1]}
<1>1. s \in Like /\ n \in Nat /\ DOMAIN s.packs = 1..n
  BY ManagerFacts DEF Going, Reached
<1>2. Len(xs) = n /\ (\A j \in 1..n : xs[j] = <<j, e>> /\ ks[j] = j) /\ Len(ks) = n
  BY <1>1, IndicesFacts
<1> HIDE DEF xs, n, ks
<1>3. ASSUME NEW j \in 1..n, NEW r \in Like
      PROVE  EnableLoop!Pass(r, xs[j]) \subseteq Like
  <2>1. CASE r.threw
    BY <1>3, <2>1 DEF EnableLoop!Pass
  <2>2. CASE ~ r.threw
    <3>1. SUFFICES ASSUME NEW t \in SetEnabled(r, j, e) PROVE t \in Like
      BY <1>2, <2>2 DEF EnableLoop!Pass, Enabling
    <3>2. j \in DOMAIN r.packs
      BY <1>1, <1>3
    <3>3. /\ Reached(x0, s0, t, Shadow(t)) /\ NamesApart(t) /\ DOMAIN t.packs = DOMAIN r.packs
          /\ ~ t.threw => AllCompiled(t)
      BY <1>3, <2>2, <3>1, <3>2, SetEnabledReaches DEF Going
    <3> QED
      BY <1>3, <3>3 DEF Going, Reached
  <2> QED
    BY <2>1, <2>2
<1> HIDE DEF Like
<1>4. \A j \in 1..n : \A t \in Good[j - 1] : EnableLoop!Pass(t, xs[j]) \subseteq Good[j]
  <2>1. ASSUME NEW j \in 1..n PROVE j - 1 \in 0..n /\ j \in 0..n
    BY <1>1
  <2> QED
    BY <1>3, <2>1
<1>5. s \in Good[0] /\ Good[n] = Like
  BY <1>1
<1> HIDE DEF Good
<1>6. \E after : after = EnableLoop!After(s, xs, after)
  BY <1>1, <1>2, EnableLoop!LoopDefined
<1>7. \A after : after = EnableLoop!After(s, xs, after) => after[n] \subseteq Good[n]
  <2>1. /\ Len(xs) \in Nat /\ s \in Good[0]
        /\ \A j \in 1..Len(xs) : \A t \in Good[j - 1] : EnableLoop!Pass(t, xs[j]) \subseteq Good[j]
    BY <1>1, <1>2, <1>4, <1>5
  <2>2. \A after : after = EnableLoop!After(s, xs, after) => after[Len(xs)] \subseteq Good[Len(xs)]
    BY <2>1, EnableLoop!LoopKeeps, Zenon
  <2> QED
    BY <1>2, <2>2
<1>8. ASSUME NEW after
      PROVE  EnableLoop!After(s, xs, after) = [j \in 0..n |-> IF j = 0 THEN {s} ELSE Step(after, j)]
  <2>1. ASSUME NEW j \in 0..n, j # 0
        PROVE  Step(after, j)
                 = UNION {IF t.threw THEN {t} ELSE Enabling(t, xs[j]) : t \in after[j - 1]}
    <3>1. xs[j] = <<j, e>> /\ ks[j] = j
      BY <1>1, <1>2, <2>1
    <3> QED
      BY <3>1 DEF Enabling
  <2> HIDE DEF Step
  <2> QED
    BY <1>2, <2>1 DEF EnableLoop!After
<1>9. EnableAllPatchPacks(s, e) \subseteq Like
  <2> DEFINE F(after) == [j \in 0..n |-> IF j = 0 THEN {s} ELSE Step(after, j)]
             c == CHOOSE after : after = F(after)
  <2>1. EnableAllPatchPacks(s, e) = c[n]
    <3>1. EnableAllPatchPacks(s, e)
            = (CHOOSE after : after = [j \in 0..Len(ks) |-> IF j = 0 THEN {s} ELSE Step(after, j)])[Len(ks)]
      BY DEF EnableAllPatchPacks, ForEach, Then, ks
    <3> QED
      BY <1>2, <3>1
  <2> HIDE DEF Step
  <2>2. \A after : EnableLoop!After(s, xs, after) = F(after)
    BY <1>8
  <2> HIDE DEF F
  <2>3. \E after : after = F(after)
    BY <1>6, <2>2
  <2>4. c = F(c)
    BY <2>3
  <2> HIDE DEF c
  <2>5. c[n] \subseteq Good[n]
    BY <1>7, <2>2, <2>4
  <2> QED
    BY <1>5, <2>1, <2>5
<1> QED
  BY <1>9 DEF Like

TellHookLoop == INSTANCE LoopProofs WITH Body <- UpdateCoresAboutHook
TellPackLoop == INSTANCE LoopProofs WITH Body <- UpdateCoresAboutPatchPack

Again(s) == [s EXCEPT !.resent = TRUE]

\* When a hook is sent again, nothing more is said of what the core has.
LEMMA AgainGoing ==
  ASSUME NEW x0, NEW s0, NEW s, Going(x0, s0, s), NEW t, t = Again(s)
  PROVE  Going(x0, s0, t) /\ t.resent /\ t.hooks = s.hooks /\ t.threw = s.threw /\ t \in Manager
<1>1. s \in Manager
  BY DEF Going, Reached
<1>2. t \in Manager
  BY <1>1 DEF Manager, Again
<1>3. /\ t.hooks = s.hooks /\ t.packs = s.packs /\ t.sent = s.sent /\ t.objects = s.objects
      /\ t.library = s.library /\ t.crc32 = s.crc32 /\ t.threw = s.threw /\ t.resent
  BY <1>1, ManagerFacts DEF Again
<1>4. (Agree(s) => Agree(t)) /\ (AllCompiled(s) => AllCompiled(t)) /\ NamesApart(t)
  BY <1>3 DEF Agree, ChecksumsAgree, AllCompiled, IsSkipped, Going, NamesApart
<1>5. Loads(s0, s) => Loads(s0, t)
  BY <1>3 DEF Loads, Linked
<1> QED
  BY <1>2, <1>3, <1>4, <1>5 DEF Going, Reached

LEMMA TellHookGoing ==
  ASSUME NEW x0, NEW s0, NEW s, Going(x0, s0, s), ~ s.threw, s.resent, NEW hook \in HookEntry,
         NEW t \in UpdateCoresAboutHook(s, hook)
  PROVE  Going(x0, s0, t) /\ t.resent /\ t \in Manager
<1>1. /\ Reached(x0, s0, t, Told(Shadow(s), HookPacket(hook))) /\ SameLists(s, t)
      /\ ~ t.threw => AllCompiled(t)
  BY UpdateHookReaches DEF Going
<1> QED
  BY <1>1 DEF Going, Reached, SameLists, NamesApart

LEMMA TellAllHooksGoing ==
  ASSUME NEW x0, NEW s0, NEW s, Going(x0, s0, s), ~ s.threw, NEW u \in TellAboutAllHooks(s)
  PROVE  Going(x0, s0, u)
<1> DEFINE xs == s.hooks
           n == Len(xs)
           b == Again(s)
           Like == {t \in Manager : Going(x0, s0, t) /\ t.resent}
           Good == [k \in 0..n |-> Like]
<1>1. b \in Like /\ n \in Nat /\ \A i \in 1..n : xs[i] \in HookEntry
  <2>1. s \in Manager
    BY DEF Going, Reached
  <2> QED
    BY <2>1, AgainGoing, ManagerFacts
<1>2. Len(xs) = n
  OBVIOUS
<1> HIDE DEF xs, n, b
<1>3. ASSUME NEW j \in 1..n, NEW r \in Like
      PROVE  TellHookLoop!Pass(r, xs[j]) \subseteq Like
  <2>1. CASE r.threw
    BY <1>3, <2>1 DEF TellHookLoop!Pass
  <2>2. CASE ~ r.threw
    <3>1. SUFFICES ASSUME NEW t \in UpdateCoresAboutHook(r, xs[j]) PROVE t \in Like
      BY <2>2 DEF TellHookLoop!Pass
    <3> QED
      BY <1>1, <1>3, <2>2, <3>1, TellHookGoing
  <2> QED
    BY <2>1, <2>2
<1> HIDE DEF Like
<1>4. \A j \in 1..n : \A t \in Good[j - 1] : TellHookLoop!Pass(t, xs[j]) \subseteq Good[j]
  <2>1. ASSUME NEW j \in 1..n PROVE j - 1 \in 0..n /\ j \in 0..n
    BY <1>1
  <2> QED
    BY <1>3, <2>1
<1>5. b \in Good[0] /\ Good[n] = Like
  BY <1>1
<1> HIDE DEF Good
<1>6. \E after : after = TellHookLoop!After(b, xs, after)
  BY <1>1, <1>2, TellHookLoop!LoopDefined
<1>7. \A after : after = TellHookLoop!After(b, xs, after) => after[n] \subseteq Good[n]
  BY <1>1, <1>2, <1>4, <1>5, TellHookLoop!LoopKeeps
<1>8. TellAboutAllHooks(s) \subseteq Good[Len(xs)]
  BY <1>2, <1>6, <1>7 DEF TellAboutAllHooks, ForEach, Then, b, Again, TellHookLoop!After, xs
<1> QED
  BY <1>2, <1>5, <1>8 DEF Like

\* A pack is told of as it is.
LEMMA TellPackGoing ==
  ASSUME NEW x0, NEW s0, NEW s, Going(x0, s0, s), ~ s.threw, NEW i \in DOMAIN s.packs,
         NEW t \in UpdateCoresAboutPatchPack(s, s.packs[i])
  PROVE  Going(x0, s0, t) /\ t.packs = s.packs
<1>1. s \in Manager /\ s.packs[i] \in PackEntry /\ NamesApart(s) /\ s.packs[i].enabled \in BOOLEAN
      /\ DOMAIN s.packs = 1..Len(s.packs) /\ Len(s.packs) \in Nat
  BY ManagerFacts DEF Going, Reached
<1>2. /\ Reached(x0, s0, t, Told(Shadow(s), PackPacket(s.packs[i]))) /\ SameLists(s, t)
      /\ ~ t.threw => AllCompiled(t)
  BY <1>1, UpdatePackReaches DEF Going
<1>3. Told(Shadow(s), PackPacket(s.packs[i])) = Shadow(t)
  <2>1. EnabledIn(s.packs) = WithPack(EnabledIn(s.packs), s.packs[i].name, s.packs[i].enabled)
    BY <1>1, EnabledFacts DEF NamesApart
  <2>2. Told(Shadow(s), PackPacket(s.packs[i]))
          = [hooks |-> HooksTold(s.hooks),
             enabled |-> WithPack(EnabledIn(s.packs), s.packs[i].name, s.packs[i].enabled)]
    <3>1. \A h, ps : Told([hooks |-> h, enabled |-> ps], PackPacket(s.packs[i]))
                       = [hooks |-> h, enabled |-> WithPack(ps, s.packs[i].name, s.packs[i].enabled)]
      BY <1>1, ToldPack, Zenon
    <3> QED
      BY <3>1 DEF Shadow
  <2> QED
    BY <1>2, <2>1, <2>2 DEF Shadow, SameLists
<1> QED
  BY <1>1, <1>2, <1>3 DEF Going, SameLists, NamesApart

LEMMA TellAllPacksGoing ==
  ASSUME NEW x0, NEW s0, NEW s, Going(x0, s0, s), ~ s.threw, NEW u \in TellAboutAllPatchPacks(s)
  PROVE  Going(x0, s0, u)
<1> DEFINE xs == s.packs
           n == Len(xs)
           Like == {t \in Manager : Going(x0, s0, t) /\ t.packs = xs}
           Good == [k \in 0..n |-> Like]
<1>1. s \in Like /\ n \in Nat /\ DOMAIN xs = 1..n
  BY ManagerFacts DEF Going, Reached
<1>2. Len(xs) = n
  OBVIOUS
<1> HIDE DEF xs, n
<1>3. ASSUME NEW j \in 1..n, NEW r \in Like
      PROVE  TellPackLoop!Pass(r, xs[j]) \subseteq Like
  <2>1. CASE r.threw
    BY <1>3, <2>1 DEF TellPackLoop!Pass
  <2>2. CASE ~ r.threw
    <3>1. SUFFICES ASSUME NEW t \in UpdateCoresAboutPatchPack(r, xs[j]) PROVE t \in Like
      BY <2>2 DEF TellPackLoop!Pass
    <3>2. xs[j] = r.packs[j] /\ j \in DOMAIN r.packs
      BY <1>1, <1>3
    <3>3. Going(x0, s0, t) /\ t.packs = r.packs
      BY <1>3, <2>2, <3>1, <3>2, TellPackGoing
    <3> QED
      BY <1>3, <3>3 DEF Going, Reached
  <2> QED
    BY <2>1, <2>2
<1> HIDE DEF Like
<1>4. \A j \in 1..n : \A t \in Good[j - 1] : TellPackLoop!Pass(t, xs[j]) \subseteq Good[j]
  <2>1. ASSUME NEW j \in 1..n PROVE j - 1 \in 0..n /\ j \in 0..n
    BY <1>1
  <2> QED
    BY <1>3, <2>1
<1>5. s \in Good[0] /\ Good[n] = Like
  BY <1>1
<1> HIDE DEF Good
<1>6. \E after : after = TellPackLoop!After(s, xs, after)
  BY <1>1, <1>2, TellPackLoop!LoopDefined
<1>7. \A after : after = TellPackLoop!After(s, xs, after) => after[n] \subseteq Good[n]
  BY <1>1, <1>2, <1>4, <1>5, TellPackLoop!LoopKeeps
<1>8. TellAboutAllPatchPacks(s) \subseteq Good[Len(xs)]
  BY <1>2, <1>6, <1>7 DEF TellAboutAllPatchPacks, ForEach, Then, TellPackLoop!After, xs
<1> QED
  BY <1>2, <1>5, <1>8 DEF Like

-----------------------------------------------------------------------------
(* The calls.                                                              *)

LEMMA StartGoing ==
  ASSUME NEW s \in Manager, NamesApart(s), s.sent = <<>>
  PROVE  Going(Shadow(s), s, s)
<1>1. Path(Shadow(s), s.sent, Shadow(s))
  BY PathNothing
<1>2. Loads(s, s)
  BY LoadNothing DEF Loads
<1> QED
  BY <1>1, <1>2 DEF Going, Reached

LEMMA NamedFacts ==
  ASSUME NEW entries, NEW name, Named(entries, name) # {}
  PROVE  (CHOOSE i \in Named(entries, name) : TRUE) \in DOMAIN entries
<1> DEFINE h == CHOOSE i \in Named(entries, name) : TRUE
<1>1. h \in Named(entries, name)
  OBVIOUS
<1> HIDE DEF h
<1>2. h \in DOMAIN entries
  BY <1>1 DEF Named
<1> QED
  BY <1>2 DEF h

LEMMA UnregisterHookGoing ==
  ASSUME NEW x0, NEW s0, NEW s, Going(x0, s0, s), ~ s.threw, NEW name, NEW u \in UnregisterHook(s, name)
  PROVE  Going(x0, s0, u)
<1> DEFINE h == CHOOSE i \in Named(s.hooks, name) : TRUE
<1>1. CASE Named(s.hooks, name) = {}
  BY <1>1, ThrowsGoing DEF UnregisterHook, WithNamed
<1>2. CASE Named(s.hooks, name) # {}
  <2>1. h \in DOMAIN s.hooks
    BY <1>2, NamedFacts
  <2>2. u \in UnregisterAtIndex(s, h)
    BY <1>2 DEF UnregisterHook, WithNamed
  <2> HIDE DEF h
  <2> QED
    BY <2>1, <2>2, UnregisterGoing
<1> QED
  BY <1>1, <1>2

LEMMA RemovePatchPackGoing ==
  ASSUME NEW x0, NEW s0, NEW s, Going(x0, s0, s), ~ s.threw, NEW name, NEW u \in RemovePatchPack(s, name)
  PROVE  Going(x0, s0, u)
<1> DEFINE i == CHOOSE k \in Named(s.packs, name) : TRUE
<1>1. CASE Named(s.packs, name) = {}
  BY <1>1, ThrowsGoing DEF RemovePatchPack, WithNamed
<1>2. CASE Named(s.packs, name) # {}
  <2>1. i \in DOMAIN s.packs
    BY <1>2, NamedFacts
  <2>2. u \in RemoveAtIndex(s, i)
    BY <1>2 DEF RemovePatchPack, WithNamed
  <2> HIDE DEF i
  <2> QED
    BY <2>1, <2>2, RemoveAtIndexGoing
<1> QED
  BY <1>1, <1>2

LEMMA EnableGoing ==
  ASSUME NEW x0, NEW s0, NEW s, Going(x0, s0, s), ~ s.threw, NEW name, NEW e \in BOOLEAN,
         NEW u \in EnablePatchPack(s, name, e)
  PROVE  Going(x0, s0, u)
<1> DEFINE i == CHOOSE k \in Named(s.packs, name) : TRUE
<1>1. CASE Named(s.packs, name) = {}
  BY <1>1, ThrowsGoing DEF EnablePatchPack, WithNamed
<1>2. CASE Named(s.packs, name) # {}
  <2>1. i \in DOMAIN s.packs
    BY <1>2, NamedFacts
  <2>2. u \in SetEnabled(s, i, e)
    BY <1>2 DEF EnablePatchPack, WithNamed
  <2> HIDE DEF i
  <2>3. \A r \in SetEnabled(s, i, e) :
          /\ Reached(x0, s0, r, Shadow(r)) /\ NamesApart(r)
          /\ ~ r.threw => AllCompiled(r)
    BY <2>1, SetEnabledReaches DEF Going
  <2> QED
    BY <2>2, <2>3 DEF Going
<1> QED
  BY <1>1, <1>2

LEMMA CompileGoing ==
  ASSUME NEW x0, NEW s0, NEW s, Going(x0, s0, s), ~ s.threw, NEW u \in CompileHooksAndPatchPacks(s)
  PROVE  Going(x0, s0, u)
<1>1. Reached(x0, s0, u, Shadow(s)) /\ SameLists(s, u) /\ (~ u.threw => AllCompiled(u))
  BY CompileReaches DEF Going
<1>2. Shadow(u) = Shadow(s) /\ NamesApart(u)
  BY <1>1 DEF SameLists, Shadow, Going, NamesApart
<1> QED
  BY <1>1, <1>2 DEF Going

LEMMA TellAboutHookGoing ==
  ASSUME NEW x0, NEW s0, NEW s, Going(x0, s0, s), ~ s.threw, NEW name, NEW u \in TellAboutHook(s, name)
  PROVE  Going(x0, s0, u)
<1> DEFINE i == CHOOSE k \in Named(s.hooks, name) : TRUE
<1>1. CASE Named(s.hooks, name) = {}
  BY <1>1, ThrowsGoing DEF TellAboutHook, WithNamed
<1>2. CASE Named(s.hooks, name) # {}
  <2>1. i \in DOMAIN s.hooks /\ s \in Manager
    BY <1>2, NamedFacts DEF Going, Reached
  <2>2. u \in UpdateCoresAboutHook(Again(s), s.hooks[i])
    BY <1>2 DEF TellAboutHook, WithNamed, Again
  <2> HIDE DEF i
  <2>3. s.hooks[i] \in HookEntry
    BY <2>1, ManagerFacts
  <2>4. Going(x0, s0, Again(s)) /\ Again(s).resent /\ ~ Again(s).threw
    BY AgainGoing
  <2> QED
    BY <2>2, <2>3, <2>4, TellHookGoing
<1> QED
  BY <1>1, <1>2

LEMMA TellAboutPackGoing ==
  ASSUME NEW x0, NEW s0, NEW s, Going(x0, s0, s), ~ s.threw, NEW name, NEW u \in TellAboutPatchPack(s, name)
  PROVE  Going(x0, s0, u)
<1> DEFINE i == CHOOSE k \in Named(s.packs, name) : TRUE
<1>1. CASE Named(s.packs, name) = {}
  BY <1>1, ThrowsGoing DEF TellAboutPatchPack, WithNamed
<1>2. CASE Named(s.packs, name) # {}
  <2>1. i \in DOMAIN s.packs
    BY <1>2, NamedFacts
  <2>2. u \in UpdateCoresAboutPatchPack(s, s.packs[i])
    BY <1>2 DEF TellAboutPatchPack, WithNamed
  <2> HIDE DEF i
  <2> QED
    BY <2>1, <2>2, TellPackGoing
<1> QED
  BY <1>1, <1>2

-----------------------------------------------------------------------------
(* A new core is told of everything.                                       *)

\* What it has been told of after the first k hooks, and packs.
FirstHooks(s, k) ==
  [hooks |-> [i \in 1..k |-> [name |-> s.hooks[i].name, source |-> s.hooks[i].source]], enabled |-> {}]
FirstPacks(s, k) ==
  [hooks |-> HooksTold(s.hooks), enabled |-> {s.packs[i].name : i \in {j \in 1..k : s.packs[j].enabled}}]

LEMMA FirstHooksTold ==
  ASSUME NEW s \in Manager, NEW k \in 1..Len(s.hooks)
  PROVE  Told(FirstHooks(s, k - 1), HookPacket(s.hooks[k])) = FirstHooks(s, k)
<1> DEFINE entry(i) == [name |-> s.hooks[i].name, source |-> s.hooks[i].source]
           before == [i \in 1..(k - 1) |-> entry(i)]
<1>1. s.hooks[k] \in HookEntry /\ Len(s.hooks) \in Nat
  BY ManagerFacts
<1>2. \A i \in 1..Len(s.hooks) : entry(i) \in ShadowHook
  BY ManagerFacts DEF ShadowHook
<1>3. Told(FirstHooks(s, k - 1), HookPacket(s.hooks[k])) = [hooks |-> Append(before, entry(k)), enabled |-> {}]
  BY <1>1, ToldHook DEF FirstHooks
<1> HIDE DEF entry
<1>4. Append(before, entry(k)) = [i \in 1..k |-> entry(i)]
  <2>1. before \in Seq(ShadowHook) /\ Len(before) = k - 1
    BY <1>1, <1>2
  <2>2. (k - 1) + 1 = k /\ k - 1 \in Nat
    BY <1>1
  <2> QED
    BY <1>2, <2>1, <2>2
<1> QED
  BY <1>3, <1>4 DEF FirstHooks, entry

LEMMA FirstPacksTold ==
  ASSUME NEW s \in Manager, NamesApart(s), NEW k \in 1..Len(s.packs)
  PROVE  Told(FirstPacks(s, k - 1), PackPacket(s.packs[k])) = FirstPacks(s, k)
<1> DEFINE some(m) == {s.packs[i].name : i \in {j \in 1..m : s.packs[j].enabled}}
<1>1. /\ s.packs[k] \in PackEntry /\ s.packs[k].enabled \in BOOLEAN /\ Len(s.packs) \in Nat
      /\ DOMAIN s.packs = 1..Len(s.packs)
  BY ManagerFacts
<1>2. \A h, ps : Told([hooks |-> h, enabled |-> ps], PackPacket(s.packs[k]))
                   = [hooks |-> h, enabled |-> WithPack(ps, s.packs[k].name, s.packs[k].enabled)]
  BY <1>1, ToldPack, Zenon
<1>3. WithPack(some(k - 1), s.packs[k].name, s.packs[k].enabled) = some(k)
  <2>1. \A j \in 1..(k - 1) : j \in 1..Len(s.packs) /\ s.packs[j].name # s.packs[k].name
    BY <1>1 DEF NamesApart, Apart
  <2>2. \A j \in 1..k : j \in 1..(k - 1) \/ j = k
    BY <1>1
  <2>3. \A j \in 1..(k - 1) : j \in 1..k
    BY <1>1
  <2>4. CASE s.packs[k].enabled
    <3>1. some(k) = some(k - 1) \cup {s.packs[k].name}
      BY <2>2, <2>3, <2>4
    <3> QED
      BY <2>4, <3>1 DEF WithPack
  <2>5. CASE ~ s.packs[k].enabled
    <3>1. some(k) = some(k - 1)
      BY <2>2, <2>3, <2>5
    <3>2. s.packs[k].name \notin some(k - 1)
      BY <2>1
    <3> QED
      BY <2>5, <3>1, <3>2 DEF WithPack
  <2> QED
    BY <2>4, <2>5
<1> QED
  BY <1>2, <1>3 DEF FirstPacks

ConnectHooks(s) == ForEach(s, s.hooks, UpdateCoresAboutHook)

LEMMA ConnectHooksFacts ==
  ASSUME NEW s \in Manager, NamesApart(s), s.sent = <<>>, ~ s.threw, NEW u \in ConnectHooks(s)
  PROVE  /\ u \in Manager /\ Reached(NoShadow, s, u, FirstHooks(s, Len(s.hooks))) /\ SameLists(s, u)
         /\ AllCompiled(s) /\ ~ u.threw => AllCompiled(u)
<1> DEFINE xs == s.hooks
           n == Len(xs)
           Like(k) == {t \in Manager : /\ Reached(NoShadow, s, t, FirstHooks(s, k)) /\ SameLists(s, t)
                                       /\ AllCompiled(s) /\ ~ t.threw => AllCompiled(t)}
           Good == [k \in 0..n |-> Like(k)]
<1>1. n \in Nat /\ s \in Like(0) /\ \A i \in 1..n : xs[i] \in HookEntry
  <2>1. FirstHooks(s, 0) = NoShadow
    BY DEF FirstHooks, NoShadow
  <2>2. Loads(s, s) /\ Path(NoShadow, s.sent, FirstHooks(s, 0))
    BY <2>1, LoadNothing, PathNothing DEF Loads
  <2> QED
    BY <2>2, ManagerFacts DEF Reached, SameLists
<1>2. Len(xs) = n
  OBVIOUS
<1>a. \A k \in 1..n : Told(FirstHooks(s, k - 1), HookPacket(xs[k])) = FirstHooks(s, k)
  BY FirstHooksTold
<1> HIDE DEF xs, n
<1>3. ASSUME NEW j \in 1..n, NEW r \in Like(j - 1)
      PROVE  TellHookLoop!Pass(r, xs[j]) \subseteq Like(j)
  <2>1. CASE r.threw
    BY <1>3, <2>1 DEF TellHookLoop!Pass, Reached
  <2>2. CASE ~ r.threw
    <3>1. SUFFICES ASSUME NEW t \in UpdateCoresAboutHook(r, xs[j]) PROVE t \in Like(j)
      BY <2>2 DEF TellHookLoop!Pass
    <3>2. NamesApart(r)
      BY <1>3 DEF SameLists, NamesApart
    <3>3. /\ Reached(NoShadow, s, t, Told(FirstHooks(s, j - 1), HookPacket(xs[j]))) /\ SameLists(r, t)
          /\ ~ t.threw => AllCompiled(t)
      BY <1>1, <1>3, <2>2, <3>1, <3>2, UpdateHookReaches
    <3> QED
      BY <1>3, <1>a, <3>3 DEF SameLists, Reached
  <2> QED
    BY <2>1, <2>2
<1> HIDE DEF Like
<1>4. \A j \in 1..n : \A t \in Good[j - 1] : TellHookLoop!Pass(t, xs[j]) \subseteq Good[j]
  <2>1. ASSUME NEW j \in 1..n PROVE j - 1 \in 0..n /\ j \in 0..n
    BY <1>1
  <2> QED
    BY <1>3, <2>1
<1>5. s \in Good[0] /\ Good[n] = Like(n)
  BY <1>1
<1> HIDE DEF Good
<1>6. \E after : after = TellHookLoop!After(s, xs, after)
  BY <1>1, <1>2, TellHookLoop!LoopDefined
<1>7. \A after : after = TellHookLoop!After(s, xs, after) => after[n] \subseteq Good[n]
  BY <1>1, <1>2, <1>4, <1>5, TellHookLoop!LoopKeeps
<1>8. ConnectHooks(s) \subseteq Good[Len(xs)]
  BY <1>2, <1>6, <1>7 DEF ConnectHooks, ForEach, Then, TellHookLoop!After, xs
<1> QED
  BY <1>2, <1>5, <1>8 DEF Like, n, xs

ConnectPacks(s) == ForEach(s, s.packs, UpdateCoresAboutPatchPack)

LEMMA ConnectPacksFacts ==
  ASSUME NEW s \in Manager, NamesApart(s), NEW b, Reached(NoShadow, s, b, FirstPacks(s, 0)),
         SameLists(s, b), ~ b.threw, AllCompiled(s) => AllCompiled(b), NEW u \in ConnectPacks(b)
  PROVE  /\ u \in Manager /\ Reached(NoShadow, s, u, FirstPacks(s, Len(s.packs))) /\ SameLists(s, u)
         /\ AllCompiled(s) /\ ~ u.threw => AllCompiled(u)
<1> DEFINE xs == b.packs
           n == Len(xs)
           Like(k) == {t \in Manager : /\ Reached(NoShadow, s, t, FirstPacks(s, k)) /\ SameLists(s, t)
                                       /\ AllCompiled(s) /\ ~ t.threw => AllCompiled(t)}
           Good == [k \in 0..n |-> Like(k)]
<1>b. xs = s.packs
  BY DEF SameLists
<1>1. n \in Nat /\ b \in Like(0) /\ \A i \in 1..n : xs[i] \in PackEntry
  BY <1>b, ManagerFacts DEF Reached
<1>2. Len(xs) = n
  OBVIOUS
<1>a. \A k \in 1..n : Told(FirstPacks(s, k - 1), PackPacket(xs[k])) = FirstPacks(s, k)
  BY <1>b, FirstPacksTold
<1>c. n = Len(s.packs)
  BY <1>b
<1> HIDE DEF xs, n
<1>3. ASSUME NEW j \in 1..n, NEW r \in Like(j - 1)
      PROVE  TellPackLoop!Pass(r, xs[j]) \subseteq Like(j)
  <2>1. CASE r.threw
    BY <1>3, <2>1 DEF TellPackLoop!Pass, Reached
  <2>2. CASE ~ r.threw
    <3>1. SUFFICES ASSUME NEW t \in UpdateCoresAboutPatchPack(r, xs[j]) PROVE t \in Like(j)
      BY <2>2 DEF TellPackLoop!Pass
    <3>2. NamesApart(r)
      BY <1>3 DEF SameLists, NamesApart
    <3>3. /\ Reached(NoShadow, s, t, Told(FirstPacks(s, j - 1), PackPacket(xs[j]))) /\ SameLists(r, t)
          /\ ~ t.threw => AllCompiled(t)
      BY <1>1, <1>3, <2>2, <3>1, <3>2, UpdatePackReaches
    <3> QED
      BY <1>3, <1>a, <3>3 DEF SameLists, Reached
  <2> QED
    BY <2>1, <2>2
<1> HIDE DEF Like
<1>4. \A j \in 1..n : \A t \in Good[j - 1] : TellPackLoop!Pass(t, xs[j]) \subseteq Good[j]
  <2>1. ASSUME NEW j \in 1..n PROVE j - 1 \in 0..n /\ j \in 0..n
    BY <1>1
  <2> QED
    BY <1>3, <2>1
<1>5. b \in Good[0] /\ Good[n] = Like(n)
  BY <1>1
<1> HIDE DEF Good
<1>6. \E after : after = TellPackLoop!After(b, xs, after)
  BY <1>1, <1>2, TellPackLoop!LoopDefined
<1>7. \A after : after = TellPackLoop!After(b, xs, after) => after[n] \subseteq Good[n]
  BY <1>1, <1>2, <1>4, <1>5, TellPackLoop!LoopKeeps
<1>8. ConnectPacks(b) \subseteq Good[Len(xs)]
  BY <1>2, <1>6, <1>7 DEF ConnectPacks, ForEach, Then, TellPackLoop!After, xs
<1> QED
  BY <1>2, <1>5, <1>8, <1>c DEF Like

LEMMA ConnectGoing ==
  ASSUME NEW s \in Manager, NamesApart(s), s.sent = <<>>, ~ s.threw, NEW u \in UpdateCoreAboutAll(s)
  PROVE  Going(NoShadow, s, u)
<1>1. PICK b \in ConnectHooks(s) : u \in IF b.threw THEN {b} ELSE ConnectPacks(b)
  BY DEF UpdateCoreAboutAll, ConnectHooks, ConnectPacks, Then
<1>2. /\ b \in Manager /\ Reached(NoShadow, s, b, FirstHooks(s, Len(s.hooks))) /\ SameLists(s, b)
      /\ AllCompiled(s) /\ ~ b.threw => AllCompiled(b)
  BY <1>1, ConnectHooksFacts
<1>3. FirstHooks(s, Len(s.hooks)) = FirstPacks(s, 0) /\ FirstPacks(s, Len(s.packs)) = Shadow(s)
  <2>1. DOMAIN s.hooks = 1..Len(s.hooks) /\ DOMAIN s.packs = 1..Len(s.packs)
    BY ManagerFacts
  <2>2. {s.packs[i].name : i \in {j \in 1..0 : s.packs[j].enabled}} = {}
    OBVIOUS
  <2> QED
    BY <2>1, <2>2 DEF FirstHooks, FirstPacks, Shadow, HooksTold, EnabledIn
<1>4. CASE b.threw
  <2>1. u = b
    BY <1>1, <1>4
  <2> QED
    BY <1>2, <1>4, <2>1 DEF Going, Reached, SameLists, NamesApart
<1>5. CASE ~ b.threw
  <2>1. /\ u \in Manager /\ Reached(NoShadow, s, u, Shadow(s)) /\ SameLists(s, u)
        /\ AllCompiled(s) /\ ~ u.threw => AllCompiled(u)
    BY <1>1, <1>2, <1>3, <1>5, ConnectPacksFacts
  <2>2. Shadow(u) = Shadow(s) /\ NamesApart(u)
    BY <2>1 DEF SameLists, Shadow, NamesApart
  <2> QED
    BY <2>1, <2>2 DEF Going
<1> QED
  BY <1>4, <1>5

-----------------------------------------------------------------------------
(* The steps.                                                              *)

\* The manager after a call: what it sent is sent.
Back(s) == [s EXCEPT !.sent = <<>>, !.threw = FALSE]

LEMMA BackFacts ==
  ASSUME NEW s \in Manager
  PROVE  /\ Back(s) \in Manager /\ Back(s).sent = <<>> /\ ~ Back(s).threw
         /\ Back(s).hooks = s.hooks /\ Back(s).packs = s.packs
         /\ Back(s).objects = s.objects /\ Back(s).library = s.library
         /\ Back(s).crc32 = s.crc32 /\ Back(s).resent = s.resent
         /\ Shadow(Back(s)) = Shadow(s) /\ (NamesApart(s) => NamesApart(Back(s)))
         /\ (Linked(s) => Linked(Back(s))) /\ (AllCompiled(s) => AllCompiled(Back(s)))
         /\ (Agree(s) => ChecksumsAgree(Back(s)))
<1>1. <<>> \in Seq(Packet)
  OBVIOUS
<1>2. Back(s) \in Manager
  BY <1>1 DEF Back, Manager
<1>3. /\ Back(s).sent = <<>> /\ ~ Back(s).threw
      /\ Back(s).hooks = s.hooks /\ Back(s).packs = s.packs
      /\ Back(s).objects = s.objects /\ Back(s).library = s.library
      /\ Back(s).crc32 = s.crc32 /\ Back(s).resent = s.resent
  BY ManagerFacts DEF Back
<1>4. Shadow(Back(s)) = Shadow(s) /\ (NamesApart(s) => NamesApart(Back(s)))
  BY <1>3 DEF Shadow, NamesApart
<1>5. (Linked(s) => Linked(Back(s))) /\ (AllCompiled(s) => AllCompiled(Back(s)))
  BY <1>3 DEF Linked, AllCompiled, IsSkipped
<1>6. Agree(s) => ChecksumsAgree(Back(s))
  BY <1>3 DEF Agree, ChecksumsAgree
<1> QED
  BY <1>2, <1>3, <1>4, <1>5, <1>6

\* A call ends in u.
Took(u, hasCore) ==
  /\ calls < MaxCalls /\ calls' = calls + 1
  /\ manager' = Back(u)
  /\ toCore' = IF hasCore THEN toCore \o u.sent ELSE toCore
  /\ reported' = (reported \/ u.threw)
  /\ UNCHANGED <<saved, killed, restarts>>

LEMMA TookTypes ==
  ASSUME IInv, NEW u, NEW x0, Going(x0, manager, u), NEW hasCore \in BOOLEAN, Took(u, hasCore),
         UNCHANGED core
  PROVE  /\ manager' \in Manager /\ NamesApart(manager)' /\ manager'.sent = <<>> /\ ~ manager'.threw
         /\ (~ killed => ChecksumsAgree(manager))'
         /\ CoreInv(core)' /\ ~ core'.threw
         /\ toCore' \in Seq(Packet) /\ reported' \in BOOLEAN
         /\ saved' \in Image /\ killed' \in BOOLEAN /\ calls' \in 0..MaxCalls /\ restarts' \in 0..MaxRestarts
         /\ (~ reported => AllCompiled(manager))'
<1>1. /\ u \in Manager /\ NamesApart(u) /\ (Agree(manager) => Agree(u))
      /\ (AllCompiled(manager) /\ ~ u.threw => AllCompiled(u))
  BY DEF Going, Reached
<1>2. manager' = Back(u) /\ manager' \in Manager /\ NamesApart(manager)' /\ manager'.sent = <<>> /\ ~ manager'.threw
  BY <1>1, BackFacts DEF Took
<1>3. (~ killed => ChecksumsAgree(manager))'
  BY <1>1, <1>2, BackFacts DEF IInv, Took, Agree
<1>4. CoreInv(core)' /\ ~ core'.threw
  BY DEF IInv
<1>5. toCore' \in Seq(Packet)
  <2>1. u.sent \in Seq(Packet) /\ toCore \in Seq(Packet)
    BY <1>1, ManagerFacts DEF IInv
  <2>2. toCore \o u.sent \in Seq(Packet)
    BY <2>1
  <2> QED
    BY <2>1, <2>2 DEF Took
<1>6. reported' \in BOOLEAN /\ (reported' <=> reported \/ u.threw)
  BY DEF Took, IInv
<1>7. saved' \in Image /\ killed' \in BOOLEAN /\ restarts' \in 0..MaxRestarts
  BY DEF Took, IInv
<1>8. calls' \in 0..MaxCalls
  BY PatchAssumption DEF Took, IInv
<1>9. (~ reported => AllCompiled(manager))'
  BY <1>1, <1>2, <1>6, BackFacts DEF IInv
<1> QED
  BY <1>2, <1>3, <1>4, <1>5, <1>6, <1>7, <1>8, <1>9

\* A call that leaves the cores to those that are there.
LEMMA CallKeeps ==
  ASSUME IInv, NEW u, Going(Shadow(manager), manager, u), Took(u, connected),
         UNCHANGED <<core, connected>>
  PROVE  IInv'
<1>1. connected \in BOOLEAN /\ UNCHANGED core
  BY DEF IInv
<1>2. /\ manager' \in Manager /\ NamesApart(manager)' /\ manager'.sent = <<>> /\ ~ manager'.threw
      /\ (~ killed => ChecksumsAgree(manager))'
      /\ CoreInv(core)' /\ ~ core'.threw
      /\ toCore' \in Seq(Packet) /\ reported' \in BOOLEAN
      /\ saved' \in Image /\ killed' \in BOOLEAN /\ calls' \in 0..MaxCalls /\ restarts' \in 0..MaxRestarts
      /\ (~ reported => AllCompiled(manager))'
  BY <1>1, TookTypes
<1>3. connected' \in BOOLEAN /\ (~ connected => core = Loader!NewCore /\ toCore = <<>>)'
  BY DEF IInv, Took
<1>4. (~ reported /\ connected => Attached)'
  <2>1. SUFFICES ASSUME ~ reported', connected' PROVE Attached'
    OBVIOUS
  <2>2. connected /\ ~ reported /\ ~ u.threw /\ Attached /\ core' = core
    BY <2>1 DEF IInv, Took
  <2>3. /\ u \in Manager /\ Loads(manager, u) /\ (manager.resent => u.resent)
        /\ (~ u.resent => Path(Shadow(manager), u.sent, Shadow(u)))
    BY <2>2 DEF Going, Reached
  <2>4. /\ Shadow(manager') = Shadow(u) /\ manager'.library = u.library
        /\ (Linked(u) => Linked(manager')) /\ manager'.resent = u.resent
        /\ manager'.objects = u.objects
    BY <2>3, BackFacts DEF Took
  <2>5. toCore' = toCore \o u.sent /\ toCore \in Seq(Packet) /\ u.sent \in Seq(Packet)
    BY <2>2, <2>3, ManagerFacts DEF Took, IInv
  <2>6. /\ (HasLoad(toCore') <=> HasLoad(toCore) \/ HasLoad(u.sent))
        /\ LoadFollows(toCore')
    BY <2>2, <2>3, <2>5, LoadConcat DEF Attached, Loads
  <2>7. core'.library # Missing \/ HasLoad(toCore') => Linked(manager')
    BY <2>2, <2>3, <2>4, <2>6 DEF Attached, Loads, Linked
  <2>8. core'.library \in {Missing, manager'.library} \/ HasLoad(toCore')
    BY <2>2, <2>3, <2>4, <2>6 DEF Attached, Loads
  <2>9. core'.library = Missing /\ core'.hooks # <<>> => HasLoad(toCore')
    BY <2>2, <2>6 DEF Attached
  <2>10. ~ manager'.resent => Path(Shadow(core'), toCore', Shadow(manager'))
    BY <2>2, <2>3, <2>4, <2>5, PathConcat DEF Attached
  <2> QED
    BY <2>2, <2>6, <2>7, <2>8, <2>9, <2>10 DEF Attached
<1> QED
  BY <1>2, <1>3, <1>4 DEF IInv

\* A core that was just started.
LEMMA NewCoreFacts ==
  /\ CoreInv(Loader!NewCore) /\ ~ Loader!NewCore.threw /\ AllApplied(Loader!NewCore)
  /\ Shadow(Loader!NewCore) = NoShadow
  /\ Loader!NewCore.library = Missing /\ Loader!NewCore.hooks = <<>>
<1> DEFINE c == Loader!NewCore
<1>1. /\ c.hooks = <<>> /\ c.packs = <<>> /\ c.library = Missing /\ c.saved = <<>>
      /\ c.groups = {} /\ c.lastGroup = 0 /\ ~ c.threw
  BY DEF Loader!NewCore
<1>2. c \in Core
  BY PatchAssumption DEF Loader!NewCore, Loader!NoFunctions, Core
<1> HIDE DEF c
<1>3. CoreInv(c)
  BY <1>1, <1>2 DEF CoreInv, Apart, GroupsOwned, DisabledUngrouped, ClosedUnapplied
<1>4. AllApplied(c)
  BY <1>1 DEF AllApplied, Loader!IsModuleOpen
<1>5. Shadow(c) = NoShadow
  <2>1. HooksTold(c.hooks) = <<>>
    BY <1>1 DEF HooksTold
  <2>2. EnabledIn(c.packs) = {}
    BY <1>1 DEF EnabledIn
  <2> QED
    BY <2>1, <2>2 DEF Shadow, NoShadow
<1> QED
  BY <1>1, <1>3, <1>4, <1>5 DEF c

LEMMA ConnectKeeps ==
  ASSUME IInv, Connect
  PROVE  IInv'
<1>1. ~ connected /\ connected' = TRUE /\ core' = core /\ core = Loader!NewCore /\ toCore = <<>>
  BY DEF Connect, IInv
<1>2. PICK u \in UpdateCoreAboutAll(manager) : Took(u, TRUE)
  BY DEF Connect, Runs, Took, Back
<1>3. Going(NoShadow, manager, u)
  BY ConnectGoing DEF IInv
<1>4. /\ manager' \in Manager /\ NamesApart(manager)' /\ manager'.sent = <<>> /\ ~ manager'.threw
      /\ (~ killed => ChecksumsAgree(manager))'
      /\ CoreInv(core)' /\ ~ core'.threw
      /\ toCore' \in Seq(Packet) /\ reported' \in BOOLEAN
      /\ saved' \in Image /\ killed' \in BOOLEAN /\ calls' \in 0..MaxCalls /\ restarts' \in 0..MaxRestarts
      /\ (~ reported => AllCompiled(manager))'
  <2>1. \A b \in BOOLEAN : Took(u, b) =>
          /\ manager' \in Manager /\ NamesApart(manager)' /\ manager'.sent = <<>> /\ ~ manager'.threw
          /\ (~ killed => ChecksumsAgree(manager))'
          /\ CoreInv(core)' /\ ~ core'.threw
          /\ toCore' \in Seq(Packet) /\ reported' \in BOOLEAN
          /\ saved' \in Image /\ killed' \in BOOLEAN /\ calls' \in 0..MaxCalls /\ restarts' \in 0..MaxRestarts
          /\ (~ reported => AllCompiled(manager))'
    BY <1>1, <1>3, TookTypes
  <2> QED
    BY <1>2, <2>1
<1>5. (~ reported /\ connected => Attached)'
  <2>1. SUFFICES ASSUME ~ reported' PROVE Attached'
    OBVIOUS
  <2>2. ~ u.threw
    BY <1>2, <2>1 DEF IInv, Took
  <2>3. u \in Manager /\ Loads(manager, u) /\ (~ u.resent => Path(NoShadow, u.sent, Shadow(u)))
    BY <1>3, <2>2 DEF Going, Reached
  <2>4. /\ Shadow(manager') = Shadow(u) /\ manager'.library = u.library
        /\ (Linked(u) => Linked(manager')) /\ manager'.resent = u.resent
    BY <1>2, <2>3, BackFacts DEF Took
  <2>5. toCore' = u.sent
    <3>1. toCore' = <<>> \o u.sent /\ u.sent \in Seq(Packet)
      BY <1>1, <1>2, <2>3, ManagerFacts DEF Took
    <3> QED
      BY <3>1
  <2>6. /\ AllApplied(core') /\ Shadow(core') = NoShadow
        /\ core'.library = Missing /\ core'.hooks = <<>>
    BY <1>1, NewCoreFacts
  <2>7. HasLoad(toCore') => Linked(manager')
    BY <2>3, <2>4, <2>5 DEF Loads
  <2>8. LoadFollows(toCore')
    BY <2>3, <2>5 DEF Loads
  <2>9. ~ manager'.resent => Path(Shadow(core'), toCore', Shadow(manager'))
    BY <2>3, <2>4, <2>5, <2>6
  <2> QED
    BY <2>6, <2>7, <2>8, <2>9 DEF Attached
<1> QED
  BY <1>1, <1>4, <1>5 DEF IInv

\* The core after a packet: what was thrown is logged.
Logged(d) == [d EXCEPT !.threw = FALSE]

LEMMA LoggedFacts ==
  ASSUME NEW d, CoreInv(d)
  PROVE  /\ CoreInv(Logged(d)) /\ ~ Logged(d).threw
         /\ Logged(d).library = d.library /\ Logged(d).hooks = d.hooks
         /\ Shadow(Logged(d)) = Shadow(d) /\ (AllApplied(d) => AllApplied(Logged(d)))
<1>1. d \in Core
  BY DEF CoreInv
<1>2. Logged(d) \in Core
  BY <1>1 DEF Logged, Core
<1>3. /\ Logged(d).hooks = d.hooks /\ Logged(d).packs = d.packs /\ Logged(d).groups = d.groups
      /\ Logged(d).lastGroup = d.lastGroup /\ Logged(d).library = d.library
      /\ Logged(d).saved = d.saved /\ ~ Logged(d).threw
  BY <1>1, CoreFacts DEF Logged
<1>4. CoreInv(Logged(d))
  BY <1>2, <1>3 DEF CoreInv, GroupsOwned, DisabledUngrouped, ClosedUnapplied, Loader!IsModuleOpen
<1>5. Shadow(Logged(d)) = Shadow(d)
  BY <1>3 DEF Shadow
<1>6. AllApplied(d) => AllApplied(Logged(d))
  BY <1>3 DEF AllApplied, HookApplied, Loader!IsModuleOpen
<1> QED
  BY <1>3, <1>4, <1>5, <1>6

LEMMA PacketsFacts ==
  ASSUME NEW packets \in Seq(Packet), packets # <<>>
  PROVE  /\ Head(packets) \in Packet /\ Tail(packets) \in Seq(Packet)
         /\ (IsLoad(Head(packets)) \/ HasLoad(Tail(packets)) => HasLoad(packets))
<1>1. /\ Head(packets) = packets[1] /\ Len(packets) \in Nat /\ 1 \in 1..Len(packets)
      /\ Tail(packets) \in Seq(Packet) /\ Len(Tail(packets)) = Len(packets) - 1
      /\ \A i \in 1..(Len(packets) - 1) : Tail(packets)[i] = packets[i + 1]
  OBVIOUS
<1>2. HasLoad(Tail(packets)) => HasLoad(packets)
  <2>1. SUFFICES ASSUME NEW k \in DOMAIN Tail(packets), IsLoad(Tail(packets)[k])
                 PROVE  \E j \in DOMAIN packets : IsLoad(packets[j])
    BY DEF HasLoad
  <2>2. k \in 1..(Len(packets) - 1) /\ k + 1 \in DOMAIN packets
    BY <1>1, <2>1
  <2>3. Tail(packets)[k] = packets[k + 1]
    BY <1>1, <2>2
  <2> QED
    BY <2>1, <2>2, <2>3
<1> QED
  BY <1>1, <1>2 DEF HasLoad

LEMMA HandleKeeps ==
  ASSUME IInv, HandlePacket
  PROVE  IInv'
<1> DEFINE packet == Head(toCore)
           rest == Tail(toCore)
<1>1. toCore \in Seq(Packet) /\ toCore # <<>> /\ toCore' = rest
  BY DEF HandlePacket, IInv
<1>2. packet \in Packet /\ rest \in Seq(Packet) /\ (IsLoad(packet) \/ HasLoad(rest) => HasLoad(toCore))
  BY <1>1, PacketsFacts
<1>3. PICK d \in Loader!Handle(core, packet, manager.library) :
        core' = Logged(d) /\ reported' = (reported \/ d.threw)
  BY DEF HandlePacket, Logged
<1> HIDE DEF packet, rest
<1>4. UNCHANGED <<manager, connected, saved, killed, calls, restarts>>
  BY DEF HandlePacket
<1>5. Handled(core, d, packet, manager.library)
  <2>1. CoreInv(core) /\ ~ core.threw /\ manager.library \in Image \cup {Missing}
    BY ManagerFacts DEF IInv
  <2> QED
    BY <1>2, <1>3, <2>1, HandledAsTold
<1>6. CoreInv(d) /\ d.threw \in BOOLEAN
  BY <1>5, CoreFacts DEF Handled, CoreInv
<1>7. CoreInv(core)' /\ ~ core'.threw
  BY <1>3, <1>6, LoggedFacts
<1>8. reported' \in BOOLEAN /\ (reported' <=> reported \/ d.threw)
  BY <1>3, <1>6 DEF IInv
<1>9. connected
  BY <1>1 DEF IInv
<1>10. (~ reported => AllCompiled(manager))'
  BY <1>4, <1>8 DEF IInv, AllCompiled
<1>11. (~ reported /\ connected => Attached)'
  <2>1. SUFFICES ASSUME ~ reported' PROVE Attached'
    OBVIOUS
  <2>2. ~ reported /\ ~ d.threw /\ Attached /\ manager' = manager
    BY <1>4, <1>8, <1>9, <2>1 DEF IInv
  <2>3. /\ core'.library = d.library /\ core'.hooks = d.hooks /\ Shadow(core') = Shadow(d)
        /\ (AllApplied(d) => AllApplied(core'))
    BY <1>3, <1>6, LoggedFacts
  <2>4. /\ LoadFollows(rest) /\ (HasLoad(toCore) => IsLoad(packet) \/ HasLoad(rest))
        /\ (packet.type = "PATCH_LIB_UNLOAD" => HasLoad(rest))
    BY <1>1, <2>2, LoadTail DEF Attached, packet, rest
  <2>5. AllApplied(core')
    BY <1>5, <2>2, <2>3 DEF Handled, Attached
  <2>6. ~ manager.resent => Path(Shadow(core'), rest, Shadow(manager))
    <3>1. ASSUME ~ manager.resent PROVE Path(Told(Shadow(core), packet), rest, Shadow(manager))
      BY <1>1, <2>2, <3>1, PathTail DEF Attached, packet, rest
    <3> QED
      BY <1>5, <2>2, <2>3, <3>1 DEF Handled
  <2>7. CASE IsLoad(packet)
    <3>1. d.library = manager.library /\ d.library # Missing /\ HasLoad(toCore)
      BY <1>2, <1>5, <2>2, <2>7 DEF Handled
    <3>2. Linked(manager)
      BY <2>2, <3>1 DEF Attached
    <3> QED
      BY <1>1, <2>2, <2>3, <2>4, <2>5, <2>6, <3>1, <3>2 DEF Attached
  <2>8. CASE packet.type = "PATCH_LIB_UNLOAD"
    <3>1. d.library = Missing /\ HasLoad(rest) /\ HasLoad(toCore)
      BY <1>2, <1>5, <2>2, <2>4, <2>8 DEF Handled
    <3>2. Linked(manager)
      BY <2>2, <3>1 DEF Attached
    <3> QED
      BY <1>1, <2>2, <2>3, <2>4, <2>5, <2>6, <3>1, <3>2 DEF Attached
  <2>9. CASE ~ IsLoad(packet) /\ packet.type # "PATCH_LIB_UNLOAD"
    <3>1. d.library = core.library /\ (d.library = Missing /\ d.hooks # <<>> => core.hooks # <<>>)
      BY <1>5, <2>2, <2>9 DEF Handled
    <3>2. HasLoad(toCore) <=> HasLoad(rest)
      BY <1>2, <2>4, <2>9
    <3> QED
      BY <1>1, <2>2, <2>3, <2>4, <2>5, <2>6, <3>1, <3>2 DEF Attached
  <2> QED
    BY <2>7, <2>8, <2>9
<1> QED
  <2>1. connected' \in BOOLEAN /\ (~ connected => core = Loader!NewCore /\ toCore = <<>>)'
    BY <1>4, <1>9
  <2>2. /\ manager' \in Manager /\ NamesApart(manager)' /\ manager'.sent = <<>> /\ ~ manager'.threw
        /\ (~ killed => ChecksumsAgree(manager))'
        /\ saved' \in Image /\ killed' \in BOOLEAN /\ calls' \in 0..MaxCalls /\ restarts' \in 0..MaxRestarts
    BY <1>4 DEF IInv, NamesApart, ChecksumsAgree
  <2> QED
    BY <1>1, <1>2, <1>7, <1>8, <1>10, <1>11, <2>1, <2>2 DEF IInv

\* A manager that was just started.
LEMMA NewManagerFacts ==
  ASSUME NEW s, s.hooks = <<>>, s.packs = <<>>
  PROVE  NamesApart(s) /\ AllCompiled(s)
BY DEF NamesApart, Apart, AllCompiled

LEMMA NothingSent ==
  0 \in 0..MaxFaults /\ <<>> \in Seq(HookEntry) /\ <<>> \in Seq(PackEntry) /\ <<>> \in Seq(Packet)
BY PatchAssumption

LEMMA NothingFacts == Nothing \in Image
<1>1. \A item \in Item : Missing \in SourceOf[item]
  BY DEF SourceOf
<1> QED
  BY <1>1 DEF Nothing, Image

\* The next process begins with what the files say.
LEMMA RestartKeeps ==
  ASSUME IInv, NEW objects \in Image, NEW crc32 \in Image, Restart(objects, crc32),
         saved' \in Image, killed' \in BOOLEAN,
         killed' \/ (objects = manager.objects /\ crc32 = manager.crc32 /\ killed' = killed)
  PROVE  IInv'
<1>1. manager.modified \in BOOLEAN /\ manager.library \in Image \cup {Missing}
  BY ManagerFacts DEF IInv
<1>2. manager' = NewManager(objects, manager.modified, manager.library, crc32)
  BY DEF Restart
<1>3. /\ manager' \in Manager /\ NamesApart(manager)' /\ manager'.sent = <<>> /\ ~ manager'.threw
      /\ AllCompiled(manager)' /\ manager'.objects = objects /\ manager'.crc32 = crc32
  <2>1. manager' \in Manager
    BY <1>1, <1>2, NothingSent DEF NewManager, Manager
  <2>2. /\ manager'.hooks = <<>> /\ manager'.packs = <<>> /\ manager'.sent = <<>> /\ ~ manager'.threw
        /\ manager'.objects = objects /\ manager'.crc32 = crc32
    BY <1>2 DEF NewManager
  <2>3. NamesApart(manager') /\ AllCompiled(manager')
    BY <2>2, NewManagerFacts
  <2> QED
    BY <2>1, <2>2, <2>3
<1>4. (~ killed => ChecksumsAgree(manager))'
  BY <1>3 DEF IInv, ChecksumsAgree
<1>5. /\ core' = Loader!NewCore /\ connected' = FALSE /\ toCore' = <<>> /\ reported' = FALSE
      /\ calls' \in 0..MaxCalls /\ toCore' \in Seq(Packet)
  BY DEF Restart, IInv
<1>6. restarts' \in 0..MaxRestarts
  BY PatchAssumption DEF Restart, IInv
<1>7. CoreInv(core)' /\ ~ core'.threw
  BY <1>5, NewCoreFacts
<1> QED
  BY <1>3, <1>4, <1>5, <1>6, <1>7 DEF IInv

LEMMA ExitKeeps ==
  ASSUME IInv, Exit
  PROVE  IInv'
<1>1. manager.objects \in Image /\ manager.crc32 \in Image
  BY ManagerFacts DEF IInv
<1>2. Restart(manager.objects, manager.crc32) /\ saved' \in Image /\ killed' = killed /\ killed' \in BOOLEAN
  BY <1>1 DEF Exit, IInv
<1> QED
  BY <1>1, <1>2, RestartKeeps

LEMMA KillKeeps ==
  ASSUME IInv, Kill
  PROVE  IInv'
<1>1. manager.objects \in Image /\ saved \in Image
  BY ManagerFacts DEF IInv
<1>2. killed' = TRUE /\ saved' \in Image
  BY <1>1 DEF Kill
<1>3. \E objects \in Image : Restart(objects, saved)
  <2>1. CASE Restart(manager.objects, saved)
    BY <1>1, <2>1
  <2>2. CASE \E h \in Hook, source \in Source : Restart([manager.objects EXCEPT ![h] = source], saved)
    <3>1. PICK h \in Hook, source \in Source : Restart([manager.objects EXCEPT ![h] = source], saved)
      BY <2>2
    <3>2. h \in Item /\ source \in SourceOf[h]
      BY SourceFacts
    <3>3. [manager.objects EXCEPT ![h] = source] \in Image
      BY <1>1, <3>2, PutImage
    <3> QED
      BY <3>1, <3>3
  <2> QED
    BY <2>1, <2>2 DEF Kill
<1>4. PICK objects \in Image : Restart(objects, saved)
  BY <1>3
<1> QED
  BY <1>1, <1>2, <1>4, RestartKeeps

-----------------------------------------------------------------------------
(* The calls.                                                              *)

LEMMA CallingKeeps ==
  ASSUME IInv, NEW STATE outcomes, Calling(outcomes),
         \A u \in outcomes : Going(Shadow(manager), manager, u)
  PROVE  IInv'
<1>1. PICK u \in outcomes : Took(u, connected)
  BY DEF Calling, Runs, Took, Back
<1>2. Going(Shadow(manager), manager, u) /\ UNCHANGED <<core, connected>>
  BY DEF Calling
<1> QED
  BY <1>1, <1>2, CallKeeps

\* Each call, in each of its outcomes.
LEMMA CallsGoing ==
  ASSUME IInv
  PROVE  /\ \A h \in Hook, source \in Source : \A u \in RegisterHook(manager, h, source) :
              Going(Shadow(manager), manager, u)
         /\ \A h \in Hook : \A u \in UnregisterHook(manager, h) : Going(Shadow(manager), manager, u)
         /\ \A u \in UnregisterAllHooks(manager) : Going(Shadow(manager), manager, u)
         /\ \A p \in Pack : \A u \in AddPatchPack(manager, p) : Going(Shadow(manager), manager, u)
         /\ \A p \in Pack : \A u \in RemovePatchPack(manager, p) : Going(Shadow(manager), manager, u)
         /\ \A u \in RemoveAllPatchPacks(manager) : Going(Shadow(manager), manager, u)
         /\ \A p \in Pack, e \in BOOLEAN : \A u \in EnablePatchPack(manager, p, e) :
              Going(Shadow(manager), manager, u)
         /\ \A e \in BOOLEAN : \A u \in EnableAllPatchPacks(manager, e) :
              Going(Shadow(manager), manager, u)
         /\ \A u \in CompileHooksAndPatchPacks(manager) : Going(Shadow(manager), manager, u)
         /\ \A h \in Hook : \A u \in TellAboutHook(manager, h) : Going(Shadow(manager), manager, u)
         /\ \A u \in TellAboutAllHooks(manager) : Going(Shadow(manager), manager, u)
         /\ \A p \in Pack : \A u \in TellAboutPatchPack(manager, p) : Going(Shadow(manager), manager, u)
         /\ \A u \in TellAboutAllPatchPacks(manager) : Going(Shadow(manager), manager, u)
<1>1. Going(Shadow(manager), manager, manager) /\ ~ manager.threw
  BY StartGoing DEF IInv
<1>2. \A h \in Hook, source \in Source : \A u \in RegisterHook(manager, h, source) :
        Going(Shadow(manager), manager, u)
  BY <1>1, RegisterGoing
<1>3. \A h \in Hook : \A u \in UnregisterHook(manager, h) : Going(Shadow(manager), manager, u)
  BY <1>1, UnregisterHookGoing
<1>4. \A u \in UnregisterAllHooks(manager) : Going(Shadow(manager), manager, u)
  BY <1>1, UnregisterAllHooksGoing
<1>5. \A p \in Pack : \A u \in AddPatchPack(manager, p) : Going(Shadow(manager), manager, u)
  BY <1>1, AddGoing
<1>6. \A p \in Pack : \A u \in RemovePatchPack(manager, p) : Going(Shadow(manager), manager, u)
  BY <1>1, RemovePatchPackGoing
<1>7. \A u \in RemoveAllPatchPacks(manager) : Going(Shadow(manager), manager, u)
  BY <1>1, RemoveAllPatchPacksGoing
<1>8. \A p \in Pack, e \in BOOLEAN : \A u \in EnablePatchPack(manager, p, e) :
        Going(Shadow(manager), manager, u)
  BY <1>1, EnableGoing
<1>9. \A e \in BOOLEAN : \A u \in EnableAllPatchPacks(manager, e) :
        Going(Shadow(manager), manager, u)
  BY <1>1, EnableAllGoing
<1>10. \A u \in CompileHooksAndPatchPacks(manager) : Going(Shadow(manager), manager, u)
  BY <1>1, CompileGoing
<1>11. \A h \in Hook : \A u \in TellAboutHook(manager, h) : Going(Shadow(manager), manager, u)
  BY <1>1, TellAboutHookGoing
<1>12. \A u \in TellAboutAllHooks(manager) : Going(Shadow(manager), manager, u)
  BY <1>1, TellAllHooksGoing
<1>13. \A p \in Pack : \A u \in TellAboutPatchPack(manager, p) : Going(Shadow(manager), manager, u)
  BY <1>1, TellAboutPackGoing
<1>14. \A u \in TellAboutAllPatchPacks(manager) : Going(Shadow(manager), manager, u)
  BY <1>1, TellAllPacksGoing
<1> QED
  BY <1>2, <1>3, <1>4, <1>5, <1>6, <1>7, <1>8, <1>9, <1>10, <1>11, <1>12, <1>13, <1>14

-----------------------------------------------------------------------------
(* The invariant.                                                          *)

LEMMA InitIInv == Init => IInv
<1> SUFFICES ASSUME Init PROVE IInv
  OBVIOUS
<1>1. /\ manager \in Manager /\ NamesApart(manager) /\ manager.sent = <<>> /\ ~ manager.threw
      /\ AllCompiled(manager) /\ manager.objects = Nothing /\ manager.crc32 = Nothing
  <2>1. manager = NewManager(Nothing, FALSE, Missing, Nothing)
    BY DEF Init
  <2>2. manager \in Manager
    BY <2>1, NothingFacts, NothingSent DEF NewManager, Manager
  <2>3. /\ manager.hooks = <<>> /\ manager.packs = <<>> /\ manager.sent = <<>> /\ ~ manager.threw
        /\ manager.objects = Nothing /\ manager.crc32 = Nothing
    BY <2>1 DEF NewManager
  <2>4. NamesApart(manager) /\ AllCompiled(manager)
    BY <2>3, NewManagerFacts
  <2> QED
    BY <2>2, <2>3, <2>4
<1>2. ChecksumsAgree(manager)
  BY <1>1 DEF ChecksumsAgree
<1>3. CoreInv(core) /\ ~ core.threw
  BY NewCoreFacts DEF Init
<1>4. saved \in Image /\ calls \in 0..MaxCalls /\ restarts \in 0..MaxRestarts
  BY NothingFacts, PatchAssumption DEF Init
<1>5. toCore \in Seq(Packet)
  BY DEF Init
<1> QED
  BY <1>1, <1>2, <1>3, <1>4, <1>5 DEF Init, IInv

LEMMA StutterKeeps ==
  ASSUME IInv, UNCHANGED vars
  PROVE  IInv'
BY DEF vars, IInv, NamesApart, ChecksumsAgree, CoreInv, AllCompiled, IsSkipped, Attached,
  Apart, GroupsOwned, DisabledUngrouped, ClosedUnapplied, AllApplied, Linked

LEMMA NextKeeps ==
  ASSUME IInv, Next
  PROVE  IInv'
<1>1. CASE CallRegisterHook
  <2>1. PICK h \in Hook, source \in Source : Calling(RegisterHook(manager, h, source))
    BY <1>1 DEF CallRegisterHook
  <2> QED
    BY <2>1, CallsGoing, CallingKeeps
<1>2. CASE CallUnregisterHook
  <2>1. PICK h \in Hook : Calling(UnregisterHook(manager, h))
    BY <1>2 DEF CallUnregisterHook
  <2> QED
    BY <2>1, CallsGoing, CallingKeeps
<1>3. CASE CallUnregisterAllHooks
  BY <1>3, CallsGoing, CallingKeeps DEF CallUnregisterAllHooks
<1>4. CASE CallAddPatchPack
  <2>1. PICK p \in Pack : Calling(AddPatchPack(manager, p))
    BY <1>4 DEF CallAddPatchPack
  <2> QED
    BY <2>1, CallsGoing, CallingKeeps
<1>5. CASE CallRemovePatchPack
  <2>1. PICK p \in Pack : Calling(RemovePatchPack(manager, p))
    BY <1>5 DEF CallRemovePatchPack
  <2> QED
    BY <2>1, CallsGoing, CallingKeeps
<1>6. CASE CallRemoveAllPatchPacks
  BY <1>6, CallsGoing, CallingKeeps DEF CallRemoveAllPatchPacks
<1>7. CASE CallEnablePatchPack
  <2>1. PICK p \in Pack, e \in BOOLEAN : Calling(EnablePatchPack(manager, p, e))
    BY <1>7 DEF CallEnablePatchPack
  <2> QED
    BY <2>1, CallsGoing, CallingKeeps
<1>8. CASE CallEnableAllPatchPacks
  <2>1. PICK e \in BOOLEAN : Calling(EnableAllPatchPacks(manager, e))
    BY <1>8 DEF CallEnableAllPatchPacks
  <2> QED
    BY <2>1, CallsGoing, CallingKeeps
<1>9. CASE CallCompileHooksAndPatchPacks
  BY <1>9, CallsGoing, CallingKeeps DEF CallCompileHooksAndPatchPacks
<1>10. CASE CallUpdateCoresAboutHook
  <2>1. PICK h \in Hook : Calling(TellAboutHook(manager, h))
    BY <1>10 DEF CallUpdateCoresAboutHook
  <2> QED
    BY <2>1, CallsGoing, CallingKeeps
<1>11. CASE CallUpdateCoresAboutAllHooks
  BY <1>11, CallsGoing, CallingKeeps DEF CallUpdateCoresAboutAllHooks
<1>12. CASE CallUpdateCoresAboutPatchPack
  <2>1. PICK p \in Pack : Calling(TellAboutPatchPack(manager, p))
    BY <1>12 DEF CallUpdateCoresAboutPatchPack
  <2> QED
    BY <2>1, CallsGoing, CallingKeeps
<1>13. CASE CallUpdateCoresAboutAllPatchPacks
  BY <1>13, CallsGoing, CallingKeeps DEF CallUpdateCoresAboutAllPatchPacks
<1>14. CASE Connect
  BY <1>14, ConnectKeeps
<1>15. CASE HandlePacket
  BY <1>15, HandleKeeps
<1>16. CASE Exit
  BY <1>16, ExitKeeps
<1>17. CASE Kill
  BY <1>17, KillKeeps
<1> QED
  BY <1>1, <1>2, <1>3, <1>4, <1>5, <1>6, <1>7, <1>8, <1>9, <1>10, <1>11, <1>12, <1>13, <1>14,
     <1>15, <1>16, <1>17 DEF Next

\* Everything that was assumed of the two sides holds in every state.
THEOREM PatchInvariant == Spec => []IInv
<1>1. Init => IInv
  BY InitIInv
<1>2. IInv /\ [Next]_vars => IInv'
  BY NextKeeps, StutterKeeps
<1> QED
  BY <1>1, <1>2, PTL DEF Spec

-----------------------------------------------------------------------------
(* What follows.                                                           *)

\* Every part of the manager's and the core's state holds a value of its type
\* (PatchManager.h, PatchLoader.h: the members).
THEOREM PatchTypeOK == Spec => []TypeOK
<1>1. IInv => TypeOK
  <2>1. SUFFICES ASSUME IInv PROVE TypeOK
    OBVIOUS
  <2>2. /\ \A i \in DOMAIN manager.hooks :
             manager.hooks[i].name \in Hook /\ manager.hooks[i].source \in Source
        /\ \A i \in DOMAIN manager.packs : manager.packs[i].name \in Pack
        /\ manager.sent = <<>> /\ manager.faults \in 0..MaxFaults
    BY <2>1, ManagerFacts DEF IInv
  <2>3. manager.objects \in Image /\ manager.crc32 \in Image /\ saved \in Image
    BY <2>1, ManagerFacts DEF IInv
  <2>4. \A item \in Item :
          {manager.objects[item], manager.crc32[item], saved[item]} \subseteq SourceOf[item]
    BY <2>3 DEF Image
  <2>5. core \in Core /\ GroupsOwned(core)
    BY <2>1 DEF IInv, CoreInv
  <2>6. \A i \in DOMAIN core.hooks : core.hooks[i].group \in 0..core.lastGroup
    <3>1. ASSUME NEW i \in DOMAIN core.hooks PROVE core.hooks[i].group \in 0..core.lastGroup
      <4>1. core.hooks[i].group \in Nat /\ core.lastGroup \in Nat
        BY <2>5, CoreFacts
      <4>2. core.hooks[i].group <= core.lastGroup
        BY <2>5 DEF GroupsOwned
      <4> QED
        BY <4>1, <4>2
    <3> QED
      BY <3>1
  <2>7. \A g \in core.groups : g.id \in 1..core.lastGroup
    BY <2>5 DEF GroupsOwned
  <2>8. core.library = Missing \/ \A item \in Item : core.library[item] \in SourceOf[item]
    <3>1. core.library \in Image \cup {Missing}
      BY <2>5, CoreFacts
    <3> QED
      BY <3>1 DEF Image
  <2> QED
    BY <2>2, <2>4, <2>6, <2>7, <2>8 DEF TypeOK
<1> QED
  BY <1>1, PatchInvariant, PTL

\* A compilation that PatchCompiler skips (PatchCompiler.cpp: the test of the
\* checksum) would have made the object that is there, whatever failed before,
\* unless a process was killed.
THEOREM PatchSkipIsSound == Spec => []SkipIsSound
<1>1. IInv => SkipIsSound
  BY DEF IInv, SkipIsSound
<1> QED
  BY <1>1, PatchInvariant, PTL

\* The program jumps only into the library that PatchLoader has loaded, and there
\* into a wrapper of the source that the hook was applied with (PatchLoader.cpp:
\* unload before load, unapply before unload). Which functions the wrapper calls
\* then is not said: some may be addresses in a library that was unloaded.
THEOREM PatchWrapperIsLoaded == Spec => []WrapperIsLoaded
<1>1. IInv => WrapperIsLoaded
  BY DEF IInv, CoreInv, GroupsOwned, WrapperIsLoaded
<1> QED
  BY <1>1, PatchInvariant, PTL

\* The entries that have a group.
Owners(q, id) == {i \in DOMAIN q : q[i].group = id}

LEMMA OneIndex ==
  ASSUME NEW q, NEW n \in Nat, DOMAIN q = 1..n, NEW id,
         \A i, j \in DOMAIN q : q[i].group = id /\ q[j].group = id => i = j
  PROVE  /\ (\E i \in DOMAIN q : q[i].group = id) => Cardinality(Owners(q, id)) = 1
         /\ (~ \E i \in DOMAIN q : q[i].group = id) => Cardinality(Owners(q, id)) = 0
<1> DEFINE S == Owners(q, id)
<1>1. ASSUME \E i \in DOMAIN q : q[i].group = id PROVE Cardinality(S) = 1
  <2>1. PICK i \in DOMAIN q : q[i].group = id
    BY <1>1
  <2>2. S = {i}
    BY <2>1 DEF Owners
  <2> QED
    BY <2>2, FS_Singleton
<1>2. ASSUME ~ \E i \in DOMAIN q : q[i].group = id PROVE Cardinality(S) = 0
  <2>1. S = {}
    BY <1>2 DEF Owners
  <2> QED
    BY <2>1, FS_EmptySet
<1> QED
  BY <1>1, <1>2

\* Every group of the Patcher is that of exactly one hook or pack of PatchLoader,
\* which can undo it.
THEOREM PatchNoOrphanGroup == Spec => []NoOrphanGroup
<1>1. IInv => NoOrphanGroup
  <2>1. SUFFICES ASSUME IInv, NEW g \in core.groups
                 PROVE  Cardinality(Owners(core.hooks, g.id)) + Cardinality(Owners(core.packs, g.id)) = 1
    BY DEF NoOrphanGroup, Owners
  <2>2. core \in Core /\ GroupsOwned(core)
    BY <2>1 DEF IInv, CoreInv
  <2>3. /\ DOMAIN core.hooks = 1..Len(core.hooks) /\ Len(core.hooks) \in Nat
        /\ DOMAIN core.packs = 1..Len(core.packs) /\ Len(core.packs) \in Nat
        /\ core.lastGroup \in Nat
    BY <2>2, CoreFacts
  <2>4. g.id # 0
    BY <2>2, <2>3 DEF GroupsOwned
  <2>5. /\ \A i, j \in DOMAIN core.hooks :
             core.hooks[i].group = g.id /\ core.hooks[j].group = g.id => i = j
        /\ \A i, j \in DOMAIN core.packs :
             core.packs[i].group = g.id /\ core.packs[j].group = g.id => i = j
    BY <2>2, <2>4 DEF GroupsOwned
  <2>6. CASE \E i \in DOMAIN core.hooks : core.hooks[i].group = g.id
    <3>1. ~ \E j \in DOMAIN core.packs : core.packs[j].group = g.id
      BY <2>2, <2>4, <2>6 DEF GroupsOwned
    <3>2. Cardinality(Owners(core.hooks, g.id)) = 1
      BY <2>3, <2>5, <2>6, OneIndex
    <3>3. Cardinality(Owners(core.packs, g.id)) = 0
      BY <2>3, <2>5, <3>1, OneIndex
    <3> QED
      BY <3>2, <3>3
  <2>7. CASE ~ \E i \in DOMAIN core.hooks : core.hooks[i].group = g.id
    <3>1. \E j \in DOMAIN core.packs : core.packs[j].group = g.id
      BY <2>1, <2>2, <2>7 DEF GroupsOwned
    <3>2. Cardinality(Owners(core.hooks, g.id)) = 0
      BY <2>3, <2>5, <2>7, OneIndex
    <3>3. Cardinality(Owners(core.packs, g.id)) = 1
      BY <2>3, <2>5, <3>1, OneIndex
    <3> QED
      BY <3>2, <3>3
  <2> QED
    BY <2>6, <2>7
<1> QED
  BY <1>1, PatchInvariant, PTL

LEMMA PathEnds ==
  ASSUME NEW x, NEW y, Path(x, <<>>, y)
  PROVE  x = y
BY DEF Path

\* What two lists of hooks have in common when they tell the same.
LEMMA ToldHooks ==
  ASSUME NEW p, NEW m \in Nat, DOMAIN p = 1..m, Len(p) = m,
         NEW q, NEW n \in Nat, DOMAIN q = 1..n, Len(q) = n,
         HooksTold(p) = HooksTold(q)
  PROVE  /\ Len(p) = Len(q)
         /\ \A i \in DOMAIN p : p[i].name = q[i].name /\ p[i].source = q[i].source
<1>1. DOMAIN HooksTold(p) = 1..m /\ DOMAIN HooksTold(q) = 1..n
  BY DEF HooksTold
<1>2. m = n
  BY <1>1
<1>3. ASSUME NEW i \in DOMAIN p PROVE p[i].name = q[i].name /\ p[i].source = q[i].source
  <2>1. /\ HooksTold(p)[i] = [name |-> p[i].name, source |-> p[i].source]
        /\ HooksTold(q)[i] = [name |-> q[i].name, source |-> q[i].source]
    BY <1>2 DEF HooksTold
  <2> QED
    BY <2>1
<1> QED
  BY <1>2, <1>3

\* Once the core has handled every packet it has the hooks that the manager
\* has, each applied with code of its current source, and the same packs
\* enabled, unless somebody was told of an error (PatchManager.cpp with
\* PatchLoader.cpp).
THEOREM PatchNoSilentDivergence == Spec => []NoSilentDivergence
<1>1. IInv => NoSilentDivergence
  <2>1. SUFFICES ASSUME IInv, connected, toCore = <<>>, ~ reported, ~ manager.resent,
                        ChecksumsAgree(manager)
                 PROVE  /\ Len(core.hooks) = Len(manager.hooks)
                        /\ \A i \in DOMAIN core.hooks :
                             /\ core.hooks[i].name = manager.hooks[i].name
                             /\ core.hooks[i].source = manager.hooks[i].source
                             /\ Applied(i)
                        /\ EnabledIn(core.packs) = EnabledIn(manager.packs)
    BY DEF NoSilentDivergence
  <2>2. /\ Attached /\ AllCompiled(manager) /\ manager \in Manager /\ core \in Core
        /\ ~ HasLoad(toCore)
    BY <2>1, LoadNothing DEF IInv, CoreInv
  <2>3. Shadow(core) = Shadow(manager)
    BY <2>1, <2>2, PathEnds DEF Attached
  <2>4. HooksTold(core.hooks) = HooksTold(manager.hooks) /\ EnabledIn(core.packs) = EnabledIn(manager.packs)
    BY <2>3 DEF Shadow
  <2>5. /\ Len(core.hooks) = Len(manager.hooks)
        /\ \A i \in DOMAIN core.hooks :
             core.hooks[i].name = manager.hooks[i].name /\ core.hooks[i].source = manager.hooks[i].source
    <3>1. /\ DOMAIN core.hooks = 1..Len(core.hooks) /\ Len(core.hooks) \in Nat
          /\ DOMAIN manager.hooks = 1..Len(manager.hooks) /\ Len(manager.hooks) \in Nat
      BY <2>2, CoreFacts, ManagerFacts
    <3> QED
      BY <2>4, <3>1, ToldHooks
  <2>6. ASSUME NEW i \in DOMAIN core.hooks PROVE Applied(i)
    <3>1. i \in DOMAIN manager.hooks /\ core.hooks # <<>>
      BY <2>2, <2>5, <2>6, CoreFacts, ManagerFacts
    <3>2. core.library # Missing /\ Linked(manager) /\ core.library = manager.objects
      BY <2>2, <3>1 DEF Attached, Linked
    <3>3. HookApplied(core, i)
      BY <2>2, <3>2 DEF Attached, AllApplied, Loader!IsModuleOpen
    <3>4. PICK g \in core.groups :
            g.id = core.hooks[i].group /\ g.source = manager.objects[core.hooks[i].name]
      BY <3>2, <3>3 DEF HookApplied
    <3> DEFINE name == manager.hooks[i].name
               source == manager.hooks[i].source
    <3>5. name \in Item /\ source # Missing /\ core.hooks[i].name = name /\ core.hooks[i].source = source
      BY <2>2, <2>5, <3>1, ManagerFacts, SourceFacts
    <3>6. manager.crc32[name] = source /\ manager.objects[name] # Missing
      BY <2>2, <3>1 DEF AllCompiled, IsSkipped
    <3>7. manager.objects[name] = source
      BY <2>1, <3>5, <3>6 DEF ChecksumsAgree
    <3> QED
      BY <3>4, <3>5, <3>7 DEF Applied
  <2> QED
    BY <2>4, <2>5, <2>6
<1> QED
  BY <1>1, PatchInvariant, PTL
=============================================================================
