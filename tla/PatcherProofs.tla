----------------------------- MODULE PatcherProofs -----------------------------
(***************************************************************************)
(* The queue of the Patcher is exact, a pass never runs it empty of itself,*)
(* and the Patcher implements PatchService, for any memory, any catalogue  *)
(* of groups, any callbacks and any number of ids, faults and starts,      *)
(* provided one thread adds groups: the listener is the only caller of     *)
(* addToQueue() in core/.                                                  *)
(***************************************************************************)
EXTENDS Patcher, SequenceTheorems, FunctionTheorems, WellFoundedInduction, TLAPS

OneSubmitter == \A s, t \in Submitter : s = t

\* Every match lies in the process: its bytes can be saved and put back.
MatchesInside(g) ==
  \A i \in DOMAIN g.resultsAndOriginalBytes :
    \A a \in DOMAIN g.resultsAndOriginalBytes[i] :
      \A j \in 1..Len(g.request.patches[i].replace) : a + j - 1 \in Addr

GroupOK(g) == IsPatchGroup(g) /\ MatchesInside(g)

-----------------------------------------------------------------------------
(* Memory.                                                                 *)

\* What a group is made of.
LEMMA GroupFacts ==
  ASSUME NEW g, IsPatchGroup(g), NEW i \in DOMAIN g.resultsAndOriginalBytes
  PROVE  /\ i \in DOMAIN g.request.patches
         /\ g.request.patches[i] \in Patch
         /\ g.request.patches[i].replace \in Seq(Byte \cup {Keep})
         /\ g.request.patches[i].search # <<>>
         /\ Len(g.request.patches[i].search) = Len(g.request.patches[i].replace)
         /\ g.request.patches[i].search \in Seq(SUBSET Byte)
         /\ g.request.patches[i].module \in Module
<1>1. g.request \in Catalogue /\ i \in DOMAIN g.request.patches
  BY DEF IsPatchGroup
<1>2. g.request \in Request
  BY <1>1, CatalogueAssumption
<1>3. g.request.patches[i] \in Patch
  BY <1>1, <1>2 DEF Request
<1> QED
  BY <1>1, <1>3, CatalogueAssumption DEF Patch

\* A byte that a patch covers is written with a byte.
LEMMA WrittenIsByte ==
  ASSUME NEW g, IsPatchGroup(g), NEW i \in DOMAIN g.resultsAndOriginalBytes,
         NEW a \in Nat, NEW x \in Nat, Covers(g.request.patches[i], a, x)
  PROVE  Written(g.request.patches[i], a, x) \in Byte
<1> DEFINE p == g.request.patches[i]
<1>1. p.replace \in Seq(Byte \cup {Keep})
  BY GroupFacts
<1>2. CASE InRelative(p, x - a)
  BY <1>2, MemoryAssumption DEF Written
<1>3. CASE ~ InRelative(p, x - a)
  <2>1. x - a \in 0..(Len(p.replace) - 1) /\ p.replace[x - a + 1] # Keep
    BY <1>3 DEF Covers
  <2>2. x - a + 1 \in 1..Len(p.replace)
    BY <1>1, <2>1
  <2>3. p.replace[x - a + 1] \in Byte \cup {Keep}
    BY <1>1, <2>2
  <2> QED
    BY <1>3, <2>1, <2>3 DEF Written
<1> QED
  BY <1>2, <1>3

\* A write belongs to a patch of its group.
LEMMA WritesInDomain ==
  ASSUME NEW g, IsPatchGroup(g), NEW w \in Writes(g)
  PROVE  w[1] \in DOMAIN g.resultsAndOriginalBytes
<1>1. g.request \in Catalogue /\ DOMAIN g.resultsAndOriginalBytes = DOMAIN g.request.patches
  BY DEF IsPatchGroup
<1>2. g.request.patches \in Seq(Patch)
  BY <1>1, CatalogueAssumption DEF Request
<1> QED
  BY <1>1, <1>2 DEF Writes

\* The writes of a group leave bytes in memory.
LEMMA MemoryAfterType ==
  ASSUME memory \in [Addr -> Byte], NEW g, IsPatchGroup(g), NEW D \in SUBSET Writes(g)
  PROVE  MemoryAfter(g, D) \in [Addr -> Byte]
<1> DEFINE p(w)       == g.request.patches[w[1]]
           At(w, x)   == Covers(p(w), w[2], x)
           Last(x, w) == At(w, x) /\ \A v \in D : At(v, x) => ~ Before(w, v)
           Value(x)   == IF \E w \in D : Last(x, w)
                         THEN LET w == CHOOSE w \in D : Last(x, w)
                              IN  Written(p(w), w[2], x)
                         ELSE memory[x]
<1>1. ASSUME NEW x \in Addr PROVE Value(x) \in Byte
  <2>1. CASE \E w \in D : Last(x, w)
    <3> DEFINE w == CHOOSE w \in D : Last(x, w)
    <3>1. w \in D /\ Last(x, w)
      BY <2>1
    <3> HIDE DEF w
    <3>2. w \in Writes(g) /\ Covers(g.request.patches[w[1]], w[2], x)
      BY <3>1
    <3>3. w[1] \in 1..Len(g.resultsAndOriginalBytes) /\ w[2] \in Addr
          /\ w[2] \in DOMAIN g.resultsAndOriginalBytes[w[1]]
      BY <3>2 DEF Writes
    <3>4. w[1] \in DOMAIN g.resultsAndOriginalBytes
      BY <3>2, WritesInDomain
    <3>5. Written(g.request.patches[w[1]], w[2], x) \in Byte
      BY <3>2, <3>3, <3>4, WrittenIsByte, NatAssumption
    <3>6. Value(x) = Written(g.request.patches[w[1]], w[2], x)
      BY <2>1 DEF w
    <3> QED BY <3>5, <3>6
  <2>2. CASE ~ \E w \in D : Last(x, w)
    BY <2>2
  <2> QED BY <2>1, <2>2
<1>2. MemoryAfter(g, D) = [x \in Addr |-> Value(x)]
  BY DEF MemoryAfter
<1> HIDE DEF Value
<1> QED
  BY <1>1, <1>2

\* Copying saved bytes back leaves bytes in memory.
LEMMA MemoryRestoredType ==
  ASSUME memory \in [Addr -> Byte], NEW g, IsPatchGroup(g), NEW D \in SUBSET Writes(g)
  PROVE  MemoryRestored(g, D) \in [Addr -> Byte]
<1> DEFINE Last(x, w) == x \in Saved(g, w) /\ \A v \in D : x \in Saved(g, v) => ~ Before(w, v)
           Value(x)   == IF \E w \in D : Last(x, w)
                         THEN LET w == CHOOSE w \in D : Last(x, w)
                              IN  g.resultsAndOriginalBytes[w[1]][w[2]][x - w[2] + 1]
                         ELSE memory[x]
<1>1. ASSUME NEW x \in Addr PROVE Value(x) \in Byte
  <2>1. CASE \E w \in D : Last(x, w)
    <3> DEFINE w == CHOOSE w \in D : Last(x, w)
    <3>1. w \in D /\ Last(x, w)
      BY <2>1
    <3> HIDE DEF w
    <3>2. w \in Writes(g) /\ x \in Saved(g, w)
      BY <3>1
    <3>3. w[1] \in DOMAIN g.resultsAndOriginalBytes /\ w[2] \in Addr
          /\ w[2] \in DOMAIN g.resultsAndOriginalBytes[w[1]]
      BY <3>2, WritesInDomain DEF Writes
    <3> DEFINE s == g.resultsAndOriginalBytes[w[1]][w[2]]
    <3>4. s \in Seq(Byte)
      BY <3>3 DEF IsPatchGroup, IsResults
    <3>5. x - w[2] + 1 \in 1..Len(s)
      <4>0. Len(s) \in Nat
        BY <3>4, LenProperties
      <4>1. x \in Nat /\ w[2] \in Nat
        BY <3>3, NatAssumption
      <4>2. x \in w[2]..(w[2] + Len(s) - 1)
        BY <3>2 DEF Saved
      <4> HIDE DEF s
      <4> QED BY <4>0, <4>1, <4>2
    <3>6. s[x - w[2] + 1] \in Byte
      BY <3>4, <3>5
    <3>7. Value(x) = s[x - w[2] + 1]
      BY <2>1 DEF w
    <3> QED BY <3>6, <3>7
  <2>2. CASE ~ \E w \in D : Last(x, w)
    BY <2>2
  <2> QED BY <2>1, <2>2
<1>2. MemoryRestored(g, D) = [x \in Addr |-> Value(x)]
  BY DEF MemoryRestored
<1> HIDE DEF Value
<1> QED
  BY <1>1, <1>2

-----------------------------------------------------------------------------
(* Groups.                                                                 *)

\* Matches of a search lie in the segment with all their bytes.
LEMMA SearchResultsInside ==
  ASSUME NEW g, IsPatchGroup(g), NEW i \in DOMAIN g.resultsAndOriginalBytes,
         NEW a \in SearchResults(g.request.patches[i])
  PROVE  /\ a \in Addr
         /\ \A j \in 1..Len(g.request.patches[i].replace) : a + j - 1 \in Addr
<1> DEFINE p == g.request.patches[i]
<1>1. /\ p.module \in Module /\ Len(p.search) = Len(p.replace)
      /\ p.search \in Seq(SUBSET Byte)
  BY GroupFacts
<1>2. Segment[p.module] \subseteq Addr
  BY <1>1, MemoryAssumption
<1>3. a \in Segment[p.module] /\ MatchesAt(p, a, memory)
  BY DEF SearchResults, FoundIn
<1> QED
  BY <1>1, <1>2, <1>3 DEF MatchesAt


\* A search that reached patch k leaves a group with its matches.
LEMMA SearchedUpToOK ==
  ASSUME NEW g, GroupOK(g), NEW k \in Nat
  PROVE  GroupOK(SearchedUpTo(g, k))
<1> DEFINE r     == g.resultsAndOriginalBytes
           f(i)  == SearchResults(g.request.patches[i])
           n(i)  == [a \in DOMAIN r[i] \cup f(i) |-> IF a \in f(i) THEN <<>> ELSE r[i][a]]
           r2    == [i \in DOMAIN r |-> IF i < k THEN n(i) ELSE r[i]]
<1>0. IsPatchGroup(g)
  BY DEF GroupOK
<1>1. SearchedUpTo(g, k) = [g EXCEPT !.resultsAndOriginalBytes = r2]
  BY DEF SearchedUpTo
<1>2. ASSUME NEW i \in DOMAIN r
      PROVE  /\ IsResults(r2[i])
             /\ \A a \in DOMAIN r2[i] :
                  \A j \in 1..Len(g.request.patches[i].replace) : a + j - 1 \in Addr
  <2>1. IsResults(r[i])
    BY <1>0 DEF IsPatchGroup
  <2>2. \A a \in f(i) : /\ a \in Addr
                       /\ \A j \in 1..Len(g.request.patches[i].replace) : a + j - 1 \in Addr
    BY <1>0, SearchResultsInside
  <2>3. \A a \in DOMAIN r[i] :
          \A j \in 1..Len(g.request.patches[i].replace) : a + j - 1 \in Addr
    BY DEF GroupOK, MatchesInside
  <2> HIDE DEF f
  <2>4. IsResults(n(i))
    BY <2>1, <2>2, EmptySeq DEF IsResults
  <2> QED
    BY <2>1, <2>2, <2>3, <2>4
<1> HIDE DEF r2
<1>3. DOMAIN r2 = DOMAIN r
  BY DEF r2
<1>4. GroupOK([g EXCEPT !.resultsAndOriginalBytes = r2])
  BY <1>0, <1>2, <1>3 DEF GroupOK, IsPatchGroup, MatchesInside
<1> QED
  BY <1>1, <1>4

\* Saving bytes keeps the matches and saves bytes of memory.
LEMMA ResultsAfterOK ==
  ASSUME memory \in [Addr -> Byte], NEW g, GroupOK(g), NEW D \in SUBSET Writes(g)
  PROVE  GroupOK([g EXCEPT !.resultsAndOriginalBytes = ResultsAfter(g, D)])
<1> DEFINE r     == g.resultsAndOriginalBytes
           m(w)  == MemoryAfter(g, {v \in D : Before(v, w)})
           n(i, a) == [j \in 1..Len(g.request.patches[i].replace) |-> m(<<i, a>>)[a + j - 1]]
           r2    == [i \in DOMAIN r |-> [a \in DOMAIN r[i] |->
                       IF <<i, a>> \in D THEN n(i, a) ELSE r[i][a]]]
<1>0. IsPatchGroup(g)
  BY DEF GroupOK
<1>1. ResultsAfter(g, D) = r2
  BY DEF ResultsAfter
<1>2. ASSUME NEW w PROVE m(w) \in [Addr -> Byte]
  BY <1>0, MemoryAfterType
<1>3. ASSUME NEW i \in DOMAIN r, NEW a \in DOMAIN r[i] PROVE n(i, a) \in Seq(Byte)
  <2>1. Len(g.request.patches[i].replace) \in Nat
    BY <1>0, GroupFacts
  <2>2. \A j \in 1..Len(g.request.patches[i].replace) : a + j - 1 \in Addr
    BY DEF GroupOK, MatchesInside
  <2> HIDE DEF m
  <2>3. \A j \in 1..Len(g.request.patches[i].replace) : m(<<i, a>>)[a + j - 1] \in Byte
    BY <1>2, <2>2
  <2> QED
    BY <2>1, <2>3
<1> HIDE DEF n, m
<1>4. ASSUME NEW i \in DOMAIN r PROVE IsResults(r2[i]) /\ DOMAIN r2[i] = DOMAIN r[i]
  <2>1. IsResults(r[i])
    BY <1>0 DEF IsPatchGroup
  <2> QED
    BY <1>3, <2>1 DEF IsResults
<1>5. DOMAIN r2 = DOMAIN r
  OBVIOUS
<1> HIDE DEF r2
<1>6. GroupOK([g EXCEPT !.resultsAndOriginalBytes = r2])
  BY <1>0, <1>4, <1>5 DEF GroupOK, IsPatchGroup, MatchesInside
<1> QED
  BY <1>1, <1>6

\* Clearing the matches leaves a group.
LEMMA ClearedOK ==
  ASSUME NEW g, GroupOK(g) PROVE GroupOK(Cleared(g))
<1> DEFINE r  == g.resultsAndOriginalBytes
           r2 == [i \in DOMAIN r |-> <<>>]
<1>1. Cleared(g) = [g EXCEPT !.resultsAndOriginalBytes = r2]
  BY DEF Cleared
<1>2. \A i \in DOMAIN r2 : IsResults(r2[i]) /\ DOMAIN r2[i] = {}
  BY EmptySeq DEF IsResults
<1>3. DOMAIN r2 = DOMAIN r
  OBVIOUS
<1> HIDE DEF r2
<1>4. GroupOK([g EXCEPT !.resultsAndOriginalBytes = r2])
  BY <1>2, <1>3 DEF GroupOK, IsPatchGroup, MatchesInside
<1> QED
  BY <1>1, <1>4
-----------------------------------------------------------------------------
(* The queue as a set of ids: what each queue operation does to it.        *)

In(q, x) == \E i \in DOMAIN q : q[i] = x
Distinct(q) == \A i, j \in DOMAIN q : q[i] = q[j] => i = j

LEMMA AppendQueue ==
  ASSUME NEW S, NEW q \in Seq(S), NEW x \in S, Distinct(q), ~ In(q, x)
  PROVE  /\ Append(q, x) \in Seq(S) /\ Len(Append(q, x)) = Len(q) + 1
         /\ Distinct(Append(q, x))
         /\ \A y : In(Append(q, x), y) <=> In(q, y) \/ y = x
<1>1. /\ DOMAIN q = 1..Len(q) /\ Len(q) \in Nat
      /\ DOMAIN Append(q, x) = 1..(Len(q) + 1)
  BY AppendProperties, LenProperties
<1>2. /\ \A i \in 1..Len(q) : Append(q, x)[i] = q[i]
      /\ Append(q, x)[Len(q) + 1] = x
      /\ Append(q, x) \in Seq(S) /\ Len(Append(q, x)) = Len(q) + 1
  BY AppendProperties
<1>3. \A i \in 1..(Len(q) + 1) : i \in 1..Len(q) \/ i = Len(q) + 1
  BY <1>1
<1>4. Distinct(Append(q, x))
  BY <1>1, <1>2, <1>3 DEF Distinct, In
<1>5. \A y : In(Append(q, x), y) <=> In(q, y) \/ y = x
  BY <1>1, <1>2, <1>3 DEF In
<1> QED
  BY <1>2, <1>4, <1>5

LEMMA TailQueue ==
  ASSUME NEW S, NEW q \in Seq(S), q # <<>>, Distinct(q)
  PROVE  /\ Tail(q) \in Seq(S) /\ Len(Tail(q)) = Len(q) - 1 /\ Len(q) \in Nat \ {0}
         /\ Distinct(Tail(q))
         /\ In(q, Head(q)) /\ Head(q) \in S
         /\ \A y : In(Tail(q), y) <=> In(q, y) /\ y # Head(q)
<1>1. /\ DOMAIN q = 1..Len(q) /\ Len(q) \in Nat \ {0} /\ Head(q) = q[1]
      /\ DOMAIN Tail(q) = 1..(Len(q) - 1)
  BY HeadTailProperties, LenProperties, EmptySeq
<1>2. /\ Tail(q) \in Seq(S) /\ Len(Tail(q)) = Len(q) - 1 /\ Head(q) \in S
      /\ \A i \in 1..(Len(q) - 1) : Tail(q)[i] = q[i + 1]
  BY HeadTailProperties
<1>3. Distinct(Tail(q))
  BY <1>1, <1>2 DEF Distinct
<1>4. In(q, Head(q))
  BY <1>1 DEF In
<1>5. ASSUME NEW y PROVE In(Tail(q), y) <=> In(q, y) /\ y # Head(q)
  <2>1. ASSUME In(Tail(q), y) PROVE In(q, y) /\ y # Head(q)
    BY <2>1, <1>1, <1>2 DEF In, Distinct
  <2>2. ASSUME In(q, y), y # Head(q) PROVE In(Tail(q), y)
    <3>1. PICK i \in 1..Len(q) : q[i] = y
      BY <2>2, <1>1 DEF In
    <3>2. i # 1 /\ i - 1 \in 1..(Len(q) - 1) /\ (i - 1) + 1 = i
      BY <2>2, <3>1, <1>1
    <3> QED
      BY <3>1, <3>2, <1>1, <1>2 DEF In
  <2> QED BY <2>1, <2>2
<1> QED
  BY <1>1, <1>2, <1>3, <1>4, <1>5

LEMMA RemoveFromQueue ==
  ASSUME NEW S, NEW q \in Seq(S), NEW x, Distinct(q)
  PROVE  /\ WithoutFirst(q, x) \in Seq(S)
         /\ Distinct(WithoutFirst(q, x))
         /\ \A y : In(WithoutFirst(q, x), y) <=> In(q, y) /\ y # x
         /\ ~ In(q, x) => WithoutFirst(q, x) = q
         /\ Len(WithoutFirst(q, x)) \in Nat /\ Len(WithoutFirst(q, x)) >= Len(q) - 1
<1>1. DOMAIN q = 1..Len(q) /\ Len(q) \in Nat
  BY LenProperties
<1>2. CASE ~ \E k \in 1..Len(q) : q[k] = x
  BY <1>1, <1>2 DEF WithoutFirst, In
<1>3. CASE \E k \in 1..Len(q) : q[k] = x
  <2>1. PICK k \in 1..Len(q) : q[k] = x
    BY <1>3
  <2>2. RemoveFirstOf(q, x) = {k}
    BY <2>1, <1>1 DEF RemoveFirstOf, Distinct
  <2> DEFINE a == SubSeq(q, 1, k - 1)
             b == SubSeq(q, k + 1, Len(q))
             r == a \o b
  <2>3. WithoutFirst(q, x) = r
    BY <1>3, <2>2 DEF WithoutFirst
  <2>4. \A i \in 1..Len(q) : q[i] \in S
    BY ElementOfSeq
  <2>5. /\ a \in Seq(S) /\ Len(a) = k - 1
        /\ \A i \in 1..(k - 1) : a[i] = q[i]
    <3>1. \A i \in 1..(k - 1) : q[i] \in S
      BY <2>4, <1>1
    <3>2. 1 \in Int /\ k - 1 \in Int /\ k \in Nat \ {0}
      BY <1>1
    <3> QED BY <3>1, <3>2, SubSeqProperties
  <2>6. /\ b \in Seq(S) /\ Len(b) = Len(q) - k
        /\ \A i \in 1..(Len(q) - k) : b[i] = q[k + i]
    <3>1. \A i \in (k + 1)..Len(q) : q[i] \in S
      BY <2>4, <1>1
    <3>2. k + 1 \in Int /\ Len(q) \in Int /\ k <= Len(q)
      BY <1>1
    <3>3. /\ b \in Seq(S)
          /\ Len(b) = IF k + 1 <= Len(q) THEN Len(q) - (k + 1) + 1 ELSE 0
          /\ \A i \in 1..(Len(q) - (k + 1) + 1) : b[i] = q[(k + 1) + i - 1]
      BY <3>1, <3>2, SubSeqProperties
    <3> HIDE DEF b
    <3> QED BY <3>2, <3>3
  <2> HIDE DEF a, b
  <2>7. /\ r \in Seq(S) /\ Len(r) = Len(q) - 1
        /\ \A i \in 1..(Len(q) - 1) : r[i] = IF i <= k - 1 THEN a[i] ELSE b[i - (k - 1)]
    <3>1. /\ r \in Seq(S) /\ Len(r) = Len(a) + Len(b)
          /\ \A i \in 1..(Len(a) + Len(b)) : r[i] = IF i <= Len(a) THEN a[i] ELSE b[i - Len(a)]
      BY <2>5, <2>6, ConcatProperties
    <3>2. Len(a) + Len(b) = Len(q) - 1
      BY <2>5, <2>6, <1>1
    <3> HIDE DEF r
    <3> QED BY <3>1, <3>2, <2>5
  <2>8. DOMAIN r = 1..(Len(q) - 1)
    BY <2>7
  <2> HIDE DEF r
  <2>9. \A i \in 1..(Len(q) - 1) : r[i] = IF i < k THEN q[i] ELSE q[i + 1]
    <3> TAKE i \in 1..(Len(q) - 1)
    <3>1. CASE i < k
      BY <3>1, <2>5, <2>7, <1>1
    <3>2. CASE ~ (i < k)
      <4>1. i - (k - 1) \in 1..(Len(q) - k) /\ k + (i - (k - 1)) = i + 1
        BY <3>2, <1>1
      <4>2. r[i] = b[i - (k - 1)]
        BY <3>2, <2>7, <1>1
      <4>3. b[i - (k - 1)] = q[k + (i - (k - 1))]
        BY <4>1, <2>6
      <4> QED BY <3>2, <4>1, <4>2, <4>3
    <3> QED BY <3>1, <3>2
  <2> DEFINE from(i) == IF i < k THEN i ELSE i + 1
  <2>a. \A i \in 1..(Len(q) - 1) : from(i) \in 1..Len(q) /\ from(i) # k /\ r[i] = q[from(i)]
    BY <2>9, <1>1
  <2>b. \A i, j \in 1..(Len(q) - 1) : from(i) = from(j) => i = j
    BY <1>1
  <2> HIDE DEF from
  <2>10. Distinct(r)
    BY <2>8, <2>a, <2>b, <1>1 DEF Distinct
  <2>11. ASSUME NEW y PROVE In(r, y) <=> In(q, y) /\ y # x
    <3>1. ASSUME In(r, y) PROVE In(q, y) /\ y # x
      BY <3>1, <2>1, <2>8, <2>a, <1>1 DEF In, Distinct
    <3>2. ASSUME In(q, y), y # x PROVE In(r, y)
      <4>1. PICK i \in 1..Len(q) : q[i] = y
        BY <3>2, <1>1 DEF In
      <4>2. CASE i < k
        BY <4>1, <4>2, <2>8, <2>9, <1>1 DEF In
      <4>3. CASE i > k
        <5>1. i - 1 \in 1..(Len(q) - 1) /\ ~ (i - 1 < k) /\ (i - 1) + 1 = i
          BY <4>3, <1>1
        <5> QED BY <4>1, <5>1, <2>8, <2>9 DEF In
      <4> QED BY <3>2, <2>1, <4>1, <4>2, <4>3, <1>1
    <3> QED BY <3>1, <3>2
  <2>12. In(q, x)
    BY <2>1, <1>1 DEF In
  <2>13. Len(r) \in Nat /\ Len(r) >= Len(q) - 1
    BY <2>1, <2>7, <1>1
  <2> QED
    BY <2>3, <2>7, <2>10, <2>11, <2>12, <2>13
<1> QED
  BY <1>2, <1>3
-----------------------------------------------------------------------------
(* The inductive invariant.                                                *)

QueueIn ==
  /\ Distinct(patchGroupQueue)
  /\ \A id : In(patchGroupQueue, id) <=>
               id \in DOMAIN patchGroups /\ Pending(patchGroups[id])

\* Ids are handed out in order, so the next one is new.  This is what the
\* single submitter is for: two could read the counter before either adds 1.
IdsFresh ==
  /\ \A id \in DOMAIN patchGroups : id < nextAvailablePatchGroupId
  /\ \A s \in DOMAIN adding :
       /\ Pending(adding[s].group)
       /\ IF adding[s].counted
          THEN /\ adding[s].id < nextAvailablePatchGroupId
               /\ adding[s].id \notin DOMAIN patchGroups
          ELSE adding[s].id = nextAvailablePatchGroupId

AllMatchesInside ==
  /\ \A id \in DOMAIN patchGroups : MatchesInside(patchGroups[id])
  /\ \A s \in DOMAIN adding : MatchesInside(adding[s].group)

IInv ==
  /\ TypeOK /\ QueueIn /\ IdsFresh /\ AllMatchesInside
  /\ PassStaysInQueue

LEMMA InitInv == Init => IInv
<1> SUFFICES ASSUME Init PROVE IInv
  OBVIOUS
<1> USE DEF Init
<1>1. TargetTypes
  BY NatAssumption, MemoryAssumption DEF TargetTypes
<1>2. GroupTypes /\ IdTypes
  <2>1. DOMAIN patchGroups = {} /\ DOMAIN adding = {}
    BY EmptySeq
  <2>2. nextAvailablePatchGroupId \in 0..IdLimit
    BY NatAssumption
  <2>3. patchGroupQueue \in Seq(PatchGroupId)
    BY EmptySeq
  <2>4. GroupTypes
    BY <2>1, <2>3 DEF GroupTypes
  <2>5. IdTypes
    BY <2>1, <2>2 DEF IdTypes
  <2> QED BY <2>4, <2>5
<1>3. ControlTypes
  <2>1. /\ amountInQueue \in Nat /\ current \in Nat /\ withdrawn \in Nat
        /\ starts \in 0..MaxStarts /\ faults \in 0..MaxFaults
    BY NatAssumption
  <2>2. isRequestStop \in BOOLEAN /\ isRunning \in BOOLEAN /\ aborted \in BOOLEAN
    BY Zenon
  <2> QED
    BY <2>1, <2>2 DEF ControlTypes
<1>4. QueueIn /\ IdsFresh /\ AllMatchesInside
  BY DEF QueueIn, IdsFresh, AllMatchesInside, In, Distinct
<1>5. PassStaysInQueue
  BY DEF PassStaysInQueue
<1> QED
  BY <1>1, <1>2, <1>3, <1>4, <1>5 DEF IInv, TypeOK

\* A step that leaves the groups, the queue and the ids alone.
LEMMA QuietStep ==
  ASSUME IInv, UNCHANGED <<memory, groupVars, idVars>>
  PROVE  GroupTypes' /\ IdTypes' /\ QueueIn' /\ IdsFresh' /\ AllMatchesInside'
<1> USE DEF IInv, TypeOK, groupVars, idVars
<1>1. GroupTypes' /\ IdTypes'
  BY DEF GroupTypes, IdTypes, IsPatchGroup, IsResults
<1>2. QueueIn' /\ IdsFresh' /\ AllMatchesInside'
  BY DEF QueueIn, IdsFresh, AllMatchesInside
<1> QED BY <1>1, <1>2

\* Steps of the target process and of the thread that owns the Patcher.
LEMMA OutsideStep ==
  ASSUME IInv, Tick \/ (\E m \in Module : LoadModule(m)) \/ OwnerStep
  PROVE  IInv'
<1> USE DEF target, groupVars, idVars, loopVars, flagVars, ownerVars, faultVars
<1>1. UNCHANGED <<memory, groupVars, idVars>>
  BY DEF Tick, LoadModule, OwnerStep, StartPatcherThread, StopPatcherThread,
         Destroy, Waited, Joined
<1>2. GroupTypes' /\ IdTypes' /\ QueueIn' /\ IdsFresh' /\ AllMatchesInside'
  BY <1>1, QuietStep
<1>3. TargetTypes /\ ControlTypes
  BY DEF IInv, TypeOK
<1>4. TargetTypes'
  <2>1. CASE Tick
    <3>1. clock' \in 0..MaxTime
      BY <1>3, <2>1, NatAssumption DEF Tick, TargetTypes
    <3> QED BY <1>3, <2>1, <3>1 DEF Tick, TargetTypes
  <2>2. CASE \E m \in Module : LoadModule(m)
    BY <1>3, <2>2 DEF LoadModule, TargetTypes
  <2>3. CASE OwnerStep
    BY <1>3, <2>3 DEF OwnerStep, StartPatcherThread, StopPatcherThread,
                      Destroy, Waited, Joined, TargetTypes
  <2> QED BY <2>1, <2>2, <2>3
<1>5. ControlTypes'
  <2>1. CASE Tick \/ \E m \in Module : LoadModule(m)
    BY <1>3, <2>1 DEF Tick, LoadModule, ControlTypes
  <2>2. CASE StartPatcherThread
    <3>1. starts' \in 0..MaxStarts
      BY <1>3, <2>2, NatAssumption DEF StartPatcherThread, ControlTypes
    <3> QED BY <1>3, <2>2, <3>1 DEF StartPatcherThread, ControlTypes
  <2>3. CASE StopPatcherThread \/ Destroy \/ Waited \/ Joined
    BY <1>3, <2>3 DEF StopPatcherThread, Destroy, Waited, Joined, ControlTypes
  <2> QED BY <2>1, <2>2, <2>3 DEF OwnerStep
<1>6. PassStaysInQueue'
  BY DEF IInv, PassStaysInQueue, Tick, LoadModule, OwnerStep,
         StartPatcherThread, StopPatcherThread, Destroy, Waited, Joined
<1> QED
  BY <1>2, <1>4, <1>5, <1>6 DEF IInv, TypeOK

\* Steps of the patcher thread that do not visit a group.
LEMMA LoopStep ==
  ASSUME IInv,
         ThreadStarts \/ TestRequestStop \/ BeginPass \/ EndPass
           \/ PopEmptyQueue \/ ReturnFromCallback
  PROVE  IInv'
<1> USE DEF target, groupVars, idVars, loopVars, flagVars, ownerVars, faultVars
<1>1. UNCHANGED <<memory, groupVars, idVars>> /\ UNCHANGED <<loaded, clock>>
  BY DEF ThreadStarts, TestRequestStop, BeginPass, EndPass, PopEmptyQueue,
         ReturnFromCallback
<1>2. GroupTypes' /\ IdTypes' /\ QueueIn' /\ IdsFresh' /\ AllMatchesInside'
  BY <1>1, QuietStep
<1>3. TargetTypes'
  BY <1>1 DEF IInv, TypeOK, TargetTypes
<1>4. ControlTypes
  BY DEF IInv, TypeOK
<1>5. CASE ThreadStarts \/ TestRequestStop
  <2>1. ControlTypes'
    BY <1>4, <1>5 DEF ThreadStarts, TestRequestStop, ControlTypes
  <2>2. PassStaysInQueue'
    BY <1>5 DEF ThreadStarts, TestRequestStop, PassStaysInQueue
  <2> QED BY <1>2, <1>3, <2>1, <2>2 DEF IInv, TypeOK
<1>6. CASE BeginPass
  <2>1. Len(patchGroupQueue) \in Nat
    BY DEF IInv, TypeOK, GroupTypes
  <2>2. ControlTypes'
    BY <1>4, <1>6, <2>1 DEF BeginPass, ControlTypes
  <2>3. PassStaysInQueue'
    BY <1>4, <1>6, <2>1 DEF BeginPass, PassStaysInQueue, ControlTypes
  <2> QED BY <1>2, <1>3, <2>2, <2>3 DEF IInv, TypeOK
<1>7. CASE EndPass \/ PopEmptyQueue \/ ReturnFromCallback
  <2>1. ControlTypes'
    BY <1>4, <1>7 DEF EndPass, PopEmptyQueue, ReturnFromCallback, ControlTypes
  <2>2. PassStaysInQueue'
    BY <1>7 DEF EndPass, PopEmptyQueue, ReturnFromCallback, PassStaysInQueue, IInv
  <2> QED BY <1>2, <1>3, <2>1, <2>2 DEF IInv, TypeOK
<1> QED
  BY <1>5, <1>6, <1>7

-----------------------------------------------------------------------------
(* addToQueue, by the only submitter.                                      *)

\* A new group has no match yet.
LEMMA NewGroupOK ==
  ASSUME NEW r \in Catalogue, NEW t \in Nat
  PROVE  GroupOK([request |-> r, timeAdded |-> t, isTimedOut |-> FALSE,
                  isPatchesSuccessful |-> FALSE,
                  resultsAndOriginalBytes |-> [i \in DOMAIN r.patches |-> <<>>]])
<1> DEFINE e == [i \in DOMAIN r.patches |-> <<>>]
<1>1. DOMAIN e = DOMAIN r.patches
  OBVIOUS
<1>2. \A i \in DOMAIN e : IsResults(e[i]) /\ DOMAIN e[i] = {}
  BY EmptySeq DEF IsResults
<1> HIDE DEF e
<1> DEFINE g == [request |-> r, timeAdded |-> t, isTimedOut |-> FALSE,
                 isPatchesSuccessful |-> FALSE, resultsAndOriginalBytes |-> e]
<1>3. GroupOK(g)
  BY <1>1, <1>2 DEF GroupOK, IsPatchGroup, MatchesInside
<1> QED
  BY <1>3 DEF e

LEMMA AddStep ==
  ASSUME IInv, OneSubmitter, NEW s \in Submitter, NEW r \in Catalogue, AddToQueue(s, r)
  PROVE  IInv'
<1> DEFINE g == [request |-> r, timeAdded |-> clock, isTimedOut |-> FALSE,
                 isPatchesSuccessful |-> FALSE,
                 resultsAndOriginalBytes |-> [i \in DOMAIN r.patches |-> <<>>]]
           call == [id |-> nextAvailablePatchGroupId, counted |-> FALSE, group |-> g]
<1>1. GroupOK(g) /\ Pending(g)
  BY NewGroupOK DEF IInv, TypeOK, TargetTypes, Pending
<1>2. UNCHANGED <<target, groupVars, nextAvailablePatchGroupId, loopVars,
                  flagVars, ownerVars, aborted, faultVars>>
  BY DEF AddToQueue
<1>3. adding' = With(adding, s, call)
  BY DEF AddToQueue
<1> HIDE DEF g
<1>4. DOMAIN adding = {}
  BY DEF OneSubmitter, IInv, TypeOK, IdTypes, AddToQueue
<1>5. DOMAIN adding' = {s} /\ adding'[s] = call
  BY <1>3, <1>4 DEF With
<1>6. nextAvailablePatchGroupId \in PatchGroupId
  BY NatAssumption DEF AddToQueue, HasId, IInv, TypeOK, IdTypes, PatchGroupId
<1>7. IdTypes'
  <2>1. IsPatchGroup(adding'[s].group)
    BY <1>1, <1>5 DEF GroupOK
  <2>2. adding'[s] \in [id : PatchGroupId, counted : BOOLEAN, group : {adding'[s].group}]
    BY <1>5, <1>6
  <2>3. nextAvailablePatchGroupId' \in 0..IdLimit
    BY <1>2 DEF IdTypes, IInv, TypeOK
  <2> QED
    BY <1>5, <2>1, <2>2, <2>3 DEF IdTypes, IsPatchGroup, IsResults
<1>8. TargetTypes' /\ GroupTypes' /\ ControlTypes' /\ QueueIn'
      /\ PassStaysInQueue'
  BY <1>2 DEF IInv, TypeOK, TargetTypes, GroupTypes, ControlTypes, QueueIn,
              PassStaysInQueue, target, groupVars, loopVars,
              flagVars, ownerVars, faultVars
<1>9. IdsFresh' /\ AllMatchesInside'
  <2>1. IdsFresh'
    BY <1>1, <1>2, <1>5 DEF IInv, IdsFresh, groupVars
  <2>2. AllMatchesInside'
    BY <1>1, <1>2, <1>5 DEF IInv, AllMatchesInside, groupVars, GroupOK
  <2> QED BY <2>1, <2>2
<1> QED
  BY <1>7, <1>8, <1>9 DEF IInv, TypeOK

LEMMA CountStep ==
  ASSUME IInv, OneSubmitter, NEW s \in Submitter, CountId(s)
  PROVE  IInv'
<1> DEFINE n == nextAvailablePatchGroupId
<1>1. UNCHANGED <<target, groupVars, loopVars, flagVars, ownerVars, aborted, faultVars>>
  BY DEF CountId
<1>2. DOMAIN adding = {s} /\ DOMAIN adding' = {s}
  BY DEF OneSubmitter, IInv, TypeOK, IdTypes, CountId
<1>3. adding[s].id = n /\ Pending(adding[s].group)
  BY DEF CountId, IInv, IdsFresh
<1>4. n \in 0..IdLimit /\ adding[s].id \in 0..(IdLimit - 1)
  BY <1>2 DEF IInv, TypeOK, IdTypes, PatchGroupId
<1>5. n' = n + 1
  BY <1>3 DEF CountId
<1>6. n' \in 0..IdLimit
  BY <1>3, <1>4, <1>5, NatAssumption
<1>7. adding'[s] = [adding[s] EXCEPT !.counted = TRUE]
  BY <1>2 DEF CountId
<1>8. adding[s] \in [id : PatchGroupId, counted : BOOLEAN, group : {adding[s].group}]
  BY <1>2 DEF IInv, TypeOK, IdTypes
<1>9. adding'[s].id = n /\ adding'[s].counted /\ adding'[s].group = adding[s].group
  BY <1>3, <1>7, <1>8
<1>10. IdTypes'
  <2>1. IsPatchGroup(adding[s].group)
    BY <1>2 DEF IInv, TypeOK, IdTypes
  <2>2. adding'[s] \in [id : PatchGroupId, counted : BOOLEAN, group : {adding'[s].group}]
    BY <1>7, <1>8
  <2> QED
    BY <1>2, <1>6, <1>9, <2>1, <2>2 DEF IdTypes
<1>11. TargetTypes' /\ GroupTypes' /\ ControlTypes' /\ QueueIn'
       /\ PassStaysInQueue'
  BY <1>1 DEF IInv, TypeOK, TargetTypes, GroupTypes, ControlTypes, QueueIn,
              PassStaysInQueue, target, groupVars, loopVars,
              flagVars, ownerVars, faultVars
<1>12. IdsFresh'
  <2>1. \A id \in DOMAIN patchGroups : id < n /\ id \in Nat
    BY NatAssumption DEF IInv, IdsFresh, TypeOK, GroupTypes, PatchGroupId
  <2>2. \A id \in DOMAIN patchGroups' : id < n'
    BY <1>1, <1>4, <1>5, <2>1 DEF groupVars
  <2>3. n < n' /\ n \notin DOMAIN patchGroups'
    BY <1>1, <1>4, <1>5, <2>1 DEF groupVars
  <2>4. Pending(adding'[s].group)
    BY <1>3, <1>9
  <2> QED
    BY <1>2, <1>9, <2>2, <2>3, <2>4 DEF IdsFresh, Pending
<1>13. AllMatchesInside'
  BY <1>1, <1>2, <1>9 DEF IInv, AllMatchesInside, groupVars
<1> QED
  BY <1>10, <1>11, <1>12, <1>13 DEF IInv, TypeOK

LEMMA InsertStep ==
  ASSUME IInv, OneSubmitter, NEW s \in Submitter, InsertGroup(s)
  PROVE  IInv'
<1> DEFINE id == adding[s].id
           g  == adding[s].group
<1>1. UNCHANGED <<target, nextAvailablePatchGroupId, loopVars, flagVars,
                  ownerVars, aborted, faultVars>>
  BY DEF InsertGroup
<1>2. DOMAIN adding = {s} /\ DOMAIN adding' = {}
  BY DEF OneSubmitter, IInv, TypeOK, IdTypes, InsertGroup, Restrict
<1>3. id \in PatchGroupId /\ IsPatchGroup(g)
  BY <1>2 DEF IInv, TypeOK, IdTypes
<1>4. /\ Pending(g) /\ id \notin DOMAIN patchGroups
      /\ id < nextAvailablePatchGroupId
  BY DEF InsertGroup, IInv, IdsFresh
<1>5. MatchesInside(g)
  BY <1>2 DEF IInv, AllMatchesInside
<1>6. patchGroups' = With(patchGroups, id, g) /\ patchGroupQueue' = Append(patchGroupQueue, id)
  BY DEF InsertGroup
<1> HIDE DEF id, g
<1>7. /\ DOMAIN patchGroups' = DOMAIN patchGroups \cup {id}
      /\ patchGroups'[id] = g
      /\ \A y \in DOMAIN patchGroups : patchGroups'[y] = patchGroups[y]
  BY <1>4, <1>6 DEF With
<1>8. /\ patchGroupQueue \in Seq(PatchGroupId) /\ Distinct(patchGroupQueue)
      /\ ~ In(patchGroupQueue, id)
  BY <1>4 DEF IInv, TypeOK, GroupTypes, QueueIn
<1>9. /\ patchGroupQueue' \in Seq(PatchGroupId) /\ Distinct(patchGroupQueue')
      /\ \A y : In(patchGroupQueue', y) <=> In(patchGroupQueue, y) \/ y = id
  BY <1>3, <1>6, <1>8, AppendQueue
<1>10. GroupTypes'
  BY <1>3, <1>7, <1>9 DEF IInv, TypeOK, GroupTypes, IsPatchGroup, IsResults
<1>11. QueueIn'
  BY <1>4, <1>7, <1>9 DEF IInv, QueueIn, Pending
<1>12. IdTypes' /\ IdsFresh' /\ AllMatchesInside'
  BY <1>1, <1>2, <1>4, <1>5, <1>7
     DEF IInv, TypeOK, IdTypes, IdsFresh, AllMatchesInside
<1>13. TargetTypes' /\ ControlTypes' /\ PassStaysInQueue'
  <2>1. patcherThread' \notin {"pass", "callback"}
    BY <1>1 DEF InsertGroup, LockFree, loopVars
  <2> QED
    BY <1>1, <2>1 DEF IInv, TypeOK, TargetTypes, ControlTypes, PassStaysInQueue, target, loopVars, flagVars, ownerVars, faultVars
<1> QED
  BY <1>10, <1>11, <1>12, <1>13 DEF IInv, TypeOK

-----------------------------------------------------------------------------
(* undoPatchGroup, by a client or by a callback.                           *)

\* What undoing a group does to the groups, the queue and the memory.
LEMMA UndoParts ==
  ASSUME IInv, NEW id, Undo(id), UNCHANGED <<loaded, clock, idVars>>
  PROVE  /\ TargetTypes' /\ GroupTypes' /\ IdTypes' /\ QueueIn' /\ IdsFresh'
         /\ AllMatchesInside'
         /\ Len(patchGroupQueue') \in Nat /\ Len(patchGroupQueue) \in Nat
         /\ IF Pending(patchGroups[id]) THEN Len(patchGroupQueue') >= Len(patchGroupQueue) - 1
                                        ELSE patchGroupQueue' = patchGroupQueue
<1> DEFINE g == patchGroups[id]
<1>1. id \in DOMAIN patchGroups /\ IsPatchGroup(g)
  BY DEF Undo, IInv, TypeOK, GroupTypes
<1>2. /\ DOMAIN patchGroups' = DOMAIN patchGroups \ {id}
      /\ \A y \in DOMAIN patchGroups' : patchGroups'[y] = patchGroups[y]
  BY DEF Undo, Restrict
<1>3. TargetTypes'
  <2>1. memory \in [Addr -> Byte] /\ Writes(g) \in SUBSET Writes(g)
    BY DEF IInv, TypeOK, TargetTypes
  <2>2. MemoryRestored(g, Writes(g)) \in [Addr -> Byte]
    BY <1>1, <2>1, MemoryRestoredType
  <2> QED
    BY <2>1, <2>2 DEF Undo, IInv, TypeOK, TargetTypes
<1>4. /\ patchGroupQueue \in Seq(PatchGroupId) /\ Distinct(patchGroupQueue)
      /\ In(patchGroupQueue, id) <=> Pending(g)
  BY <1>1 DEF IInv, TypeOK, GroupTypes, QueueIn
<1>5. patchGroupQueue' = IF Pending(g) THEN WithoutFirst(patchGroupQueue, id)
                                       ELSE patchGroupQueue
  BY DEF Undo
<1>6. /\ patchGroupQueue' \in Seq(PatchGroupId) /\ Distinct(patchGroupQueue')
      /\ \A y : In(patchGroupQueue', y) <=> In(patchGroupQueue, y) /\ y # id
      /\ Len(patchGroupQueue') \in Nat /\ Len(patchGroupQueue) \in Nat
      /\ Pending(g) => Len(patchGroupQueue') >= Len(patchGroupQueue) - 1
  BY <1>4, <1>5, RemoveFromQueue, LenProperties
<1>7. GroupTypes'
  BY <1>2, <1>6 DEF IInv, TypeOK, GroupTypes, IsPatchGroup, IsResults
<1>8. QueueIn'
  BY <1>2, <1>6 DEF IInv, QueueIn, Pending
<1>9. IdTypes' /\ IdsFresh' /\ AllMatchesInside'
  BY <1>2 DEF IInv, TypeOK, IdTypes, IdsFresh, AllMatchesInside, idVars
<1> QED
  BY <1>3, <1>5, <1>6, <1>7, <1>8, <1>9

\* An undo that throws touches only the memory.
LEMMA UndoThrowsParts ==
  ASSUME IInv, NEW id, UndoThrows(id), UNCHANGED <<loaded, clock, idVars>>
  PROVE  /\ TargetTypes' /\ GroupTypes' /\ IdTypes' /\ QueueIn' /\ IdsFresh'
         /\ AllMatchesInside'
         /\ patchGroups' = patchGroups /\ patchGroupQueue' = patchGroupQueue
         /\ faults' \in 0..MaxFaults /\ tainted' \subseteq Addr
<1>1. UNCHANGED <<groupVars, idVars>>
  BY DEF UndoThrows
<1>2. TargetTypes'
  <2> DEFINE g == patchGroups[id]
  <2>1. memory \in [Addr -> Byte] /\ IsPatchGroup(g)
    BY DEF IInv, TypeOK, TargetTypes, GroupTypes, UndoThrows
  <2>2. PICK D \in Prefixes(Writes(g)) : memory' = MemoryRestored(g, D)
    BY DEF UndoThrows
  <2>3. D \in SUBSET Writes(g)
    BY DEF Prefixes
  <2>4. memory' \in [Addr -> Byte]
    BY <2>1, <2>2, <2>3, MemoryRestoredType
  <2> QED
    BY <2>4 DEF IInv, TypeOK, TargetTypes
<1>3. GroupTypes' /\ IdTypes' /\ QueueIn' /\ IdsFresh' /\ AllMatchesInside'
  BY <1>1 DEF IInv, TypeOK, GroupTypes, IdTypes, QueueIn, IdsFresh,
              AllMatchesInside, IsPatchGroup, IsResults, groupVars, idVars
<1>4. faults' \in 0..MaxFaults
  BY NatAssumption DEF UndoThrows, IInv, TypeOK, ControlTypes
<1>5. tainted' \subseteq Addr
  BY DEF UndoThrows, IInv, TypeOK, ControlTypes, Touched
<1> QED
  BY <1>1, <1>2, <1>3, <1>4, <1>5 DEF groupVars

LEMMA ClientUndoStep ==
  ASSUME IInv, NEW id, UndoPatchGroup(id)
  PROVE  IInv'
<1>1. /\ UNCHANGED <<loaded, clock, idVars, loopVars, flagVars, ownerVars, aborted>>
      /\ patcherThread \notin {"pass", "callback"}
  BY DEF UndoPatchGroup, LockFree
<1>2. /\ TargetTypes' /\ GroupTypes' /\ IdTypes' /\ QueueIn' /\ IdsFresh'
      /\ AllMatchesInside'
  BY <1>1, UndoParts, UndoThrowsParts DEF UndoPatchGroup
<1>3. faults' \in 0..MaxFaults /\ tainted' \subseteq Addr
  BY <1>1, UndoThrowsParts DEF UndoPatchGroup, Undo, faultVars, IInv, TypeOK, ControlTypes
<1>4. ControlTypes' /\ PassStaysInQueue'
  BY <1>1, <1>3 DEF IInv, TypeOK, ControlTypes, PassStaysInQueue, loopVars, flagVars, ownerVars
<1> QED
  BY <1>2, <1>4 DEF IInv, TypeOK

\* A callback undoes its own group, or another one, which may be queued.
LEMMA CallbackStep ==
  ASSUME IInv, NEW id, CallbackUndoes(id)
  PROVE  IInv'
<1>1. /\ UNCHANGED <<loaded, clock, idVars, amountInQueue, current, flagVars, ownerVars>>
      /\ patcherThread = "callback"
  BY DEF CallbackUndoes
<1>2. /\ amountInQueue <= Len(patchGroupQueue) + withdrawn
      /\ withdrawn \in Nat /\ amountInQueue \in Nat
  BY <1>1 DEF IInv, PassStaysInQueue, TypeOK, ControlTypes
<1>3. CASE /\ Undo(id) /\ patcherThread' = "pass" /\ UNCHANGED aborted
           /\ withdrawn' = withdrawn + (IF Pending(patchGroups[id]) THEN 1 ELSE 0)
  <2>1. /\ TargetTypes' /\ GroupTypes' /\ IdTypes' /\ QueueIn' /\ IdsFresh'
        /\ AllMatchesInside'
        /\ Len(patchGroupQueue') \in Nat /\ Len(patchGroupQueue) \in Nat
        /\ IF Pending(patchGroups[id]) THEN Len(patchGroupQueue') >= Len(patchGroupQueue) - 1
                                       ELSE patchGroupQueue' = patchGroupQueue
    BY <1>1, <1>3, UndoParts
  <2>2. withdrawn' \in Nat /\ amountInQueue <= Len(patchGroupQueue') + withdrawn'
    BY <1>2, <1>3, <2>1
  <2>3. ControlTypes'
    BY <1>1, <1>3, <2>2 DEF Undo, IInv, TypeOK, ControlTypes, faultVars, flagVars, ownerVars
  <2>4. PassStaysInQueue'
    BY <1>1, <1>3, <2>2 DEF PassStaysInQueue
  <2> QED BY <2>1, <2>3, <2>4 DEF IInv, TypeOK
<1>4. CASE UndoThrows(id) /\ aborted' = TRUE /\ UNCHANGED <<patcherThread, withdrawn>>
  <2>1. /\ TargetTypes' /\ GroupTypes' /\ IdTypes' /\ QueueIn' /\ IdsFresh'
        /\ AllMatchesInside'
        /\ patchGroups' = patchGroups /\ patchGroupQueue' = patchGroupQueue
        /\ faults' \in 0..MaxFaults /\ tainted' \subseteq Addr
    BY <1>1, <1>4, UndoThrowsParts
  <2>2. ControlTypes'
    BY <1>1, <1>4, <2>1 DEF IInv, TypeOK, ControlTypes, flagVars, ownerVars
  <2>3. PassStaysInQueue'
    BY <1>1, <1>4, <2>1 DEF IInv, PassStaysInQueue, CallbackOf, Pending
  <2> QED BY <2>1, <2>2, <2>3 DEF IInv, TypeOK
<1> QED
  BY <1>3, <1>4 DEF CallbackUndoes

-----------------------------------------------------------------------------
(* The thread visits the group at the front of the queue.                  *)

\* That group is pending, and the pass has still to count it.
LEMMA VisitFacts ==
  ASSUME IInv, NEW id, Visiting(id)
  PROVE  /\ id \in DOMAIN patchGroups /\ id \in PatchGroupId
         /\ Pending(patchGroups[id]) /\ GroupOK(patchGroups[id])
         /\ patchGroupQueue \in Seq(PatchGroupId) /\ patchGroupQueue # <<>>
         /\ Distinct(patchGroupQueue) /\ id = Head(patchGroupQueue)
         /\ amountInQueue - 1 \in Nat /\ withdrawn \in Nat
         /\ amountInQueue - 1 <= Len(Tail(patchGroupQueue)) + withdrawn
<1>1. /\ patchGroupQueue \in Seq(PatchGroupId) /\ patchGroupQueue # <<>>
      /\ Distinct(patchGroupQueue) /\ id = Head(patchGroupQueue)
  BY DEF Visiting, IInv, TypeOK, GroupTypes, QueueIn
<1>2. /\ In(patchGroupQueue, id) /\ id \in PatchGroupId
      /\ Len(Tail(patchGroupQueue)) = Len(patchGroupQueue) - 1
      /\ Len(patchGroupQueue) \in Nat \ {0}
  BY <1>1, TailQueue
<1>3. id \in DOMAIN patchGroups /\ Pending(patchGroups[id])
  BY <1>2 DEF IInv, QueueIn
<1>4. GroupOK(patchGroups[id])
  BY <1>3 DEF IInv, TypeOK, GroupTypes, AllMatchesInside, GroupOK
<1>5. /\ amountInQueue \in Nat /\ amountInQueue > 0 /\ withdrawn \in Nat
      /\ amountInQueue <= Len(patchGroupQueue) + withdrawn
  BY DEF Visiting, IInv, TypeOK, ControlTypes, PassStaysInQueue
<1>6. /\ amountInQueue - 1 \in Nat
      /\ amountInQueue - 1 <= Len(Tail(patchGroupQueue)) + withdrawn
  BY <1>2, <1>5
<1> QED
  BY <1>1, <1>2, <1>3, <1>4, <1>5, <1>6

\* What every visit leaves alone, and what it may do to memory and history.
VisitFrame ==
  /\ UNCHANGED <<loaded, clock, idVars, flagVars, ownerVars, aborted>>
  /\ memory' \in [Addr -> Byte]
  /\ faults' \in 0..MaxFaults /\ tainted' \subseteq Addr

\* A visit that ends with the group back in the queue.
LEMMA RequeueStep ==
  ASSUME IInv, NEW id, Visiting(id), VisitFrame,
         NEW g, GroupOK(g), Pending(g), Requeue(id, g)
  PROVE  IInv'
<1> DEFINE q == patchGroupQueue
<1>1. /\ id \in DOMAIN patchGroups /\ id \in PatchGroupId
      /\ Pending(patchGroups[id]) /\ q \in Seq(PatchGroupId) /\ q # <<>>
      /\ Distinct(q) /\ id = Head(q)
      /\ amountInQueue - 1 \in Nat /\ withdrawn \in Nat
      /\ amountInQueue - 1 <= Len(Tail(q)) + withdrawn
  BY VisitFacts
<1>2. /\ DOMAIN patchGroups' = DOMAIN patchGroups /\ patchGroups'[id] = g
      /\ \A y \in DOMAIN patchGroups : y # id => patchGroups'[y] = patchGroups[y]
  BY <1>1 DEF Requeue, SetGroup
<1>3. /\ Tail(q) \in Seq(PatchGroupId) /\ Distinct(Tail(q)) /\ Len(Tail(q)) \in Nat
      /\ \A y : In(Tail(q), y) <=> In(q, y) /\ y # id
      /\ In(q, id)
  BY <1>1, TailQueue
<1>4. ~ In(Tail(q), id)
  BY <1>3
<1>5. /\ q' \in Seq(PatchGroupId) /\ Distinct(q') /\ Len(q') = Len(Tail(q)) + 1
      /\ \A y : In(q', y) <=> In(Tail(q), y) \/ y = id
  BY <1>1, <1>3, <1>4, AppendQueue DEF Requeue
<1>6. \A y : In(q', y) <=> In(q, y)
  BY <1>3, <1>5
<1>7. GroupTypes'
  BY <1>2, <1>5 DEF IInv, TypeOK, GroupTypes, GroupOK, IsPatchGroup, IsResults
<1>8. QueueIn'
  BY <1>1, <1>2, <1>5, <1>6 DEF IInv, QueueIn, Pending
<1>9. TargetTypes' /\ IdTypes'
  BY DEF VisitFrame, IInv, TypeOK, TargetTypes, IdTypes, idVars
<1>10. IdsFresh' /\ AllMatchesInside'
  BY <1>2 DEF VisitFrame, IInv, IdsFresh, AllMatchesInside, GroupOK, idVars
<1>11. patcherThread' = patcherThread /\ patcherThread = "pass"
       /\ amountInQueue' = amountInQueue - 1 /\ UNCHANGED <<current, withdrawn>>
  BY DEF Requeue, Visiting
<1>12. amountInQueue' <= Len(q') + withdrawn'
  BY <1>1, <1>3, <1>5, <1>11
<1>13. ControlTypes'
  BY <1>1, <1>11 DEF VisitFrame, IInv, TypeOK, ControlTypes, flagVars, ownerVars
<1>14. PassStaysInQueue'
  BY <1>11, <1>12 DEF PassStaysInQueue
<1> QED
  BY <1>7, <1>8, <1>9, <1>10, <1>13, <1>14 DEF IInv, TypeOK

\* A visit that decides the group and goes on to its callback.
LEMMA DecideStep ==
  ASSUME IInv, NEW id, Visiting(id), VisitFrame,
         NEW g, GroupOK(g), ~ Pending(g), SetGroup(id, g),
         patchGroupQueue' = Tail(patchGroupQueue),
         AfterCallback(id, CallbackOf(g))
  PROVE  IInv'
<1> DEFINE q == patchGroupQueue
<1>1. /\ id \in DOMAIN patchGroups /\ id \in PatchGroupId
      /\ Pending(patchGroups[id]) /\ q \in Seq(PatchGroupId) /\ q # <<>>
      /\ Distinct(q) /\ id = Head(q)
      /\ amountInQueue - 1 \in Nat /\ withdrawn \in Nat
      /\ amountInQueue - 1 <= Len(Tail(q)) + withdrawn
  BY VisitFacts
<1>2. /\ DOMAIN patchGroups' = DOMAIN patchGroups /\ patchGroups'[id] = g
      /\ \A y \in DOMAIN patchGroups : y # id => patchGroups'[y] = patchGroups[y]
  BY <1>1 DEF SetGroup
<1>3. /\ q' \in Seq(PatchGroupId) /\ Distinct(q')
      /\ \A y : In(q', y) <=> In(q, y) /\ y # id
  BY <1>1, TailQueue
<1>4. GroupTypes'
  BY <1>2, <1>3 DEF IInv, TypeOK, GroupTypes, GroupOK, IsPatchGroup, IsResults
<1>5. QueueIn'
  BY <1>1, <1>2, <1>3 DEF IInv, QueueIn, Pending
<1>6. TargetTypes' /\ IdTypes'
  BY DEF VisitFrame, IInv, TypeOK, TargetTypes, IdTypes, idVars
<1>7. IdsFresh' /\ AllMatchesInside'
  BY <1>2 DEF VisitFrame, IInv, IdsFresh, AllMatchesInside, GroupOK, idVars
<1>8. /\ amountInQueue' = amountInQueue - 1 /\ patcherThread = "pass"
      /\ UNCHANGED withdrawn
      /\ \/ patcherThread' = "pass" /\ current' = current
         \/ patcherThread' = "callback" /\ current' = id
  BY DEF AfterCallback, Visiting
<1>9. ControlTypes'
  <2>1. amountInQueue' \in Nat
    BY <1>1, <1>8
  <2>2. /\ current' \in Nat /\ patcherThread' \in {"pass", "callback"}
        /\ withdrawn' \in Nat
    BY <1>1, <1>8, NatAssumption DEF PatchGroupId, IInv, TypeOK, ControlTypes
  <2> QED
    BY <2>1, <2>2 DEF VisitFrame, IInv, TypeOK, ControlTypes, flagVars, ownerVars
<1>10. PassStaysInQueue'
  <2>1. amountInQueue' <= Len(q') + withdrawn'
    BY <1>1, <1>8
  <2> QED
    BY <1>1, <1>2, <1>8, <2>1 DEF PassStaysInQueue, Pending
<1> QED
  BY <1>4, <1>5, <1>6, <1>7, <1>9, <1>10 DEF IInv, TypeOK

\* The group once every patch has been searched.
LEMMA SearchedFacts ==
  ASSUME IInv, NEW id, Visiting(id)
  PROVE  /\ GroupOK(Searched(id)) /\ Pending(Searched(id))
         /\ Searched(id).request = patchGroups[id].request
         /\ Searched(id).request \in Catalogue
<1> DEFINE g == patchGroups[id]
           k == Len(g.request.patches) + 1
<1>1. GroupOK(g) /\ Pending(g) /\ g.request \in Catalogue
  BY VisitFacts DEF GroupOK, IsPatchGroup
<1>2. k \in Nat
  BY <1>1, CatalogueAssumption DEF Request
<1>3. GroupOK(SearchedUpTo(g, k))
  BY <1>1, <1>2, SearchedUpToOK
<1>4. /\ SearchedUpTo(g, k).isTimedOut = g.isTimedOut
      /\ SearchedUpTo(g, k).isPatchesSuccessful = g.isPatchesSuccessful
      /\ SearchedUpTo(g, k).request = g.request
  BY <1>1 DEF SearchedUpTo, GroupOK, IsPatchGroup
<1> QED
  BY <1>1, <1>3, <1>4 DEF Searched, Pending

\* Every disjunct of a visit.
LEMMA VisitStep ==
  ASSUME IInv, NEW id \in DOMAIN patchGroups,
         TimeOutGroup(id) \/ SearchThrows(id) \/ SearchFindsNothing(id)
           \/ ApplyGroup(id) \/ WriteThrows(id)
  PROVE  IInv'
<1> DEFINE g == patchGroups[id]
<1>1. Visiting(id)
  BY DEF TimeOutGroup, SearchThrows, SearchFindsNothing, ApplyGroup, WriteThrows, Found
<1>2. /\ GroupOK(g) /\ Pending(g) /\ IsPatchGroup(g) /\ g.request \in Catalogue
      /\ g.request \in Request
  BY <1>1, VisitFacts, CatalogueAssumption DEF GroupOK, IsPatchGroup
<1>3. /\ memory \in [Addr -> Byte] /\ faults \in 0..MaxFaults /\ tainted \subseteq Addr
  BY DEF IInv, TypeOK, TargetTypes, ControlTypes
<1>5. CASE TimeOutGroup(id)
  <2> DEFINE h == [g EXCEPT !.isTimedOut = TRUE]
  <2>1. VisitFrame
    BY <1>3, <1>5 DEF TimeOutGroup, VisitFrame, target, faultVars
  <2>2. GroupOK(h) /\ ~ Pending(h) /\ CallbackOf(h) = g.request.onFailure
    BY <1>2 DEF GroupOK, MatchesInside, IsPatchGroup, Pending, CallbackOf
  <2>3. SetGroup(id, h) /\ AfterCallback(id, CallbackOf(h))
        /\ patchGroupQueue' = Tail(patchGroupQueue)
    BY <1>5, <2>2 DEF TimeOutGroup
  <2> HIDE DEF h
  <2> QED
    BY <1>1, <2>1, <2>2, <2>3, DecideStep
<1>6. CASE SearchThrows(id)
  <2>1. VisitFrame
    <3>1. faults' \in 0..MaxFaults
      BY <1>3, <1>6, NatAssumption DEF SearchThrows
    <3> QED
      BY <1>3, <1>6, <3>1 DEF SearchThrows, VisitFrame, target
  <2>2. PICK k \in Reached(g) : Requeue(id, SearchedUpTo(g, k))
    BY <1>6 DEF SearchThrows
  <2>3. k \in Nat
    BY <1>2 DEF Reached, Request
  <2>4. GroupOK(SearchedUpTo(g, k)) /\ Pending(SearchedUpTo(g, k))
    BY <1>2, <2>3, SearchedUpToOK DEF SearchedUpTo, Pending, IsPatchGroup
  <2> QED
    BY <1>1, <2>1, <2>2, <2>4, RequeueStep
<1>7. CASE SearchFindsNothing(id)
  <2>1. VisitFrame
    BY <1>3, <1>7 DEF SearchFindsNothing, VisitFrame, target, faultVars
  <2>2. Requeue(id, Cleared(g))
    BY <1>7 DEF SearchFindsNothing
  <2>3. GroupOK(Cleared(g)) /\ Pending(Cleared(g))
    BY <1>2, ClearedOK DEF Cleared, Pending, IsPatchGroup
  <2> QED
    BY <1>1, <2>1, <2>2, <2>3, RequeueStep
<1> DEFINE s == Searched(id)
           W == Writes(s)
<1>8. GroupOK(s) /\ Pending(s) /\ s.request = g.request /\ IsPatchGroup(s)
  BY <1>1, SearchedFacts DEF GroupOK
<1>9. CASE ApplyGroup(id)
  <2> DEFINE r == ResultsAfter(s, W)
             h == [s EXCEPT !.isPatchesSuccessful = TRUE, !.resultsAndOriginalBytes = r]
             w == [s EXCEPT !.resultsAndOriginalBytes = r]
  <2>1. memory' \in [Addr -> Byte]
    BY <1>3, <1>8, <1>9, MemoryAfterType DEF ApplyGroup
  <2>2. VisitFrame
    BY <1>3, <1>9, <2>1 DEF ApplyGroup, VisitFrame, Clash
  <2>3. GroupOK(w)
    BY <1>3, <1>8, ResultsAfterOK
  <2> HIDE DEF r
  <2>4. GroupOK(h) /\ ~ Pending(h) /\ CallbackOf(h) = g.request.onSuccess
    BY <1>8, <2>3 DEF GroupOK, MatchesInside, IsPatchGroup, Pending, CallbackOf
  <2>5. SetGroup(id, h) /\ AfterCallback(id, s.request.onSuccess)
        /\ patchGroupQueue' = Tail(patchGroupQueue)
    BY <1>9 DEF ApplyGroup, r
  <2>6. AfterCallback(id, CallbackOf(h))
    BY <1>8, <2>4, <2>5
  <2> HIDE DEF h, s
  <2> QED
    BY <1>1, <2>2, <2>4, <2>5, <2>6, DecideStep
<1>10. CASE WriteThrows(id)
  <2>1. PICK D \in Prefixes(W) :
          /\ memory' = MemoryAfter(s, D)
          /\ tainted' = tainted \cup Touched(s, D)
          /\ Requeue(id, [s EXCEPT !.resultsAndOriginalBytes = ResultsAfter(s, D)])
    BY <1>10 DEF WriteThrows
  <2>2. D \in SUBSET Writes(s)
    BY DEF Prefixes
  <2>3. memory' \in [Addr -> Byte]
    BY <1>3, <1>8, <2>1, <2>2, MemoryAfterType
  <2>4. faults' \in 0..MaxFaults
    BY <1>3, <1>10, NatAssumption DEF WriteThrows
  <2>5. VisitFrame
    BY <1>3, <1>10, <2>1, <2>3, <2>4 DEF WriteThrows, VisitFrame, Touched
  <2> DEFINE r == ResultsAfter(s, D)
             h == [s EXCEPT !.resultsAndOriginalBytes = r]
  <2>6. GroupOK(h)
    BY <1>3, <1>8, <2>2, ResultsAfterOK
  <2> HIDE DEF r
  <2>7. Pending(h)
    BY <1>8 DEF Pending, IsPatchGroup
  <2>8. Requeue(id, h)
    BY <2>1 DEF r
  <2> HIDE DEF h
  <2> QED
    BY <1>1, <2>5, <2>6, <2>7, <2>8, RequeueStep
<1> QED
  BY <1>5, <1>6, <1>7, <1>9, <1>10

-----------------------------------------------------------------------------
LEMMA StepInv ==
  ASSUME OneSubmitter, IInv, [Next]_vars
  PROVE  IInv'
<1>1. CASE Next
  <2>1. CASE ThreadStep
    <3>1. CASE \E id \in DOMAIN patchGroups : CallbackUndoes(id)
      BY <3>1, CallbackStep
    <3>2. CASE \E id \in DOMAIN patchGroups :
                 TimeOutGroup(id) \/ SearchThrows(id) \/ SearchFindsNothing(id)
                   \/ ApplyGroup(id) \/ WriteThrows(id)
      BY <3>2, VisitStep
    <3> QED
      BY <2>1, <3>1, <3>2, LoopStep DEF ThreadStep
  <2>2. CASE OwnerStep \/ Tick \/ \E m \in Module : LoadModule(m)
    BY <2>2, OutsideStep
  <2>3. CASE \E s \in Submitter :
               CountId(s) \/ InsertGroup(s) \/ \E r \in Catalogue : AddToQueue(s, r)
    BY <2>3, AddStep, CountStep, InsertStep
  <2>4. CASE \E id \in DOMAIN patchGroups : UndoPatchGroup(id)
    BY <2>4, ClientUndoStep
  <2> QED
    BY <1>1, <2>1, <2>2, <2>3, <2>4 DEF Next
<1>2. CASE UNCHANGED vars
  <2>1. GroupTypes' /\ IdTypes' /\ QueueIn' /\ IdsFresh' /\ AllMatchesInside'
    BY <1>2, QuietStep DEF vars, target
  <2>2. TargetTypes' /\ ControlTypes' /\ PassStaysInQueue'
    BY <1>2 DEF IInv, TypeOK, TargetTypes, ControlTypes, PassStaysInQueue, vars, target, groupVars, loopVars, flagVars, ownerVars, faultVars
  <2> QED BY <2>1, <2>2 DEF IInv, TypeOK
<1> QED
  BY <1>1, <1>2

\* The inductive invariant of the Patcher holds for ever.
LEMMA PatcherInvariant ==
  ASSUME OneSubmitter
  PROVE  Spec => []IInv
<1>1. Init => IInv
  BY InitInv
<1>2. IInv /\ [Next]_vars => IInv'
  BY StepInv
<1> QED
  BY <1>1, <1>2, PTL DEF Spec

\* Every variable of the Patcher holds a value of its type; in particular the
\* bytes that are saved, written and put back are bytes of the process, and
\* an id never exceeds the allocator's limit.
THEOREM PatcherTypeOK ==
  ASSUME OneSubmitter
  PROVE  Spec => []TypeOK
<1>1. IInv => TypeOK
  BY DEF IInv
<1> QED
  BY <1>1, PatcherInvariant, PTL

\* The queue holds exactly the undecided groups, each once: addToQueue(),
\* patcher_() and undoPatchGroup() agree on it in every interleaving.
THEOREM PatcherQueueExact ==
  ASSUME OneSubmitter
  PROVE  Spec => []QueueExact
<1>1. IInv => QueueExact
  BY DEF IInv, QueueIn, QueueExact, In, Distinct
<1> QED
  BY <1>1, PatcherInvariant, PTL

\* A pass pops from an empty queue only for queued groups that a callback of
\* the same pass withdrew, whatever callbacks do; and a callback that runs
\* inside it finds its own group decided and still registered.
THEOREM PatcherPassStaysInQueue ==
  ASSUME OneSubmitter
  PROVE  Spec => []PassStaysInQueue
<1>1. IInv => PassStaysInQueue
  BY DEF IInv
<1> QED
  BY <1>1, PatcherInvariant, PTL
-----------------------------------------------------------------------------
(* What the writes of a group do, byte by byte.                            *)

PatchOf(g, w) == g.request.patches[w[1]]

IsOver(g, w, x) == Covers(PatchOf(g, w), w[2], x)
IsOn(g, w, x)   == x \in Span(PatchOf(g, w), w[2])

SavedAt(g, w, x) == g.resultsAndOriginalBytes[w[1]][w[2]][x - w[2] + 1]

\* A write of a group belongs to one of its patches.
LEMMA WriteFacts ==
  ASSUME NEW g, IsPatchGroup(g), NEW w \in Writes(g)
  PROVE  /\ w = <<w[1], w[2]>>
         /\ w[1] \in DOMAIN g.resultsAndOriginalBytes
         /\ w[2] \in DOMAIN g.resultsAndOriginalBytes[w[1]]
         /\ w[1] \in 1..Len(g.request.patches) /\ Len(g.request.patches) \in Nat
         /\ w[2] \in Nat /\ w[2] \in Addr
         /\ Len(PatchOf(g, w).replace) \in Nat
<1>1. /\ w \in (1..Len(g.resultsAndOriginalBytes)) \X Addr
      /\ w[2] \in DOMAIN g.resultsAndOriginalBytes[w[1]]
  BY DEF Writes
<1>2. w[1] \in DOMAIN g.resultsAndOriginalBytes
  BY WritesInDomain
<1>3. w[2] \in Nat
  BY <1>1, NatAssumption
<1>4. /\ w[1] \in 1..Len(g.request.patches) /\ Len(g.request.patches) \in Nat
  <2>1. g.request.patches \in Seq(Patch) /\ w[1] \in DOMAIN g.request.patches
    BY <1>2, CatalogueAssumption DEF IsPatchGroup, Request
  <2> QED
    BY <2>1, LenProperties
<1>5. Len(PatchOf(g, w).replace) \in Nat
  BY <1>2, GroupFacts, LenProperties DEF PatchOf
<1> QED
  BY <1>1, <1>2, <1>3, <1>4, <1>5

\* Each result is a write.
LEMMA ResultIsWrite ==
  ASSUME NEW g, IsPatchGroup(g), NEW i \in DOMAIN g.resultsAndOriginalBytes,
         NEW a \in DOMAIN g.resultsAndOriginalBytes[i]
  PROVE  <<i, a>> \in Writes(g)
<1>1. g.request.patches \in Seq(Patch)
  BY CatalogueAssumption DEF IsPatchGroup, Request
<1>2. /\ DOMAIN g.resultsAndOriginalBytes = 1..Len(g.request.patches)
      /\ Len(g.request.patches) \in Nat
  BY <1>1, LenProperties DEF IsPatchGroup
<1>3. Len(g.resultsAndOriginalBytes) = Len(g.request.patches)
  BY <1>2
<1>4. a \in Addr
  BY DEF IsPatchGroup, IsResults
<1> QED
  BY <1>2, <1>3, <1>4 DEF Writes

\* The writes of a group follow from where its results are.
LEMMA SameWrites ==
  ASSUME NEW g, IsPatchGroup(g), NEW h, IsPatchGroup(h),
         DOMAIN h.resultsAndOriginalBytes = DOMAIN g.resultsAndOriginalBytes,
         \A i \in DOMAIN g.resultsAndOriginalBytes :
           DOMAIN h.resultsAndOriginalBytes[i] = DOMAIN g.resultsAndOriginalBytes[i]
  PROVE  Writes(h) = Writes(g)
<1>1. ASSUME NEW w \in Writes(h) PROVE w \in Writes(g)
  BY WriteFacts, ResultIsWrite
<1>2. ASSUME NEW w \in Writes(g) PROVE w \in Writes(h)
  BY WriteFacts, ResultIsWrite
<1> QED
  BY <1>1, <1>2

\* A set of natural numbers has a least member, and a greatest when bounded.
LEMMA LeastNat ==
  ASSUME NEW T \in SUBSET Nat, T # {}
  PROVE  \E k \in T : \A j \in T : k <= j
<1>1. PICK k \in T : \A j \in T : <<j, k>> \notin OpToRel(<, Nat)
  BY NatLessThanWellFounded, WFMin
<1>2. \A j \in T : ~ (j < k)
  BY <1>1, Zenon DEF OpToRel
<1> QED
  BY <1>2

LEMMA GreatestNat ==
  ASSUME NEW T \in SUBSET Nat, T # {}, NEW n \in Nat, \A k \in T : k <= n
  PROVE  \E k \in T : \A j \in T : j <= k
<1> DEFINE U == {n - k : k \in T}
<1>1. U \in SUBSET Nat /\ U # {}
  <2>1. \A k \in T : k \in Nat /\ k <= n
    OBVIOUS
  <2>2. \A k \in T : n - k \in Nat
    BY <2>1
  <2> QED
    BY <2>2
<1>2. PICK u \in U : \A v \in U : u <= v
  <2> HIDE DEF U
  <2> QED BY <1>1, LeastNat
<1>3. PICK k \in T : u = n - k
  OBVIOUS
<1>4. \A j \in T : n - k <= n - j
  BY <1>2, <1>3
<1> QED
  BY <1>3, <1>4

\* Among writes that start at or before an address, one is the last.
LEMMA LastWrite ==
  ASSUME NEW W \in SUBSET (Nat \X Nat), W # {}, NEW m \in Nat, NEW n \in Nat,
         \A w \in W : w[1] <= m /\ w[2] <= n
  PROVE  \E w \in W : \A v \in W : ~ Before(w, v)
<1> DEFINE I == {w[1] : w \in W}
<1>1. I \in SUBSET Nat /\ I # {} /\ \A i \in I : i <= m
  OBVIOUS
<1>2. PICK i \in I : \A j \in I : j <= i
  <2> HIDE DEF I
  <2> QED BY <1>1, GreatestNat
<1> DEFINE V == {w \in W : w[1] = i}
           A == {w[2] : w \in V}
<1>3. A \in SUBSET Nat /\ A # {} /\ \A a \in A : a <= n
  OBVIOUS
<1>4. PICK a \in A : \A b \in A : b <= a
  <2> HIDE DEF A
  <2> QED BY <1>3, GreatestNat
<1>5. PICK w \in V : w[2] = a
  OBVIOUS
<1>6. ASSUME NEW v \in W, Before(w, v) PROVE FALSE
  <2>1. v[1] <= i /\ v[1] \in Nat /\ v[2] \in Nat /\ i \in Nat /\ a \in Nat
    BY <1>1, <1>2, <1>3, <1>4
  <2>2. v[1] = i /\ a < v[2]
    BY <1>5, <1>6, <2>1 DEF Before
  <2>3. v[2] <= a
    BY <1>4, <2>2
  <2> QED
    BY <2>1, <2>2, <2>3
<1> QED
  BY <1>5, <1>6

\* A write covers and saves nothing before the address it starts at.
LEMMA WriteStarts ==
  ASSUME NEW g, IsPatchGroup(g), NEW w \in Writes(g), NEW x \in Addr,
         IsOver(g, w, x) \/ IsOn(g, w, x) \/ x \in Saved(g, w)
  PROVE  w[2] <= x
<1> DEFINE p == PatchOf(g, w)
<1>1. w[2] \in Nat /\ x \in Nat /\ RelWidth \in Nat /\ Len(p.replace) \in Nat
  BY WriteFacts, NatAssumption
<1>2. CASE IsOn(g, w, x)
  BY <1>1, <1>2 DEF IsOn, Span
<1>3. CASE x \in Saved(g, w)
  <2>1. g.resultsAndOriginalBytes[w[1]][w[2]] \in Seq(Byte)
    BY WriteFacts DEF IsPatchGroup, IsResults
  <2>2. Len(g.resultsAndOriginalBytes[w[1]][w[2]]) \in Nat
    BY <2>1, LenProperties
  <2> QED
    BY <1>1, <1>3, <2>2 DEF Saved
<1>4. CASE IsOver(g, w, x)
  <2>1. CASE InRelative(p, x - w[2])
    <3>1. PICK rva \in p.relative : x - w[2] \in rva..(rva + RelWidth - 1)
      BY <2>1 DEF InRelative
    <3>2. p \in Patch
      BY WriteFacts, GroupFacts DEF PatchOf
    <3>3. rva \in Nat
      BY <3>2 DEF Patch
    <3> HIDE DEF p
    <3> QED
      BY <1>1, <3>1, <3>3
  <2>2. CASE ~ InRelative(p, x - w[2])
    <3>1. x - w[2] \in 0..(Len(p.replace) - 1)
      BY <1>4, <2>2 DEF IsOver, Covers
    <3> HIDE DEF p
    <3> QED
      BY <1>1, <3>1
  <2> QED BY <2>1, <2>2
<1> QED
  BY <1>2, <1>3, <1>4

\* So of the writes that reach an address one comes last.
LEMMA LastAt ==
  ASSUME NEW g, IsPatchGroup(g), NEW D \in SUBSET Writes(g), NEW x \in Addr,
         NEW W \in SUBSET D, W # {},
         \A w \in W : IsOver(g, w, x) \/ IsOn(g, w, x) \/ x \in Saved(g, w)
  PROVE  \E w \in W : \A v \in W : ~ Before(w, v)
<1>1. ASSUME NEW w \in W
      PROVE  w \in Nat \X Nat /\ w[1] <= Len(g.request.patches) /\ w[2] <= x
  <2>1. /\ w = <<w[1], w[2]>> /\ w[1] \in 1..Len(g.request.patches) /\ w[2] \in Nat
        /\ Len(g.request.patches) \in Nat
    BY WriteFacts
  <2>2. w[2] <= x
    BY WriteStarts
  <2> QED BY <2>1, <2>2
<1>2. x \in Nat /\ Len(g.request.patches) \in Nat
  <2>1. PICK w \in W : TRUE
    OBVIOUS
  <2> QED BY <2>1, WriteFacts, NatAssumption
<1>3. W \in SUBSET (Nat \X Nat)
  BY <1>1
<1> QED
  BY <1>1, <1>2, <1>3, LastWrite

\* The memory after the writes D: a byte that they cover is as one of them
\* leaves it, the others stay.
LEMMA MemoryAfterAt ==
  ASSUME NEW g, IsPatchGroup(g), NEW D \in SUBSET Writes(g), NEW x \in Addr
  PROVE  /\ (\E w \in D : IsOver(g, w, x)) =>
              \E w \in D : /\ IsOver(g, w, x)
                           /\ MemoryAfter(g, D)[x] = Written(PatchOf(g, w), w[2], x)
         /\ (\A w \in D : ~ IsOver(g, w, x)) => MemoryAfter(g, D)[x] = memory[x]
<1> DEFINE p(w)       == g.request.patches[w[1]]
           At(w, y)   == Covers(p(w), w[2], y)
           Last(y, w) == At(w, y) /\ \A v \in D : At(v, y) => ~ Before(w, v)
           Value(y)   == IF \E w \in D : Last(y, w)
                         THEN LET w == CHOOSE w \in D : Last(y, w)
                              IN  Written(p(w), w[2], y)
                         ELSE memory[y]
<1>1. MemoryAfter(g, D) = [y \in Addr |-> Value(y)]
  BY DEF MemoryAfter
<1>2. MemoryAfter(g, D)[x] = Value(x)
  <2> HIDE DEF Value
  <2> QED BY <1>1
<1>3. ASSUME NEW u \in D, At(u, x)
      PROVE  \E w \in D : At(w, x) /\ Value(x) = Written(p(w), w[2], x)
  <2> DEFINE W == {w \in D : At(w, x)}
  <2>1. W \in SUBSET D /\ W # {} /\ \A w \in W : IsOver(g, w, x)
    BY <1>3 DEF IsOver, PatchOf
  <2> HIDE DEF W
  <2>2. PICK l \in W : \A v \in W : ~ Before(l, v)
    BY <2>1, LastAt
  <2> USE DEF W
  <2>3. l \in D /\ Last(x, l)
    BY <2>2
  <2> DEFINE w == CHOOSE w \in D : Last(x, w)
  <2>4. w \in D /\ Last(x, w) /\ Value(x) = Written(p(w), w[2], x)
    BY <2>3
  <2> HIDE DEF w
  <2> QED
    BY <2>4
<1>4. ASSUME \A w \in D : ~ At(w, x) PROVE Value(x) = memory[x]
  BY <1>4
<1> HIDE DEF Value
<1> QED
  BY <1>2, <1>3, <1>4 DEF IsOver, PatchOf

\* What the writes D save: the bytes that the earlier ones left.
LEMMA ResultsAfterAt ==
  ASSUME NEW g, IsPatchGroup(g), NEW D \in SUBSET Writes(g)
  PROVE  /\ DOMAIN ResultsAfter(g, D) = DOMAIN g.resultsAndOriginalBytes
         /\ \A i \in DOMAIN g.resultsAndOriginalBytes :
              /\ DOMAIN ResultsAfter(g, D)[i] = DOMAIN g.resultsAndOriginalBytes[i]
              /\ \A a \in DOMAIN g.resultsAndOriginalBytes[i] : <<i, a>> \in D =>
                   ResultsAfter(g, D)[i][a] =
                     [j \in 1..Len(g.request.patches[i].replace) |->
                        MemoryAfter(g, {v \in D : Before(v, <<i, a>>)})[a + j - 1]]
<1> DEFINE r       == g.resultsAndOriginalBytes
           m(w)    == MemoryAfter(g, {v \in D : Before(v, w)})
           n(i, a) == [j \in 1..Len(g.request.patches[i].replace) |-> m(<<i, a>>)[a + j - 1]]
<1>1. ResultsAfter(g, D) = [i \in DOMAIN r |-> [a \in DOMAIN r[i] |->
                              IF <<i, a>> \in D THEN n(i, a) ELSE r[i][a]]]
  BY DEF ResultsAfter
<1> HIDE DEF n
<1>2. ASSUME NEW i \in DOMAIN r
      PROVE  /\ DOMAIN ResultsAfter(g, D)[i] = DOMAIN r[i]
             /\ \A a \in DOMAIN r[i] : <<i, a>> \in D => ResultsAfter(g, D)[i][a] = n(i, a)
  <2>1. ResultsAfter(g, D)[i] = [a \in DOMAIN r[i] |-> IF <<i, a>> \in D THEN n(i, a) ELSE r[i][a]]
    BY <1>1
  <2> QED
    BY <2>1
<1>3. DOMAIN ResultsAfter(g, D) = DOMAIN r
  BY <1>1
<1> QED
  BY <1>2, <1>3 DEF n

\* The memory once the bytes saved by the writes D are back: a byte that they
\* saved is as one of them saved it, the others stay.
LEMMA MemoryRestoredAt ==
  ASSUME NEW g, IsPatchGroup(g), NEW D \in SUBSET Writes(g), NEW x \in Addr
  PROVE  /\ (\E w \in D : x \in Saved(g, w)) =>
              \E w \in D : x \in Saved(g, w) /\ MemoryRestored(g, D)[x] = SavedAt(g, w, x)
         /\ (\A w \in D : x \notin Saved(g, w)) => MemoryRestored(g, D)[x] = memory[x]
<1> DEFINE Last(y, w) == y \in Saved(g, w) /\ \A v \in D : y \in Saved(g, v) => ~ Before(w, v)
           Value(y)   == IF \E w \in D : Last(y, w)
                         THEN LET w == CHOOSE w \in D : Last(y, w)
                              IN  g.resultsAndOriginalBytes[w[1]][w[2]][y - w[2] + 1]
                         ELSE memory[y]
<1>1. MemoryRestored(g, D) = [y \in Addr |-> Value(y)]
  BY DEF MemoryRestored
<1>2. MemoryRestored(g, D)[x] = Value(x)
  <2> HIDE DEF Value
  <2> QED BY <1>1
<1>3. ASSUME NEW u \in D, x \in Saved(g, u)
      PROVE  \E w \in D : x \in Saved(g, w) /\ Value(x) = SavedAt(g, w, x)
  <2> DEFINE W == {w \in D : x \in Saved(g, w)}
  <2>1. W \in SUBSET D /\ W # {} /\ \A w \in W : x \in Saved(g, w)
    BY <1>3
  <2> HIDE DEF W
  <2>2. PICK l \in W : \A v \in W : ~ Before(l, v)
    BY <2>1, LastAt
  <2> USE DEF W
  <2>3. l \in D /\ Last(x, l)
    BY <2>2
  <2> DEFINE w == CHOOSE w \in D : Last(x, w)
  <2>4. w \in D /\ Last(x, w) /\ Value(x) = g.resultsAndOriginalBytes[w[1]][w[2]][x - w[2] + 1]
    BY <2>3
  <2> HIDE DEF w
  <2> QED
    BY <2>4 DEF SavedAt
<1>4. ASSUME \A w \in D : x \notin Saved(g, w) PROVE Value(x) = memory[x]
  BY <1>4
<1> HIDE DEF Value
<1> QED
  BY <1>2, <1>3, <1>4
-----------------------------------------------------------------------------
(* What the applied groups stand for, address by address.                  *)

AppliedIds == {id \in DOMAIN patchGroups : patchGroups[id].isPatchesSuccessful}

AppliedGroups == [id \in AppliedIds |-> patchGroups[id]]

\* At address x, when the groups A are applied and its byte is b: the byte is
\* the program's own unless the one write of A that has the address wrote it,
\* and that write saved the program's own.
IntactAt(A, b, x) ==
  /\ (\A id \in DOMAIN A : \A w \in Writes(A[id]) : ~ IsOn(A[id], w, x)) => b = Original[x]
  /\ \A id \in DOMAIN A : \A w \in Writes(A[id]) :
       /\ IsOver(A[id], w, x) => /\ IsOn(A[id], w, x)
                                 /\ b = Written(PatchOf(A[id], w), w[2], x)
       /\ IsOn(A[id], w, x) =>
            /\ ~ IsOver(A[id], w, x) => b = Original[x]
            /\ SavedAt(A[id], w, x) = Original[x]
            /\ \A other \in DOMAIN A : \A v \in Writes(A[other]) :
                 IsOn(A[other], v, x) => other = id /\ v = w

\* An applied group has saved as many bytes as each of its patches has.
SavedWhole(g) ==
  \A w \in Writes(g) :
    Len(g.resultsAndOriginalBytes[w[1]][w[2]]) = Len(PatchOf(g, w).replace)

PatchesInv ==
  /\ \A x \in Addr \ tainted : IntactAt(AppliedGroups, memory[x], x)
  /\ \A id \in AppliedIds : SavedWhole(patchGroups[id])
  /\ \A s \in DOMAIN adding : Writes(adding[s].group) = {}

\* A group more, whose writes have x to themselves if they reach it.
LEMMA IntactAdd ==
  ASSUME NEW A, NEW B, NEW id, id \notin DOMAIN A, DOMAIN B = DOMAIN A \cup {id},
         \A y \in DOMAIN A : B[y] = A[y],
         NEW h, B[id] = h, NEW x, NEW b, NEW c, IntactAt(A, b, x),
         \A w \in Writes(h) : IsOver(h, w, x) => IsOn(h, w, x),
         \A w \in Writes(h) : IsOn(h, w, x) =>
           /\ \A y \in DOMAIN A : \A v \in Writes(A[y]) : ~ IsOn(A[y], v, x)
           /\ \A v \in Writes(h) : IsOn(h, v, x) => v = w
           /\ SavedAt(h, w, x) = b,
         (\A w \in Writes(h) : ~ IsOver(h, w, x)) => c = b,
         \A w \in Writes(h) : IsOver(h, w, x) => c = Written(PatchOf(h, w), w[2], x)
  PROVE  IntactAt(B, c, x)
<1>1. id \in DOMAIN B /\ \A y \in DOMAIN A : y \in DOMAIN B
  OBVIOUS
<1>2. ASSUME \A y \in DOMAIN B : \A w \in Writes(B[y]) : ~ IsOn(B[y], w, x)
      PROVE  c = Original[x]
  <2>1. \A w \in Writes(h) : ~ IsOver(h, w, x)
    BY <1>1, <1>2
  <2>2. \A y \in DOMAIN A : \A w \in Writes(A[y]) : ~ IsOn(A[y], w, x)
    BY <1>1, <1>2
  <2> QED
    BY <2>1, <2>2 DEF IntactAt
<1>3. ASSUME NEW y \in DOMAIN A, NEW w \in Writes(A[y]), IsOn(A[y], w, x)
      PROVE  /\ c = b
             /\ \A v \in Writes(h) : ~ IsOn(h, v, x)
  BY <1>3
<1>4. ASSUME NEW y \in DOMAIN A, NEW w \in Writes(A[y])
      PROVE  /\ IsOver(A[y], w, x) => /\ IsOn(A[y], w, x)
                                      /\ c = Written(PatchOf(A[y], w), w[2], x)
             /\ IsOn(A[y], w, x) =>
                  /\ ~ IsOver(A[y], w, x) => c = Original[x]
                  /\ SavedAt(A[y], w, x) = Original[x]
                  /\ \A other \in DOMAIN B : \A v \in Writes(B[other]) :
                       IsOn(B[other], v, x) => other = y /\ v = w
  <2>1. CASE ~ IsOn(A[y], w, x)
    BY <2>1 DEF IntactAt
  <2>2. CASE IsOn(A[y], w, x)
    <3>1. c = b /\ \A v \in Writes(h) : ~ IsOn(h, v, x)
      BY <1>3, <2>2
    <3> QED
      BY <2>2, <3>1 DEF IntactAt
  <2> QED BY <2>1, <2>2
<1>5. ASSUME NEW w \in Writes(h)
      PROVE  /\ IsOver(h, w, x) => /\ IsOn(h, w, x)
                                   /\ c = Written(PatchOf(h, w), w[2], x)
             /\ IsOn(h, w, x) =>
                  /\ ~ IsOver(h, w, x) => c = Original[x]
                  /\ SavedAt(h, w, x) = Original[x]
                  /\ \A other \in DOMAIN B : \A v \in Writes(B[other]) :
                       IsOn(B[other], v, x) => other = id /\ v = w
  <2>1. CASE ~ IsOn(h, w, x)
    BY <2>1
  <2>2. CASE IsOn(h, w, x)
    <3>1. /\ \A y \in DOMAIN A : \A v \in Writes(A[y]) : ~ IsOn(A[y], v, x)
          /\ \A v \in Writes(h) : IsOn(h, v, x) => v = w
          /\ SavedAt(h, w, x) = b
      BY <2>2
    <3>2. b = Original[x]
      BY <3>1 DEF IntactAt
    <3>3. ~ IsOver(h, w, x) => c = b
      BY <3>1
    <3> QED
      BY <2>2, <3>1, <3>2, <3>3
  <2> QED BY <2>1, <2>2
<1> QED
  BY <1>2, <1>4, <1>5 DEF IntactAt

\* A group less, whose writes leave the program's own byte if they reach x.
LEMMA IntactRemove ==
  ASSUME NEW A, NEW B, NEW id \in DOMAIN A, DOMAIN B = DOMAIN A \ {id},
         \A y \in DOMAIN B : B[y] = A[y],
         NEW x, NEW b, NEW c, IntactAt(A, b, x),
         (\E w \in Writes(A[id]) : IsOn(A[id], w, x)) => c = Original[x],
         (\A w \in Writes(A[id]) : ~ IsOn(A[id], w, x)) => c = b
  PROVE  IntactAt(B, c, x)
<1>1. CASE \E w \in Writes(A[id]) : IsOn(A[id], w, x)
  <2>1. \A y \in DOMAIN B : \A v \in Writes(B[y]) : ~ IsOn(B[y], v, x)
    BY <1>1 DEF IntactAt
  <2>2. \A y \in DOMAIN B : \A v \in Writes(B[y]) : ~ IsOver(B[y], v, x)
    BY <2>1 DEF IntactAt
  <2> QED
    BY <1>1, <2>1, <2>2 DEF IntactAt
<1>2. CASE \A w \in Writes(A[id]) : ~ IsOn(A[id], w, x)
  BY <1>2 DEF IntactAt
<1> QED
  BY <1>1, <1>2

\* The same groups, and the same bytes wherever anything is promised.
LEMMA IntactKept ==
  ASSUME PatchesInv, AppliedIds' = AppliedIds,
         \A id \in AppliedIds : patchGroups'[id] = patchGroups[id],
         tainted \subseteq tainted',
         \A x \in Addr \ tainted' : memory'[x] = memory[x],
         \A s \in DOMAIN adding' : Writes(adding'[s].group) = {}
  PROVE  PatchesInv'
<1>1. AppliedGroups' = AppliedGroups
  BY DEF AppliedGroups
<1>2. ASSUME NEW x \in Addr \ tainted' PROVE IntactAt(AppliedGroups', memory'[x], x)
  <2>1. IntactAt(AppliedGroups, memory[x], x)
    BY DEF PatchesInv
  <2> QED
    BY <1>1, <2>1
<1>3. \A id \in AppliedIds' : SavedWhole(patchGroups'[id])
  BY DEF PatchesInv
<1> QED
  BY <1>2, <1>3 DEF PatchesInv

-----------------------------------------------------------------------------
(* Steps that write.                                                       *)

\* A group that the search found everywhere, and what applying it makes of it.
LEMMA FoundFacts ==
  ASSUME IInv, NEW id \in DOMAIN patchGroups, Found(id)
  PROVE  LET s == Searched(id)
             W == Writes(s)
         IN  /\ IsPatchGroup(s) /\ Pending(s) /\ MatchesInside(s)
             /\ s.request = patchGroups[id].request
             /\ id \notin AppliedIds /\ id \in PatchGroupId /\ Pending(patchGroups[id])
<1>1. Visiting(id)
  BY DEF Found
<1>2. GroupOK(Searched(id)) /\ Pending(Searched(id))
      /\ Searched(id).request = patchGroups[id].request
  BY <1>1, SearchedFacts
<1>3. id \in PatchGroupId /\ Pending(patchGroups[id])
  BY <1>1, VisitFacts
<1> QED
  BY <1>2, <1>3 DEF GroupOK, Pending, AppliedIds

\* The results of a group once the writes D are done.
LEMMA AfterWrites ==
  ASSUME memory \in [Addr -> Byte], NEW s, GroupOK(s), NEW D \in SUBSET Writes(s),
         NEW h, IsPatchGroup(h), h.request = s.request,
         h.resultsAndOriginalBytes = ResultsAfter(s, D)
  PROVE  /\ Writes(h) = Writes(s)
         /\ \A w : PatchOf(h, w) = PatchOf(s, w)
         /\ D = Writes(s) => SavedWhole(h)
         /\ \A w \in D, x \in Addr : IsOn(s, w, x) =>
              SavedAt(h, w, x) = MemoryAfter(s, {v \in D : Before(v, w)})[x]
<1>1. IsPatchGroup(s)
  BY DEF GroupOK
<1> DEFINE r == s.resultsAndOriginalBytes
           n(i, a) == [j \in 1..Len(s.request.patches[i].replace) |->
                         MemoryAfter(s, {v \in D : Before(v, <<i, a>>)})[a + j - 1]]
<1>2. /\ DOMAIN ResultsAfter(s, D) = DOMAIN r
      /\ \A i \in DOMAIN r :
           /\ DOMAIN ResultsAfter(s, D)[i] = DOMAIN r[i]
           /\ \A a \in DOMAIN r[i] : <<i, a>> \in D => ResultsAfter(s, D)[i][a] = n(i, a)
  BY <1>1, ResultsAfterAt
<1>3. Writes(h) = Writes(s)
  BY <1>1, <1>2, SameWrites
<1>4. \A w : PatchOf(h, w) = PatchOf(s, w)
  BY DEF PatchOf
<1>5. ASSUME NEW w \in D
      PROVE  /\ h.resultsAndOriginalBytes[w[1]][w[2]] = n(w[1], w[2])
             /\ w = <<w[1], w[2]>> /\ w[2] \in Nat
             /\ Len(PatchOf(s, w).replace) \in Nat
  <2>1. /\ w = <<w[1], w[2]>> /\ w[2] \in Nat /\ Len(PatchOf(s, w).replace) \in Nat
        /\ w[1] \in DOMAIN r /\ w[2] \in DOMAIN r[w[1]]
    BY <1>1, WriteFacts
  <2>2. <<w[1], w[2]>> \in D
    BY <2>1
  <2> HIDE DEF n, r
  <2>3. ResultsAfter(s, D)[w[1]][w[2]] = n(w[1], w[2])
    BY <1>2, <2>1, <2>2
  <2> QED
    BY <2>1, <2>3
<1>6. ASSUME NEW w \in D
      PROVE  Len(h.resultsAndOriginalBytes[w[1]][w[2]]) = Len(PatchOf(h, w).replace)
  <2>1. /\ h.resultsAndOriginalBytes[w[1]][w[2]] = n(w[1], w[2])
        /\ Len(PatchOf(s, w).replace) \in Nat
    BY <1>5
  <2>2. DOMAIN n(w[1], w[2]) = 1..Len(PatchOf(s, w).replace)
    BY DEF PatchOf
  <2>3. h.resultsAndOriginalBytes[w[1]][w[2]] \in Seq(Byte)
    BY <1>3, WriteFacts DEF IsPatchGroup, IsResults
  <2> HIDE DEF n
  <2> QED
    BY <1>4, <2>1, <2>2, <2>3, LenProperties
<1>7. ASSUME NEW w \in D, NEW x \in Addr, IsOn(s, w, x)
      PROVE  SavedAt(h, w, x) = MemoryAfter(s, {v \in D : Before(v, w)})[x]
  <2> DEFINE j == x - w[2] + 1
             L == Len(s.request.patches[w[1]].replace)
  <2>1. x \in Nat /\ w[2] \in Nat /\ L \in Nat
    BY <1>5, NatAssumption DEF PatchOf
  <2>2. x \in w[2]..(w[2] + L - 1)
    BY <1>7 DEF IsOn, Span, PatchOf
  <2>3. j \in 1..L /\ w[2] + j - 1 = x
    <3> HIDE DEF L
    <3> QED BY <2>1, <2>2
  <2>4. n(w[1], w[2])[j] = MemoryAfter(s, {v \in D : Before(v, <<w[1], w[2]>>)})[w[2] + j - 1]
    BY <2>3
  <2>5. SavedAt(h, w, x) = n(w[1], w[2])[j]
    BY <1>5 DEF SavedAt
  <2>6. w = <<w[1], w[2]>>
    BY <1>5
  <2> HIDE DEF n, j
  <2> QED
    BY <2>3, <2>4, <2>5, <2>6
<1>8. D = Writes(s) => SavedWhole(h)
  BY <1>3, <1>6 DEF SavedWhole
<1> QED
  BY <1>3, <1>4, <1>7, <1>8
-----------------------------------------------------------------------------
\* Applying a group: every write does what it should, and those that have an
\* address to themselves save the program's own byte there.
LEMMA ApplyKeeps ==
  ASSUME IInv, IInv', PatchesInv, NEW id \in DOMAIN patchGroups, ApplyGroup(id)
  PROVE  PatchesInv'
<1> DEFINE s == Searched(id)
           W == Writes(s)
           h == patchGroups'[id]
           A == AppliedGroups
           B == AppliedGroups'
<1>1. /\ IsPatchGroup(s) /\ Pending(s) /\ MatchesInside(s)
      /\ id \notin AppliedIds
  BY FoundFacts DEF ApplyGroup
<1>2. /\ memory' = MemoryAfter(s, W) /\ tainted' = tainted \cup Clash(s)
      /\ patchGroups' = [patchGroups EXCEPT ![id] =
           [s EXCEPT !.isPatchesSuccessful = TRUE,
                     !.resultsAndOriginalBytes = ResultsAfter(s, W)]]
      /\ adding' = adding
  BY DEF ApplyGroup, SetGroup, idVars
<1>3. /\ h.request = s.request /\ h.resultsAndOriginalBytes = ResultsAfter(s, W)
      /\ h.isPatchesSuccessful
      /\ DOMAIN patchGroups' = DOMAIN patchGroups
      /\ \A y \in DOMAIN patchGroups : y # id => patchGroups'[y] = patchGroups[y]
  BY <1>1, <1>2 DEF IsPatchGroup
<1>4. IsPatchGroup(h)
  BY <1>3 DEF IInv, TypeOK, GroupTypes
<1>5. memory \in [Addr -> Byte] /\ GroupOK(s)
  BY <1>1 DEF IInv, TypeOK, TargetTypes, GroupOK
<1> HIDE DEF s, h
<1>6. /\ Writes(h) = W /\ SavedWhole(h) /\ \A w : PatchOf(h, w) = PatchOf(s, w)
      /\ \A w \in W, x \in Addr : IsOn(s, w, x) =>
           SavedAt(h, w, x) = MemoryAfter(s, {v \in W : Before(v, w)})[x]
  BY <1>3, <1>4, <1>5, AfterWrites
<1>7. \A w, x : /\ IsOn(h, w, x) <=> IsOn(s, w, x)
                /\ IsOver(h, w, x) <=> IsOver(s, w, x)
  BY <1>6 DEF IsOn, IsOver
<1>8. AppliedIds' = AppliedIds \cup {id}
  BY <1>3 DEF AppliedIds, h
<1>9. /\ DOMAIN B = DOMAIN A \cup {id} /\ id \notin DOMAIN A /\ B[id] = h
      /\ \A y \in DOMAIN A : B[y] = A[y]
  BY <1>1, <1>3, <1>8 DEF AppliedGroups, AppliedIds, h
<1>10. ASSUME NEW x \in Addr \ tainted' PROVE IntactAt(B, memory'[x], x)
  <2>1. x \notin tainted /\ x \notin Clash(s) /\ x \in Addr
    BY <1>2
  <2>2. IntactAt(A, memory[x], x)
    BY <2>1 DEF PatchesInv
  <2>3. ASSUME NEW w \in W PROVE IsOver(s, w, x) => IsOn(s, w, x)
    BY <2>1 DEF Clash, IsOver, IsOn, PatchOf
  <2>4. ASSUME NEW w \in W, IsOn(s, w, x)
        PROVE  x \notin Taken /\ \A v \in W : IsOn(s, v, x) => v = w
    BY <2>1, <2>4 DEF Clash, IsOn, PatchOf
  <2>5. ASSUME x \notin Taken, NEW y \in DOMAIN A, NEW v \in Writes(A[y])
        PROVE  ~ IsOn(A[y], v, x)
    BY <2>1, <2>5 DEF Taken, Spanned, AppliedGroups, AppliedIds, IsOn, PatchOf
  <2>6. ASSUME NEW w \in W, IsOn(s, w, x) PROVE SavedAt(h, w, x) = memory[x]
    <3> DEFINE E == {v \in W : Before(v, w)}
    <3>1. SavedAt(h, w, x) = MemoryAfter(s, E)[x]
      BY <1>6, <2>1, <2>6
    <3>2. ASSUME NEW v \in E PROVE ~ IsOver(s, v, x)
      <4>1. IsOver(s, v, x) => v = w
        BY <2>3, <2>4, <2>6
      <4>2. ~ Before(w, w)
        BY <1>1, WriteFacts DEF Before
      <4> QED
        BY <4>1, <4>2
    <3>3. E \in SUBSET Writes(s)
      OBVIOUS
    <3> HIDE DEF E
    <3>4. MemoryAfter(s, E)[x] = memory[x]
      BY <1>1, <2>1, <3>2, <3>3, MemoryAfterAt
    <3> QED
      BY <3>1, <3>4
  <2>7. /\ (\A w \in W : ~ IsOver(s, w, x)) => memory'[x] = memory[x]
        /\ (\E w \in W : IsOver(s, w, x)) =>
             \E w \in W : IsOver(s, w, x) /\ memory'[x] = Written(PatchOf(s, w), w[2], x)
    <3>1. W \in SUBSET Writes(s)
      OBVIOUS
    <3> HIDE DEF W
    <3> QED
      BY <1>1, <1>2, <2>1, <3>1, MemoryAfterAt
  <2>8. ASSUME NEW w \in W, IsOver(s, w, x)
        PROVE  memory'[x] = Written(PatchOf(s, w), w[2], x)
    <3>1. PICK v \in W : IsOver(s, v, x) /\ memory'[x] = Written(PatchOf(s, v), v[2], x)
      BY <2>7, <2>8
    <3>2. v = w
      BY <2>3, <2>4, <2>8, <3>1
    <3> QED
      BY <3>1, <3>2
  <2>9. \A w \in Writes(h) : IsOver(h, w, x) => IsOn(h, w, x)
    BY <1>6, <1>7, <2>3
  <2>10. \A w \in Writes(h) : IsOn(h, w, x) =>
           /\ \A y \in DOMAIN A : \A v \in Writes(A[y]) : ~ IsOn(A[y], v, x)
           /\ \A v \in Writes(h) : IsOn(h, v, x) => v = w
           /\ SavedAt(h, w, x) = memory[x]
    BY <1>6, <1>7, <2>4, <2>5, <2>6
  <2>11. /\ (\A w \in Writes(h) : ~ IsOver(h, w, x)) => memory'[x] = memory[x]
         /\ \A w \in Writes(h) : IsOver(h, w, x) =>
              memory'[x] = Written(PatchOf(h, w), w[2], x)
    BY <1>6, <1>7, <2>7, <2>8
  <2> HIDE DEF A, B, W
  <2> QED
    BY <1>9, <2>2, <2>9, <2>10, <2>11, IntactAdd
<1>11. \A y \in AppliedIds' : SavedWhole(patchGroups'[y])
  BY <1>3, <1>6, <1>8 DEF PatchesInv, AppliedIds, h
<1>12. \A t \in DOMAIN adding' : Writes(adding'[t].group) = {}
  BY <1>2 DEF PatchesInv
<1> QED
  BY <1>10, <1>11, <1>12 DEF PatchesInv

\* Where an applied group has saved bytes: on the spans of its writes.
LEMMA SavedSpans ==
  ASSUME PatchesInv, NEW id \in AppliedIds, NEW w \in Writes(patchGroups[id]), NEW x
  PROVE  x \in Saved(patchGroups[id], w) <=> IsOn(patchGroups[id], w, x)
BY DEF PatchesInv, SavedWhole, Saved, IsOn, Span

\* The memory once some bytes of an applied group are back: of an address of
\* which something is promised, the program's own byte.
LEMMA RestoredAt ==
  ASSUME IInv, PatchesInv, NEW id \in AppliedIds,
         NEW D \in SUBSET Writes(patchGroups[id]), NEW x \in Addr
  PROVE  LET g == patchGroups[id]
         IN  /\ (\A w \in D : ~ IsOn(g, w, x)) => MemoryRestored(g, D)[x] = memory[x]
             /\ x \notin tainted => \A w \in D : IsOn(g, w, x) =>
                  MemoryRestored(g, D)[x] = Original[x]
<1> DEFINE g == patchGroups[id]
<1>1. IsPatchGroup(g)
  BY DEF AppliedIds, IInv, TypeOK, GroupTypes
<1>2. \A w \in D : x \in Saved(g, w) <=> IsOn(g, w, x)
  BY SavedSpans
<1>3. /\ (\E w \in D : x \in Saved(g, w)) =>
            \E w \in D : x \in Saved(g, w) /\ MemoryRestored(g, D)[x] = SavedAt(g, w, x)
      /\ (\A w \in D : x \notin Saved(g, w)) => MemoryRestored(g, D)[x] = memory[x]
  BY <1>1, MemoryRestoredAt
<1>4. ASSUME x \notin tainted, NEW w \in D, IsOn(g, w, x)
      PROVE  MemoryRestored(g, D)[x] = Original[x]
  <2>1. PICK v \in D : IsOn(g, v, x) /\ MemoryRestored(g, D)[x] = SavedAt(g, v, x)
    BY <1>2, <1>3, <1>4
  <2>2. IntactAt(AppliedGroups, memory[x], x)
    BY <1>4 DEF PatchesInv
  <2>3. id \in DOMAIN AppliedGroups /\ AppliedGroups[id] = g /\ v \in Writes(g)
    BY DEF AppliedGroups
  <2>4. SavedAt(g, v, x) = Original[x]
    BY <2>1, <2>2, <2>3 DEF IntactAt
  <2> QED
    BY <2>1, <2>4
<1> QED
  BY <1>2, <1>3, <1>4

\* An undo gives the addresses of its group back.
LEMMA UndoKeeps ==
  ASSUME IInv, PatchesInv, NEW id, Undo(id), UNCHANGED idVars
  PROVE  PatchesInv'
<1> DEFINE g == patchGroups[id]
           A == AppliedGroups
           B == AppliedGroups'
<1>1. /\ id \in DOMAIN patchGroups /\ tainted' = tainted /\ adding' = adding
      /\ memory' = IF g.isPatchesSuccessful THEN MemoryRestored(g, Writes(g)) ELSE memory
      /\ DOMAIN patchGroups' = DOMAIN patchGroups \ {id}
      /\ \A y \in DOMAIN patchGroups' : patchGroups'[y] = patchGroups[y]
  BY DEF Undo, Restrict, faultVars, idVars
<1>2. AppliedIds' = AppliedIds \ {id}
  BY <1>1 DEF AppliedIds
<1>3. \A t \in DOMAIN adding' : Writes(adding'[t].group) = {}
  BY <1>1 DEF PatchesInv
<1>4. CASE ~ g.isPatchesSuccessful
  <2>1. AppliedIds' = AppliedIds /\ \A y \in AppliedIds : patchGroups'[y] = patchGroups[y]
    BY <1>1, <1>2, <1>4 DEF AppliedIds
  <2>2. memory' = memory
    BY <1>1, <1>4
  <2> QED
    BY <1>1, <1>3, <2>1, <2>2, IntactKept
<1>5. CASE g.isPatchesSuccessful
  <2>1. id \in AppliedIds /\ memory' = MemoryRestored(g, Writes(g))
    BY <1>1, <1>5 DEF AppliedIds
  <2>2. /\ id \in DOMAIN A /\ A[id] = g /\ DOMAIN B = DOMAIN A \ {id}
        /\ \A y \in DOMAIN B : B[y] = A[y]
    BY <1>1, <1>2, <2>1 DEF AppliedGroups, AppliedIds
  <2>3. ASSUME NEW x \in Addr \ tainted' PROVE IntactAt(B, memory'[x], x)
    <3>1. IntactAt(A, memory[x], x) /\ x \notin tainted /\ x \in Addr
      BY <1>1 DEF PatchesInv
    <3>2. Writes(g) \in SUBSET Writes(g)
      OBVIOUS
    <3>3. /\ (\A w \in Writes(g) : ~ IsOn(g, w, x)) => memory'[x] = memory[x]
          /\ \A w \in Writes(g) : IsOn(g, w, x) => memory'[x] = Original[x]
      BY <2>1, <3>1, <3>2, RestoredAt
    <3> HIDE DEF A, B, g
    <3> QED
      BY <2>2, <3>1, <3>3, IntactRemove
  <2>4. \A y \in AppliedIds' : SavedWhole(patchGroups'[y])
    BY <1>1, <1>2 DEF PatchesInv, AppliedIds
  <2> QED
    BY <1>3, <2>3, <2>4 DEF PatchesInv
<1> QED
  BY <1>4, <1>5
-----------------------------------------------------------------------------
\* Where the writes D of a group leave the memory alone.
LEMMA OutsideTouched ==
  ASSUME NEW g, IsPatchGroup(g), NEW D \in SUBSET Writes(g), NEW x \in Addr,
         x \notin Touched(g, D)
  PROVE  MemoryAfter(g, D)[x] = memory[x]
<1>1. \A w \in D : ~ IsOver(g, w, x)
  BY DEF Touched, IsOver, PatchOf
<1> QED
  BY <1>1, MemoryAfterAt

\* An exception among the writes leaves the applied groups as they are, and
\* what is promised of the addresses it did not come to.
LEMMA WriteThrowsKeeps ==
  ASSUME IInv, PatchesInv, NEW id \in DOMAIN patchGroups, WriteThrows(id)
  PROVE  PatchesInv'
<1> DEFINE s == Searched(id)
<1>1. PICK D \in Prefixes(Writes(s)) :
        /\ memory' = MemoryAfter(s, D)
        /\ tainted' = tainted \cup Touched(s, D)
        /\ Requeue(id, [s EXCEPT !.resultsAndOriginalBytes = ResultsAfter(s, D)])
  BY DEF WriteThrows
<1>2. D \in SUBSET Writes(s) /\ Found(id) /\ adding' = adding
  BY DEF Prefixes, WriteThrows, idVars
<1>3. IsPatchGroup(s) /\ Pending(s) /\ id \notin AppliedIds
  BY <1>2, FoundFacts
<1> DEFINE h == [s EXCEPT !.resultsAndOriginalBytes = ResultsAfter(s, D)]
<1>4. /\ DOMAIN patchGroups' = DOMAIN patchGroups /\ patchGroups'[id] = h
      /\ \A y \in DOMAIN patchGroups : y # id => patchGroups'[y] = patchGroups[y]
  BY <1>1 DEF Requeue, SetGroup
<1>5. ~ h.isPatchesSuccessful
  BY <1>3 DEF IsPatchGroup, Pending
<1> HIDE DEF s, h
<1>6. AppliedIds' = AppliedIds /\ \A y \in AppliedIds : patchGroups'[y] = patchGroups[y]
  BY <1>3, <1>4, <1>5 DEF AppliedIds
<1>7. \A x \in Addr \ tainted' : memory'[x] = memory[x]
  BY <1>1, <1>2, <1>3, OutsideTouched
<1>8. tainted \subseteq tainted' /\ \A t \in DOMAIN adding' : Writes(adding'[t].group) = {}
  BY <1>1, <1>2 DEF PatchesInv
<1> QED
  BY <1>6, <1>7, <1>8, IntactKept

\* So does an exception of an undo: where it came to and nothing was written,
\* it put the program's own byte onto itself.
LEMMA UndoThrowsKeeps ==
  ASSUME IInv, PatchesInv, NEW id, UndoThrows(id), UNCHANGED idVars
  PROVE  PatchesInv'
<1> DEFINE g == patchGroups[id]
           W == Writes(g)
<1>1. /\ id \in AppliedIds /\ patchGroups' = patchGroups /\ adding' = adding
  BY DEF UndoThrows, AppliedIds, groupVars, idVars
<1>2. PICK D \in Prefixes(W) :
        memory' = MemoryRestored(g, D) /\ tainted' = tainted \cup Touched(g, W)
  BY DEF UndoThrows
<1>3. D \in SUBSET Writes(g)
  BY DEF Prefixes
<1>4. ASSUME NEW x \in Addr \ tainted' PROVE memory'[x] = memory[x]
  <2>1. x \in Addr /\ x \notin tainted /\ \A w \in W : ~ IsOver(g, w, x)
    BY <1>2 DEF Touched, IsOver, PatchOf
  <2>2. /\ (\A w \in D : ~ IsOn(g, w, x)) => MemoryRestored(g, D)[x] = memory[x]
        /\ \A w \in D : IsOn(g, w, x) => MemoryRestored(g, D)[x] = Original[x]
    BY <1>1, <1>3, <2>1, RestoredAt
  <2>3. IntactAt(AppliedGroups, memory[x], x)
    BY <2>1 DEF PatchesInv
  <2>4. id \in DOMAIN AppliedGroups /\ AppliedGroups[id] = g
    BY <1>1 DEF AppliedGroups
  <2>5. \A w \in D : IsOn(g, w, x) => memory[x] = Original[x]
    BY <1>3, <2>1, <2>3, <2>4 DEF IntactAt
  <2> QED
    BY <1>2, <2>2, <2>5
<1>5. AppliedIds' = AppliedIds
  BY <1>1 DEF AppliedIds
<1>6. tainted \subseteq tainted' /\ \A t \in DOMAIN adding' : Writes(adding'[t].group) = {}
  BY <1>1, <1>2 DEF PatchesInv
<1> QED
  BY <1>1, <1>4, <1>5, <1>6, IntactKept

\* A visit that writes nothing.
LEMMA VisitKeeps ==
  ASSUME IInv, PatchesInv, NEW id \in DOMAIN patchGroups,
         TimeOutGroup(id) \/ SearchThrows(id) \/ SearchFindsNothing(id)
  PROVE  PatchesInv'
<1> DEFINE g == patchGroups[id]
<1>1. memory' = memory /\ tainted' = tainted /\ adding' = adding /\ Visiting(id)
  BY DEF TimeOutGroup, SearchThrows, SearchFindsNothing, target, faultVars, idVars
<1>2. IsPatchGroup(g) /\ Pending(g)
  BY <1>1, VisitFacts DEF GroupOK
<1>3. PICK h : SetGroup(id, h) /\ ~ h.isPatchesSuccessful
  <2>1. CASE TimeOutGroup(id)
    <3>1. SetGroup(id, [g EXCEPT !.isTimedOut = TRUE])
      BY <2>1 DEF TimeOutGroup
    <3>2. ~ [g EXCEPT !.isTimedOut = TRUE].isPatchesSuccessful
      BY <1>2 DEF Pending, IsPatchGroup
    <3> QED BY <3>1, <3>2
  <2>2. CASE SearchThrows(id)
    <3>1. PICK k \in Reached(g) : SetGroup(id, SearchedUpTo(g, k))
      BY <2>2 DEF SearchThrows, Requeue
    <3>2. ~ SearchedUpTo(g, k).isPatchesSuccessful
      BY <1>2 DEF SearchedUpTo, Pending, IsPatchGroup
    <3> QED BY <3>1, <3>2
  <2>3. CASE SearchFindsNothing(id)
    <3>1. SetGroup(id, Cleared(g))
      BY <2>3 DEF SearchFindsNothing, Requeue
    <3>2. ~ Cleared(g).isPatchesSuccessful
      BY <1>2 DEF Cleared, Pending, IsPatchGroup
    <3> QED BY <3>1, <3>2
  <2> QED BY <2>1, <2>2, <2>3
<1>4. /\ DOMAIN patchGroups' = DOMAIN patchGroups /\ patchGroups'[id] = h
      /\ \A y \in DOMAIN patchGroups : y # id => patchGroups'[y] = patchGroups[y]
  BY <1>3 DEF SetGroup
<1>5. AppliedIds' = AppliedIds /\ \A y \in AppliedIds : patchGroups'[y] = patchGroups[y]
  BY <1>2, <1>3, <1>4 DEF AppliedIds, Pending
<1>6. \A t \in DOMAIN adding' : Writes(adding'[t].group) = {}
  BY <1>1 DEF PatchesInv
<1> QED
  BY <1>1, <1>5, <1>6, IntactKept

\* A group that is being added has no results yet.
LEMMA AddKeeps ==
  ASSUME IInv, PatchesInv, NEW s \in Submitter,
         CountId(s) \/ InsertGroup(s) \/ \E r \in Catalogue : AddToQueue(s, r)
  PROVE  PatchesInv'
<1>1. memory' = memory /\ tainted' = tainted
  BY DEF CountId, InsertGroup, AddToQueue, target, faultVars
<1>2. AppliedIds' = AppliedIds /\ \A y \in AppliedIds : patchGroups'[y] = patchGroups[y]
  <2>1. CASE InsertGroup(s)
    <3>1. /\ s \in DOMAIN adding /\ adding[s].counted
          /\ patchGroups' = With(patchGroups, adding[s].id, adding[s].group)
      BY <2>1 DEF InsertGroup
    <3>2. adding[s].id \notin DOMAIN patchGroups /\ ~ adding[s].group.isPatchesSuccessful
      BY <3>1 DEF IInv, IdsFresh, Pending
    <3> QED
      BY <3>1, <3>2 DEF With, AppliedIds
  <2>2. CASE CountId(s) \/ \E r \in Catalogue : AddToQueue(s, r)
    <3>1. patchGroups' = patchGroups
      BY <2>2 DEF CountId, AddToQueue, groupVars
    <3> QED
      BY <3>1 DEF AppliedIds
  <2> QED BY <2>1, <2>2
<1>3. ASSUME NEW t \in DOMAIN adding' PROVE Writes(adding'[t].group) = {}
  <2>1. CASE InsertGroup(s) \/ CountId(s)
    <3>1. t \in DOMAIN adding /\ adding'[t].group = adding[t].group
      BY <2>1 DEF InsertGroup, CountId, Restrict, IInv, TypeOK, IdTypes
    <3> QED
      BY <3>1 DEF PatchesInv
  <2>2. CASE \E r \in Catalogue : AddToQueue(s, r)
    <3>1. PICK r \in Catalogue : AddToQueue(s, r)
      BY <2>2
    <3>2. \/ t \in DOMAIN adding /\ adding'[t] = adding[t]
          \/ adding'[t].group.resultsAndOriginalBytes = [i \in DOMAIN r.patches |-> <<>>]
      BY <3>1 DEF AddToQueue, With
    <3>3. ASSUME NEW g, g.resultsAndOriginalBytes = [i \in DOMAIN r.patches |-> <<>>]
          PROVE  Writes(g) = {}
      <4>1. r.patches \in Seq(Patch)
        BY CatalogueAssumption DEF Request
      <4>2. DOMAIN g.resultsAndOriginalBytes = 1..Len(g.resultsAndOriginalBytes)
        BY <3>3, <4>1, LenProperties
      <4>3. \A i \in DOMAIN g.resultsAndOriginalBytes :
              DOMAIN g.resultsAndOriginalBytes[i] = {}
        BY <3>3
      <4> QED
        BY <4>2, <4>3 DEF Writes
    <3> QED
      BY <3>2, <3>3 DEF PatchesInv
  <2> QED BY <2>1, <2>2
<1> QED
  BY <1>1, <1>2, <1>3, IntactKept

LEMMA QuietKeeps ==
  ASSUME PatchesInv, UNCHANGED <<memory, groupVars, idVars, tainted>>
  PROVE  PatchesInv'
<1>1. /\ memory' = memory /\ tainted' = tainted /\ patchGroups' = patchGroups
      /\ adding' = adding
  BY DEF groupVars, idVars
<1>2. AppliedIds' = AppliedIds
  BY <1>1 DEF AppliedIds
<1>3. \A t \in DOMAIN adding' : Writes(adding'[t].group) = {}
  BY <1>1 DEF PatchesInv
<1> QED
  BY <1>1, <1>2, <1>3, IntactKept

LEMMA InitPatches == Init => PatchesInv
<1> SUFFICES ASSUME Init PROVE PatchesInv
  OBVIOUS
<1>1. memory = Original /\ DOMAIN patchGroups = {} /\ DOMAIN adding = {}
  BY DEF Init
<1>2. DOMAIN AppliedGroups = {} /\ AppliedIds = {}
  BY <1>1 DEF AppliedGroups, AppliedIds
<1> QED
  BY <1>1, <1>2 DEF PatchesInv, IntactAt

LEMMA StepPatches ==
  ASSUME IInv, IInv', PatchesInv, [Next]_vars
  PROVE  PatchesInv'
<1> USE DEF target, faultVars
<1>1. CASE Next
  <2>1. CASE ThreadStep
    <3>1. CASE \E id \in DOMAIN patchGroups : CallbackUndoes(id)
      BY <3>1, UndoKeeps, UndoThrowsKeeps DEF CallbackUndoes
    <3>2. CASE \E id \in DOMAIN patchGroups :
                 TimeOutGroup(id) \/ SearchThrows(id) \/ SearchFindsNothing(id)
      BY <3>2, VisitKeeps
    <3>3. CASE \E id \in DOMAIN patchGroups : ApplyGroup(id) \/ WriteThrows(id)
      BY <3>3, ApplyKeeps, WriteThrowsKeeps
    <3>4. CASE ThreadStarts \/ TestRequestStop \/ BeginPass \/ EndPass \/ PopEmptyQueue
                 \/ ReturnFromCallback
      BY <3>4, QuietKeeps DEF ThreadStarts, TestRequestStop, BeginPass, EndPass,
         PopEmptyQueue, ReturnFromCallback
    <3> QED
      BY <2>1, <3>1, <3>2, <3>3, <3>4 DEF ThreadStep
  <2>2. CASE OwnerStep \/ Tick \/ \E m \in Module : LoadModule(m)
    BY <2>2, QuietKeeps DEF OwnerStep, StartPatcherThread, StopPatcherThread, Destroy,
       Waited, Joined, Tick, LoadModule
  <2>3. CASE \E s \in Submitter :
               CountId(s) \/ InsertGroup(s) \/ \E r \in Catalogue : AddToQueue(s, r)
    BY <2>3, AddKeeps
  <2>4. CASE \E id \in DOMAIN patchGroups : UndoPatchGroup(id)
    BY <2>4, UndoKeeps, UndoThrowsKeeps DEF UndoPatchGroup
  <2> QED
    BY <1>1, <2>1, <2>2, <2>3, <2>4 DEF Next
<1>2. CASE UNCHANGED vars
  BY <1>2, QuietKeeps DEF vars
<1> QED
  BY <1>1, <1>2

\* Both invariants hold for ever.
LEMMA PatchesInvariant ==
  ASSUME OneSubmitter
  PROVE  Spec => [](IInv /\ PatchesInv)
<1>1. Init => IInv /\ PatchesInv
  BY InitInv, InitPatches
<1>2. IInv /\ PatchesInv /\ [Next]_vars => (IInv /\ PatchesInv)'
  BY StepInv, StepPatches
<1> QED
  BY <1>1, <1>2, PTL DEF Spec
-----------------------------------------------------------------------------
(* How the service sees the groups.                                        *)

LEMMA MemoryTypes ==
  ASSUME IInv, IInv'
  PROVE  memory \in [Addr -> Byte] /\ memory' \in [Addr -> Byte]
BY DEF IInv, TypeOK, TargetTypes

LEMMA SameOutside ==
  ASSUME NEW S, memory \in [Addr -> Byte], memory' \in [Addr -> Byte],
         \A x \in Addr : x \notin S => memory'[x] = memory[x]
  PROVE  Service!SameOutside(S)
BY DEF Service!SameOutside

\* The service sees nothing of a step that decides no group and writes nothing.
LEMMA Stutters ==
  ASSUME memory' = memory, tainted' = tainted, faults' = faults,
         \A y \in PatchGroupId : /\ Status(y)' = Status(y) /\ Asked(y)' = Asked(y)
                                 /\ Sites(y)' = Sites(y)
  PROVE  UNCHANGED Service!vars
BY DEF Service!vars

\* A step that changes one group.
LEMMA ChangesOne ==
  ASSUME NEW id \in PatchGroupId,
         \A y \in PatchGroupId : y # id =>
           Status(y)' = Status(y) /\ Asked(y)' = Asked(y) /\ Sites(y)' = Sites(y)
  PROVE  /\ Service!Becomes(id, Status(id), Status(id)')
         /\ Status(id)' = Status(id) =>
              [y \in PatchGroupId |-> Status(y)'] = [y \in PatchGroupId |-> Status(y)]
         /\ [y \in PatchGroupId |-> Asked(y)'] =
              [[y \in PatchGroupId |-> Asked(y)] EXCEPT ![id] = Asked(id)']
         /\ [y \in PatchGroupId |-> Sites(y)'] =
              [[y \in PatchGroupId |-> Sites(y)] EXCEPT ![id] = Sites(id)']
         /\ Asked(id)' = Asked(id) =>
              [y \in PatchGroupId |-> Asked(y)'] = [y \in PatchGroupId |-> Asked(y)]
         /\ Sites(id)' = Sites(id) =>
              [y \in PatchGroupId |-> Sites(y)'] = [y \in PatchGroupId |-> Sites(y)]
BY DEF Service!Becomes

\* What a group is to the service follows from whether it is decided.
LEMMA StatusOf ==
  ASSUME IInv, NEW id \in DOMAIN patchGroups
  PROVE  /\ id \in PatchGroupId
         /\ Status(id) = IF patchGroups[id].isPatchesSuccessful THEN "applied"
                         ELSE IF patchGroups[id].isTimedOut THEN "expired" ELSE "waiting"
         /\ Asked(id) = patchGroups[id].request.patches
         /\ Sites(id) = Writes(patchGroups[id])
<1>1. IsPatchGroup(patchGroups[id]) /\ id \in PatchGroupId
  BY DEF IInv, TypeOK, GroupTypes
<1>2. /\ patchGroups[id].isPatchesSuccessful \in BOOLEAN
      /\ patchGroups[id].isTimedOut \in BOOLEAN
  BY <1>1 DEF IsPatchGroup
<1> QED
  BY <1>1, <1>2 DEF Status, Asked, Sites, Standing, Pending

\* The other groups keep what they are.
LEMMA OthersKept ==
  ASSUME NEW id, NEW y, y # id,
         y \in DOMAIN patchGroups' <=> y \in DOMAIN patchGroups,
         y \in DOMAIN patchGroups => patchGroups'[y] = patchGroups[y],
         UNCHANGED idVars
  PROVE  Status(y)' = Status(y) /\ Asked(y)' = Asked(y) /\ Sites(y)' = Sites(y)
<1>1. nextAvailablePatchGroupId' = nextAvailablePatchGroupId /\ adding' = adding
  BY DEF idVars
<1>2. CASE y \in DOMAIN patchGroups
  BY <1>2 DEF Status, Asked, Sites
<1>3. CASE y \notin DOMAIN patchGroups
  BY <1>1, <1>3 DEF Status, Asked, Sites
<1> QED
  BY <1>2, <1>3

\* The service and the Patcher mean the same addresses.
LEMMA ServiceSets ==
  ASSUME NEW id \in PatchGroupId, NEW S
  PROVE  /\ Service!Covered(id, S) =
              {x \in Addr : \E w \in S : Covers(Asked(id)[w[1]], w[2], x)}
         /\ Service!Spanned(id, S) =
              {x \in Addr : \E w \in S : x \in Span(Asked(id)[w[1]], w[2])}
         /\ Service!Found(id) = {w \in (DOMAIN Asked(id)) \X Addr :
                                   w[2] \in SearchResults(Asked(id)[w[1]])}
BY DEF Service!Covered, Service!Spanned, Service!Found, SearchResults

LEMMA ServiceTaken ==
  ASSUME IInv
  PROVE  Service!Applied = AppliedIds /\ Service!Taken = Taken
<1>1. DOMAIN patchGroups \subseteq PatchGroupId
  BY DEF IInv, TypeOK, GroupTypes
<1>2. Service!Applied = {y \in PatchGroupId : Status(y) = "applied"}
  BY DEF Service!Applied
<1>3. ASSUME NEW y \in PatchGroupId PROVE Status(y) = "applied" <=> y \in AppliedIds
  <2>1. CASE y \in DOMAIN patchGroups
    BY <2>1, StatusOf DEF AppliedIds
  <2>2. CASE y \notin DOMAIN patchGroups
    BY <2>2 DEF Status, AppliedIds
  <2> QED BY <2>1, <2>2
<1>4. Service!Applied = AppliedIds
  BY <1>1, <1>2, <1>3 DEF AppliedIds
<1>5. ASSUME NEW y \in AppliedIds
      PROVE  Service!Spanned(y, [z \in PatchGroupId |-> Sites(z)][y]) = Spanned(patchGroups[y])
  <2>1. /\ y \in PatchGroupId /\ Asked(y) = patchGroups[y].request.patches
        /\ Sites(y) = Writes(patchGroups[y])
    BY StatusOf DEF AppliedIds
  <2> QED
    BY <2>1, ServiceSets DEF Spanned
<1>6. Service!Taken = UNION {Spanned(patchGroups[y]) : y \in AppliedIds}
  BY <1>4, <1>5 DEF Service!Taken
<1> QED
  BY <1>4, <1>6 DEF Taken, AppliedIds

LEMMA ServiceClash ==
  ASSUME IInv, NEW id \in PatchGroupId, NEW g, Asked(id) = g.request.patches
  PROVE  Service!Clash(id, Writes(g)) = Clash(g)
<1>1. Service!Taken = Taken
  BY ServiceTaken
<1>2. [y \in PatchGroupId |-> Asked(y)][id] = g.request.patches
  OBVIOUS
<1> QED
  BY <1>1, <1>2 DEF Service!Clash, Clash

\* What a search adds to the writes of a group.
LEMMA SearchedWrites ==
  ASSUME NEW g, GroupOK(g), NEW k \in Nat
  PROVE  LET p == g.request.patches
         IN  Writes(SearchedUpTo(g, k)) = Writes(g) \cup
               {w \in (DOMAIN p) \X Addr : w[1] < k /\ w[2] \in SearchResults(p[w[1]])}
<1> DEFINE r    == g.resultsAndOriginalBytes
           p    == g.request.patches
           f(i) == SearchResults(p[i])
           n(i) == [a \in DOMAIN r[i] \cup f(i) |-> IF a \in f(i) THEN <<>> ELSE r[i][a]]
           h    == SearchedUpTo(g, k)
           F    == {w \in (DOMAIN p) \X Addr : w[1] < k /\ w[2] \in f(w[1])}
<1>1. IsPatchGroup(g) /\ IsPatchGroup(h)
  BY SearchedUpToOK DEF GroupOK
<1>2. /\ h.resultsAndOriginalBytes = [i \in DOMAIN r |-> IF i < k THEN n(i) ELSE r[i]]
      /\ h.request = g.request
  BY <1>1 DEF SearchedUpTo, IsPatchGroup
<1>3. DOMAIN r = DOMAIN p /\ DOMAIN h.resultsAndOriginalBytes = DOMAIN r
  BY <1>1, <1>2 DEF IsPatchGroup
<1>4. ASSUME NEW i \in DOMAIN r
      PROVE  DOMAIN h.resultsAndOriginalBytes[i] =
               IF i < k THEN DOMAIN r[i] \cup f(i) ELSE DOMAIN r[i]
  <2> HIDE DEF f, h, r
  <2>1. h.resultsAndOriginalBytes[i] = IF i < k THEN n(i) ELSE r[i]
    BY <1>2
  <2> QED
    BY <2>1
<1> HIDE DEF h, f, n
<1>5. ASSUME NEW w \in Writes(h) PROVE w \in Writes(g) \cup F
  <2>1. /\ w = <<w[1], w[2]>> /\ w[1] \in DOMAIN r /\ w[2] \in Addr
        /\ w[2] \in DOMAIN h.resultsAndOriginalBytes[w[1]]
    BY <1>1, <1>3, WriteFacts
  <2>2. w[2] \in DOMAIN r[w[1]] \/ (w[1] < k /\ w[2] \in f(w[1]))
    BY <1>4, <2>1
  <2> QED
    BY <1>1, <1>3, <2>1, <2>2, ResultIsWrite
<1>6. ASSUME NEW w \in Writes(g) \cup F PROVE w \in Writes(h)
  <2>1. /\ w = <<w[1], w[2]>> /\ w[1] \in DOMAIN r
        /\ w[2] \in DOMAIN r[w[1]] \/ (w[1] < k /\ w[2] \in f(w[1]))
    BY <1>1, <1>3, WriteFacts
  <2>2. w[2] \in DOMAIN h.resultsAndOriginalBytes[w[1]]
    BY <1>4, <2>1
  <2> QED
    BY <1>1, <1>3, <2>1, <2>2, ResultIsWrite
<1> QED
  BY <1>5, <1>6 DEF f, h

\* A search phase that misses nothing has found every patch.
LEMMA AllFound ==
  ASSUME NEW g, IsPatchGroup(g), FirstMiss(g) = {}, NEW i \in DOMAIN g.request.patches
  PROVE  SearchResults(g.request.patches[i]) # {}
<1> DEFINE n       == Len(g.request.patches)
           miss(k) == Misses(g.request.patches[k])
           T       == {k \in 1..n : miss(k)}
<1>1. n \in Nat /\ DOMAIN g.request.patches = 1..n
  <2>1. g.request.patches \in Seq(Patch)
    BY CatalogueAssumption DEF IsPatchGroup, Request
  <2> QED BY <2>1, LenProperties
<1>2. FirstMiss(g) = {k \in 1..n : miss(k) /\ \A j \in 1..(k - 1) : ~ miss(j)}
  BY DEF FirstMiss, Reached
<1> HIDE DEF miss, n
<1>3. ASSUME T # {} PROVE FALSE
  <2>0. T \in SUBSET Nat
    BY <1>1
  <2> HIDE DEF T
  <2>1. PICK k \in T : \A j \in T : k <= j
    BY <1>3, <2>0, LeastNat
  <2> USE DEF T
  <2>2. \A j \in 1..(k - 1) : j \notin T
    BY <1>1, <2>1
  <2>3. \A j \in 1..(k - 1) : j \in 1..n
    BY <1>1, <2>1
  <2>4. k \in FirstMiss(g)
    BY <1>2, <2>1, <2>2, <2>3
  <2> QED
    BY <2>4
<1>4. ~ miss(i)
  BY <1>1, <1>3
<1> QED
  BY <1>4 DEF miss, Misses
-----------------------------------------------------------------------------
(* Each step of the Patcher is a step of the service, or none.             *)

\* addToQueue() submits a group when it registers it.
LEMMA AddRefines ==
  ASSUME IInv, PatchesInv, OneSubmitter, NEW s \in Submitter,
         CountId(s) \/ InsertGroup(s) \/ \E r \in Catalogue : AddToQueue(s, r)
  PROVE  [Service!Next]_(Service!vars)
<1> DEFINE next == nextAvailablePatchGroupId
<1>1. memory' = memory /\ tainted' = tainted /\ faults' = faults
  BY DEF CountId, InsertGroup, AddToQueue, target, faultVars
<1>2. \A y \in PatchGroupId : y \in Int
  BY NatAssumption DEF PatchGroupId
<1>3. next \in Int /\ DOMAIN adding \subseteq {s}
  BY NatAssumption DEF IInv, TypeOK, IdTypes, OneSubmitter
<1>4. CASE CountId(s) \/ \E r \in Catalogue : AddToQueue(s, r)
  <2>1. patchGroups' = patchGroups
    BY <1>4 DEF CountId, AddToQueue, groupVars
  <2>2. \A y \in PatchGroupId : Asked(y)' = Asked(y) /\ Sites(y)' = Sites(y)
    BY <2>1 DEF Asked, Sites
  <2>3. CASE \E r \in Catalogue : AddToQueue(s, r)
    <3>1. PICK r \in Catalogue : AddToQueue(s, r)
      BY <2>3
    <3>2. /\ next' = next /\ s \notin DOMAIN adding
          /\ DOMAIN adding' = DOMAIN adding \cup {s} /\ adding'[s].id = next
      BY <3>1 DEF AddToQueue, With
    <3>3. \A y \in PatchGroupId : Status(y)' = Status(y)
      BY <1>2, <1>3, <2>1, <3>2 DEF Status
    <3> QED
      BY <1>1, <2>2, <3>3, Stutters
  <2>4. CASE CountId(s)
    <3>1. /\ s \in DOMAIN adding /\ ~ adding[s].counted
          /\ next' = adding[s].id + 1 /\ DOMAIN adding' = DOMAIN adding
          /\ adding'[s].id = adding[s].id
      BY <2>4 DEF CountId, IInv, TypeOK, IdTypes
    <3>2. adding[s].id = next
      BY <3>1 DEF IInv, IdsFresh
    <3>3. \A y \in PatchGroupId : Status(y)' = Status(y)
      BY <1>2, <1>3, <2>1, <3>1, <3>2 DEF Status
    <3> QED
      BY <1>1, <2>2, <3>3, Stutters
  <2> QED
    BY <1>4, <2>3, <2>4
<1>5. CASE InsertGroup(s)
  <2> DEFINE g == adding[s].group
  <2>0. PICK id : id = adding[s].id
    OBVIOUS
  <2>1. /\ s \in DOMAIN adding /\ adding[s].counted /\ next' = next
        /\ patchGroups' = With(patchGroups, id, g)
        /\ adding' = Restrict(adding, DOMAIN adding \ {s})
    BY <1>5, <2>0 DEF InsertGroup
  <2>2. /\ id \notin DOMAIN patchGroups /\ ~ g.isPatchesSuccessful /\ ~ g.isTimedOut
        /\ id \in PatchGroupId /\ g.request \in Catalogue /\ Writes(g) = {}
    BY <2>0, <2>1 DEF IInv, IdsFresh, Pending, TypeOK, IdTypes, IsPatchGroup, PatchesInv
  <2>3. \A t \in DOMAIN adding : adding[t].id = id
    BY <1>3, <2>0
  <2>4. DOMAIN adding' = {}
    BY <1>3, <2>1 DEF Restrict
  <2> HIDE DEF g
  <2>5. /\ DOMAIN patchGroups' = DOMAIN patchGroups \cup {id} /\ patchGroups'[id] = g
        /\ \A y \in DOMAIN patchGroups : patchGroups'[y] = patchGroups[y]
    BY <2>1, <2>2 DEF With
  <2>6. /\ Status(id) = "unused" /\ Status(id)' = "waiting"
        /\ Asked(id)' = g.request.patches /\ Sites(id)' = Sites(id)
    BY <2>0, <2>1, <2>2, <2>5 DEF Status, Asked, Sites, Standing, Pending
  <2>7. \A y \in PatchGroupId : y # id => Status(y)' = Status(y)
    BY <2>1, <2>3, <2>4, <2>5 DEF Status
  <2>8. \A y \in PatchGroupId : y # id => Asked(y)' = Asked(y) /\ Sites(y)' = Sites(y)
    BY <2>2, <2>5 DEF Asked, Sites
  <2>9. /\ Service!Becomes(id, "unused", "waiting")
        /\ [y \in PatchGroupId |-> Asked(y)'] =
             [[y \in PatchGroupId |-> Asked(y)] EXCEPT ![id] = g.request.patches]
        /\ [y \in PatchGroupId |-> Sites(y)'] = [y \in PatchGroupId |-> Sites(y)]
    BY <2>2, <2>6, <2>7, <2>8, ChangesOne
  <2>10. Service!Submit(id)
    BY <1>1, <2>2, <2>9 DEF Service!Submit
  <2> QED
    BY <2>2, <2>10 DEF Service!Next
<1> QED
  BY <1>4, <1>5

\* A group and the one that takes its place, to the service.
LEMMA GroupReplaced ==
  ASSUME IInv, IInv', NEW id \in DOMAIN patchGroups, NEW h,
         SetGroup(id, h), h.request = patchGroups[id].request, UNCHANGED idVars
  PROVE  /\ IsPatchGroup(h) /\ Sites(id)' = Writes(h)
         /\ Status(id)' = IF h.isPatchesSuccessful THEN "applied"
                          ELSE IF h.isTimedOut THEN "expired" ELSE "waiting"
         /\ Service!Becomes(id, Status(id), Status(id)')
         /\ [y \in PatchGroupId |-> Asked(y)'] = [y \in PatchGroupId |-> Asked(y)]
         /\ [y \in PatchGroupId |-> Sites(y)'] =
              [[y \in PatchGroupId |-> Sites(y)] EXCEPT ![id] = Writes(h)]
         /\ Writes(h) = Sites(id) =>
              [y \in PatchGroupId |-> Sites(y)'] = [y \in PatchGroupId |-> Sites(y)]
         /\ Status(id)' = Status(id) =>
              [y \in PatchGroupId |-> Status(y)'] = [y \in PatchGroupId |-> Status(y)]
<1>1. /\ DOMAIN patchGroups' = DOMAIN patchGroups /\ patchGroups'[id] = h
      /\ \A y \in DOMAIN patchGroups : y # id => patchGroups'[y] = patchGroups[y]
  BY DEF SetGroup
<1>2. IsPatchGroup(h)
  BY <1>1 DEF IInv, TypeOK, GroupTypes
<1>3. h.isPatchesSuccessful \in BOOLEAN /\ h.isTimedOut \in BOOLEAN
  BY <1>2 DEF IsPatchGroup
<1>4. /\ Status(id)' = IF h.isPatchesSuccessful THEN "applied"
                       ELSE IF h.isTimedOut THEN "expired" ELSE "waiting"
      /\ Asked(id)' = h.request.patches /\ Sites(id)' = Writes(h)
  BY <1>1, <1>3 DEF Status, Asked, Sites, Standing, Pending
<1>5. id \in PatchGroupId /\ Asked(id) = Asked(id)'
  BY <1>4, StatusOf
<1>6. \A y \in PatchGroupId : y # id =>
        Status(y)' = Status(y) /\ Asked(y)' = Asked(y) /\ Sites(y)' = Sites(y)
  BY <1>1, OthersKept
<1> QED
  BY <1>2, <1>4, <1>5, <1>6, ChangesOne

\* Sites that a search found, or that were there.
LEMMA LocatesOf ==
  ASSUME NEW id \in PatchGroupId, NEW S, S \subseteq Sites(id) \cup Service!Found(id),
         [y \in PatchGroupId |-> Sites(y)'] =
           [[y \in PatchGroupId |-> Sites(y)] EXCEPT ![id] = S]
  PROVE  /\ Service!Locates(id, S)
         /\ [y \in PatchGroupId |-> Sites(y)'][id] = S
BY DEF Service!Locates

\* A visit that writes nothing lets the group expire, or only looks for it.
LEMMA VisitRefines ==
  ASSUME IInv, IInv', NEW id \in DOMAIN patchGroups,
         TimeOutGroup(id) \/ SearchThrows(id) \/ SearchFindsNothing(id)
  PROVE  Service!Next
<1> DEFINE g == patchGroups[id]
<1>1. /\ memory' = memory /\ tainted' = tainted /\ UNCHANGED idVars /\ Visiting(id)
  BY DEF TimeOutGroup, SearchThrows, SearchFindsNothing, target, faultVars
<1>2. GroupOK(g) /\ IsPatchGroup(g) /\ Pending(g) /\ id \in PatchGroupId
  BY <1>1, VisitFacts DEF GroupOK
<1>3. Status(id) = "waiting" /\ Asked(id) = g.request.patches /\ Sites(id) = Writes(g)
  BY <1>2, StatusOf DEF Pending
<1>4. CASE TimeOutGroup(id)
  <2> DEFINE h == [g EXCEPT !.isTimedOut = TRUE]
  <2>1. SetGroup(id, h) /\ faults' = faults
    BY <1>4 DEF TimeOutGroup, faultVars
  <2>2. /\ h.isTimedOut /\ ~ h.isPatchesSuccessful /\ h.request = g.request
        /\ h.resultsAndOriginalBytes = g.resultsAndOriginalBytes
    BY <1>2 DEF Pending, IsPatchGroup
  <2> HIDE DEF h
  <2>3. Writes(h) = Writes(g)
    BY <2>2 DEF Writes
  <2>4. /\ Service!Becomes(id, "waiting", "expired")
        /\ [y \in PatchGroupId |-> Asked(y)'] = [y \in PatchGroupId |-> Asked(y)]
        /\ [y \in PatchGroupId |-> Sites(y)'] = [y \in PatchGroupId |-> Sites(y)]
    BY <1>1, <1>3, <2>1, <2>2, <2>3, GroupReplaced
  <2>5. Service!Expire(id)
    BY <1>1, <2>1, <2>4 DEF Service!Expire
  <2> QED
    BY <1>2, <2>5 DEF Service!Next
<1>5. ASSUME NEW h, SetGroup(id, h), Pending(h), h.request = g.request,
             Writes(h) \subseteq Writes(g) \cup Service!Found(id),
             faults' \in {faults, faults + 1}
      PROVE  Service!Next
  <2>1. /\ [y \in PatchGroupId |-> Status(y)'] = [y \in PatchGroupId |-> Status(y)]
        /\ [y \in PatchGroupId |-> Asked(y)'] = [y \in PatchGroupId |-> Asked(y)]
        /\ [y \in PatchGroupId |-> Sites(y)'] =
             [[y \in PatchGroupId |-> Sites(y)] EXCEPT ![id] = Writes(h)]
    BY <1>1, <1>3, <1>5, GroupReplaced DEF Pending
  <2>2. /\ Service!Locates(id, Writes(h))
        /\ [y \in PatchGroupId |-> Sites(y)'][id] = Writes(h)
    BY <1>2, <1>3, <1>5, <2>1, LocatesOf
  <2>3. [y \in PatchGroupId |-> Status(y)][id] = "waiting"
    BY <1>2, <1>3
  <2>4. Service!Look(id)
    BY <1>1, <1>5, <2>1, <2>2, <2>3 DEF Service!Look
  <2> QED
    BY <1>2, <2>4 DEF Service!Next
<1>6. CASE SearchThrows(id)
  <2>1. PICK k \in Reached(g) : SetGroup(id, SearchedUpTo(g, k))
    BY <1>6 DEF SearchThrows, Requeue
  <2>2. faults' \in {faults, faults + 1}
    BY <1>6 DEF SearchThrows
  <2>3. Pending(SearchedUpTo(g, k)) /\ SearchedUpTo(g, k).request = g.request
    BY <1>2 DEF SearchedUpTo, Pending, IsPatchGroup
  <2>4. k \in Nat
    BY DEF Reached
  <2>5. Writes(SearchedUpTo(g, k)) \subseteq Writes(g) \cup Service!Found(id)
    BY <1>2, <1>3, <2>4, SearchedWrites, ServiceSets
  <2> QED
    BY <1>5, <2>1, <2>2, <2>3, <2>5
<1>7. CASE SearchFindsNothing(id)
  <2>1. SetGroup(id, Cleared(g)) /\ faults' = faults
    BY <1>7 DEF SearchFindsNothing, Requeue, faultVars
  <2>2. Pending(Cleared(g)) /\ Cleared(g).request = g.request
    BY <1>2 DEF Cleared, Pending, IsPatchGroup
  <2>3. Writes(Cleared(g)) = {}
    <3>1. IsPatchGroup(Cleared(g))
      BY <1>2, ClearedOK DEF GroupOK
    <3>2. Cleared(g).resultsAndOriginalBytes =
            [i \in DOMAIN g.resultsAndOriginalBytes |-> <<>>]
      BY <1>2 DEF Cleared, IsPatchGroup
    <3>3. \A i \in DOMAIN Cleared(g).resultsAndOriginalBytes :
            DOMAIN Cleared(g).resultsAndOriginalBytes[i] = {}
      BY <3>2
    <3> QED
      BY <3>1, <3>3, WriteFacts
  <2> QED
    BY <1>5, <2>1, <2>2, <2>3
<1> QED
  BY <1>4, <1>6, <1>7
-----------------------------------------------------------------------------
\* Writing the sites D of a group, to the service.
LEMMA WritesOf ==
  ASSUME IInv, IInv', NEW id \in PatchGroupId, NEW g, IsPatchGroup(g),
         Asked(id) = g.request.patches, NEW D \in SUBSET Writes(g),
         memory' = MemoryAfter(g, D)
  PROVE  Service!Writes(id, D) /\ Service!Covered(id, D) = Touched(g, D)
<1>1. Service!Covered(id, D) = Touched(g, D)
  BY ServiceSets DEF Touched
<1>2. Service!SameOutside(Touched(g, D))
  BY OutsideTouched, MemoryTypes, SameOutside
<1>3. ASSUME NEW x \in Touched(g, D)
      PROVE  \E w \in D : /\ Covers(Asked(id)[w[1]], w[2], x)
                          /\ memory'[x] = Written(Asked(id)[w[1]], w[2], x)
  <2>1. x \in Addr /\ \E w \in D : IsOver(g, w, x)
    BY DEF Touched, IsOver, PatchOf
  <2>2. \E w \in D : /\ IsOver(g, w, x)
                     /\ MemoryAfter(g, D)[x] = Written(PatchOf(g, w), w[2], x)
    BY <2>1, MemoryAfterAt
  <2> QED
    BY <2>2 DEF IsOver, PatchOf
<1> QED
  BY <1>1, <1>2, <1>3 DEF Service!Writes

\* A group all of whose patches were found, to the service.
LEMMA FoundOf ==
  ASSUME IInv, NEW id \in DOMAIN patchGroups, Found(id)
  PROVE  LET s == Searched(id)
         IN  /\ id \in PatchGroupId /\ Status(id) = "waiting"
             /\ Asked(id) = s.request.patches
             /\ \A i \in DOMAIN Asked(id) : FoundIn(Asked(id)[i], memory) # {}
             /\ Writes(s) = Sites(id) \cup Service!Found(id)
<1> DEFINE g == patchGroups[id]
           s == Searched(id)
           k == Len(g.request.patches) + 1
<1>1. Visiting(id) /\ FirstMiss(g) = {}
  BY DEF Found
<1>2. GroupOK(g) /\ IsPatchGroup(g) /\ Pending(g) /\ id \in PatchGroupId
  BY <1>1, VisitFacts DEF GroupOK
<1>3. /\ Status(id) = "waiting" /\ Asked(id) = g.request.patches /\ Sites(id) = Writes(g)
  BY <1>2, StatusOf DEF Pending
<1>4. s.request = g.request
  BY FoundFacts
<1>5. \A i \in DOMAIN Asked(id) : FoundIn(Asked(id)[i], memory) # {}
  BY <1>1, <1>2, <1>3, AllFound DEF SearchResults
<1>6. k \in Nat /\ \A i \in DOMAIN g.request.patches : i < k
  <2>1. g.request.patches \in Seq(Patch)
    BY <1>2, CatalogueAssumption DEF IsPatchGroup, Request
  <2> QED
    BY <2>1, LenProperties
<1>7. Writes(SearchedUpTo(g, k)) = Sites(id) \cup Service!Found(id)
  <2> HIDE DEF k
  <2> QED
    BY <1>2, <1>3, <1>6, SearchedWrites, ServiceSets
<1> QED
  BY <1>2, <1>3, <1>4, <1>5, <1>7 DEF Searched

\* The group is applied as a whole.
LEMMA ApplyRefines ==
  ASSUME IInv, IInv', NEW id \in DOMAIN patchGroups, ApplyGroup(id)
  PROVE  Service!Next
<1> DEFINE s == Searched(id)
           W == Writes(s)
           h == [s EXCEPT !.isPatchesSuccessful = TRUE,
                          !.resultsAndOriginalBytes = ResultsAfter(s, W)]
<1>1. /\ memory' = MemoryAfter(s, W) /\ tainted' = tainted \cup Clash(s)
      /\ faults' = faults /\ UNCHANGED idVars /\ SetGroup(id, h) /\ Found(id)
  BY DEF ApplyGroup
<1>2. /\ IsPatchGroup(s) /\ Pending(s) /\ s.request = patchGroups[id].request /\ GroupOK(s)
  BY <1>1, FoundFacts DEF GroupOK
<1>3. /\ id \in PatchGroupId /\ Status(id) = "waiting" /\ Asked(id) = s.request.patches
      /\ \A i \in DOMAIN Asked(id) : FoundIn(Asked(id)[i], memory) # {}
      /\ W = Sites(id) \cup Service!Found(id)
  BY <1>1, FoundOf
<1>4. /\ h.request = s.request /\ h.resultsAndOriginalBytes = ResultsAfter(s, W)
      /\ h.isPatchesSuccessful
  BY <1>2 DEF IsPatchGroup
<1> HIDE DEF h, s
<1>5. /\ IsPatchGroup(h) /\ Status(id)' = "applied"
      /\ Service!Becomes(id, "waiting", "applied")
      /\ [y \in PatchGroupId |-> Asked(y)'] = [y \in PatchGroupId |-> Asked(y)]
      /\ [y \in PatchGroupId |-> Sites(y)'] =
           [[y \in PatchGroupId |-> Sites(y)] EXCEPT ![id] = Writes(h)]
  BY <1>1, <1>2, <1>3, <1>4, GroupReplaced
<1>6. Writes(h) = W
  BY <1>2, <1>4, <1>5, MemoryTypes, AfterWrites
<1>7. /\ Service!Locates(id, W) /\ [y \in PatchGroupId |-> Sites(y)'][id] = W
  BY <1>3, <1>5, <1>6, LocatesOf
<1>8. Service!Writes(id, W)
  BY <1>1, <1>2, <1>3, WritesOf
<1>9. Service!Clash(id, W) = Clash(s)
  BY <1>3, ServiceClash
<1>10. \A i \in DOMAIN [y \in PatchGroupId |-> Asked(y)][id] :
         FoundIn([y \in PatchGroupId |-> Asked(y)][id][i], memory) # {}
  BY <1>3
<1> HIDE DEF W
<1>11. Service!Apply(id)
  BY <1>1, <1>3, <1>5, <1>7, <1>8, <1>9, <1>10 DEF Service!Apply
<1> QED
  BY <1>3, <1>11 DEF Service!Next

\* An exception among the writes: some sites are written, the group waits on.
LEMMA WriteThrowsRefines ==
  ASSUME IInv, IInv', NEW id \in DOMAIN patchGroups, WriteThrows(id)
  PROVE  Service!Next
<1> DEFINE s == Searched(id)
           W == Writes(s)
<1>1. PICK D \in Prefixes(W) :
        /\ memory' = MemoryAfter(s, D)
        /\ tainted' = tainted \cup Touched(s, D)
        /\ Requeue(id, [s EXCEPT !.resultsAndOriginalBytes = ResultsAfter(s, D)])
  BY DEF WriteThrows
<1> DEFINE h == [s EXCEPT !.resultsAndOriginalBytes = ResultsAfter(s, D)]
<1>2. /\ D \in SUBSET W /\ UNCHANGED idVars /\ Found(id) /\ faults' = faults + 1
      /\ SetGroup(id, h)
  BY <1>1 DEF Prefixes, WriteThrows, Requeue
<1>3. /\ IsPatchGroup(s) /\ Pending(s) /\ s.request = patchGroups[id].request /\ GroupOK(s)
  BY <1>2, FoundFacts DEF GroupOK
<1>4. /\ id \in PatchGroupId /\ Status(id) = "waiting" /\ Asked(id) = s.request.patches
      /\ \A i \in DOMAIN Asked(id) : FoundIn(Asked(id)[i], memory) # {}
      /\ W = Sites(id) \cup Service!Found(id)
  BY <1>2, FoundOf
<1>5. /\ h.request = s.request /\ h.resultsAndOriginalBytes = ResultsAfter(s, D)
      /\ Pending(h)
  BY <1>3 DEF IsPatchGroup, Pending
<1> HIDE DEF h, s
<1>6. /\ IsPatchGroup(h) /\ Status(id)' = "waiting"
      /\ [y \in PatchGroupId |-> Status(y)'] = [y \in PatchGroupId |-> Status(y)]
      /\ [y \in PatchGroupId |-> Asked(y)'] = [y \in PatchGroupId |-> Asked(y)]
      /\ [y \in PatchGroupId |-> Sites(y)'] =
           [[y \in PatchGroupId |-> Sites(y)] EXCEPT ![id] = Writes(h)]
  BY <1>2, <1>3, <1>4, <1>5, GroupReplaced DEF Pending
<1>7. Writes(h) = W
  BY <1>2, <1>3, <1>5, <1>6, MemoryTypes, AfterWrites
<1>8. /\ Service!Locates(id, W) /\ [y \in PatchGroupId |-> Sites(y)'][id] = W
  BY <1>4, <1>6, <1>7, LocatesOf
<1>9. Service!Writes(id, D) /\ Service!Covered(id, D) = Touched(s, D)
  BY <1>1, <1>2, <1>3, <1>4, WritesOf
<1>10. /\ [y \in PatchGroupId |-> Status(y)][id] = "waiting"
       /\ \A i \in DOMAIN [y \in PatchGroupId |-> Asked(y)][id] :
            FoundIn([y \in PatchGroupId |-> Asked(y)][id][i], memory) # {}
  BY <1>4
<1> HIDE DEF W
<1>11. Service!FailApply(id)
  BY <1>1, <1>2, <1>6, <1>8, <1>9, <1>10 DEF Service!FailApply
<1> QED
  BY <1>4, <1>11 DEF Service!Next

\* What an undo, complete or not, does to the addresses of its group.
LEMMA RestoresOf ==
  ASSUME IInv, IInv', PatchesInv, NEW id \in AppliedIds,
         NEW D \in SUBSET Writes(patchGroups[id]),
         memory' = MemoryRestored(patchGroups[id], D)
  PROVE  LET S == Service!Spanned(id, Sites(id))
         IN  /\ S = Spanned(patchGroups[id])
             /\ Service!SameOutside(S)
             /\ \A x \in S \ tainted : memory'[x] \in {memory[x], Original[x]}
             /\ D = Writes(patchGroups[id]) =>
                  \A x \in S \ tainted : memory'[x] = Original[x]
<1> DEFINE g == patchGroups[id]
           S == Spanned(g)
<1>1. id \in PatchGroupId /\ Asked(id) = g.request.patches /\ Sites(id) = Writes(g)
  BY StatusOf DEF AppliedIds
<1>2. Service!Spanned(id, Sites(id)) = S
  BY <1>1, ServiceSets DEF Spanned
<1>3. \A x \in Addr : x \in S <=> \E w \in Writes(g) : IsOn(g, w, x)
  BY DEF Spanned, IsOn, PatchOf
<1>4. S \subseteq Addr
  BY DEF Spanned
<1> HIDE DEF S
<1>5. ASSUME NEW x \in Addr
      PROVE  /\ (\A w \in D : ~ IsOn(g, w, x)) => memory'[x] = memory[x]
             /\ x \notin tainted => \A w \in D : IsOn(g, w, x) => memory'[x] = Original[x]
  BY RestoredAt
<1>6. \A x \in Addr : x \notin S => memory'[x] = memory[x]
  BY <1>3, <1>5
<1>7. Service!SameOutside(S)
  BY <1>6, MemoryTypes, SameOutside
<1>8. \A x \in S \ tainted : memory'[x] \in {memory[x], Original[x]}
  BY <1>4, <1>5
<1>9. D = Writes(g) => \A x \in S \ tainted : memory'[x] = Original[x]
  BY <1>3, <1>4, <1>5
<1> QED
  BY <1>2, <1>7, <1>8, <1>9 DEF S

\* An undo withdraws the group, and its addresses hold the program's bytes.
LEMMA UndoRefines ==
  ASSUME IInv, IInv', PatchesInv, NEW id, Undo(id), UNCHANGED idVars
  PROVE  Service!Next
<1> DEFINE g == patchGroups[id]
           S == IF id \in Service!Applied THEN Service!Spanned(id, Sites(id)) ELSE {}
<1>1. /\ id \in DOMAIN patchGroups /\ tainted' = tainted /\ faults' = faults
      /\ memory' = IF g.isPatchesSuccessful THEN MemoryRestored(g, Writes(g)) ELSE memory
      /\ DOMAIN patchGroups' = DOMAIN patchGroups \ {id}
      /\ \A y \in DOMAIN patchGroups' : patchGroups'[y] = patchGroups[y]
  BY DEF Undo, Restrict, faultVars
<1>2. id \in PatchGroupId /\ id \in Int
  BY <1>1, StatusOf, NatAssumption DEF PatchGroupId
<1>3. /\ Status(id)' = "withdrawn" /\ Asked(id)' = <<>> /\ Sites(id)' = {}
      /\ Status(id) \in {"waiting", "applied", "expired"}
  <2>1. nextAvailablePatchGroupId' = nextAvailablePatchGroupId /\ adding' = adding
    BY DEF idVars
  <2>2. /\ id < nextAvailablePatchGroupId /\ nextAvailablePatchGroupId \in Int
        /\ \A s \in DOMAIN adding : adding[s].id # id
    BY <1>1, <1>2, NatAssumption DEF IInv, IdsFresh, TypeOK, IdTypes
  <2>3. Status(id)' = "withdrawn" /\ Asked(id)' = <<>> /\ Sites(id)' = {}
    BY <1>1, <1>2, <2>1, <2>2 DEF Status, Asked, Sites
  <2> QED
    BY <1>1, <2>3, StatusOf
<1>4. \A y \in PatchGroupId : y # id =>
        Status(y)' = Status(y) /\ Asked(y)' = Asked(y) /\ Sites(y)' = Sites(y)
  BY <1>1, OthersKept
<1>5. /\ Service!Becomes(id, Status(id), "withdrawn")
      /\ [y \in PatchGroupId |-> Asked(y)'] =
           [[y \in PatchGroupId |-> Asked(y)] EXCEPT ![id] = <<>>]
      /\ [y \in PatchGroupId |-> Sites(y)'] =
           [[y \in PatchGroupId |-> Sites(y)] EXCEPT ![id] = {}]
  BY <1>2, <1>3, <1>4, ChangesOne
<1>6. Service!Applied = AppliedIds
  BY ServiceTaken
<1>7. Service!SameOutside(S) /\ \A x \in S \ tainted : memory'[x] = Original[x]
  <2>1. CASE g.isPatchesSuccessful
    <3>1. id \in AppliedIds /\ memory' = MemoryRestored(g, Writes(g))
      BY <1>1, <2>1 DEF AppliedIds
    <3>2. Writes(g) \in SUBSET Writes(g)
      OBVIOUS
    <3>3. S = Service!Spanned(id, Sites(id))
      BY <1>6, <3>1
    <3> HIDE DEF S
    <3> QED
      BY <3>1, <3>2, <3>3, RestoresOf
  <2>2. CASE ~ g.isPatchesSuccessful
    <3>1. S = {} /\ memory' = memory
      BY <1>1, <1>6, <2>2 DEF AppliedIds
    <3> HIDE DEF S
    <3> QED
      BY <3>1, MemoryTypes, SameOutside
  <2> QED BY <2>1, <2>2
<1>8. [y \in PatchGroupId |-> Sites(y)][id] = Sites(id)
  BY <1>2
<1>9. Service!Withdraw(id)
  BY <1>1, <1>3, <1>5, <1>7, <1>8 DEF Service!Withdraw
<1> QED
  BY <1>2, <1>9 DEF Service!Next

\* An exception of an undo leaves the group, some of its bytes given back.
LEMMA UndoThrowsRefines ==
  ASSUME IInv, IInv', PatchesInv, NEW id, UndoThrows(id), UNCHANGED idVars
  PROVE  Service!Next
<1> DEFINE g == patchGroups[id]
           S == Service!Spanned(id, Sites(id))
<1>1. /\ id \in AppliedIds /\ id \in DOMAIN patchGroups /\ patchGroups' = patchGroups
      /\ faults' = faults + 1
  BY DEF UndoThrows, AppliedIds, groupVars
<1>2. PICK D \in Prefixes(Writes(g)) :
        memory' = MemoryRestored(g, D) /\ tainted' = tainted \cup Touched(g, Writes(g))
  BY DEF UndoThrows
<1>3. D \in SUBSET Writes(g)
  BY DEF Prefixes
<1>4. /\ id \in PatchGroupId /\ Asked(id) = g.request.patches /\ Sites(id) = Writes(g)
  BY <1>1, StatusOf
<1>5. /\ [y \in PatchGroupId |-> Status(y)'] = [y \in PatchGroupId |-> Status(y)]
      /\ [y \in PatchGroupId |-> Asked(y)'] = [y \in PatchGroupId |-> Asked(y)]
      /\ [y \in PatchGroupId |-> Sites(y)'] = [y \in PatchGroupId |-> Sites(y)]
  BY <1>1 DEF Status, Asked, Sites, idVars
<1>6. /\ Service!SameOutside(S)
      /\ \A x \in S \ tainted : memory'[x] \in {memory[x], Original[x]}
  BY <1>1, <1>2, <1>3, RestoresOf
<1>7. Service!Covered(id, Sites(id)) = Touched(g, Writes(g))
  BY <1>4, ServiceSets DEF Touched
<1>8. id \in Service!Applied /\ [y \in PatchGroupId |-> Sites(y)][id] = Sites(id)
  BY <1>1, <1>4, ServiceTaken
<1> HIDE DEF g
<1>9. Service!FailWithdraw(id)
  BY <1>1, <1>2, <1>5, <1>6, <1>7, <1>8 DEF Service!FailWithdraw
<1> QED
  BY <1>4, <1>9 DEF Service!Next

LEMMA QuietRefines ==
  ASSUME UNCHANGED <<memory, groupVars, idVars, faultVars>>
  PROVE  UNCHANGED Service!vars
<1>1. \A y \in PatchGroupId :
        Status(y)' = Status(y) /\ Asked(y)' = Asked(y) /\ Sites(y)' = Sites(y)
  BY DEF Status, Asked, Sites, groupVars, idVars
<1> QED
  BY <1>1, Stutters DEF faultVars

LEMMA StepRefines ==
  ASSUME OneSubmitter, IInv, IInv', PatchesInv, [Next]_vars
  PROVE  [Service!Next]_(Service!vars)
<1> USE DEF target
<1>1. CASE Next
  <2>1. CASE ThreadStep
    <3>1. CASE \E id \in DOMAIN patchGroups : CallbackUndoes(id)
      BY <3>1, UndoRefines, UndoThrowsRefines DEF CallbackUndoes
    <3>2. CASE \E id \in DOMAIN patchGroups :
                 TimeOutGroup(id) \/ SearchThrows(id) \/ SearchFindsNothing(id)
      BY <3>2, VisitRefines
    <3>3. CASE \E id \in DOMAIN patchGroups : ApplyGroup(id) \/ WriteThrows(id)
      BY <3>3, ApplyRefines, WriteThrowsRefines
    <3>4. CASE ThreadStarts \/ TestRequestStop \/ BeginPass \/ EndPass \/ PopEmptyQueue
                 \/ ReturnFromCallback
      BY <3>4, QuietRefines DEF ThreadStarts, TestRequestStop, BeginPass, EndPass,
         PopEmptyQueue, ReturnFromCallback
    <3> QED
      BY <2>1, <3>1, <3>2, <3>3, <3>4 DEF ThreadStep
  <2>2. CASE OwnerStep \/ Tick \/ \E m \in Module : LoadModule(m)
    BY <2>2, QuietRefines DEF OwnerStep, StartPatcherThread, StopPatcherThread, Destroy,
       Waited, Joined, Tick, LoadModule
  <2>3. CASE \E s \in Submitter :
               CountId(s) \/ InsertGroup(s) \/ \E r \in Catalogue : AddToQueue(s, r)
    BY <2>3, AddRefines
  <2>4. CASE \E id \in DOMAIN patchGroups : UndoPatchGroup(id)
    BY <2>4, UndoRefines, UndoThrowsRefines DEF UndoPatchGroup
  <2> QED
    BY <1>1, <2>1, <2>2, <2>3, <2>4 DEF Next
<1>2. CASE UNCHANGED vars
  BY <1>2, QuietRefines DEF vars
<1> QED
  BY <1>1, <1>2

LEMMA InitRefines == Init => Service!Init
<1> SUFFICES ASSUME Init PROVE Service!Init
  OBVIOUS
<1> USE DEF Init
<1>1. DOMAIN patchGroups = {} /\ DOMAIN adding = {}
  OBVIOUS
<1>2. ASSUME NEW y \in PatchGroupId
      PROVE  Status(y) = "unused" /\ Asked(y) = <<>> /\ Sites(y) = {}
  BY <1>1, NatAssumption DEF Status, Asked, Sites, PatchGroupId
<1> QED
  BY <1>2 DEF Service!Init

\* The Patcher implements the service: whatever it does, a group counts as
\* applied only once each of its patches is written wherever it is found, an
\* undo puts the program's own bytes back, no id is used twice, and an
\* exception damages only what its group writes.  The catalogue is any: where
\* two results meet, or one writes past its patch, the service says so.
THEOREM PatcherImplementsService ==
  ASSUME OneSubmitter
  PROVE  Spec => ImplementsService
<1>1. Init => Service!Init
  BY InitRefines
<1>2. IInv /\ PatchesInv /\ (IInv /\ PatchesInv)' /\ [Next]_vars
        => [Service!Next]_(Service!vars)
  BY StepRefines
<1> QED
  BY <1>1, <1>2, PatchesInvariant, PTL DEF Spec, ImplementsService, Service!Spec

-----------------------------------------------------------------------------
(* What the service promises the program and the author of a patch.        *)

\* An address of no applied group holds the program's own byte, whatever was
\* applied there and undone before, exceptions and overlapping results aside:
\* undoPatchGroup() copies back bytes that were saved at the time of the write.
THEOREM ProgramStaysIntact ==
  ASSUME OneSubmitter
  PROVE  Spec => []Service!ProgramIntact
<1>1. ASSUME IInv, PatchesInv PROVE Service!ProgramIntact
  <2>1. Service!Taken = Taken
    BY <1>1, ServiceTaken
  <2>2. ASSUME NEW x \in Addr \ tainted, x \notin Taken PROVE memory[x] = Original[x]
    <3>1. IntactAt(AppliedGroups, memory[x], x)
      BY <1>1 DEF PatchesInv
    <3>2. \A id \in DOMAIN AppliedGroups :
            \A w \in Writes(AppliedGroups[id]) : ~ IsOn(AppliedGroups[id], w, x)
      BY <2>2 DEF Taken, Spanned, AppliedGroups, AppliedIds, IsOn, PatchOf
    <3> QED
      BY <3>1, <3>2 DEF IntactAt
  <2> QED
    BY <2>1, <2>2 DEF Service!ProgramIntact
<1> QED
  BY <1>1, PatchesInvariant, PTL

\* An address that an applied group wrote holds what it wrote there, whatever
\* groups the thread applied, clients undid and exceptions cut short since.
THEOREM AppliedPatchesStand ==
  ASSUME OneSubmitter
  PROVE  Spec => []Service!PatchesStand
<1>1. ASSUME IInv, PatchesInv PROVE Service!PatchesStand
  <2>1. Service!Applied = AppliedIds
    BY <1>1, ServiceTaken
  <2>2. ASSUME NEW id \in AppliedIds, NEW w \in Sites(id), NEW x \in Addr \ tainted,
               Covers(Asked(id)[w[1]], w[2], x)
        PROVE  memory[x] = Written(Asked(id)[w[1]], w[2], x)
    <3> DEFINE g == patchGroups[id]
    <3>1. Asked(id) = g.request.patches /\ Sites(id) = Writes(g)
      BY <1>1, StatusOf DEF AppliedIds
    <3>2. IntactAt(AppliedGroups, memory[x], x)
      BY <1>1 DEF PatchesInv
    <3>3. id \in DOMAIN AppliedGroups /\ AppliedGroups[id] = g
      BY DEF AppliedGroups
    <3>4. IsOver(g, w, x) /\ w \in Writes(g)
      BY <2>2, <3>1 DEF IsOver, PatchOf
    <3>5. memory[x] = Written(PatchOf(g, w), w[2], x)
      BY <3>2, <3>3, <3>4 DEF IntactAt
    <3> QED
      BY <3>1, <3>5 DEF PatchOf
  <2>3. AppliedIds \subseteq PatchGroupId
    BY <1>1, StatusOf DEF AppliedIds
  <2> QED
    BY <2>1, <2>2, <2>3 DEF Service!PatchesStand
<1> QED
  BY <1>1, PatchesInvariant, PTL
=============================================================================
