---------------------------- MODULE SettingsProofs ----------------------------
(***************************************************************************)
(* The settings read as they were set, whatever the names, the values, the *)
(* defaults and the order of sets, clears, loads, saves and exits.         *)
(***************************************************************************)
EXTENDS SettingsManager, TLAPS

-----------------------------------------------------------------------------
(* Names and the names above them.                                         *)

Component == STRING \cup {Own}
Names == Seq(Component)

LEMMA SubSeqFacts ==
  ASSUME NEW s \in Names, NEW l \in 0..Len(s)
  PROVE  /\ SubSeq(s, 1, l) \in Names /\ Len(SubSeq(s, 1, l)) = l
         /\ \A i \in 1..l : SubSeq(s, 1, l)[i] = s[i]
BY DEF Names

LEMMA SameSequence ==
  ASSUME NEW s \in Names, NEW t \in Names, Len(s) = Len(t),
         \A i \in 1..Len(s) : s[i] = t[i]
  PROVE  s = t
BY DEF Names

\* A prefix agrees with the name as far as it goes.
LEMMA PrefixMeaning ==
  ASSUME NEW p \in Names, NEW s \in Names
  PROVE  IsPrefix(p, s) <=> Len(p) <= Len(s) /\ \A i \in 1..Len(p) : p[i] = s[i]
<1>1. Len(p) \in Nat /\ Len(s) \in Nat
  BY DEF Names
<1>2. /\ SubSeq(p, 1, Len(p)) \in Names /\ Len(SubSeq(p, 1, Len(p))) = Len(p)
      /\ \A i \in 1..Len(p) : SubSeq(p, 1, Len(p))[i] = p[i]
  BY <1>1, SubSeqFacts
<1>3. CASE Len(p) <= Len(s)
  <2>1. /\ SubSeq(s, 1, Len(p)) \in Names /\ Len(SubSeq(s, 1, Len(p))) = Len(p)
        /\ \A i \in 1..Len(p) : SubSeq(s, 1, Len(p))[i] = s[i]
    BY <1>1, <1>3, SubSeqFacts
  <2>2. SubSeq(p, 1, Len(p)) = SubSeq(s, 1, Len(p)) <=> \A i \in 1..Len(p) : p[i] = s[i]
    BY <1>2, <2>1, SameSequence
  <2> QED
    BY <1>3, <2>2 DEF IsPrefix
<1>4. CASE ~ (Len(p) <= Len(s))
  BY <1>4 DEF IsPrefix
<1> QED
  BY <1>3, <1>4

LEMMA PrefixesAre ==
  ASSUME NEW s \in Names
  PROVE  Prefixes(s) = {p \in Names : IsPrefix(p, s)}
<1>1. ASSUME NEW p \in Prefixes(s) PROVE p \in Names /\ IsPrefix(p, s)
  <2>1. PICK l \in 0..Len(s) : p = SubSeq(s, 1, l)
    BY DEF Prefixes
  <2>2. p \in Names /\ Len(p) = l /\ \A i \in 1..l : p[i] = s[i]
    BY <2>1, SubSeqFacts
  <2>3. Len(s) \in Nat
    BY DEF Names
  <2> QED
    BY <2>2, <2>3, PrefixMeaning
<1>2. ASSUME NEW p \in Names, IsPrefix(p, s) PROVE p \in Prefixes(s)
  <2>1. Len(p) \in Nat /\ Len(s) \in Nat
    BY DEF Names
  <2>2. Len(p) <= Len(s) /\ \A i \in 1..Len(p) : p[i] = s[i]
    BY <1>2, PrefixMeaning
  <2>3. Len(p) \in 0..Len(s)
    BY <2>1, <2>2
  <2>4. p = SubSeq(s, 1, Len(p))
    <3>1. /\ SubSeq(s, 1, Len(p)) \in Names /\ Len(SubSeq(s, 1, Len(p))) = Len(p)
          /\ \A i \in 1..Len(p) : SubSeq(s, 1, Len(p))[i] = s[i]
      BY <2>3, SubSeqFacts
    <3> QED
      BY <2>2, <3>1, SameSequence
  <2> QED
    BY <2>3, <2>4 DEF Prefixes
<1> QED
  BY <1>1, <1>2

\* The order on names: reflexive, transitive and antisymmetric, with the
\* empty name below all.
LEMMA PrefixOrder ==
  /\ <<>> \in Names
  /\ \A s \in Names : IsPrefix(s, s) /\ IsPrefix(<<>>, s)
  /\ \A s \in Names : IsPrefix(s, <<>>) => s = <<>>
  /\ \A s, t, u \in Names : IsPrefix(s, t) /\ IsPrefix(t, u) => IsPrefix(s, u)
  /\ \A s, t \in Names : IsPrefix(s, t) /\ IsPrefix(t, s) => s = t
<1>1. <<>> \in Names /\ Len(<<>>) = 0
  BY DEF Names
<1>2. \A s \in Names : IsPrefix(s, s) /\ IsPrefix(<<>>, s)
  <2> TAKE s \in Names
  <2>1. Len(s) \in Nat
    BY DEF Names
  <2> QED
    BY <1>1, <2>1, PrefixMeaning
<1>3. ASSUME NEW s \in Names, NEW t \in Names, NEW u \in Names, IsPrefix(s, t), IsPrefix(t, u)
      PROVE  IsPrefix(s, u)
  <2>1. Len(s) \in Nat /\ Len(t) \in Nat /\ Len(u) \in Nat
    BY DEF Names
  <2>2. /\ Len(s) <= Len(t) /\ \A i \in 1..Len(s) : s[i] = t[i]
        /\ Len(t) <= Len(u) /\ \A i \in 1..Len(t) : t[i] = u[i]
    BY <1>3, PrefixMeaning
  <2>3. Len(s) <= Len(u) /\ \A i \in 1..Len(s) : s[i] = u[i]
    BY <2>1, <2>2
  <2> QED
    BY <2>3, PrefixMeaning
<1>4. ASSUME NEW s \in Names, NEW t \in Names, IsPrefix(s, t), IsPrefix(t, s)
      PROVE  s = t
  <2>1. Len(s) \in Nat /\ Len(t) \in Nat
    BY DEF Names
  <2>2. Len(s) <= Len(t) /\ Len(t) <= Len(s) /\ \A i \in 1..Len(s) : s[i] = t[i]
    BY <1>4, PrefixMeaning
  <2> QED
    BY <2>1, <2>2, SameSequence
<1> QED
  BY <1>1, <1>2, <1>3, <1>4

LEMMA PathFacts ==
  /\ Path \subseteq Names /\ Name \subseteq Path /\ Name \subseteq Names
  /\ \A p \in Path : \A q \in Prefixes(p) : q \in Path
<1>1. Name \subseteq Names
  <2>1. \A n \in Seq(STRING) : n \in Seq(Component)
    BY DEF Component
  <2> QED
    BY <2>1, SettingsAssumption DEF Names
<1>2. \A n \in Name : Prefixes(n) = {p \in Names : IsPrefix(p, n)}
  BY <1>1, PrefixesAre
<1>3. Path \subseteq Names /\ Name \subseteq Path
  BY <1>1, <1>2, PrefixOrder DEF Path
<1>4. ASSUME NEW p \in Path, NEW q \in Prefixes(p) PROVE q \in Path
  <2>1. p \in Names /\ q \in Names /\ IsPrefix(q, p)
    BY <1>3, <1>4, PrefixesAre
  <2>2. CASE p = <<>>
    BY <2>1, <2>2, PrefixOrder DEF Path
  <2>3. CASE \E n \in Name : p \in Prefixes(n)
    <3>1. PICK n \in Name : p \in Prefixes(n)
      BY <2>3
    <3>2. q \in Prefixes(n)
      BY <1>1, <1>2, <2>1, <3>1, PrefixOrder
    <3> QED
      BY <3>1, <3>2 DEF Path
  <2> QED
    BY <2>2, <2>3 DEF Path
<1> QED
  BY <1>1, <1>3, <1>4

-----------------------------------------------------------------------------
(* Trees.                                                                  *)

\* Only names have values, and a branch leads to one: NoDeadBranch alone
\* would not say where.
GoodTree(tree) ==
  /\ IsTree(tree)
  /\ \A p \in DOMAIN tree : tree[p] # Empty => p \in Name
  /\ \A p \in DOMAIN tree \ {<<>>} :
       \E q \in DOMAIN tree : IsPrefix(p, q) /\ tree[q] # Empty

LEMMA TreeFacts ==
  ASSUME NEW tree, IsTree(tree)
  PROVE  /\ DOMAIN tree \subseteq Names /\ <<>> \in DOMAIN tree
         /\ \A p \in DOMAIN tree : \A q \in Names : IsPrefix(q, p) => q \in DOMAIN tree
         /\ \A p \in Names : Below(tree, p) = {q \in DOMAIN tree : IsPrefix(p, q) /\ p # q}
<1>1. DOMAIN tree \subseteq Names /\ <<>> \in DOMAIN tree
  BY PathFacts DEF IsTree
<1>2. \A p \in DOMAIN tree : Prefixes(p) \subseteq DOMAIN tree
  BY DEF IsTree
<1>3. \A p \in DOMAIN tree : \A q \in Names : IsPrefix(q, p) => q \in DOMAIN tree
  BY <1>1, <1>2, PrefixesAre
<1> QED
  BY <1>1, <1>3 DEF Below, IsStrictPrefix

\* get_(name, root, true): the other names keep their values.
LEMMA PutTree ==
  ASSUME NEW tree, IsTree(tree), NEW name \in Name, NEW value \in Value
  PROVE  /\ IsTree(Put(tree, name, value))
         /\ \A m \in Names : ValueAt(Put(tree, name, value), m)
                               = IF m = name THEN value ELSE ValueAt(tree, m)
<1> DEFINE t == Put(tree, name, value)
<1>1. /\ name \in Names /\ Prefixes(name) = {p \in Names : IsPrefix(p, name)}
      /\ Prefixes(name) \subseteq Path /\ value # Empty
  BY PathFacts, PrefixesAre, SettingsAssumption
<1>2. /\ DOMAIN tree \subseteq Names /\ <<>> \in DOMAIN tree /\ DOMAIN tree \subseteq Path
      /\ \A p \in DOMAIN tree : \A q \in Names : IsPrefix(q, p) => q \in DOMAIN tree
      /\ \A p \in DOMAIN tree : tree[p] \in Value \cup {Empty}
  BY TreeFacts DEF IsTree
<1>3. /\ DOMAIN t = DOMAIN tree \cup Prefixes(name)
      /\ \A p \in DOMAIN t : t[p] = IF p = name THEN value ELSE ValueAt(tree, p)
  BY DEF Put
<1> HIDE DEF t
<1>4. name \in DOMAIN t /\ t[name] = value
  BY <1>1, <1>3, PrefixOrder
<1>5. \A p \in DOMAIN t : t[p] \in Value \cup {Empty}
  BY <1>2, <1>3 DEF ValueAt
<1>6. ASSUME NEW p \in DOMAIN t PROVE Prefixes(p) \subseteq DOMAIN t
  <2>1. p \in Names /\ Prefixes(p) = {q \in Names : IsPrefix(q, p)}
    BY <1>1, <1>2, <1>3, PrefixesAre
  <2>2. ASSUME NEW q \in Names, IsPrefix(q, p) PROVE q \in DOMAIN t
    <3>1. CASE p \in DOMAIN tree
      BY <1>2, <1>3, <2>2, <3>1
    <3>2. CASE p \in Prefixes(name)
      <4>1. q \in Prefixes(name)
        BY <1>1, <2>1, <2>2, <3>2, PrefixOrder
      <4> QED BY <1>3, <4>1
    <3> QED BY <1>3, <3>1, <3>2
  <2> QED BY <2>1, <2>2
<1>7. IsTree(t)
  BY <1>1, <1>2, <1>3, <1>5, <1>6 DEF IsTree
<1>8. \A m \in Names : ValueAt(t, m) = IF m = name THEN value ELSE ValueAt(tree, m)
  BY <1>3, <1>4 DEF ValueAt
<1> QED
  BY <1>7, <1>8 DEF t

\* The branches that are made lead to the one that is set.
LEMMA PutGood ==
  ASSUME NEW tree, GoodTree(tree), NEW name \in Name, NEW value \in Value
  PROVE  GoodTree(Put(tree, name, value))
<1> DEFINE t == Put(tree, name, value)
<1>1. /\ name \in Names /\ Prefixes(name) = {p \in Names : IsPrefix(p, name)}
      /\ value # Empty
  BY PathFacts, PrefixesAre, SettingsAssumption
<1>2. /\ DOMAIN t = DOMAIN tree \cup Prefixes(name)
      /\ \A p \in DOMAIN t : t[p] = IF p = name THEN value ELSE ValueAt(tree, p)
  BY DEF Put
<1>3. IsTree(t)
  BY PutTree DEF GoodTree
<1> HIDE DEF t
<1>4. name \in DOMAIN t /\ t[name] = value
  BY <1>1, <1>2, PrefixOrder
<1>5. \A p \in DOMAIN t : t[p] # Empty => p \in Name
  BY <1>2 DEF GoodTree, ValueAt
<1>6. ASSUME NEW p \in DOMAIN t, p # <<>>
      PROVE  \E q \in DOMAIN t : IsPrefix(p, q) /\ t[q] # Empty
  <2>1. CASE p \in Prefixes(name)
    BY <1>1, <1>4, <2>1
  <2>2. CASE p \in DOMAIN tree
    <3>1. PICK q \in DOMAIN tree : IsPrefix(p, q) /\ tree[q] # Empty
      BY <1>6, <2>2 DEF GoodTree
    <3>2. q \in DOMAIN t /\ t[q] # Empty
      BY <1>1, <1>2, <3>1 DEF ValueAt
    <3> QED BY <3>1, <3>2
  <2> QED BY <1>2, <2>1, <2>2
<1> QED
  BY <1>3, <1>5, <1>6 DEF GoodTree, t

\* What clear_ erases had no value, and led to none but the one cleared.
LEMMA SpentMeaning ==
  ASSUME NEW tree, IsTree(tree), NEW name \in Name
  PROVE  \A p \in DOMAIN tree : p \in Spent(tree, name) <=>
           /\ IsPrefix(p, name) /\ p # <<>>
           /\ \A q \in DOMAIN tree : IsPrefix(p, q) =>
                IsPrefix(q, name) /\ (q = name \/ tree[q] = Empty)
<1>1. name \in Names /\ Prefixes(name) = {p \in Names : IsPrefix(p, name)}
  BY PathFacts, PrefixesAre
<1>2. /\ DOMAIN tree \subseteq Names
      /\ \A p \in Names : Below(tree, p) = {q \in DOMAIN tree : IsPrefix(p, q) /\ p # q}
  BY TreeFacts
<1> QED
  BY <1>1, <1>2, PrefixOrder DEF Spent

LEMMA ClearTree ==
  ASSUME NEW tree, IsTree(tree), NEW name \in Name
  PROVE  /\ IsTree(Clear(tree, name))
         /\ \A m \in Names : ValueAt(Clear(tree, name), m)
                               = IF m = name THEN Empty ELSE ValueAt(tree, m)
<1>1. CASE name \notin DOMAIN tree
  BY <1>1 DEF Clear, ValueAt
<1>2. CASE name \in DOMAIN tree
  <2> DEFINE t == Clear(tree, name)
             spent == Spent(tree, name)
  <2>1. /\ name \in Names /\ Prefixes(name) = {p \in Names : IsPrefix(p, name)}
    BY PathFacts, PrefixesAre
  <2>2. /\ DOMAIN tree \subseteq Names /\ <<>> \in DOMAIN tree /\ DOMAIN tree \subseteq Path
        /\ \A p \in DOMAIN tree : \A q \in Names : IsPrefix(q, p) => q \in DOMAIN tree
        /\ \A p \in DOMAIN tree : tree[p] \in Value \cup {Empty}
        /\ \A p \in Names : Below(tree, p) = {q \in DOMAIN tree : IsPrefix(p, q) /\ p # q}
    BY TreeFacts DEF IsTree
  <2>3. \A p \in DOMAIN tree : p \in spent <=>
          /\ IsPrefix(p, name) /\ p # <<>>
          /\ \A q \in DOMAIN tree : IsPrefix(p, q) =>
               IsPrefix(q, name) /\ (q = name \/ tree[q] = Empty)
    BY SpentMeaning
  <2>4. /\ DOMAIN t = DOMAIN tree \ spent
        /\ \A p \in DOMAIN t : t[p] = IF p = name THEN Empty ELSE tree[p]
    BY <1>2 DEF Clear
  <2> HIDE DEF t, spent
  <2>5. \A p \in DOMAIN tree : p \in spent /\ p # name => tree[p] = Empty
    BY <2>2, <2>3, PrefixOrder
  <2>6. ASSUME NEW p \in DOMAIN t PROVE Prefixes(p) \subseteq DOMAIN t
    <3>1. p \in Names /\ p \in DOMAIN tree /\ Prefixes(p) = {q \in Names : IsPrefix(q, p)}
      BY <2>2, <2>4, PrefixesAre
    <3>2. ASSUME NEW q \in Names, IsPrefix(q, p) PROVE q \in DOMAIN t
      <4>1. q \in DOMAIN tree
        BY <2>2, <3>1, <3>2
      <4>2. ASSUME q \in spent PROVE FALSE
        <5>1. /\ IsPrefix(p, name)
              /\ \A r \in DOMAIN tree : IsPrefix(q, r) =>
                   IsPrefix(r, name) /\ (r = name \/ tree[r] = Empty)
          BY <2>3, <3>1, <3>2, <4>1, <4>2
        <5>2. \A r \in DOMAIN tree : IsPrefix(p, r) => IsPrefix(q, r)
          BY <2>2, <3>1, <3>2, PrefixOrder
        <5>3. p # <<>>
          BY <2>3, <3>2, <4>1, <4>2, PrefixOrder
        <5>4. p \in spent
          BY <2>3, <3>1, <5>1, <5>2, <5>3
        <5> QED BY <2>4, <5>4
      <4> QED BY <2>4, <4>1, <4>2
    <3> QED BY <3>1, <3>2
  <2>7. IsTree(t)
    BY <2>2, <2>3, <2>4, <2>6 DEF IsTree
  <2>8. \A m \in Names : ValueAt(t, m) = IF m = name THEN Empty ELSE ValueAt(tree, m)
    BY <2>4, <2>5 DEF ValueAt
  <2> QED
    BY <2>7, <2>8 DEF t
<1> QED
  BY <1>1, <1>2

LEMMA ClearGood ==
  ASSUME NEW tree, GoodTree(tree), NEW name \in Name
  PROVE  GoodTree(Clear(tree, name))
<1>1. CASE name \notin DOMAIN tree
  BY <1>1 DEF Clear
<1>2. CASE name \in DOMAIN tree
  <2> DEFINE t == Clear(tree, name)
             spent == Spent(tree, name)
  <2>1. /\ name \in Names /\ Prefixes(name) = {p \in Names : IsPrefix(p, name)}
    BY PathFacts, PrefixesAre
  <2>2. /\ DOMAIN tree \subseteq Names /\ <<>> \in DOMAIN tree /\ DOMAIN tree \subseteq Path
        /\ \A p \in DOMAIN tree : \A q \in Names : IsPrefix(q, p) => q \in DOMAIN tree
        /\ \A p \in DOMAIN tree : tree[p] \in Value \cup {Empty}
        /\ \A p \in Names : Below(tree, p) = {q \in DOMAIN tree : IsPrefix(p, q) /\ p # q}
    BY TreeFacts DEF GoodTree, IsTree
  <2>3. \A p \in DOMAIN tree : p \in spent <=>
          /\ IsPrefix(p, name) /\ p # <<>>
          /\ \A q \in DOMAIN tree : IsPrefix(p, q) =>
               IsPrefix(q, name) /\ (q = name \/ tree[q] = Empty)
    BY SpentMeaning DEF GoodTree
  <2>4. /\ DOMAIN t = DOMAIN tree \ spent
        /\ \A p \in DOMAIN t : t[p] = IF p = name THEN Empty ELSE tree[p]
    BY <1>2 DEF Clear
  <2> HIDE DEF t, spent
  <2>5. \A p \in DOMAIN tree : p \in spent /\ p # name => tree[p] = Empty
    BY <2>2, <2>3, PrefixOrder
  <2>6. IsTree(t)
    BY ClearTree DEF GoodTree, t
  <2>7. \A p \in DOMAIN t : t[p] # Empty => p \in Name
    BY <2>4 DEF GoodTree
  <2>8. ASSUME NEW p \in DOMAIN t, p # <<>>
        PROVE  \E q \in DOMAIN t : IsPrefix(p, q) /\ t[q] # Empty
    <3>1. p \in DOMAIN tree /\ p \in Names /\ p \notin spent
      BY <2>2, <2>4
    <3>2. ASSUME NEW q \in DOMAIN tree, IsPrefix(p, q), tree[q] # Empty, q # name
          PROVE  \E r \in DOMAIN t : IsPrefix(p, r) /\ t[r] # Empty
      BY <2>4, <2>5, <3>2
    <3>3. CASE \E q \in DOMAIN tree : IsPrefix(p, q) /\ ~ IsPrefix(q, name)
      <4>1. PICK q \in DOMAIN tree : IsPrefix(p, q) /\ ~ IsPrefix(q, name)
        BY <3>3
      <4>2. q # <<>>
        BY <2>1, <4>1, PrefixOrder
      <4>3. PICK r \in DOMAIN tree : IsPrefix(q, r) /\ tree[r] # Empty
        BY <4>1, <4>2 DEF GoodTree
      <4>4. IsPrefix(p, r) /\ r # name
        BY <2>2, <3>1, <4>1, <4>3, PrefixOrder
      <4> QED BY <3>2, <4>3, <4>4
    <3>4. CASE \A q \in DOMAIN tree : IsPrefix(p, q) => IsPrefix(q, name)
      <4>1. IsPrefix(p, name)
        BY <2>2, <3>1, <3>4, PrefixOrder
      <4>2. PICK q \in DOMAIN tree : IsPrefix(p, q) /\ q # name /\ tree[q] # Empty
        BY <2>3, <2>8, <3>1, <3>4, <4>1
      <4> QED BY <3>2, <4>2
    <3> QED BY <3>3, <3>4
  <2> QED
    BY <2>6, <2>7, <2>8 DEF GoodTree, t
<1> QED
  BY <1>1, <1>2

LEMMA SetTree ==
  ASSUME NEW tree, IsTree(tree), NEW name \in Name, NEW value \in Value \cup {Empty}
  PROVE  /\ IsTree(Set(tree, name, value))
         /\ \A m \in Names : ValueAt(Set(tree, name, value), m)
                               = IF m = name THEN value ELSE ValueAt(tree, m)
<1>1. CASE value = Empty
  BY <1>1, ClearTree DEF Set
<1>2. CASE value # Empty
  BY <1>2, PutTree DEF Set
<1> QED
  BY <1>1, <1>2

LEMMA SetGood ==
  ASSUME NEW tree, GoodTree(tree), NEW name \in Name, NEW value \in Value \cup {Empty}
  PROVE  GoodTree(Set(tree, name, value))
<1>1. CASE value = Empty
  BY <1>1, ClearGood DEF Set
<1>2. CASE value # Empty
  BY <1>2, PutGood DEF Set
<1> QED
  BY <1>1, <1>2

LEMMA RootGood == GoodTree(Root)
<1>1. Prefixes(<<>>) = {<<>>}
  BY PrefixesAre, PrefixOrder
<1>2. DOMAIN Root = {<<>>} /\ Root[<<>>] = Empty
  BY DEF Root
<1> QED
  BY <1>1, <1>2 DEF GoodTree, IsTree, Path

LEMMA DefaultTreeGood == GoodTree(DefaultTree)
<1> DEFINE t == DefaultTree
<1>1. /\ DOMAIN Default \subseteq Name \ {<<>>} /\ DOMAIN Default \subseteq Names
      /\ \A n \in DOMAIN Default : Default[n] \in Value /\ Default[n] # Empty
  BY SettingsAssumption, PathFacts
<1>2. \A n \in DOMAIN Default : Prefixes(n) = {p \in Names : IsPrefix(p, n)}
  BY <1>1, PrefixesAre
<1>3. /\ DOMAIN t = {<<>>} \cup UNION {Prefixes(n) : n \in DOMAIN Default}
      /\ \A p \in DOMAIN t : t[p] = IF p \in DOMAIN Default THEN Default[p] ELSE Empty
  BY DEF DefaultTree
<1> HIDE DEF t
<1>4. \A n \in DOMAIN Default : n \in DOMAIN t
  BY <1>1, <1>2, <1>3, PrefixOrder
<1>5. DOMAIN t \subseteq Path
  BY <1>1, <1>3 DEF Path
<1>6. ASSUME NEW p \in DOMAIN t PROVE Prefixes(p) \subseteq DOMAIN t
  <2>1. p \in Names
    BY <1>5, PathFacts
  <2>2. Prefixes(p) = {q \in Names : IsPrefix(q, p)}
    BY <2>1, PrefixesAre
  <2>3. CASE p = <<>>
    BY <1>3, <2>2, <2>3, PrefixOrder
  <2>4. CASE \E n \in DOMAIN Default : p \in Prefixes(n)
    <3>1. PICK n \in DOMAIN Default : p \in Prefixes(n)
      BY <2>4
    <3>2. Prefixes(p) \subseteq Prefixes(n)
      BY <1>1, <1>2, <2>1, <2>2, <3>1, PrefixOrder
    <3> QED BY <1>3, <3>2
  <2> QED BY <1>3, <2>3, <2>4
<1>7. IsTree(t)
  BY <1>1, <1>3, <1>5, <1>6 DEF IsTree
<1>8. \A p \in DOMAIN t : t[p] # Empty => p \in Name
  BY <1>1, <1>3
<1>9. ASSUME NEW p \in DOMAIN t, p # <<>>
      PROVE  \E q \in DOMAIN t : IsPrefix(p, q) /\ t[q] # Empty
  <2>1. PICK n \in DOMAIN Default : p \in Prefixes(n)
    BY <1>3, <1>9
  <2> QED
    BY <1>1, <1>2, <1>3, <1>4, <2>1
<1> QED
  BY <1>7, <1>8, <1>9 DEF GoodTree, t

-----------------------------------------------------------------------------
(* The file.                                                               *)

\* A name with a component "__value__" would be read as the branch above it.
NoOwnName == \A n \in Name : \A i \in DOMAIN n : n[i] # Own

LEMMA BranchOfMember ==
  ASSUME NoOwnName, NEW p \in Path
  PROVE  BranchOf(p) = p /\ BranchOf(Append(p, Own)) = p
<1>1. p \in Names /\ Len(p) \in Nat
  BY PathFacts DEF Names
<1>2. BranchOf(p) = p
  <2>1. CASE p = <<>>
    BY <2>1 DEF BranchOf, IsOwn
  <2>2. CASE p # <<>>
    <3>1. PICK n \in Name : p \in Prefixes(n)
      BY <2>2 DEF Path
    <3>2. n \in Names /\ Len(p) <= Len(n) /\ \A i \in 1..Len(p) : p[i] = n[i]
      BY <1>1, <3>1, PathFacts, PrefixesAre, PrefixMeaning
    <3>3. Len(p) \in 1..Len(p) /\ Len(p) \in DOMAIN n
      BY <1>1, <2>2, <3>2 DEF Names
    <3>4. Last(p) # Own
      BY <3>2, <3>3 DEF Last, NoOwnName
    <3> QED BY <3>4 DEF BranchOf, IsOwn
  <2> QED BY <2>1, <2>2
<1>3. BranchOf(Append(p, Own)) = p
  <2> DEFINE m == Append(p, Own)
  <2>1. /\ m \in Names /\ Len(m) = Len(p) + 1 /\ m[Len(p) + 1] = Own
        /\ \A i \in 1..Len(p) : m[i] = p[i]
    <3>1. Own \in Component
      BY DEF Component
    <3>2. p \in Seq(Component)
      BY <1>1 DEF Names
    <3>3. m \in Seq(Component) /\ Len(m) = Len(p) + 1
      BY <3>1, <3>2
    <3>4. m[Len(p) + 1] = Own /\ \A i \in 1..Len(p) : m[i] = p[i]
      BY <1>1, <3>1, <3>2
    <3> QED
      BY <3>3, <3>4 DEF Names
  <2> HIDE DEF m
  <2>2. m # <<>> /\ Last(m) = Own
    BY <1>1, <2>1 DEF Last
  <2>3. /\ Front(m) \in Names /\ Len(Front(m)) = Len(p)
        /\ \A i \in 1..Len(p) : Front(m)[i] = p[i]
    BY <1>1, <2>1, SubSeqFacts DEF Front
  <2>4. Front(m) = p
    BY <1>1, <2>3, SameSequence
  <2> QED
    BY <2>2, <2>4 DEF BranchOf, IsOwn, m
<1> QED
  BY <1>2, <1>3

\* The branch above a name, and what is above that.
LEMMA FrontFacts ==
  ASSUME NEW p \in Path, p # <<>>
  PROVE  /\ Front(p) \in Path /\ Front(p) \in Prefixes(p)
         /\ \A q \in Prefixes(p) : q = p \/ q \in Prefixes(Front(p))
<1>1. p \in Names /\ Len(p) \in Nat \ {0} /\ Prefixes(p) \subseteq Path
  <2>1. p \in Names /\ Prefixes(p) \subseteq Path
    BY PathFacts
  <2> QED
    BY <2>1 DEF Names
<1>2. Prefixes(p) = {q \in Names : IsPrefix(q, p)}
  BY <1>1, PrefixesAre
<1>3. /\ Front(p) \in Names /\ Len(Front(p)) = Len(p) - 1
      /\ \A i \in 1..(Len(p) - 1) : Front(p)[i] = p[i]
  <2>1. Len(p) - 1 \in 0..Len(p)
    BY <1>1
  <2> QED
    BY <1>1, <2>1, SubSeqFacts DEF Front
<1>4. Front(p) \in Prefixes(p)
  BY <1>1, <1>2, <1>3, PrefixMeaning
<1>5. ASSUME NEW q \in Prefixes(p), q # p PROVE q \in Prefixes(Front(p))
  <2>1. /\ q \in Names /\ Len(q) \in Nat /\ Len(q) <= Len(p)
        /\ \A i \in 1..Len(q) : q[i] = p[i]
    BY <1>1, <1>2, PrefixMeaning DEF Names
  <2>2. Len(q) <= Len(p) - 1
    BY <1>1, <1>5, <2>1, SameSequence
  <2>3. IsPrefix(q, Front(p))
    BY <1>1, <1>3, <2>1, <2>2, PrefixMeaning
  <2> QED
    BY <1>3, <2>1, <2>3, PrefixesAre
<1> QED
  BY <1>1, <1>4, <1>5

\* What is read is a tree, whatever a user wrote.
LEMMA LoadedTree ==
  ASSUME NoOwnName, NEW json, IsJson(json), NEW before \in Value \cup {Empty}
  PROVE  IsTree(FromJson(json, before))
<1> DEFINE branches == {BranchOf(m) : m \in DOMAIN json}
           Chosen1(p) == CHOOSE m \in DOMAIN json : BranchOf(m) = p
           t == FromJson(json, before)
<1>1. \A m \in Member : BranchOf(m) \in Path
  BY BranchOfMember DEF Member
<1>2. branches \subseteq Path /\ \A p \in branches : Chosen1(p) \in DOMAIN json
  BY <1>1 DEF IsJson
<1>3. /\ DOMAIN t = {<<>>} \cup UNION {Prefixes(b) : b \in branches}
      /\ \A p \in DOMAIN t : t[p] = IF p \notin branches THEN Empty
                                    ELSE IF json[Chosen1(p)] # Other THEN json[Chosen1(p)]
                                    ELSE IF p = <<>> THEN before ELSE Empty
  BY DEF FromJson
<1> HIDE DEF branches, Chosen1, t
<1>4. \A p \in DOMAIN t : t[p] \in Value \cup {Empty}
  BY <1>2, <1>3 DEF IsJson
<1>5. DOMAIN t \subseteq Path
  BY <1>2, <1>3, PathFacts DEF Path
<1>6. ASSUME NEW p \in DOMAIN t PROVE Prefixes(p) \subseteq DOMAIN t
  <2>1. CASE p = <<>>
    BY <1>3, <2>1, PrefixesAre, PrefixOrder
  <2>2. CASE \E b \in branches : p \in Prefixes(b)
    <3>1. PICK b \in branches : p \in Prefixes(b)
      BY <2>2
    <3>2. b \in Names /\ p \in Names /\ IsPrefix(p, b)
      BY <1>2, <3>1, PathFacts, PrefixesAre
    <3>3. Prefixes(p) \subseteq Prefixes(b)
      BY <3>2, PrefixesAre, PrefixOrder
    <3> QED BY <1>3, <3>3
  <2> QED BY <1>3, <2>1, <2>2
<1> QED
  BY <1>3, <1>4, <1>5, <1>6 DEF IsTree, t

\* What is there when the read throws is a tree too.
LEMMA TornTree ==
  ASSUME NoOwnName, NEW json, IsJson(json), NEW before \in Value \cup {Empty},
         NEW tree \in TornTrees(json, before)
  PROVE  IsTree(tree)
<1> DEFINE full == FromJson(json, before)
<1>1. IsTree(full)
  BY LoadedTree
<1>2. PICK done \in SUBSET DOMAIN full :
        /\ \A p \in done : Prefixes(p) \subseteq done
        /\ tree = [p \in {<<>>} \cup {q \in DOMAIN full \ {<<>>} : Front(q) \in done} |->
                     IF p \in done THEN full[p] ELSE IF p = <<>> THEN before ELSE Empty]
  BY DEF TornTrees
<1> HIDE DEF full
<1>3. DOMAIN tree = {<<>>} \cup {q \in DOMAIN full \ {<<>>} : Front(q) \in done}
  BY <1>2
<1>4. DOMAIN tree \subseteq DOMAIN full /\ DOMAIN full \subseteq Path
  BY <1>1, <1>3 DEF IsTree
<1>5. \A p \in DOMAIN tree : tree[p] \in Value \cup {Empty}
  BY <1>1, <1>2, <1>3, <1>4 DEF IsTree
<1>6. ASSUME NEW p \in DOMAIN tree PROVE Prefixes(p) \subseteq DOMAIN tree
  <2>1. CASE p = <<>>
    BY <1>3, <2>1, PrefixesAre, PrefixOrder
  <2>2. CASE p # <<>>
    <3>1. p \in Path /\ Front(p) \in done
      BY <1>3, <1>4, <2>2
    <3>2. ASSUME NEW q \in Prefixes(p), q # p, q # <<>> PROVE q \in DOMAIN tree
      <4>1. q \in done /\ q \in DOMAIN full /\ q \in Path
        BY <1>2, <1>4, <2>2, <3>1, <3>2, FrontFacts
      <4>2. Front(q) \in done
        BY <1>2, <3>2, <4>1, FrontFacts
      <4> QED
        BY <1>3, <3>2, <4>1, <4>2
    <3> QED
      BY <1>3, <3>2
  <2> QED BY <2>1, <2>2
<1> QED
  BY <1>3, <1>4, <1>5, <1>6 DEF IsTree

\* A file that save() writes: strings and nulls in the place of a good tree.
Unedited(json) == \A m \in DOMAIN json : json[m] # Other

LEMMA UneditedLoads ==
  ASSUME NEW json, Unedited(json), NEW before
  PROVE  FromJson(json, before) = FromJson(json, Empty) /\ Refused(json) = {}
<1> DEFINE branches == {BranchOf(m) : m \in DOMAIN json}
           Chosen1(p) == CHOOSE m \in DOMAIN json : BranchOf(m) = p
<1>1. \A p \in branches : json[Chosen1(p)] # Other
  BY DEF Unedited
<1>2. FromJson(json, before) = FromJson(json, Empty)
  <2> DEFINE t(b) == [p \in {<<>>} \cup UNION {Prefixes(c) : c \in branches} |->
                        IF p \notin branches THEN Empty
                        ELSE IF json[Chosen1(p)] # Other THEN json[Chosen1(p)]
                        ELSE IF p = <<>> THEN b ELSE Empty]
  <2>1. FromJson(json, before) = t(before) /\ FromJson(json, Empty) = t(Empty)
    BY DEF FromJson
  <2> HIDE DEF branches, Chosen1
  <2>2. t(before) = t(Empty)
    BY <1>1
  <2> QED
    BY <2>1, <2>2
<1>3. Refused(json) = {}
  BY DEF Refused, Unedited
<1> QED
  BY <1>2, <1>3

\* What is saved and loaded reads as it did: branches with neither a value nor
\* any below them are all that may get lost on the way.
LEMMA RoundTrip ==
  ASSUME NoOwnName, NEW tree, IsTree(tree)
  PROVE  /\ DOMAIN FromJson(ToJson(tree), Empty) \subseteq DOMAIN tree
         /\ InFile(tree) \subseteq DOMAIN FromJson(ToJson(tree), Empty)
         /\ \A p \in DOMAIN FromJson(ToJson(tree), Empty) : FromJson(ToJson(tree), Empty)[p] = tree[p]
         /\ IsJson(ToJson(tree)) /\ ToJson(tree) \notin {NoFile, Unparsable}
         /\ Unedited(ToJson(tree))
<1> DEFINE json == ToJson(tree)
<1>1. /\ DOMAIN tree \subseteq Names /\ <<>> \in DOMAIN tree /\ DOMAIN tree \subseteq Path
      /\ \A p \in DOMAIN tree : \A q \in Names : IsPrefix(q, p) => q \in DOMAIN tree
      /\ \A p \in DOMAIN tree : tree[p] \in Value \cup {Empty}
  BY TreeFacts DEF IsTree
<1>2. InFile(tree) \subseteq DOMAIN tree
  BY DEF InFile
<1>3. ASSUME NEW p \in InFile(tree)
      PROVE  BranchOf(MemberOf(tree, p)) = p /\ MemberOf(tree, p) \in Member
  BY <1>1, <1>2, BranchOfMember DEF MemberOf, Member
<1>4. /\ DOMAIN json = {MemberOf(tree, p) : p \in InFile(tree)}
      /\ \A m \in DOMAIN json : json[m] = tree[BranchOf(m)] /\ BranchOf(m) \in InFile(tree)
      /\ json \in [DOMAIN json -> Value \cup {Empty}]
  BY <1>1, <1>2, <1>3 DEF ToJson
<1>5. IsJson(json) /\ json \notin {NoFile, Unparsable} /\ Unedited(json)
  <2>1. DOMAIN json \in SUBSET Member
    BY <1>3, <1>4
  <2> HIDE DEF json
  <2>2. json \in [DOMAIN json -> Value \cup {Empty, Other}]
    BY <1>4
  <2> QED
    BY <1>4, <2>1, <2>2, FileAssumption DEF IsJson, Unedited
<1> HIDE DEF json
<1> DEFINE branches == {BranchOf(m) : m \in DOMAIN json}
           Chosen1(p) == CHOOSE m \in DOMAIN json : BranchOf(m) = p
           t == FromJson(json, Empty)
<1>6. branches = InFile(tree)
  BY <1>3, <1>4
<1>7. \A p \in branches : json[Chosen1(p)] = tree[p] /\ json[Chosen1(p)] # Other
  BY <1>4, <1>5 DEF Unedited
<1>8. /\ DOMAIN t = {<<>>} \cup UNION {Prefixes(b) : b \in branches}
      /\ \A p \in DOMAIN t : t[p] = IF p \notin branches THEN Empty
                                    ELSE IF json[Chosen1(p)] # Other THEN json[Chosen1(p)]
                                    ELSE IF p = <<>> THEN Empty ELSE Empty
  BY DEF FromJson
<1> HIDE DEF branches, Chosen1, t
<1>9. \A b \in DOMAIN tree : Prefixes(b) = {p \in Names : IsPrefix(p, b)}
  BY <1>1, PrefixesAre
<1>10. DOMAIN t \subseteq DOMAIN tree
  BY <1>1, <1>2, <1>6, <1>8, <1>9
<1>11. InFile(tree) \subseteq DOMAIN t
  BY <1>1, <1>2, <1>6, <1>8, <1>9, PrefixOrder
<1>12. ASSUME NEW p \in DOMAIN t PROVE t[p] = tree[p]
  <2>1. CASE p \in branches
    BY <1>7, <1>8, <2>1
  <2>2. CASE p \notin branches
    <3>1. tree[p] = Empty
      BY <1>6, <1>10, <2>2 DEF InFile
    <3> QED BY <1>8, <2>2, <3>1
  <2> QED BY <2>1, <2>2
<1> QED
  BY <1>5, <1>10, <1>11, <1>12 DEF json, t

LEMMA SavedIsLoaded ==
  ASSUME NoOwnName, NEW tree, IsTree(tree)
  PROVE  /\ Settings(FromJson(ToJson(tree), Empty)) = Settings(tree)
         /\ GoodTree(tree) => GoodTree(FromJson(ToJson(tree), Empty))
         /\ IsJson(ToJson(tree)) /\ ToJson(tree) \notin {NoFile, Unparsable}
         /\ Unedited(ToJson(tree))
<1> DEFINE t == FromJson(ToJson(tree), Empty)
<1>1. /\ DOMAIN t \subseteq DOMAIN tree /\ InFile(tree) \subseteq DOMAIN t
      /\ \A p \in DOMAIN t : t[p] = tree[p]
      /\ IsJson(ToJson(tree)) /\ ToJson(tree) \notin {NoFile, Unparsable}
      /\ Unedited(ToJson(tree))
  BY RoundTrip
<1>2. IsTree(t)
  BY <1>1, LoadedTree
<1> HIDE DEF t
<1>3. \A p \in DOMAIN tree : tree[p] # Empty => p \in DOMAIN t
  BY <1>1 DEF InFile
<1>4. Settings(t) = Settings(tree)
  BY <1>1, <1>3 DEF Settings, ValueAt
<1>5. ASSUME GoodTree(tree) PROVE GoodTree(t)
  BY <1>1, <1>2, <1>3, <1>5 DEF GoodTree
<1> QED
  BY <1>1, <1>4, <1>5 DEF t

-----------------------------------------------------------------------------
(* The inductive invariant.                                                *)

Trees == {"settings", "defaultSettings"}

\* The values that are kept: those given to set() but for the defaults.
KeptSettings ==
  [n \in Name |-> IF n \in asDefault THEN Empty ELSE asked.settings[n]]

GoodFile == file \notin {NoFile, Unparsable} =>
              Unedited(file) /\ GoodTree(FromJson(file, Empty))

\* The names have in the trees what was asked; and as long as no user has
\* written the file it would load well, and there are no branches too many.
IInv ==
  /\ TypeOK
  /\ GoodTree(settingsTree_.defaultSettings)
  /\ asked.defaultSettings = Settings(settingsTree_.defaultSettings)
  /\ Settings(settingsTree_.settings) = KeptSettings
  /\ ~ edited => GoodTree(settingsTree_.settings) /\ GoodFile
  /\ saveOnExit => loaded = "yes"
  /\ KeptIsRestored

LEMMA SettingsType ==
  ASSUME NEW tree, IsTree(tree)
  PROVE  Settings(tree) \in [Name -> Value \cup {Empty}]
BY DEF IsTree, Settings, ValueAt

\* What a run of the manager starts from.
LEMMA FreshStart ==
  /\ DOMAIN Fresh = Trees
  /\ GoodTree(Fresh.settings) /\ GoodTree(Fresh.defaultSettings)
  /\ Settings(Fresh.settings) = [n \in Name |-> Empty]
  /\ Views(Fresh) \in [Trees -> [Name -> Value \cup {Empty}]]
  /\ Views(Fresh).settings = [n \in Name |-> Empty]
  /\ Views(Fresh).defaultSettings = Settings(Fresh.defaultSettings)
<1>1. /\ DOMAIN Fresh = Trees /\ GoodTree(Fresh.settings) /\ GoodTree(Fresh.defaultSettings)
      /\ Fresh.settings = Root
  BY RootGood, DefaultTreeGood DEF Fresh, Trees
<1>2. Views(Fresh) = [t \in Trees |-> Settings(Fresh[t])]
  BY <1>1 DEF Views
<1>3. Settings(Root) = [n \in Name |-> Empty]
  BY DEF Settings, ValueAt, Root
<1>4. \A t \in Trees : Settings(Fresh[t]) \in [Name -> Value \cup {Empty}]
  BY <1>1, SettingsType DEF Trees, GoodTree
<1> QED
  BY <1>1, <1>2, <1>3, <1>4 DEF Trees

LEMMA InitInv == Init => IInv
<1> SUFFICES ASSUME Init PROVE IInv
  OBVIOUS
<1>1. /\ running = TRUE /\ settingsTree_ = Fresh /\ saveOnExit = FALSE /\ file = NoFile
      /\ asked = Views(Fresh) /\ asDefault = {} /\ edited = FALSE
      /\ loaded = "no" /\ kept = Unknown
  BY DEF Init
<1>2. KeptSettings = [n \in Name |-> Empty]
  BY <1>1, FreshStart DEF KeptSettings
<1>3. TypeOK
  BY <1>1, FreshStart DEF TypeOK, Trees, GoodTree
<1> QED
  BY <1>1, <1>2, <1>3, FreshStart DEF IInv, GoodFile, KeptIsRestored

\* A step that replaces the settings by another tree, and says so.
LEMMA SettingsStep ==
  ASSUME IInv, NEW tree, IsTree(tree), ~ edited => GoodTree(tree),
         settingsTree_' = [settingsTree_ EXCEPT !.settings = tree],
         NEW given \in [Name -> Value \cup {Empty}],
         asked' = [asked EXCEPT !.settings = given], asDefault' \subseteq Name,
         Settings(tree) = KeptSettings',
         UNCHANGED <<running, file, edited, kept>>, running = TRUE,
         saveOnExit' \in BOOLEAN, loaded' \in {"no", "failed", "yes"},
         saveOnExit' => loaded' = "yes"
  PROVE  IInv'
<1>1. /\ DOMAIN settingsTree_ = Trees /\ asked \in [Trees -> [Name -> Value \cup {Empty}]]
      /\ IsTree(settingsTree_.defaultSettings)
  BY DEF IInv, TypeOK, Trees
<1>2. /\ DOMAIN settingsTree_' = Trees
      /\ settingsTree_'.settings = tree
      /\ settingsTree_'.defaultSettings = settingsTree_.defaultSettings
      /\ asked'.defaultSettings = asked.defaultSettings
      /\ asked' \in [Trees -> [Name -> Value \cup {Empty}]]
  BY <1>1 DEF Trees
<1>3. TypeOK'
  BY <1>1, <1>2 DEF IInv, TypeOK, Trees
<1>4. KeptIsRestored' /\ (~ edited' => GoodFile')
  BY DEF IInv, KeptIsRestored, GoodFile
<1> QED
  BY <1>2, <1>3, <1>4 DEF IInv

\* set()
LEMMA SetStep ==
  ASSUME IInv, NEW name \in Name, NEW value \in Value \cup {Empty}, SetSetting(name, value)
  PROVE  IInv'
<1> DEFINE old   == settingsTree_.settings
           tree  == Set(old, name, Chosen(name, value))
           given == [asked.settings EXCEPT ![name] = value]
<1>1. /\ running = TRUE /\ UNCHANGED <<running, saveOnExit, file, edited, loaded, kept>>
      /\ settingsTree_' = [settingsTree_ EXCEPT !.settings = tree]
      /\ asked' = [asked EXCEPT !.settings = given]
      /\ asDefault' = IF value # Empty /\ value = asked.defaultSettings[name]
                      THEN asDefault \cup {name} ELSE asDefault \ {name}
  BY DEF SetSetting, IInv, TypeOK
<1>2. /\ IsTree(old) /\ (~ edited => GoodTree(old))
      /\ asked \in [Trees -> [Name -> Value \cup {Empty}]] /\ asDefault \subseteq Name
      /\ asked.defaultSettings[name] = ValueAt(settingsTree_.defaultSettings, name)
      /\ Settings(old) = KeptSettings
  BY DEF IInv, TypeOK, Trees, Settings
<1>3. /\ Chosen(name, value) \in Value \cup {Empty}
      /\ Chosen(name, value) = IF value # Empty /\ value = asked.defaultSettings[name]
                               THEN Empty ELSE value
  BY <1>2 DEF Chosen
<1> DEFINE chosen == Chosen(name, value)
<1> HIDE DEF chosen, old
<1>4. /\ IsTree(tree) /\ (~ edited => GoodTree(tree))
      /\ \A m \in Names : ValueAt(tree, m) = IF m = name THEN chosen ELSE ValueAt(old, m)
  BY <1>2, <1>3, SetTree, SetGood DEF chosen
<1>5. /\ given \in [Name -> Value \cup {Empty}]
      /\ given = [n \in Name |-> IF n = name THEN value ELSE asked.settings[n]]
  BY <1>2 DEF Trees
<1> HIDE DEF tree, given
<1>6. asked'.settings = given
  BY <1>1, <1>2 DEF Trees
<1>7. ASSUME NEW n \in Name
      PROVE  ValueAt(tree, n) = IF n \in asDefault' THEN Empty ELSE given[n]
  <2>1. ValueAt(old, n) = IF n \in asDefault THEN Empty ELSE asked.settings[n]
    BY <1>2 DEF Settings, KeptSettings
  <2>2. CASE n = name
    BY <1>1, <1>3, <1>4, <1>5, <2>2, PathFacts DEF chosen
  <2>3. CASE n # name
    <3>1. n \in asDefault' <=> n \in asDefault
      BY <1>1, <2>3
    <3> QED
      BY <1>4, <1>5, <2>1, <2>3, <3>1, PathFacts
  <2> QED BY <2>2, <2>3
<1>8. Settings(tree) = KeptSettings'
  BY <1>6, <1>7 DEF Settings, KeptSettings
<1>9. /\ asDefault' \subseteq Name /\ saveOnExit' \in BOOLEAN
      /\ loaded' \in {"no", "failed", "yes"} /\ (saveOnExit' => loaded' = "yes")
  BY <1>1, <1>2 DEF IInv, TypeOK
<1> QED
  BY <1>1, <1>4, <1>5, <1>8, <1>9, SettingsStep

\* setDefault()
LEMMA DefaultStep ==
  ASSUME IInv, NEW name \in DefaultName, NEW value \in DefaultValue \cup {Empty},
         SetDefault(name, value)
  PROVE  IInv'
<1> DEFINE old  == settingsTree_.defaultSettings
           tree == Set(old, name, value)
<1>1. /\ UNCHANGED <<running, saveOnExit, file, asDefault, edited, loaded, kept>>
      /\ settingsTree_' = [settingsTree_ EXCEPT !.defaultSettings = tree]
      /\ asked' = [asked EXCEPT !.defaultSettings = [@ EXCEPT ![name] = value]]
      /\ name \in Name /\ value \in Value \cup {Empty}
  BY SettingsAssumption DEF SetDefault
<1>2. /\ DOMAIN settingsTree_ = Trees /\ asked \in [Trees -> [Name -> Value \cup {Empty}]]
      /\ GoodTree(old) /\ IsTree(old) /\ asked.defaultSettings = Settings(old)
  BY DEF IInv, TypeOK, Trees
<1> HIDE DEF old
<1>3. /\ GoodTree(tree) /\ IsTree(tree)
      /\ \A m \in Names : ValueAt(tree, m) = IF m = name THEN value ELSE ValueAt(old, m)
  BY <1>1, <1>2, SetTree, SetGood
<1>4. Settings(tree) = [asked.defaultSettings EXCEPT ![name] = value]
  BY <1>2, <1>3, PathFacts DEF Settings
<1> HIDE DEF tree
<1>5. /\ DOMAIN settingsTree_' = Trees
      /\ settingsTree_'.defaultSettings = tree
      /\ settingsTree_'.settings = settingsTree_.settings
      /\ asked'.settings = asked.settings /\ asked'.defaultSettings = Settings(tree)
      /\ asked' \in [Trees -> [Name -> Value \cup {Empty}]]
  BY <1>1, <1>2, <1>4 DEF Trees
<1>6. TypeOK'
  BY <1>1, <1>3, <1>5 DEF IInv, TypeOK, Trees
<1>7. KeptIsRestored' /\ (~ edited' => GoodFile') /\ KeptSettings' = KeptSettings
  BY <1>1, <1>5 DEF IInv, KeptIsRestored, GoodFile, KeptSettings
<1> QED
  BY <1>1, <1>3, <1>5, <1>6, <1>7 DEF IInv

\* A write leaves a file that is no JSON, or one that loads well.
LEMMA WriteFile ==
  ASSUME NoOwnName, IInv, NEW outcome \in Outcome, Writes(outcome)
  PROVE  /\ file' \in {NoFile, Unparsable} \/ IsJson(file')
         /\ ~ edited => GoodFile'
         /\ outcome = "done" /\ IsWritten(settingsTree_.settings) =>
              /\ file' # Unparsable
              /\ Settings(FromJson(file', Empty)) = Settings(settingsTree_.settings)
<1> DEFINE tree == settingsTree_.settings
<1>1. IsTree(tree) /\ (~ edited => GoodTree(tree))
  BY DEF IInv, TypeOK
<1>2. /\ IsJson(ToJson(tree)) /\ Unedited(ToJson(tree))
      /\ Settings(FromJson(ToJson(tree), Empty)) = Settings(tree)
      /\ ~ edited => GoodTree(FromJson(ToJson(tree), Empty))
      /\ ToJson(tree) \notin {NoFile, Unparsable}
  BY <1>1, SavedIsLoaded
<1>3. /\ file \in {NoFile, Unparsable} \/ IsJson(file)
      /\ ~ edited => GoodFile
  BY DEF IInv, TypeOK
<1> HIDE DEF tree
<1>4. CASE file' = ToJson(tree)
  BY <1>2, <1>4 DEF tree, GoodFile
<1>5. CASE file' = file /\ ~ (outcome = "done" /\ IsWritten(tree))
  BY <1>3, <1>5 DEF tree, GoodFile
<1>6. CASE file' = Unparsable /\ outcome = "failed"
  BY <1>6 DEF GoodFile
<1> QED
  BY <1>4, <1>5, <1>6 DEF Writes, tree

\* load() of a file that is there, to its end or to where it throws
LEMMA LoadStep ==
  ASSUME NoOwnName, IInv, NEW isSaveOnExit \in BOOLEAN,
         LoadFile(isSaveOnExit) \/ LoadThrows(isSaveOnExit)
  PROVE  IInv'
<1> DEFINE before == settingsTree_.settings[<<>>]
<1>1. /\ IsJson(file) /\ before \in Value \cup {Empty}
      /\ ~ edited => GoodFile /\ file \notin {NoFile, Unparsable}
  BY DEF LoadFile, LoadThrows, IInv, TypeOK, IsTree
<1>2. PICK tree :
        /\ Replaced(tree) /\ IsTree(tree) /\ (~ edited => GoodTree(tree))
  <2>1. CASE LoadFile(isSaveOnExit)
    <3>1. IsTree(FromJson(file, before))
      BY <1>1, LoadedTree
    <3>2. ~ edited => GoodTree(FromJson(file, before))
      BY <1>1, UneditedLoads DEF GoodFile
    <3> QED BY <2>1, <3>1, <3>2 DEF LoadFile
  <2>2. CASE LoadThrows(isSaveOnExit)
    <3>1. PICK tree \in TornTrees(file, before) : Replaced(tree)
      BY <2>2 DEF LoadThrows
    <3>2. IsTree(tree)
      BY <1>1, TornTree
    <3>3. Refused(file) # {}
      BY DEF TornTrees
    <3>4. edited
      BY <1>1, <3>3, UneditedLoads DEF GoodFile
    <3> QED BY <3>1, <3>2, <3>4
  <2> QED BY <2>1, <2>2
<1>3. Settings(tree) \in [Name -> Value \cup {Empty}]
  BY <1>2, SettingsType
<1>4. /\ settingsTree_' = [settingsTree_ EXCEPT !.settings = tree]
      /\ asked' = [asked EXCEPT !.settings = Settings(tree)]
      /\ asDefault' = {} /\ asked \in [Trees -> [Name -> Value \cup {Empty}]]
  BY <1>2 DEF Replaced, IInv, TypeOK, Trees
<1>5. asked'.settings = Settings(tree)
  BY <1>4 DEF Trees
<1>6. KeptSettings' = Settings(tree)
  BY <1>3, <1>4, <1>5 DEF KeptSettings
<1>7. /\ UNCHANGED <<running, file, edited, kept>> /\ running = TRUE
      /\ saveOnExit' \in BOOLEAN /\ loaded' \in {"no", "failed", "yes"}
      /\ saveOnExit' => loaded' = "yes"
  BY DEF LoadFile, LoadThrows, Armed, IInv, TypeOK
<1> QED
  BY <1>2, <1>3, <1>4, <1>6, <1>7, SettingsStep

\* The steps that leave the trees alone
LEMMA FileStep ==
  ASSUME NoOwnName, IInv, NEW isSaveOnExit \in BOOLEAN,
         LoadNothing(isSaveOnExit) \/ LoadFails(isSaveOnExit) \/ Save \/ WriteByHand
  PROVE  IInv'
<1>1. /\ UNCHANGED <<running, settingsTree_, asked, asDefault>>
      /\ saveOnExit' \in BOOLEAN /\ loaded' \in {"no", "failed", "yes"}
      /\ saveOnExit' => loaded' = "yes"
  BY DEF LoadNothing, LoadFails, Armed, Save, WriteByHand, history, IInv, TypeOK
<1>2. /\ file' \in {NoFile, Unparsable} \/ IsJson(file')
      /\ edited' \in BOOLEAN /\ (~ edited' => ~ edited /\ GoodFile')
      /\ kept' = Unknown \/ (kept' = kept /\ (running \/ file' = file))
  <2>1. CASE LoadNothing(isSaveOnExit) \/ LoadFails(isSaveOnExit)
    BY <2>1 DEF LoadNothing, LoadFails, history, IInv, TypeOK, GoodFile
  <2>2. CASE Save
    BY <2>2, WriteFile DEF Save, history, IInv, TypeOK
  <2>3. CASE WriteByHand
    BY <2>3, FileAssumption DEF WriteByHand
  <2> QED BY <2>1, <2>2, <2>3
<1>3. KeptIsRestored'
  BY <1>1, <1>2 DEF IInv, KeptIsRestored
<1>4. TypeOK'
  BY <1>1, <1>2 DEF IInv, TypeOK
<1>5. KeptSettings' = KeptSettings
  BY <1>1 DEF KeptSettings
<1> QED
  BY <1>1, <1>2, <1>3, <1>4, <1>5 DEF IInv

\* The end of the process and the start of the next one
LEMMA ProcessStep ==
  ASSUME NoOwnName, IInv, Exit \/ Kill \/ Start
  PROVE  IInv'
<1>1. CASE Start
  <2>1. /\ running' = TRUE /\ kept' = Unknown
        /\ UNCHANGED <<settingsTree_, saveOnExit, file, asked, asDefault, edited, loaded>>
    BY <1>1 DEF Start, history
  <2>2. TypeOK' /\ KeptIsRestored' /\ (~ edited' => GoodFile') /\ KeptSettings' = KeptSettings
    BY <2>1 DEF IInv, TypeOK, KeptIsRestored, GoodFile, KeptSettings
  <2> QED
    BY <2>1, <2>2 DEF IInv
<1>2. CASE Exit \/ Kill
  <2>1. /\ running' = FALSE /\ saveOnExit' = FALSE /\ loaded' = "no"
        /\ settingsTree_' = Fresh /\ asked' = Views(Fresh) /\ asDefault' = {}
        /\ edited' = edited /\ edited \in BOOLEAN
    BY <1>2 DEF Exit, Kill, Ends, IInv, TypeOK
  <2>2. /\ file' \in {NoFile, Unparsable} \/ IsJson(file')
        /\ ~ edited => GoodFile'
        /\ kept' = Unknown \/ kept' \in [Name -> Value \cup {Empty}]
        /\ kept' # Unknown => file' # Unparsable /\ Settings(FromJson(file', Empty)) = kept'
    <3>1. CASE file' = file /\ kept' = Unknown
      BY <3>1 DEF IInv, TypeOK, GoodFile
    <3>2. CASE \E outcome \in Outcome :
                 /\ Writes(outcome)
                 /\ kept' = IF outcome = "done" /\ IsWritten(settingsTree_.settings)
                            THEN Settings(settingsTree_.settings) ELSE Unknown
      <4>1. PICK outcome \in Outcome :
              /\ Writes(outcome)
              /\ kept' = IF outcome = "done" /\ IsWritten(settingsTree_.settings)
                         THEN Settings(settingsTree_.settings) ELSE Unknown
        BY <3>2
      <4>2. Settings(settingsTree_.settings) \in [Name -> Value \cup {Empty}]
        BY SettingsType DEF IInv, TypeOK
      <4> QED
        BY <4>1, <4>2, WriteFile
    <3> QED
      BY <1>2, <3>1, <3>2 DEF Exit, Kill
  <2>3. TypeOK'
    BY <2>1, <2>2, FreshStart DEF TypeOK, Trees, GoodTree
  <2>4. KeptIsRestored'
    BY <2>2 DEF KeptIsRestored
  <2>5. KeptSettings' = [n \in Name |-> Empty]
    BY <2>1, FreshStart DEF KeptSettings
  <2> QED
    BY <2>1, <2>2, <2>3, <2>4, <2>5, FreshStart DEF IInv
<1> QED
  BY <1>1, <1>2

LEMMA StepInv ==
  ASSUME NoOwnName, IInv, [Next]_vars
  PROVE  IInv'
<1>1. CASE UNCHANGED vars
  <2>1. /\ TypeOK' /\ KeptIsRestored' /\ KeptSettings' = KeptSettings
        /\ ~ edited' => GoodFile'
    BY <1>1 DEF vars, history, IInv, TypeOK, KeptIsRestored, KeptSettings, GoodFile
  <2> QED
    BY <1>1, <2>1 DEF vars, history, IInv
<1> QED
  BY <1>1, SetStep, DefaultStep, LoadStep, FileStep, ProcessStep DEF Next

LEMMA SettingsInvariant == ASSUME NoOwnName PROVE Spec => []IInv
<1>1. Init => IInv
  BY InitInv
<1>2. IInv /\ [Next]_vars => IInv'
  BY StepInv
<1> QED
  BY <1>1, <1>2, PTL DEF Spec

-----------------------------------------------------------------------------
(* What is promised.                                                       *)

\* Both trees keep their shape, and the file is one that save() or a user
\* writes, whatever is set, cleared, saved and loaded, to the end or in part.
THEOREM SettingsTypeOK == ASSUME NoOwnName PROVE Spec => []TypeOK
<1>1. IInv => TypeOK
  BY DEF IInv
<1> QED
  BY <1>1, SettingsInvariant, PTL

\* No branch is left behind that has no value and leads to none: clear_()
\* erases upwards as far as it must, and load() makes none but of what a user
\* wrote.
THEOREM SettingsNoDeadBranch == ASSUME NoOwnName PROVE Spec => []NoDeadBranch
<1>1. ASSUME IInv PROVE NoDeadBranch
  <2> SUFFICES ASSUME NEW t \in Trees, NEW p \in DOMAIN settingsTree_[t] \ {<<>>},
                      settingsTree_[t][p] = Empty, ~ (t = "settings" /\ edited)
               PROVE  Below(settingsTree_[t], p) # {}
    BY <1>1 DEF IInv, TypeOK, NoDeadBranch, Trees
  <2>1. GoodTree(settingsTree_[t])
    BY <1>1 DEF IInv, Trees
  <2>2. PICK q \in DOMAIN settingsTree_[t] : IsPrefix(p, q) /\ settingsTree_[t][q] # Empty
    BY <2>1 DEF GoodTree
  <2> QED
    BY <2>2 DEF Below, IsStrictPrefix
<1> QED
  BY <1>1, SettingsInvariant, PTL

\* get() answers with the value that was last given to set(), or loaded; a
\* value that was the default when it was given is not kept and reads as the
\* default of now, or as nothing above other settings.
THEOREM SettingsLastSetIsRead == ASSUME NoOwnName PROVE Spec => []LastSetIsRead
<1>1. ASSUME IInv PROVE LastSetIsRead
  <2> DEFINE IsKept(m) == asked.settings[m] # Empty /\ m \notin asDefault
             tree == settingsTree_.settings
  <2> SUFFICES ASSUME NEW n \in Name
               PROVE  LET isHidden == \E m \in Name : IsStrictPrefix(n, m) /\ IsKept(m) IN
                      CASE IsKept(n) -> Get(n) = asked.settings[n]
                        [] ~ IsKept(n) /\ (isHidden \/ n = <<>>) -> Get(n) = Empty
                        [] ~ IsKept(n) /\ ~ isHidden /\ n # <<>> ->
                             Get(n) = asked.defaultSettings[n] \/ (edited /\ Get(n) = Empty)
    BY DEF LastSetIsRead
  <2> DEFINE isHidden == \E m \in Name : IsStrictPrefix(n, m) /\ IsKept(m)
  <2>1. /\ IsTree(tree) /\ (~ edited => GoodTree(tree))
        /\ \A m \in Name : ValueAt(tree, m) = IF IsKept(m) THEN asked.settings[m] ELSE Empty
        /\ asked.defaultSettings[n] = ValueAt(settingsTree_.defaultSettings, n)
    BY <1>1 DEF IInv, TypeOK, Settings, KeptSettings
  <2>2. /\ <<>> \in DOMAIN tree /\ n \in Names /\ Name \subseteq Names
        /\ \A p \in DOMAIN tree : \A q \in Names : IsPrefix(q, p) => q \in DOMAIN tree
    BY <2>1, TreeFacts, PathFacts
  <2>3. \A m \in Name : IsKept(m) => asked.settings[m] # Empty
    OBVIOUS
  <2>4. Get(n) = IF n \in DOMAIN tree THEN tree[n] ELSE asked.defaultSettings[n]
    BY <2>1 DEF Get
  <2> HIDE DEF tree, IsKept
  <2>5. CASE IsKept(n)
    <3>1. n \in DOMAIN tree /\ tree[n] = asked.settings[n]
      BY <2>1, <2>3, <2>5 DEF ValueAt
    <3> QED BY <2>4, <2>5, <3>1
  <2>6. CASE ~ IsKept(n) /\ (isHidden \/ n = <<>>)
    <3>1. n \in DOMAIN tree
      <4>1. CASE n = <<>>
        BY <2>2, <4>1
      <4>2. CASE isHidden
        <5>1. PICK m \in Name : IsStrictPrefix(n, m) /\ IsKept(m)
          BY <4>2
        <5>2. m \in DOMAIN tree
          BY <2>1, <2>3, <5>1 DEF ValueAt
        <5> QED BY <2>2, <5>1, <5>2 DEF IsStrictPrefix
      <4> QED BY <2>6, <4>1, <4>2
    <3>2. Get(n) = Empty
      BY <2>1, <2>4, <2>6, <3>1 DEF ValueAt
    <3> QED BY <2>6, <3>2
  <2>7. CASE ~ IsKept(n) /\ ~ isHidden /\ n # <<>>
    <3>1. Get(n) = asked.defaultSettings[n] \/ (edited /\ Get(n) = Empty)
      <4>1. CASE n \notin DOMAIN tree
        BY <2>4, <4>1
      <4>2. CASE n \in DOMAIN tree
        <5>1. tree[n] = Empty /\ Get(n) = Empty
          BY <2>1, <2>4, <2>7, <4>2 DEF ValueAt
        <5>2. ASSUME ~ edited PROVE FALSE
          <6>1. PICK q \in DOMAIN tree : IsPrefix(n, q) /\ tree[q] # Empty
            BY <2>1, <2>7, <4>2, <5>2 DEF GoodTree
          <6>2. q \in Name
            BY <2>1, <5>2, <6>1 DEF GoodTree
          <6>3. IsKept(q)
            BY <2>1, <6>1, <6>2 DEF ValueAt
          <6> QED
            BY <2>7, <5>1, <6>1, <6>2, <6>3 DEF IsStrictPrefix
        <5> QED BY <1>1, <5>1, <5>2 DEF IInv, TypeOK
      <4> QED BY <4>1, <4>2
    <3> QED BY <2>7, <3>1
  <2> QED
    BY <2>5, <2>6, <2>7
<1> QED
  BY <1>1, SettingsInvariant, PTL

\* What a process had set when it ended is what the next one loads, if the
\* save on exit was asked for and did not fail and no user wrote the file.
THEOREM SettingsKeptIsRestored == ASSUME NoOwnName PROVE Spec => []KeptIsRestored
<1>1. IInv => KeptIsRestored
  BY DEF IInv
<1> QED
  BY <1>1, SettingsInvariant, PTL

\* A settings file that a process could not read is not replaced when it
\* exits: load() sets saveOnExitFilename_ last, after all that may throw.
THEOREM SettingsExitSparesUnread == ASSUME NoOwnName PROVE Spec => ExitSparesUnread
<1>1. ASSUME IInv, [Next]_vars, running, ~ running', loaded # "yes"
      PROVE  file' = file
  <2>1. ~ saveOnExit
    BY <1>1 DEF IInv
  <2>2. CASE Exit
    BY <2>1, <2>2 DEF Exit
  <2>3. CASE Kill
    BY <2>3 DEF Kill
  <2> QED
    BY <1>1, <2>2, <2>3 DEF Next, vars, SetSetting, SetDefault, LoadNothing, LoadFile,
       LoadFails, LoadThrows, WriteByHand, Save, Start
<1>2. IInv /\ [Next]_vars => [running /\ ~ running' /\ loaded # "yes" => file' = file]_vars
  BY <1>1
<1> QED
  BY <1>2, SettingsInvariant, PTL DEF Spec, ExitSparesUnread
=============================================================================
