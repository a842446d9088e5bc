------------------------------ MODULE LoopProofs ------------------------------
(***************************************************************************)
(* What ForEach of module Outcomes and Folded of module Maps come to, for  *)
(* any body of the loop: an instance of this module per loop takes the     *)
(* place of an induction over its runs.                                    *)
(***************************************************************************)
EXTENDS Maps, WellFoundedInduction, TLAPS

CONSTANT Body(_, _)   \* f(x): the states that it may leave

\* One pass: what threw is left alone.
Pass(t, x) == IF t.threw THEN {t} ELSE Body(t, x)

\* The equation that ForEach solves.
After(s, xs, after) ==
  [i \in 0..Len(xs) |-> IF i = 0 THEN {s} ELSE
     UNION {IF t.threw THEN {t} ELSE Body(t, xs[i]) : t \in after[i - 1]}]

\* A set that holds 0, and what follows each number in it, holds all up to n.
LEMMA UpTo ==
  ASSUME NEW n \in Nat, NEW K, 0 \in K, \A k \in 0..(n - 1) : k \in K => k + 1 \in K
  PROVE  0..n \subseteq K
<1> DEFINE T == {k \in 0..n : k \notin K}
<1>1. SUFFICES ASSUME T # {} PROVE FALSE
  OBVIOUS
<1>2. T \subseteq Nat
  OBVIOUS
<1>3. PICK k \in T : \A j \in T : <<j, k>> \notin OpToRel(<, Nat)
  BY <1>1, <1>2, NatLessThanWellFounded, WFMin
<1>4. \A j \in T : ~ (j < k)
  BY <1>2, <1>3, Zenon DEF OpToRel
<1>5. k - 1 \notin T
  BY <1>2, <1>4
<1> QED
  BY <1>5

\* There is a solution.
THEOREM LoopDefined ==
  ASSUME NEW s, NEW xs, Len(xs) \in Nat
  PROVE  \E after : after = After(s, xs, after)
<1> DEFINE n == Len(xs)
           Next(i, before) == UNION {IF t.threw THEN {t} ELSE Body(t, xs[i]) : t \in before}
           Upto(k, a) == a = [i \in 0..k |-> IF i = 0 THEN {s} ELSE Next(i, a[i - 1])]
           K == {k \in 0..n : \E a : Upto(k, a)}
<1>1. 0 \in K
  <2> HIDE DEF Next
  <2> DEFINE a == [i \in 0..0 |-> {s}]
  <2>1. a = [i \in 0..0 |-> IF i = 0 THEN {s} ELSE Next(i, a[i - 1])]
    OBVIOUS
  <2>2. Upto(0, a) /\ 0 \in 0..n
    BY <2>1
  <2> QED
    BY <2>2
<1>2. ASSUME NEW k \in 0..(n - 1), k \in K PROVE k + 1 \in K
  <2> HIDE DEF Next
  <2>1. PICK a : Upto(k, a)
    BY <1>2
  <2> DEFINE b == [i \in 0..(k + 1) |-> IF i = k + 1 THEN Next(i, a[k]) ELSE a[i]]
             c == [i \in 0..(k + 1) |-> IF i = 0 THEN {s} ELSE Next(i, b[i - 1])]
  <2>2. ASSUME NEW i \in 0..(k + 1) PROVE b[i] = c[i]
    <3>1. CASE i = k + 1
      <4>1. b[i - 1] = a[k] /\ i # 0
        BY <3>1
      <4> QED
        BY <3>1, <4>1
    <3>2. CASE i # k + 1 /\ i # 0
      <4>1. b[i - 1] = a[i - 1] /\ i \in 0..k
        BY <3>2
      <4>2. a[i] = Next(i, a[i - 1])
        BY <2>1, <3>2, <4>1
      <4> QED
        BY <3>2, <4>1, <4>2
    <3>3. CASE i = 0
      <4>1. a[0] = {s}
        BY <2>1
      <4> QED
        BY <3>3, <4>1
    <3> QED
      BY <3>1, <3>2, <3>3
  <2> HIDE DEF Next
  <2>3. b = c
    BY <2>2
  <2>4. Upto(k + 1, b)
    BY <2>3
  <2>5. k + 1 \in 0..n
    OBVIOUS
  <2> QED
    BY <2>4, <2>5
<1>3. n \in K
  <2>1. n \in Nat /\ n \in 0..n
    OBVIOUS
  <2> HIDE DEF K, n
  <2>2. 0..n \subseteq K
    BY <1>1, <1>2, <2>1, UpTo
  <2> QED
    BY <2>1, <2>2
<1>4. PICK a : Upto(n, a)
  BY <1>3
<1> QED
  BY <1>4 DEF After

\* What the body keeps, pass by pass, the loop keeps.
THEOREM LoopKeeps ==
  ASSUME NEW s, NEW xs, Len(xs) \in Nat, NEW Good, s \in Good[0],
         \A i \in 1..Len(xs) : \A t \in Good[i - 1] : Pass(t, xs[i]) \subseteq Good[i],
         NEW after, after = After(s, xs, after)
  PROVE  after[Len(xs)] \subseteq Good[Len(xs)]
<1> DEFINE n == Len(xs)
           K == {k \in 0..n : after[k] \subseteq Good[k]}
<1>1. 0 \in K
  <2>1. after[0] = {s}
    BY DEF After
  <2> QED
    BY <2>1
<1>2. ASSUME NEW k \in 0..(n - 1), k \in K PROVE k + 1 \in K
  <2>1. k + 1 \in 1..n /\ k + 1 # 0 /\ (k + 1) - 1 = k /\ k + 1 \in 0..n
    OBVIOUS
  <2>2. after[k + 1] = UNION {IF t.threw THEN {t} ELSE Body(t, xs[k + 1]) : t \in after[k]}
    BY <2>1 DEF After
  <2>3. ASSUME NEW t \in after[k] PROVE (IF t.threw THEN {t} ELSE Body(t, xs[k + 1])) \subseteq Good[k + 1]
    <3>1. t \in Good[k]
      BY <1>2
    <3> QED
      BY <2>1, <3>1 DEF Pass
  <2>4. after[k + 1] \subseteq Good[k + 1]
    BY <2>2, <2>3
  <2> QED
    BY <2>1, <2>4
<1>3. n \in K
  <2>1. n \in Nat /\ n \in 0..n
    OBVIOUS
  <2> HIDE DEF K, n
  <2>2. 0..n \subseteq K
    BY <1>1, <1>2, <2>1, UpTo
  <2> QED
    BY <2>1, <2>2
<1> QED
  BY <1>3

-----------------------------------------------------------------------------
(* Folded: the body leaves one state.                                      *)

Fold(s, xs) == Folded(s, xs, Body)

\* Runs is what Folded goes through: the states before and behind each pass.
Runs(s, xs, after) ==
  /\ after = [i \in 0..Len(xs) |-> after[i]]
  /\ after[0] = s
  /\ \A i \in 1..Len(xs) : after[i] = Body(after[i - 1], xs[i])

LEMMA FoldEquation ==
  ASSUME NEW s, NEW xs, Len(xs) \in Nat, NEW after
  PROVE  Runs(s, xs, after)
           <=> after = [i \in 0..Len(xs) |-> IF i = 0 THEN s ELSE Body(after[i - 1], xs[i])]
<1>1. \A i \in 0..Len(xs) : i = 0 \/ i \in 1..Len(xs)
  OBVIOUS
<1>2. 0 \in 0..Len(xs) /\ \A i \in 1..Len(xs) : i \in 0..Len(xs) /\ i # 0
  OBVIOUS
<1>3. ASSUME Runs(s, xs, after)
      PROVE  after = [i \in 0..Len(xs) |-> IF i = 0 THEN s ELSE Body(after[i - 1], xs[i])]
  <2>1. \A i \in 0..Len(xs) : after[i] = IF i = 0 THEN s ELSE Body(after[i - 1], xs[i])
    BY <1>1, <1>3 DEF Runs
  <2> QED
    BY <1>3, <2>1 DEF Runs
<1>4. ASSUME after = [i \in 0..Len(xs) |-> IF i = 0 THEN s ELSE Body(after[i - 1], xs[i])]
      PROVE  Runs(s, xs, after)
  <2>1. after = [i \in 0..Len(xs) |-> after[i]]
    BY <1>4
  <2>2. after[0] = s
    BY <1>2, <1>4
  <2>3. ASSUME NEW i \in 1..Len(xs) PROVE after[i] = Body(after[i - 1], xs[i])
    BY <1>2, <1>4
  <2> QED
    BY <2>1, <2>2, <2>3 DEF Runs
<1> QED
  BY <1>3, <1>4

\* One of n passes more.
LEMMA FoldDefinedTo ==
  ASSUME NEW s, NEW xs, Len(xs) \in Nat
  PROVE  \E after : Runs(s, xs, after)
<1> DEFINE n == Len(xs)
           To(k, a) == /\ a = [i \in 0..k |-> a[i]] /\ a[0] = s
                       /\ \A i \in 1..k : a[i] = Body(a[i - 1], xs[i])
           K == {k \in 0..n : \E a : To(k, a)}
<1>1. 0 \in K
  <2> DEFINE a == [i \in 0..0 |-> s]
  <2>1. To(0, a) /\ 0 \in 0..n
    OBVIOUS
  <2> QED
    BY <2>1
<1>2. ASSUME NEW k \in 0..(n - 1), k \in K PROVE k + 1 \in K
  <2>1. PICK a : To(k, a)
    BY <1>2
  <2> DEFINE b == [i \in 0..(k + 1) |-> IF i = k + 1 THEN Body(a[k], xs[k + 1]) ELSE a[i]]
  <2>2. b = [i \in 0..(k + 1) |-> b[i]] /\ b[0] = s
    BY <2>1
  <2>3. ASSUME NEW i \in 1..(k + 1) PROVE b[i] = Body(b[i - 1], xs[i])
    <3>1. CASE i = k + 1
      <4>1. b[i - 1] = a[k]
        BY <3>1
      <4>2. b[i] = Body(a[k], xs[k + 1])
        BY <3>1
      <4> QED
        BY <3>1, <4>1, <4>2
    <3>2. CASE i # k + 1
      <4>1. b[i - 1] = a[i - 1] /\ b[i] = a[i] /\ i \in 1..k
        BY <3>2
      <4> QED
        BY <2>1, <4>1
    <3> QED
      BY <3>1, <3>2
  <2> HIDE DEF b
  <2>4. To(k + 1, b) /\ k + 1 \in 0..n
    BY <2>2, <2>3
  <2> QED
    BY <2>4
<1>3. n \in K
  <2>1. n \in Nat /\ n \in 0..n
    OBVIOUS
  <2> HIDE DEF K, n
  <2>2. 0..n \subseteq K
    BY <1>1, <1>2, <2>1, UpTo
  <2> QED
    BY <2>1, <2>2
<1> QED
  BY <1>3 DEF Runs

\* What is folded is the last of the states gone through.
THEOREM FoldDefined ==
  ASSUME NEW s, NEW xs, Len(xs) \in Nat
  PROVE  \E after : Runs(s, xs, after) /\ Fold(s, xs) = after[Len(xs)]
<1> DEFINE F(after) == [i \in 0..Len(xs) |-> IF i = 0 THEN s ELSE Body(after[i - 1], xs[i])]
           Solution == CHOOSE after : after = F(after)
<1>1. \E after : after = F(after)
  <2>1. PICK after : Runs(s, xs, after)
    BY FoldDefinedTo
  <2>2. after = F(after)
    BY <2>1, FoldEquation
  <2> QED
    BY <2>2
<1>2. Fold(s, xs) = Solution[Len(xs)]
  BY DEF Fold, Folded
<1> HIDE DEF F
<1>3. Solution = F(Solution)
  BY <1>1
<1> HIDE DEF Solution
<1>4. Runs(s, xs, Solution)
  BY <1>3, FoldEquation DEF F
<1> QED
  BY <1>2, <1>4

\* Two runs agree as far as what they go through does.
THEOREM FoldSame ==
  ASSUME NEW s, NEW xs, NEW ys, Len(xs) \in Nat, Len(ys) \in Nat, Len(ys) <= Len(xs),
         \A i \in 1..Len(ys) : ys[i] = xs[i],
         NEW a, Runs(s, xs, a), NEW b, Runs(s, ys, b)
  PROVE  \A i \in 0..Len(ys) : a[i] = b[i]
<1> DEFINE n == Len(ys)
           K == {k \in 0..n : a[k] = b[k]}
<1>1. 0 \in K
  BY DEF Runs
<1>2. ASSUME NEW k \in 0..(n - 1), k \in K PROVE k + 1 \in K
  <2>1. k + 1 \in 1..Len(xs) /\ k + 1 \in 1..Len(ys) /\ (k + 1) - 1 = k /\ k + 1 \in 0..n
    OBVIOUS
  <2>2. a[k + 1] = Body(a[k], xs[k + 1]) /\ b[k + 1] = Body(b[k], ys[k + 1])
    BY <2>1 DEF Runs
  <2> QED
    BY <1>2, <2>1, <2>2
<1>3. n \in Nat
  OBVIOUS
<1> HIDE DEF K, n
<1>4. 0..n \subseteq K
  BY <1>1, <1>2, <1>3, UpTo
<1> QED
  BY <1>4 DEF K, n

THEOREM FoldNone ==
  ASSUME NEW s, NEW xs, Len(xs) = 0
  PROVE  Fold(s, xs) = s
<1>1. Len(xs) \in Nat
  OBVIOUS
<1>2. PICK after : Runs(s, xs, after) /\ Fold(s, xs) = after[Len(xs)]
  BY <1>1, FoldDefined
<1> QED
  BY <1>2 DEF Runs

\* The last pass follows all those before it.
THEOREM FoldMore ==
  ASSUME NEW s, NEW xs, NEW ys, Len(ys) \in Nat, Len(xs) = Len(ys) + 1,
         \A i \in 1..Len(ys) : ys[i] = xs[i]
  PROVE  Fold(s, xs) = Body(Fold(s, ys), xs[Len(xs)])
<1>1. Len(xs) \in Nat /\ Len(ys) <= Len(xs) /\ Len(xs) \in 1..Len(xs) /\ Len(xs) - 1 = Len(ys)
      /\ Len(ys) \in 0..Len(ys)
  OBVIOUS
<1>2. PICK a : Runs(s, xs, a) /\ Fold(s, xs) = a[Len(xs)]
  BY <1>1, FoldDefined
<1>3. PICK b : Runs(s, ys, b) /\ Fold(s, ys) = b[Len(ys)]
  BY FoldDefined
<1>4. a[Len(ys)] = b[Len(ys)]
  <2>1. Runs(s, xs, a) /\ Runs(s, ys, b)
    BY <1>2, <1>3
  <2>2. \A i \in 0..Len(ys) : a[i] = b[i]
    BY ONLY <1>1, <2>1, Len(ys) \in Nat, \A i \in 1..Len(ys) : ys[i] = xs[i], FoldSame
  <2> QED
    BY <1>1, <2>2
<1>5. a[Len(xs)] = Body(a[Len(xs) - 1], xs[Len(xs)])
  BY <1>1, <1>2 DEF Runs
<1> QED
  BY <1>1, <1>2, <1>3, <1>4, <1>5

\* What the body keeps, pass by pass, the loop keeps.
THEOREM FoldKeeps ==
  ASSUME NEW s, NEW xs, Len(xs) \in Nat, NEW Good, s \in Good[0],
         \A i \in 1..Len(xs) : \A t \in Good[i - 1] : Body(t, xs[i]) \in Good[i]
  PROVE  Fold(s, xs) \in Good[Len(xs)]
<1>1. PICK a : Runs(s, xs, a) /\ Fold(s, xs) = a[Len(xs)]
  BY FoldDefined
<1> DEFINE n == Len(xs)
           K == {k \in 0..n : a[k] \in Good[k]}
<1>2. 0 \in K
  BY <1>1 DEF Runs
<1>3. ASSUME NEW k \in 0..(n - 1), k \in K PROVE k + 1 \in K
  <2>1. k + 1 \in 1..n /\ (k + 1) - 1 = k /\ k + 1 \in 0..n
    OBVIOUS
  <2>2. a[k + 1] = Body(a[k], xs[k + 1])
    BY <1>1, <2>1 DEF Runs
  <2>3. Body(a[k], xs[k + 1]) \in Good[k + 1]
    BY <1>3, <2>1
  <2> QED
    BY <2>1, <2>2, <2>3
<1>4. n \in Nat /\ n \in 0..n
  OBVIOUS
<1> HIDE DEF K, n
<1>5. 0..n \subseteq K
  BY <1>2, <1>3, <1>4, UpTo
<1> QED
  BY <1>1, <1>4, <1>5 DEF K, n

\* Loops that count to n, and to one more.
THEOREM FoldCounter ==
  ASSUME NEW s
  PROVE  /\ Fold(s, Counter(0)) = s
         /\ \A n \in Nat : Fold(s, Counter(n + 1)) = Body(Fold(s, Counter(n)), n + 1)
<1>1. \A n \in Nat : Len(Counter(n)) = n /\ \A i \in 1..n : Counter(n)[i] = i
  BY DEF Counter
<1>2. Fold(s, Counter(0)) = s
  BY <1>1, FoldNone
<1>3. ASSUME NEW n \in Nat PROVE Fold(s, Counter(n + 1)) = Body(Fold(s, Counter(n)), n + 1)
  <2> DEFINE xs == Counter(n + 1)
             ys == Counter(n)
  <2>1. /\ Len(ys) \in Nat /\ Len(xs) = Len(ys) + 1 /\ xs[Len(xs)] = n + 1
        /\ \A i \in 1..Len(ys) : ys[i] = xs[i]
    BY <1>1
  <2> HIDE DEF xs, ys
  <2>2. Fold(s, xs) = Body(Fold(s, ys), n + 1)
    BY <2>1, FoldMore
  <2> QED
    BY <2>2 DEF xs, ys
<1> QED
  BY <1>2, <1>3
=============================================================================
