--------------------------------- MODULE Maps ---------------------------------
(***************************************************************************)
(* std::map as the code uses it: a function from the keys that are there;  *)
(* std::set, gone through in order; and a loop over what is in a sequence. *)
(***************************************************************************)
EXTENDS Integers, Sequences, FiniteSets, Functions

\* map[key] = value: what operator[] inserts is overwritten at once.
With(map, key, value) ==
  [k \in DOMAIN map \cup {key} |-> IF k = key THEN value ELSE map[k]]

\* map.erase(key)
Without(map, key) == Restrict(map, DOMAIN map \ {key})

\* The members of a set of integers, the least one first.
Ascending(S) ==
  [i \in 1..Cardinality(S) |-> CHOOSE t \in S : Cardinality({s \in S : s < t}) = i - 1]

\* for (i = 1; i <= n; ++i)
Counter(n) == [i \in 1..n |-> i]

\* for (x : xs) s = f(s, x)
Folded(s, xs, f(_, _)) ==
  LET after[i \in 0..Len(xs)] == IF i = 0 THEN s ELSE f(after[i - 1], xs[i])
  IN  after[Len(xs)]
=============================================================================
