------------------------------ MODULE Outcomes ------------------------------
(***************************************************************************)
(* C++ code that may throw, as an operator from a state to the set of the  *)
(* states it may leave: "threw" is set in those it left by an exception.   *)
(***************************************************************************)
EXTENDS Integers, Sequences, SequencesExt

\* f; g
Then(outcomes, g(_)) == UNION {IF s.threw THEN {s} ELSE g(s) : s \in outcomes}

\* for (x : xs) f(x), where the loop runs over a copy.
ForEach(s, xs, f(_, _)) ==
  LET after[i \in 0..Len(xs)] ==
        IF i = 0 THEN {s} ELSE Then(after[i - 1], LAMBDA t : f(t, xs[i]))
  IN  after[Len(xs)]

\* while (! done) f(), at most n times
Repeat(s, n, done(_), f(_)) ==
  ForEach(s, [i \in 1..n |-> i], LAMBDA t, i : IF done(t) THEN {t} ELSE f(t))

Throws(s) == [s EXCEPT !.threw = TRUE]

\* push_back() moves a vector to a buffer of twice the size when it is full.
Grown(capacity, length) ==
  IF length <= capacity THEN capacity ELSE IF capacity = 0 THEN 1 ELSE 2 * capacity
=============================================================================
