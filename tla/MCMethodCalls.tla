--------------------------- MODULE MCMethodCalls ----------------------------
(* MethodCalls on a small instance: two replicas, the clock of one is ahead. *)
EXTENDS MethodCalls, TLC

CONSTANTS c1, c2, c3, r1, r2

TwoAndOne == c1 :> r1 @@ c2 :> r1 @@ c3 :> r2
SecondAhead == r1 :> 0 @@ r2 :> 1

\* The two calls of r1 are interchangeable.
Alike12 == Permutations({c1, c2})
=============================================================================
