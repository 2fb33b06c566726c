---------------------------- MODULE MCNameLocks -----------------------------
(* NameLocks on small instances: two replicas, two names. *)
EXTENDS NameLocks, TLC

CONSTANTS s1, s2, s3, r1, r2

TwoAndOne == s1 :> r1 @@ s2 :> r1 @@ s3 :> r2
OneReplica == s1 :> r1 @@ s2 :> r1

\* The two sessions of r1 are interchangeable.
Neighbours12 == Permutations({s1, s2})
=============================================================================
