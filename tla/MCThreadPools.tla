----------------------------- MODULE MCThreadPools -----------------------------
(* Instances of ThreadPools for TLC.                                          *)
EXTENDS ThreadPools, TLC

CONSTANTS t1, t2, o1, o2, o3, s1, s2, a1, a2, k1, r1, r2, r3

\* The third instance is allocated where the first was.
TwoAddresses == (o1 :> a1) @@ (o2 :> a2) @@ (o3 :> a1)
OneStripe == [s \in Slot |-> k1]

\* Those two are alike.
Symmetry == Permutations(Ref) \cup Permutations(Thread) \cup Permutations({o1, o3})
================================================================================
