------------------------------ MODULE MCSideTable ------------------------------
(* Instances of SideTable for TLC.                                            *)
EXTENDS SideTable, TLC

CONSTANTS t1, t2, o1, o2, s1, s2, a1, a2, k1, k2, r1, r2

\* Every instance has an address of its own, and each slot a stripe of its own.
OwnAddress == (o1 :> a1) @@ (o2 :> a2)
OwnStripe == (s1 :> k1) @@ (s2 :> k2)
OneSlot == s1 :> k1
================================================================================
