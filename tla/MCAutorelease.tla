------------------------------ MODULE MCAutorelease -----------------------------
(* Instances of Autorelease for TLC.                                           *)
EXTENDS Autorelease, TLC

CONSTANTS o1, o2

================================================================================
