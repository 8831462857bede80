-------------------------------- MODULE WeakRefs -------------------------------
(***************************************************************************)
(* What the runtime promises about strong and weak references, with no     *)
(* side table, no locks and no stages: an object lives as long as somebody *)
(* owns a reference to it, and in the very step in which the last one goes *)
(* every weak slot that names it becomes None.  Only a caller that stores  *)
(* to a slot, or gives it up, changes it in any other way.                 *)
(***************************************************************************)
EXTENDS FiniteSets

CONSTANTS Obj, Slot, Ref, Nil

VARIABLES
    owns,       \* the object each reference keeps alive, Nil if it is not in use
    life,       \* of each object: "unborn", "live", "dying" or "dead"
    weak,       \* the object each weak slot names
    known,      \* the slots in use
    storing     \* the slots a caller is storing to

vars == <<owns, life, weak, known, storing>>

Init ==
    /\ owns = [r \in Ref |-> Nil]
    /\ life = [o \in Obj |-> "unborn"]
    /\ weak = [s \in Slot |-> Nil]
    /\ known = {}
    /\ storing = {}

Create(o, r) ==
    /\ life[o] = "unborn" /\ owns[r] = Nil
    /\ life' = [life EXCEPT ![o] = "live"]
    /\ owns' = [owns EXCEPT ![r] = o]
    /\ UNCHANGED <<weak, known, storing>>

\* A new reference, from an existing one or from a weak slot.
Acquire(o, r) ==
    /\ life[o] = "live" /\ owns[r] = Nil
    /\ owns' = [owns EXCEPT ![r] = o]
    /\ UNCHANGED <<life, weak, known, storing>>

\* A reference goes that is not the last one.
Drop(r) ==
    /\ owns[r] # Nil
    /\ \E q \in Ref \ {r} : owns[q] = owns[r]
    /\ owns' = [owns EXCEPT ![r] = Nil]
    /\ UNCHANGED <<life, weak, known, storing>>

\* The last one goes.
DropLast(r) ==
    /\ owns[r] # Nil
    /\ \A q \in Ref \ {r} : owns[q] # owns[r]
    /\ owns' = [owns EXCEPT ![r] = Nil]
    /\ life' = [life EXCEPT ![owns[r]] = "dying"]
    /\ weak' = [s \in Slot |-> IF weak[s] = owns[r] THEN Nil ELSE weak[s]]
    /\ UNCHANGED <<known, storing>>

Finish(o) ==
    /\ life[o] = "dying"
    /\ life' = [life EXCEPT ![o] = "dead"]
    /\ UNCHANGED <<owns, weak, known, storing>>

BeginStore(s) ==
    /\ s \notin storing
    /\ known' = known \cup {s}
    /\ storing' = storing \cup {s}
    /\ UNCHANGED <<owns, life, weak>>

\* The store lands; only an object somebody owns can be stored.
EndStore(s, o) ==
    /\ s \in storing
    /\ o # Nil => \E r \in Ref : owns[r] = o
    /\ weak' = [weak EXCEPT ![s] = o]
    /\ storing' = storing \ {s}
    /\ UNCHANGED <<owns, life, known>>

\* A slot is given up, or a new one is put in use holding None.
Known(s) ==
    /\ s \notin storing
    /\ known' = IF s \in known THEN known \ {s} ELSE known \cup {s}
    /\ weak' = [weak EXCEPT ![s] = Nil]
    /\ UNCHANGED <<owns, life, storing>>

Next ==
    \/ \E o \in Obj, r \in Ref : Create(o, r) \/ Acquire(o, r)
    \/ \E r \in Ref : Drop(r) \/ DropLast(r)
    \/ \E o \in Obj : Finish(o)
    \/ \E s \in Slot : BeginStore(s) \/ Known(s)
    \/ \E s \in Slot, o \in Obj \cup {Nil} : EndStore(s, o)

Spec == Init /\ [][Next]_vars

\* Every object that dies is dead in the end.
FairSpec == Spec /\ \A o \in Obj : WF_vars(Finish(o))
================================================================================
