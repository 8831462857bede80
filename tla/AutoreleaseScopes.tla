---------------------------- MODULE AutoreleaseScopes --------------------------
(***************************************************************************)
(* What autorelease pools promise: one list of objects in the order they   *)
(* were autoreleased, marks in it where a pool was pushed, and a drain that *)
(* releases objects from the end of the list, one at a time, back to the   *)
(* mark that was popped.  Nothing is added while a drain goes on.          *)
(***************************************************************************)
EXTENDS Integers, Sequences, SequencesExt

CONSTANT Obj

VARIABLES
    trail,      \* the objects autoreleased and not yet released
    marks,      \* the positions in it where the open scopes begin
    drain       \* the position a drain goes back to, -1 if there is none

vars == <<trail, marks, drain>>

Init == trail = <<>> /\ marks = <<>> /\ drain = -1

Open ==
    /\ drain = -1
    /\ marks' = Append(marks, Len(trail))
    /\ UNCHANGED <<trail, drain>>

\* With no scope open the object is leaked, and the list does not change.
Add(o) ==
    /\ drain = -1 /\ marks # <<>>
    /\ trail' = Append(trail, o)
    /\ UNCHANGED <<marks, drain>>

\* Closing a scope closes the scopes inside it.
Close(i) ==
    /\ drain = -1
    /\ drain' = marks[i]
    /\ marks' = SubSeq(marks, 1, i - 1)
    /\ UNCHANGED trail

Drop ==
    /\ drain # -1 /\ Len(trail) > drain
    /\ trail' = Front(trail)
    /\ UNCHANGED <<marks, drain>>

Drained ==
    /\ drain # -1 /\ Len(trail) = drain
    /\ drain' = -1
    /\ UNCHANGED <<trail, marks>>

Next ==
    \/ Open \/ Drop \/ Drained
    \/ \E o \in Obj : Add(o)
    \/ \E i \in DOMAIN marks : Close(i)

Spec == Init /\ [][Next]_vars
================================================================================
