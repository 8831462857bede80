------------------------------ MODULE ThreadPools ------------------------------
(***************************************************************************)
(* The threads of SideTable with autorelease pools: the C entry points     *)
(* (src/lib.rs) put src/retain_release.rs and src/autorelease.rs together. *)
(* A pooled reference is one its thread still holds but may not release:   *)
(* the pop that drains it will.  Another thread may meanwhile release its  *)
(* own references to the object, zero the weak slots it was loaded from,   *)
(* and run pools of its own over the same objects.                         *)
(*                                                                         *)
(* A thread's POOL_STACK is the list of what it holds with a mark for each *)
(* pool, which AutoreleaseScopes specifies and Autorelease implements.     *)
(***************************************************************************)
EXTENDS SideTable, Sequences

CONSTANT MaxPools   \* bound: pools a thread has pushed and not popped

ASSUME PoolBound == MaxPools \in Nat

VARIABLES
    trail,      \* the references in each thread's pools, oldest first
    marks,      \* where in it each open pool begins
    drain,      \* how far back each thread's pop goes, -1 if there is none
    base,       \* the deallocation a pop was called from
    loaded,     \* the reference objc_loadWeak has still to put into a pool
    leaked,     \* the references autoreleased in no pool, or left by a thread
    ended,      \* the threads that have ended
    aborted     \* a panic has ended the process

poolVars == <<trail, marks, drain, base, loaded, leaked, ended, aborted>>
allVars == <<vars, poolVars>>

PoolsInit ==
    /\ Init
    /\ trail = [t \in Thread |-> <<>>]
    /\ marks = [t \in Thread |-> <<>>]
    /\ drain = [t \in Thread |-> -1]
    /\ base = [t \in Thread |-> Nil]
    /\ loaded = [t \in Thread |-> Nil]
    /\ leaked = {}
    /\ ended = {}
    /\ aborted = FALSE

PooledBy(t) == {trail[t][i] : i \in DOMAIN trail[t]}
Pooled == UNION {PooledBy(t) : t \in Thread}

--------------------------------------------------------------------------------
\* A thread runs its own code or a -dealloc's, and not a pop or an objc_loadWeak.
CodeRuns(t) ==
    /\ ~aborted /\ t \notin ended
    /\ loaded[t] = Nil
    /\ drain[t] # -1 => running[t] # base[t]

\* The pop keeps POOL_STACK mutably borrowed, through every -dealloc it starts.
Borrowed(t) == drain[t] # -1

\* A reference the code of thread t may dispose of.
Own(t, r) == holder[r] = t /\ strong[r] # Nil /\ r \notin Pooled \cup leaked

\* The entry points that know nothing of pools.
Code(t) ==
    /\ CodeRuns(t)
    /\ \/ \E o \in Obj, r \in Ref : Alloc(t, o, r) \/ Retain(t, o, r)
       \/ \E r \in Ref, w \in Thread \cup Obj : Own(t, r) /\ w \notin ended /\ Handoff(t, r, w)
       \/ \E r \in Ref : (Own(t, r) \/ holder[r] = running[t]) /\ Release(t, r)
       \/ \E s \in Slot : DestroyWeak(t, s)
       \/ \E s \in Slot, o \in Obj \cup {Nil} : InitWeak(t, s, o) \/ StoreWeakBegin(t, s, o)
       \/ \E s \in Slot, r \in Ref : LoadWeakBegin(t, s, r)
       \/ FinishBody(t)
    /\ UNCHANGED poolVars

\* What the runtime does of itself inside a call.
Runtime(t) ==
    /\ ~aborted
    /\ \/ \E s \in Slot : ZeroSlot(t, s)
       \/ StartBody(t) \/ RemoveEntry(t) \/ StoreWeakEnd(t)
       \/ loaded[t] = Nil /\ LoadWeakEnd(t)
    /\ UNCHANGED poolVars

--------------------------------------------------------------------------------
(* The pools.                                                                 *)

\* Mutant: the reference is put in the pool twice.
DepositTwice(t, r) ==
    IF marks[t] = <<>>
    THEN leaked' = leaked \cup {r} /\ UNCHANGED trail
    ELSE trail' = [trail EXCEPT ![t] = @ \o <<r, r>>] /\ UNCHANGED leaked

\* The reference goes to the innermost pool, or is leaked if there is none.
Deposit(t, r) ==
    IF marks[t] = <<>>
    THEN leaked' = leaked \cup {r} /\ UNCHANGED trail
    ELSE trail' = [trail EXCEPT ![t] = Append(@, r)] /\ UNCHANGED leaked

AutoreleaseRef(t, r) ==
    /\ CodeRuns(t) /\ Ready(t) /\ ~Borrowed(t)
    /\ Own(t, r)
    /\ Deposit(t, r)
    /\ UNCHANGED <<vars, marks, drain, base, loaded, ended, aborted>>

Push(t) ==
    /\ CodeRuns(t) /\ Ready(t) /\ ~Borrowed(t)
    /\ Len(marks[t]) < MaxPools
    /\ marks' = [marks EXCEPT ![t] = Append(@, Len(trail[t]))]
    /\ UNCHANGED <<vars, trail, drain, base, loaded, leaked, ended, aborted>>

PopStart(t, i) ==
    /\ CodeRuns(t) /\ Ready(t) /\ ~Borrowed(t)
    /\ drain' = [drain EXCEPT ![t] = marks[t][i]]
    /\ base' = [base EXCEPT ![t] = running[t]]
    /\ marks' = [marks EXCEPT ![t] = SubSeq(@, 1, i - 1)]
    /\ UNCHANGED <<vars, trail, loaded, leaked, ended, aborted>>

Popping(t) == ~aborted /\ Borrowed(t) /\ running[t] = base[t]

\* Mutant: the object is released and stays in the pool.
PopReleaseKept(t) ==
    /\ Popping(t)
    /\ Len(trail[t]) > drain[t]
    /\ Release(t, trail[t][Len(trail[t])])
    /\ UNCHANGED <<trail, marks, drain, base, loaded, leaked, ended, aborted>>

\* One objc_release of the pop's loop, which may start a -dealloc.
PopRelease(t) ==
    /\ Popping(t)
    /\ Len(trail[t]) > drain[t]
    /\ Release(t, trail[t][Len(trail[t])])
    /\ trail' = [trail EXCEPT ![t] = SubSeq(@, 1, Len(@) - 1)]
    /\ UNCHANGED <<marks, drain, base, loaded, leaked, ended, aborted>>

PopReturn(t) ==
    /\ Popping(t)
    /\ Len(trail[t]) <= drain[t]
    /\ drain' = [drain EXCEPT ![t] = -1]
    /\ base' = [base EXCEPT ![t] = Nil]
    /\ UNCHANGED <<vars, trail, marks, loaded, leaked, ended, aborted>>

\* objc_loadWeak is objc_loadWeakRetained,
LoadWeak(t, s, r) ==
    /\ CodeRuns(t)
    /\ LoadWeakBegin(t, s, r)
    /\ loaded' = [loaded EXCEPT ![t] = r]
    /\ UNCHANGED <<trail, marks, drain, base, leaked, ended, aborted>>

LoadWeakRetained(t) ==
    /\ ~aborted /\ loaded[t] # Nil
    /\ LoadWeakEnd(t)
    /\ loaded' = [loaded EXCEPT ![t] = IF strong'[@] = Nil THEN Nil ELSE @]
    /\ UNCHANGED <<trail, marks, drain, base, leaked, ended, aborted>>

\* Mutant: the reference is pooled and still to be pooled.
LoadWeakPoolAgain(t) ==
    /\ ~aborted /\ loaded[t] # Nil /\ call[t].op = "idle"
    /\ IF Borrowed(t)
       THEN aborted' = TRUE /\ UNCHANGED <<trail, leaked>>
       ELSE Deposit(t, loaded[t]) /\ UNCHANGED aborted
    /\ UNCHANGED <<vars, marks, drain, base, loaded, ended>>

\* and then objc_autorelease of what that returned, which panics like any other.
LoadWeakPool(t) ==
    /\ ~aborted /\ loaded[t] # Nil /\ call[t].op = "idle"
    /\ IF Borrowed(t)
       THEN aborted' = TRUE /\ UNCHANGED <<trail, leaked, loaded>>
       ELSE /\ Deposit(t, loaded[t])
            /\ loaded' = [loaded EXCEPT ![t] = Nil]
            /\ UNCHANGED aborted
    /\ UNCHANGED <<vars, marks, drain, base, ended>>

\* A -dealloc that a pop has started pushes, pops or autoreleases.
PoolsWhileBorrowed(t) ==
    /\ CodeRuns(t) /\ Ready(t) /\ Borrowed(t)
    /\ aborted' = TRUE
    /\ UNCHANGED <<vars, trail, marks, drain, base, loaded, leaked, ended>>

\* A thread that owns nothing ends.  POOL_STACK is dropped, and nothing released.
EndThread(t) ==
    /\ CodeRuns(t) /\ Ready(t) /\ running[t] = Nil /\ ~Borrowed(t)
    /\ \A r \in Ref : ~Own(t, r)
    /\ ended' = ended \cup {t}
    /\ leaked' = leaked \cup PooledBy(t)
    /\ trail' = [trail EXCEPT ![t] = <<>>]
    /\ marks' = [marks EXCEPT ![t] = <<>>]
    /\ UNCHANGED <<vars, drain, base, loaded, aborted>>

PoolStep(t) ==
    \/ \E r \in Ref : AutoreleaseRef(t, r)
    \/ \E i \in DOMAIN marks[t] : PopStart(t, i)
    \/ \E s \in Slot, r \in Ref : LoadWeak(t, s, r)
    \/ Push(t) \/ PopRelease(t) \/ PopReturn(t) \/ LoadWeakRetained(t) \/ LoadWeakPool(t)
    \/ PoolsWhileBorrowed(t) \/ EndThread(t)

PoolsNext == \E t \in Thread : Code(t) \/ Runtime(t) \/ PoolStep(t)

PoolsSpec == PoolsInit /\ [][PoolsNext]_allVars

--------------------------------------------------------------------------------
(* Properties.                                                                *)

PoolsTypeOK ==
    /\ trail \in [Thread -> Seq(Ref)]
    /\ marks \in [Thread -> Seq(Nat)]
    /\ drain \in [Thread -> Nat \cup {-1}]
    /\ base \in [Thread -> Obj \cup {Nil}]
    /\ loaded \in [Thread -> Ref \cup {Nil}]
    /\ leaked \subseteq Ref
    /\ ended \subseteq Thread
    /\ aborted \in BOOLEAN

\* What objc_autorelease or objc_loadWeak has put into a pool is live until that
\* pool lets go of it, whatever other threads release in the meantime; so is
\* what objc_loadWeak is about to return (the SAFETY comments of
\* objc_autorelease_pool_pop and objc_load_weak).
PooledIsLive ==
    \A t \in Thread :
        /\ \A r \in PooledBy(t) : holder[r] = t /\ strong[r] # Nil /\ stage[strong[r]] = "live"
        /\ loaded[t] # Nil /\ call[t].op = "idle" =>
              strong[loaded[t]] # Nil /\ stage[strong[loaded[t]]] = "live"

\* A reference is in one place of one pool, or leaked, or waiting to be pooled:
\* no pop releases it twice, and no thread's pop what another is to release.
PooledOnce ==
    /\ \A t, u \in Thread : \A i \in DOMAIN trail[t], j \in DOMAIN trail[u] :
          trail[t][i] = trail[u][j] => t = u /\ i = j
    /\ Pooled \cap leaked = {}
    /\ \A t \in Thread : loaded[t] \notin Pooled \cup leaked

--------------------------------------------------------------------------------
(* What ThreadPoolsProofs needs beside them, to know that what a pool or an   *)
(* objc_loadWeak holds is nobody else's to dispose of.                        *)

PooledHeld == \A t \in Thread : \A r \in PooledBy(t) : holder[r] = t /\ strong[r] # Nil

LeakedHeld == \A r \in leaked : holder[r] \in Thread /\ strong[r] # Nil

LoadedHeld ==
    \A t \in Thread : loaded[t] # Nil =>
        /\ holder[loaded[t]] = t
        /\ \/ call[t].op = "idle" /\ strong[loaded[t]] # Nil
           \/ call[t].op = "load" /\ call[t].ref = loaded[t]

\* The marks m of a list tr are in order, and none is past its end, or past
\* where a drain down to d will leave it.
InOrder(tr, m, d) ==
    /\ d <= Len(tr)
    /\ \A i \in DOMAIN m : /\ m[i] <= IF d = -1 THEN Len(tr) ELSE d
                           /\ \A j \in DOMAIN m : i <= j => m[i] <= m[j]

MarksFit == \A t \in Thread : InOrder(trail[t], marks[t], drain[t])

\* Inductive together with IInv: one reference, one place, still held, and
\* pools inside one another.
PoolsInv ==
    /\ PoolsTypeOK
    /\ PooledOnce
    /\ PooledHeld
    /\ LeakedHeld
    /\ LoadedHeld
    /\ MarksFit
================================================================================
