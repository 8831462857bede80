------------------------------- MODULE SideTable -------------------------------
(***************************************************************************)
(* Reference counting, deallocation and weak references of the runtime     *)
(* (src/retain_release.rs): the side table, the weak-slot stripe locks and *)
(* the threads that call objc_retain, objc_release, objc_initWeak,         *)
(* objc_storeWeak, objc_loadWeakRetained and objc_destroyWeak.             *)
(*                                                                         *)
(* A step is one critical section of the code: one access to the side      *)
(* table (made under its DashMap shard lock), or one stretch of code run   *)
(* under a weak-slot lock that makes at most one such access.  A call that *)
(* makes several is split, and `call' remembers which slot it has locked.  *)
(*                                                                         *)
(* The callers are modelled by the references they own: a thread uses an   *)
(* object only while it owns a strong reference to it, which is what the   *)
(* "must be None or point to a live object" of every Safety comment says.  *)
(***************************************************************************)
EXTENDS Integers, FiniteSets

CONSTANTS
    Thread,         \* the threads of the program
    Obj,            \* object instances; an instance is allocated once
    Addr, AddrOf,   \* addresses, and the one each instance is allocated at
    Slot,           \* the weak-pointer variables of the program
    Stripe, StripeOf,   \* the stripe locks, and the one a slot's address selects
    Ref,            \* names for outstanding strong references: their bound
    HasDealloc,     \* the instances whose class chain implements -dealloc
    Nil, Vacant,    \* None, and "no entry in the side table"
    DeallocFrees,   \* -dealloc frees the memory (else the caller does, after
                    \* the last objc_release has returned)
    DeallocUsesSelf,\* -dealloc may retain or weakly store the dying object
    RacyStores      \* a weak slot may be stored to, or its memory initialised
                    \* as a slot again, while a deallocation has still to zero it

Entry == [rc : Nat, deallocating : BOOLEAN, weak : SUBSET Slot]

ASSUME FiniteRefs == IsFiniteSet(Ref)
ASSUME AddressOfObjects == AddrOf \in [Obj -> Addr]
ASSUME StripeOfSlots == StripeOf \in [Slot -> Stripe]
ASSUME NilIsNothing == Nil \notin Thread \cup Obj \cup Slot \cup Ref
ASSUME ObjectsAreNotThreads == Obj \cap Thread = {}
ASSUME VacantIsNoEntry == Vacant \notin Entry
ASSUME Switches == /\ DeallocFrees \in BOOLEAN
                   /\ DeallocUsesSelf \in BOOLEAN
                   /\ RacyStores \in BOOLEAN

VARIABLES
    strong,     \* the object each reference refers to, Nil if it is not in use
    holder,     \* who owns it: a thread, or an object that stores it
    stage,      \* how far each instance is in its life
    table,      \* TABLE: the side-table entry at each address
    slot,       \* the contents of each weak slot
    inited,     \* the slots between objc_initWeak and objc_destroyWeak
    call,       \* what each thread does under a slot lock
    pending,    \* the slots a deallocation has extracted and not yet zeroed
    running,    \* the innermost deallocation each thread is executing
    below       \* the deallocation each deallocation was started from

vars == <<strong, holder, stage, table, slot, inited, call, pending, running, below>>

refVars  == <<strong, holder>>
weakVars == <<slot, inited, call>>
deadVars == <<stage, pending, running, below>>

Stages == {"unborn", "live", "zeroing", "body", "remove", "done"}

Idle == [op |-> "idle", slot |-> Nil, obj |-> Nil, ref |-> Nil]
Calls == {Idle} \cup [op : {"store", "load"}, slot : Slot,
                       obj : Obj \cup {Nil}, ref : Ref \cup {Nil}]

--------------------------------------------------------------------------------
(* The side table.                                                            *)

\* Mutant: or_insert starts the count at 0.
FreshZero == [rc |-> 0, deallocating |-> FALSE, weak |-> {}]

Fresh == [rc |-> 1, deallocating |-> FALSE, weak |-> {}]

\* TABLE.entry(key).or_insert(..)
EntryOf(o) == IF table[AddrOf[o]] = Vacant THEN Fresh ELSE table[AddrOf[o]]

\* objc_retain's effect on the entry; the caller gets None from a dying object.
Retained(e) == IF e.deallocating THEN e ELSE [e EXCEPT !.rc = @ + 1]

\* Whether objc_release deallocates: no entry stands for a count of one.
LastRelease(e) == IF e = Vacant THEN TRUE ELSE ~e.deallocating /\ e.rc <= 1

\* Mutants: releasing forgets the flag, keeps the locations, or takes a count of
\* two for the last one.
ReleasedUnmarked(e) ==
    IF e = Vacant THEN Vacant
    ELSE IF e.deallocating THEN e
    ELSE IF e.rc <= 1 THEN [e EXCEPT !.weak = {}] ELSE [e EXCEPT !.rc = @ - 1]
ReleasedListed(e) ==
    IF e = Vacant THEN Vacant
    ELSE IF e.deallocating THEN e
    ELSE IF e.rc <= 1 THEN [e EXCEPT !.deallocating = TRUE] ELSE [e EXCEPT !.rc = @ - 1]
ReleasedEarly(e) ==
    IF e = Vacant THEN Vacant
    ELSE IF e.deallocating THEN e
    ELSE [e EXCEPT !.rc = @ - 1, !.deallocating = e.rc <= 2]

\* objc_release's effect on the entry.  A vacant entry stays vacant.
Released(e) ==
    IF e = Vacant THEN Vacant
    ELSE IF e.deallocating THEN e
    ELSE IF e.rc <= 1 THEN [rc |-> e.rc, deallocating |-> TRUE, weak |-> {}]
    ELSE [e EXCEPT !.rc = @ - 1]

WeakOf(e) == IF e = Vacant THEN {} ELSE e.weak

Without(e, s) == IF e = Vacant THEN Vacant ELSE [e EXCEPT !.weak = @ \ {s}]

\* Mutant: the old object keeps listing the slot.
UnlistedNever(o, s) == table

\* The table once slot s is struck from the locations of object o.
Unlisted(o, s) ==
    IF o = Nil THEN table
    ELSE [table EXCEPT ![AddrOf[o]] = Without(table[AddrOf[o]], s)]

RefsTo(o) == {r \in Ref : strong[r] = o}

--------------------------------------------------------------------------------
(* Threads, locks and the memory of objects.                                  *)

Init ==
    /\ strong = [r \in Ref |-> Nil]
    /\ holder = [r \in Ref |-> Nil]
    /\ stage = [o \in Obj |-> "unborn"]
    /\ table = [a \in Addr |-> Vacant]
    /\ slot = [s \in Slot |-> Nil]
    /\ inited = {}
    /\ call = [t \in Thread |-> Idle]
    /\ pending = [o \in Obj |-> {}]
    /\ running = [t \in Thread |-> Nil]
    /\ below = [o \in Obj |-> Nil]

\* A thread may call into the runtime from its own code or from a -dealloc.
Ready(t) ==
    /\ call[t].op = "idle"
    /\ running[t] # Nil => stage[running[t]] = "body"

CanUse(t, o) ==
    \/ \E r \in RefsTo(o) : holder[r] = t
    \/ DeallocUsesSelf /\ running[t] = o

LockFree(s) ==
    \A t \in Thread : call[t].op # "idle" => StripeOf[call[t].slot] # StripeOf[s]

\* The memory of o is in use: no other instance can be allocated there.
InMemory(o) ==
    /\ stage[o] \notin {"unborn", "done"}
    /\ DeallocFrees /\ o \in HasDealloc => stage[o] # "remove"

AwaitsZeroing(s) == \E o \in Obj : s \in pending[o]

Alloc(t, o, r) ==
    /\ Ready(t)
    /\ stage[o] = "unborn"
    /\ \A p \in Obj : AddrOf[p] = AddrOf[o] => ~InMemory(p)
    /\ holder[r] = Nil
    /\ stage' = [stage EXCEPT ![o] = "live"]
    /\ strong' = [strong EXCEPT ![r] = o]
    /\ holder' = [holder EXCEPT ![r] = t]
    /\ UNCHANGED <<table, weakVars, pending, running, below>>

\* The owner passes a reference on: to another thread, or into an object.
Handoff(t, r, w) ==
    /\ Ready(t)
    /\ strong[r] # Nil /\ holder[r] = t
    /\ w \in Thread \ {t} \/ (w \in Obj /\ CanUse(t, w))
    /\ holder' = [holder EXCEPT ![r] = w]
    /\ UNCHANGED <<strong, table, weakVars, deadVars>>

--------------------------------------------------------------------------------
(* Retain and release.                                                        *)

Retain(t, o, r) ==
    /\ Ready(t)
    /\ CanUse(t, o)
    /\ holder[r] = Nil
    /\ table' = [table EXCEPT ![AddrOf[o]] = Retained(EntryOf(o))]
    /\ IF EntryOf(o).deallocating
       THEN UNCHANGED refVars
       ELSE /\ strong' = [strong EXCEPT ![r] = o]
            /\ holder' = [holder EXCEPT ![r] = t]
    /\ UNCHANGED <<weakVars, deadVars>>

\* Mutant: the locations are dropped instead of taken.
EnterDeallocForgetting(t, o, W) ==
    /\ stage' = [stage EXCEPT ![o] = "zeroing"]
    /\ running' = [running EXCEPT ![t] = o]
    /\ below' = [below EXCEPT ![o] = running[t]]
    /\ UNCHANGED pending

\* The thread enters the deallocation of o, to zero the slots in W first.
EnterDealloc(t, o, W) ==
    /\ stage' = [stage EXCEPT ![o] = "zeroing"]
    /\ pending' = [pending EXCEPT ![o] = W]
    /\ running' = [running EXCEPT ![t] = o]
    /\ below' = [below EXCEPT ![o] = running[t]]

\* A -dealloc also releases the references its object stores.
Release(t, r) ==
    /\ Ready(t)
    /\ strong[r] # Nil /\ holder[r] \in {t, running[t]}
    /\ strong' = [strong EXCEPT ![r] = Nil]
    /\ holder' = [holder EXCEPT ![r] = Nil]
    /\ LET o == strong[r]
           e == table[AddrOf[o]]
       IN  /\ table' = [table EXCEPT ![AddrOf[o]] = Released(e)]
           /\ IF LastRelease(e) THEN EnterDealloc(t, o, WeakOf(e))
                                ELSE UNCHANGED deadVars
    /\ UNCHANGED weakVars

--------------------------------------------------------------------------------
(* Deallocation: do_dealloc and the removal of the entry after it.            *)

\* Mutants: the slot is written without its lock; the loop does not advance.
ZeroSlotUnlocked(t, s) ==
    LET o == running[t] IN
    /\ o # Nil /\ call[t].op = "idle"
    /\ stage[o] = "zeroing" /\ s \in pending[o]
    /\ slot' = [slot EXCEPT ![s] = Nil]
    /\ pending' = [pending EXCEPT ![o] = @ \ {s}]
    /\ UNCHANGED <<refVars, stage, table, inited, call, running, below>>
ZeroSlotAgain(t, s) ==
    LET o == running[t] IN
    /\ o # Nil /\ call[t].op = "idle"
    /\ stage[o] = "zeroing"
    /\ s \in pending[o] /\ LockFree(s)
    /\ slot' = [slot EXCEPT ![s] = Nil]
    /\ UNCHANGED <<refVars, deadVars, table, inited, call>>

\* One pass of the loop that writes None, under the slot's lock.
ZeroSlot(t, s) ==
    LET o == running[t] IN
    /\ o # Nil /\ call[t].op = "idle"
    /\ stage[o] = "zeroing"
    /\ s \in pending[o] /\ LockFree(s)
    /\ slot' = [slot EXCEPT ![s] = Nil]
    /\ pending' = [pending EXCEPT ![o] = @ \ {s}]
    /\ UNCHANGED <<refVars, stage, table, inited, call, running, below>>

\* The loop is over: -dealloc is looked up, and called if there is one.
StartBody(t) ==
    LET o == running[t] IN
    /\ o # Nil /\ call[t].op = "idle"
    /\ stage[o] = "zeroing" /\ pending[o] = {}
    /\ stage' = [stage EXCEPT ![o] = IF o \in HasDealloc THEN "body" ELSE "remove"]
    /\ UNCHANGED <<refVars, table, weakVars, pending, running, below>>

\* -dealloc returns, having released every reference the object stored.
FinishBody(t) ==
    LET o == running[t] IN
    /\ o # Nil /\ call[t].op = "idle"
    /\ stage[o] = "body"
    /\ \A r \in Ref : holder[r] # o
    /\ stage' = [stage EXCEPT ![o] = "remove"]
    /\ UNCHANGED <<refVars, table, weakVars, pending, running, below>>

\* Mutant: the entry is left behind.
RemoveEntryKept(t) ==
    LET o == running[t] IN
    /\ o # Nil /\ call[t].op = "idle"
    /\ stage[o] = "remove"
    /\ stage' = [stage EXCEPT ![o] = "done"]
    /\ running' = [running EXCEPT ![t] = below[o]]
    /\ below' = [below EXCEPT ![o] = Nil]
    /\ UNCHANGED <<refVars, weakVars, table, pending>>

\* TABLE.remove(&key), and the objc_release that did it returns.
RemoveEntry(t) ==
    LET o == running[t] IN
    /\ o # Nil /\ call[t].op = "idle"
    /\ stage[o] = "remove"
    /\ table' = [table EXCEPT ![AddrOf[o]] = Vacant]
    /\ stage' = [stage EXCEPT ![o] = "done"]
    /\ running' = [running EXCEPT ![t] = below[o]]
    /\ below' = [below EXCEPT ![o] = Nil]
    /\ UNCHANGED <<refVars, weakVars, pending>>

--------------------------------------------------------------------------------
(* Weak references.                                                           *)

\* objc_storeWeak locks the slot and strikes it from the old object's list.
StoreWeakBegin(t, s, o) ==
    /\ Ready(t)
    /\ s \in inited /\ LockFree(s)
    /\ o = Nil \/ CanUse(t, o)
    /\ RacyStores \/ ~AwaitsZeroing(s)
    /\ call' = [call EXCEPT ![t] = [Idle EXCEPT !.op = "store", !.slot = s, !.obj = o]]
    /\ table' = Unlisted(slot[s], s)
    /\ UNCHANGED <<refVars, deadVars, slot, inited>>

\* It then lists the slot with the new object, unless that one is dying.
StoreWeakEnd(t) ==
    LET s == call[t].slot
        o == call[t].obj
        refused == o = Nil \/ EntryOf(o).deallocating
    IN
    /\ call[t].op = "store"
    /\ call' = [call EXCEPT ![t] = Idle]
    /\ slot' = [slot EXCEPT ![s] = IF refused THEN Nil ELSE o]
    /\ table' = IF refused THEN table
                ELSE [table EXCEPT ![AddrOf[o]] =
                         [EntryOf(o) EXCEPT !.weak = @ \cup {s}]]
    /\ UNCHANGED <<refVars, deadVars, inited>>

\* objc_initWeak writes None with no lock (nobody else knows the location yet)
\* and, unless it was given None, goes on as objc_storeWeak.
InitWeak(t, s, o) ==
    /\ Ready(t)
    /\ s \notin inited
    /\ o = Nil \/ (CanUse(t, o) /\ LockFree(s))
    /\ RacyStores \/ ~AwaitsZeroing(s)
    /\ slot' = [slot EXCEPT ![s] = Nil]
    /\ inited' = inited \cup {s}
    /\ call' = IF o = Nil THEN call
               ELSE [call EXCEPT ![t] = [Idle EXCEPT !.op = "store", !.slot = s, !.obj = o]]
    /\ UNCHANGED <<refVars, table, deadVars>>

\* objc_loadWeakRetained locks and reads the slot.  r will be the result.
LoadWeakBegin(t, s, r) ==
    /\ Ready(t)
    /\ s \in inited /\ LockFree(s)
    /\ holder[r] = Nil
    /\ holder' = [holder EXCEPT ![r] = t]
    /\ call' = [call EXCEPT ![t] = [Idle EXCEPT !.op = "load", !.slot = s,
                                                !.obj = slot[s], !.ref = r]]
    /\ UNCHANGED <<strong, table, deadVars, slot, inited>>

\* It retains what it read, still under the lock.
LoadWeakEnd(t) ==
    LET o == call[t].obj
        r == call[t].ref
        refused == o = Nil \/ EntryOf(o).deallocating
    IN
    /\ call[t].op = "load"
    /\ call' = [call EXCEPT ![t] = Idle]
    /\ IF refused
       THEN /\ holder' = [holder EXCEPT ![r] = Nil]
            /\ UNCHANGED strong
       ELSE /\ strong' = [strong EXCEPT ![r] = o]
            /\ UNCHANGED holder
    /\ table' = IF o = Nil THEN table
                ELSE [table EXCEPT ![AddrOf[o]] = Retained(EntryOf(o))]
    /\ UNCHANGED <<deadVars, slot, inited>>

\* Mutant: the slot is cleared and not struck from the object's list.
DestroyWeakListed(t, s) ==
    /\ Ready(t)
    /\ s \in inited /\ LockFree(s)
    /\ slot' = [slot EXCEPT ![s] = Nil]
    /\ inited' = inited \ {s}
    /\ UNCHANGED <<refVars, table, call, deadVars>>

\* objc_destroyWeak: one table access under the slot lock.  A scope that ends
\* cannot wait for a deallocation in another thread: no switch forbids it.
DestroyWeak(t, s) ==
    /\ Ready(t)
    /\ s \in inited /\ LockFree(s)
    /\ table' = Unlisted(slot[s], s)
    /\ slot' = [slot EXCEPT ![s] = Nil]
    /\ inited' = inited \ {s}
    /\ UNCHANGED <<refVars, call, deadVars>>

--------------------------------------------------------------------------------
Next ==
    \E t \in Thread :
        \/ \E o \in Obj, r \in Ref : Alloc(t, o, r) \/ Retain(t, o, r)
        \/ \E r \in Ref, w \in Thread \cup Obj : Handoff(t, r, w)
        \/ \E r \in Ref : Release(t, r)
        \/ \E s \in Slot : ZeroSlot(t, s) \/ DestroyWeak(t, s)
        \/ \E s \in Slot, o \in Obj \cup {Nil} : InitWeak(t, s, o) \/ StoreWeakBegin(t, s, o)
        \/ \E s \in Slot, r \in Ref : LoadWeakBegin(t, s, r)
        \/ StartBody(t) \/ FinishBody(t) \/ RemoveEntry(t)
        \/ StoreWeakEnd(t) \/ LoadWeakEnd(t)

Spec == Init /\ [][Next]_vars

\* A thread inside a call or a deallocation goes on; parking_lot's locks are
\* eventually fair, and every -dealloc releases what it stores and returns.
Fairness ==
    \A t \in Thread :
        /\ WF_vars(StoreWeakEnd(t)) /\ WF_vars(LoadWeakEnd(t))
        /\ WF_vars(StartBody(t)) /\ WF_vars(RemoveEntry(t))
        /\ SF_vars(\E s \in Slot : ZeroSlot(t, s))
        /\ SF_vars(FinishBody(t))
        /\ SF_vars(\E r \in Ref : holder[r] = running[t] /\ Release(t, r))

FairSpec == Spec /\ Fairness

--------------------------------------------------------------------------------
(* Properties.                                                                *)

TypeOK ==
    /\ strong \in [Ref -> Obj \cup {Nil}]
    /\ holder \in [Ref -> Thread \cup Obj \cup {Nil}]
    /\ stage \in [Obj -> Stages]
    /\ table \in [Addr -> Entry \cup {Vacant}]
    /\ slot \in [Slot -> Obj \cup {Nil}]
    /\ inited \in SUBSET Slot
    /\ call \in [Thread -> Calls]
    /\ pending \in [Obj -> SUBSET Slot]
    /\ running \in [Thread -> Obj \cup {Nil}]
    /\ below \in [Obj -> Obj \cup {Nil}]

BeingStored(s) == \E t \in Thread : call[t].op = "store" /\ call[t].slot = s

\* An object somebody owns a reference to has not begun to die: no interleaving
\* of retain, release and weak loads deallocates it early or revives it
\* (objc_release, objc_retain, objc_loadWeakRetained).
OwnedIsLive == \A r \in Ref : strong[r] # Nil => stage[strong[r]] = "live"

\* The side table counts exactly: a live object's entry holds the number of
\* references to it, a live object with no entry has one reference, and no
\* live object is left without any (objc_retain, objc_release).
CountIsExact ==
    \A o \in Obj : stage[o] = "live" =>
        LET e == table[AddrOf[o]] IN
        /\ RefsTo(o) # {}
        /\ e = Vacant => Cardinality(RefsTo(o)) = 1
        /\ e # Vacant => ~e.deallocating /\ e.rc = Cardinality(RefsTo(o))

\* No weak slot dangles: outside objc_storeWeak a slot that is not None names
\* an object that will zero it, either live and listing it or dying and about
\* to (objc_storeWeak, do_dealloc).
WeakIsListed ==
    \A s \in Slot : slot[s] # Nil /\ ~BeingStored(s) =>
        LET o == slot[s] IN
        \/ stage[o] = "live" /\ s \in WeakOf(table[AddrOf[o]])
        \/ stage[o] = "zeroing" /\ s \in pending[o]

\* Reading a weak slot and retaining what was read is atomic against
\* deallocation: while a loader holds an object it has read and not yet
\* retained, that object's -dealloc has not started (header, lines 12-16).
LoaderIsSafe ==
    \A t \in Thread : call[t].op = "load" /\ call[t].obj # Nil =>
        stage[call[t].obj] \in {"live", "zeroing"}

\* The location lists are not stale: what a live object lists, or a dying one
\* is about to zero, is a slot that names that object, or one that has been
\* destroyed since (objc_storeWeak strikes the slot from the old object's list).
ListedIsWeak ==
    \A o \in Obj, s \in Slot :
        \/ stage[o] = "live" /\ s \in WeakOf(table[AddrOf[o]])
        \/ s \in pending[o] \cap inited
        => slot[s] = o /\ ~BeingStored(s)

\* The slot a live object lists, outside objc_storeWeak, names that object: a
\* weak reference that was stored is there for objc_loadWeakRetained until its
\* object dies, whatever dying objects the slot has named before.
LiveKeepsSlots ==
    \A o \in Obj, s \in Slot :
        stage[o] = "live" /\ s \in WeakOf(table[AddrOf[o]]) /\ ~BeingStored(s)
            => slot[s] = o

\* Once objc_destroyWeak has returned, no entry lists the location: whatever
\* has been stored to it, no deallocation that begins later writes to it.
DestroyedIsUnlisted == \A s \in Slot \ inited, a \in Addr : s \notin WeakOf(table[a])

\* Nor does one that has begun before: do_dealloc writes to no location that is
\* not between objc_initWeak and objc_destroyWeak.
DestroyedIsNotWritten == [][\A t \in Thread, s \in Slot \ inited : ~ZeroSlot(t, s)]_vars

\* An instance starts its life with no entry: the entry of whatever lived at
\* its address before is gone (objc_release removes it last).
BornWithoutEntry ==
    [][\A o \in Obj : stage[o] = "unborn" /\ stage'[o] = "live"
                        => table'[AddrOf[o]] = Vacant]_vars

\* objc_loadWeakRetained returns None for what it read only if that object has
\* begun to die: a weak reference to a live object is never missed.
LoadFailsOnlyDying ==
    [][\A t \in Thread :
         call[t].op = "load" /\ call[t].obj # Nil /\ LoadWeakEnd(t)
            => (strong'[call[t].ref] = Nil <=> stage[call[t].obj] # "live")]_vars

\* A deallocation once begun is carried through, whatever the other threads do
\* with the slot locks it needs and however deep -deallocs nest.
DeallocCompletes == \A o \in Obj : stage[o] = "zeroing" ~> stage[o] = "done"

--------------------------------------------------------------------------------
(* The inductive invariant the theorems of SideTableProofs rest on.  It holds *)
(* when the callers keep two rules: -dealloc takes no reference to the object *)
(* it is called on, and an address is not reused before the objc_release that *)
(* freed it has removed the entry.                                            *)

RulesKept ==
    /\ ~DeallocUsesSelf
    /\ ~DeallocFrees \/ \A o, p \in Obj : AddrOf[o] = AddrOf[p] => o = p

HasTenant(o) == stage[o] \notin {"unborn", "done"}

OwnersAreKnown == \A r \in Ref : strong[r] # Nil => holder[r] # Nil

OneTenant ==
    \A o, p \in Obj : HasTenant(o) /\ HasTenant(p) /\ AddrOf[o] = AddrOf[p] => o = p

EntriesHaveTenants ==
    \A a \in Addr : table[a] # Vacant => \E o \in Obj : HasTenant(o) /\ AddrOf[o] = a

DyingEntries ==
    \A o \in Obj : HasTenant(o) /\ stage[o] # "live" =>
        LET e == table[AddrOf[o]] IN e # Vacant => e.deallocating /\ e.weak = {}

PendingIsZeroing ==
    \A o \in Obj : pending[o] # {} => stage[o] = "zeroing" /\ table[AddrOf[o]] # Vacant

StripesExclude ==
    \A t, u \in Thread : call[t].op # "idle" /\ call[u].op # "idle"
        /\ StripeOf[call[t].slot] = StripeOf[call[u].slot] => t = u

CallsAreBacked ==
    \A t \in Thread :
        /\ call[t].op # "idle" => call[t].slot \in inited
        /\ call[t].op = "store" /\ call[t].obj # Nil =>
             \E r \in Ref : strong[r] = call[t].obj /\ holder[r] = t
        /\ call[t].op = "load" =>
             /\ call[t].obj = slot[call[t].slot]
             /\ call[t].ref \in Ref /\ strong[call[t].ref] = Nil
             /\ holder[call[t].ref] = t

\* Everything the safety of the side table rests on; inductive under RulesKept.
IInv ==
    /\ TypeOK
    /\ OwnersAreKnown
    /\ OneTenant
    /\ EntriesHaveTenants
    /\ OwnedIsLive
    /\ CountIsExact
    /\ DyingEntries
    /\ WeakIsListed
    /\ PendingIsZeroing
    /\ StripesExclude
    /\ CallsAreBacked

--------------------------------------------------------------------------------
(* What the callers are promised: references, and weak references that are    *)
(* cleared in the instant their object loses its last owner.                  *)

Promise == INSTANCE WeakRefs WITH
    owns <- strong,
    life <- [o \in Obj |-> CASE stage[o] \in {"unborn", "live"} -> stage[o]
                             [] stage[o] = "done" -> "dead"
                             [] OTHER -> "dying"],
    weak <- [s \in Slot |-> IF slot[s] # Nil /\ stage[slot[s]] = "live"
                            THEN slot[s] ELSE Nil],
    known <- inited,
    storing <- {s \in Slot : BeingStored(s)}

\* The side table, the slot locks and the stages of a deallocation implement
\* atomic reference counting with instantly zeroed weak references.
ImplementsPromise == Promise!FairSpec
================================================================================
