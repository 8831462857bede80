---------------------------- MODULE SideTableProofs ----------------------------
(* Proofs about SideTable, for any threads, objects, slots and references.    *)
EXTENDS SideTable, FiniteSetTheorems, TLAPS

--------------------------------------------------------------------------------
(* Type correctness.                                                          *)

\* The operators that compute a new entry return entries.
LEMMA EntryTypes ==
    ASSUME NEW e \in Entry
    PROVE  /\ Fresh \in Entry
           /\ Retained(e) \in Entry
           /\ Released(e) \in Entry
           /\ \A s : Without(e, s) \in Entry
           /\ \A s \in Slot : [e EXCEPT !.weak = @ \cup {s}] \in Entry
BY VacantIsNoEntry DEF Entry, Fresh, Retained, Released, Without

LEMMA TableTypes ==
    ASSUME TypeOK, NEW o \in Obj
    PROVE  /\ AddrOf[o] \in Addr
           /\ EntryOf(o) \in Entry
           /\ Retained(EntryOf(o)) \in Entry
           /\ Released(table[AddrOf[o]]) \in Entry \cup {Vacant}
           /\ WeakOf(table[AddrOf[o]]) \subseteq Slot
           /\ \A s \in Slot : Unlisted(o, s) \in [Addr -> Entry \cup {Vacant}]
           /\ \A s \in Slot : [EntryOf(o) EXCEPT !.weak = @ \cup {s}] \in Entry
<1>1. AddrOf[o] \in Addr
  BY AddressOfObjects
<1>2. table[AddrOf[o]] \in Entry \cup {Vacant}
  BY <1>1 DEF TypeOK
<1>3. EntryOf(o) \in Entry
  BY <1>2, EntryTypes DEF EntryOf, Entry, Fresh
<1>4. Released(table[AddrOf[o]]) \in Entry \cup {Vacant}
  BY <1>2, EntryTypes DEF Released
<1>5. WeakOf(table[AddrOf[o]]) \subseteq Slot
  BY <1>2 DEF WeakOf, Entry
<1>6. ASSUME NEW s \in Slot
      PROVE  Unlisted(o, s) \in [Addr -> Entry \cup {Vacant}]
  <2>1. CASE o = Nil
    BY <2>1 DEF Unlisted, TypeOK
  <2>2. CASE o # Nil
    <3>1. Without(table[AddrOf[o]], s) \in Entry \cup {Vacant}
      BY <1>2, EntryTypes DEF Without
    <3> QED BY <3>1, <2>2, <1>1 DEF Unlisted, TypeOK
  <2> QED BY <2>1, <2>2
<1>7. Retained(EntryOf(o)) \in Entry
  BY <1>3 DEF Retained, Entry
<1>8. \A s \in Slot : [EntryOf(o) EXCEPT !.weak = @ \cup {s}] \in Entry
  BY <1>3 DEF Entry
<1> QED BY <1>1, <1>3, <1>4, <1>5, <1>6, <1>7, <1>8

\* Every step keeps every variable within its type.
LEMMA TypeStep == TypeOK /\ [Next]_vars => TypeOK'
<1> SUFFICES ASSUME TypeOK, [Next]_vars PROVE TypeOK'
  OBVIOUS
<1>s. /\ {"live", "zeroing", "body", "remove", "done"} \subseteq Stages
      /\ Idle \in Calls
  BY DEF Stages, Idle, Calls
<1>1. ASSUME NEW t \in Thread, NEW o \in Obj, NEW r \in Ref, Alloc(t, o, r)
      PROVE  TypeOK'
  BY <1>1, <1>s DEF Alloc, TypeOK, weakVars
<1>2. ASSUME NEW t \in Thread, NEW o \in Obj, NEW r \in Ref, Retain(t, o, r)
      PROVE  TypeOK'
  BY <1>2, TableTypes DEF Retain, TypeOK, weakVars, refVars, deadVars
<1>3. ASSUME NEW t \in Thread, NEW r \in Ref, NEW w \in Thread \cup Obj, Handoff(t, r, w)
      PROVE  TypeOK'
  BY <1>3 DEF Handoff, TypeOK, weakVars, deadVars
<1>4. ASSUME NEW t \in Thread, NEW r \in Ref, Release(t, r)
      PROVE  TypeOK'
  <2>1. strong[r] \in Obj
    BY <1>4 DEF Release, TypeOK
  <2>2. PICK o \in Obj : o = strong[r]
    BY <2>1
  <2> HIDE <2>1
  <2>3. table' = [table EXCEPT ![AddrOf[o]] = Released(table[AddrOf[o]])]
    BY <1>4, <2>2 DEF Release
  <2>4. table' \in [Addr -> Entry \cup {Vacant}]
    BY <2>3, TableTypes DEF TypeOK
  <2>5. /\ stage' \in [Obj -> Stages]
        /\ pending' \in [Obj -> SUBSET Slot]
        /\ running' \in [Thread -> Obj \cup {Nil}]
        /\ below' \in [Obj -> Obj \cup {Nil}]
    <3>1. CASE LastRelease(table[AddrOf[o]])
      <4>1. EnterDealloc(t, o, WeakOf(table[AddrOf[o]]))
        BY <1>4, <2>2, <3>1 DEF Release
      <4>2. WeakOf(table[AddrOf[o]]) \subseteq Slot
        BY TableTypes
      <4> QED
        BY <4>1, <4>2, <1>s DEF EnterDealloc, TypeOK
    <3>2. CASE ~LastRelease(table[AddrOf[o]])
      <4>1. UNCHANGED deadVars
        BY <1>4, <2>2, <3>2 DEF Release
      <4> QED
        BY <4>1 DEF deadVars, TypeOK
    <3> QED
      BY <3>1, <3>2
  <2> QED BY <1>4, <2>4, <2>5 DEF Release, weakVars, TypeOK
<1>5. ASSUME NEW t \in Thread, NEW s \in Slot, ZeroSlot(t, s)
      PROVE  TypeOK'
  BY <1>5 DEF ZeroSlot, TypeOK, refVars
<1>6. ASSUME NEW t \in Thread, NEW s \in Slot, DestroyWeak(t, s)
      PROVE  TypeOK'
  <2>1. table' \in [Addr -> Entry \cup {Vacant}]
    BY <1>6, TableTypes DEF DestroyWeak, TypeOK, Unlisted
  <2> QED BY <1>6, <2>1 DEF DestroyWeak, TypeOK, refVars, deadVars
<1>7. ASSUME NEW t \in Thread, NEW s \in Slot, NEW o \in Obj \cup {Nil}, InitWeak(t, s, o)
      PROVE  TypeOK'
  <2>1. call' \in [Thread -> Calls]
    BY <1>7 DEF InitWeak, TypeOK, Idle, Calls
  <2> QED BY <1>7, <2>1 DEF InitWeak, TypeOK, refVars, deadVars
<1>8. ASSUME NEW t \in Thread, NEW s \in Slot, NEW o \in Obj \cup {Nil}, StoreWeakBegin(t, s, o)
      PROVE  TypeOK'
  <2>1. table' \in [Addr -> Entry \cup {Vacant}]
    BY <1>8, TableTypes DEF StoreWeakBegin, TypeOK, Unlisted
  <2> QED BY <1>8, <2>1 DEF StoreWeakBegin, TypeOK, refVars, deadVars, Idle, Calls
<1>9. ASSUME NEW t \in Thread, NEW s \in Slot, NEW r \in Ref, LoadWeakBegin(t, s, r)
      PROVE  TypeOK'
  <2>1. call' \in [Thread -> Calls]
    <3>1. slot[s] \in Obj \cup {Nil}
      BY DEF TypeOK
    <3>2. [Idle EXCEPT !.op = "load", !.slot = s, !.obj = slot[s], !.ref = r] \in Calls
      BY <3>1 DEF Idle, Calls
    <3> QED BY <1>9, <3>2 DEF LoadWeakBegin, TypeOK
  <2>2. holder' \in [Ref -> Thread \cup Obj \cup {Nil}]
    BY <1>9 DEF LoadWeakBegin, TypeOK
  <2> QED BY <1>9, <2>1, <2>2 DEF LoadWeakBegin, TypeOK, deadVars
<1>10. ASSUME NEW t \in Thread, StartBody(t)
       PROVE  TypeOK'
  BY <1>10, <1>s DEF StartBody, TypeOK, refVars, weakVars
<1>11. ASSUME NEW t \in Thread, FinishBody(t)
       PROVE  TypeOK'
  BY <1>11, <1>s DEF FinishBody, TypeOK, refVars, weakVars
<1>12. ASSUME NEW t \in Thread, RemoveEntry(t)
       PROVE  TypeOK'
  <2>1. running[t] \in Obj
    BY <1>12 DEF RemoveEntry, TypeOK
  <2> QED BY <1>12, <2>1, <1>s DEF RemoveEntry, TypeOK, refVars, weakVars
<1>13. ASSUME NEW t \in Thread, StoreWeakEnd(t)
       PROVE  TypeOK'
  <2>1. call[t] \in Calls
    BY DEF TypeOK
  <2>2. call[t].obj \in Obj \cup {Nil} /\ call[t].slot \in Slot
    BY <1>13, <2>1 DEF Calls, Idle, StoreWeakEnd
  <2>3. slot' \in [Slot -> Obj \cup {Nil}]
    BY <1>13, <2>2 DEF StoreWeakEnd, TypeOK
  <2>4. table' \in [Addr -> Entry \cup {Vacant}]
    BY <1>13, <2>2, TableTypes DEF StoreWeakEnd, TypeOK
  <2> QED BY <1>13, <2>3, <2>4, <1>s DEF StoreWeakEnd, TypeOK, refVars, deadVars
<1>14. ASSUME NEW t \in Thread, LoadWeakEnd(t)
       PROVE  TypeOK'
  <2>1. call[t].obj \in Obj \cup {Nil}
    BY DEF TypeOK, Calls, Idle
  <2>2. table' \in [Addr -> Entry \cup {Vacant}]
    BY <1>14, <2>1, TableTypes DEF LoadWeakEnd, TypeOK
  <2>3. strong' \in [Ref -> Obj \cup {Nil}] /\ holder' \in [Ref -> Thread \cup Obj \cup {Nil}]
    BY <1>14, <2>1 DEF LoadWeakEnd, TypeOK
  <2> QED BY <1>14, <2>2, <2>3, <1>s DEF LoadWeakEnd, TypeOK, deadVars
<1>15. CASE UNCHANGED vars
  BY <1>15 DEF vars, TypeOK
<1> QED BY <1>1, <1>2, <1>3, <1>4, <1>5, <1>6, <1>7, <1>8, <1>9, <1>10, <1>11, <1>12,
           <1>13, <1>14, <1>15 DEF Next

\* Every reachable state is well typed, whatever the callers do.
THEOREM TypeCorrect == Spec => []TypeOK
<1>1. Init => TypeOK
  BY DEF Init, TypeOK, Stages, Idle, Calls
<1> QED BY <1>1, TypeStep, PTL DEF Spec

--------------------------------------------------------------------------------
(* Counting references.                                                       *)

LEMMA RefsFinite ==
    ASSUME NEW o \in Obj
    PROVE  /\ IsFiniteSet(RefsTo(o))
           /\ Cardinality(RefsTo(o)) \in Nat
           /\ RefsTo(o) # {} <=> Cardinality(RefsTo(o)) >= 1
<1>1. IsFiniteSet(RefsTo(o))
  BY FiniteRefs, FS_Subset DEF RefsTo
<1>2. Cardinality(RefsTo(o)) \in Nat /\ (Cardinality(RefsTo(o)) = 0 <=> RefsTo(o) = {})
  BY <1>1, FS_CardinalityType, FS_EmptySet
<1> QED BY <1>1, <1>2

\* A reference put in use adds one to the count of its object, and to no other.
LEMMA Gain ==
    ASSUME TypeOK, NEW r \in Ref, NEW o \in Obj, strong[r] = Nil,
           strong' = [strong EXCEPT ![r] = o]
    PROVE  /\ Cardinality(RefsTo(o)') = Cardinality(RefsTo(o)) + 1
           /\ RefsTo(o)' # {}
           /\ \A p \in Obj \ {o} : RefsTo(p)' = RefsTo(p)
<1>1. RefsTo(o)' = RefsTo(o) \cup {r} /\ r \notin RefsTo(o)
  BY NilIsNothing DEF RefsTo, TypeOK
<1>2. \A p \in Obj \ {o} : RefsTo(p)' = RefsTo(p)
  BY NilIsNothing DEF RefsTo, TypeOK
<1>3. Cardinality(RefsTo(o) \cup {r}) = Cardinality(RefsTo(o)) + 1
  BY <1>1, RefsFinite, FS_AddElement
<1> QED BY <1>1, <1>2, <1>3

\* A reference given up takes one from the count of its object, and no other.
LEMMA Loss ==
    ASSUME TypeOK, NEW r \in Ref, NEW o \in Obj, strong[r] = o,
           strong' = [strong EXCEPT ![r] = Nil]
    PROVE  /\ Cardinality(RefsTo(o)') = Cardinality(RefsTo(o)) - 1
           /\ RefsTo(o)' # {} <=> Cardinality(RefsTo(o)) > 1
           /\ \A p \in Obj \ {o} : RefsTo(p)' = RefsTo(p)
<1>1. RefsTo(o)' = RefsTo(o) \ {r} /\ r \in RefsTo(o)
  BY NilIsNothing DEF RefsTo, TypeOK
<1>2. \A p \in Obj \ {o} : RefsTo(p)' = RefsTo(p)
  BY NilIsNothing DEF RefsTo, TypeOK
<1>3. /\ IsFiniteSet(RefsTo(o) \ {r})
      /\ Cardinality(RefsTo(o) \ {r}) = Cardinality(RefsTo(o)) - 1
  BY <1>1, RefsFinite, FS_RemoveElement
<1>4. RefsTo(o) \ {r} # {} <=> Cardinality(RefsTo(o) \ {r}) # 0
  BY <1>3, FS_EmptySet
<1> QED BY <1>1, <1>2, <1>3, <1>4, RefsFinite

\* The entry objc_retain finds or makes for a live object counts exactly.
LEMMA LiveEntry ==
    ASSUME IInv, NEW o \in Obj, stage[o] = "live"
    PROVE  /\ EntryOf(o) \in Entry
           /\ ~EntryOf(o).deallocating
           /\ EntryOf(o).rc = Cardinality(RefsTo(o))
           /\ EntryOf(o).weak = WeakOf(table[AddrOf[o]])
<1>1. EntryOf(o) \in Entry
  BY TableTypes DEF IInv
<1> QED BY <1>1 DEF IInv, CountIsExact, EntryOf, Fresh, WeakOf

--------------------------------------------------------------------------------
(* The inductive invariant, one lemma per action.                             *)

\* A thread that is in no call cannot disturb what the other threads' calls use.
LEMMA OthersBacked ==
    ASSUME CallsAreBacked, NEW t \in Thread, call[t].op = "idle",
           UNCHANGED <<call, slot, inited>>,
           \A q \in Ref : holder[q] \in Thread \ {t}
                            => strong'[q] = strong[q] /\ holder'[q] = holder[q]
    PROVE  CallsAreBacked'
BY DEF CallsAreBacked

LEMMA AllocStep ==
    ASSUME IInv, RulesKept, NEW t \in Thread, NEW o \in Obj, NEW r \in Ref, Alloc(t, o, r)
    PROVE  IInv'
<1> USE DEF IInv
<1>1. TypeOK'
  BY TypeStep DEF Next
<1>2. AddrOf[o] \in Addr /\ strong[r] = Nil
  BY AddressOfObjects DEF Alloc, OwnersAreKnown
<1>3. \A p \in Obj : AddrOf[p] = AddrOf[o] => ~HasTenant(p)
  BY DEF Alloc, RulesKept, InMemory, HasTenant
<1>4. table[AddrOf[o]] = Vacant
  BY <1>2, <1>3 DEF EntriesHaveTenants
<1>5. RefsTo(o) = {} /\ Cardinality(RefsTo(o)) = 0
  BY FS_EmptySet, NilIsNothing DEF RefsTo, OwnedIsLive, Alloc
<1>6. /\ Cardinality(RefsTo(o)') = 1 /\ RefsTo(o)' # {}
      /\ \A p \in Obj \ {o} : RefsTo(p)' = RefsTo(p)
  <2>1. strong' = [strong EXCEPT ![r] = o]
    BY DEF Alloc
  <2>2. /\ Cardinality(RefsTo(o)') = Cardinality(RefsTo(o)) + 1 /\ RefsTo(o)' # {}
        /\ \A p \in Obj \ {o} : RefsTo(p)' = RefsTo(p)
    BY <1>2, <2>1, Gain
  <2> QED BY <1>5, <2>2
<1>7. OwnersAreKnown'
  BY NilIsNothing DEF Alloc, OwnersAreKnown, TypeOK
<1>8. OneTenant' /\ EntriesHaveTenants'
  BY <1>3, <1>4 DEF Alloc, OneTenant, EntriesHaveTenants, HasTenant, TypeOK
<1>9. OwnedIsLive'
  BY DEF Alloc, OwnedIsLive, TypeOK
<1>10. CountIsExact'
  BY <1>4, <1>6 DEF Alloc, CountIsExact, TypeOK
<1>11. DyingEntries' /\ PendingIsZeroing'
  BY DEF Alloc, DyingEntries, PendingIsZeroing, HasTenant, TypeOK
<1>12. WeakIsListed' /\ StripesExclude'
  BY DEF Alloc, WeakIsListed, StripesExclude, BeingStored, weakVars, TypeOK
<1>13. CallsAreBacked'
  BY NilIsNothing, OthersBacked DEF Alloc, weakVars, TypeOK, Ready
<1> QED BY <1>1, <1>7, <1>8, <1>9, <1>10, <1>11, <1>12, <1>13

LEMMA HandoffStep ==
    ASSUME IInv, NEW t \in Thread, NEW r \in Ref, NEW w \in Thread \cup Obj, Handoff(t, r, w)
    PROVE  IInv'
<1> USE DEF IInv
<1>1. TypeOK'
  BY TypeStep DEF Next
<1>2. UNCHANGED <<strong, stage, table, slot, inited, call, pending>>
  BY DEF Handoff, weakVars, deadVars
<1>3. OwnersAreKnown'
  BY NilIsNothing DEF Handoff, OwnersAreKnown, TypeOK
<1>4. /\ OneTenant' /\ EntriesHaveTenants' /\ OwnedIsLive' /\ CountIsExact'
      /\ DyingEntries' /\ PendingIsZeroing' /\ WeakIsListed' /\ StripesExclude'
  BY <1>2 DEF OneTenant, EntriesHaveTenants, OwnedIsLive, CountIsExact, DyingEntries,
              PendingIsZeroing, WeakIsListed, StripesExclude, BeingStored, HasTenant, RefsTo
<1>5. CallsAreBacked'
  BY <1>2 DEF Handoff, CallsAreBacked, TypeOK, Ready
<1> QED BY <1>1, <1>3, <1>4, <1>5

LEMMA RetainStep ==
    ASSUME IInv, RulesKept, NEW t \in Thread, NEW o \in Obj, NEW r \in Ref, Retain(t, o, r)
    PROVE  IInv'
<1> USE DEF IInv
<1>1. TypeOK'
  BY TypeStep DEF Next
<1>2. AddrOf[o] \in Addr /\ strong[r] = Nil
  BY AddressOfObjects DEF Retain, OwnersAreKnown
<1>3. stage[o] = "live"
  BY NilIsNothing DEF Retain, CanUse, RulesKept, OwnedIsLive, RefsTo
<1>4. /\ ~EntryOf(o).deallocating
      /\ EntryOf(o).rc = Cardinality(RefsTo(o))
      /\ EntryOf(o).weak = WeakOf(table[AddrOf[o]])
      /\ EntryOf(o) \in Entry
  BY <1>3, LiveEntry
<1>5. /\ strong' = [strong EXCEPT ![r] = o]
      /\ holder' = [holder EXCEPT ![r] = t]
      /\ table' = [table EXCEPT ![AddrOf[o]] = [EntryOf(o) EXCEPT !.rc = @ + 1]]
      /\ UNCHANGED <<stage, slot, inited, call, pending>>
  BY <1>4 DEF Retain, Retained, weakVars, deadVars
<1>6. /\ Cardinality(RefsTo(o)') = Cardinality(RefsTo(o)) + 1 /\ RefsTo(o)' # {}
      /\ \A p \in Obj \ {o} : RefsTo(p)' = RefsTo(p)
  BY <1>2, <1>5, Gain
<1>7. /\ table'[AddrOf[o]] # Vacant
      /\ ~table'[AddrOf[o]].deallocating
      /\ table'[AddrOf[o]].rc = Cardinality(RefsTo(o)')
      /\ table'[AddrOf[o]].weak = WeakOf(table[AddrOf[o]])
      /\ \A a \in Addr \ {AddrOf[o]} : table'[a] = table[a]
  BY <1>2, <1>4, <1>5, <1>6, VacantIsNoEntry DEF TypeOK, Entry
<1>8. \A p \in Obj \ {o} : HasTenant(p) => table'[AddrOf[p]] = table[AddrOf[p]]
  BY <1>3, <1>7, AddressOfObjects DEF OneTenant, HasTenant
<1>9. OwnersAreKnown' /\ OwnedIsLive'
  BY <1>3, <1>5, NilIsNothing DEF OwnersAreKnown, OwnedIsLive, TypeOK
<1>10. OneTenant' /\ EntriesHaveTenants'
  BY <1>3, <1>5, <1>7 DEF OneTenant, EntriesHaveTenants, HasTenant
<1>11. CountIsExact'
  BY <1>5, <1>6, <1>7, <1>8 DEF CountIsExact, HasTenant
<1>12. DyingEntries' /\ PendingIsZeroing'
  BY <1>3, <1>5, <1>7, <1>8 DEF DyingEntries, PendingIsZeroing, HasTenant
<1>13. WeakIsListed'
  <2>1. \A p \in Obj : stage[p] = "live" => WeakOf(table'[AddrOf[p]]) = WeakOf(table[AddrOf[p]])
    BY <1>7, <1>8 DEF HasTenant, WeakOf
  <2> QED BY <1>5, <2>1 DEF WeakIsListed, BeingStored, TypeOK
<1>14. StripesExclude'
  BY <1>5 DEF StripesExclude
<1>15. CallsAreBacked'
  BY <1>5, NilIsNothing, OthersBacked DEF Retain, Ready, TypeOK
<1> QED BY <1>1, <1>9, <1>10, <1>11, <1>12, <1>13, <1>14, <1>15

LEMMA ReleaseStep ==
    ASSUME IInv, NEW t \in Thread, NEW r \in Ref, Release(t, r)
    PROVE  IInv'
<1> USE DEF IInv
<1>1. TypeOK'
  BY TypeStep DEF Next
<1>2. PICK o \in Obj : o = strong[r]
  BY DEF Release, TypeOK
<1> DEFINE e == table[AddrOf[o]]
<1>3. AddrOf[o] \in Addr /\ stage[o] = "live" /\ e \in Entry \cup {Vacant}
  BY <1>2, AddressOfObjects, NilIsNothing DEF OwnedIsLive, TypeOK
<1>4. /\ strong' = [strong EXCEPT ![r] = Nil]
      /\ holder' = [holder EXCEPT ![r] = Nil]
      /\ table' = [table EXCEPT ![AddrOf[o]] = Released(e)]
      /\ UNCHANGED <<slot, inited, call>>
      /\ IF LastRelease(e) THEN EnterDealloc(t, o, WeakOf(e)) ELSE UNCHANGED deadVars
  BY <1>2 DEF Release, weakVars
<1>5. /\ Cardinality(RefsTo(o)') = Cardinality(RefsTo(o)) - 1
      /\ RefsTo(o)' # {} <=> Cardinality(RefsTo(o)) > 1
      /\ \A p \in Obj \ {o} : RefsTo(p)' = RefsTo(p)
  BY <1>2, <1>4, Loss
<1>6. /\ e = Vacant => Cardinality(RefsTo(o)) = 1
      /\ e # Vacant => ~e.deallocating /\ e.rc = Cardinality(RefsTo(o))
      /\ Cardinality(RefsTo(o)) \in Nat /\ Cardinality(RefsTo(o)) >= 1
  BY <1>3, RefsFinite DEF CountIsExact
<1>7. \A p \in Obj \ {o} : HasTenant(p) => table'[AddrOf[p]] = table[AddrOf[p]]
  BY <1>3, <1>4, AddressOfObjects DEF OneTenant, HasTenant, TypeOK
<1>8. table'[AddrOf[o]] = Released(e) /\ \A a \in Addr \ {AddrOf[o]} : table'[a] = table[a]
  BY <1>3, <1>4 DEF TypeOK
<1>9. OwnersAreKnown'
  BY <1>4, NilIsNothing DEF OwnersAreKnown, TypeOK
<1>10. StripesExclude'
  BY <1>4 DEF StripesExclude
<1>11. CallsAreBacked'
  <2>1. holder[r] = t \/ holder[r] \notin Thread
    BY ObjectsAreNotThreads, NilIsNothing DEF Release, TypeOK
  <2> QED BY <1>4, <2>1, OthersBacked DEF Release, Ready, TypeOK
<1>12. CASE LastRelease(e)
  <2>1. /\ stage' = [stage EXCEPT ![o] = "zeroing"]
        /\ pending' = [pending EXCEPT ![o] = WeakOf(e)]
    BY <1>4, <1>12 DEF EnterDealloc
  <2>2. RefsTo(o)' = {}
    BY <1>5, <1>6, <1>12 DEF LastRelease
  <2>3. /\ Released(e) = Vacant <=> e = Vacant
        /\ e # Vacant => Released(e).deallocating /\ Released(e).weak = {}
    <3>1. e # Vacant => /\ e \in Entry
                        /\ Released(e) = [rc |-> e.rc, deallocating |-> TRUE, weak |-> {}]
      BY <1>3, <1>6, <1>12 DEF Released, LastRelease
    <3>2. e # Vacant => Released(e) \in Entry
      BY <3>1, EntryTypes
    <3>3. e = Vacant => Released(e) = Vacant
      BY DEF Released
    <3> QED BY <3>1, <3>2, <3>3, VacantIsNoEntry
  <2>4. OneTenant' /\ EntriesHaveTenants'
    BY <1>3, <1>8, <2>1, <2>3 DEF OneTenant, EntriesHaveTenants, HasTenant, TypeOK
  <2>5. OwnedIsLive'
    BY <1>2, <1>4, <2>1, <2>2, NilIsNothing DEF OwnedIsLive, RefsTo, TypeOK
  <2>6. CountIsExact'
    BY <1>3, <1>5, <1>7, <2>1 DEF CountIsExact, HasTenant, TypeOK
  <2>7. DyingEntries'
    BY <1>7, <1>8, <2>1, <2>3 DEF DyingEntries, HasTenant, TypeOK
  <2>8. PendingIsZeroing'
    BY <1>3, <1>7, <1>8, <2>1, <2>3 DEF PendingIsZeroing, HasTenant, TypeOK, WeakOf
  <2>9. WeakIsListed'
    <3>1. SUFFICES ASSUME NEW s \in Slot, slot[s] # Nil, ~BeingStored(s)
                   PROVE  \/ /\ stage'[slot[s]] = "live"
                             /\ s \in WeakOf(table'[AddrOf[slot[s]]])
                          \/ stage'[slot[s]] = "zeroing" /\ s \in pending'[slot[s]]
      BY <1>4 DEF WeakIsListed, BeingStored
    <3>2. /\ slot[s] \in Obj
          /\ \/ stage[slot[s]] = "live" /\ s \in WeakOf(table[AddrOf[slot[s]]])
             \/ stage[slot[s]] = "zeroing" /\ s \in pending[slot[s]]
      BY <3>1 DEF WeakIsListed, TypeOK
    <3>3. CASE slot[s] = o
      BY <1>3, <2>1, <3>2, <3>3 DEF TypeOK
    <3>4. CASE slot[s] # o
      BY <1>7, <2>1, <3>2, <3>4 DEF TypeOK, HasTenant
    <3> QED BY <3>3, <3>4
  <2> QED BY <1>1, <1>9, <1>10, <1>11, <2>4, <2>5, <2>6, <2>7, <2>8, <2>9
<1>13. CASE ~LastRelease(e)
  <2>1. UNCHANGED <<stage, pending>>
    BY <1>4, <1>13 DEF deadVars
  <2>2. /\ e # Vacant
        /\ Cardinality(RefsTo(o)) > 1
        /\ Released(e) # Vacant
        /\ ~Released(e).deallocating
        /\ Released(e).rc = Cardinality(RefsTo(o)')
        /\ Released(e).weak = e.weak
    <3>1. e \in Entry /\ e # Vacant /\ ~e.deallocating /\ e.rc > 1
      BY <1>3, <1>6, <1>13 DEF LastRelease, Entry
    <3>2. Released(e) = [e EXCEPT !.rc = @ - 1]
      BY <3>1 DEF Released, Entry
    <3> QED BY <1>5, <1>6, <3>1, <3>2, VacantIsNoEntry DEF Entry
  <2>3. OneTenant' /\ EntriesHaveTenants'
    BY <1>3, <1>8, <2>1, <2>2 DEF OneTenant, EntriesHaveTenants, HasTenant
  <2>4. OwnedIsLive'
    BY <1>4, <2>1 DEF OwnedIsLive, TypeOK
  <2>5. CountIsExact'
    BY <1>5, <1>7, <1>8, <2>1, <2>2 DEF CountIsExact, HasTenant
  <2>6. DyingEntries' /\ PendingIsZeroing'
    BY <1>3, <1>7, <1>8, <2>1, <2>2 DEF DyingEntries, PendingIsZeroing, HasTenant
  <2>7. WeakIsListed'
    <3>1. \A p \in Obj : stage[p] = "live" => WeakOf(table'[AddrOf[p]]) = WeakOf(table[AddrOf[p]])
      BY <1>7, <1>8, <2>2 DEF HasTenant, WeakOf
    <3> QED BY <1>4, <2>1, <3>1 DEF WeakIsListed, BeingStored, TypeOK
  <2> QED BY <1>1, <1>9, <1>10, <1>11, <2>3, <2>4, <2>5, <2>6, <2>7
<1> QED BY <1>12, <1>13

\* A thread in a call holds its slot's stripe: no other call is on that slot.
LEMMA Exclusive ==
    ASSUME IInv, NEW t \in Thread, NEW u \in Thread, NEW s \in Slot,
           call[t].op # "idle", call[t].slot = s,
           call[u].op # "idle", call[u].slot = s
    PROVE  t = u
BY DEF IInv, StripesExclude

LEMMA ZeroSlotStep ==
    ASSUME IInv, NEW t \in Thread, NEW s \in Slot, ZeroSlot(t, s)
    PROVE  IInv'
<1> USE DEF IInv
<1>1. TypeOK'
  BY TypeStep DEF Next
<1>2. PICK o \in Obj : o = running[t]
  BY DEF ZeroSlot, TypeOK
<1>3. /\ slot' = [slot EXCEPT ![s] = Nil]
      /\ pending' = [pending EXCEPT ![o] = pending[o] \ {s}]
      /\ UNCHANGED <<strong, holder, stage, table, inited, call>>
      /\ LockFree(s)
  BY <1>2 DEF ZeroSlot, refVars
<1>4. /\ OwnersAreKnown' /\ OneTenant' /\ EntriesHaveTenants' /\ OwnedIsLive'
      /\ CountIsExact' /\ DyingEntries' /\ StripesExclude'
  BY <1>3 DEF OwnersAreKnown, OneTenant, EntriesHaveTenants, OwnedIsLive, CountIsExact,
              DyingEntries, StripesExclude, HasTenant, RefsTo
<1>5. PendingIsZeroing'
  BY <1>3 DEF PendingIsZeroing, TypeOK
<1>6. WeakIsListed'
  BY <1>3 DEF WeakIsListed, BeingStored, TypeOK
<1>7. CallsAreBacked'
  BY <1>3 DEF CallsAreBacked, LockFree, TypeOK
<1> QED BY <1>1, <1>4, <1>5, <1>6, <1>7

LEMMA StageStep ==
    ASSUME IInv, NEW t \in Thread, StartBody(t) \/ FinishBody(t)
    PROVE  IInv'
<1> USE DEF IInv
<1>1. TypeOK'
  BY TypeStep DEF Next
<1>2. PICK o \in Obj : o = running[t]
  BY DEF StartBody, FinishBody, TypeOK
<1>3. /\ stage[o] \in {"zeroing", "body"}
      /\ pending[o] = {}
      /\ UNCHANGED <<strong, holder, table, slot, inited, call, pending>>
  BY <1>2 DEF StartBody, FinishBody, refVars, weakVars, PendingIsZeroing
<1>4. \E g \in {"body", "remove"} : stage' = [stage EXCEPT ![o] = g]
  BY <1>2 DEF StartBody, FinishBody
<1>5. OwnersAreKnown' /\ StripesExclude' /\ CallsAreBacked'
  BY <1>3 DEF OwnersAreKnown, StripesExclude, CallsAreBacked
<1>6. OneTenant' /\ EntriesHaveTenants' /\ DyingEntries'
  <2>1. \A p \in Obj : HasTenant(p)' = HasTenant(p) /\ (stage'[p] = "live" <=> stage[p] = "live")
    BY <1>3, <1>4 DEF HasTenant, TypeOK
  <2> QED
    BY ONLY <1>3, <2>1, OneTenant, EntriesHaveTenants, DyingEntries
       DEF OneTenant, EntriesHaveTenants, DyingEntries
<1>7. OwnedIsLive'
  BY <1>3, <1>4 DEF OwnedIsLive, TypeOK
<1>8. CountIsExact'
  <2>1. \A p \in Obj : RefsTo(p)' = RefsTo(p)
    BY <1>3 DEF RefsTo
  <2>2. \A p \in Obj : stage'[p] = "live" => stage[p] = "live"
    BY <1>4 DEF TypeOK
  <2> QED BY <1>3, <2>1, <2>2 DEF CountIsExact
<1>9. PendingIsZeroing' /\ WeakIsListed'
  BY <1>3, <1>4 DEF PendingIsZeroing, WeakIsListed, BeingStored, TypeOK
<1> QED BY <1>1, <1>5, <1>6, <1>7, <1>8, <1>9

LEMMA RemoveEntryStep ==
    ASSUME IInv, NEW t \in Thread, RemoveEntry(t)
    PROVE  IInv'
<1> USE DEF IInv
<1>1. TypeOK'
  BY TypeStep DEF Next
<1>2. PICK o \in Obj : o = running[t]
  BY DEF RemoveEntry, TypeOK
<1>3. /\ stage[o] = "remove" /\ stage' = [stage EXCEPT ![o] = "done"]
      /\ table' = [table EXCEPT ![AddrOf[o]] = Vacant]
      /\ UNCHANGED <<strong, holder, slot, inited, call, pending>>
  BY <1>2 DEF RemoveEntry, refVars, weakVars
<1>4. \A p \in Obj \ {o} : HasTenant(p) => table'[AddrOf[p]] = table[AddrOf[p]]
  BY <1>3, AddressOfObjects DEF OneTenant, HasTenant, TypeOK
<1>5. OwnersAreKnown' /\ StripesExclude' /\ CallsAreBacked'
  BY <1>3 DEF OwnersAreKnown, StripesExclude, CallsAreBacked
<1>6. OneTenant' /\ EntriesHaveTenants'
  <2>1. \A p \in Obj : HasTenant(p)' <=> HasTenant(p) /\ p # o
    BY <1>3 DEF HasTenant, TypeOK
  <2>2. \A a \in Addr : table'[a] # Vacant => table[a] # Vacant /\ a # AddrOf[o]
    BY <1>3, AddressOfObjects DEF TypeOK
  <2> QED BY <2>1, <2>2 DEF OneTenant, EntriesHaveTenants
<1>7. DyingEntries' /\ PendingIsZeroing'
  BY <1>3, <1>4 DEF DyingEntries, PendingIsZeroing, HasTenant, TypeOK
<1>8. OwnedIsLive'
  BY <1>3 DEF OwnedIsLive, TypeOK
<1>9. CountIsExact'
  <2>1. \A p \in Obj : RefsTo(p)' = RefsTo(p)
    BY <1>3 DEF RefsTo
  <2> QED BY <1>3, <1>4, <2>1 DEF CountIsExact, HasTenant, TypeOK
<1>10. WeakIsListed'
  BY <1>3, <1>4 DEF WeakIsListed, BeingStored, HasTenant, TypeOK
<1> QED BY <1>1, <1>5, <1>6, <1>7, <1>8, <1>9, <1>10

\* Striking a slot from an object's list changes no count, no mark and no other
\* slot, and makes no entry come or go.
LEMMA Striking ==
    ASSUME TypeOK, NEW s \in Slot, NEW o \in Obj \cup {Nil}, table' = Unlisted(o, s)
    PROVE  \A a \in Addr :
               /\ table'[a] = Vacant <=> table[a] = Vacant
               /\ table[a] # Vacant =>
                    /\ table'[a].rc = table[a].rc
                    /\ table'[a].deallocating = table[a].deallocating
                    /\ table'[a].weak \subseteq table[a].weak
                    /\ table[a].weak \subseteq table'[a].weak \cup {s}
<1> SUFFICES ASSUME NEW a \in Addr
             PROVE  /\ table'[a] = Vacant <=> table[a] = Vacant
                    /\ table[a] # Vacant =>
                         /\ table'[a].rc = table[a].rc
                         /\ table'[a].deallocating = table[a].deallocating
                         /\ table'[a].weak \subseteq table[a].weak
                         /\ table[a].weak \subseteq table'[a].weak \cup {s}
  OBVIOUS
<1>1. table'[a] = table[a] \/ table'[a] = Without(table[a], s)
  BY AddressOfObjects DEF Unlisted, TypeOK
<1>2. table[a] \in Entry \cup {Vacant}
  BY DEF TypeOK
<1>3. table[a] # Vacant => Without(table[a], s) \in Entry
  BY <1>2, EntryTypes
<1> QED BY <1>1, <1>2, <1>3, VacantIsNoEntry DEF Without, Entry

\* What striking leaves of the invariant, whoever does it.
LEMMA StrikingKeeps ==
    ASSUME IInv, NEW s \in Slot, table' = Unlisted(slot[s], s),
           UNCHANGED <<strong, holder, stage, pending, running, below>>
    PROVE  /\ OwnersAreKnown' /\ OneTenant' /\ EntriesHaveTenants' /\ OwnedIsLive'
           /\ CountIsExact' /\ DyingEntries' /\ PendingIsZeroing'
<1> USE DEF IInv
<1>1. \A a \in Addr :
          /\ table'[a] = Vacant <=> table[a] = Vacant
          /\ table[a] # Vacant =>
               /\ table'[a].rc = table[a].rc
               /\ table'[a].deallocating = table[a].deallocating
               /\ table'[a].weak \subseteq table[a].weak
  <2>1. slot[s] \in Obj \cup {Nil}
    BY DEF TypeOK
  <2> QED BY <2>1, Striking
<1>2. \A o \in Obj : AddrOf[o] \in Addr
  BY AddressOfObjects
<1>3. OwnersAreKnown' /\ OneTenant' /\ OwnedIsLive'
  BY DEF OwnersAreKnown, OneTenant, OwnedIsLive, HasTenant
<1>4. EntriesHaveTenants'
  BY <1>1 DEF EntriesHaveTenants, HasTenant
<1>5. CountIsExact'
  <2>1. \A p \in Obj : RefsTo(p)' = RefsTo(p)
    BY DEF RefsTo
  <2> QED BY <1>1, <1>2, <2>1 DEF CountIsExact
<1>6. DyingEntries' /\ PendingIsZeroing'
  BY <1>1, <1>2 DEF DyingEntries, PendingIsZeroing, HasTenant
<1> QED BY <1>3, <1>4, <1>5, <1>6

\* Every other slot stays listed where it was.
LEMMA StrikingLists ==
    ASSUME IInv, NEW s \in Slot, table' = Unlisted(slot[s], s),
           NEW q \in Slot, q # s, NEW o \in Obj, q \in WeakOf(table[AddrOf[o]])
    PROVE  q \in WeakOf(table'[AddrOf[o]])
<1>1. slot[s] \in Obj \cup {Nil} /\ AddrOf[o] \in Addr /\ TypeOK
  BY AddressOfObjects DEF IInv, TypeOK
<1>2. /\ table'[AddrOf[o]] = Vacant <=> table[AddrOf[o]] = Vacant
      /\ table[AddrOf[o]] # Vacant =>
            table[AddrOf[o]].weak \subseteq table'[AddrOf[o]].weak \cup {s}
  BY <1>1, Striking
<1> QED BY <1>2 DEF WeakOf

\* Entering a call on a slot whose stripe is free keeps the stripes exclusive.
LEMMA Locking ==
    ASSUME IInv, NEW t \in Thread, NEW s \in Slot, NEW c, LockFree(s), c.slot = s,
           call' = [call EXCEPT ![t] = c]
    PROVE  StripesExclude'
BY DEF IInv, TypeOK, StripesExclude, LockFree

LEMMA StoreWeakBeginStep ==
    ASSUME IInv, RulesKept, NEW t \in Thread, NEW s \in Slot, NEW o \in Obj \cup {Nil},
           StoreWeakBegin(t, s, o)
    PROVE  IInv'
<1> USE DEF IInv
<1> DEFINE c == [Idle EXCEPT !.op = "store", !.slot = s, !.obj = o]
<1>1. TypeOK'
  BY TypeStep DEF Next
<1>2. /\ table' = Unlisted(slot[s], s) /\ call' = [call EXCEPT ![t] = c]
      /\ UNCHANGED <<strong, holder, stage, pending, running, below, slot, inited>>
      /\ LockFree(s) /\ s \in inited /\ call[t].op = "idle"
  BY DEF StoreWeakBegin, refVars, deadVars, Ready
<1>3. c.op = "store" /\ c.slot = s /\ c.obj = o
  BY DEF Idle
<1>4. \A u \in Thread : call'[u] = IF u = t THEN c ELSE call[u]
  BY <1>2 DEF TypeOK
<1>5. /\ OwnersAreKnown' /\ OneTenant' /\ EntriesHaveTenants' /\ OwnedIsLive'
      /\ CountIsExact' /\ DyingEntries' /\ PendingIsZeroing'
  BY <1>2, StrikingKeeps
<1>6. StripesExclude'
  BY <1>2, <1>3, Locking
<1>7. WeakIsListed'
  <2>1. SUFFICES ASSUME NEW q \in Slot, slot[q] # Nil, ~BeingStored(q)'
                 PROVE  \/ /\ stage[slot[q]] = "live"
                           /\ q \in WeakOf(table'[AddrOf[slot[q]]])
                        \/ stage[slot[q]] = "zeroing" /\ q \in pending[slot[q]]
    BY <1>2 DEF WeakIsListed
  <2>2. q # s /\ ~BeingStored(q)
    BY <1>2, <1>3, <1>4, <2>1 DEF BeingStored
  <2>3. /\ slot[q] \in Obj
        /\ \/ stage[slot[q]] = "live" /\ q \in WeakOf(table[AddrOf[slot[q]]])
           \/ stage[slot[q]] = "zeroing" /\ q \in pending[slot[q]]
    BY <2>1, <2>2 DEF WeakIsListed, TypeOK
  <2> QED BY <1>2, <2>2, <2>3, StrikingLists
<1>8. CallsAreBacked'
  <2>1. o # Nil => \E r \in Ref : strong[r] = o /\ holder[r] = t
    BY DEF StoreWeakBegin, CanUse, RulesKept, RefsTo
  <2> QED BY <1>2, <1>3, <1>4, <2>1 DEF CallsAreBacked
<1> QED BY <1>1, <1>5, <1>6, <1>7, <1>8

LEMMA InitWeakStep ==
    ASSUME IInv, RulesKept, NEW t \in Thread, NEW s \in Slot, NEW o \in Obj \cup {Nil},
           InitWeak(t, s, o)
    PROVE  IInv'
<1> USE DEF IInv
<1> DEFINE c == [Idle EXCEPT !.op = "store", !.slot = s, !.obj = o]
<1>1. TypeOK'
  BY TypeStep DEF Next
<1>2. /\ slot' = [slot EXCEPT ![s] = Nil] /\ inited' = inited \cup {s} /\ s \notin inited
      /\ call' = IF o = Nil THEN call ELSE [call EXCEPT ![t] = c]
      /\ o # Nil => LockFree(s)
      /\ call[t].op = "idle"
      /\ UNCHANGED <<strong, holder, table, stage, pending, running, below>>
  BY DEF InitWeak, refVars, deadVars, Ready
<1>3. c.op = "store" /\ c.slot = s /\ c.obj = o
  BY DEF Idle
<1>4. \A u \in Thread : call'[u] = IF u = t /\ o # Nil THEN c ELSE call[u]
  BY <1>2 DEF TypeOK
<1>5. /\ OwnersAreKnown' /\ OneTenant' /\ EntriesHaveTenants' /\ OwnedIsLive'
      /\ CountIsExact' /\ DyingEntries' /\ PendingIsZeroing'
  BY <1>2 DEF OwnersAreKnown, OneTenant, EntriesHaveTenants, OwnedIsLive, CountIsExact,
              DyingEntries, PendingIsZeroing, HasTenant, RefsTo
<1>6. StripesExclude'
  BY <1>2, <1>3, Locking DEF StripesExclude
<1>7. WeakIsListed'
  <2>1. \A q \in Slot : slot'[q] # Nil => q # s /\ slot'[q] = slot[q]
    BY <1>2 DEF TypeOK
  <2>2. \A q \in Slot : q # s /\ ~BeingStored(q)' => ~BeingStored(q)
    BY <1>2, <1>4 DEF BeingStored
  <2> QED BY <1>2, <2>1, <2>2 DEF WeakIsListed
<1>8. CallsAreBacked'
  <2>1. o # Nil => \E r \in Ref : strong[r] = o /\ holder[r] = t
    BY DEF InitWeak, CanUse, RulesKept, RefsTo
  <2>2. \A u \in Thread : call[u].op # "idle" => call[u].slot # s
    BY <1>2 DEF CallsAreBacked
  <2>3. \A u \in Thread : call[u].op # "idle" => slot'[call[u].slot] = slot[call[u].slot]
    BY <1>2, <2>2 DEF CallsAreBacked, TypeOK
  <2> QED BY <1>2, <1>3, <1>4, <2>1, <2>3 DEF CallsAreBacked
<1> QED BY <1>1, <1>5, <1>6, <1>7, <1>8

LEMMA LoadWeakBeginStep ==
    ASSUME IInv, NEW t \in Thread, NEW s \in Slot, NEW r \in Ref, LoadWeakBegin(t, s, r)
    PROVE  IInv'
<1> USE DEF IInv
<1> DEFINE c == [Idle EXCEPT !.op = "load", !.slot = s, !.obj = slot[s], !.ref = r]
<1>1. TypeOK'
  BY TypeStep DEF Next
<1>2. /\ call' = [call EXCEPT ![t] = c] /\ holder' = [holder EXCEPT ![r] = t]
      /\ LockFree(s) /\ s \in inited /\ call[t].op = "idle" /\ holder[r] = Nil
      /\ UNCHANGED <<strong, table, stage, pending, running, below, slot, inited>>
  BY DEF LoadWeakBegin, deadVars, Ready
<1>3. c.op = "load" /\ c.slot = s /\ c.obj = slot[s] /\ c.ref = r
  BY DEF Idle
<1>4. \A u \in Thread : call'[u] = IF u = t THEN c ELSE call[u]
  BY <1>2 DEF TypeOK
<1>5. OwnersAreKnown'
  BY <1>2, NilIsNothing DEF OwnersAreKnown, TypeOK
<1>6. /\ OneTenant' /\ EntriesHaveTenants' /\ OwnedIsLive'
      /\ CountIsExact' /\ DyingEntries' /\ PendingIsZeroing'
  BY <1>2 DEF OneTenant, EntriesHaveTenants, OwnedIsLive, CountIsExact,
              DyingEntries, PendingIsZeroing, HasTenant, RefsTo
<1>7. StripesExclude'
  BY <1>2, <1>3, Locking
<1>8. WeakIsListed'
  <2>1. \A q \in Slot : BeingStored(q)' <=> BeingStored(q)
    BY <1>2, <1>3, <1>4 DEF BeingStored
  <2> QED BY <1>2, <2>1 DEF WeakIsListed
<1>9. CallsAreBacked'
  <2>1. strong[r] = Nil
    BY <1>2 DEF OwnersAreKnown
  <2>2. \A q \in Ref : q # r => holder'[q] = holder[q]
    BY <1>2 DEF TypeOK
  <2>3. holder'[r] = t
    BY <1>2 DEF TypeOK
  <2> QED BY <1>2, <1>3, <1>4, <2>1, <2>2, <2>3, NilIsNothing DEF CallsAreBacked
<1> QED BY <1>1, <1>5, <1>6, <1>7, <1>8, <1>9

LEMMA DestroyWeakStep ==
    ASSUME IInv, NEW t \in Thread, NEW s \in Slot, DestroyWeak(t, s)
    PROVE  IInv'
<1> USE DEF IInv
<1>1. TypeOK'
  BY TypeStep DEF Next
<1>2. /\ table' = Unlisted(slot[s], s) /\ slot' = [slot EXCEPT ![s] = Nil]
      /\ inited' = inited \ {s} /\ LockFree(s)
      /\ UNCHANGED <<strong, holder, stage, pending, running, below, call>>
  BY DEF DestroyWeak, refVars, deadVars
<1>3. /\ OwnersAreKnown' /\ OneTenant' /\ EntriesHaveTenants' /\ OwnedIsLive'
      /\ CountIsExact' /\ DyingEntries' /\ PendingIsZeroing'
  BY <1>2, StrikingKeeps
<1>4. WeakIsListed'
  <2>1. SUFFICES ASSUME NEW q \in Slot, slot'[q] # Nil, ~BeingStored(q)
                 PROVE  \/ /\ stage[slot'[q]] = "live"
                           /\ q \in WeakOf(table'[AddrOf[slot'[q]]])
                        \/ stage[slot'[q]] = "zeroing" /\ q \in pending[slot'[q]]
    BY <1>2 DEF WeakIsListed, BeingStored
  <2>2. q # s /\ slot'[q] = slot[q]
    BY <1>2, <2>1 DEF TypeOK
  <2>3. /\ slot[q] \in Obj
        /\ \/ stage[slot[q]] = "live" /\ q \in WeakOf(table[AddrOf[slot[q]]])
           \/ stage[slot[q]] = "zeroing" /\ q \in pending[slot[q]]
    BY <2>1, <2>2 DEF WeakIsListed, TypeOK
  <2> QED BY <1>2, <2>2, <2>3, StrikingLists
<1>5. StripesExclude'
  BY <1>2 DEF StripesExclude
<1>6. CallsAreBacked'
  <2>1. \A u \in Thread : call[u].op # "idle" => call[u].slot # s
    BY <1>2 DEF LockFree
  <2>2. \A u \in Thread : call[u].op # "idle" => slot'[call[u].slot] = slot[call[u].slot]
    BY <1>2, <2>1 DEF CallsAreBacked, TypeOK
  <2> QED BY <1>2, <2>1, <2>2 DEF CallsAreBacked
<1> QED BY <1>1, <1>3, <1>4, <1>5, <1>6

LEMMA StoreWeakEndStep ==
    ASSUME IInv, NEW t \in Thread, StoreWeakEnd(t)
    PROVE  IInv'
<1> USE DEF IInv
<1> DEFINE s == call[t].slot
           o == call[t].obj
<1>1. TypeOK'
  BY TypeStep DEF Next
<1>2. call[t].op = "store" /\ s \in inited /\ s \in Slot /\ o \in Obj \cup {Nil}
  BY DEF StoreWeakEnd, CallsAreBacked, TypeOK, Calls, Idle
<1>3. o # Nil => stage[o] = "live"
  BY <1>2 DEF CallsAreBacked, OwnedIsLive
<1>4. o # Nil => /\ ~EntryOf(o).deallocating /\ EntryOf(o) \in Entry
                 /\ EntryOf(o).rc = Cardinality(RefsTo(o))
                 /\ EntryOf(o).weak = WeakOf(table[AddrOf[o]])
                 /\ AddrOf[o] \in Addr
  BY <1>2, <1>3, LiveEntry, AddressOfObjects
<1>5. /\ slot' = [slot EXCEPT ![s] = o]
      /\ call' = [call EXCEPT ![t] = Idle]
      /\ o = Nil => table' = table
      /\ o # Nil => table' = [table EXCEPT ![AddrOf[o]] =
                                 [EntryOf(o) EXCEPT !.weak = @ \cup {s}]]
      /\ UNCHANGED <<strong, holder, stage, pending, running, below, inited>>
  BY <1>2, <1>4 DEF StoreWeakEnd, refVars, deadVars
<1>6. o # Nil => /\ table'[AddrOf[o]] # Vacant
                 /\ ~table'[AddrOf[o]].deallocating
                 /\ table'[AddrOf[o]].rc = Cardinality(RefsTo(o))
                 /\ table'[AddrOf[o]].weak = WeakOf(table[AddrOf[o]]) \cup {s}
                 /\ \A a \in Addr \ {AddrOf[o]} : table'[a] = table[a]
  BY <1>2, <1>4, <1>5, VacantIsNoEntry DEF TypeOK, Entry
<1>7. \A p \in Obj \ {o} : HasTenant(p) => table'[AddrOf[p]] = table[AddrOf[p]]
  BY <1>2, <1>3, <1>5, <1>6, AddressOfObjects DEF OneTenant, HasTenant
<1>8. \A u \in Thread : call'[u] = IF u = t THEN Idle ELSE call[u]
  BY <1>5 DEF TypeOK
<1>9. OwnersAreKnown' /\ OneTenant' /\ OwnedIsLive'
  BY <1>5 DEF OwnersAreKnown, OneTenant, OwnedIsLive, HasTenant
<1>10. EntriesHaveTenants'
  BY <1>2, <1>3, <1>5, <1>6 DEF EntriesHaveTenants, HasTenant
<1>11. CountIsExact'
  <2>1. \A p \in Obj : RefsTo(p)' = RefsTo(p)
    BY <1>5 DEF RefsTo
  <2>2. o # Nil => RefsTo(o) # {}
    BY <1>2, <1>3 DEF CountIsExact
  <2>3. \A p \in Obj \ {o} : stage[p] = "live" => HasTenant(p)
    BY DEF HasTenant
  <2> QED BY <1>5, <1>6, <1>7, <2>1, <2>2, <2>3, NilIsNothing DEF CountIsExact
<1>12. DyingEntries' /\ PendingIsZeroing'
  BY <1>2, <1>3, <1>5, <1>6, <1>7, NilIsNothing DEF DyingEntries, PendingIsZeroing, HasTenant
<1>13. WeakIsListed'
  <2>1. SUFFICES ASSUME NEW q \in Slot, slot'[q] # Nil, ~BeingStored(q)'
                 PROVE  \/ /\ stage[slot'[q]] = "live"
                           /\ q \in WeakOf(table'[AddrOf[slot'[q]]])
                        \/ stage[slot'[q]] = "zeroing" /\ q \in pending[slot'[q]]
    BY <1>5 DEF WeakIsListed
  <2>2. CASE q = s
    BY <1>2, <1>3, <1>5, <1>6, <2>1, <2>2 DEF TypeOK, WeakOf
  <2>3. CASE q # s
    <3>1. slot'[q] = slot[q]
      BY <1>5, <2>3 DEF TypeOK
    <3>2. ~BeingStored(q)
      BY <1>8, <2>1, <2>3 DEF BeingStored
    <3>3. /\ slot[q] \in Obj
          /\ \/ stage[slot[q]] = "live" /\ q \in WeakOf(table[AddrOf[slot[q]]])
             \/ stage[slot[q]] = "zeroing" /\ q \in pending[slot[q]]
      BY <2>1, <3>1, <3>2 DEF WeakIsListed, TypeOK
    <3>4. CASE slot[q] = o
      BY <1>3, <1>6, <3>1, <3>3, <3>4, NilIsNothing DEF WeakOf
    <3>5. CASE slot[q] # o
      BY <1>7, <3>1, <3>3, <3>5 DEF HasTenant
    <3> QED BY <3>4, <3>5
  <2> QED BY <2>2, <2>3
<1>14. StripesExclude'
  BY <1>8 DEF StripesExclude, Idle
<1>15. CallsAreBacked'
  <2>1. \A u \in Thread \ {t} : call[u].op # "idle" => call[u].slot \in Slot /\ call[u].slot # s
    BY <1>2, Exclusive DEF CallsAreBacked, TypeOK
  <2>2. \A u \in Thread \ {t} : call[u].op # "idle" => slot'[call[u].slot] = slot[call[u].slot]
    BY <1>2, <1>5, <2>1 DEF TypeOK
  <2> QED BY <1>5, <1>8, <2>2 DEF CallsAreBacked, Idle
<1> QED BY <1>1, <1>9, <1>10, <1>11, <1>12, <1>13, <1>14, <1>15

LEMMA LoadWeakEndStep ==
    ASSUME IInv, NEW t \in Thread, LoadWeakEnd(t)
    PROVE  IInv'
<1> USE DEF IInv
<1> DEFINE s == call[t].slot
           o == call[t].obj
           r == call[t].ref
<1>1. TypeOK'
  BY TypeStep DEF Next
<1>2. /\ call[t].op = "load" /\ s \in inited /\ s \in Slot /\ o = slot[s]
      /\ o \in Obj \cup {Nil}
      /\ r \in Ref /\ strong[r] = Nil /\ holder[r] = t
  BY DEF LoadWeakEnd, CallsAreBacked, TypeOK
<1>3. ~BeingStored(s)
  BY <1>2, Exclusive DEF BeingStored
<1>4. /\ call' = [call EXCEPT ![t] = Idle]
      /\ UNCHANGED <<stage, pending, running, below, slot, inited>>
  BY DEF LoadWeakEnd, deadVars
<1>5. \A u \in Thread : call'[u] = IF u = t THEN Idle ELSE call[u]
  BY <1>4 DEF TypeOK
<1>6. StripesExclude' /\ OneTenant'
  BY <1>4, <1>5 DEF StripesExclude, OneTenant, HasTenant, Idle
<1>7. CallsAreBacked'
  <2>1. \A q \in Ref : q # r => strong'[q] = strong[q] /\ holder'[q] = holder[q]
    BY <1>2 DEF LoadWeakEnd, TypeOK
  <2>2. \A u \in Thread \ {t} : call'[u] = call[u]
    BY <1>5
  <2>3. call'[t].op = "idle"
    BY <1>5 DEF Idle
  <2> QED BY <1>2, <1>4, <2>1, <2>2, <2>3, NilIsNothing DEF CallsAreBacked
<1>8. CASE o = Nil \/ EntryOf(o).deallocating
  <2>1. /\ table' = table /\ strong' = strong /\ holder' = [holder EXCEPT ![r] = Nil]
    <3>1. strong' = strong /\ holder' = [holder EXCEPT ![r] = Nil]
      BY <1>8 DEF LoadWeakEnd
    <3>2. CASE o = Nil
      BY <3>2 DEF LoadWeakEnd
    <3>3. CASE o # Nil
      <4>1. EntryOf(o) = table[AddrOf[o]] /\ AddrOf[o] \in Addr
        BY <1>2, <1>8, <3>3, AddressOfObjects DEF EntryOf, Fresh
      <4>2. table' = [table EXCEPT ![AddrOf[o]] = EntryOf(o)]
        BY <1>8, <3>3 DEF LoadWeakEnd, Retained
      <4> QED BY <3>1, <4>1, <4>2 DEF TypeOK
    <3> QED BY <3>1, <3>2, <3>3
  <2>2. OwnersAreKnown'
    BY <1>2, <2>1 DEF OwnersAreKnown, TypeOK
  <2>3. /\ EntriesHaveTenants' /\ OwnedIsLive' /\ CountIsExact' /\ DyingEntries'
        /\ PendingIsZeroing'
    BY <1>4, <2>1 DEF EntriesHaveTenants, OwnedIsLive, CountIsExact, DyingEntries,
                      PendingIsZeroing, HasTenant, RefsTo
  <2>4. WeakIsListed'
    <3>1. \A q \in Slot : BeingStored(q)' <=> BeingStored(q)
      BY <1>2, <1>5 DEF BeingStored, Idle
    <3> QED BY <1>4, <2>1, <3>1 DEF WeakIsListed
  <2> QED BY <1>1, <1>6, <1>7, <2>2, <2>3, <2>4
<1>9. CASE o # Nil /\ ~EntryOf(o).deallocating
  <2>1. PICK x \in Obj : x = o /\ AddrOf[x] \in Addr
    BY <1>2, <1>9, AddressOfObjects
  <2>2. stage[x] = "live"
    <3>1. ASSUME stage[x] = "zeroing", s \in pending[x]
          PROVE  FALSE
      BY <2>1, <3>1, <1>9 DEF PendingIsZeroing, DyingEntries, HasTenant, EntryOf
    <3> QED BY <1>2, <1>3, <1>9, <2>1, <3>1 DEF WeakIsListed
  <2>3. /\ strong' = [strong EXCEPT ![r] = x] /\ holder' = holder
        /\ table' = [table EXCEPT ![AddrOf[x]] = [EntryOf(x) EXCEPT !.rc = @ + 1]]
    BY <1>9, <2>1 DEF LoadWeakEnd, Retained
  <2>4. /\ EntryOf(x).rc = Cardinality(RefsTo(x))
        /\ EntryOf(x).weak = WeakOf(table[AddrOf[x]])
        /\ EntryOf(x) \in Entry
    BY <2>1, <2>2, LiveEntry
  <2>5. /\ Cardinality(RefsTo(x)') = Cardinality(RefsTo(x)) + 1 /\ RefsTo(x)' # {}
        /\ \A p \in Obj \ {x} : RefsTo(p)' = RefsTo(p)
    BY <1>2, <2>1, <2>3, Gain
  <2>6. /\ table'[AddrOf[x]] # Vacant
        /\ ~table'[AddrOf[x]].deallocating
        /\ table'[AddrOf[x]].rc = Cardinality(RefsTo(x)')
        /\ table'[AddrOf[x]].weak = WeakOf(table[AddrOf[x]])
        /\ \A a \in Addr \ {AddrOf[x]} : table'[a] = table[a]
    BY <1>9, <2>1, <2>3, <2>4, <2>5, VacantIsNoEntry DEF TypeOK, Entry
  <2>7. \A p \in Obj \ {x} : HasTenant(p) => table'[AddrOf[p]] = table[AddrOf[p]]
    BY <2>1, <2>2, <2>6, AddressOfObjects DEF OneTenant, HasTenant
  <2>8. OwnersAreKnown' /\ OwnedIsLive'
    BY <1>2, <1>4, <2>2, <2>3, NilIsNothing DEF OwnersAreKnown, OwnedIsLive, TypeOK
  <2>9. EntriesHaveTenants'
    BY <1>4, <2>1, <2>2, <2>6 DEF EntriesHaveTenants, HasTenant
  <2>10. CountIsExact'
    BY <1>4, <2>5, <2>6, <2>7 DEF CountIsExact, HasTenant
  <2>11. DyingEntries' /\ PendingIsZeroing'
    BY <1>4, <2>2, <2>6, <2>7 DEF DyingEntries, PendingIsZeroing, HasTenant
  <2>12. WeakIsListed'
    <3>1. \A p \in Obj : stage[p] = "live" => WeakOf(table'[AddrOf[p]]) = WeakOf(table[AddrOf[p]])
      BY <2>6, <2>7 DEF HasTenant, WeakOf
    <3>2. \A q \in Slot : BeingStored(q)' <=> BeingStored(q)
      BY <1>2, <1>5 DEF BeingStored, Idle
    <3> QED BY <1>4, <3>1, <3>2 DEF WeakIsListed, TypeOK
  <2> QED BY <1>1, <1>6, <1>7, <2>8, <2>9, <2>10, <2>11, <2>12
<1> QED BY <1>8, <1>9

--------------------------------------------------------------------------------
(* The theorems.                                                              *)

\* Callers that keep the rules keep the invariant.
LEMMA InvariantStep == RulesKept /\ IInv /\ [Next]_vars => IInv'
<1> SUFFICES ASSUME RulesKept, IInv, [Next]_vars PROVE IInv'
  OBVIOUS
<1>1. CASE UNCHANGED vars
  <2>1. \A o \in Obj : RefsTo(o)' = RefsTo(o)
    BY <1>1 DEF vars, RefsTo
  <2>2. CountIsExact'
    BY <1>1, <2>1 DEF vars, IInv, CountIsExact
  <2>3. TypeOK'
    BY TypeStep DEF IInv
  <2> QED BY <1>1, <2>2, <2>3 DEF vars, IInv, OwnersAreKnown, OneTenant, EntriesHaveTenants,
          OwnedIsLive, DyingEntries, WeakIsListed, PendingIsZeroing, StripesExclude,
          CallsAreBacked, BeingStored, HasTenant
<1>2. CASE Next
  BY <1>2, AllocStep, HandoffStep, RetainStep, ReleaseStep, ZeroSlotStep, StageStep,
     RemoveEntryStep, StoreWeakBeginStep, StoreWeakEndStep, InitWeakStep, LoadWeakBeginStep,
     LoadWeakEndStep, DestroyWeakStep DEF Next
<1> QED BY <1>1, <1>2

LEMMA InvariantInit == Init => IInv
<1> SUFFICES ASSUME Init PROVE IInv
  OBVIOUS
<1>1. TypeOK
  BY DEF Init, TypeOK, Stages, Idle, Calls
<1> QED BY <1>1, NilIsNothing DEF Init, IInv, OwnersAreKnown, OneTenant, EntriesHaveTenants,
        OwnedIsLive, CountIsExact, DyingEntries, WeakIsListed, PendingIsZeroing,
        StripesExclude, CallsAreBacked, HasTenant, Idle

\* The inductive invariant holds in every reachable state.
THEOREM Invariance == RulesKept => (Spec => []IInv)
<1> SUFFICES ASSUME RulesKept PROVE Spec => []IInv
  OBVIOUS
<1>1. IInv /\ [Next]_vars => IInv'
  BY InvariantStep
<1> QED BY <1>1, InvariantInit, PTL DEF Spec

\* No interleaving of retains, releases and weak loads begins to deallocate an
\* object somebody owns a reference to, or hands out one that is dying.
THEOREM OwnedObjectsLive == RulesKept => (Spec => []OwnedIsLive)
<1>1. IInv => OwnedIsLive
  BY DEF IInv
<1> QED BY <1>1, Invariance, PTL

\* The side table counts the references to every live object exactly.
THEOREM CountsAreExact == RulesKept => (Spec => []CountIsExact)
<1>1. IInv => CountIsExact
  BY DEF IInv
<1> QED BY <1>1, Invariance, PTL

\* No weak slot is ever left naming an object that will not zero it.
THEOREM WeakNeverDangles == RulesKept => (Spec => []WeakIsListed)
<1>1. IInv => WeakIsListed
  BY DEF IInv
<1> QED BY <1>1, Invariance, PTL

\* The stripe lock makes reading a weak slot and retaining what it names atomic
\* against the deallocation of that object.
THEOREM LoadersAreSafe == RulesKept => (Spec => []LoaderIsSafe)
<1>1. IInv => LoaderIsSafe
  <2> SUFFICES ASSUME IInv, NEW t \in Thread, call[t].op = "load", call[t].obj # Nil
               PROVE  stage[call[t].obj] \in {"live", "zeroing"}
    BY DEF LoaderIsSafe
  <2>1. call[t].slot \in Slot /\ call[t].obj = slot[call[t].slot]
    BY DEF IInv, CallsAreBacked, TypeOK
  <2>2. ~BeingStored(call[t].slot)
    BY <2>1, Exclusive DEF BeingStored
  <2> QED BY <2>1, <2>2 DEF IInv, WeakIsListed
<1> QED BY <1>1, Invariance, PTL
================================================================================
