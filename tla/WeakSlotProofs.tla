----------------------------- MODULE WeakSlotProofs ----------------------------
(* The location lists are exact where programs keep one more rule: no slot is *)
(* stored to while a deallocation has still to zero it, which is what         *)
(* ~RacyStores says.  SideTableClobbered shows that the rule is needed.  Slots *)
(* may be destroyed at any time.  Two facts about single steps, which need no *)
(* such rule, follow, and the refinement comes last.                          *)
EXTENDS SideTableProofs

\* A slot that is not in use names nothing (objc_initWeak, objc_destroyWeak).
UnusedIsNil == \A s \in Slot \ inited : slot[s] = Nil

\* Steps that list nothing, store nothing and bring nothing to life.
LEMMA ListsShrink ==
    ASSUME ListedIsWeak,
           \A o \in Obj :
               /\ pending'[o] \subseteq pending[o]
               /\ stage'[o] = "live" =>
                    /\ stage[o] = "live"
                    /\ WeakOf(table'[AddrOf[o]]) \subseteq WeakOf(table[AddrOf[o]]),
           slot' = slot, inited' = inited,
           \A s \in Slot : BeingStored(s)' => BeingStored(s)
    PROVE  ListedIsWeak'
BY DEF ListedIsWeak

LEMMA SameCalls == call' = call => \A s \in Slot : BeingStored(s)' <=> BeingStored(s)
BY DEF BeingStored

LEMMA AllocLists ==
    ASSUME IInv, RulesKept, ListedIsWeak, NEW t \in Thread, NEW o \in Obj, NEW r \in Ref,
           Alloc(t, o, r)
    PROVE  ListedIsWeak'
<1>1. /\ stage' = [stage EXCEPT ![o] = "live"]
      /\ UNCHANGED <<table, slot, inited, call, pending>>
  BY DEF Alloc, weakVars
<1>2. \A p \in Obj : AddrOf[p] = AddrOf[o] => ~HasTenant(p)
  BY DEF Alloc, RulesKept, InMemory, HasTenant
<1>3. AddrOf[o] \in Addr /\ table[AddrOf[o]] = Vacant
  BY <1>2, AddressOfObjects DEF IInv, EntriesHaveTenants
<1>4. WeakOf(table[AddrOf[o]]) = {}
  BY <1>3 DEF WeakOf
<1>5. \A p \in Obj \ {o} : stage'[p] = stage[p]
  BY <1>1 DEF IInv, TypeOK
<1>6. \A s \in Slot : BeingStored(s)' <=> BeingStored(s)
  BY <1>1, SameCalls
<1> QED BY <1>1, <1>4, <1>5, <1>6 DEF ListedIsWeak

\* objc_retain changes no list.
LEMMA RetainedLists ==
    ASSUME TypeOK, NEW o \in Obj, table' = [table EXCEPT ![AddrOf[o]] = Retained(EntryOf(o))]
    PROVE  \A a \in Addr : WeakOf(table'[a]) = WeakOf(table[a])
<1>1. AddrOf[o] \in Addr /\ EntryOf(o) \in Entry /\ Retained(EntryOf(o)) \in Entry
  BY TableTypes
<1>2. Retained(EntryOf(o)).weak = EntryOf(o).weak
  BY <1>1 DEF Retained, Entry
<1>3. EntryOf(o).weak = WeakOf(table[AddrOf[o]])
  BY DEF EntryOf, WeakOf, Fresh
<1>4. WeakOf(Retained(EntryOf(o))) = Retained(EntryOf(o)).weak
  BY <1>1, VacantIsNoEntry DEF WeakOf
<1> QED BY <1>1, <1>2, <1>3, <1>4 DEF TypeOK

LEMMA RetainLists ==
    ASSUME IInv, ListedIsWeak, NEW t \in Thread, NEW o \in Obj, NEW r \in Ref, Retain(t, o, r)
    PROVE  ListedIsWeak'
<1>1. /\ UNCHANGED <<stage, slot, inited, call, pending>>
      /\ table' = [table EXCEPT ![AddrOf[o]] = Retained(EntryOf(o))]
  BY DEF Retain, weakVars, deadVars
<1>2. \A a \in Addr : WeakOf(table'[a]) = WeakOf(table[a])
  BY <1>1, RetainedLists DEF IInv
<1> QED BY <1>1, <1>2, SameCalls, ListsShrink, AddressOfObjects

LEMMA ReleaseLists ==
    ASSUME IInv, ListedIsWeak, NEW t \in Thread, NEW r \in Ref, Release(t, r)
    PROVE  ListedIsWeak'
<1>1. PICK o \in Obj : o = strong[r] /\ AddrOf[o] \in Addr /\ stage[o] = "live"
  BY AddressOfObjects DEF Release, IInv, TypeOK, OwnedIsLive
<1> DEFINE e == table[AddrOf[o]]
<1>2. /\ UNCHANGED <<slot, inited, call>>
      /\ table' = [table EXCEPT ![AddrOf[o]] = Released(e)]
      /\ IF LastRelease(e) THEN EnterDealloc(t, o, WeakOf(e)) ELSE UNCHANGED deadVars
  BY <1>1 DEF Release, weakVars
<1>3. e \in Entry \cup {Vacant}
  BY <1>1 DEF IInv, TypeOK
<1>4. WeakOf(Released(e)) \subseteq WeakOf(e)
  BY <1>3, EntryTypes, VacantIsNoEntry DEF WeakOf, Released, Entry
<1>5. \A a \in Addr : WeakOf(table'[a]) \subseteq WeakOf(table[a])
  BY <1>1, <1>2, <1>4 DEF IInv, TypeOK
<1>6. \A s \in Slot : BeingStored(s)' <=> BeingStored(s)
  BY <1>2, SameCalls
<1>7. CASE LastRelease(e)
  <2>1. /\ stage' = [stage EXCEPT ![o] = "zeroing"]
        /\ pending' = [pending EXCEPT ![o] = WeakOf(e)]
    BY <1>2, <1>7 DEF EnterDealloc
  <2>2. \A p \in Obj : /\ stage'[p] = "live" => stage[p] = "live" /\ AddrOf[p] \in Addr
                       /\ p # o => pending'[p] = pending[p]
                       /\ p = o => pending'[p] = WeakOf(e)
    BY <2>1, AddressOfObjects DEF IInv, TypeOK
  <2> QED BY <1>1, <1>2, <1>5, <1>6, <2>2 DEF ListedIsWeak
<1>8. CASE ~LastRelease(e)
  <2>1. UNCHANGED <<stage, pending>>
    BY <1>2, <1>8 DEF deadVars
  <2> QED BY <1>2, <1>5, <1>6, <2>1, ListsShrink, AddressOfObjects
<1> QED BY <1>7, <1>8

LEMMA ZeroSlotLists ==
    ASSUME IInv, ListedIsWeak, UnusedIsNil, NEW t \in Thread, NEW s \in Slot, ZeroSlot(t, s)
    PROVE  ListedIsWeak'
<1>1. PICK o \in Obj : o = running[t] /\ stage[o] = "zeroing" /\ s \in pending[o]
  BY DEF ZeroSlot, IInv, TypeOK
<1>2. /\ UNCHANGED <<stage, table, inited, call>>
      /\ slot' = [slot EXCEPT ![s] = Nil]
      /\ pending' = [pending EXCEPT ![o] = @ \ {s}]
  BY <1>1 DEF ZeroSlot
<1>3. \A q \in Slot : BeingStored(q)' <=> BeingStored(q)
  BY <1>2, SameCalls
<1>4. \A p \in Obj : /\ pending'[p] \subseteq pending[p]
                     /\ p = o => s \notin pending'[p]
  BY <1>2 DEF IInv, TypeOK
<1>5. CASE s \in inited
  <2>1. slot[s] = o
    BY <1>1, <1>5 DEF ListedIsWeak
  <2>2. \A p \in Obj : /\ s \notin pending'[p]
                       /\ stage[p] = "live" => s \notin WeakOf(table[AddrOf[p]])
    BY <1>1, <1>4, <1>5, <2>1 DEF ListedIsWeak
  <2>3. \A q \in Slot \ {s} : slot'[q] = slot[q]
    BY <1>2 DEF IInv, TypeOK
  <2> QED BY <1>2, <1>3, <1>4, <2>2, <2>3 DEF ListedIsWeak
<1>6. CASE s \notin inited
  <2>1. slot' = slot
    BY <1>2, <1>6 DEF UnusedIsNil, IInv, TypeOK
  <2> QED BY <1>2, <1>3, <1>4, <2>1, ListsShrink
<1> QED BY <1>5, <1>6

LEMMA DeallocLists ==
    ASSUME IInv, ListedIsWeak, NEW t \in Thread, StartBody(t) \/ FinishBody(t) \/ RemoveEntry(t)
    PROVE  ListedIsWeak'
<1>1. PICK o \in Obj : o = running[t]
  BY DEF StartBody, FinishBody, RemoveEntry, IInv, TypeOK
<1>2. /\ UNCHANGED <<slot, inited, call, pending>>
      /\ \A p \in Obj : stage'[p] = "live" => stage[p] = "live"
      /\ \A a \in Addr : WeakOf(table'[a]) \subseteq WeakOf(table[a])
  BY <1>1 DEF StartBody, FinishBody, RemoveEntry, weakVars, WeakOf, IInv, TypeOK
<1> QED BY <1>2, SameCalls, ListsShrink, AddressOfObjects

\* Striking a slot from the list of what it names leaves it in no list.
LEMMA StruckLists ==
    ASSUME IInv, ListedIsWeak, NEW s \in Slot, table' = Unlisted(slot[s], s), stage' = stage
    PROVE  \A o \in Obj : stage'[o] = "live" =>
               WeakOf(table'[AddrOf[o]]) \subseteq WeakOf(table[AddrOf[o]]) \ {s}
<1>1. slot[s] \in Obj \cup {Nil} /\ TypeOK
  BY DEF IInv, TypeOK
<1> SUFFICES ASSUME NEW o \in Obj
             PROVE  stage[o] = "live" =>
                       WeakOf(table'[AddrOf[o]]) \subseteq WeakOf(table[AddrOf[o]]) \ {s}
  OBVIOUS
<1>2. AddrOf[o] \in Addr
  BY AddressOfObjects
<1>3. /\ table'[AddrOf[o]] = Vacant <=> table[AddrOf[o]] = Vacant
      /\ table[AddrOf[o]] # Vacant => table'[AddrOf[o]].weak \subseteq table[AddrOf[o]].weak
  BY <1>1, <1>2, Striking
<1>4. WeakOf(table'[AddrOf[o]]) \subseteq WeakOf(table[AddrOf[o]])
  BY <1>3 DEF WeakOf
<1>5. CASE slot[s] = o
  <2>1. table'[AddrOf[o]] = Without(table[AddrOf[o]], s)
    BY <1>1, <1>2, <1>5, NilIsNothing DEF Unlisted, TypeOK
  <2>2. table[AddrOf[o]] \in Entry \cup {Vacant}
    BY <1>1, <1>2 DEF TypeOK
  <2>3. s \notin WeakOf(Without(table[AddrOf[o]], s))
    BY <2>2, EntryTypes, VacantIsNoEntry DEF Without, WeakOf, Entry
  <2> QED BY <1>4, <2>1, <2>3
<1>6. CASE slot[s] # o
  BY <1>4, <1>6 DEF ListedIsWeak
<1> QED BY <1>5, <1>6

LEMMA StoreWeakBeginLists ==
    ASSUME IInv, ~RacyStores, ListedIsWeak, NEW t \in Thread, NEW s \in Slot,
           NEW o \in Obj \cup {Nil}, StoreWeakBegin(t, s, o)
    PROVE  ListedIsWeak'
<1>1. /\ UNCHANGED <<stage, slot, inited, pending>> /\ ~AwaitsZeroing(s)
      /\ table' = Unlisted(slot[s], s)
      /\ call' = [call EXCEPT ![t] = [Idle EXCEPT !.op = "store", !.slot = s, !.obj = o]]
  BY DEF StoreWeakBegin, refVars, deadVars
<1>2. \A p \in Obj :
          /\ s \notin pending'[p]
          /\ stage'[p] = "live" =>
                WeakOf(table'[AddrOf[p]]) \subseteq WeakOf(table[AddrOf[p]]) \ {s}
  BY <1>1, StruckLists DEF AwaitsZeroing
<1>3. \A q \in Slot \ {s} : BeingStored(q)' => BeingStored(q)
  BY <1>1 DEF BeingStored, Idle, IInv, TypeOK
<1> QED BY <1>1, <1>2, <1>3 DEF ListedIsWeak

\* A deallocation may be about to zero what is destroyed.
LEMMA DestroyWeakLists ==
    ASSUME IInv, ListedIsWeak, NEW t \in Thread, NEW s \in Slot, DestroyWeak(t, s)
    PROVE  ListedIsWeak'
<1>1. /\ UNCHANGED <<stage, call, pending>>
      /\ inited' = inited \ {s}
      /\ table' = Unlisted(slot[s], s)
      /\ slot' = [slot EXCEPT ![s] = Nil]
  BY DEF DestroyWeak, refVars, deadVars
<1>2. \A p \in Obj : stage'[p] = "live" =>
          WeakOf(table'[AddrOf[p]]) \subseteq WeakOf(table[AddrOf[p]]) \ {s}
  BY <1>1, StruckLists
<1>3. \A q \in Slot : BeingStored(q)' <=> BeingStored(q)
  BY <1>1, SameCalls
<1>4. \A q \in Slot \ {s} : slot'[q] = slot[q]
  BY <1>1 DEF IInv, TypeOK
<1> QED BY <1>1, <1>2, <1>3, <1>4 DEF ListedIsWeak

\* A slot that is not in use names nothing, so nothing lists it.
LEMMA InitWeakLists ==
    ASSUME IInv, ~RacyStores, ListedIsWeak, UnusedIsNil, NEW t \in Thread, NEW s \in Slot,
           NEW o \in Obj \cup {Nil}, InitWeak(t, s, o)
    PROVE  ListedIsWeak'
<1>1. /\ UNCHANGED <<stage, table, pending>> /\ s \notin inited
      /\ inited' = inited \cup {s} /\ ~AwaitsZeroing(s)
      /\ slot' = [slot EXCEPT ![s] = Nil]
      /\ \/ call' = call
         \/ call' = [call EXCEPT ![t] = [Idle EXCEPT !.op = "store", !.slot = s, !.obj = o]]
  BY DEF InitWeak, refVars, deadVars
<1>2. slot[s] = Nil /\ slot' = slot
  BY <1>1 DEF UnusedIsNil, IInv, TypeOK
<1>3. \A p \in Obj : s \notin pending[p] /\ (stage[p] = "live" => s \notin WeakOf(table[AddrOf[p]]))
  BY <1>1, <1>2, NilIsNothing DEF ListedIsWeak, AwaitsZeroing
<1>4. \A q \in Slot \ {s} : BeingStored(q)' => BeingStored(q)
  BY <1>1 DEF BeingStored, Idle, IInv, TypeOK
<1> QED BY <1>1, <1>2, <1>3, <1>4 DEF ListedIsWeak

LEMMA LoadWeakLists ==
    ASSUME IInv, ListedIsWeak, NEW t \in Thread,
           (\E s \in Slot, r \in Ref : LoadWeakBegin(t, s, r)) \/ LoadWeakEnd(t)
    PROVE  ListedIsWeak'
<1>1. CASE \E s \in Slot, r \in Ref : LoadWeakBegin(t, s, r)
  <2>1. UNCHANGED <<stage, slot, inited, table, pending>>
    BY <1>1 DEF LoadWeakBegin, deadVars
  <2>2. PICK s \in Slot, r \in Ref : LoadWeakBegin(t, s, r)
    BY <1>1
  <2>3. call'[t].op = "load" /\ \A u \in Thread \ {t} : call'[u] = call[u]
    BY <2>2 DEF LoadWeakBegin, Idle, IInv, TypeOK
  <2>4. \A q \in Slot : BeingStored(q)' => BeingStored(q)
    BY <2>3 DEF BeingStored
  <2> QED BY <2>1, <2>4, ListsShrink
<1>2. CASE LoadWeakEnd(t)
  <2>1. UNCHANGED <<stage, slot, inited, pending>>
    BY <1>2 DEF LoadWeakEnd, deadVars
  <2>2. \A q \in Slot : BeingStored(q)' => BeingStored(q)
    BY <1>2 DEF LoadWeakEnd, BeingStored, Idle, IInv, TypeOK
  <2>3. \A a \in Addr : WeakOf(table'[a]) = WeakOf(table[a])
    <3>1. CASE call[t].obj = Nil
      BY <1>2, <3>1 DEF LoadWeakEnd
    <3>2. CASE call[t].obj # Nil
      <4>1. call[t].obj \in Obj
        BY <1>2, <3>2 DEF LoadWeakEnd, IInv, TypeOK, CallsAreBacked
      <4> QED BY <1>2, <3>2, <4>1, RetainedLists DEF LoadWeakEnd, IInv
    <3> QED BY <3>1, <3>2
  <2> QED BY <2>1, <2>2, <2>3, ListsShrink, AddressOfObjects
<1> QED BY <1>1, <1>2

\* The end of a store lists the slot with the object it now names, and no other.
LEMMA StoreWeakEndLists ==
    ASSUME IInv, ListedIsWeak, NEW t \in Thread, StoreWeakEnd(t)
    PROVE  ListedIsWeak'
<1>0. PICK s \in Slot, o \in Obj \cup {Nil} : s = call[t].slot /\ o = call[t].obj
  BY DEF StoreWeakEnd, IInv, TypeOK, Calls, Idle
<1>1. /\ UNCHANGED <<stage, inited, pending>> /\ call' = [call EXCEPT ![t] = Idle]
      /\ call[t].op = "store" /\ BeingStored(s) /\ s \in inited
  BY <1>0 DEF StoreWeakEnd, deadVars, BeingStored, IInv, CallsAreBacked
<1>2. \A q \in Slot : BeingStored(q)' => BeingStored(q)
  BY <1>1 DEF BeingStored, Idle, IInv, TypeOK
<1>3. ~BeingStored(s)'
  <2>1. \A u \in Thread \ {t} : call'[u] = call[u]
    BY <1>1 DEF IInv, TypeOK
  <2>2. call'[t].op = "idle"
    BY <1>1 DEF IInv, TypeOK, Idle
  <2>3. ASSUME NEW u \in Thread \ {t}, call[u].op = "store", call[u].slot = s
        PROVE  FALSE
    <3>1. u = t
      BY <1>0, <1>1, <2>3, Exclusive
    <3> QED BY <2>3, <3>1
  <2> QED BY <2>1, <2>2, <2>3 DEF BeingStored
<1>4. \A p \in Obj : s \notin pending[p] /\ (stage[p] = "live" => s \notin WeakOf(table[AddrOf[p]]))
  BY <1>1 DEF ListedIsWeak
<1>5. \A q \in Slot \ {s} : slot'[q] = slot[q]
  BY <1>0 DEF StoreWeakEnd, IInv, TypeOK
<1>6. CASE o = Nil \/ EntryOf(o).deallocating
  <2>1. table' = table
    BY <1>0, <1>6 DEF StoreWeakEnd
  <2> QED BY <1>1, <1>2, <1>4, <1>5, <2>1 DEF ListedIsWeak
<1>7. CASE o # Nil /\ ~EntryOf(o).deallocating
  <2>1. o \in Obj /\ stage[o] = "live" /\ AddrOf[o] \in Addr
    BY <1>0, <1>1, <1>7, AddressOfObjects DEF IInv, CallsAreBacked, OwnedIsLive
  <2>2. /\ table' = [table EXCEPT ![AddrOf[o]] = [EntryOf(o) EXCEPT !.weak = @ \cup {s}]]
        /\ slot'[s] = o
    BY <1>0, <1>1, <1>7 DEF StoreWeakEnd, IInv, TypeOK
  <2>3. EntryOf(o) \in Entry /\ EntryOf(o).weak = WeakOf(table[AddrOf[o]])
    BY <2>1, LiveEntry
  <2>4. [EntryOf(o) EXCEPT !.weak = @ \cup {s}] \in Entry
    BY <1>1, <2>3, EntryTypes
  <2>5. WeakOf(table'[AddrOf[o]]) = WeakOf(table[AddrOf[o]]) \cup {s}
    BY <2>1, <2>2, <2>3, <2>4, VacantIsNoEntry DEF WeakOf, Entry, IInv, TypeOK
  <2>6. \A p \in Obj \ {o} : stage[p] = "live" => table'[AddrOf[p]] = table[AddrOf[p]]
    BY <2>1, <2>2, AddressOfObjects DEF IInv, TypeOK, OneTenant, HasTenant
  <2>7. ASSUME NEW p \in Obj, NEW q \in Slot, q # s,
               \/ stage'[p] = "live" /\ q \in WeakOf(table'[AddrOf[p]])
               \/ q \in pending'[p] \cap inited'
        PROVE  slot'[q] = p /\ ~BeingStored(q)'
    <3>1. \/ stage[p] = "live" /\ q \in WeakOf(table[AddrOf[p]])
          \/ q \in pending[p] \cap inited
      BY <1>1, <2>5, <2>6, <2>7
    <3> QED BY <1>2, <1>5, <2>7, <3>1 DEF ListedIsWeak
  <2>8. ASSUME NEW p \in Obj,
               \/ stage'[p] = "live" /\ s \in WeakOf(table'[AddrOf[p]])
               \/ s \in pending'[p] \cap inited'
        PROVE  slot'[s] = p /\ ~BeingStored(s)'
    BY <1>1, <1>3, <1>4, <2>2, <2>6, <2>8
  <2> QED BY <2>7, <2>8 DEF ListedIsWeak
<1> QED BY <1>6, <1>7

LEMMA UnusedStep == IInv /\ UnusedIsNil /\ [Next]_vars => UnusedIsNil'
<1> SUFFICES ASSUME IInv, UnusedIsNil, [Next]_vars PROVE UnusedIsNil'
  OBVIOUS
<1>1. CASE UNCHANGED vars
  BY <1>1 DEF vars, UnusedIsNil
<1>2. ASSUME NEW t \in Thread,
             \/ \E o \in Obj, r \in Ref : Alloc(t, o, r) \/ Retain(t, o, r)
             \/ \E r \in Ref, w \in Thread \cup Obj : Handoff(t, r, w)
             \/ \E r \in Ref : Release(t, r)
             \/ StartBody(t) \/ FinishBody(t) \/ RemoveEntry(t)
      PROVE  UnusedIsNil'
  <2>1. UNCHANGED <<slot, inited>>
    BY <1>2 DEF Alloc, Retain, Handoff, Release, StartBody, FinishBody, RemoveEntry, weakVars
  <2> QED BY <2>1 DEF UnusedIsNil
<1>3. ASSUME NEW t \in Thread, NEW s \in Slot, ZeroSlot(t, s) \/ DestroyWeak(t, s)
      PROVE  UnusedIsNil'
  BY <1>3 DEF ZeroSlot, DestroyWeak, UnusedIsNil, IInv, TypeOK
<1>4. ASSUME NEW t \in Thread, NEW s \in Slot, NEW o \in Obj \cup {Nil},
             InitWeak(t, s, o) \/ StoreWeakBegin(t, s, o)
      PROVE  UnusedIsNil'
  BY <1>4 DEF InitWeak, StoreWeakBegin, UnusedIsNil, IInv, TypeOK
<1>5. ASSUME NEW t \in Thread, (\E s \in Slot, r \in Ref : LoadWeakBegin(t, s, r)) \/ LoadWeakEnd(t)
      PROVE  UnusedIsNil'
  BY <1>5 DEF LoadWeakBegin, LoadWeakEnd, UnusedIsNil
<1>6. ASSUME NEW t \in Thread, StoreWeakEnd(t)
      PROVE  UnusedIsNil'
  <2>1. call[t].slot \in inited
    BY <1>6 DEF StoreWeakEnd, IInv, CallsAreBacked
  <2> QED BY <1>6, <2>1 DEF StoreWeakEnd, UnusedIsNil, IInv, TypeOK
<1> QED BY <1>1, <1>2, <1>3, <1>4, <1>5, <1>6 DEF Next

LEMMA ListsStep == RulesKept /\ ~RacyStores /\ IInv /\ ListedIsWeak /\ UnusedIsNil /\ [Next]_vars
                       => ListedIsWeak'
<1> SUFFICES ASSUME RulesKept, ~RacyStores, IInv, ListedIsWeak, UnusedIsNil, [Next]_vars
             PROVE  ListedIsWeak'
  OBVIOUS
<1>1. CASE UNCHANGED vars
  BY <1>1, SameCalls DEF vars, ListedIsWeak
<1>2. ASSUME NEW t \in Thread, NEW r \in Ref, NEW w \in Thread \cup Obj, Handoff(t, r, w)
      PROVE  ListedIsWeak'
  BY <1>2, SameCalls DEF Handoff, weakVars, deadVars, ListedIsWeak
<1>3. CASE Next
  BY <1>2, <1>3, AllocLists, RetainLists, ReleaseLists, ZeroSlotLists, DeallocLists,
     StoreWeakBeginLists, StoreWeakEndLists, InitWeakLists, LoadWeakLists, DestroyWeakLists
     DEF Next
<1> QED BY <1>1, <1>3

\* The location lists are exact: what a live object lists, or a dying one has
\* still to zero, names that object (objc_storeWeak, objc_destroyWeak, do_dealloc).
THEOREM ListsAreExact == RulesKept /\ ~RacyStores => (Spec => [](ListedIsWeak /\ UnusedIsNil))
<1> SUFFICES ASSUME RulesKept, ~RacyStores PROVE Spec => [](ListedIsWeak /\ UnusedIsNil)
  OBVIOUS
<1>1. Init => ListedIsWeak /\ UnusedIsNil
  BY DEF Init, ListedIsWeak, UnusedIsNil
<1>2. IInv /\ ListedIsWeak /\ UnusedIsNil /\ [Next]_vars => ListedIsWeak' /\ UnusedIsNil'
  BY ListsStep, UnusedStep
<1>3. Spec => []IInv
  BY Invariance, PTL
<1> QED BY <1>1, <1>2, <1>3, PTL DEF Spec

\* A destroyed slot is in no list, destroyed when it may: no deallocation that
\* begins later writes to it (objc_destroyWeak).
THEOREM DestroyedStayUnlisted == RulesKept /\ ~RacyStores => (Spec => []DestroyedIsUnlisted)
<1>1. IInv /\ ListedIsWeak /\ UnusedIsNil => DestroyedIsUnlisted
  <2> SUFFICES ASSUME IInv, ListedIsWeak, UnusedIsNil,
                      NEW s \in Slot \ inited, NEW a \in Addr, s \in WeakOf(table[a])
               PROVE  FALSE
    BY DEF DestroyedIsUnlisted
  <2>1. slot[s] = Nil
    BY DEF UnusedIsNil
  <2>2. table[a] # Vacant /\ s \in table[a].weak
    BY DEF WeakOf
  <2>3. PICK o \in Obj : HasTenant(o) /\ AddrOf[o] = a
    BY <2>2 DEF IInv, EntriesHaveTenants
  <2>4. stage[o] = "live"
    BY <2>2, <2>3 DEF IInv, DyingEntries
  <2> QED BY <2>1, <2>3, <2>4, NilIsNothing DEF ListedIsWeak
<1>2. RulesKept /\ ~RacyStores => (Spec => []IInv)
  BY Invariance
<1> QED BY <1>1, <1>2, ListsAreExact, PTL

--------------------------------------------------------------------------------
(* Single steps.                                                              *)

LEMMA LoadOutcome ==
    ASSUME IInv, NEW t \in Thread, call[t].op = "load", call[t].obj # Nil, LoadWeakEnd(t)
    PROVE  strong'[call[t].ref] = Nil <=> stage[call[t].obj] # "live"
<1>1. PICK s \in Slot, o \in Obj, r \in Ref :
          s = call[t].slot /\ o = call[t].obj /\ r = call[t].ref
  BY DEF IInv, TypeOK, Calls, Idle, CallsAreBacked
<1>2. slot[s] = o /\ strong[r] = Nil /\ o # Nil /\ AddrOf[o] \in Addr
  BY <1>1, NilIsNothing, AddressOfObjects DEF IInv, CallsAreBacked
<1>3. ~BeingStored(s)
  BY <1>1, Exclusive DEF BeingStored
<1>4. CASE stage[o] = "live"
  <2>1. ~EntryOf(o).deallocating
    BY <1>4, LiveEntry
  <2> QED BY <1>1, <1>2, <1>4, <2>1 DEF LoadWeakEnd, IInv, TypeOK
<1>5. CASE stage[o] # "live"
  <2>1. stage[o] = "zeroing" /\ s \in pending[o]
    BY <1>2, <1>3, <1>5 DEF IInv, WeakIsListed
  <2>2. EntryOf(o).deallocating
    BY <2>1 DEF IInv, PendingIsZeroing, DyingEntries, HasTenant, EntryOf
  <2> QED BY <1>1, <1>2, <1>5, <2>2 DEF LoadWeakEnd
<1> QED BY <1>4, <1>5

LEMMA BirthStep ==
    ASSUME IInv, RulesKept, [Next]_vars, NEW o \in Obj, stage[o] = "unborn", stage'[o] = "live"
    PROVE  table'[AddrOf[o]] = Vacant
<1>1. PICK t \in Thread : \E p \in Obj, r \in Ref : Alloc(t, p, r)
  <2>1. ~(stage' = stage)
    OBVIOUS
  <2>2. ASSUME NEW p, NEW x, stage' = [stage EXCEPT ![p] = x], x # "live"
        PROVE  FALSE
    BY <2>2 DEF IInv, TypeOK
  <2>3. ASSUME NEW t \in Thread, NEW r \in Ref, Release(t, r)
        PROVE  FALSE
    BY <2>1, <2>2, <2>3 DEF Release, EnterDealloc, deadVars
  <2>4. ASSUME NEW t \in Thread, StartBody(t) \/ FinishBody(t) \/ RemoveEntry(t)
        PROVE  FALSE
    BY <2>2, <2>4 DEF StartBody, FinishBody, RemoveEntry
  <2>5. ASSUME NEW t \in Thread,
               \/ \E p \in Obj, r \in Ref : Retain(t, p, r)
               \/ \E r \in Ref, w \in Thread \cup Obj : Handoff(t, r, w)
               \/ \E s \in Slot : ZeroSlot(t, s) \/ DestroyWeak(t, s)
               \/ \E s \in Slot, p \in Obj \cup {Nil} : InitWeak(t, s, p) \/ StoreWeakBegin(t, s, p)
               \/ \E s \in Slot, r \in Ref : LoadWeakBegin(t, s, r)
               \/ StoreWeakEnd(t) \/ LoadWeakEnd(t)
        PROVE  FALSE
    BY <2>1, <2>5 DEF Retain, Handoff, ZeroSlot, DestroyWeak, InitWeak, StoreWeakBegin,
                      LoadWeakBegin, StoreWeakEnd, LoadWeakEnd, deadVars
  <2>6. Next
    BY <2>1 DEF vars
  <2> QED BY <2>3, <2>4, <2>5, <2>6 DEF Next
<1>2. PICK p \in Obj, r \in Ref : Alloc(t, p, r)
  BY <1>1
<1>3. p = o /\ table' = table
  BY <1>2 DEF Alloc, IInv, TypeOK
<1>4. \A q \in Obj : AddrOf[q] = AddrOf[o] => ~HasTenant(q)
  BY <1>2, <1>3 DEF Alloc, RulesKept, InMemory, HasTenant
<1> QED BY <1>3, <1>4, AddressOfObjects DEF IInv, EntriesHaveTenants

\* A weak load fails only on an object that has begun to die, and never hands
\* one out (objc_loadWeakRetained).
THEOREM LoadsFailOnlyDying == RulesKept => (Spec => LoadFailsOnlyDying)
<1> SUFFICES ASSUME RulesKept PROVE Spec => LoadFailsOnlyDying
  OBVIOUS
<1>1. IInv => [\A t \in Thread : call[t].op = "load" /\ call[t].obj # Nil /\ LoadWeakEnd(t)
                 => (strong'[call[t].ref] = Nil <=> stage[call[t].obj] # "live")]_vars
  BY LoadOutcome
<1>2. Spec => []IInv
  BY Invariance
<1> QED BY <1>1, <1>2, PTL DEF LoadFailsOnlyDying

\* No instance is born at an address that still has an entry (objc_release
\* removes the entry last).
THEOREM BirthsAreClean == RulesKept => (Spec => BornWithoutEntry)
<1> SUFFICES ASSUME RulesKept PROVE Spec => BornWithoutEntry
  OBVIOUS
<1>1. IInv /\ [Next]_vars => [\A o \in Obj : stage[o] = "unborn" /\ stage'[o] = "live"
                                 => table'[AddrOf[o]] = Vacant]_vars
  BY BirthStep
<1>2. Spec => []IInv
  BY Invariance
<1> QED BY <1>1, <1>2, PTL DEF Spec, BornWithoutEntry

--------------------------------------------------------------------------------
(* What the callers are promised.  The refinement mapping of SideTable shows  *)
(* a slot as None from the step in which its object loses its last owner, so  *)
(* the zeroing, -dealloc and the slots a store is about to overwrite must not *)
(* show through it.                                                           *)

\* A slot names an object that was born, be it long dead: a store that has only
\* begun leaves the old object in the slot (objc_storeWeak).
SlotsNameBorn == \A s \in Slot : slot[s] # Nil => stage[slot[s]] # "unborn"

\* No instance is born twice, and only what somebody owns is stored.
LEMMA SlotsNameBornStep == IInv /\ SlotsNameBorn /\ [Next]_vars => SlotsNameBorn'
<1> SUFFICES ASSUME IInv, SlotsNameBorn, [Next]_vars PROVE SlotsNameBorn'
  OBVIOUS
<1>1. ASSUME \A o \in Obj : stage[o] # "unborn" => stage'[o] # "unborn",
             \A s \in Slot : slot'[s] \in {slot[s], Nil}
      PROVE  SlotsNameBorn'
  BY <1>1 DEF SlotsNameBorn, IInv, TypeOK
<1>2. ASSUME NEW t \in Thread,
             \/ \E o \in Obj, r \in Ref : Alloc(t, o, r) \/ Retain(t, o, r)
             \/ \E r \in Ref, w \in Thread \cup Obj : Handoff(t, r, w)
             \/ StartBody(t) \/ FinishBody(t) \/ RemoveEntry(t)
      PROVE  SlotsNameBorn'
  BY <1>1, <1>2 DEF Alloc, Retain, Handoff, StartBody, FinishBody, RemoveEntry, weakVars,
                    deadVars, IInv, TypeOK
<1>3. ASSUME NEW t \in Thread, NEW r \in Ref, Release(t, r)
      PROVE  SlotsNameBorn'
  BY <1>1, <1>3 DEF Release, EnterDealloc, weakVars, deadVars, IInv, TypeOK
<1>4. ASSUME NEW t \in Thread, NEW s \in Slot,
             \/ ZeroSlot(t, s) \/ DestroyWeak(t, s)
             \/ \E o \in Obj \cup {Nil} : InitWeak(t, s, o) \/ StoreWeakBegin(t, s, o)
      PROVE  SlotsNameBorn'
  BY <1>1, <1>4 DEF ZeroSlot, DestroyWeak, InitWeak, StoreWeakBegin, deadVars, IInv, TypeOK
<1>5. ASSUME NEW t \in Thread, (\E s \in Slot, r \in Ref : LoadWeakBegin(t, s, r)) \/ LoadWeakEnd(t)
      PROVE  SlotsNameBorn'
  BY <1>1, <1>5 DEF LoadWeakBegin, LoadWeakEnd, deadVars
<1>6. ASSUME NEW t \in Thread, StoreWeakEnd(t)
      PROVE  SlotsNameBorn'
  <2>1. stage' = stage /\ \A s \in Slot : slot'[s] \in {slot[s], Nil, call[t].obj}
    BY <1>6 DEF StoreWeakEnd, deadVars, IInv, TypeOK
  <2>2. call[t].obj # Nil => stage[call[t].obj] = "live"
    BY <1>6 DEF StoreWeakEnd, IInv, CallsAreBacked, OwnedIsLive
  <2> QED BY <2>1, <2>2 DEF SlotsNameBorn
<1>7. CASE UNCHANGED vars
  BY <1>1, <1>7 DEF vars
<1> QED BY <1>2, <1>3, <1>4, <1>5, <1>6, <1>7 DEF Next

\* Everything the refinement rests on.
PInv == IInv /\ ListedIsWeak /\ UnusedIsNil /\ SlotsNameBorn

\* A step that changes nothing the mapping shows.
LEMMA HiddenStep ==
    ASSUME UNCHANGED <<strong, stage, slot, inited>>,
           \A s \in Slot : BeingStored(s)' <=> BeingStored(s)
    PROVE  UNCHANGED Promise!vars
BY DEF Promise!vars

LEMMA AllocImplements ==
    ASSUME PInv, NEW t \in Thread, NEW o \in Obj, NEW r \in Ref, Alloc(t, o, r)
    PROVE  Promise!Create(o, r)
<1>1. /\ stage[o] = "unborn" /\ stage' = [stage EXCEPT ![o] = "live"]
      /\ strong' = [strong EXCEPT ![r] = o] /\ strong[r] = Nil
      /\ UNCHANGED <<slot, inited, call>>
  BY DEF Alloc, weakVars, PInv, IInv, OwnersAreKnown
<1>2. \A s \in Slot : BeingStored(s)' <=> BeingStored(s)
  BY <1>1, SameCalls
<1>3. stage \in [Obj -> Stages] /\ slot \in [Slot -> Obj \cup {Nil}]
  BY DEF PInv, IInv, TypeOK
<1>4. \A s \in Slot : slot[s] # o
  BY <1>1, NilIsNothing DEF PInv, SlotsNameBorn
<1>5. \A p \in Obj : stage'[p] = IF p = o THEN "live" ELSE stage[p]
  BY <1>1, <1>3
<1> QED BY <1>1, <1>2, <1>3, <1>4, <1>5 DEF Promise!Create

\* What objc_retain is given is live: the caller gets a reference to it.
LEMMA RetainImplements ==
    ASSUME PInv, RulesKept, NEW t \in Thread, NEW o \in Obj, NEW r \in Ref, Retain(t, o, r)
    PROVE  Promise!Acquire(o, r)
<1>1. stage[o] = "live"
  BY NilIsNothing DEF Retain, CanUse, RulesKept, RefsTo, PInv, IInv, OwnedIsLive
<1>2. ~EntryOf(o).deallocating
  BY <1>1, LiveEntry DEF PInv
<1>3. /\ strong' = [strong EXCEPT ![r] = o] /\ strong[r] = Nil
      /\ UNCHANGED <<stage, slot, inited, call>>
  BY <1>2 DEF Retain, weakVars, deadVars, PInv, IInv, OwnersAreKnown
<1>4. \A s \in Slot : BeingStored(s)' <=> BeingStored(s)
  BY <1>3, SameCalls
<1> QED BY <1>1, <1>3, <1>4 DEF Promise!Acquire

\* The count decides rightly whether another reference is left.
LEMMA LastReleaseIsLast ==
    ASSUME IInv, NEW r \in Ref, NEW o \in Obj, strong[r] = o
    PROVE  LastRelease(table[AddrOf[o]]) <=> \A q \in Ref \ {r} : strong[q] # o
<1> DEFINE e == table[AddrOf[o]]
<1>1. stage[o] = "live" /\ r \in RefsTo(o) /\ o # Nil
  BY NilIsNothing DEF IInv, OwnedIsLive, RefsTo
<1>2. IsFiniteSet(RefsTo(o)) /\ Cardinality(RefsTo(o)) \in Nat
  BY RefsFinite
<1>3. LastRelease(e) <=> Cardinality(RefsTo(o)) <= 1
  BY <1>1, <1>2 DEF IInv, CountIsExact, LastRelease
<1>4. /\ IsFiniteSet(RefsTo(o) \ {r})
      /\ Cardinality(RefsTo(o) \ {r}) = Cardinality(RefsTo(o)) - 1
  BY <1>1, <1>2, FS_RemoveElement
<1>5. Cardinality(RefsTo(o) \ {r}) = 0 <=> RefsTo(o) \ {r} = {}
  BY <1>4, FS_EmptySet
<1>6. Cardinality(RefsTo(o)) \in Nat \ {0}
  BY <1>1, <1>2, RefsFinite
<1>7. Cardinality(RefsTo(o)) <= 1 <=> RefsTo(o) \ {r} = {}
  BY <1>4, <1>5, <1>6
<1> QED BY <1>3, <1>7 DEF RefsTo

LEMMA ReleaseImplements ==
    ASSUME PInv, NEW t \in Thread, NEW r \in Ref, Release(t, r)
    PROVE  Promise!Drop(r) \/ Promise!DropLast(r)
<1>1. PICK o \in Obj : o = strong[r] /\ o # Nil /\ stage[o] = "live"
  BY DEF Release, PInv, IInv, TypeOK, OwnedIsLive
<1> DEFINE e == table[AddrOf[o]]
<1>2. /\ strong' = [strong EXCEPT ![r] = Nil] /\ UNCHANGED <<slot, inited, call>>
      /\ IF LastRelease(e) THEN EnterDealloc(t, o, WeakOf(e)) ELSE UNCHANGED deadVars
  BY <1>1 DEF Release, weakVars
<1>3. \A s \in Slot : BeingStored(s)' <=> BeingStored(s)
  BY <1>2, SameCalls
<1>4. LastRelease(e) <=> \A q \in Ref \ {r} : strong[q] # o
  BY <1>1, LastReleaseIsLast DEF PInv
<1>5. CASE LastRelease(e)
  <2>1. stage' = [stage EXCEPT ![o] = "zeroing"]
    BY <1>2, <1>5 DEF EnterDealloc
  <2>2. stage \in [Obj -> Stages] /\ slot \in [Slot -> Obj \cup {Nil}]
    BY DEF PInv, IInv, TypeOK
  <2>3. \A p \in Obj : stage'[p] = IF p = o THEN "zeroing" ELSE stage[p]
    BY <2>1, <2>2
  <2> QED BY <1>1, <1>2, <1>3, <1>4, <1>5, <2>1, <2>2, <2>3 DEF Promise!DropLast
<1>6. CASE ~LastRelease(e)
  <2>1. stage' = stage
    BY <1>2, <1>6 DEF deadVars
  <2>2. \E q \in Ref \ {r} : strong[q] = strong[r]
    BY <1>1, <1>4, <1>6
  <2> QED BY <1>1, <1>2, <1>3, <2>1, <2>2 DEF Promise!Drop
<1> QED BY <1>5, <1>6

\* What is zeroed was no longer shown.
LEMMA ZeroSlotHidden ==
    ASSUME PInv, NEW t \in Thread, NEW s \in Slot, ZeroSlot(t, s)
    PROVE  UNCHANGED Promise!vars
<1>1. PICK o \in Obj : o = running[t] /\ stage[o] = "zeroing" /\ s \in pending[o]
  BY DEF ZeroSlot, PInv, IInv, TypeOK
<1>2. UNCHANGED <<strong, stage, inited, call>> /\ slot' = [slot EXCEPT ![s] = Nil]
  BY DEF ZeroSlot, refVars
<1>3. slot[s] \in {o, Nil} /\ slot \in [Slot -> Obj \cup {Nil}]
  BY <1>1 DEF PInv, ListedIsWeak, UnusedIsNil, IInv, TypeOK
<1>4. \A q \in Slot : BeingStored(q)' <=> BeingStored(q)
  BY <1>2, SameCalls
<1>5. \A q \in Slot : (slot'[q] # Nil /\ stage'[slot'[q]] = "live" <=>
                       slot[q] # Nil /\ stage[slot[q]] = "live")
                    /\ (q # s => slot'[q] = slot[q])
  BY <1>1, <1>2, <1>3
<1>6. slot[s] = Nil \/ stage[slot[s]] # "live"
  BY <1>1, <1>3
<1> QED BY <1>2, <1>3, <1>4, <1>5, <1>6 DEF Promise!vars

\* -dealloc starts and returns behind the mapping.
LEMMA BodyHidden ==
    ASSUME PInv, NEW t \in Thread, StartBody(t) \/ FinishBody(t)
    PROVE  UNCHANGED Promise!vars
<1>1. PICK o \in Obj : /\ o = running[t] /\ stage[o] \in {"zeroing", "body"}
                       /\ \E x \in {"body", "remove"} : stage' = [stage EXCEPT ![o] = x]
  BY DEF StartBody, FinishBody, PInv, IInv, TypeOK
<1>2. UNCHANGED <<strong, slot, inited, call>>
  BY DEF StartBody, FinishBody, refVars, weakVars
<1>3. stage \in [Obj -> Stages] /\ slot \in [Slot -> Obj \cup {Nil}]
  BY DEF PInv, IInv, TypeOK
<1>4. \A p \in Obj : /\ p # o => stage'[p] = stage[p]
                     /\ p = o => stage'[p] \in {"body", "remove"}
  BY <1>1, <1>3
<1>5. \A q \in Slot : BeingStored(q)' <=> BeingStored(q)
  BY <1>2, SameCalls
<1> QED BY <1>1, <1>2, <1>3, <1>4, <1>5 DEF Promise!vars

LEMMA RemoveEntryImplements ==
    ASSUME PInv, NEW t \in Thread, RemoveEntry(t)
    PROVE  \E o \in Obj : Promise!Finish(o)
<1>1. PICK o \in Obj : o = running[t] /\ stage[o] = "remove" /\ stage' = [stage EXCEPT ![o] = "done"]
  BY DEF RemoveEntry, PInv, IInv, TypeOK
<1>2. UNCHANGED <<strong, slot, inited, call>>
  BY DEF RemoveEntry, refVars, weakVars
<1>3. stage \in [Obj -> Stages] /\ slot \in [Slot -> Obj \cup {Nil}]
  BY DEF PInv, IInv, TypeOK
<1>4. \A p \in Obj : stage'[p] = IF p = o THEN "done" ELSE stage[p]
  BY <1>1, <1>3
<1>5. \A q \in Slot : BeingStored(q)' <=> BeingStored(q)
  BY <1>2, SameCalls
<1> QED BY <1>1, <1>2, <1>3, <1>4, <1>5 DEF Promise!Finish

\* A locked slot is in nobody's store.
LEMMA LockedIsNotStored ==
    ASSUME NEW s \in Slot, LockFree(s)
    PROVE  ~BeingStored(s)
BY DEF LockFree, BeingStored

\* A thread that takes the slot to store to it, and the other slots.
LEMMA StoringBegins ==
    ASSUME TypeOK, NEW t \in Thread, NEW s \in Slot, NEW o, call[t].op = "idle",
           call' = [call EXCEPT ![t] = [Idle EXCEPT !.op = "store", !.slot = s, !.obj = o]]
    PROVE  \A q \in Slot : BeingStored(q)' <=> BeingStored(q) \/ q = s
<1>1. /\ call'[t].op = "store" /\ call'[t].slot = s
      /\ \A u \in Thread \ {t} : call'[u] = call[u]
  BY DEF TypeOK, Idle
<1> QED BY <1>1 DEF BeingStored

LEMMA StoreWeakBeginImplements ==
    ASSUME PInv, NEW t \in Thread, NEW s \in Slot, NEW o \in Obj \cup {Nil},
           StoreWeakBegin(t, s, o)
    PROVE  Promise!BeginStore(s)
<1>1. /\ call[t].op = "idle" /\ s \in inited
      /\ call' = [call EXCEPT ![t] = [Idle EXCEPT !.op = "store", !.slot = s, !.obj = o]]
      /\ UNCHANGED <<strong, stage, slot, inited>>
  BY DEF StoreWeakBegin, Ready, refVars, deadVars
<1>2. ~BeingStored(s)
  BY LockedIsNotStored DEF StoreWeakBegin
<1>3. \A q \in Slot : BeingStored(q)' <=> BeingStored(q) \/ q = s
  BY <1>1, StoringBegins DEF PInv, IInv
<1> QED BY <1>1, <1>2, <1>3 DEF Promise!BeginStore

\* None is stored at once; an object as objc_storeWeak stores it.
LEMMA InitWeakImplements ==
    ASSUME PInv, NEW t \in Thread, NEW s \in Slot, NEW o \in Obj \cup {Nil}, InitWeak(t, s, o)
    PROVE  Promise!Known(s) \/ Promise!BeginStore(s)
<1>1. /\ call[t].op = "idle" /\ s \notin inited
      /\ inited' = inited \cup {s}
      /\ UNCHANGED <<strong, stage>>
  BY DEF InitWeak, Ready, refVars, deadVars
<1>2. slot[s] = Nil /\ slot' = slot
  BY <1>1 DEF InitWeak, PInv, UnusedIsNil, IInv, TypeOK
<1>3. ~BeingStored(s)
  BY <1>1 DEF BeingStored, PInv, IInv, CallsAreBacked
<1>4. CASE o = Nil
  <2>1. \A q \in Slot : BeingStored(q)' <=> BeingStored(q)
    BY <1>4, SameCalls DEF InitWeak
  <2>2. Promise!Known(s)
    BY <1>1, <1>2, <1>3, <2>1 DEF Promise!Known
  <2> QED BY <2>2
<1>5. CASE o # Nil
  <2>1. \A q \in Slot : BeingStored(q)' <=> BeingStored(q) \/ q = s
    BY <1>1, <1>5, StoringBegins DEF InitWeak, PInv, IInv
  <2>2. Promise!BeginStore(s)
    BY <1>1, <1>2, <1>3, <2>1 DEF Promise!BeginStore
  <2> QED BY <2>2
<1> QED BY <1>4, <1>5

LEMMA DestroyWeakImplements ==
    ASSUME PInv, NEW t \in Thread, NEW s \in Slot, DestroyWeak(t, s)
    PROVE  Promise!Known(s)
<1>1. /\ s \in inited /\ inited' = inited \ {s}
      /\ slot' = [slot EXCEPT ![s] = Nil]
      /\ UNCHANGED <<strong, stage, call>>
  BY DEF DestroyWeak, refVars, deadVars
<1>2. ~BeingStored(s)
  BY LockedIsNotStored DEF DestroyWeak
<1>3. \A q \in Slot : BeingStored(q)' <=> BeingStored(q)
  BY <1>1, SameCalls
<1>4. \A q \in Slot : slot'[q] = IF q = s THEN Nil ELSE slot[q]
  BY <1>1 DEF PInv, IInv, TypeOK
<1> QED BY <1>1, <1>2, <1>3, <1>4 DEF Promise!Known

\* The store lands: what its caller owns is live, and is not refused.
LEMMA StoreWeakEndImplements ==
    ASSUME PInv, NEW t \in Thread, StoreWeakEnd(t)
    PROVE  \E s \in Slot, o \in Obj \cup {Nil} : Promise!EndStore(s, o)
<1>0. PICK s \in Slot, o \in Obj \cup {Nil} : s = call[t].slot /\ o = call[t].obj
  BY DEF StoreWeakEnd, PInv, IInv, TypeOK, Calls, Idle
<1>1. /\ UNCHANGED <<strong, stage, inited>> /\ call' = [call EXCEPT ![t] = Idle]
      /\ call[t].op = "store" /\ BeingStored(s)
  BY <1>0 DEF StoreWeakEnd, refVars, deadVars, BeingStored
<1>2. o # Nil => /\ \E r \in Ref : strong[r] = o
                 /\ stage[o] = "live"
  BY <1>0, <1>1 DEF PInv, IInv, CallsAreBacked, OwnedIsLive
<1>3. o # Nil => ~EntryOf(o).deallocating
  BY <1>2, LiveEntry DEF PInv
<1>4. slot' = [slot EXCEPT ![s] = o]
  BY <1>0, <1>3 DEF StoreWeakEnd
<1>5. \A q \in Slot : slot'[q] = IF q = s THEN o ELSE slot[q]
  BY <1>4 DEF PInv, IInv, TypeOK
<1>6. \A q \in Slot : BeingStored(q)' <=> BeingStored(q) /\ q # s
  <2>1. call'[t].op = "idle" /\ \A u \in Thread \ {t} : call'[u] = call[u]
    BY <1>1 DEF PInv, IInv, TypeOK, Idle
  <2>2. \A u \in Thread \ {t} : ~(call[u].op = "store" /\ call[u].slot = s)
    <3> SUFFICES ASSUME NEW u \in Thread, call[u].op = "store", call[u].slot = s
                 PROVE  u = t
      OBVIOUS
    <3> QED BY <1>0, <1>1, Exclusive DEF PInv
  <2> QED BY <1>0, <1>1, <2>1, <2>2 DEF BeingStored
<1>7. Promise!EndStore(s, o)
  BY <1>1, <1>2, <1>5, <1>6 DEF Promise!EndStore
<1> QED BY <1>7

LEMMA LoadWeakBeginHidden ==
    ASSUME PInv, NEW t \in Thread, NEW s \in Slot, NEW r \in Ref, LoadWeakBegin(t, s, r)
    PROVE  UNCHANGED Promise!vars
<1>1. /\ call[t].op = "idle" /\ call'[t].op = "load" /\ \A u \in Thread \ {t} : call'[u] = call[u]
      /\ UNCHANGED <<strong, stage, slot, inited>>
  BY DEF LoadWeakBegin, Ready, deadVars, Idle, PInv, IInv, TypeOK
<1>2. \A q \in Slot : BeingStored(q)' <=> BeingStored(q)
  BY <1>1 DEF BeingStored
<1> QED BY <1>1, <1>2, HiddenStep

\* The load yields a reference only to what is live.
LEMMA LoadWeakEndImplements ==
    ASSUME PInv, NEW t \in Thread, LoadWeakEnd(t)
    PROVE  \/ UNCHANGED Promise!vars
           \/ \E o \in Obj, r \in Ref : Promise!Acquire(o, r)
<1>1. PICK r \in Ref : r = call[t].ref /\ strong[r] = Nil /\ call[t].op = "load"
  BY DEF LoadWeakEnd, PInv, IInv, CallsAreBacked
<1>2. /\ call'[t].op = "idle" /\ \A u \in Thread \ {t} : call'[u] = call[u]
      /\ UNCHANGED <<stage, slot, inited>>
  BY DEF LoadWeakEnd, deadVars, Idle, PInv, IInv, TypeOK
<1>3. \A q \in Slot : BeingStored(q)' <=> BeingStored(q)
  BY <1>1, <1>2 DEF BeingStored
<1>4. CASE strong' = strong
  BY <1>2, <1>3, <1>4, HiddenStep
<1>5. CASE strong' # strong
  <2>1. /\ call[t].obj # Nil /\ strong' = [strong EXCEPT ![r] = call[t].obj]
    BY <1>1, <1>5 DEF LoadWeakEnd
  <2>2. PICK o \in Obj : o = call[t].obj
    BY <1>1, <2>1 DEF PInv, IInv, TypeOK, CallsAreBacked
  <2>3. strong'[r] # Nil
    BY <2>1 DEF PInv, IInv, TypeOK
  <2>4. stage[o] = "live"
    BY <1>1, <2>1, <2>2, <2>3, LoadOutcome DEF PInv
  <2>5. Promise!Acquire(o, r)
    BY <1>1, <1>2, <1>3, <2>1, <2>2, <2>4 DEF Promise!Acquire
  <2> QED BY <2>5
<1> QED BY <1>4, <1>5

LEMMA HandoffHidden ==
    ASSUME NEW t \in Thread, NEW r \in Ref, NEW w \in Thread \cup Obj, Handoff(t, r, w)
    PROVE  UNCHANGED Promise!vars
BY SameCalls, HiddenStep DEF Handoff, weakVars, deadVars

LEMMA PromiseInit == Init => Promise!Init
<1> SUFFICES ASSUME Init PROVE Promise!Init
  OBVIOUS
<1>1. /\ \A s \in Slot : ~BeingStored(s) /\ slot[s] = Nil
      /\ \A o \in Obj : stage[o] = "unborn"
      /\ strong = [r \in Ref |-> Nil] /\ inited = {}
  BY DEF Init, BeingStored, Idle
<1> QED BY <1>1 DEF Promise!Init

LEMMA PromiseStep == RulesKept /\ PInv /\ [Next]_vars => [Promise!Next]_(Promise!vars)
<1> SUFFICES ASSUME RulesKept, PInv, [Next]_vars PROVE [Promise!Next]_(Promise!vars)
  OBVIOUS
<1>1. ASSUME NEW t \in Thread, NEW o \in Obj, NEW r \in Ref, Alloc(t, o, r) \/ Retain(t, o, r)
      PROVE  Promise!Next
  BY <1>1, AllocImplements, RetainImplements DEF Promise!Next
<1>2. ASSUME NEW t \in Thread, NEW r \in Ref, Release(t, r)
      PROVE  Promise!Next
  BY <1>2, ReleaseImplements DEF Promise!Next
<1>3. ASSUME NEW t \in Thread, RemoveEntry(t) \/ StoreWeakEnd(t)
      PROVE  Promise!Next
  BY <1>3, RemoveEntryImplements, StoreWeakEndImplements DEF Promise!Next
<1>4. ASSUME NEW t \in Thread, NEW s \in Slot,
             \/ DestroyWeak(t, s)
             \/ \E o \in Obj \cup {Nil} : InitWeak(t, s, o) \/ StoreWeakBegin(t, s, o)
      PROVE  Promise!Next
  BY <1>4, DestroyWeakImplements, InitWeakImplements, StoreWeakBeginImplements DEF Promise!Next
<1>5. ASSUME NEW t \in Thread, LoadWeakEnd(t)
      PROVE  [Promise!Next]_(Promise!vars)
  BY <1>5, LoadWeakEndImplements DEF Promise!Next
<1>6. ASSUME NEW t \in Thread,
             \/ \E r \in Ref, w \in Thread \cup Obj : Handoff(t, r, w)
             \/ \E s \in Slot : ZeroSlot(t, s)
             \/ \E s \in Slot, r \in Ref : LoadWeakBegin(t, s, r)
             \/ StartBody(t) \/ FinishBody(t)
      PROVE  UNCHANGED Promise!vars
  BY <1>6, HandoffHidden, ZeroSlotHidden, LoadWeakBeginHidden, BodyHidden
<1>7. CASE UNCHANGED vars
  BY <1>7, SameCalls, HiddenStep DEF vars
<1> QED BY <1>1, <1>2, <1>3, <1>4, <1>5, <1>6, <1>7 DEF Next

\* The side table, the slot locks and the stages of a deallocation implement
\* atomic reference counting with weak references that are cleared in the step
\* that gives up the last owner: no caller can tell the difference, however many
\* threads, objects and slots there are (all of src/retain_release.rs).
THEOREM PromiseIsKept == RulesKept /\ ~RacyStores => (Spec => Promise!Spec)
<1> SUFFICES ASSUME RulesKept, ~RacyStores PROVE Spec => Promise!Spec
  OBVIOUS
<1>1. Init => SlotsNameBorn
  BY DEF Init, SlotsNameBorn
<1>2. Spec => []IInv /\ [](ListedIsWeak /\ UnusedIsNil)
  BY Invariance, ListsAreExact
<1>3. Spec => []PInv
  BY <1>1, <1>2, SlotsNameBornStep, PTL DEF Spec, PInv
<1>4. PInv /\ [Next]_vars => [Promise!Next]_(Promise!vars)
  BY PromiseStep
<1> QED BY <1>3, <1>4, PromiseInit, PTL DEF Spec, Promise!Spec
================================================================================
