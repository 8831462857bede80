--------------------------- MODULE ThreadPoolsProofs ---------------------------
(* Pools are a way of using the side table: what is proved of SideTable holds *)
(* while threads use pools, and what a pool holds is live and its own.        *)
EXTENDS ThreadPools, WeakSlotProofs

\* Every step of a program with pools is a step of the side table or none.
LEMMA PoolStepIsStep == PoolsTypeOK /\ [PoolsNext]_allVars => [Next]_vars
<1> SUFFICES ASSUME PoolsTypeOK, [PoolsNext]_allVars PROVE [Next]_vars
  OBVIOUS
<1>1. ASSUME NEW t \in Thread, Code(t)
      PROVE  Next
  BY <1>1 DEF Code, Next
<1>2. ASSUME NEW t \in Thread, Runtime(t)
      PROVE  Next
  BY <1>2 DEF Runtime, Next
<1>3. ASSUME NEW t \in Thread, PoolStep(t)
      PROVE  Next \/ UNCHANGED vars
  <2>1. CASE \E s \in Slot, r \in Ref : LoadWeak(t, s, r)
    BY <2>1 DEF LoadWeak, Next
  <2>2. CASE LoadWeakRetained(t)
    BY <2>2 DEF LoadWeakRetained, Next
  <2>3. CASE PopRelease(t)
    <3>1. Len(trail[t]) \in DOMAIN trail[t] /\ trail[t] \in Seq(Ref)
      BY <2>3 DEF PopRelease, Popping, Borrowed, PoolsTypeOK
    <3>2. \E r \in Ref : Release(t, r)
      BY <2>3, <3>1 DEF PopRelease
    <3> QED BY <3>2 DEF Next
  <2>4. CASE \/ \E r \in Ref : AutoreleaseRef(t, r)
             \/ \E i \in DOMAIN marks[t] : PopStart(t, i)
             \/ Push(t) \/ PopReturn(t) \/ LoadWeakPool(t)
             \/ PoolsWhileBorrowed(t) \/ EndThread(t)
    BY <2>4 DEF AutoreleaseRef, PopStart, Push, PopReturn, LoadWeakPool, PoolsWhileBorrowed,
                EndThread
  <2> QED BY <1>3, <2>1, <2>2, <2>3, <2>4 DEF PoolStep
<1> QED BY <1>1, <1>2, <1>3 DEF PoolsNext, allVars

LEMMA DepositType ==
    ASSUME PoolsTypeOK, NEW t \in Thread, NEW r \in Ref, Deposit(t, r)
    PROVE  /\ trail' \in [Thread -> Seq(Ref)]
           /\ leaked' \subseteq Ref
<1>1. CASE marks[t] = <<>>
  BY <1>1 DEF Deposit, PoolsTypeOK
<1>2. CASE marks[t] # <<>>
  <2>1. Append(trail[t], r) \in Seq(Ref)
    BY DEF PoolsTypeOK
  <2> QED BY <1>2, <2>1 DEF Deposit, PoolsTypeOK
<1> QED BY <1>1, <1>2

LEMMA PoolsTypeStep == TypeOK /\ PoolsTypeOK /\ [PoolsNext]_allVars => PoolsTypeOK'
<1> SUFFICES ASSUME TypeOK, PoolsTypeOK, [PoolsNext]_allVars PROVE PoolsTypeOK'
  OBVIOUS
<1>1. CASE UNCHANGED poolVars
  BY <1>1 DEF poolVars, PoolsTypeOK
<1>2. ASSUME NEW t \in Thread, NEW r \in Ref, AutoreleaseRef(t, r)
      PROVE  PoolsTypeOK'
  <2>1. trail' \in [Thread -> Seq(Ref)] /\ leaked' \subseteq Ref
    BY <1>2, DepositType DEF AutoreleaseRef
  <2> QED BY <1>2, <2>1 DEF AutoreleaseRef, PoolsTypeOK
<1>3. ASSUME NEW t \in Thread, Push(t)
      PROVE  PoolsTypeOK'
  <2>1. Append(marks[t], Len(trail[t])) \in Seq(Nat)
    BY DEF PoolsTypeOK
  <2> QED BY <1>3, <2>1 DEF Push, PoolsTypeOK
<1>4. ASSUME NEW t \in Thread, NEW i \in DOMAIN marks[t], PopStart(t, i)
      PROVE  PoolsTypeOK'
  <2>1. marks[t] \in Seq(Nat) /\ i \in 1 .. Len(marks[t])
    BY DEF PoolsTypeOK
  <2>2. marks[t][i] \in Nat /\ SubSeq(marks[t], 1, i - 1) \in Seq(Nat)
    BY <2>1
  <2>3. running[t] \in Obj \cup {Nil}
    BY DEF TypeOK
  <2> QED BY <1>4, <2>2, <2>3 DEF PopStart, PoolsTypeOK
<1>5. ASSUME NEW t \in Thread, PopRelease(t)
      PROVE  PoolsTypeOK'
  <2>1. trail[t] \in Seq(Ref) /\ Len(trail[t]) - 1 \in 0 .. Len(trail[t])
    BY <1>5 DEF PopRelease, Popping, Borrowed, PoolsTypeOK
  <2>2. SubSeq(trail[t], 1, Len(trail[t]) - 1) \in Seq(Ref)
    BY <2>1
  <2> QED BY <1>5, <2>2 DEF PopRelease, PoolsTypeOK
<1>6. ASSUME NEW t \in Thread, PopReturn(t) \/ PoolsWhileBorrowed(t) \/ LoadWeakRetained(t)
      PROVE  PoolsTypeOK'
  BY <1>6 DEF PopReturn, PoolsWhileBorrowed, LoadWeakRetained, PoolsTypeOK
<1>7. ASSUME NEW t \in Thread, NEW s \in Slot, NEW r \in Ref, LoadWeak(t, s, r)
      PROVE  PoolsTypeOK'
  BY <1>7 DEF LoadWeak, PoolsTypeOK
<1>8. ASSUME NEW t \in Thread, LoadWeakPool(t)
      PROVE  PoolsTypeOK'
  <2>1. loaded[t] \in Ref
    BY <1>8 DEF LoadWeakPool, PoolsTypeOK
  <2>2. CASE Borrowed(t)
    BY <1>8, <2>2 DEF LoadWeakPool, PoolsTypeOK
  <2>3. CASE ~Borrowed(t)
    <3>1. trail' \in [Thread -> Seq(Ref)] /\ leaked' \subseteq Ref
      BY <1>8, <2>1, <2>3, DepositType DEF LoadWeakPool
    <3> QED BY <1>8, <2>3, <3>1 DEF LoadWeakPool, PoolsTypeOK
  <2> QED BY <2>2, <2>3
<1>9. ASSUME NEW t \in Thread, EndThread(t)
      PROVE  PoolsTypeOK'
  <2>1. PooledBy(t) \subseteq Ref
    BY DEF PooledBy, PoolsTypeOK
  <2>2. <<>> \in Seq(Ref) /\ <<>> \in Seq(Nat)
    OBVIOUS
  <2> QED BY <1>9, <2>1, <2>2 DEF EndThread, PoolsTypeOK
<1>10. ASSUME NEW t \in Thread, Code(t) \/ Runtime(t)
       PROVE  PoolsTypeOK'
  BY <1>1, <1>10 DEF Code, Runtime
<1>11. ASSUME NEW t \in Thread, PoolStep(t)
       PROVE  PoolsTypeOK'
  BY <1>2, <1>3, <1>4, <1>5, <1>6, <1>7, <1>8, <1>9, <1>11 DEF PoolStep
<1>12. CASE UNCHANGED allVars
  BY <1>1, <1>12 DEF allVars
<1> QED BY <1>10, <1>11, <1>12 DEF PoolsNext

\* Every behaviour of threads with pools is one of the side table
\* (objc_autorelease, objc_autorelease_pool_pop, objc_load_weak).
THEOREM PoolsUseSideTable == PoolsSpec => Spec /\ []PoolsTypeOK
<1>1. PoolsInit => Init /\ TypeOK /\ PoolsTypeOK
  <2>1. PoolsInit => PoolsTypeOK
    <3>1. <<>> \in Seq(Ref) /\ <<>> \in Seq(Nat)
      OBVIOUS
    <3> QED BY <3>1 DEF PoolsInit, PoolsTypeOK
  <2>2. Init => TypeOK
    BY DEF Init, TypeOK, Stages, Idle, Calls
  <2> QED BY <2>1, <2>2 DEF PoolsInit
<1>2. TypeOK /\ PoolsTypeOK /\ [PoolsNext]_allVars => TypeOK' /\ PoolsTypeOK' /\ [Next]_vars
  BY PoolStepIsStep, PoolsTypeStep, TypeStep
<1> QED BY <1>1, <1>2, PTL DEF PoolsSpec, Spec

--------------------------------------------------------------------------------
(* Which references a step leaves with their owners.                          *)

\* What a thread's own code may dispose of is neither another thread's, nor in
\* a pool, nor leaked.
LEMMA CodeKeeps ==
    ASSUME TypeOK, NEW t \in Thread, Code(t),
           NEW q \in Ref, holder[q] \in Thread,
           holder[q] # t \/ q \in Pooled \cup leaked
    PROVE  strong'[q] = strong[q] /\ holder'[q] = holder[q]
<1>1. running[t] \in Obj \cup {Nil} /\ holder[q] # Nil /\ holder[q] # running[t]
  BY NilIsNothing, ObjectsAreNotThreads DEF TypeOK
<1>2. CASE \E o \in Obj, r \in Ref : Alloc(t, o, r) \/ Retain(t, o, r)
  BY <1>1, <1>2 DEF Alloc, Retain, refVars, TypeOK
<1>3. CASE \E r \in Ref, w \in Thread \cup Obj : Own(t, r) /\ w \notin ended /\ Handoff(t, r, w)
  BY <1>1, <1>3 DEF Own, Handoff, TypeOK
<1>4. CASE \E r \in Ref : (Own(t, r) \/ holder[r] = running[t]) /\ Release(t, r)
  BY <1>1, <1>4 DEF Own, Release, TypeOK
<1>5. CASE \E s \in Slot, r \in Ref : LoadWeakBegin(t, s, r)
  BY <1>1, <1>5 DEF LoadWeakBegin, TypeOK
<1>6. CASE \/ \E s \in Slot : DestroyWeak(t, s)
           \/ \E s \in Slot, o \in Obj \cup {Nil} : InitWeak(t, s, o) \/ StoreWeakBegin(t, s, o)
           \/ FinishBody(t)
  BY <1>6 DEF DestroyWeak, InitWeak, StoreWeakBegin, FinishBody, refVars
<1> QED BY <1>2, <1>3, <1>4, <1>5, <1>6 DEF Code

\* The end of a weak load gives its thread the reference it was started with.
LEMMA LoadEndKeeps ==
    ASSUME IInv, NEW t \in Thread, LoadWeakEnd(t),
           NEW q \in Ref, holder[q] # t \/ strong[q] # Nil
    PROVE  strong'[q] = strong[q] /\ holder'[q] = holder[q]
<1>1. call[t].ref \in Ref /\ strong[call[t].ref] = Nil /\ holder[call[t].ref] = t
  BY DEF IInv, CallsAreBacked, LoadWeakEnd
<1> QED BY <1>1 DEF LoadWeakEnd, IInv, TypeOK

\* A thread's step leaves the calls of the others alone.
LEMMA OthersCalls ==
    ASSUME TypeOK, NEW t \in Thread, Code(t) \/ Runtime(t), NEW u \in Thread, u # t
    PROVE  call'[u] = call[u]
<1>1. CASE Code(t)
  <2>1. CASE \E o \in Obj, r \in Ref : Alloc(t, o, r) \/ Retain(t, o, r)
    BY <2>1 DEF Alloc, Retain, weakVars
  <2>2. CASE \E r \in Ref, w \in Thread \cup Obj : Handoff(t, r, w)
    BY <2>2 DEF Handoff, weakVars
  <2>3. CASE \E r \in Ref : Release(t, r)
    BY <2>3 DEF Release, weakVars
  <2>4. CASE \/ \E s \in Slot : DestroyWeak(t, s)
             \/ \E s \in Slot, o \in Obj \cup {Nil} : InitWeak(t, s, o) \/ StoreWeakBegin(t, s, o)
             \/ \E s \in Slot, r \in Ref : LoadWeakBegin(t, s, r)
             \/ FinishBody(t)
    BY <2>4 DEF DestroyWeak, InitWeak, StoreWeakBegin, LoadWeakBegin, FinishBody, weakVars, TypeOK
  <2> QED BY <1>1, <2>1, <2>2, <2>3, <2>4 DEF Code
<1>2. CASE Runtime(t)
  BY <1>2 DEF Runtime, ZeroSlot, StartBody, RemoveEntry, StoreWeakEnd, LoadWeakEnd, weakVars, TypeOK
<1> QED BY <1>1, <1>2

--------------------------------------------------------------------------------
(* One reference, one place.                                                  *)

LEMMA PooledRefs ==
    ASSUME PoolsTypeOK
    PROVE  Pooled \subseteq Ref /\ \A t \in Thread : PooledBy(t) \subseteq Pooled
BY DEF Pooled, PooledBy, PoolsTypeOK

\* Steps that leave the pools alone, and every reference they hold.
LEMMA SameTrail ==
    ASSUME trail' = trail
    PROVE  Pooled' = Pooled /\ \A t \in Thread : PooledBy(t)' = PooledBy(t)
BY DEF Pooled, PooledBy

LEMMA CodeRuntimeStep ==
    ASSUME IInv, PoolsInv, NEW t \in Thread, Code(t) \/ Runtime(t)
    PROVE  PooledOnce' /\ PooledHeld' /\ LeakedHeld' /\ LoadedHeld'
<1>1. UNCHANGED <<trail, marks, drain, base, loaded, leaked, ended, aborted>>
  BY DEF Code, Runtime, poolVars
<1>2. TypeOK /\ PoolsTypeOK /\ PooledHeld /\ LeakedHeld /\ LoadedHeld
  BY DEF IInv, PoolsInv
<1>3. Pooled' = Pooled /\ \A u \in Thread : PooledBy(u)' = PooledBy(u)
  BY <1>1, SameTrail
<1>4. PooledOnce'
  BY <1>1, <1>3 DEF PoolsInv, PooledOnce
<1>5. ASSUME NEW q \in Ref, holder[q] \in Thread,
             \/ strong[q] # Nil /\ (holder[q] # t \/ q \in Pooled \cup leaked)
             \/ holder[q] # t
      PROVE  strong'[q] = strong[q] /\ holder'[q] = holder[q]
  <2>1. CASE Code(t)
    BY <1>2, <1>5, <2>1, CodeKeeps
  <2>2. CASE LoadWeakEnd(t)
    BY <1>5, <2>2, LoadEndKeeps
  <2>3. CASE \/ \E s \in Slot : ZeroSlot(t, s)
             \/ StartBody(t) \/ RemoveEntry(t) \/ StoreWeakEnd(t)
    BY <2>3 DEF ZeroSlot, StartBody, RemoveEntry, StoreWeakEnd, refVars
  <2> QED BY <2>1, <2>2, <2>3 DEF Runtime
<1>6. PooledHeld'
  <2> SUFFICES ASSUME NEW u \in Thread, NEW q \in PooledBy(u)
               PROVE  holder'[q] = u /\ strong'[q] # Nil
    BY <1>3 DEF PooledHeld
  <2>1. q \in Ref /\ q \in Pooled /\ holder[q] = u /\ strong[q] # Nil
    BY <1>2, PooledRefs DEF PooledHeld
  <2> QED BY <2>1, <1>5
<1>7. LeakedHeld'
  <2> SUFFICES ASSUME NEW q \in leaked
               PROVE  holder'[q] \in Thread /\ strong'[q] # Nil
    BY <1>1 DEF LeakedHeld
  <2>1. q \in Ref /\ holder[q] \in Thread /\ strong[q] # Nil
    BY <1>2 DEF LeakedHeld, PoolsTypeOK
  <2> QED BY <2>1, <1>5
<1>8. LoadedHeld'
  <2> SUFFICES ASSUME NEW u \in Thread, loaded[u] # Nil
               PROVE  /\ holder'[loaded[u]] = u
                      /\ \/ call'[u].op = "idle" /\ strong'[loaded[u]] # Nil
                         \/ call'[u].op = "load" /\ call'[u].ref = loaded[u]
    BY <1>1 DEF LoadedHeld
  <2>1. loaded[u] \in Ref /\ holder[loaded[u]] = u
    BY <1>2 DEF PoolsTypeOK, LoadedHeld
  <2>2. CASE u = t
    <3>1. \/ \E s \in Slot : ZeroSlot(t, s)
          \/ StartBody(t) \/ RemoveEntry(t) \/ StoreWeakEnd(t)
      BY <2>2 DEF Code, CodeRuns, Runtime
    <3>2. ~StoreWeakEnd(t)
      BY <1>2, <2>2 DEF LoadedHeld, StoreWeakEnd
    <3> QED BY <1>2, <2>2, <3>1, <3>2 DEF LoadedHeld, ZeroSlot, StartBody, RemoveEntry,
                                          refVars, weakVars
  <2>3. CASE u # t
    <3>1. call'[u] = call[u]
      BY <1>2, <2>3, OthersCalls
    <3>2. strong'[loaded[u]] = strong[loaded[u]] /\ holder'[loaded[u]] = holder[loaded[u]]
      BY <1>5, <2>1, <2>3
    <3> QED BY <1>2, <3>1, <3>2 DEF LoadedHeld
  <2> QED BY <2>2, <2>3
<1> QED BY <1>4, <1>6, <1>7, <1>8
\* A reference that was nowhere goes to one place.
LEMMA DepositStep ==
    ASSUME PoolsInv, NEW t \in Thread, NEW r \in Ref, Deposit(t, r),
           r \notin Pooled \cup leaked, holder[r] = t, strong[r] # Nil,
           UNCHANGED <<strong, holder, call>>,
           \A u \in Thread : loaded'[u] = loaded[u] \/ loaded'[u] = Nil,
           \A u \in Thread : loaded'[u] # r
    PROVE  PooledOnce' /\ PooledHeld' /\ LeakedHeld' /\ LoadedHeld'
<1>1. PoolsTypeOK /\ PooledOnce /\ PooledHeld /\ LeakedHeld /\ LoadedHeld
  BY DEF PoolsInv
<1>2. LoadedHeld'
  BY <1>1 DEF LoadedHeld
<1>3. CASE marks[t] = <<>>
  <2>1. leaked' = leaked \cup {r} /\ trail' = trail
    BY <1>3 DEF Deposit
  <2>2. Pooled' = Pooled /\ \A u \in Thread : PooledBy(u)' = PooledBy(u)
    BY <2>1, SameTrail
  <2>3. PooledOnce'
    <3>1. Nil \notin Pooled \cup leaked'
      BY <1>1, <2>1, PooledRefs, NilIsNothing DEF PoolsTypeOK
    <3> QED BY <1>1, <2>1, <2>2, <3>1 DEF PooledOnce
  <2>4. PooledHeld' /\ LeakedHeld'
    BY <1>1, <2>1, <2>2 DEF PooledHeld, LeakedHeld
  <2> QED BY <1>2, <2>3, <2>4
<1>4. CASE marks[t] # <<>>
  <2>1. leaked' = leaked /\ trail' = [trail EXCEPT ![t] = Append(@, r)] /\ trail[t] \in Seq(Ref)
    BY <1>1, <1>4 DEF Deposit, PoolsTypeOK
  <2>2. /\ DOMAIN trail'[t] = 1 .. Len(trail[t]) + 1
        /\ DOMAIN trail[t] = 1 .. Len(trail[t])
        /\ trail'[t][Len(trail[t]) + 1] = r
        /\ \A i \in DOMAIN trail[t] : trail'[t][i] = trail[t][i]
        /\ \A u \in Thread \ {t} : trail'[u] = trail[u]
        /\ Len(trail[t]) \in Nat
    BY <1>1, <2>1 DEF PoolsTypeOK
  <2>3. \A u \in Thread : \A i \in DOMAIN trail'[u] :
            \/ u = t /\ i = Len(trail[t]) + 1 /\ trail'[u][i] = r
            \/ i \in DOMAIN trail[u] /\ trail'[u][i] = trail[u][i] /\ trail'[u][i] \in Pooled
    BY <2>2 DEF Pooled, PooledBy
  <2>4. Pooled' \subseteq Pooled \cup {r}
    BY <2>3 DEF Pooled, PooledBy
  <2>5. \A u \in Thread : PooledBy(u)' \subseteq PooledBy(u) \cup (IF u = t THEN {r} ELSE {})
    BY <2>3 DEF PooledBy
  <2>6. PooledOnce'
    <3>1. \A u, w \in Thread : \A i \in DOMAIN trail'[u], j \in DOMAIN trail'[w] :
              trail'[u][i] = trail'[w][j] => u = w /\ i = j
      BY <1>1, <2>3 DEF PooledOnce
    <3>2. Pooled' \cap leaked' = {}
      BY <1>1, <2>1, <2>4 DEF PooledOnce
    <3>3. \A u \in Thread : loaded'[u] \notin Pooled' \cup leaked'
      <4>1. Nil \notin Pooled' \cup leaked'
        BY <1>1, <2>1, <2>4, PooledRefs, NilIsNothing DEF PoolsTypeOK
      <4> QED BY <1>1, <2>1, <2>4, <4>1 DEF PooledOnce
    <3> QED BY <3>1, <3>2, <3>3 DEF PooledOnce
  <2>7. PooledHeld' /\ LeakedHeld'
    BY <1>1, <2>1, <2>5 DEF PooledHeld, LeakedHeld
  <2> QED BY <1>2, <2>6, <2>7
<1> QED BY <1>3, <1>4

LEMMA AutoreleaseStep ==
    ASSUME PoolsInv, NEW t \in Thread, NEW r \in Ref, AutoreleaseRef(t, r)
    PROVE  PooledOnce' /\ PooledHeld' /\ LeakedHeld' /\ LoadedHeld'
<1>1. /\ Deposit(t, r) /\ r \notin Pooled \cup leaked /\ holder[r] = t /\ strong[r] # Nil
      /\ UNCHANGED <<strong, holder, call>> /\ loaded' = loaded /\ loaded[t] = Nil
  BY DEF AutoreleaseRef, CodeRuns, Own, vars
<1>2. \A u \in Thread : loaded[u] # r
  BY <1>1, NilIsNothing DEF PoolsInv, LoadedHeld
<1> QED BY <1>1, <1>2, DepositStep

LEMMA LoadWeakPoolStep ==
    ASSUME PoolsInv, NEW t \in Thread, LoadWeakPool(t)
    PROVE  PooledOnce' /\ PooledHeld' /\ LeakedHeld' /\ LoadedHeld'
<1>1. /\ loaded[t] \in Ref /\ holder[loaded[t]] = t /\ strong[loaded[t]] # Nil
      /\ loaded[t] \notin Pooled \cup leaked
      /\ UNCHANGED <<strong, holder, call>>
  BY DEF PoolsInv, PoolsTypeOK, PooledOnce, LoadedHeld, LoadWeakPool, vars
<1>2. CASE Borrowed(t)
  <2>1. UNCHANGED <<trail, leaked, loaded>>
    BY <1>2 DEF LoadWeakPool
  <2>2. Pooled' = Pooled /\ \A u \in Thread : PooledBy(u)' = PooledBy(u)
    BY <2>1, SameTrail
  <2> QED BY <1>1, <2>1, <2>2 DEF PoolsInv, PooledOnce, PooledHeld, LeakedHeld, LoadedHeld
<1>3. CASE ~Borrowed(t)
  <2>1. Deposit(t, loaded[t]) /\ loaded' = [loaded EXCEPT ![t] = Nil]
    BY <1>3 DEF LoadWeakPool
  <2>2. \A u \in Thread : /\ loaded'[u] = loaded[u] \/ loaded'[u] = Nil
                         /\ loaded'[u] # loaded[t]
    BY <1>1, <2>1, NilIsNothing DEF PoolsInv, PoolsTypeOK, LoadedHeld
  <2> QED BY <1>1, <2>1, <2>2, DepositStep
<1> QED BY <1>2, <1>3

\* The steps that move no reference.
LEMMA QuietStep ==
    ASSUME PoolsInv, NEW t \in Thread,
           \/ Push(t) \/ PopReturn(t) \/ PoolsWhileBorrowed(t)
           \/ \E i \in DOMAIN marks[t] : PopStart(t, i)
    PROVE  PooledOnce' /\ PooledHeld' /\ LeakedHeld' /\ LoadedHeld'
<1>1. UNCHANGED <<strong, holder, call, trail, leaked, loaded>>
  BY DEF Push, PopReturn, PoolsWhileBorrowed, PopStart, vars
<1>2. Pooled' = Pooled /\ \A u \in Thread : PooledBy(u)' = PooledBy(u)
  BY <1>1, SameTrail
<1> QED BY <1>1, <1>2 DEF PoolsInv, PooledOnce, PooledHeld, LeakedHeld, LoadedHeld

\* The reference a pop releases is the last of the trail, and nowhere else.
LEMMA PopReleaseStep ==
    ASSUME IInv, PoolsInv, NEW t \in Thread, PopRelease(t)
    PROVE  PooledOnce' /\ PooledHeld' /\ LeakedHeld' /\ LoadedHeld'
<1> DEFINE n == Len(trail[t])
           r == trail[t][n]
<1>1. PoolsTypeOK /\ PooledOnce /\ PooledHeld /\ LeakedHeld /\ LoadedHeld /\ TypeOK
  BY DEF PoolsInv, IInv
<1>2. n \in Nat /\ n > 0 /\ trail[t] \in Seq(Ref) /\ DOMAIN trail[t] = 1 .. n
  BY <1>1 DEF PopRelease, Popping, Borrowed, PoolsTypeOK
<1>3. r \in Ref /\ r \in PooledBy(t) /\ r \in Pooled
  BY <1>2 DEF PooledBy, Pooled
<1>4. /\ trail' = [trail EXCEPT ![t] = SubSeq(@, 1, n - 1)]
      /\ UNCHANGED <<leaked, loaded>> /\ Release(t, r)
  BY DEF PopRelease
<1>5. /\ call' = call
      /\ \A q \in Ref \ {r} : strong'[q] = strong[q] /\ holder'[q] = holder[q]
  BY <1>1, <1>3, <1>4 DEF Release, weakVars, TypeOK
<1>6. \A u \in Thread : \A i \in DOMAIN trail'[u] :
          i \in DOMAIN trail[u] /\ trail'[u][i] = trail[u][i] /\ (u = t => i # n)
  <2>1. trail'[t] = SubSeq(trail[t], 1, n - 1) /\ \A u \in Thread \ {t} : trail'[u] = trail[u]
    BY <1>1, <1>4 DEF PoolsTypeOK
  <2>2. /\ DOMAIN SubSeq(trail[t], 1, n - 1) = 1 .. n - 1
        /\ \A i \in 1 .. n - 1 : SubSeq(trail[t], 1, n - 1)[i] = trail[t][i]
    BY <1>2
  <2>3. \A i \in DOMAIN trail'[t] :
            i \in DOMAIN trail[t] /\ trail'[t][i] = trail[t][i] /\ i # n
    BY <1>2, <2>1, <2>2
  <2> QED BY <2>1, <2>3
<1>7. \A u \in Thread : \A i \in DOMAIN trail'[u] : trail'[u][i] # r
  BY <1>1, <1>2, <1>6 DEF PooledOnce
<1>8. /\ \A u \in Thread : PooledBy(u)' \subseteq PooledBy(u) \ {r}
      /\ Pooled' \subseteq Pooled \ {r}
  BY <1>6, <1>7 DEF PooledBy, Pooled
<1>9. PooledOnce'
  BY <1>1, <1>4, <1>6, <1>8 DEF PooledOnce
<1>10. PooledHeld'
  BY <1>1, <1>5, <1>8, PooledRefs DEF PooledHeld
<1>11. LeakedHeld'
  BY <1>1, <1>3, <1>4, <1>5 DEF LeakedHeld, PooledOnce, PoolsTypeOK
<1>12. LoadedHeld'
  <2>1. \A u \in Thread : loaded[u] # Nil => loaded[u] \in Ref \ {r}
    BY <1>1, <1>3 DEF PooledOnce, PoolsTypeOK
  <2>2. \A u \in Thread : loaded[u] # Nil =>
            strong'[loaded[u]] = strong[loaded[u]] /\ holder'[loaded[u]] = holder[loaded[u]]
    BY <1>5, <2>1
  <2> QED BY <1>1, <1>4, <1>5, <2>2 DEF LoadedHeld
<1> QED BY <1>9, <1>10, <1>11, <1>12

LEMMA LoadWeakStep ==
    ASSUME IInv, PoolsInv, NEW t \in Thread, NEW s \in Slot, NEW r \in Ref, LoadWeak(t, s, r)
    PROVE  PooledOnce' /\ PooledHeld' /\ LeakedHeld' /\ LoadedHeld'
<1>1. PoolsTypeOK /\ PooledOnce /\ PooledHeld /\ LeakedHeld /\ LoadedHeld /\ TypeOK
  BY DEF PoolsInv, IInv
<1>2. /\ loaded' = [loaded EXCEPT ![t] = r] /\ UNCHANGED <<trail, leaked>>
      /\ LoadWeakBegin(t, s, r)
  BY DEF LoadWeak
<1>3. /\ holder[r] = Nil /\ holder' = [holder EXCEPT ![r] = t] /\ strong' = strong
      /\ call'[t].op = "load" /\ call'[t].ref = r
      /\ \A u \in Thread \ {t} : call'[u] = call[u]
  BY <1>1, <1>2 DEF LoadWeakBegin, Idle, TypeOK
<1>4. Pooled' = Pooled /\ \A u \in Thread : PooledBy(u)' = PooledBy(u)
  BY <1>2, SameTrail
<1>5. r \notin Pooled \cup leaked
  BY <1>1, <1>3, NilIsNothing DEF PooledHeld, LeakedHeld, Pooled
<1>6. PooledOnce'
  BY <1>1, <1>2, <1>4, <1>5 DEF PooledOnce, PoolsTypeOK
<1>7. PooledHeld' /\ LeakedHeld'
  BY <1>1, <1>2, <1>3, <1>4, <1>5, PooledRefs DEF PooledHeld, LeakedHeld, TypeOK, PoolsTypeOK
<1>8. LoadedHeld'
  <2>1. \A u \in Thread \ {t} : loaded[u] # Nil => loaded[u] \in Ref \ {r}
    BY <1>1, <1>3, NilIsNothing DEF LoadedHeld, PoolsTypeOK
  <2>2. loaded'[t] = r /\ holder'[r] = t
    BY <1>1, <1>2, <1>3 DEF PoolsTypeOK, TypeOK
  <2>3. \A u \in Thread \ {t} : loaded[u] # Nil => holder'[loaded[u]] = holder[loaded[u]]
    BY <1>1, <1>3, <2>1 DEF TypeOK
  <2>4. \A u \in Thread \ {t} : loaded'[u] = loaded[u]
    BY <1>1, <1>2 DEF PoolsTypeOK
  <2> QED BY <1>1, <1>3, <2>2, <2>3, <2>4 DEF LoadedHeld
<1> QED BY <1>6, <1>7, <1>8

LEMMA LoadWeakRetainedStep ==
    ASSUME IInv, PoolsInv, NEW t \in Thread, LoadWeakRetained(t)
    PROVE  PooledOnce' /\ PooledHeld' /\ LeakedHeld' /\ LoadedHeld'
<1> DEFINE r == loaded[t]
<1>1. PoolsTypeOK /\ PooledOnce /\ PooledHeld /\ LeakedHeld /\ LoadedHeld /\ TypeOK
  BY DEF PoolsInv, IInv
<1>2. /\ LoadWeakEnd(t) /\ r \in Ref /\ r # Nil /\ UNCHANGED <<trail, leaked>>
      /\ loaded' = [loaded EXCEPT ![t] = IF strong'[r] = Nil THEN Nil ELSE r]
  BY <1>1 DEF LoadWeakRetained, PoolsTypeOK
<1>3. call[t].ref = r /\ holder[r] = t /\ strong[r] = Nil
  BY <1>1, <1>2 DEF LoadedHeld, LoadWeakEnd, IInv, CallsAreBacked
<1>4. \A q \in Ref : holder[q] # t \/ strong[q] # Nil =>
          strong'[q] = strong[q] /\ holder'[q] = holder[q]
  BY <1>2, LoadEndKeeps
<1>5. /\ call'[t].op = "idle"
      /\ \A u \in Thread \ {t} : call'[u] = call[u]
      /\ strong'[r] # Nil => holder'[r] = t
  BY <1>1, <1>2, <1>3 DEF LoadWeakEnd, Idle, TypeOK
<1>6. Pooled' = Pooled /\ \A u \in Thread : PooledBy(u)' = PooledBy(u)
  BY <1>2, SameTrail
<1>7. PooledOnce'
  <2>1. \A u \in Thread : loaded'[u] = loaded[u] \/ loaded'[u] = Nil
    BY <1>1, <1>2 DEF PoolsTypeOK
  <2>2. Nil \notin Pooled \cup leaked
    BY <1>1, PooledRefs, NilIsNothing DEF PoolsTypeOK
  <2> QED BY <1>1, <1>2, <1>6, <2>1, <2>2 DEF PooledOnce
<1>8. PooledHeld' /\ LeakedHeld'
  BY <1>1, <1>2, <1>4, <1>6, PooledRefs DEF PooledHeld, LeakedHeld, PoolsTypeOK
<1>9. LoadedHeld'
  <2>1. ASSUME NEW u \in Thread \ {t}, loaded'[u] # Nil
        PROVE  /\ holder'[loaded'[u]] = u
               /\ \/ call'[u].op = "idle" /\ strong'[loaded'[u]] # Nil
                  \/ call'[u].op = "load" /\ call'[u].ref = loaded'[u]
    <3>1. loaded'[u] = loaded[u] /\ loaded[u] \in Ref /\ holder[loaded[u]] = u
      BY <1>1, <1>2, <2>1 DEF PoolsTypeOK, LoadedHeld
    <3>2. strong'[loaded[u]] = strong[loaded[u]] /\ holder'[loaded[u]] = holder[loaded[u]]
      BY <1>4, <3>1
    <3> QED BY <1>1, <1>5, <2>1, <3>1, <3>2 DEF LoadedHeld
  <2>2. loaded'[t] # Nil => loaded'[t] = r /\ strong'[r] # Nil
    BY <1>1, <1>2 DEF PoolsTypeOK
  <2> QED BY <1>5, <2>1, <2>2 DEF LoadedHeld
<1> QED BY <1>7, <1>8, <1>9

\* A thread that ends leaves what is in its pools to nobody.
LEMMA EndThreadStep ==
    ASSUME PoolsInv, NEW t \in Thread, EndThread(t)
    PROVE  PooledOnce' /\ PooledHeld' /\ LeakedHeld' /\ LoadedHeld'
<1>1. PoolsTypeOK /\ PooledOnce /\ PooledHeld /\ LeakedHeld /\ LoadedHeld
  BY DEF PoolsInv
<1>2. /\ leaked' = leaked \cup PooledBy(t) /\ trail' = [trail EXCEPT ![t] = <<>>]
      /\ UNCHANGED <<strong, holder, call, loaded>>
  BY DEF EndThread, vars
<1>3. trail'[t] = <<>> /\ \A u \in Thread \ {t} : trail'[u] = trail[u]
  BY <1>1, <1>2 DEF PoolsTypeOK
<1>4. PooledBy(t)' = {} /\ \A u \in Thread \ {t} : PooledBy(u)' = PooledBy(u)
  BY <1>3 DEF PooledBy
<1>5. Pooled' \subseteq Pooled /\ PooledBy(t) \subseteq Pooled /\ Pooled' \cap PooledBy(t) = {}
  <2>1. Pooled' \subseteq Pooled /\ PooledBy(t) \subseteq Pooled
    BY <1>4 DEF Pooled
  <2>2. \A u \in Thread \ {t} : PooledBy(u) \cap PooledBy(t) = {}
    BY <1>1 DEF PooledHeld
  <2> QED BY <1>4, <2>1, <2>2 DEF Pooled
<1>6. PooledOnce'
  <2>1. \A u, w \in Thread : \A i \in DOMAIN trail'[u], j \in DOMAIN trail'[w] :
            trail'[u][i] = trail'[w][j] => u = w /\ i = j
    BY <1>1, <1>3 DEF PooledOnce
  <2> QED BY <1>1, <1>2, <1>5, <2>1 DEF PooledOnce
<1>7. PooledHeld' /\ LeakedHeld'
  BY <1>1, <1>2, <1>4 DEF PooledHeld, LeakedHeld
<1>8. LoadedHeld'
  BY <1>1, <1>2 DEF LoadedHeld
<1> QED BY <1>6, <1>7, <1>8

--------------------------------------------------------------------------------
(* Pools inside one another.                                                  *)

\* Any thread, and its pools as one list with marks in it.
CONSTANT AnyThread

Scopes == INSTANCE AutoreleaseScopes WITH
    Obj <- Ref, trail <- trail[AnyThread], marks <- marks[AnyThread], drain <- drain[AnyThread]

\* What marks and lists look like after each step on them.
LEMMA MarksInOrder ==
    ASSUME NEW tr \in Seq(Ref), NEW m \in Seq(Nat), NEW d \in Nat \cup {-1}, InOrder(tr, m, d)
    PROVE  /\ d = -1 => InOrder(tr, Append(m, Len(tr)), -1)
           /\ d = -1 => \A r \in Ref : InOrder(Append(tr, r), m, -1)
           /\ d = -1 => \A i \in DOMAIN m : InOrder(tr, SubSeq(m, 1, i - 1), m[i])
           /\ d # -1 /\ Len(tr) > d => InOrder(SubSeq(tr, 1, Len(tr) - 1), m, d)
           /\ Len(tr) <= d => Len(tr) = d /\ InOrder(tr, m, -1)
           /\ InOrder(<<>>, <<>>, -1)
<1>1. /\ Len(tr) \in Nat /\ Len(m) \in Nat /\ d <= Len(tr) /\ DOMAIN m = 1 .. Len(m)
      /\ \A i \in 1 .. Len(m) : /\ m[i] \in Nat /\ m[i] <= IF d = -1 THEN Len(tr) ELSE d
                                /\ \A j \in 1 .. Len(m) : i <= j => m[i] <= m[j]
  BY DEF InOrder
<1>2. ASSUME d = -1 PROVE InOrder(tr, Append(m, Len(tr)), -1)
  <2> DEFINE a == Append(m, Len(tr))
  <2>1. /\ DOMAIN a = 1 .. Len(m) + 1 /\ a[Len(m) + 1] = Len(tr)
        /\ \A i \in 1 .. Len(m) : a[i] = m[i]
    BY <1>1
  <2> HIDE DEF a
  <2> QED BY <1>1, <1>2, <2>1 DEF InOrder, a
<1>3. ASSUME d = -1, NEW r \in Ref PROVE InOrder(Append(tr, r), m, -1)
  <2>1. Len(Append(tr, r)) = Len(tr) + 1
    OBVIOUS
  <2> QED BY <1>1, <1>3, <2>1 DEF InOrder
<1>4. ASSUME d = -1, NEW i \in DOMAIN m PROVE InOrder(tr, SubSeq(m, 1, i - 1), m[i])
  <2> DEFINE a == SubSeq(m, 1, i - 1)
  <2>1. DOMAIN a = 1 .. i - 1 /\ \A j \in 1 .. i - 1 : a[j] = m[j]
    BY <1>1
  <2>2. i \in 1 .. Len(m) /\ m[i] # -1
    BY <1>1
  <2> HIDE DEF a
  <2>3. m[i] <= Len(tr)
    BY <1>1, <1>4, <2>2
  <2>4. \A j \in 1 .. i - 1 : j \in 1 .. Len(m) /\ j <= i /\ m[j] <= m[i]
    BY <1>1, <2>2
  <2>5. \A j, k \in 1 .. i - 1 : j <= k => m[j] <= m[k]
    BY <1>1, <2>4
  <2>6. m[i] # -1 /\ \A j \in DOMAIN a : a[j] <= m[i] /\ \A k \in DOMAIN a : j <= k => a[j] <= a[k]
    <3> SUFFICES ASSUME NEW j \in DOMAIN a
                 PROVE  a[j] <= m[i] /\ \A k \in DOMAIN a : j <= k => a[j] <= a[k]
      BY <2>2
    <3>1. j \in 1 .. i - 1 /\ a[j] = m[j] /\ m[j] <= m[i]
      BY <2>1, <2>4
    <3>2. ASSUME NEW k \in DOMAIN a, j <= k PROVE a[j] <= a[k]
      <4>1. k \in 1 .. i - 1 /\ a[k] = m[k]
        BY <2>1
      <4> QED BY <2>5, <3>1, <3>2, <4>1
    <3> QED BY <3>1, <3>2
  <2>7. InOrder(tr, a, m[i])
    <3> SUFFICES ASSUME NEW e, e = m[i] PROVE InOrder(tr, a, e)
      OBVIOUS
    <3>1. e <= Len(tr) /\ e # -1
      BY <2>3, <2>6
    <3>2. \A j \in DOMAIN a : a[j] <= e /\ \A k \in DOMAIN a : j <= k => a[j] <= a[k]
      BY <2>6
    <3> QED BY <3>1, <3>2 DEF InOrder
  <2> QED BY <2>7 DEF a
<1>5. ASSUME d # -1, Len(tr) > d PROVE InOrder(SubSeq(tr, 1, Len(tr) - 1), m, d)
  <2>1. d \in Nat /\ Len(tr) - 1 \in Nat /\ d <= Len(tr) - 1
    BY <1>1, <1>5
  <2>2. Len(SubSeq(tr, 1, Len(tr) - 1)) = Len(tr) - 1
    <3> SUFFICES ASSUME NEW n, n = Len(tr) - 1 PROVE Len(SubSeq(tr, 1, n)) = n
      OBVIOUS
    <3>1. n \in Nat /\ n <= Len(tr)
      BY <1>1, <2>1
    <3> QED BY <3>1
  <2> QED BY <1>1, <1>5, <2>1, <2>2 DEF InOrder
<1>6. ASSUME Len(tr) <= d PROVE Len(tr) = d /\ InOrder(tr, m, -1)
  BY <1>1, <1>6 DEF InOrder
<1>7. InOrder(<<>>, <<>>, -1)
  BY DEF InOrder
<1> QED BY <1>2, <1>3, <1>4, <1>5, <1>6, <1>7

\* Each step is a step of the scopes of the thread that takes it, or leaves them
\* alone, or ends the thread; and it leaves all others alone.
LEMMA ScopeStep ==
    ASSUME PoolsTypeOK, MarksFit, [PoolsNext]_allVars, NEW u \in Thread
    PROVE  /\ u = AnyThread => [Scopes!Next \/ EndThread(u)]_(Scopes!vars)
           /\ InOrder(trail'[u], marks'[u], drain'[u])
<1>1. /\ trail[u] \in Seq(Ref) /\ marks[u] \in Seq(Nat) /\ drain[u] \in Nat \cup {-1}
      /\ InOrder(trail[u], marks[u], drain[u])
  BY DEF PoolsTypeOK, MarksFit
<1>2. ASSUME UNCHANGED <<trail[u], marks[u], drain[u]>>
      PROVE  /\ u = AnyThread => [Scopes!Next]_(Scopes!vars)
             /\ InOrder(trail'[u], marks'[u], drain'[u])
  BY <1>1, <1>2 DEF Scopes!vars
<1>3. ASSUME UNCHANGED <<trail, marks, drain>>
      PROVE  /\ u = AnyThread => [Scopes!Next]_(Scopes!vars)
             /\ InOrder(trail'[u], marks'[u], drain'[u])
  BY <1>2, <1>3
<1>4. CASE UNCHANGED allVars
  BY <1>3, <1>4 DEF allVars, poolVars
<1>5. ASSUME NEW t \in Thread, Code(t) \/ Runtime(t)
      PROVE  UNCHANGED <<trail, marks, drain>>
  BY <1>5 DEF Code, Runtime, poolVars
<1>6. ASSUME NEW t \in Thread, PoolStep(t), t # u
      PROVE  UNCHANGED <<trail[u], marks[u], drain[u]>>
  BY <1>6 DEF PoolsTypeOK, PoolStep, AutoreleaseRef, PopStart, LoadWeak, Push, PopRelease, PopReturn,
              LoadWeakRetained, LoadWeakPool, PoolsWhileBorrowed, EndThread, Deposit
<1>7. ASSUME NEW r \in Ref, Deposit(u, r), ~Borrowed(u), UNCHANGED <<marks, drain>>
      PROVE  /\ u = AnyThread => [Scopes!Next]_(Scopes!vars)
             /\ InOrder(trail'[u], marks'[u], drain'[u])
  <2>1. drain[u] = -1 /\ UNCHANGED <<marks[u], drain[u]>>
    BY <1>7 DEF Borrowed
  <2>2. CASE marks[u] = <<>>
    <3>1. UNCHANGED trail
      BY <1>7, <2>2 DEF Deposit
    <3> QED BY <1>2, <1>7, <3>1
  <2>3. CASE marks[u] # <<>>
    <3>1. trail'[u] = Append(trail[u], r)
      BY <1>7, <2>3 DEF Deposit, PoolsTypeOK
    <3>2. u = AnyThread => Scopes!Add(r)
      BY <2>1, <2>3, <3>1 DEF Scopes!Add
    <3>3. InOrder(trail'[u], marks'[u], drain'[u])
      BY <1>1, <2>1, <3>1, MarksInOrder
    <3> QED BY <3>2, <3>3 DEF Scopes!Next
  <2> QED BY <2>2, <2>3
<1>8. ASSUME NEW r \in Ref, AutoreleaseRef(u, r)
      PROVE  /\ u = AnyThread => [Scopes!Next]_(Scopes!vars)
             /\ InOrder(trail'[u], marks'[u], drain'[u])
  BY <1>7, <1>8 DEF AutoreleaseRef
<1>9. ASSUME LoadWeakPool(u)
      PROVE  /\ u = AnyThread => [Scopes!Next]_(Scopes!vars)
             /\ InOrder(trail'[u], marks'[u], drain'[u])
  <2>1. CASE Borrowed(u)
    BY <1>2, <1>9, <2>1 DEF LoadWeakPool
  <2>2. CASE ~Borrowed(u)
    <3>1. loaded[u] \in Ref
      BY <1>9 DEF LoadWeakPool, PoolsTypeOK
    <3>2. Deposit(u, loaded[u]) /\ UNCHANGED <<marks, drain>>
      BY <1>9, <2>2 DEF LoadWeakPool
    <3> QED BY <1>7, <2>2, <3>1, <3>2
  <2> QED BY <2>1, <2>2
<1>10. ASSUME Push(u)
       PROVE  (u = AnyThread => Scopes!Open) /\ InOrder(trail'[u], marks'[u], drain'[u])
  <2>1. /\ drain[u] = -1 /\ marks'[u] = Append(marks[u], Len(trail[u]))
        /\ UNCHANGED <<trail[u], drain[u]>>
    BY <1>10 DEF Push, Borrowed, PoolsTypeOK
  <2> QED BY <1>1, <2>1, MarksInOrder DEF Scopes!Open
<1>11. ASSUME NEW i \in DOMAIN marks[u], PopStart(u, i)
       PROVE  (u = AnyThread => Scopes!Close(i)) /\ InOrder(trail'[u], marks'[u], drain'[u])
  <2>1. /\ drain[u] = -1 /\ drain'[u] = marks[u][i] /\ marks'[u] = SubSeq(marks[u], 1, i - 1)
        /\ UNCHANGED trail[u]
    BY <1>11 DEF PopStart, Borrowed, PoolsTypeOK
  <2> QED BY <1>1, <2>1, MarksInOrder DEF Scopes!Close
<1>12. ASSUME PopRelease(u)
       PROVE  (u = AnyThread => Scopes!Drop) /\ InOrder(trail'[u], marks'[u], drain'[u])
  <2>1. /\ drain[u] # -1 /\ Len(trail[u]) > drain[u]
        /\ trail'[u] = SubSeq(trail[u], 1, Len(trail[u]) - 1)
        /\ UNCHANGED <<marks[u], drain[u]>>
    BY <1>12 DEF PopRelease, Popping, Borrowed, PoolsTypeOK
  <2> QED BY <1>1, <2>1, MarksInOrder DEF Scopes!Drop, Scopes!Front
<1>13. ASSUME PopReturn(u)
       PROVE  (u = AnyThread => Scopes!Drained) /\ InOrder(trail'[u], marks'[u], drain'[u])
  <2>1. /\ drain[u] # -1 /\ Len(trail[u]) <= drain[u] /\ drain'[u] = -1
        /\ UNCHANGED <<trail[u], marks[u]>>
    BY <1>13 DEF PopReturn, Popping, Borrowed, PoolsTypeOK
  <2> QED BY <1>1, <2>1, MarksInOrder DEF Scopes!Drained
<1>14. ASSUME EndThread(u)
       PROVE  InOrder(trail'[u], marks'[u], drain'[u])
  <2>1. trail'[u] = <<>> /\ marks'[u] = <<>> /\ drain'[u] = -1
    BY <1>14 DEF EndThread, Borrowed, PoolsTypeOK
  <2> QED BY <1>1, <2>1, MarksInOrder
<1>15. ASSUME PoolStep(u)
       PROVE  /\ u = AnyThread => [Scopes!Next \/ EndThread(u)]_(Scopes!vars)
              /\ InOrder(trail'[u], marks'[u], drain'[u])
  <2>1. CASE \E r \in Ref : AutoreleaseRef(u, r)
    BY <1>8, <2>1
  <2>2. CASE LoadWeakPool(u)
    BY <1>9, <2>2
  <2>3. CASE Push(u)
    BY <1>10, <2>3 DEF Scopes!Next
  <2>4. CASE \E i \in DOMAIN marks[u] : PopStart(u, i)
    BY <1>11, <2>4 DEF Scopes!Next
  <2>5. CASE PopRelease(u)
    BY <1>12, <2>5 DEF Scopes!Next
  <2>6. CASE PopReturn(u)
    BY <1>13, <2>6 DEF Scopes!Next
  <2>7. CASE EndThread(u)
    BY <1>14, <2>7
  <2>8. CASE LoadWeakRetained(u) \/ PoolsWhileBorrowed(u) \/ \E s \in Slot, r \in Ref : LoadWeak(u, s, r)
    BY <1>3, <2>8 DEF LoadWeakRetained, PoolsWhileBorrowed, LoadWeak
  <2> QED BY <1>15, <2>1, <2>2, <2>3, <2>4, <2>5, <2>6, <2>7, <2>8 DEF PoolStep
<1>17. CASE PoolsNext
  <2>1. PICK t \in Thread : Code(t) \/ Runtime(t) \/ PoolStep(t)
    BY <1>17 DEF PoolsNext
  <2>2. CASE Code(t) \/ Runtime(t)
    BY <1>3, <1>5, <2>2
  <2>3. CASE PoolStep(t) /\ t # u
    BY <1>2, <1>6, <2>3
  <2>4. CASE PoolStep(t) /\ t = u
    BY <1>15, <2>4
  <2> QED BY <2>1, <2>2, <2>3, <2>4
<1> QED BY <1>4, <1>17

--------------------------------------------------------------------------------
(* The theorems.                                                              *)

LEMMA PoolsInvStep == IInv /\ PoolsInv /\ [PoolsNext]_allVars => PoolsInv'
<1> SUFFICES ASSUME IInv, PoolsInv, [PoolsNext]_allVars PROVE PoolsInv'
  OBVIOUS
<1>1. PoolsTypeOK' /\ MarksFit'
  <2>1. PoolsTypeOK'
    BY PoolsTypeStep DEF IInv, PoolsInv
  <2>2. MarksFit'
    BY ScopeStep DEF PoolsInv, MarksFit
  <2> QED BY <2>1, <2>2
<1>2. CASE PoolsNext
  <2>1. PICK t \in Thread : Code(t) \/ Runtime(t) \/ PoolStep(t)
    BY <1>2 DEF PoolsNext
  <2>2. CASE Code(t) \/ Runtime(t)
    BY <1>1, <2>2, CodeRuntimeStep DEF PoolsInv
  <2>3. CASE PoolStep(t)
    BY <1>1, <2>3, AutoreleaseStep, LoadWeakPoolStep, QuietStep, PopReleaseStep, LoadWeakStep,
       LoadWeakRetainedStep, EndThreadStep DEF PoolsInv, PoolStep
  <2> QED BY <2>1, <2>2, <2>3
<1>3. CASE UNCHANGED allVars
  <2>1. UNCHANGED <<strong, holder, call, trail, leaked, loaded>>
    BY <1>3 DEF allVars, vars, poolVars
  <2>2. Pooled' = Pooled /\ \A u \in Thread : PooledBy(u)' = PooledBy(u)
    BY <2>1, SameTrail
  <2> QED BY <1>1, <2>1, <2>2 DEF PoolsInv, PooledOnce, PooledHeld, LeakedHeld, LoadedHeld
<1> QED BY <1>2, <1>3

LEMMA PoolsInvInit == PoolsInit => PoolsInv
<1> SUFFICES ASSUME PoolsInit PROVE PoolsInv
  OBVIOUS
<1>1. PoolsTypeOK
  <2>1. <<>> \in Seq(Ref) /\ <<>> \in Seq(Nat)
    OBVIOUS
  <2> QED BY <2>1 DEF PoolsInit, PoolsTypeOK
<1>2. \A t \in Thread : trail[t] = <<>> /\ loaded[t] = Nil /\ PooledBy(t) = {}
  BY DEF PoolsInit, PooledBy
<1>3. Pooled = {} /\ leaked = {}
  BY <1>2 DEF Pooled, PoolsInit
<1>4. MarksFit
  BY DEF PoolsInit, MarksFit, InOrder
<1> QED BY <1>1, <1>2, <1>3, <1>4 DEF PoolsInv, PooledOnce, PooledHeld, LeakedHeld, LoadedHeld

\* A reference in a pool, leaked or about to be pooled is in that one place, and
\* still its thread's (objc_autorelease, objc_autorelease_pool_pop, objc_load_weak).
THEOREM PoolsInvariance == RulesKept => (PoolsSpec => []PoolsInv)
<1> SUFFICES ASSUME RulesKept PROVE PoolsSpec => []PoolsInv
  OBVIOUS
<1>1. IInv /\ PoolsInv /\ [PoolsNext]_allVars => PoolsInv'
  BY PoolsInvStep
<1>2. PoolsSpec => []IInv
  BY Invariance, PoolsUseSideTable, PTL
<1> QED BY <1>1, <1>2, PoolsInvInit, PTL DEF PoolsSpec

\* No reference is in two pools, or twice in one: none is released twice by pops
\* (objc_autorelease, objc_autorelease_pool_pop).
THEOREM PoolsShareNothing == RulesKept => (PoolsSpec => []PooledOnce)
<1>1. PoolsInv => PooledOnce
  BY DEF PoolsInv
<1> QED BY <1>1, PoolsInvariance, PTL

\* What a pool holds is live until the pool releases it, and so is what
\* objc_loadWeak returns, whatever other threads release or zero meanwhile.
THEOREM PooledObjectsLive == RulesKept => (PoolsSpec => []PooledIsLive)
<1>1. IInv /\ PoolsInv => PooledIsLive
  <2> SUFFICES ASSUME IInv, PoolsInv, NEW t \in Thread
               PROVE  /\ \A r \in PooledBy(t) :
                            holder[r] = t /\ strong[r] # Nil /\ stage[strong[r]] = "live"
                      /\ loaded[t] # Nil /\ call[t].op = "idle" =>
                            strong[loaded[t]] # Nil /\ stage[strong[loaded[t]]] = "live"
    BY DEF PooledIsLive
  <2>1. PooledBy(t) \subseteq Ref
    BY PooledRefs DEF PoolsInv
  <2> QED BY <2>1 DEF PoolsInv, PooledHeld, LoadedHeld, PoolsTypeOK, IInv, OwnedIsLive
<1>2. RulesKept => (PoolsSpec => []IInv)
  BY Invariance, PoolsUseSideTable, PTL
<1> QED BY <1>1, <1>2, PoolsInvariance, PTL

\* The pools of any thread behave as one list with marks in it, whatever the
\* others do with the same objects: what is autoreleased is released in reverse
\* order, back to the mark that was popped and no further, until the thread ends
\* (src/autorelease.rs, POOL_STACK being thread-local).
THEOREM ThreadsPoolsAreScopes ==
    AnyThread \in Thread =>
        (PoolsSpec => Scopes!Init /\ [][Scopes!Next \/ EndThread(AnyThread)]_(Scopes!vars))
<1> SUFFICES ASSUME AnyThread \in Thread
             PROVE  PoolsSpec => Scopes!Init /\ [][Scopes!Next \/ EndThread(AnyThread)]_(Scopes!vars)
  OBVIOUS
<1>1. PoolsInit => MarksFit /\ Scopes!Init
  BY DEF PoolsInit, MarksFit, InOrder, Scopes!Init
<1>2. PoolsTypeOK /\ MarksFit /\ [PoolsNext]_allVars =>
        MarksFit' /\ [Scopes!Next \/ EndThread(AnyThread)]_(Scopes!vars)
  BY ScopeStep DEF MarksFit
<1> QED BY <1>1, <1>2, PoolsUseSideTable, PTL DEF PoolsSpec

\* Pools and the entry points built on them are callers like any other: with
\* them too the runtime keeps the promise of atomic reference counting with
\* weak references cleared in the step that gives up the last owner.
THEOREM PoolsKeepPromise == RulesKept /\ ~RacyStores => (PoolsSpec => Promise!Spec)
BY PoolsUseSideTable, PromiseIsKept, PTL
================================================================================
