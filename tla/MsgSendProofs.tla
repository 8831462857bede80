----------------------------- MODULE MsgSendProofs -----------------------------
(***************************************************************************)
(* Theorems about MsgSend, for every stack, every contents of registers    *)
(* and every outcome of the lookup.                                        *)
(***************************************************************************)
EXTENDS MsgSend, TLAPS

\* A frame is aligned, and lane l is saved 8 l bytes into it, below the return
\* address of the caller and on the stack.
LEMMA FrameLayout ==
    ASSUME IInv, pc \notin {"test", "returned", "callee"}
    PROVE  /\ rsp \in Int /\ entry.rsp \in Int /\ rsp = entry.rsp - 184
           /\ rsp % 16 = 0 /\ rsp % 8 = 0
           /\ \A l \in Lane : rsp + 8 * l \in Word /\ rsp + 8 * l < entry.rsp
<1> USE DEF Lane
<1>1. /\ entry \in Entries /\ entry.rsp \in Int /\ entry.rsp % 16 = 8
      /\ rsp = entry.rsp - 184
  BY EnteredByCall, WordsOfStack DEF IInv, TypeOK, StackPointer, NeverMisaligned, FrameSize
<1>2. rsp \in Int /\ rsp % 16 = 0 /\ rsp % 8 = 0
  BY <1>1
<1>3. ASSUME NEW l \in Lane PROVE rsp + 8 * l \in Word /\ rsp + 8 * l < entry.rsp
  <2> DEFINE top == entry.rsp
             a == rsp + 8 * l
  <2>1. top \in Int /\ rsp \in Int /\ rsp = top - 184 /\ l \in Int /\ 0 <= l /\ l <= 21
    BY <1>1, <1>2
  <2>2. a \in Int /\ a % 8 = 0
    BY <2>1, <1>2
  <2>3. \A b \in top - (184 + 8 + 128) .. top : b % 8 = 0 => b \in Word
    BY <1>1, EnteredByCall
  <2> HIDE DEF top
  <2>4. a \in top - (184 + 8 + 128) .. top /\ a < top
    BY <2>1
  <2> HIDE DEF a
  <2> QED
    BY <2>2, <2>3, <2>4 DEF top, a
<1> QED
  BY <1>1, <1>2, <1>3

\* A move never faults, and its lanes' homes are where FrameLayout says.
LEMMA MoveLayout ==
    ASSUME IInv, pc \in {"save", "restore"}
    PROVE  /\ ~Faults(at)
           /\ \A l \in Lanes(at) : l \in Lane /\ Home(at, l) = rsp + 8 * l
           /\ \A l \in Lane : l \in Lanes(at) <=> First(at) <= l /\ l < First(at + 1)
           /\ First(0) = 0 /\ First(14) = 22 /\ First(at) \in Int
           /\ First(at) < First(at + 1)
<1>1. at \in 0 .. 13
  BY DEF IInv, TypeOK
<1>2. rsp \in Int /\ rsp % 16 = 0
  BY FrameLayout
<1> QED
  BY <1>1, <1>2 DEF Faults, Offset, Home, First, Lanes, Lane

\* What a step that writes only below rsp leaves of the frame and the caller's.
LEMMA BelowFrame ==
    ASSUME IInv, pc \notin {"test", "returned", "callee"},
           NEW low \in Int, low <= rsp,
           mem' = [a \in Word |-> IF a < low THEN Junk ELSE mem[a]]
    PROVE  /\ \A l \in Lane : mem'[rsp + 8 * l] = mem[rsp + 8 * l]
           /\ \A a \in Word : a >= entry.rsp => mem'[a] = mem[a]
           /\ mem' \in [Word -> Value]
<1>1. mem \in [Word -> Value]
  BY DEF IInv, TypeOK
<1>2. \A a \in Word : a \in Int
  BY WordsOfStack
<1>3. rsp \in Int /\ entry.rsp \in Int /\ rsp < entry.rsp
  BY FrameLayout
<1>4. mem' \in [Word -> Value] /\ \A a \in Word : a >= low => mem'[a] = mem[a]
  BY <1>1, <1>2, ValuesOfNote
<1>5. ASSUME NEW l \in Lane PROVE mem'[rsp + 8 * l] = mem[rsp + 8 * l]
  <2>1. rsp + 8 * l \in Word /\ rsp + 8 * l >= low
    BY FrameLayout, <1>3 DEF Lane
  <2> QED
    BY <2>1, <1>4
<1>6. ASSUME NEW a \in Word, a >= entry.rsp PROVE mem'[a] = mem[a]
  BY <1>2, <1>3, <1>4, <1>6
<1> QED
  BY <1>4, <1>5, <1>6

\* The invariant holds at entry.
LEMMA InitInvariant == Init => IInv
<1> SUFFICES ASSUME Init PROVE IInv
  OBVIOUS
<1>1. /\ entry \in [lane : [Lane -> Value], rax : Value, rsp : Word, mem : [Word -> Value]]
      /\ entry.rsp \in Int
  BY EnteredByCall, WordsOfStack DEF Init
<1> QED
  BY <1>1, ValuesOfNote DEF Init, IInv, TypeOK, NeverMisaligned, StackPointer, CallerFrame,
       Progress, Kept, NilGivesZero, Over, Lane

\* Every step keeps the invariant, and the caller's frame with it.
LEMMA StepInvariant == ASSUME IInv, [Next]_vars PROVE IInv'
<1> USE DEF IInv
<1>a. entry \in [lane : [Lane -> Value], rax : Value, rsp : Word, mem : [Word -> Value]]
  BY EnteredByCall DEF TypeOK
<1>b. \A a \in Word : a \in Int
  BY WordsOfStack
<1>c. {rdi, rsi, rdx} \cup xmm(0) \cup xmm(1) \subseteq Lane
  BY DEF Lane, rdi, rsi, rdx, xmm
<1>0. /\ entry.rsp \in Int
      /\ entry.lane \in [Lane -> Value] /\ entry.mem \in [Word -> Value]
      /\ lane \in [Lane -> Value] /\ rsp \in Int /\ \A a \in Word : a \in Int
      /\ {rdi, rsi, rdx} \cup xmm(0) \cup xmm(1) \subseteq Lane
  BY <1>a, <1>b, <1>c DEF TypeOK
<1>1. CASE ReturnNil
  <2> USE <1>1 DEF ReturnNil
  <2>1. TypeOK' /\ NeverMisaligned' /\ CallerFrame'
    BY <1>0, ValuesOfNote DEF TypeOK, NeverMisaligned, CallerFrame, Over
  <2>2. StackPointer'
    BY <1>0 DEF StackPointer
  <2>3. Progress' /\ NilGivesZero'
    BY <1>0 DEF Progress, Kept, NilGivesZero, NilResult, StackPointer, Over, Lane, rdi
  <2> QED
    BY <2>1, <2>2, <2>3
<1>2. CASE Enter
  <2> USE <1>2 DEF Enter
  <2>1. TypeOK' /\ NeverMisaligned' /\ CallerFrame' /\ StackPointer'
    BY <1>0 DEF TypeOK, NeverMisaligned, CallerFrame, StackPointer, FrameSize, Over
  <2>2. Progress' /\ NilGivesZero'
    BY <1>0 DEF Progress, Kept, Saved, First, NilGivesZero, Over, Lane, rdi
  <2> QED
    BY <2>1, <2>2
<1>3. CASE Save
  <2> USE <1>3 DEF Save, Move
  <2> DEFINE home(l) == rsp + 8 * l
  <2>1. /\ ~Faults(at) /\ at \in 0 .. 13
        /\ \A l \in Lanes(at) : l \in Lane /\ Home(at, l) = home(l)
        /\ \A l \in Lane : l \in Lanes(at) <=> First(at) <= l /\ l < First(at + 1)
        /\ First(0) = 0 /\ First(14) = 22
    BY MoveLayout DEF TypeOK
  <2>2. \A l \in Lane : home(l) \in Word /\ home(l) < entry.rsp
    BY FrameLayout
  <2>3. \A l, k \in Lane : home(l) = home(k) => l = k
    BY <1>0 DEF Lane
  <2>4. ASSUME NEW l \in Lane
        PROVE mem'[home(l)] = IF l \in Lanes(at) THEN lane[l] ELSE mem[home(l)]
    BY <2>1, <2>2, <2>3
  <2>5. ASSUME NEW a \in Word, a >= entry.rsp PROVE mem'[a] = mem[a]
    BY <2>1, <2>2, <2>5, <1>0
  <2>6. mem' \in [Word -> Value]
    <3>1. ASSUME NEW a \in Word PROVE mem'[a] \in Value
      BY <2>1, <1>0 DEF TypeOK
    <3> QED
      BY <3>1
  <2>7. TypeOK' /\ NeverMisaligned' /\ CallerFrame' /\ StackPointer'
    BY <2>1, <2>5, <2>6, <1>0 DEF TypeOK, NeverMisaligned, CallerFrame, StackPointer, Over
  <2>8. Kept(22)
    BY DEF Progress
  <2>9. Saved(First(at))
    BY DEF Progress
  <2>10. \A l \in Lane : l < First(at + 1) => mem'[home(l)] = entry.lane[l]
    <3>1. \A l \in Lane : l < First(at + 1) => l < First(at) \/ l \in Lanes(at)
      BY <2>1, MoveLayout DEF Lane
    <3>2. \A l \in Lane : l \notin Lanes(at) /\ l < First(at) => mem'[home(l)] = entry.lane[l]
      BY <2>4, <2>9 DEF Saved
    <3>3. \A l \in Lane : l \in Lanes(at) => mem'[home(l)] = entry.lane[l]
      <4>1. \A l \in Lane : lane[l] = entry.lane[l]
        BY <2>8 DEF Kept, Lane
      <4> QED
        BY <2>4, <4>1
    <3> QED
      BY <3>1, <3>2, <3>3
  <2>11. IF at = 13 THEN pc' = "call" /\ at' = 0 ELSE pc' = "save" /\ at' = at + 1
    BY <2>1
  <2>12. Progress'
    <3>1. Kept(22)'
      BY <2>8 DEF Kept
    <3>2. CASE at = 13
      <4>1. First(at + 1) = 22
        BY <2>1, <3>2
      <4>2. rsp' = rsp /\ entry' = entry /\ \A l \in Lane : l < 22 => mem'[home(l)] = entry.lane[l]
        BY <2>10, <4>1
      <4>3. Saved(22)'
        BY ONLY <4>2 DEF Saved
      <4> QED
        BY <2>11, <3>1, <3>2, <4>3 DEF Progress
    <3>3. CASE at # 13
      <4>1. Saved(First(at))'
        BY <2>1, <2>10, <2>11, <3>3 DEF Saved, First
      <4> QED
        BY <2>1, <2>11, <3>1, <3>3, <4>1 DEF Progress
    <3> QED
      BY <3>2, <3>3
  <2>13. NilGivesZero'
    BY <2>11 DEF NilGivesZero, Over
  <2> QED
    BY <2>7, <2>12, <2>13
<1>4. CASE CallLookup
  <2> USE <1>4 DEF CallLookup
  <2>0. rsp % 16 = 0
    BY FrameLayout
  <2>1. /\ rsp % 16 = 0
        /\ \A l \in Lane : mem'[rsp + 8 * l] = mem[rsp + 8 * l]
        /\ \A a \in Word : a >= entry.rsp => mem'[a] = mem[a]
        /\ mem' \in [Word -> Value]
    <3>1. mem' = [a \in Word |-> IF a < rsp THEN Junk ELSE mem[a]] /\ rsp <= rsp
      BY <1>0
    <3> QED
      BY <2>0, <3>1, BelowFrame, <1>0
  <2>2. Find(lane[rdi], lane[rsi]) = IMP /\ IMP \in Value \cup {Absent}
    BY LookupFinds, <1>0 DEF IMP, Progress, Kept, Lane, rdi, rsi
  <2>3. TypeOK' /\ NeverMisaligned' /\ CallerFrame' /\ StackPointer'
    BY <2>1, <2>2, <1>0, ValuesOfNote DEF TypeOK, NeverMisaligned, CallerFrame, StackPointer, Over
  <2>4. IMP' = IMP
    BY DEF IMP
  <2>5. Saved(22)'
    BY <2>1 DEF Progress, Saved
  <2>6. Kept(First(at))'
    BY DEF Progress, Kept, First, Lane
  <2>7. Progress' /\ NilGivesZero'
    BY <2>1, <2>2, <2>4, <2>5, <2>6 DEF Progress, NilGivesZero, Over
  <2> QED
    BY <2>3, <2>7
<1>5. CASE Restore
  <2> USE <1>5 DEF Restore, Move
  <2>1. /\ ~Faults(at) /\ at \in 0 .. 13
        /\ \A l \in Lanes(at) : l \in Lane /\ Home(at, l) = rsp + 8 * l
        /\ \A l \in Lane : l \in Lanes(at) <=> First(at) <= l /\ l < First(at + 1)
        /\ First(0) = 0 /\ First(14) = 22
    BY MoveLayout DEF TypeOK
  <2>2. Saved(22) /\ Kept(First(at)) /\ r11 = IMP /\ IMP # Absent
    BY DEF Progress
  <2>3. \A l \in Lane : lane'[l] = IF l \in Lanes(at) THEN entry.lane[l] ELSE lane[l]
    BY <2>1, <2>2 DEF Saved, Lane
  <2>4. lane' \in [Lane -> Value]
    BY <2>3, <1>0
  <2>5. TypeOK' /\ NeverMisaligned' /\ CallerFrame' /\ StackPointer'
    BY <2>1, <2>4, <1>0 DEF TypeOK, NeverMisaligned, CallerFrame, StackPointer, Over
  <2>6. \A l \in Lane : l < First(at + 1) => lane'[l] = entry.lane[l]
    BY <2>1, <2>2, <2>3, <1>0 DEF Kept, Lane, First
  <2>7. IF at = 13 THEN pc' = "jump" /\ at' = 0 ELSE pc' = "restore" /\ at' = at + 1
    BY <2>1
  <2>8. Progress' /\ NilGivesZero'
    BY <2>1, <2>2, <2>6, <2>7, <1>0 DEF Progress, Kept, Saved, IMP, NilGivesZero, Over, Lane
  <2> QED
    BY <2>5, <2>8
<1>6. CASE Jump
  <2> USE <1>6 DEF Jump
  <2>1. TypeOK' /\ NeverMisaligned' /\ CallerFrame' /\ StackPointer'
    BY <1>0 DEF TypeOK, NeverMisaligned, CallerFrame, StackPointer, FrameSize, Over
  <2>2. Progress' /\ NilGivesZero'
    BY <1>0 DEF Progress, Kept, IMP, NilGivesZero, Over, Lane
  <2> QED
    BY <2>1, <2>2
<1>7. CASE Signal
  <2> USE <1>7 DEF Signal
  <2>1. CASE pc = "test"
    <3>1. mem' \in [Word -> Value] /\ CallerFrame'
      BY <2>1, <1>0, ValuesOfNote DEF TypeOK, CallerFrame, StackPointer
    <3> QED
      BY <2>1, <3>1 DEF TypeOK, NeverMisaligned, StackPointer, Progress, Kept, NilGivesZero, Over
  <2>2. CASE pc # "test"
    <3>1. /\ \A l \in Lane : mem'[rsp + 8 * l] = mem[rsp + 8 * l]
          /\ \A a \in Word : a >= entry.rsp => mem'[a] = mem[a]
          /\ mem' \in [Word -> Value]
      BY BelowFrame, <2>2, <1>0 DEF Over
    <3>2. TypeOK' /\ NeverMisaligned' /\ CallerFrame' /\ StackPointer'
      BY <3>1 DEF TypeOK, NeverMisaligned, CallerFrame, StackPointer
    <3>3. Progress' /\ NilGivesZero'
      BY <3>1 DEF Progress, Kept, Saved, IMP, NilGivesZero, Over
    <3> QED
      BY <3>2, <3>3
  <2> QED
    BY <2>1, <2>2
<1>8. CASE UNCHANGED vars
  BY <1>8 DEF vars, TypeOK, NeverMisaligned, StackPointer, CallerFrame, Progress, Kept, Saved,
              IMP, NilGivesZero
<1> QED
  BY <1>1, <1>2, <1>3, <1>4, <1>5, <1>6, <1>7, <1>8 DEF Next, Instruction

\* The invariant of MsgSend: the stack pointer, the frame, the registers and the
\* place of the thread agree, whatever is sent to whom.
THEOREM Invariant == Spec => []IInv
<1>1. IInv /\ [Next]_vars => IInv'
  BY StepInvariant
<1> QED
  BY InitInvariant, <1>1, PTL DEF Spec

\* The IMP is entered with the arguments, the stack and the return address the
\* caller entered objc_msgSend with.
THEOREM ArgumentsReachCallee == Spec => []CalleeSeesArguments
<1>1. IInv => CalleeSeesArguments
  <2> SUFFICES ASSUME IInv, pc = "callee"
               PROVE /\ lane = entry.lane /\ rsp = entry.rsp
                     /\ \A a \in Word : a >= rsp => mem[a] = entry.mem[a]
                     /\ r11 = IMP /\ IMP # Absent
    BY DEF CalleeSeesArguments
  <2>1. rsp = entry.rsp /\ Kept(22) /\ r11 = IMP /\ IMP # Absent /\ CallerFrame
    BY DEF IInv, StackPointer, Progress
  <2>2. lane \in [Lane -> Value] /\ entry.lane \in [Lane -> Value]
    BY EnteredByCall DEF IInv, TypeOK
  <2>3. lane = entry.lane
    BY <2>1, <2>2 DEF Kept, Lane
  <2> QED
    BY <2>1, <2>3 DEF CallerFrame
<1> QED
  BY Invariant, <1>1, PTL

\* No access or call of the trampoline is misaligned.
THEOREM Aligned == Spec => []NeverMisaligned
<1>1. IInv => NeverMisaligned
  BY DEF IInv
<1> QED
  BY Invariant, <1>1, PTL

\* A message to nil, and only to nil, returns zero to its caller.
THEOREM NilReturnsZero == Spec => []NilGivesZero
<1>1. IInv => NilGivesZero
  BY DEF IInv
<1> QED
  BY Invariant, <1>1, PTL

\* The trampoline never writes to the frame of its caller.
THEOREM CallerFrameUntouched == Spec => CallerFrameKept
<1>1. IInv /\ [Next]_vars => CallerFrameStep
  <2> SUFFICES ASSUME IInv, [Next]_vars, NEW a \in Word, a >= entry.rsp
               PROVE mem'[a] = mem[a]
    BY DEF CallerFrameStep
  <2>1. IInv'
    BY StepInvariant
  <2>2. entry' = entry
    BY DEF Next, Instruction, ReturnNil, Enter, Save, Move, CallLookup, Restore, Jump, Signal, vars
  <2> QED
    BY <2>1, <2>2 DEF IInv, CallerFrame
<1> QED
  BY Invariant, <1>1, PTL DEF CallerFrameKept, Spec
================================================================================
