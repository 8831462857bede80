-------------------------------- MODULE MsgSend --------------------------------
(***************************************************************************)
(* The message-send trampoline objc_msgSend (src/msg_send.rs): the         *)
(* registers and the stack of one thread on x86-64, System V ABI.          *)
(*                                                                         *)
(* Registers that carry arguments are cut into lanes of eight bytes, in    *)
(* the order the trampoline saves them: lanes 0 to 5 are rdi, rsi, rdx,    *)
(* rcx, r8 and r9, and lanes 6 + 2k and 7 + 2k the halves of xmm<k>.  The  *)
(* stack is a map from the addresses of its eight-byte words.  Each move   *)
(* to or from the stack is a step; neighbouring instructions that only     *)
(* touch registers are one.                                                *)
(*                                                                         *)
(* Between any two steps a signal handler may run on the same stack; the   *)
(* kernel keeps the registers and the 128 bytes below rsp from it.         *)
(***************************************************************************)
EXTENDS Integers

CONSTANTS
    Value,      \* the contents of a lane or of a word of the stack
    Zero,       \* nil, and the number 0
    Junk,       \* whatever somebody else leaves behind
    Absent,     \* the lookup finds no method
    Find(_, _), \* the IMP found for a receiver and a selector, or Absent
    Word,       \* the addresses of the thread's stack
    Entries     \* the machine states a caller may enter the trampoline in

Lane == 0 .. 21
rdi == 0
rsi == 1
rdx == 2
xmm(k) == {6 + 2 * k, 7 + 2 * k}

ASSUME ValuesOfNote == {Zero, Junk} \subseteq Value
ASSUME AbsentIsNoValue == Absent \notin Value
ASSUME LookupFinds == \A v, w \in Value : Find(v, w) \in Value \cup {Absent}
ASSUME WordsOfStack == Word \subseteq {a \in Int : a % 8 = 0}

\* A caller has executed `call': rsp points at the return address, 8 bytes off
\* a multiple of 16, and the stack has room for the frame, the call and a
\* handler's red zone.
ASSUME EnteredByCall ==
    \A e \in Entries :
        /\ e \in [lane : [Lane -> Value], rax : Value, rsp : Word, mem : [Word -> Value]]
        /\ e.rsp % 16 = 8
        /\ \A a \in e.rsp - (184 + 8 + 128) .. e.rsp : a % 8 = 0 => a \in Word

VARIABLES
    pc,         \* what the thread is about to execute
    at,         \* which of the fourteen moves of the save or restore is next
    lane,       \* the argument registers
    rax, r11,
    rsp,
    mem,        \* the stack
    entry       \* the machine state at entry

vars == <<pc, at, lane, rax, r11, rsp, mem, entry>>

\* Where control is when the trampoline is over: in the IMP, back in the
\* caller, stopped by abort(), or by the fault of a misaligned access.
Over == {"callee", "returned", "aborted", "fault"}

Init ==
    /\ entry \in Entries
    /\ pc = "test"
    /\ at = 0
    /\ lane = entry.lane
    /\ rax = entry.rax
    /\ r11 = Junk
    /\ rsp = entry.rsp
    /\ mem = entry.mem

--------------------------------------------------------------------------------
(* The trampoline.                                                            *)

\* Mutant: the second word of a struct result is left alone.
NilResultNarrow == xmm(0) \cup xmm(1)

NilResult == {rdx} \cup xmm(0) \cup xmm(1)

\* A nil receiver: zero rax and the other result registers, and return.
ReturnNil ==
    /\ pc = "test" /\ lane[rdi] = Zero
    /\ pc' = "returned"
    /\ rax' = Zero
    /\ lane' = [l \in Lane |-> IF l \in NilResult THEN Zero ELSE lane[l]]
    /\ rsp' = rsp + 8
    /\ UNCHANGED <<at, r11, mem, entry>>

\* Mutants: what is saved and no padding, and one word less than is saved.
FrameUnpadded == 176
FrameShort == 168

FrameSize == 184

Enter ==
    /\ pc = "test" /\ lane[rdi] # Zero
    /\ pc' = "save"
    /\ rsp' = rsp - FrameSize
    /\ UNCHANGED <<at, lane, rax, r11, mem, entry>>

\* Mutant: xmm0 is saved where r8 and r9 are.
OffsetOverlapping(k) == IF k < 6 THEN 8 * k ELSE 32 + 16 * (k - 6)

\* Move k of fourteen: its offset in the frame, its first lane, and its lanes.
Offset(k) == IF k < 6 THEN 8 * k ELSE 48 + 16 * (k - 6)
First(k) == IF k < 6 THEN k ELSE 2 * k - 6
Lanes(k) == IF k < 6 THEN {k} ELSE {2 * k - 6, 2 * k - 5}
Home(k, l) == rsp + Offset(k) + 8 * (l - First(k))

\* movaps faults on an address that is not a multiple of 16.
Faults(k) == k >= 6 /\ (rsp + Offset(k)) % 16 # 0

\* The moves of a save or a restore, one after the other.
Move(from, to) ==
    /\ pc = from
    /\ pc' = IF Faults(at) THEN "fault" ELSE IF at = 13 THEN to ELSE from
    /\ at' = IF Faults(at) THEN at ELSE (at + 1) % 14
    /\ UNCHANGED <<rax, r11, rsp, entry>>

Save ==
    /\ Move("save", "call")
    /\ mem' = [a \in Word |->
                  IF ~Faults(at) /\ \E l \in Lanes(at) : a = Home(at, l)
                  THEN lane[CHOOSE l \in Lanes(at) : a = Home(at, l)]
                  ELSE mem[a]]
    /\ UNCHANGED lane

\* Mutant: a lookup that finds nothing returns.
CallLookupUnchecked ==
    LET imp == Find(lane[rdi], lane[rsi]) IN
    /\ pc = "call"
    /\ pc' = IF rsp % 16 # 0 THEN "fault" ELSE "restore"
    /\ rax' = imp /\ r11' = imp
    /\ lane' = [l \in Lane |-> Junk]
    /\ mem' = [a \in Word |-> IF a < rsp THEN Junk ELSE mem[a]]
    /\ UNCHANGED <<at, rsp, entry>>

\* call objc_msg_lookup_nonnull, which aborts when it finds no method, is
\* compiled for a stack aligned as the ABI says, and may leave anything in the
\* argument registers and below rsp; then mov r11, rax.
CallLookup ==
    LET imp == Find(lane[rdi], lane[rsi]) IN
    /\ pc = "call"
    /\ pc' = IF rsp % 16 # 0 THEN "fault" ELSE IF imp = Absent THEN "aborted" ELSE "restore"
    /\ rax' = IF imp = Absent THEN Junk ELSE imp
    /\ r11' = rax'
    /\ lane' = [l \in Lane |-> Junk]
    /\ mem' = [a \in Word |-> IF a < rsp THEN Junk ELSE mem[a]]
    /\ UNCHANGED <<at, rsp, entry>>

Restore ==
    /\ Move("restore", "jump")
    /\ lane' = [l \in Lane |->
                   IF ~Faults(at) /\ l \in Lanes(at) THEN mem[Home(at, l)] ELSE lane[l]]
    /\ UNCHANGED mem

Jump ==
    /\ pc = "jump"
    /\ pc' = "callee"
    /\ rsp' = rsp + FrameSize
    /\ UNCHANGED <<at, lane, rax, r11, mem, entry>>

\* A signal handler runs to its end on this stack, below the red zone.
Signal ==
    /\ pc \notin Over
    /\ mem' = [a \in Word |-> IF a < rsp - 128 THEN Junk ELSE mem[a]]
    /\ UNCHANGED <<pc, at, lane, rax, r11, rsp, entry>>

Instruction == ReturnNil \/ Enter \/ Save \/ CallLookup \/ Restore \/ Jump

Next == Instruction \/ Signal

Spec == Init /\ [][Next]_vars

--------------------------------------------------------------------------------
(* Properties.                                                                *)

TypeOK ==
    /\ pc \in Over \cup {"test", "save", "call", "restore", "jump"}
    /\ at \in 0 .. 13
    /\ lane \in [Lane -> Value]
    /\ rax \in Value /\ r11 \in Value
    /\ rsp \in Int
    /\ mem \in [Word -> Value]
    /\ entry \in Entries

IMP == Find(entry.lane[rdi], entry.lane[rsi])

\* The callee sees the original arguments, in registers and on the stack, under
\* the return address of the caller, and is the method of that receiver and
\* selector: no save, restore, handler or call in between has mixed them up.
CalleeSeesArguments ==
    pc = "callee" =>
        /\ lane = entry.lane
        /\ rsp = entry.rsp
        /\ \A a \in Word : a >= rsp => mem[a] = entry.mem[a]
        /\ r11 = IMP /\ IMP # Absent

\* No instruction of the trampoline, and none of the lookup it calls, finds the
\* stack misaligned (the comment on the frame size).
NeverMisaligned == pc # "fault"

\* A message to nil, and no other, returns zero, as an integer, a pair of them
\* or a float, to where the caller left off.
NilGivesZero ==
    pc \in Over =>
        /\ pc = "returned" <=> entry.lane[rdi] = Zero
        /\ pc = "returned" => /\ rax = Zero
                              /\ \A l \in {rdx} \cup xmm(0) \cup xmm(1) : lane[l] = Zero
                              /\ rsp = entry.rsp + 8

\* The frame of the caller, with its return address and the arguments passed on
\* the stack, is never written, whatever the trampoline pushes below it.
CallerFrameStep == \A a \in Word : a >= entry.rsp => mem'[a] = mem[a]
CallerFrameKept == [][CallerFrameStep]_vars

--------------------------------------------------------------------------------
(* The inductive invariant of MsgSendProofs.                                  *)

StackPointer ==
    rsp = IF pc \in {"test", "callee"} THEN entry.rsp
          ELSE IF pc = "returned" THEN entry.rsp + 8 ELSE entry.rsp - FrameSize

CallerFrame == \A a \in Word : a >= entry.rsp => mem[a] = entry.mem[a]

\* The first n lanes are in the frame, or are in their registers.
Saved(n) == \A l \in Lane : l < n => mem[rsp + 8 * l] = entry.lane[l]
Kept(n) == \A l \in Lane : l < n => lane[l] = entry.lane[l]

Progress ==
    /\ pc \in {"test", "call"} => at = 0
    /\ pc \in {"test", "save", "call", "jump", "callee"} => Kept(22)
    /\ pc = "save" => Saved(First(at))
    /\ pc \in {"call", "restore"} => Saved(22)
    /\ pc = "restore" => Kept(First(at))
    /\ pc \in {"restore", "jump", "callee"} => r11 = IMP /\ IMP # Absent
    /\ pc # "test" => (pc = "returned" <=> entry.lane[rdi] = Zero)

\* The stack, the registers and the place of the thread agree at every step.
IInv == TypeOK /\ NeverMisaligned /\ StackPointer /\ CallerFrame /\ Progress /\ NilGivesZero
================================================================================
