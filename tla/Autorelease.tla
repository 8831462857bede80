------------------------------ MODULE Autorelease ------------------------------
(***************************************************************************)
(* One thread's autorelease pools (src/autorelease.rs) and the calls that  *)
(* reach them: objc_autoreleasePoolPush, objc_autoreleasePoolPop,          *)
(* objc_autorelease and objc_loadWeak.  The pools are thread-local, so a   *)
(* second thread would share nothing with the first but the retain counts, *)
(* which SideTable models; here a count is a number.                       *)
(*                                                                         *)
(* Releasing an object may run its -dealloc, and a -dealloc may call back  *)
(* into everything, so the thread's stack of unfinished calls is explicit. *)
(* It is only interesting because objc_autoreleasePoolPop keeps POOL_STACK *)
(* mutably borrowed while it releases: RefCell panics on a second borrow,  *)
(* and the panic ends the process at the extern "C" boundary.              *)
(***************************************************************************)
EXTENDS Integers, Sequences, SequencesExt, FiniteSets

CONSTANTS
    Obj,
    MaxPools,   \* bound: pools pushed and not popped
    MaxPooled,  \* bound: references in the pools
    MaxCount    \* bound: references to one object

ASSUME Bounds == {MaxPools, MaxPooled} \subseteq Nat /\ MaxCount \in Nat \ {0}

VARIABLES
    stack,      \* POOL_STACK: the pools, and in each the objects in order
    tokens,     \* the tokens of the pushes not yet popped, oldest first
    frames,     \* the thread's unfinished pops and -deallocs, innermost last
    count,      \* the retain count of each object, 0 before and after its life
    own,        \* the references the thread's code owns, per object
    leaked,     \* the references autoreleased while there was no pool
    born,       \* the objects allocated so far
    panicked    \* the process has aborted

vars == <<stack, tokens, frames, count, own, leaked, born, panicked>>
refs == <<count, own, leaked, born>>

PopFrame(d, pool) == [kind |-> "pop", depth |-> d, rest |-> pool]
DeallocFrame(o, b) == [kind |-> "dealloc", obj |-> o, base |-> b]

Init ==
    /\ stack = <<>> /\ tokens = <<>> /\ frames = <<>>
    /\ count = [o \in Obj |-> 0]
    /\ own = [o \in Obj |-> 0]
    /\ leaked = [o \in Obj |-> 0]
    /\ born = {}
    /\ panicked = FALSE

--------------------------------------------------------------------------------
\* The thread runs its own code, or the body of a -dealloc.
MayRun == ~panicked /\ (frames # <<>> => Last(frames).kind = "dealloc")

\* The number of tokens that belong to callers of the code now running.
Base == IF frames = <<>> THEN 0 ELSE Last(frames).base

\* Which of the calls fs are pops.
Pops(fs) == {i \in DOMAIN fs : fs[i].kind = "pop"}

\* POOL_STACK is borrowed for as long as a pop is unfinished.
Borrowed == Pops(frames) # {}

Pooled == Len(FlattenSeq(stack))

--------------------------------------------------------------------------------
(* The code around the pools.                                                 *)

Alloc(o) ==
    /\ MayRun /\ o \notin born
    /\ born' = born \cup {o}
    /\ count' = [count EXCEPT ![o] = 1]
    /\ own' = [own EXCEPT ![o] = 1]
    /\ UNCHANGED <<stack, tokens, frames, leaked, panicked>>

Retain(o) ==
    /\ MayRun /\ own[o] > 0 /\ count[o] < MaxCount
    /\ count' = [count EXCEPT ![o] = @ + 1]
    /\ own' = [own EXCEPT ![o] = @ + 1]
    /\ UNCHANGED <<stack, tokens, frames, leaked, born, panicked>>

\* objc_release under the frames in fs; the last one starts a -dealloc.
Released(o, fs) ==
    /\ count' = [count EXCEPT ![o] = @ - 1]
    /\ frames' = IF count[o] = 1 THEN Append(fs, DeallocFrame(o, Len(tokens))) ELSE fs

Release(o) ==
    /\ MayRun /\ own[o] > 0
    /\ own' = [own EXCEPT ![o] = @ - 1]
    /\ Released(o, frames)
    /\ UNCHANGED <<stack, tokens, leaked, born, panicked>>

\* A -dealloc returns; the pools it pushed it has popped.
FinishDealloc ==
    /\ MayRun /\ frames # <<>>
    /\ Len(tokens) = Base
    /\ frames' = Front(frames)
    /\ UNCHANGED <<stack, tokens, refs, panicked>>

--------------------------------------------------------------------------------
(* The pools.                                                                 *)

\* Mutant: the token is read after the pool is pushed.
PushLateToken ==
    /\ MayRun /\ ~Borrowed /\ Len(stack) < MaxPools
    /\ stack' = Append(stack, <<>>)
    /\ tokens' = Append(tokens, Len(stack) + 1)
    /\ UNCHANGED <<frames, refs, panicked>>

\* The token is the depth of the stack before the push.
Push ==
    /\ MayRun /\ ~Borrowed /\ Len(stack) < MaxPools
    /\ stack' = Append(stack, <<>>)
    /\ tokens' = Append(tokens, Len(stack))
    /\ UNCHANGED <<frames, refs, panicked>>

\* Mutant: the reference is put in the pool and lost as well when there is one.
DepositTwice(o) ==
    IF stack = <<>>
    THEN leaked' = [leaked EXCEPT ![o] = @ + 1] /\ UNCHANGED stack
    ELSE stack' = [stack EXCEPT ![Len(stack)] = @ \o <<o, o>>] /\ UNCHANGED leaked

\* A reference to o goes to the innermost pool, or is lost if there is none.
Deposit(o) ==
    IF stack = <<>>
    THEN leaked' = [leaked EXCEPT ![o] = @ + 1] /\ UNCHANGED stack
    ELSE stack' = [stack EXCEPT ![Len(stack)] = Append(@, o)] /\ UNCHANGED leaked

AutoreleaseObj(o) ==
    /\ MayRun /\ ~Borrowed /\ Pooled < MaxPooled
    /\ own[o] > 0
    /\ own' = [own EXCEPT ![o] = @ - 1]
    /\ Deposit(o)
    /\ UNCHANGED <<tokens, frames, count, born, panicked>>

\* objc_loadWeak of a slot that names a live object: it is retained, and the
\* reference goes to the pool.
LoadWeak(o) ==
    /\ MayRun /\ ~Borrowed /\ Pooled < MaxPooled
    /\ 0 < count[o] /\ count[o] < MaxCount
    /\ count' = [count EXCEPT ![o] = @ + 1]
    /\ Deposit(o)
    /\ UNCHANGED <<tokens, frames, own, born, panicked>>

\* Any of the four calls from a -dealloc that a pop has started.
PoolsWhileBorrowed ==
    /\ MayRun /\ Borrowed
    /\ panicked' = TRUE
    /\ UNCHANGED <<stack, tokens, frames, refs>>

\* The pop of a token, which need not be the newest one.
PopStart(i) ==
    /\ MayRun /\ ~Borrowed
    /\ i \in Base + 1 .. Len(tokens)
    /\ frames' = Append(frames, PopFrame(tokens[i], <<>>))
    /\ tokens' = SubSeq(tokens, 1, i - 1)
    /\ UNCHANGED <<stack, refs, panicked>>

Popping == ~panicked /\ frames # <<>> /\ Last(frames).kind = "pop"

\* Mutants: the pool is drained from its oldest end, or never shortened.
PopOldest ==
    /\ Popping /\ Last(frames).rest # <<>>
    /\ Released(Head(Last(frames).rest), [frames EXCEPT ![Len(frames)].rest = Tail(@)])
    /\ UNCHANGED <<stack, tokens, own, leaked, born, panicked>>
PopSame ==
    /\ Popping /\ Last(frames).rest # <<>>
    /\ Released(Last(Last(frames).rest), frames)
    /\ UNCHANGED <<stack, tokens, own, leaked, born, panicked>>

\* It releases the newest object of the pool it has taken off the stack,
PopRelease ==
    /\ Popping /\ Last(frames).rest # <<>>
    /\ Released(Last(Last(frames).rest), [frames EXCEPT ![Len(frames)].rest = Front(@)])
    /\ UNCHANGED <<stack, tokens, own, leaked, born, panicked>>

\* Mutant: the loop runs while the stack is as deep as the token says.
PopNextPoolTooFar ==
    /\ Popping /\ Last(frames).rest = <<>>
    /\ stack # <<>> /\ Len(stack) >= Last(frames).depth
    /\ frames' = [frames EXCEPT ![Len(frames)].rest = Last(stack)]
    /\ stack' = Front(stack)
    /\ UNCHANGED <<tokens, refs, panicked>>

\* takes the next pool off when that one is empty,
PopNextPool ==
    /\ Popping /\ Last(frames).rest = <<>>
    /\ Len(stack) > Last(frames).depth
    /\ frames' = [frames EXCEPT ![Len(frames)].rest = Last(stack)]
    /\ stack' = Front(stack)
    /\ UNCHANGED <<tokens, refs, panicked>>

\* Mutant: the same loop, which never ends when the token is 0.
PopReturnBelow ==
    /\ Popping /\ Last(frames).rest = <<>>
    /\ Len(stack) < Last(frames).depth
    /\ frames' = Front(frames)
    /\ UNCHANGED <<stack, tokens, refs, panicked>>

\* and returns at the depth of the token.
PopReturn ==
    /\ Popping /\ Last(frames).rest = <<>>
    /\ Len(stack) <= Last(frames).depth
    /\ frames' = Front(frames)
    /\ UNCHANGED <<stack, tokens, refs, panicked>>

--------------------------------------------------------------------------------
Next ==
    \/ \E o \in Obj : Alloc(o) \/ Retain(o) \/ Release(o)
    \/ \E o \in Obj : AutoreleaseObj(o) \/ LoadWeak(o)
    \/ FinishDealloc \/ Push
    \/ \E i \in 1 .. MaxPools : PopStart(i)
    \/ PopRelease \/ PopNextPool \/ PopReturn
    \/ PoolsWhileBorrowed

Spec == Init /\ [][Next]_vars

\* The thread runs, and a -dealloc that is called returns.
FairSpec ==
    /\ Spec
    /\ WF_vars(PopRelease) /\ WF_vars(PopNextPool) /\ WF_vars(PopReturn)
    /\ SF_vars(FinishDealloc)

--------------------------------------------------------------------------------
(* Properties.                                                                *)

Frame == [kind : {"pop"}, depth : 0 .. MaxPools, rest : Seq(Obj)]
         \cup [kind : {"dealloc"}, obj : Obj, base : 0 .. MaxPools]

TypeOK ==
    /\ stack \in Seq(Seq(Obj)) /\ Len(stack) <= MaxPools
    /\ tokens \in Seq(0 .. MaxPools)
    /\ frames \in Seq(Frame)
    /\ count \in [Obj -> 0 .. MaxCount]
    /\ own \in [Obj -> Nat] /\ leaked \in [Obj -> Nat]
    /\ born \subseteq Obj /\ panicked \in BOOLEAN

\* What the pop among the calls fs has taken off the stack and not yet released.
HandOf(fs) == IF Pops(fs) = {} THEN <<>> ELSE fs[CHOOSE i \in Pops(fs) : TRUE].rest

\* Where the references to o are in the pools; a pop holds the last of them.
PlacesIn(pools, o) ==
    UNION {{i} \X {j \in DOMAIN pools[i] : pools[i][j] = o} : i \in DOMAIN pools}
Places(o) == PlacesIn(Append(stack, HandOf(frames)), o)

\* An object in a pool, or in the hands of a pop, is live however deep the pops
\* and -deallocs nest, and each of its references is given up exactly once:
\* the count is what is owned, pooled and leaked together (the SAFETY comment
\* of objc_autorelease_pool_pop).
CountsAddUp ==
    \A o \in Obj : count[o] = own[o] + leaked[o] + Cardinality(Places(o))

\* The tokens issued and not consumed are depths of the stack, in order: no
\* pop can be asked to drain pools that are not there.
TokensFit ==
    /\ \A i \in DOMAIN tokens : tokens[i] < Len(stack)
    /\ \A i, j \in DOMAIN tokens : i < j => tokens[i] < tokens[j]

\* A pop leaves the stack as deep as it was at the matching push, whatever was
\* pushed since and whatever the objects it released did ("restores the stack
\* to its pre-push depth").
PopRestores ==
    [][\A i \in Pops(frames) : i \notin DOMAIN frames' => Len(stack') = frames[i].depth]_vars

\* A pop that has begun ends, unless the process aborts.
PopEnds == Borrowed ~> (~Borrowed \/ panicked)

\* objc_autorelease, objc_loadWeak and the pool calls may be made by any code
\* that owns a live object: the doc of objc_autorelease asks for nothing else.
NeverPanics == ~panicked

--------------------------------------------------------------------------------
\* The number of objects in the first d pools.
Below(d) == Len(FlattenSeq(SubSeq(stack, 1, d)))

\* Every object autoreleased and not yet released, in the order it was added.
Trail == FlattenSeq(stack) \o HandOf(frames)

Scopes == INSTANCE AutoreleaseScopes WITH
    trail <- Trail,
    marks <- [i \in DOMAIN tokens |-> Below(tokens[i])],
    drain <- IF Borrowed
             THEN Below(frames[CHOOSE i \in Pops(frames) : TRUE].depth)
             ELSE -1

\* The stack of pools behaves as one list with marks in it, drained from the
\* end back to a mark: objects are released in the reverse of the order they
\* were added, across pools too, and none below the mark.
ImplementsScopes == Scopes!Spec

--------------------------------------------------------------------------------
(* What AutoreleaseProofs needs beside CountsAddUp and TokensFit.             *)

\* A pop that has begun keeps the others out.
OnePop == \A i, j \in Pops(frames) : i = j

\* There are pools for all tokens, and above the token of a pop.
TokensAreFew ==
    /\ Len(tokens) <= Len(stack)
    /\ \A i \in DOMAIN tokens : i <= tokens[i] + 1
PopsFit ==
    \A i \in Pops(frames) :
        /\ Len(tokens) <= frames[i].depth /\ frames[i].depth <= Len(stack)
        /\ \A j \in DOMAIN tokens : tokens[j] < frames[i].depth

PlacesAreFinite == \A o \in Obj : IsFiniteSet(Places(o))
UnbornUncounted == \A o \in Obj \ born : count[o] = 0

\* Inductive.
AInv ==
    /\ TypeOK /\ CountsAddUp /\ TokensFit
    /\ OnePop /\ TokensAreFew /\ PopsFit /\ PlacesAreFinite /\ UnbornUncounted
================================================================================
