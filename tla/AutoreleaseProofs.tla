--------------------------- MODULE AutoreleaseProofs ---------------------------
(***************************************************************************)
(* Theorems about Autorelease, for any objects and any bounds: references  *)
(* are given up once each, tokens are depths of the stack, and a pop leaves *)
(* the stack as deep as its token says.                                    *)
(***************************************************************************)
EXTENDS Autorelease, FiniteSetTheorems, WellFoundedInduction, TLAPS

--------------------------------------------------------------------------------
(* The stack of calls.                                                        *)

\* What a call that is a pop, or a -dealloc, is made of.
LEMMA FrameKinds ==
    ASSUME NEW f \in Frame
    PROVE  /\ f.kind \in {"pop", "dealloc"}
           /\ f.kind = "pop" => /\ f.depth \in 0 .. MaxPools /\ f.rest \in Seq(Obj)
                                /\ \A s \in Seq(Obj) : /\ [f EXCEPT !.rest = s] \in Frame
                                                       /\ [f EXCEPT !.rest = s].kind = "pop"
                                                       /\ [f EXCEPT !.rest = s].depth = f.depth
                                                       /\ [f EXCEPT !.rest = s].rest = s
           /\ f.kind = "dealloc" => f.base \in 0 .. MaxPools
<1>1. CASE f \in [kind : {"pop"}, depth : 0 .. MaxPools, rest : Seq(Obj)]
  BY <1>1 DEF Frame
<1>2. CASE f \in [kind : {"dealloc"}, obj : Obj, base : 0 .. MaxPools]
  BY <1>2
<1> QED BY <1>1, <1>2 DEF Frame

LEMMA NewFrames ==
    /\ \A d \in 0 .. MaxPools : /\ PopFrame(d, <<>>) \in Frame /\ PopFrame(d, <<>>).kind = "pop"
                                /\ PopFrame(d, <<>>).depth = d /\ PopFrame(d, <<>>).rest = <<>>
    /\ \A o \in Obj, b \in 0 .. MaxPools : /\ DeallocFrame(o, b) \in Frame
                                           /\ DeallocFrame(o, b).kind = "dealloc"
<1>1. <<>> \in Seq(Obj)
  OBVIOUS
<1> QED BY <1>1 DEF PopFrame, DeallocFrame, Frame

LEMMA Elements ==
    ASSUME NEW S, NEW s \in Seq(S)
    PROVE  \A i \in DOMAIN s : s[i] \in S
OBVIOUS

LEMMA Appended ==
    ASSUME NEW S, NEW s \in Seq(S), NEW e \in S
    PROVE  /\ Append(s, e) \in Seq(S) /\ Len(s) \in Nat
           /\ Len(Append(s, e)) = Len(s) + 1
           /\ DOMAIN Append(s, e) = 1 .. Len(s) + 1 /\ DOMAIN s = 1 .. Len(s)
           /\ \A i : i \in DOMAIN Append(s, e) <=> i \in DOMAIN s \/ i = Len(s) + 1
           /\ \A i \in DOMAIN s : Append(s, e)[i] = s[i]
           /\ Append(s, e)[Len(s) + 1] = e
OBVIOUS

LEMMA Shortened ==
    ASSUME NEW s \in Seq(Obj), s # <<>>
    PROVE  /\ Front(s) \in Seq(Obj) /\ Last(s) \in Obj /\ Len(s) \in Nat \ {0}
           /\ Len(s) = Len(Front(s)) + 1 /\ Len(Front(s)) \in Nat
           /\ DOMAIN s = 1 .. Len(s) /\ DOMAIN Front(s) = 1 .. Len(Front(s))
           /\ \A j \in DOMAIN Front(s) : Front(s)[j] = s[j]
           /\ s[Len(Front(s)) + 1] = Last(s)
<1>1. Len(s) \in Nat \ {0} /\ DOMAIN s = 1 .. Len(s)
  OBVIOUS
<1>2. Last(s) = s[Len(s)] /\ Last(s) \in Obj
  BY <1>1, Elements DEF Last
<1>3. Front(s) = [j \in 1 .. Len(s) - 1 |-> s[j]]
  BY DEF Front
<1>4. /\ Front(s) \in Seq(Obj) /\ Len(Front(s)) = Len(s) - 1
      /\ DOMAIN Front(s) = 1 .. Len(s) - 1
  BY <1>1, <1>3, Elements
<1>5. \A j \in DOMAIN Front(s) : Front(s)[j] = s[j]
  BY <1>3
<1> QED BY <1>1, <1>2, <1>4, <1>5

\* The first tokens.
LEMMA Prefix ==
    ASSUME NEW s \in Seq(0 .. MaxPools), NEW i \in DOMAIN s
    PROVE  LET t == SubSeq(s, 1, i - 1)
           IN  /\ t \in Seq(0 .. MaxPools) /\ Len(t) = i - 1 /\ DOMAIN t = 1 .. i - 1
               /\ \A j \in DOMAIN t : j \in DOMAIN s /\ j < i /\ t[j] = s[j]
<1> DEFINE t == SubSeq(s, 1, i - 1)
<1>1. Len(s) \in Nat /\ DOMAIN s = 1 .. Len(s) /\ i \in Nat /\ 1 <= i /\ i <= Len(s)
  OBVIOUS
<1>2. t = [j \in 1 .. i - 1 |-> s[j]]
  BY <1>1
<1>3. \A j \in 1 .. i - 1 : j \in DOMAIN s /\ j < i
  BY <1>1
<1>4. t \in Seq(0 .. MaxPools) /\ Len(t) = i - 1
  <2>1. i - 1 \in Nat
    BY <1>1
  <2>2. \A j \in 1 .. i - 1 : s[j] \in 0 .. MaxPools
    BY <1>3, Elements
  <2> QED BY <1>2, <2>1, <2>2
<1> QED BY <1>2, <1>3, <1>4

\* What the pop has in hand.
LEMMA Hand ==
    ASSUME NEW fs \in Seq(Frame), \A i, j \in Pops(fs) : i = j
    PROVE  /\ HandOf(fs) \in Seq(Obj)
           /\ Pops(fs) = {} => HandOf(fs) = <<>>
           /\ \A i \in Pops(fs) : HandOf(fs) = fs[i].rest
<1>1. CASE Pops(fs) = {}
  BY <1>1 DEF HandOf
<1>2. CASE Pops(fs) # {}
  <2>1. PICK i \in Pops(fs) : TRUE
    BY <1>2
  <2>2. (CHOOSE k \in Pops(fs) : TRUE) = i
    BY <2>1
  <2>3. fs[i] \in Frame /\ fs[i].kind = "pop"
    BY <2>1 DEF Pops
  <2>4. fs[i].rest \in Seq(Obj)
    BY <2>3, FrameKinds
  <2> QED BY <1>2, <2>1, <2>2, <2>4 DEF HandOf
<1> QED BY <1>1, <1>2

LEMMA SameHand ==
    ASSUME NEW fs \in Seq(Frame), \A i, j \in Pops(fs) : i = j,
           NEW gs \in Seq(Frame), Pops(gs) = Pops(fs), \A i \in Pops(fs) : gs[i] = fs[i]
    PROVE  HandOf(gs) = HandOf(fs)
<1>1. CASE Pops(fs) = {}
  BY <1>1 DEF HandOf
<1>2. CASE Pops(fs) # {}
  <2>1. PICK i \in Pops(fs) : TRUE
    BY <1>2
  <2>2. HandOf(fs) = fs[i].rest
    BY <2>1, Hand
  <2>3. HandOf(gs) = gs[i].rest
    BY <2>1, Hand
  <2> QED BY <2>1, <2>2, <2>3
<1> QED BY <1>1, <1>2

\* A -dealloc is called.
LEMMA DeallocCalled ==
    ASSUME NEW fs \in Seq(Frame), \A i, j \in Pops(fs) : i = j,
           NEW o \in Obj, NEW b \in 0 .. MaxPools
    PROVE  LET gs == Append(fs, DeallocFrame(o, b))
           IN  /\ gs \in Seq(Frame) /\ DOMAIN fs \subseteq DOMAIN gs
               /\ Pops(gs) = Pops(fs) /\ \A i \in Pops(fs) : gs[i] = fs[i]
               /\ HandOf(gs) = HandOf(fs)
<1> DEFINE gs == Append(fs, DeallocFrame(o, b))
<1>1. /\ gs \in Seq(Frame) /\ \A i : i \in DOMAIN gs <=> i \in DOMAIN fs \/ i = Len(fs) + 1
      /\ \A i \in DOMAIN fs : gs[i] = fs[i]
      /\ gs[Len(fs) + 1].kind = "dealloc"
  BY NewFrames, Appended
<1>2. Pops(gs) = Pops(fs)
  BY <1>1 DEF Pops
<1>3. \A i \in Pops(fs) : gs[i] = fs[i]
  BY <1>1 DEF Pops
<1>4. HandOf(gs) = HandOf(fs)
  BY <1>1, <1>2, <1>3, SameHand
<1> QED BY <1>1, <1>2, <1>3, <1>4

\* A pop is called while there is none.
LEMMA PopCalled ==
    ASSUME NEW fs \in Seq(Frame), Pops(fs) = {}, NEW d \in 0 .. MaxPools,
           NEW gs, gs = Append(fs, PopFrame(d, <<>>))
    PROVE  /\ gs \in Seq(Frame) /\ Pops(gs) = {Len(fs) + 1}
           /\ gs[Len(fs) + 1].depth = d
           /\ HandOf(gs) = <<>>
<1>1. /\ gs \in Seq(Frame) /\ \A i : i \in DOMAIN gs <=> i \in DOMAIN fs \/ i = Len(fs) + 1
      /\ \A i \in DOMAIN fs : gs[i] = fs[i]
      /\ gs[Len(fs) + 1] = PopFrame(d, <<>>)
  BY NewFrames, Appended
<1>2. Pops(gs) = {Len(fs) + 1}
  BY <1>1, NewFrames DEF Pops
<1>3. HandOf(gs) = <<>>
  <2>1. \A i, j \in Pops(gs) : i = j
    BY <1>2
  <2>2. HandOf(gs) = gs[Len(fs) + 1].rest
    BY <1>1, <1>2, <2>1, Hand
  <2> QED BY <1>1, <2>2, NewFrames
<1> QED BY <1>1, <1>2, <1>3, NewFrames

\* The pop on top has something else in hand.
LEMMA HandChanged ==
    ASSUME NEW fs \in Seq(Frame), \A i, j \in Pops(fs) : i = j,
           fs # <<>>, Last(fs).kind = "pop", NEW s \in Seq(Obj)
    PROVE  LET gs == [fs EXCEPT ![Len(fs)].rest = s]
           IN  /\ gs \in Seq(Frame) /\ DOMAIN gs = DOMAIN fs
               /\ Pops(fs) = {Len(fs)} /\ Pops(gs) = {Len(fs)}
               /\ gs[Len(fs)].depth = fs[Len(fs)].depth
               /\ HandOf(fs) = fs[Len(fs)].rest /\ HandOf(gs) = s
<1> DEFINE gs == [fs EXCEPT ![Len(fs)].rest = s]
<1>1. /\ Len(fs) \in DOMAIN fs /\ fs[Len(fs)] \in Frame /\ fs[Len(fs)].kind = "pop"
      /\ DOMAIN fs = 1 .. Len(fs) /\ Len(fs) \in Nat
  BY DEF Last
<1>2. /\ gs[Len(fs)] = [fs[Len(fs)] EXCEPT !.rest = s] /\ DOMAIN gs = DOMAIN fs
      /\ \A i \in DOMAIN fs : i # Len(fs) => gs[i] = fs[i]
  BY <1>1
<1> HIDE DEF gs
<1>3. /\ gs[Len(fs)] \in Frame /\ gs[Len(fs)].kind = "pop" /\ gs[Len(fs)].rest = s
      /\ gs[Len(fs)].depth = fs[Len(fs)].depth
  BY <1>1, <1>2, FrameKinds
<1>4. gs \in Seq(Frame)
  <2>1. \A i \in DOMAIN fs : fs[i] \in Frame
    OBVIOUS
  <2>2. \A i \in DOMAIN fs : gs[i] \in Frame
    BY <1>2, <1>3, <2>1
  <2>3. gs = [i \in 1 .. Len(fs) |-> gs[i]]
    BY <1>1 DEF gs
  <2> QED BY <1>1, <2>2, <2>3
<1>5. Pops(fs) = {Len(fs)}
  BY <1>1 DEF Pops
<1>6. Pops(gs) = {Len(fs)}
  BY <1>1, <1>2, <1>3, <1>5 DEF Pops
<1>7. HandOf(fs) = fs[Len(fs)].rest /\ HandOf(gs) = s
  BY <1>3, <1>4, <1>5, <1>6, Hand
<1> QED BY <1>2, <1>3, <1>4, <1>5, <1>6, <1>7 DEF gs

\* The call on top returns.
LEMMA CallReturns ==
    ASSUME NEW fs \in Seq(Frame), \A i, j \in Pops(fs) : i = j, fs # <<>>,
           NEW gs, gs = Front(fs)
    PROVE  /\ gs \in Seq(Frame)
           /\ Pops(gs) = Pops(fs) \ {Len(fs)} /\ \A i \in Pops(gs) : gs[i] = fs[i]
           /\ \A i \in DOMAIN fs : i \notin DOMAIN gs => i = Len(fs)
           /\ HandOf(gs) = IF Last(fs).kind = "pop" THEN <<>> ELSE HandOf(fs)
<1>1. /\ gs \in Seq(Frame) /\ DOMAIN gs = 1 .. Len(fs) - 1 /\ DOMAIN fs = 1 .. Len(fs)
      /\ Len(fs) \in Nat \ {0}
      /\ \A i \in DOMAIN gs : gs[i] = fs[i]
  BY DEF Front
<1>2. \A i : i \in DOMAIN gs <=> i \in DOMAIN fs /\ i # Len(fs)
  BY <1>1
<1>3. Pops(gs) = Pops(fs) \ {Len(fs)}
  BY <1>1, <1>2 DEF Pops
<1>4. \A i \in Pops(gs) : gs[i] = fs[i]
  BY <1>1 DEF Pops
<1>5. CASE Last(fs).kind = "pop"
  <2>1. Len(fs) \in Pops(fs)
    BY <1>1, <1>5 DEF Pops, Last
  <2>2. Pops(gs) = {}
    BY <1>3, <2>1
  <2> QED BY <1>1, <1>2, <1>3, <1>4, <1>5, <2>2, Hand
<1>6. CASE Last(fs).kind # "pop"
  <2>1. Pops(gs) = Pops(fs)
    BY <1>3, <1>6 DEF Pops, Last
  <2>2. HandOf(gs) = HandOf(fs)
    BY <1>1, <1>4, <2>1, SameHand
  <2> QED BY <1>1, <1>2, <1>3, <1>4, <1>6, <2>2
<1> QED BY <1>5, <1>6

--------------------------------------------------------------------------------
(* The places of references in pools.                                         *)

LEMMA PlacesAre ==
    ASSUME NEW pools, NEW o, NEW p
    PROVE  p \in PlacesIn(pools, o) <=>
              \E i \in DOMAIN pools : \E j \in DOMAIN pools[i] : p = <<i, j>> /\ pools[i][j] = o
BY DEF PlacesIn

\* An empty pool holds nothing.
LEMMA EmptyOnTop ==
    ASSUME NEW pools \in Seq(Seq(Obj)), NEW o
    PROVE  PlacesIn(Append(pools, <<>>), o) = PlacesIn(pools, o)
<1> DEFINE qs == Append(pools, <<>>)
<1>1. <<>> \in Seq(Obj) /\ DOMAIN <<>> = {}
  OBVIOUS
<1>2. /\ \A i : i \in DOMAIN qs <=> i \in DOMAIN pools \/ i = Len(pools) + 1
      /\ \A i \in DOMAIN pools : qs[i] = pools[i]
      /\ qs[Len(pools) + 1] = <<>>
  BY <1>1, Appended
<1> HIDE DEF qs
<1>3. \A p : p \in PlacesIn(qs, o) <=> p \in PlacesIn(pools, o)
  BY <1>1, <1>2, PlacesAre
<1> QED BY <1>3 DEF qs

\* The pools qs are the pools with one more reference to x, at the end of pool k.
OneMore(pools, qs, k, x) ==
    /\ pools \in Seq(Seq(Obj)) /\ qs \in Seq(Seq(Obj)) /\ DOMAIN qs = DOMAIN pools
    /\ k \in DOMAIN pools /\ \A i \in DOMAIN pools : i # k => qs[i] = pools[i]
    /\ \A j : j \in DOMAIN qs[k] <=> j \in DOMAIN pools[k] \/ j = Len(pools[k]) + 1
    /\ \A j \in DOMAIN pools[k] : qs[k][j] = pools[k][j]
    /\ qs[k][Len(pools[k]) + 1] = x

\* It is one place more for x, and none for the others.
LEMMA OnePlace ==
    ASSUME NEW pools, NEW qs, NEW k, NEW x, OneMore(pools, qs, k, x), NEW o,
           IsFiniteSet(PlacesIn(pools, o)) \/ IsFiniteSet(PlacesIn(qs, o))
    PROVE  /\ IsFiniteSet(PlacesIn(pools, o)) /\ IsFiniteSet(PlacesIn(qs, o))
           /\ Cardinality(PlacesIn(qs, o)) =
                 Cardinality(PlacesIn(pools, o)) + IF o = x THEN 1 ELSE 0
<1> DEFINE P == PlacesIn(pools, o)
           Q == PlacesIn(qs, o)
           new == <<k, Len(pools[k]) + 1>>
<1>1. /\ pools[k] \in Seq(Obj) /\ k \in DOMAIN pools
      /\ DOMAIN qs = DOMAIN pools /\ \A i \in DOMAIN pools : i # k => qs[i] = pools[i]
  BY Elements DEF OneMore
<1>2. /\ \A j : j \in DOMAIN qs[k] <=> j \in DOMAIN pools[k] \/ j = Len(pools[k]) + 1
      /\ \A j \in DOMAIN pools[k] : qs[k][j] = pools[k][j]
      /\ qs[k][Len(pools[k]) + 1] = x
  BY DEF OneMore
<1>6. Len(pools[k]) + 1 \notin DOMAIN pools[k]
  <2>1. Len(pools[k]) \in Nat /\ DOMAIN pools[k] = 1 .. Len(pools[k])
    BY <1>1
  <2> QED BY <2>1
<1>3. new \notin P
  BY <1>1, <1>6, PlacesAre
<1>4. CASE o = x
  <2>1. \A p : p \in Q <=> p \in P \cup {new}
    <3>1. ASSUME NEW p, p \in Q PROVE p \in P \cup {new}
      <4>1. PICK i, j : i \in DOMAIN pools /\ j \in DOMAIN qs[i] /\ p = <<i, j>> /\ qs[i][j] = o
        BY <1>1, <3>1, PlacesAre
      <4>2. CASE i = k
        BY <1>1, <1>2, <4>1, <4>2, PlacesAre
      <4>3. CASE i # k
        BY <1>1, <4>1, <4>3, PlacesAre
      <4> QED BY <4>2, <4>3
    <3>2. ASSUME NEW p, p \in P PROVE p \in Q
      <4>1. PICK i, j : i \in DOMAIN pools /\ j \in DOMAIN pools[i] /\ p = <<i, j>> /\ pools[i][j] = o
        BY <3>2, PlacesAre
      <4>2. j \in DOMAIN qs[i] /\ qs[i][j] = o
        BY <1>1, <1>2, <4>1
      <4> QED BY <1>1, <4>1, <4>2, PlacesAre
    <3>3. new \in Q
      BY <1>1, <1>2, <1>4, PlacesAre
    <3> QED BY <3>1, <3>2, <3>3
  <2>2. Q = P \cup {new} /\ P = Q \ {new}
    BY <1>3, <2>1
  <2> HIDE DEF P, Q, new
  <2>3. IsFiniteSet(P) \/ IsFiniteSet(Q)
    BY DEF P, Q
  <2>4. IsFiniteSet(P)
    <3>1. CASE IsFiniteSet(Q)
      <4>1. IsFiniteSet(Q \ {new})
        BY <3>1, FS_RemoveElement
      <4> QED BY <2>2, <4>1
    <3> QED BY <2>3, <3>1
  <2>5. IsFiniteSet(Q) /\ Cardinality(Q) = Cardinality(P) + 1
    BY <1>3, <2>2, <2>4, FS_AddElement
  <2> QED BY <1>4, <2>4, <2>5 DEF P, Q
<1>5. CASE o # x
  <2>1. ASSUME NEW p, p \in Q PROVE p \in P
    <3>1. PICK i, j : i \in DOMAIN pools /\ j \in DOMAIN qs[i] /\ p = <<i, j>> /\ qs[i][j] = o
      BY <1>1, <2>1, PlacesAre
    <3>2. j \in DOMAIN pools[i] /\ pools[i][j] = o
      BY <1>1, <1>2, <1>5, <3>1
    <3> QED BY <1>1, <3>1, <3>2, PlacesAre
  <2>2. ASSUME NEW p, p \in P PROVE p \in Q
    <3>1. PICK i, j : i \in DOMAIN pools /\ j \in DOMAIN pools[i] /\ p = <<i, j>> /\ pools[i][j] = o
      BY <1>1, <2>2, PlacesAre
    <3>2. j \in DOMAIN qs[i] /\ qs[i][j] = o
      BY <1>1, <1>2, <3>1
    <3> QED BY <1>1, <3>1, <3>2, PlacesAre
  <2>3. Q = P
    BY <2>1, <2>2
  <2>4. IsFiniteSet(P) /\ Cardinality(P) \in Nat
    BY <2>3, FS_CardinalityType
  <2> QED BY <1>5, <2>3, <2>4
<1> QED BY <1>4, <1>5

--------------------------------------------------------------------------------
(* The invariant.                                                             *)

\* What the parts of AInv say of the numbers of references to o.
LEMMA Sums ==
    ASSUME AInv, NEW o \in Obj
    PROVE  /\ Cardinality(Places(o)) \in Nat /\ IsFiniteSet(Places(o))
           /\ own[o] \in Nat /\ leaked[o] \in Nat /\ count[o] \in 0 .. MaxCount
           /\ count[o] = own[o] + leaked[o] + Cardinality(Places(o))
           /\ o \notin born => count[o] = 0
BY FS_CardinalityType DEF AInv, TypeOK, CountsAddUp, PlacesAreFinite, UnbornUncounted

LEMMA AInvInit == Init => AInv
<1> SUFFICES ASSUME Init PROVE AInv
  OBVIOUS
<1>1. Pops(frames) = {}
  BY DEF Init, Pops
<1>2. \A o \in Obj : Places(o) = {}
  <2> SUFFICES ASSUME NEW o \in Obj, NEW p, p \in Places(o) PROVE FALSE
    OBVIOUS
  <2>1. HandOf(frames) = <<>> /\ stack = <<>>
    BY <1>1 DEF Init, HandOf
  <2>2. <<>> \in Seq(Seq(Obj)) /\ DOMAIN <<>> = {}
    OBVIOUS
  <2>3. Places(o) = PlacesIn(<<>>, o)
    BY <2>1, <2>2, EmptyOnTop DEF Places
  <2> QED BY <2>2, <2>3, PlacesAre
<1>3. TypeOK
  <2>1. /\ <<>> \in Seq(Seq(Obj)) /\ <<>> \in Seq(0 .. MaxPools) /\ <<>> \in Seq(Frame)
        /\ Len(<<>>) = 0
    OBVIOUS
  <2>2. MaxPools \in Nat /\ MaxCount \in Nat
    BY Bounds
  <2>3. /\ count \in [Obj -> 0 .. MaxCount] /\ own \in [Obj -> Nat] /\ leaked \in [Obj -> Nat]
        /\ born \subseteq Obj /\ panicked \in BOOLEAN
    <3>1. 0 \in 0 .. MaxCount
      BY <2>2
    <3>2. count \in [Obj -> 0 .. MaxCount]
      BY <3>1 DEF Init
    <3>3. own \in [Obj -> Nat] /\ leaked \in [Obj -> Nat]
      BY DEF Init
    <3>4. born \subseteq Obj /\ panicked \in BOOLEAN
      BY Zenon DEF Init
    <3> QED BY <3>2, <3>3, <3>4
  <2>4. /\ stack \in Seq(Seq(Obj)) /\ Len(stack) <= MaxPools
        /\ tokens \in Seq(0 .. MaxPools) /\ frames \in Seq(Frame)
    BY <2>1, <2>2 DEF Init
  <2> QED BY <2>3, <2>4 DEF TypeOK
<1>4. CountsAddUp /\ PlacesAreFinite
  <2>1. \A o \in Obj : count[o] = 0 /\ own[o] = 0 /\ leaked[o] = 0
    BY DEF Init
  <2>2. \A o \in Obj : IsFiniteSet(Places(o)) /\ Cardinality(Places(o)) = 0
    BY <1>2, FS_EmptySet
  <2> QED BY <2>1, <2>2 DEF CountsAddUp, PlacesAreFinite
<1>5. TokensFit /\ OnePop /\ TokensAreFew /\ PopsFit /\ UnbornUncounted
  BY <1>1 DEF Init, TokensFit, OnePop, TokensAreFew, PopsFit, UnbornUncounted
<1> QED BY <1>3, <1>4, <1>5 DEF AInv

\* The pools are left alone.
LEMMA SamePlaces ==
    ASSUME stack' = stack, HandOf(frames') = HandOf(frames)
    PROVE  \A o : Places(o)' = Places(o)
BY DEF Places

\* A pop, or the tokens, or both are as they were, and so is the stack.
LEMMA SameCalls ==
    ASSUME AInv, UNCHANGED <<stack, tokens>>,
           Pops(frames') = Pops(frames), \A i \in Pops(frames) : frames'[i] = frames[i]
    PROVE  TokensFit' /\ OnePop' /\ TokensAreFew' /\ PopsFit'
BY DEF AInv, TokensFit, OnePop, TokensAreFew, PopsFit

LEMMA AllocStep == ASSUME AInv, NEW o \in Obj, Alloc(o) PROVE AInv'
<1>1. \A p \in Obj : Places(p)' = Places(p)
  BY SamePlaces DEF Alloc
<1>2. TypeOK'
  BY Bounds DEF AInv, TypeOK, Alloc
<1>3. TokensFit' /\ OnePop' /\ TokensAreFew' /\ PopsFit'
  BY SameCalls DEF Alloc
<1>4. CountsAddUp' /\ PlacesAreFinite' /\ UnbornUncounted'
  <2> SUFFICES ASSUME NEW p \in Obj
               PROVE  /\ count'[p] = own'[p] + leaked'[p] + Cardinality(Places(p)')
                      /\ IsFiniteSet(Places(p)') /\ (p \notin born' => count'[p] = 0)
    BY DEF CountsAddUp, PlacesAreFinite, UnbornUncounted
  <2>1. CASE p = o
    BY <1>1, <2>1, Sums DEF AInv, TypeOK, Alloc
  <2>2. CASE p # o
    BY <1>1, <2>2, Sums DEF AInv, TypeOK, Alloc
  <2> QED BY <2>1, <2>2
<1> QED BY <1>2, <1>3, <1>4 DEF AInv

LEMMA RetainStep == ASSUME AInv, NEW o \in Obj, Retain(o) PROVE AInv'
<1>1. \A p \in Obj : Places(p)' = Places(p)
  BY SamePlaces DEF Retain
<1>2. TypeOK'
  BY Bounds DEF AInv, TypeOK, Retain
<1>3. TokensFit' /\ OnePop' /\ TokensAreFew' /\ PopsFit'
  BY SameCalls DEF Retain
<1>4. o \in born
  BY Sums DEF Retain
<1>5. CountsAddUp' /\ PlacesAreFinite' /\ UnbornUncounted'
  <2> SUFFICES ASSUME NEW p \in Obj
               PROVE  /\ count'[p] = own'[p] + leaked'[p] + Cardinality(Places(p)')
                      /\ IsFiniteSet(Places(p)') /\ (p \notin born' => count'[p] = 0)
    BY DEF CountsAddUp, PlacesAreFinite, UnbornUncounted
  <2>1. CASE p = o
    <3>1. count'[o] = count[o] + 1 /\ own'[o] = own[o] + 1 /\ leaked' = leaked
      BY DEF AInv, TypeOK, Retain
    <3> QED BY <1>1, <1>4, <2>1, <3>1, Sums DEF Retain
  <2>2. CASE p # o
    BY <1>1, <2>2, Sums DEF AInv, TypeOK, Retain
  <2> QED BY <2>1, <2>2
<1> QED BY <1>2, <1>3, <1>5 DEF AInv

\* What objc_release does to the calls fs it runs under.
LEMMA ReleaseCalls ==
    ASSUME AInv, NEW o \in Obj,
           NEW fs \in Seq(Frame), \A i, j \in Pops(fs) : i = j, Released(o, fs)
    PROVE  /\ frames' \in Seq(Frame) /\ DOMAIN fs \subseteq DOMAIN frames'
           /\ Pops(frames') = Pops(fs) /\ \A i \in Pops(fs) : frames'[i] = fs[i]
           /\ HandOf(frames') = HandOf(fs)
<1>1. Len(tokens) \in 0 .. MaxPools
  BY Bounds DEF AInv, TypeOK, TokensAreFew
<1>2. CASE count[o] = 1
  <2> DEFINE gs == Append(fs, DeallocFrame(o, Len(tokens)))
  <2>1. frames' = gs
    BY <1>2 DEF Released
  <2>2. /\ gs \in Seq(Frame) /\ DOMAIN fs \subseteq DOMAIN gs
        /\ Pops(gs) = Pops(fs) /\ \A i \in Pops(fs) : gs[i] = fs[i]
        /\ HandOf(gs) = HandOf(fs)
    BY <1>1, DeallocCalled
  <2> QED BY <2>1, <2>2
<1>3. CASE count[o] # 1
  BY <1>3 DEF Released
<1> QED BY <1>2, <1>3

LEMMA ReleaseDoes ==
    ASSUME AInv, NEW o \in Obj, count[o] > 0,
           NEW fs \in Seq(Frame), \A i, j \in Pops(fs) : i = j, Released(o, fs)
    PROVE  /\ frames' \in Seq(Frame) /\ DOMAIN fs \subseteq DOMAIN frames'
           /\ Pops(frames') = Pops(fs) /\ \A i \in Pops(fs) : frames'[i] = fs[i]
           /\ HandOf(frames') = HandOf(fs)
           /\ count' \in [Obj -> 0 .. MaxCount] /\ count'[o] = count[o] - 1
           /\ \A p \in Obj : p # o => count'[p] = count[p]
<1>1. /\ count' \in [Obj -> 0 .. MaxCount] /\ count'[o] = count[o] - 1
      /\ \A p \in Obj : p # o => count'[p] = count[p]
  BY Bounds DEF AInv, TypeOK, Released
<1> QED BY <1>1, ReleaseCalls

LEMMA ReleaseStep == ASSUME AInv, NEW o \in Obj, Release(o) PROVE AInv'
<1>1. count[o] > 0
  BY Sums DEF Release
<1>2. frames \in Seq(Frame) /\ \A i, j \in Pops(frames) : i = j
  BY DEF AInv, TypeOK, OnePop
<1>3. /\ frames' \in Seq(Frame) /\ Pops(frames') = Pops(frames)
      /\ \A i \in Pops(frames) : frames'[i] = frames[i]
      /\ HandOf(frames') = HandOf(frames)
      /\ count' \in [Obj -> 0 .. MaxCount] /\ count'[o] = count[o] - 1
      /\ \A p \in Obj : p # o => count'[p] = count[p]
  BY <1>1, <1>2, ReleaseDoes DEF Release
<1>4. \A p \in Obj : Places(p)' = Places(p)
  BY <1>3, SamePlaces DEF Release
<1>5. TypeOK'
  <2>1. own' \in [Obj -> Nat]
    BY DEF AInv, TypeOK, Release
  <2> QED BY <1>3, <2>1 DEF AInv, TypeOK, Release
<1>6. TokensFit' /\ OnePop' /\ TokensAreFew' /\ PopsFit'
  BY <1>3, SameCalls DEF Release
<1>7. o \in born
  BY <1>1, Sums
<1>8. CountsAddUp' /\ PlacesAreFinite' /\ UnbornUncounted'
  <2> SUFFICES ASSUME NEW p \in Obj
               PROVE  /\ count'[p] = own'[p] + leaked'[p] + Cardinality(Places(p)')
                      /\ IsFiniteSet(Places(p)') /\ (p \notin born' => count'[p] = 0)
    BY DEF CountsAddUp, PlacesAreFinite, UnbornUncounted
  <2>1. CASE p = o
    <3>1. own'[o] = own[o] - 1 /\ leaked' = leaked /\ own[o] > 0 /\ born' = born
      BY DEF AInv, TypeOK, Release
    <3>2. /\ count[o] = own[o] + leaked[o] + Cardinality(Places(o)) /\ IsFiniteSet(Places(o))
          /\ own[o] \in Nat /\ leaked[o] \in Nat /\ Cardinality(Places(o)) \in Nat
      BY Sums
    <3> QED BY <1>3, <1>4, <1>7, <2>1, <3>1, <3>2
  <2>2. CASE p # o
    BY <1>3, <1>4, <2>2, Sums DEF AInv, TypeOK, Release
  <2> QED BY <2>1, <2>2
<1> QED BY <1>5, <1>6, <1>8 DEF AInv

\* A call returns that has nothing in hand.
LEMMA ReturnStep ==
    ASSUME AInv, frames # <<>>, frames' = Front(frames),
           Last(frames).kind = "pop" => Last(frames).rest = <<>>,
           UNCHANGED <<stack, tokens, refs, panicked>>
    PROVE  AInv'
<1>1. frames \in Seq(Frame) /\ \A i, j \in Pops(frames) : i = j
  BY DEF AInv, TypeOK, OnePop
<1>2. /\ frames' \in Seq(Frame)
      /\ Pops(frames') = Pops(frames) \ {Len(frames)}
      /\ \A i \in Pops(frames') : frames'[i] = frames[i]
      /\ HandOf(frames') = IF Last(frames).kind = "pop" THEN <<>> ELSE HandOf(frames)
  BY <1>1, CallReturns
<1>3. HandOf(frames') = HandOf(frames)
  <2>1. CASE Last(frames).kind = "pop"
    <3>1. Len(frames) \in Pops(frames)
      BY <1>1, <2>1 DEF Pops, Last
    <3> QED BY <1>1, <1>2, <2>1, <3>1, Hand DEF Last
  <2> QED BY <1>2, <2>1
<1>4. \A p \in Obj : Places(p)' = Places(p)
  BY <1>3, SamePlaces
<1>5. TypeOK'
  BY <1>2 DEF AInv, TypeOK, refs
<1>6. TokensFit' /\ OnePop' /\ TokensAreFew' /\ PopsFit'
  BY <1>2 DEF AInv, TokensFit, OnePop, TokensAreFew, PopsFit
<1>7. CountsAddUp' /\ PlacesAreFinite' /\ UnbornUncounted'
  BY <1>4 DEF AInv, CountsAddUp, PlacesAreFinite, UnbornUncounted, refs
<1> QED BY <1>5, <1>6, <1>7 DEF AInv

LEMMA FinishDeallocStep == ASSUME AInv, FinishDealloc PROVE AInv'
BY ReturnStep DEF FinishDealloc, MayRun

LEMMA PopReturnStep == ASSUME AInv, PopReturn PROVE AInv'
BY ReturnStep DEF PopReturn, Popping

\* With no pop, the pools are the stack.
LEMMA NothingInHand ==
    ASSUME AInv, ~Borrowed
    PROVE  \A o : Places(o) = PlacesIn(stack, o)
<1>1. HandOf(frames) = <<>>
  BY DEF Borrowed, HandOf
<1> QED BY <1>1, EmptyOnTop DEF AInv, TypeOK, Places

LEMMA PushStep == ASSUME AInv, Push PROVE AInv'
<1>1. stack \in Seq(Seq(Obj)) /\ tokens \in Seq(0 .. MaxPools) /\ Len(stack) < MaxPools
  BY DEF AInv, TypeOK, Push
<1>2. /\ stack' \in Seq(Seq(Obj)) /\ Len(stack') = Len(stack) + 1 /\ Len(stack) \in 0 .. MaxPools
      /\ tokens' \in Seq(0 .. MaxPools) /\ Len(tokens') = Len(tokens) + 1
      /\ \A i \in DOMAIN tokens' : i \in DOMAIN tokens \/ i = Len(tokens) + 1
      /\ \A i \in DOMAIN tokens : i < Len(tokens) + 1
      /\ \A i \in DOMAIN tokens : tokens'[i] = tokens[i]
      /\ tokens'[Len(tokens) + 1] = Len(stack)
      /\ \A i \in DOMAIN tokens : tokens[i] \in Nat
  <2>1. <<>> \in Seq(Obj) /\ Len(stack) \in 0 .. MaxPools
    BY <1>1, Bounds
  <2>2. stack' = Append(stack, <<>>) /\ tokens' = Append(tokens, Len(stack))
    BY DEF Push
  <2>3. stack' \in Seq(Seq(Obj)) /\ Len(stack') = Len(stack) + 1
    BY <1>1, <2>1, <2>2, Appended
  <2>4. /\ tokens' \in Seq(0 .. MaxPools) /\ Len(tokens') = Len(tokens) + 1
        /\ Len(tokens) \in Nat /\ DOMAIN tokens = 1 .. Len(tokens)
        /\ \A i \in DOMAIN tokens' : i \in DOMAIN tokens \/ i = Len(tokens) + 1
        /\ \A i \in DOMAIN tokens : tokens'[i] = tokens[i]
        /\ tokens'[Len(tokens) + 1] = Len(stack)
    BY <1>1, <2>1, <2>2, Appended
  <2>5. \A i \in DOMAIN tokens : i < Len(tokens) + 1
    BY <2>4
  <2>6. \A i \in DOMAIN tokens : tokens[i] \in Nat
    <3>1. \A i \in DOMAIN tokens : tokens[i] \in 0 .. MaxPools
      BY <1>1, Elements
    <3> QED BY <3>1, Bounds
  <2> QED BY <2>1, <2>3, <2>4, <2>5, <2>6
<1>3. TypeOK'
  <2>1. Len(stack') <= MaxPools
    BY <1>1, <1>2, Bounds
  <2>2. UNCHANGED <<frames, count, own, leaked, born, panicked>>
    BY DEF Push, refs
  <2> QED BY <1>2, <2>1, <2>2 DEF AInv, TypeOK
<1>4. TokensFit' /\ TokensAreFew'
  <2>1. \A i \in DOMAIN tokens' : tokens'[i] < Len(stack')
    BY <1>2 DEF AInv, TokensFit
  <2>2. \A i, j \in DOMAIN tokens' : i < j => tokens'[i] < tokens'[j]
    <3> SUFFICES ASSUME NEW i \in DOMAIN tokens', NEW j \in DOMAIN tokens', i < j
                 PROVE  tokens'[i] < tokens'[j]
      OBVIOUS
    <3>1. i \in DOMAIN tokens
      <4>1. i # Len(tokens) + 1
        BY <1>1, <1>2
      <4> QED BY <1>2, <4>1
    <3>2. CASE j \in DOMAIN tokens
      BY <1>2, <3>1, <3>2 DEF AInv, TokensFit
    <3>3. CASE j = Len(tokens) + 1
      BY <1>2, <3>1, <3>3 DEF AInv, TokensFit
    <3> QED BY <1>2, <3>2, <3>3
  <2>3. Len(tokens') <= Len(stack')
    BY <1>1, <1>2 DEF AInv, TokensAreFew
  <2>4. \A i \in DOMAIN tokens' : i <= tokens'[i] + 1
    <3>1. Len(tokens) <= Len(stack) /\ Len(tokens) \in Nat
      BY <1>1 DEF AInv, TokensAreFew
    <3>2. Len(tokens) + 1 <= tokens'[Len(tokens) + 1] + 1
      BY <1>2, <3>1
    <3>3. \A i \in DOMAIN tokens : i <= tokens'[i] + 1
      BY <1>2 DEF AInv, TokensAreFew
    <3> QED BY <1>2, <3>2, <3>3
  <2> QED BY <2>1, <2>2, <2>3, <2>4 DEF TokensFit, TokensAreFew
<1>5. OnePop' /\ PopsFit'
  BY DEF Push, Borrowed, OnePop, PopsFit
<1>6. \A p \in Obj : Places(p)' = Places(p)
  <2> SUFFICES ASSUME NEW p \in Obj PROVE Places(p)' = Places(p)
    OBVIOUS
  <2>1. HandOf(frames') = <<>>
    BY DEF Push, Borrowed, HandOf
  <2>2. Places(p)' = PlacesIn(stack', p)
    BY <1>2, <2>1, EmptyOnTop DEF Places
  <2>3. PlacesIn(stack', p) = PlacesIn(stack, p)
    BY <1>1, EmptyOnTop DEF Push
  <2> QED BY <2>2, <2>3, NothingInHand DEF Push
<1>7. CountsAddUp' /\ PlacesAreFinite' /\ UnbornUncounted'
  BY <1>6 DEF AInv, CountsAddUp, PlacesAreFinite, UnbornUncounted, Push, refs
<1> QED BY <1>3, <1>4, <1>5, <1>7 DEF AInv

\* One reference to o is autoreleased.
LEMMA DepositDoes ==
    ASSUME AInv, ~Borrowed, UNCHANGED frames, NEW o \in Obj, Deposit(o)
    PROVE  /\ stack' \in Seq(Seq(Obj)) /\ Len(stack') = Len(stack)
           /\ leaked' \in [Obj -> Nat]
           /\ \A p \in Obj :
                 /\ IsFiniteSet(Places(p)')
                 /\ leaked'[p] + Cardinality(Places(p)') =
                       leaked[p] + Cardinality(Places(p)) + IF p = o THEN 1 ELSE 0
<1>1. stack \in Seq(Seq(Obj)) /\ leaked \in [Obj -> Nat]
  BY DEF AInv, TypeOK
<1>2. CASE stack = <<>>
  <2>1. stack' = stack /\ leaked' = [leaked EXCEPT ![o] = @ + 1]
    BY <1>2 DEF Deposit
  <2>2. \A p \in Obj : Places(p)' = Places(p)
    BY <2>1, SamePlaces
  <2>3. leaked' \in [Obj -> Nat]
    BY <1>1, <2>1
  <2>4. \A p \in Obj : leaked'[p] = leaked[p] + IF p = o THEN 1 ELSE 0
    BY <1>1, <2>1
  <2>5. \A p \in Obj : leaked[p] \in Nat /\ Cardinality(Places(p)) \in Nat /\ IsFiniteSet(Places(p))
    BY Sums
  <2> QED BY <1>1, <2>1, <2>2, <2>3, <2>4, <2>5
<1>3. CASE stack # <<>>
  <2> DEFINE k == Len(stack)
  <2>1. stack' = [stack EXCEPT ![k] = Append(@, o)] /\ leaked' = leaked
    BY <1>3 DEF Deposit
  <2>2. k \in DOMAIN stack /\ k \in Nat /\ DOMAIN stack = 1 .. k /\ stack[k] \in Seq(Obj)
    BY <1>1, <1>3
  <2>3. /\ DOMAIN stack' = DOMAIN stack
        /\ \A i \in DOMAIN stack : i # k => stack'[i] = stack[i]
        /\ \A j : j \in DOMAIN stack'[k] <=> j \in DOMAIN stack[k] \/ j = Len(stack[k]) + 1
        /\ \A j \in DOMAIN stack[k] : stack'[k][j] = stack[k][j]
        /\ stack'[k][Len(stack[k]) + 1] = o
    <3>1. stack'[k] = Append(stack[k], o) /\ DOMAIN stack' = DOMAIN stack
      BY <2>1, <2>2
    <3>2. \A i \in DOMAIN stack : i # k => stack'[i] = stack[i]
      BY <2>1, <2>2
    <3> QED BY <2>2, <3>1, <3>2, Appended
  <2>4. stack' \in Seq(Seq(Obj)) /\ Len(stack') = k
    <3>1. Append(stack[k], o) \in Seq(Obj)
      BY <2>2
    <3> QED BY <1>1, <2>1, <2>2, <3>1
  <2> HIDE DEF k
  <2>5. \A p \in Obj : /\ IsFiniteSet(Places(p)')
                       /\ Cardinality(Places(p)') = Cardinality(Places(p)) + IF p = o THEN 1 ELSE 0
    <3> SUFFICES ASSUME NEW p \in Obj
                 PROVE  /\ IsFiniteSet(Places(p)')
                        /\ Cardinality(Places(p)') = Cardinality(Places(p)) + IF p = o THEN 1 ELSE 0
      OBVIOUS
    <3>1. Places(p) = PlacesIn(stack, p) /\ IsFiniteSet(Places(p))
      BY NothingInHand, Sums
    <3>2. Places(p)' = PlacesIn(stack', p)
      <4>1. HandOf(frames') = <<>>
        BY DEF Borrowed, HandOf
      <4> QED BY <2>4, <4>1, EmptyOnTop DEF Places
    <3>3. /\ IsFiniteSet(PlacesIn(stack', p))
          /\ Cardinality(PlacesIn(stack', p)) =
                Cardinality(PlacesIn(stack, p)) + IF p = o THEN 1 ELSE 0
      <4>1. OneMore(stack, stack', k, o)
        BY <1>1, <2>2, <2>3, <2>4 DEF OneMore
      <4> QED BY <3>1, <4>1, OnePlace
    <3> QED BY <3>1, <3>2, <3>3
  <2>6. \A p \in Obj : leaked[p] \in Nat /\ Cardinality(Places(p)) \in Nat
    BY Sums
  <2> QED BY <1>1, <2>1, <2>4, <2>5, <2>6 DEF k
<1> QED BY <1>2, <1>3

LEMMA AutoreleaseObjStep == ASSUME AInv, NEW o \in Obj, AutoreleaseObj(o) PROVE AInv'
<1>1. /\ stack' \in Seq(Seq(Obj)) /\ Len(stack') = Len(stack) /\ leaked' \in [Obj -> Nat]
      /\ \A p \in Obj :
            /\ IsFiniteSet(Places(p)')
            /\ leaked'[p] + Cardinality(Places(p)') =
                  leaked[p] + Cardinality(Places(p)) + IF p = o THEN 1 ELSE 0
  BY DepositDoes DEF AutoreleaseObj
<1>2. own' \in [Obj -> Nat] /\ \A p \in Obj : own'[p] = own[p] - IF p = o THEN 1 ELSE 0
  BY DEF AInv, TypeOK, AutoreleaseObj
<1>3. TypeOK'
  BY <1>1, <1>2 DEF AInv, TypeOK, AutoreleaseObj
<1>4. TokensFit' /\ OnePop' /\ TokensAreFew' /\ PopsFit'
  BY <1>1 DEF AInv, TokensFit, OnePop, TokensAreFew, PopsFit, AutoreleaseObj
<1>5. CountsAddUp' /\ PlacesAreFinite' /\ UnbornUncounted'
  <2> SUFFICES ASSUME NEW p \in Obj
               PROVE  /\ count'[p] = own'[p] + leaked'[p] + Cardinality(Places(p)')
                      /\ IsFiniteSet(Places(p)') /\ (p \notin born' => count'[p] = 0)
    BY DEF CountsAddUp, PlacesAreFinite, UnbornUncounted
  <2>1. count' = count /\ born' = born
    BY DEF AutoreleaseObj
  <2>2. IsFiniteSet(Places(p)') /\ Cardinality(Places(p)') \in Nat
    BY <1>1, FS_CardinalityType
  <2>3. own'[p] \in Nat /\ leaked'[p] \in Nat
    BY <1>1, <1>2
  <2>4. count'[p] = own'[p] + leaked'[p] + Cardinality(Places(p)')
    <3>1. leaked'[p] + Cardinality(Places(p)') =
             leaked[p] + Cardinality(Places(p)) + IF p = o THEN 1 ELSE 0
      BY <1>1
    <3>2. own[p] \in Nat /\ leaked[p] \in Nat /\ Cardinality(Places(p)) \in Nat
      BY Sums
    <3>3. CASE p = o
      <4>1. count[p] = own[p] + leaked[p] + Cardinality(Places(p)) /\ count[p] \in 0 .. MaxCount
        BY Sums
      <4> QED BY <1>2, <2>1, <2>2, <2>3, <3>1, <3>2, <3>3, <4>1, Bounds
    <3>4. CASE p # o
      <4>1. count[p] = own[p] + leaked[p] + Cardinality(Places(p)) /\ count[p] \in 0 .. MaxCount
        BY Sums
      <4> QED BY <1>2, <2>1, <2>2, <2>3, <3>1, <3>2, <3>4, <4>1, Bounds
    <3> QED BY <3>3, <3>4
  <2> QED BY <2>1, <2>2, <2>4, Sums
<1> QED BY <1>3, <1>4, <1>5 DEF AInv

LEMMA LoadWeakStep == ASSUME AInv, NEW o \in Obj, LoadWeak(o) PROVE AInv'
<1>1. /\ stack' \in Seq(Seq(Obj)) /\ Len(stack') = Len(stack) /\ leaked' \in [Obj -> Nat]
      /\ \A p \in Obj :
            /\ IsFiniteSet(Places(p)')
            /\ leaked'[p] + Cardinality(Places(p)') =
                  leaked[p] + Cardinality(Places(p)) + IF p = o THEN 1 ELSE 0
  BY DepositDoes DEF LoadWeak
<1>2. /\ count' \in [Obj -> 0 .. MaxCount]
      /\ \A p \in Obj : count'[p] = count[p] + IF p = o THEN 1 ELSE 0
  BY Bounds DEF AInv, TypeOK, LoadWeak
<1>3. TypeOK'
  BY <1>1, <1>2 DEF AInv, TypeOK, LoadWeak
<1>4. TokensFit' /\ OnePop' /\ TokensAreFew' /\ PopsFit'
  BY <1>1 DEF AInv, TokensFit, OnePop, TokensAreFew, PopsFit, LoadWeak
<1>5. CountsAddUp' /\ PlacesAreFinite' /\ UnbornUncounted'
  <2> SUFFICES ASSUME NEW p \in Obj
               PROVE  /\ count'[p] = own'[p] + leaked'[p] + Cardinality(Places(p)')
                      /\ IsFiniteSet(Places(p)') /\ (p \notin born' => count'[p] = 0)
    BY DEF CountsAddUp, PlacesAreFinite, UnbornUncounted
  <2>1. own' = own /\ born' = born /\ count[o] > 0
    BY DEF LoadWeak
  <2>2. IsFiniteSet(Places(p)') /\ Cardinality(Places(p)') \in Nat
    BY <1>1, FS_CardinalityType
  <2>3. leaked'[p] \in Nat
    BY <1>1
  <2>4. count'[p] = own'[p] + leaked'[p] + Cardinality(Places(p)')
    <3>1. leaked'[p] + Cardinality(Places(p)') =
             leaked[p] + Cardinality(Places(p)) + IF p = o THEN 1 ELSE 0
      BY <1>1
    <3>2. own[p] \in Nat /\ leaked[p] \in Nat /\ Cardinality(Places(p)) \in Nat
      BY Sums
    <3>3. CASE p = o
      <4>1. count[p] = own[p] + leaked[p] + Cardinality(Places(p)) /\ count[p] \in 0 .. MaxCount
        BY Sums
      <4> QED BY <1>2, <2>1, <2>2, <2>3, <3>1, <3>2, <3>3, <4>1, Bounds
    <3>4. CASE p # o
      <4>1. count[p] = own[p] + leaked[p] + Cardinality(Places(p)) /\ count[p] \in 0 .. MaxCount
        BY Sums
      <4> QED BY <1>2, <2>1, <2>2, <2>3, <3>1, <3>2, <3>4, <4>1, Bounds
    <3> QED BY <3>3, <3>4
  <2>5. p \notin born => count'[p] = 0
    BY <1>2, <2>1, Sums
  <2> QED BY <2>1, <2>2, <2>4, <2>5
<1> QED BY <1>3, <1>4, <1>5 DEF AInv

LEMMA PanicStep == ASSUME AInv, PoolsWhileBorrowed PROVE AInv'
BY DEF AInv, TypeOK, CountsAddUp, TokensFit, OnePop, TokensAreFew, PopsFit, PlacesAreFinite,
       UnbornUncounted, Places, PoolsWhileBorrowed, refs

\* The token popped is one that has been issued and not consumed.
LEMMA PopTakesToken ==
    ASSUME AInv, NEW i \in 1 .. MaxPools, PopStart(i)
    PROVE  i \in DOMAIN tokens
<1>1. /\ frames \in Seq(Frame) /\ tokens \in Seq(0 .. MaxPools)
      /\ Len(tokens) \in Nat /\ DOMAIN tokens = 1 .. Len(tokens) /\ i \in Nat
  BY Bounds DEF AInv, TypeOK
<1>2. Base \in Nat
  <2>1. CASE frames = <<>>
    BY <2>1 DEF Base
  <2>2. CASE frames # <<>>
    <3>1. Last(frames) \in Frame /\ Last(frames).kind = "dealloc"
      BY <1>1, <2>2, Elements DEF PopStart, MayRun, Last
    <3>2. Last(frames).base \in 0 .. MaxPools
      BY <3>1, FrameKinds
    <3> QED BY <2>2, <3>2, Bounds DEF Base
  <2> QED BY <2>1, <2>2
<1>3. i \in Base + 1 .. Len(tokens)
  BY DEF PopStart
<1>4. i >= 1 /\ i <= Len(tokens)
  BY <1>1, <1>2, <1>3
<1> QED BY <1>1, <1>4

LEMMA PopStartStep == ASSUME AInv, NEW i \in 1 .. MaxPools, PopStart(i) PROVE AInv'
<1>1. /\ frames \in Seq(Frame) /\ Pops(frames) = {} /\ tokens \in Seq(0 .. MaxPools)
      /\ Len(tokens) \in Nat /\ i \in Nat
  BY Bounds DEF AInv, TypeOK, PopStart, Borrowed
<1>2. i \in DOMAIN tokens
  BY PopTakesToken
<1>3. tokens[i] \in 0 .. MaxPools
  BY <1>1, <1>2, Elements
<1>4. /\ frames' \in Seq(Frame) /\ Pops(frames') = {Len(frames) + 1}
      /\ frames'[Len(frames) + 1].depth = tokens[i] /\ HandOf(frames') = <<>>
  <2> DEFINE gs == Append(frames, PopFrame(tokens[i], <<>>))
  <2>1. /\ gs \in Seq(Frame) /\ Pops(gs) = {Len(frames) + 1}
        /\ gs[Len(frames) + 1].depth = tokens[i] /\ HandOf(gs) = <<>>
    BY <1>1, <1>3, PopCalled
  <2> QED BY <2>1 DEF PopStart
<1>5. /\ tokens' \in Seq(0 .. MaxPools) /\ Len(tokens') = i - 1 /\ DOMAIN tokens' = 1 .. i - 1
      /\ \A j \in DOMAIN tokens' : j \in DOMAIN tokens /\ j < i /\ tokens'[j] = tokens[j]
  <2> DEFINE t == SubSeq(tokens, 1, i - 1)
  <2>2. /\ t \in Seq(0 .. MaxPools) /\ Len(t) = i - 1 /\ DOMAIN t = 1 .. i - 1
        /\ \A j \in DOMAIN t : j \in DOMAIN tokens /\ j < i /\ t[j] = tokens[j]
    BY <1>1, <1>2, Prefix
  <2> QED BY <2>2 DEF PopStart
<1>6. stack' = stack /\ UNCHANGED <<count, own, leaked, born, panicked>>
  BY DEF PopStart, refs
<1>7. TypeOK'
  BY <1>4, <1>5, <1>6 DEF AInv, TypeOK
<1>8. TokensFit'
  BY <1>5, <1>6 DEF AInv, TokensFit
<1>9. OnePop'
  BY <1>4 DEF OnePop
<1>10. TokensAreFew' /\ PopsFit'
  <2>1. i <= tokens[i] + 1 /\ tokens[i] < Len(stack) /\ Len(tokens) <= Len(stack)
    BY <1>2 DEF AInv, TokensAreFew, TokensFit
  <2>2. \A j \in DOMAIN tokens' : tokens'[j] < tokens[i]
    BY <1>2, <1>5 DEF AInv, TokensFit
  <2>3. Len(stack) \in Nat
    BY DEF AInv, TypeOK
  <2>4. Len(tokens') <= tokens[i] /\ tokens[i] <= Len(stack)
    BY <1>1, <1>3, <1>5, <2>1, <2>3, Bounds
  <2>5. PopsFit'
    BY <1>4, <1>6, <2>2, <2>4 DEF PopsFit
  <2>6. Len(tokens') <= Len(stack')
    BY <1>3, <1>5, <1>6, <2>3, <2>4, Bounds
  <2>7. \A j \in DOMAIN tokens' : j <= tokens'[j] + 1
    BY <1>5 DEF AInv, TokensAreFew
  <2> QED BY <2>5, <2>6, <2>7 DEF TokensAreFew
<1>11. \A p \in Obj : Places(p)' = Places(p)
  <2>1. HandOf(frames) = <<>>
    BY <1>1 DEF HandOf
  <2> QED BY <1>4, <1>6, <2>1, SamePlaces
<1>12. CountsAddUp' /\ PlacesAreFinite' /\ UnbornUncounted'
  BY <1>6, <1>11 DEF AInv, CountsAddUp, PlacesAreFinite, UnbornUncounted
<1> QED BY <1>7, <1>8, <1>9, <1>10, <1>12 DEF AInv

\* What a pop has in hand is the rest of the call on top.
LEMMA OnTop ==
    ASSUME AInv, Popping
    PROVE  /\ frames \in Seq(Frame) /\ \A i, j \in Pops(frames) : i = j
           /\ frames # <<>> /\ Last(frames).kind = "pop"
           /\ Last(frames) = frames[Len(frames)]
           /\ Pops(frames) = {Len(frames)}
           /\ Last(frames).rest \in Seq(Obj) /\ HandOf(frames) = Last(frames).rest
<1>1. /\ frames \in Seq(Frame) /\ \A i, j \in Pops(frames) : i = j
      /\ frames # <<>> /\ Last(frames).kind = "pop"
  BY DEF AInv, TypeOK, OnePop, Popping
<1>2. Len(frames) \in DOMAIN frames /\ Last(frames) = frames[Len(frames)]
  BY <1>1 DEF Last
<1>3. Pops(frames) = {Len(frames)}
  BY <1>1, <1>2 DEF Pops
<1>4. Last(frames) \in Frame
  BY <1>1, <1>2, Elements
<1> QED BY <1>1, <1>2, <1>3, <1>4, FrameKinds, Hand

LEMMA PopReleaseStep == ASSUME AInv, PopRelease PROVE AInv'
<1> DEFINE rest == Last(frames).rest
           o == Last(rest)
           fs == [frames EXCEPT ![Len(frames)].rest = Front(rest)]
<1>1. /\ frames \in Seq(Frame) /\ \A i, j \in Pops(frames) : i = j
      /\ frames # <<>> /\ Last(frames).kind = "pop" /\ Pops(frames) = {Len(frames)}
      /\ Last(frames) = frames[Len(frames)]
      /\ rest \in Seq(Obj) /\ HandOf(frames) = rest /\ rest # <<>>
  BY OnTop DEF PopRelease
<1>2. /\ Front(rest) \in Seq(Obj) /\ o \in Obj /\ Len(rest) = Len(Front(rest)) + 1
      /\ Len(Front(rest)) \in Nat
      /\ DOMAIN rest = 1 .. Len(rest) /\ DOMAIN Front(rest) = 1 .. Len(Front(rest))
      /\ \A j \in DOMAIN Front(rest) : Front(rest)[j] = rest[j]
      /\ rest[Len(Front(rest)) + 1] = o
  <2> HIDE DEF rest
  <2>1. /\ Front(rest) \in Seq(Obj) /\ Last(rest) \in Obj /\ Len(rest) \in Nat \ {0}
        /\ Len(rest) = Len(Front(rest)) + 1 /\ Len(Front(rest)) \in Nat
        /\ DOMAIN rest = 1 .. Len(rest) /\ DOMAIN Front(rest) = 1 .. Len(Front(rest))
        /\ \A j \in DOMAIN Front(rest) : Front(rest)[j] = rest[j]
        /\ rest[Len(Front(rest)) + 1] = Last(rest)
    BY <1>1, Shortened
  <2> QED BY <2>1
<1>3. Released(o, fs) /\ UNCHANGED <<stack, tokens, own, leaked, born, panicked>>
  BY <1>1 DEF PopRelease, Popping
<1> HIDE DEF rest, o
<1>4. /\ fs \in Seq(Frame) /\ Pops(fs) = {Len(frames)}
      /\ fs[Len(frames)].depth = frames[Len(frames)].depth /\ HandOf(fs) = Front(rest)
  BY <1>1, <1>2, HandChanged
<1> HIDE DEF fs
<1>5. stack \in Seq(Seq(Obj)) /\ Len(stack) \in Nat
  BY DEF AInv, TypeOK
<1> DEFINE above == Append(stack, rest)
           below == Append(stack, Front(rest))
<1>6. OneMore(below, above, Len(stack) + 1, o)
  <2>1. /\ above \in Seq(Seq(Obj)) /\ below \in Seq(Seq(Obj))
        /\ DOMAIN above = 1 .. Len(stack) + 1 /\ DOMAIN below = 1 .. Len(stack) + 1
        /\ above[Len(stack) + 1] = rest /\ below[Len(stack) + 1] = Front(rest)
    BY <1>1, <1>2, <1>5, Appended
  <2>2. \A i \in DOMAIN stack : above[i] = stack[i] /\ below[i] = stack[i]
    BY <1>1, <1>2, <1>5, Appended
  <2>3. \A i \in DOMAIN below : i # Len(stack) + 1 => i \in DOMAIN stack
    BY <1>5, <2>1
  <2>4. Len(stack) + 1 \in DOMAIN below
    BY <1>5, <2>1
  <2> HIDE DEF above, below
  <2>5. \A j : j \in DOMAIN rest <=> j \in DOMAIN Front(rest) \/ j = Len(Front(rest)) + 1
    BY <1>2
  <2> QED BY <1>2, <2>1, <2>2, <2>3, <2>4, <2>5 DEF OneMore
<1>7. \A p \in Obj : Places(p) = PlacesIn(above, p)
  BY <1>1 DEF Places
<1>8. o \in Obj /\ \A p \in Obj :
         /\ IsFiniteSet(PlacesIn(below, p))
         /\ Cardinality(Places(p)) = Cardinality(PlacesIn(below, p)) + IF p = o THEN 1 ELSE 0
  <2> HIDE DEF above, below
  <2> SUFFICES ASSUME NEW p \in Obj
               PROVE  /\ IsFiniteSet(PlacesIn(below, p))
                      /\ Cardinality(Places(p)) =
                            Cardinality(PlacesIn(below, p)) + IF p = o THEN 1 ELSE 0
    BY <1>2
  <2>1. IsFiniteSet(PlacesIn(above, p))
    BY <1>7, Sums
  <2> QED BY <1>6, <1>7, <2>1, OnePlace
<1> HIDE DEF above
<1>9. \A p \in Obj : Cardinality(PlacesIn(below, p)) \in Nat
  BY <1>8, FS_CardinalityType
<1>10. count[o] > 0
  <2>1. Cardinality(Places(o)) > 0
    BY <1>8, <1>9
  <2>2. /\ count[o] = own[o] + leaked[o] + Cardinality(Places(o))
        /\ own[o] \in Nat /\ leaked[o] \in Nat /\ Cardinality(Places(o)) \in Nat
    BY <1>8, Sums
  <2> QED BY <2>1, <2>2
<1>11. \A i, j \in Pops(fs) : i = j
  BY <1>4
<1>12. /\ frames' \in Seq(Frame) /\ Pops(frames') = {Len(frames)}
       /\ frames'[Len(frames)] = fs[Len(frames)] /\ HandOf(frames') = Front(rest)
       /\ count' \in [Obj -> 0 .. MaxCount] /\ count'[o] = count[o] - 1
       /\ \A p \in Obj : p # o => count'[p] = count[p]
  BY <1>2, <1>3, <1>4, <1>10, <1>11, ReleaseDoes
<1>13. TypeOK'
  BY <1>3, <1>12 DEF AInv, TypeOK
<1>14. TokensFit' /\ TokensAreFew'
  BY <1>3 DEF AInv, TokensFit, TokensAreFew
<1>15. OnePop'
  BY <1>12 DEF OnePop
<1>16. PopsFit'
  BY <1>1, <1>3, <1>4, <1>12 DEF AInv, PopsFit
<1>17. \A p \in Obj : Places(p)' = PlacesIn(below, p)
  BY <1>3, <1>12 DEF Places
<1> HIDE DEF below
<1>18. CountsAddUp' /\ PlacesAreFinite' /\ UnbornUncounted'
  <2> SUFFICES ASSUME NEW p \in Obj
               PROVE  /\ count'[p] = own'[p] + leaked'[p] + Cardinality(Places(p)')
                      /\ IsFiniteSet(Places(p)') /\ (p \notin born' => count'[p] = 0)
    BY DEF CountsAddUp, PlacesAreFinite, UnbornUncounted
  <2>1. /\ own'[p] = own[p] /\ leaked'[p] = leaked[p] /\ born' = born
        /\ Places(p)' = PlacesIn(below, p) /\ Cardinality(PlacesIn(below, p)) \in Nat
        /\ IsFiniteSet(PlacesIn(below, p))
    BY <1>3, <1>8, <1>9, <1>17
  <2>2. /\ count[p] = own[p] + leaked[p] + Cardinality(Places(p))
        /\ own[p] \in Nat /\ leaked[p] \in Nat /\ (p \notin born => count[p] = 0)
    BY Sums
  <2>3. CASE p = o
    BY <1>8, <1>10, <1>12, <2>1, <2>2, <2>3
  <2>4. CASE p # o
    BY <1>8, <1>12, <2>1, <2>2, <2>4
  <2> QED BY <2>3, <2>4
<1> QED BY <1>13, <1>14, <1>15, <1>16, <1>18 DEF AInv

\* The pool a pop has taken off the stack is in its hands.
LEMMA TakenInHand ==
    ASSUME AInv, PopNextPool, Last(stack) \in Seq(Obj)
    PROVE  /\ frames' \in Seq(Frame) /\ Pops(frames') = {Len(frames)}
           /\ frames'[Len(frames)].depth = frames[Len(frames)].depth
           /\ HandOf(frames') = Last(stack)
<1>1. /\ frames \in Seq(Frame) /\ \A i, j \in Pops(frames) : i = j
      /\ frames # <<>> /\ Last(frames).kind = "pop"
  BY OnTop DEF PopNextPool
<1> DEFINE gs == [frames EXCEPT ![Len(frames)].rest = Last(stack)]
<1>2. /\ gs \in Seq(Frame) /\ Pops(gs) = {Len(frames)}
      /\ gs[Len(frames)].depth = frames[Len(frames)].depth /\ HandOf(gs) = Last(stack)
  BY <1>1, HandChanged
<1> QED BY <1>2 DEF PopNextPool

LEMMA PopNextPoolStep == ASSUME AInv, PopNextPool PROVE AInv'
<1>1. /\ frames \in Seq(Frame) /\ \A i, j \in Pops(frames) : i = j
      /\ frames # <<>> /\ Last(frames).kind = "pop" /\ Pops(frames) = {Len(frames)}
      /\ Last(frames) = frames[Len(frames)] /\ HandOf(frames) = <<>>
  BY OnTop DEF PopNextPool
<1>2. Last(frames).depth \in 0 .. MaxPools
  <2>1. Last(frames) \in Frame
    BY <1>1, Elements, OnTop
  <2> QED BY <1>1, <2>1, FrameKinds
<1>3. stack \in Seq(Seq(Obj)) /\ Len(stack) \in Nat /\ Len(stack) > Last(frames).depth
  BY DEF AInv, TypeOK, PopNextPool
<1>4. /\ stack # <<>> /\ Len(stack) > 0 /\ stack' = Front(stack) /\ Last(stack) = stack[Len(stack)]
      /\ stack' \in Seq(Seq(Obj)) /\ Len(stack') = Len(stack) - 1
      /\ Last(stack) \in Seq(Obj) /\ Append(stack', Last(stack)) = stack
  <2>1. Len(stack) > 0 /\ stack # <<>>
    BY <1>2, <1>3, Bounds
  <2>2. stack' = [i \in 1 .. Len(stack) - 1 |-> stack[i]]
    BY DEF PopNextPool, Front
  <2> QED BY <1>3, <2>1, <2>2 DEF PopNextPool, Last
<1>5. /\ frames' \in Seq(Frame) /\ Pops(frames') = {Len(frames)}
      /\ frames'[Len(frames)].depth = frames[Len(frames)].depth /\ HandOf(frames') = Last(stack)
  BY <1>4, TakenInHand
<1>6. UNCHANGED <<tokens, count, own, leaked, born, panicked>>
  BY DEF PopNextPool, refs
<1>7. TypeOK'
  BY <1>3, <1>4, <1>5, <1>6, Bounds DEF AInv, TypeOK
<1>8. PopsFit'
  <2>1. /\ Len(tokens) <= frames[Len(frames)].depth
        /\ \A j \in DOMAIN tokens : tokens[j] < frames[Len(frames)].depth
    BY <1>1 DEF AInv, PopsFit
  <2>2. frames[Len(frames)].depth <= Len(stack')
    BY <1>1, <1>2, <1>3, <1>4, Bounds
  <2> QED BY <1>5, <1>6, <2>1, <2>2 DEF PopsFit
<1>9. TokensFit' /\ TokensAreFew' /\ OnePop'
  <2>1. /\ Len(tokens) <= frames[Len(frames)].depth
        /\ \A j \in DOMAIN tokens : tokens[j] < frames[Len(frames)].depth
        /\ frames[Len(frames)].depth <= Len(stack')
        /\ frames[Len(frames)].depth \in Nat /\ Len(stack') \in Nat
    BY <1>1, <1>2, <1>3, <1>4, Bounds DEF AInv, PopsFit
  <2>2. tokens \in Seq(Nat)
    BY Bounds DEF AInv, TypeOK
  <2>3. \A j \in DOMAIN tokens : tokens[j] < Len(stack')
    BY <2>1, <2>2
  <2>4. Len(tokens) <= Len(stack')
    BY <2>1, <2>2
  <2> QED BY <1>5, <1>6, <2>3, <2>4 DEF AInv, TokensFit, TokensAreFew, OnePop
<1>10. \A p \in Obj : Places(p)' = Places(p)
  <2> SUFFICES ASSUME NEW p \in Obj PROVE Places(p)' = Places(p)
    OBVIOUS
  <2>1. Places(p)' = PlacesIn(stack, p)
    BY <1>4, <1>5 DEF Places
  <2>2. Places(p) = PlacesIn(stack, p)
    BY <1>1, <1>3, EmptyOnTop DEF Places
  <2> QED BY <2>1, <2>2
<1>11. CountsAddUp' /\ PlacesAreFinite' /\ UnbornUncounted'
  BY <1>6, <1>10 DEF AInv, CountsAddUp, PlacesAreFinite, UnbornUncounted
<1> QED BY <1>7, <1>8, <1>9, <1>11 DEF AInv

--------------------------------------------------------------------------------
LEMMA StutterStep == ASSUME AInv, UNCHANGED vars PROVE AInv'
BY DEF AInv, TypeOK, CountsAddUp, TokensFit, OnePop, TokensAreFew, PopsFit, PlacesAreFinite,
       UnbornUncounted, Places, vars

\* The pools of a thread, whatever the objects, the code and the depth of its
\* calls: every part of the invariant holds in every state.
THEOREM AInvariance == Spec => []AInv
<1>1. ASSUME AInv, [Next]_vars PROVE AInv'
  <2>1. ASSUME NEW o \in Obj, Alloc(o) \/ Retain(o) \/ Release(o) PROVE AInv'
    BY <1>1, <2>1, AllocStep, RetainStep, ReleaseStep
  <2>2. ASSUME NEW o \in Obj, AutoreleaseObj(o) \/ LoadWeak(o) PROVE AInv'
    BY <1>1, <2>2, AutoreleaseObjStep, LoadWeakStep
  <2>3. ASSUME FinishDealloc \/ Push PROVE AInv'
    BY <1>1, <2>3, FinishDeallocStep, PushStep
  <2>4. ASSUME NEW i \in 1 .. MaxPools, PopStart(i) PROVE AInv'
    BY <1>1, <2>4, PopStartStep
  <2>5. ASSUME PopRelease \/ PopNextPool \/ PopReturn \/ PoolsWhileBorrowed PROVE AInv'
    BY <1>1, <2>5, PopReleaseStep, PopNextPoolStep, PopReturnStep, PanicStep
  <2>6. ASSUME UNCHANGED vars PROVE AInv'
    BY <1>1, <2>6, StutterStep
  <2> QED BY <1>1, <2>1, <2>2, <2>3, <2>4, <2>5, <2>6 DEF Next
<1> QED BY <1>1, AInvInit, PTL DEF Spec

\* An object that is in a pool, or taken from one and not yet released, is
\* live, and its references are released once each (the SAFETY comment of
\* objc_autorelease_pool_pop).
THEOREM CountsAlwaysAddUp == Spec => []CountsAddUp
BY AInvariance, PTL DEF AInv

\* The tokens of the pushes not yet popped are depths of the stack, in order.
THEOREM TokensAlwaysFit == Spec => []TokensFit
BY AInvariance, PTL DEF AInv

\* A pop restores the stack to its depth before the push.
THEOREM PopsRestore == Spec => PopRestores
<1> DEFINE R == \A i \in Pops(frames) : i \notin DOMAIN frames' => Len(stack') = frames[i].depth
<1>1. ASSUME AInv, Next PROVE R
  <2> SUFFICES ASSUME NEW i \in Pops(frames), i \notin DOMAIN frames'
               PROVE  Len(stack') = frames[i].depth
    OBVIOUS
  <2>1. frames \in Seq(Frame) /\ (\A j, k \in Pops(frames) : j = k) /\ i \in DOMAIN frames
    BY <1>1 DEF AInv, TypeOK, OnePop, Pops
  <2>2. CASE PopReturn
    <3>1. i = Len(frames)
      BY <1>1, <2>2, OnTop DEF PopReturn
    <3>2. Len(stack) <= frames[i].depth /\ stack' = stack
      BY <1>1, <2>2, <3>1, OnTop DEF PopReturn
    <3>3. frames[i].depth <= Len(stack)
      BY <1>1 DEF AInv, PopsFit
    <3>4. frames[i].depth \in Nat /\ Len(stack) \in Nat
      <4>1. frames[i] \in Frame /\ frames[i].kind = "pop"
        BY <2>1, Elements DEF Pops
      <4> QED BY <1>1, <4>1, FrameKinds, Bounds DEF AInv, TypeOK
    <3> QED BY <3>2, <3>3, <3>4
  <2>3. CASE FinishDealloc
    <3>1. i = Len(frames)
      BY <2>1, <2>3, CallReturns DEF FinishDealloc
    <3>2. Last(frames).kind = "dealloc"
      BY <2>3 DEF FinishDealloc, MayRun
    <3> QED BY <3>1, <3>2 DEF Last, Pops
  <2>4. CASE \E o \in Obj : Release(o)
    <3>1. PICK o \in Obj : Release(o)
      BY <2>4
    <3>2. count[o] > 0
      BY <1>1, <3>1, Sums DEF Release
    <3>3. DOMAIN frames \subseteq DOMAIN frames'
      BY <1>1, <2>1, <3>1, <3>2, ReleaseDoes DEF Release
    <3> QED BY <2>1, <3>3
  <2>5. CASE PopRelease
    <3> DEFINE s == Front(Last(frames).rest)
               fs == [frames EXCEPT ![Len(frames)].rest = s]
    <3>1. s \in Seq(Obj)
      BY <1>1, <2>5, OnTop, Shortened DEF PopRelease
    <3>2. fs \in Seq(Frame) /\ DOMAIN fs = DOMAIN frames
      <4> HIDE DEF s
      <4> QED BY <1>1, <2>1, <2>5, <3>1, OnTop, HandChanged DEF PopRelease
    <3>3. Released(Last(Last(frames).rest), fs)
      <4>1. Last(frames) = frames[Len(frames)]
        BY DEF Last
      <4> QED BY <2>5, <4>1 DEF PopRelease
    <3> HIDE DEF fs
    <3>4. PICK o : Released(o, fs)
      BY <3>3
    <3>5. CASE count[o] = 1
      <4>1. frames' = Append(fs, DeallocFrame(o, Len(tokens)))
        BY <3>4, <3>5 DEF Released
      <4> QED BY <2>1, <3>2, <4>1
    <3>6. CASE count[o] # 1
      BY <2>1, <3>2, <3>4, <3>6 DEF Released
    <3> QED BY <3>5, <3>6
  <2>6. CASE PopNextPool
    BY <1>1, <2>1, <2>6, HandChanged DEF PopNextPool, Popping
  <2>7. CASE \E k \in 1 .. MaxPools : PopStart(k)
    BY <2>1, <2>7 DEF PopStart
  <2>8. CASE \/ \E o \in Obj : Alloc(o) \/ Retain(o) \/ AutoreleaseObj(o) \/ LoadWeak(o)
             \/ Push \/ PoolsWhileBorrowed
    BY <2>1, <2>8 DEF Alloc, Retain, AutoreleaseObj, LoadWeak, Push, PoolsWhileBorrowed
  <2> QED BY <1>1, <2>2, <2>3, <2>4, <2>5, <2>6, <2>7, <2>8 DEF Next
<1>2. ASSUME AInv, [Next]_vars PROVE [R]_vars
  BY <1>1, <1>2
<1> QED BY <1>2, AInvariance, PTL DEF Spec, PopRestores

--------------------------------------------------------------------------------
(* The pools as one list: FlattenSeq is a recursive function, and what it     *)
(* computes is proved by induction over sets of numbers.                      *)

\* Induction, for a set of numbers.
LEMMA AllNumbers ==
    ASSUME NEW A, 0 \in A, \A n \in Nat : n \in A => n + 1 \in A
    PROVE  \A n \in Nat : n \in A
<1> DEFINE R == {ss \in Nat \X Nat : ss[1] < ss[2]}
<1>1. IsWellFoundedOn(R, Nat)
  BY NatLessThanWellFounded DEF OpToRel
<1>2. \A a, b \in Nat : <<a, b>> \in R <=> a < b
  OBVIOUS
<1> HIDE DEF R
<1> SUFFICES ASSUME Nat \ A # {} PROVE FALSE
  OBVIOUS
<1>3. PICK n \in Nat \ A : \A m \in Nat \ A : <<m, n>> \notin R
  <2>1. ASSUME NEW T, T = Nat \ A
        PROVE  \E n \in T : \A m \in T : <<m, n>> \notin R
    BY <1>1, <2>1, WFMin
  <2> QED BY <2>1
<1>4. n # 0 /\ n - 1 \in Nat /\ n - 1 < n /\ (n - 1) + 1 = n
  OBVIOUS
<1>5. n - 1 \in A
  BY <1>2, <1>3, <1>4
<1> QED BY <1>4, <1>5

\* f holds the concatenations of the first lists of s, up to n of them.
Concats(f, s, n) ==
    f = [i \in 1 .. n |-> IF i = 1 THEN s[i] ELSE f[i - 1] \o s[i]]

LEMMA ConcatsGrow ==
    ASSUME NEW S, NEW s \in Seq(Seq(S)), NEW n \in Nat, n + 1 <= Len(s),
           NEW f \in [1 .. n -> Seq(S)], Concats(f, s, n)
    PROVE  \E g \in [1 .. n + 1 -> Seq(S)] : Concats(g, s, n + 1)
<1> DEFINE v == IF n = 0 THEN s[1] ELSE f[n] \o s[n + 1]
           g == [i \in 1 .. n + 1 |-> IF i = n + 1 THEN v ELSE f[i]]
<1>1. v \in Seq(S)
  <2>1. s[n + 1] \in Seq(S)
    BY Len(s) \in Nat
  <2>2. n # 0 => f[n] \in Seq(S)
    OBVIOUS
  <2> QED BY <2>1, <2>2
<1>2. g \in [1 .. n + 1 -> Seq(S)]
  <2> HIDE DEF v
  <2> QED BY <1>1
<1>3. ASSUME NEW i \in 1 .. n + 1
      PROVE  g[i] = IF i = 1 THEN s[i] ELSE g[i - 1] \o s[i]
  <2>1. CASE i = n + 1
    <3>1. g[i] = v
      BY <2>1
    <3>2. CASE n = 0
      BY <2>1, <3>1, <3>2
    <3>3. CASE n # 0
      <4>1. i # 1 /\ i - 1 = n /\ i - 1 \in 1 .. n + 1 /\ i - 1 # n + 1
        BY <2>1, <3>3
      <4>2. g[i - 1] = f[n]
        BY <4>1
      <4> QED BY <2>1, <3>1, <3>3, <4>1, <4>2
    <3> QED BY <3>2, <3>3
  <2>2. CASE i # n + 1
    <3>1. i \in 1 .. n
      BY <2>2
    <3>2. g[i] = f[i] /\ f[i] = IF i = 1 THEN s[i] ELSE f[i - 1] \o s[i]
      BY <2>2, <3>1 DEF Concats
    <3>3. i # 1 => i - 1 \in 1 .. n + 1 /\ i - 1 # n + 1
      BY <3>1
    <3>4. i # 1 => g[i - 1] = f[i - 1]
      BY <3>3
    <3> QED BY <3>2, <3>4
  <2> QED BY <2>1, <2>2
<1>4. Concats(g, s, n + 1)
  <2> HIDE DEF v
  <2>1. g = [i \in 1 .. n + 1 |-> g[i]]
    OBVIOUS
  <2> HIDE DEF g
  <2> QED BY <1>3, <2>1 DEF Concats
<1> HIDE DEF g
<1> QED BY <1>2, <1>4

LEMMA ConcatsExist ==
    ASSUME NEW S, NEW s \in Seq(Seq(S))
    PROVE  \E f \in [1 .. Len(s) -> Seq(S)] : Concats(f, s, Len(s))
<1> DEFINE A == {n \in Nat : n <= Len(s) => \E f \in [1 .. n -> Seq(S)] : Concats(f, s, n)}
<1>1. 0 \in A
  <2>1. Concats([i \in 1 .. 0 |-> <<>>], s, 0) /\ [i \in 1 .. 0 |-> <<>>] \in [1 .. 0 -> Seq(S)]
    BY DEF Concats
  <2> QED BY <2>1
<1>2. ASSUME NEW n \in Nat, n \in A
      PROVE  n + 1 \in A
  <2>1. CASE n + 1 <= Len(s)
    <3>1. n <= Len(s)
      BY <2>1, Len(s) \in Nat
    <3>2. PICK f \in [1 .. n -> Seq(S)] : Concats(f, s, n)
      BY <1>2, <3>1
    <3>3. \E g \in [1 .. n + 1 -> Seq(S)] : Concats(g, s, n + 1)
      BY <2>1, <3>2, ConcatsGrow
    <3> QED BY <3>3
  <2>2. CASE ~(n + 1 <= Len(s))
    BY <2>2
  <2> QED BY <2>1, <2>2
<1>3. \A n \in Nat : n \in A
  <2> HIDE DEF A
  <2> QED BY <1>1, <1>2, AllNumbers
<1>4. Len(s) \in Nat /\ Len(s) <= Len(s)
  OBVIOUS
<1> QED BY <1>3, <1>4

SameUpTo(s, t, m) == \A i \in 1 .. m : s[i] = t[i]

LEMMA ConcatsAgree ==
    ASSUME NEW s, NEW t, NEW m \in Nat, NEW n \in Nat, m <= n, SameUpTo(s, t, m),
           NEW f, NEW g, Concats(f, s, m), Concats(g, t, n)
    PROVE  SameUpTo(f, g, m)
<1> DEFINE A == {i \in Nat : i \in 1 .. m => f[i] = g[i]}
<1>1. 0 \in A
  OBVIOUS
<1>2. ASSUME NEW i \in Nat, i \in A
      PROVE  i + 1 \in A
  <2> SUFFICES ASSUME i + 1 \in 1 .. m
               PROVE  f[i + 1] = g[i + 1]
    OBVIOUS
  <2>1. i + 1 \in 1 .. n /\ s[i + 1] = t[i + 1] /\ (i + 1) - 1 = i
    BY DEF SameUpTo
  <2>2. f[i + 1] = IF i + 1 = 1 THEN s[i + 1] ELSE f[i] \o s[i + 1]
    BY <2>1 DEF Concats
  <2>3. g[i + 1] = IF i + 1 = 1 THEN t[i + 1] ELSE g[i] \o t[i + 1]
    BY <2>1 DEF Concats
  <2>4. i + 1 # 1 => f[i] = g[i]
    BY <1>2
  <2> QED BY <2>1, <2>2, <2>3, <2>4
<1>3. \A i \in Nat : i \in A
  <2> HIDE DEF A
  <2> QED BY <1>1, <1>2, AllNumbers
<1> QED BY <1>3 DEF SameUpTo

LEMMA FlattenIs ==
    ASSUME NEW S, NEW s \in Seq(Seq(S)), s # <<>>
    PROVE  \E f \in [1 .. Len(s) -> Seq(S)] : Concats(f, s, Len(s)) /\ FlattenSeq(s) = f[Len(s)]
<1> DEFINE f == CHOOSE f : f = [i \in 1 .. Len(s) |-> IF i = 1 THEN s[i] ELSE f[i - 1] \o s[i]]
<1>1. Len(s) # 0 /\ Len(s) \in Nat
  OBVIOUS
<1>2. FlattenSeq(s) = f[Len(s)]
  BY <1>1 DEF FlattenSeq
<1>3. PICK g : g \in [1 .. Len(s) -> Seq(S)] /\ Concats(g, s, Len(s))
  BY ConcatsExist
<1>4. f = [i \in 1 .. Len(s) |-> IF i = 1 THEN s[i] ELSE f[i - 1] \o s[i]]
  BY <1>3 DEF Concats
<1> HIDE DEF f
<1>5. Concats(f, s, Len(s))
  BY <1>4 DEF Concats
<1>6. f[Len(s)] = g[Len(s)]
  <2>1. SameUpTo(s, s, Len(s))
    BY DEF SameUpTo
  <2>2. SameUpTo(f, g, Len(s))
    BY <1>1, <1>3, <1>5, <2>1, ConcatsAgree
  <2> QED BY <1>1, <2>2 DEF SameUpTo
<1> QED BY <1>2, <1>3, <1>6

\* FlattenSeq is the concatenation of the lists, from the first on.
LEMMA Flattened ==
    ASSUME NEW S, NEW s \in Seq(Seq(S)), NEW x \in Seq(S)
    PROVE  /\ FlattenSeq(s) \in Seq(S)
           /\ FlattenSeq(<<>>) = <<>>
           /\ FlattenSeq(Append(s, x)) = FlattenSeq(s) \o x
<1>1. FlattenSeq(<<>>) = <<>>
  BY DEF FlattenSeq
<1> DEFINE n == Len(s)
           t == Append(s, x)
<1>2. /\ t \in Seq(Seq(S)) /\ Len(t) = n + 1 /\ t[n + 1] = x /\ t # <<>> /\ n \in Nat
      /\ SameUpTo(s, t, n)
  BY Appended DEF SameUpTo
<1> HIDE DEF t, n
<1>3. PICK g \in [1 .. Len(t) -> Seq(S)] : Concats(g, t, Len(t)) /\ FlattenSeq(t) = g[Len(t)]
  BY <1>2, FlattenIs
<1>4. g[n + 1] = IF n + 1 = 1 THEN t[n + 1] ELSE g[n] \o t[n + 1]
  <2>1. n + 1 \in 1 .. Len(t) /\ (n + 1) - 1 = n
    BY <1>2
  <2>2. g[n + 1] = IF n + 1 = 1 THEN t[n + 1] ELSE g[(n + 1) - 1] \o t[n + 1]
    BY <1>3, <2>1 DEF Concats
  <2> QED BY <2>1, <2>2
<1>5. CASE s = <<>>
  <2>1. n = 0 /\ <<>> \o x = x
    BY <1>5 DEF n
  <2>2. FlattenSeq(t) = x
    BY <1>2, <1>3, <1>4, <2>1
  <2>3. <<>> \in Seq(S)
    OBVIOUS
  <2> QED BY <1>1, <1>5, <2>1, <2>2, <2>3 DEF t
<1>6. CASE s # <<>>
  <2>1. PICK f \in [1 .. n -> Seq(S)] : Concats(f, s, n) /\ FlattenSeq(s) = f[n]
    BY <1>6, FlattenIs DEF n
  <2>2. n # 0 /\ n \in 1 .. n
    BY <1>2, <1>6 DEF n
  <2>3. SameUpTo(f, g, n)
    <3>1. n <= n + 1 /\ n + 1 \in Nat
      BY <1>2
    <3>2. Concats(g, t, n + 1)
      BY <1>2, <1>3
    <3> QED BY <1>2, <2>1, <3>1, <3>2, ConcatsAgree
  <2>4. g[n] = f[n] /\ f[n] \in Seq(S)
    BY <2>2, <2>3 DEF SameUpTo
  <2>5. g[n + 1] = g[n] \o t[n + 1]
    BY <1>2, <1>4, <2>2
  <2> QED BY <1>1, <1>2, <1>3, <2>1, <2>4, <2>5 DEF t
<1> QED BY <1>5, <1>6

\* The first d lists of s.
FirstOf(s, d) == SubSeq(s, 1, d)

LEMMA Firsts ==
    ASSUME NEW S, NEW s \in Seq(S), NEW d \in 0 .. Len(s)
    PROVE  /\ FirstOf(s, d) \in Seq(S) /\ Len(FirstOf(s, d)) = d
           /\ FirstOf(s, Len(s)) = s
           /\ \A x \in S : FirstOf(Append(s, x), d) = FirstOf(s, d)
<1>1. Len(s) \in Nat /\ d \in Nat /\ d <= Len(s)
  OBVIOUS
<1>2. FirstOf(s, d) = [j \in 1 .. d |-> s[j]]
  BY <1>1 DEF FirstOf
<1>3. \A j \in 1 .. d : s[j] \in S
  BY <1>1, Elements
<1>4. FirstOf(s, d) \in Seq(S) /\ Len(FirstOf(s, d)) = d
  BY <1>1, <1>2, <1>3
<1>5. FirstOf(s, Len(s)) = s
  <2>1. FirstOf(s, Len(s)) = [j \in 1 .. Len(s) |-> s[j]]
    BY <1>1 DEF FirstOf
  <2> QED BY <2>1
<1>6. ASSUME NEW x \in S
      PROVE  FirstOf(Append(s, x), d) = FirstOf(s, d)
  <2>1. Len(Append(s, x)) = Len(s) + 1 /\ \A j \in 1 .. d : Append(s, x)[j] = s[j]
    BY <1>1, Appended
  <2>2. FirstOf(Append(s, x), d) = [j \in 1 .. d |-> Append(s, x)[j]]
    BY <1>1, <2>1 DEF FirstOf
  <2> QED BY <1>2, <2>1, <2>2
<1> QED BY <1>4, <1>5, <1>6

LEMMA Parted ==
    ASSUME NEW S, NEW s \in Seq(S), s # <<>>
    PROVE  /\ Front(s) \in Seq(S) /\ Last(s) \in S /\ s = Append(Front(s), Last(s))
           /\ Len(s) \in Nat \ {0} /\ Len(Front(s)) = Len(s) - 1
<1>1. Len(s) \in Nat \ {0} /\ DOMAIN s = 1 .. Len(s)
  OBVIOUS
<1>2. Last(s) = s[Len(s)] /\ Last(s) \in S
  BY <1>1, Elements DEF Last
<1>3. Front(s) = [j \in 1 .. Len(s) - 1 |-> s[j]]
  BY DEF Front
<1>4. Front(s) \in Seq(S) /\ Len(Front(s)) = Len(s) - 1
  BY <1>1, <1>3, Elements
<1>5. s = Append(Front(s), Last(s))
  <2> DEFINE q == Front(s)
             x == Last(s)
             t == Append(q, x)
  <2>1. q \in Seq(S) /\ Len(q) = Len(s) - 1 /\ x \in S /\ x = s[Len(s)]
        /\ DOMAIN q = 1 .. Len(s) - 1 /\ \A j \in 1 .. Len(s) - 1 : q[j] = s[j]
    BY <1>2, <1>3, <1>4
  <2> HIDE DEF q, x
  <2>2. /\ t \in Seq(S) /\ Len(t) = Len(s)
        /\ \A j \in 1 .. Len(s) - 1 : t[j] = q[j]
        /\ t[Len(s)] = x
    <3>1. Len(q) + 1 = Len(s)
      BY <1>1, <2>1
    <3>2. /\ t \in Seq(S) /\ Len(t) = Len(q) + 1 /\ t[Len(q) + 1] = x
          /\ \A j \in DOMAIN q : t[j] = q[j]
      BY <2>1, Appended
    <3> QED BY <2>1, <3>1, <3>2
  <2>3. \A j \in 1 .. Len(s) : t[j] = s[j]
    BY <1>1, <2>1, <2>2
  <2>4. t = s
    <3> HIDE DEF t
    <3>1. s = [j \in 1 .. Len(s) |-> s[j]] /\ t = [j \in 1 .. Len(s) |-> t[j]]
      BY <2>2
    <3> QED BY <2>3, <3>1
  <2> QED BY <2>4 DEF q, x
<1> QED BY <1>1, <1>2, <1>4, <1>5

\* The first lists hold no more than all of them.
LEMMA FirstsFlattened ==
    ASSUME NEW S, NEW s \in Seq(Seq(S)), NEW d \in 0 .. Len(s)
    PROVE  /\ Len(FlattenSeq(FirstOf(s, d))) \in Nat
           /\ Len(FlattenSeq(FirstOf(s, d))) <= Len(FlattenSeq(s))
<1> DEFINE A == {n \in Nat : \A p \in Seq(Seq(S)) : Len(p) = n =>
                    \A e \in 0 .. n : Len(FlattenSeq(FirstOf(p, e))) <= Len(FlattenSeq(p))}
<1>0. <<>> \in Seq(S) /\ \A p \in Seq(S) : Len(p) \in Nat
  OBVIOUS
<1>1. \A p \in Seq(Seq(S)) : FlattenSeq(p) \in Seq(S) /\ Len(FlattenSeq(p)) \in Nat
  BY <1>0, Flattened
<1>2. 0 \in A
  <2> SUFFICES ASSUME NEW p \in Seq(Seq(S)), Len(p) = 0, NEW e \in 0 .. 0
               PROVE  Len(FlattenSeq(FirstOf(p, e))) <= Len(FlattenSeq(p))
    OBVIOUS
  <2>1. FirstOf(p, e) = p
    BY Firsts
  <2> QED BY <1>1, <2>1
<1>3. ASSUME NEW n \in Nat, n \in A
      PROVE  n + 1 \in A
  <2> SUFFICES ASSUME NEW p \in Seq(Seq(S)), Len(p) = n + 1, NEW e \in 0 .. n + 1
               PROVE  Len(FlattenSeq(FirstOf(p, e))) <= Len(FlattenSeq(p))
    OBVIOUS
  <2>1. CASE e = n + 1
    <3>1. FirstOf(p, e) = p
      BY <2>1, Firsts
    <3> QED BY <1>1, <3>1
  <2>2. CASE e # n + 1
    <3> DEFINE q == Front(p)
               x == Last(p)
    <3>1. q \in Seq(Seq(S)) /\ x \in Seq(S) /\ p = Append(q, x) /\ Len(q) = n /\ e \in 0 .. n
      <4>1. p # <<>> /\ Len(p) - 1 = n /\ e \in 0 .. n
        BY <2>2
      <4> QED BY <4>1, Parted
    <3> HIDE DEF q, x
    <3>2. FirstOf(p, e) = FirstOf(q, e)
      BY <3>1, Firsts
    <3>3. Len(FlattenSeq(FirstOf(q, e))) <= Len(FlattenSeq(q))
      BY <1>3, <3>1
    <3>4. FlattenSeq(p) = FlattenSeq(q) \o x
      BY <3>1, Flattened
    <3>5. Len(FlattenSeq(p)) = Len(FlattenSeq(q)) + Len(x)
      BY <1>1, <3>1, <3>4
    <3>6. /\ Len(FlattenSeq(q)) \in Nat /\ Len(x) \in Nat
          /\ FirstOf(q, e) \in Seq(Seq(S))
      BY <1>0, <1>1, <3>1, Firsts
    <3>7. Len(FlattenSeq(FirstOf(q, e))) \in Nat
      BY <1>1, <3>6
    <3> QED BY <3>2, <3>3, <3>5, <3>6, <3>7
  <2> QED BY <2>1, <2>2
<1>4. \A n \in Nat : n \in A
  <2> HIDE DEF A
  <2> QED BY <1>2, <1>3, AllNumbers
<1>5. Len(s) \in Nat /\ FirstOf(s, d) \in Seq(Seq(S))
  BY Firsts
<1> QED BY <1>1, <1>4, <1>5

--------------------------------------------------------------------------------
(* The stack of pools as one list with marks in it.                           *)

\* The first scope begins with nothing autoreleased, and with no scope open
\* every pool is gone but those a pop has still to drain.
ScopesFromEmpty ==
    /\ tokens # <<>> => tokens[1] = 0
    /\ tokens = <<>> => IF Borrowed THEN \A i \in Pops(frames) : frames[i].depth = 0
                        ELSE stack = <<>>

\* What AutoreleaseScopes sees of the state, and what it sees of a pop.
Marks == [i \in DOMAIN tokens |-> Below(tokens[i])]
Drain == IF Borrowed THEN Below(frames[CHOOSE i \in Pops(frames) : TRUE].depth) ELSE -1

LEMMA ScopesSeen ==
    /\ Scopes!Open <=> /\ Drain = -1 /\ Marks' = Append(Marks, Len(Trail))
                       /\ Trail' = Trail /\ Drain' = Drain
    /\ \A o : Scopes!Add(o) <=> /\ Drain = -1 /\ Marks # <<>> /\ Trail' = Append(Trail, o)
                                /\ Marks' = Marks /\ Drain' = Drain
    /\ \A i : Scopes!Close(i) <=> /\ Drain = -1 /\ Drain' = Marks[i]
                                  /\ Marks' = SubSeq(Marks, 1, i - 1) /\ Trail' = Trail
    /\ Scopes!Drop <=> /\ Drain # -1 /\ Len(Trail) > Drain /\ Trail' = Front(Trail)
                       /\ Marks' = Marks /\ Drain' = Drain
    /\ Scopes!Drained <=> /\ Drain # -1 /\ Len(Trail) = Drain /\ Drain' = -1
                          /\ Trail' = Trail /\ Marks' = Marks
    /\ UNCHANGED Scopes!vars <=> Trail' = Trail /\ Marks' = Marks /\ Drain' = Drain
<1>1. Scopes!Open <=> /\ Drain = -1 /\ Marks' = Append(Marks, Len(Trail))
                      /\ Trail' = Trail /\ Drain' = Drain
  BY DEF Scopes!Open, Marks, Drain
<1>2. ASSUME NEW o
      PROVE  Scopes!Add(o) <=> /\ Drain = -1 /\ Marks # <<>> /\ Trail' = Append(Trail, o)
                               /\ Marks' = Marks /\ Drain' = Drain
  BY DEF Scopes!Add, Marks, Drain
<1>3. ASSUME NEW i
      PROVE  Scopes!Close(i) <=> /\ Drain = -1 /\ Drain' = Marks[i]
                                 /\ Marks' = SubSeq(Marks, 1, i - 1) /\ Trail' = Trail
  BY DEF Scopes!Close, Marks, Drain
<1>4. Scopes!Drop <=> /\ Drain # -1 /\ Len(Trail) > Drain /\ Trail' = Front(Trail)
                      /\ Marks' = Marks /\ Drain' = Drain
  BY DEF Scopes!Drop, Scopes!Front, Front, Marks, Drain
<1>5. Scopes!Drained <=> /\ Drain # -1 /\ Len(Trail) = Drain /\ Drain' = -1
                         /\ Trail' = Trail /\ Marks' = Marks
  BY DEF Scopes!Drained, Marks, Drain
<1>6. UNCHANGED Scopes!vars <=> Trail' = Trail /\ Marks' = Marks /\ Drain' = Drain
  BY DEF Scopes!vars, Marks, Drain
<1> QED BY <1>1, <1>2, <1>3, <1>4, <1>5, <1>6

\* The number of objects in the first d of some pools.
BelowIn(pools, d) == Len(FlattenSeq(FirstOf(pools, d)))

\* Where the scopes begin, and what a pop drains back to, now and next.
LEMMA MarksAre ==
    /\ Marks = [i \in DOMAIN tokens |-> BelowIn(stack, tokens[i])]
    /\ Marks' = [i \in DOMAIN tokens' |-> BelowIn(stack', tokens'[i])]
BY DEF Marks, Below, BelowIn, FirstOf

LEMMA DrainIs ==
    /\ ~Borrowed => Drain = -1
    /\ \A k : Pops(frames) = {k} => Drain = BelowIn(stack, frames[k].depth)
<1>1. ASSUME NEW k, Pops(frames) = {k}
      PROVE  Drain = BelowIn(stack, frames[k].depth)
  <2>1. (CHOOSE i \in Pops(frames) : TRUE) = k
    BY <1>1
  <2> QED BY <1>1, <2>1 DEF Drain, Borrowed, Below, BelowIn, FirstOf
<1> QED BY <1>1 DEF Drain

LEMMA DrainIsNext ==
    /\ Pops(frames') = {} => Drain' = -1
    /\ \A k : Pops(frames') = {k} => Drain' = BelowIn(stack', frames'[k].depth)
<1>1. ASSUME NEW k, Pops(frames') = {k}
      PROVE  Drain' = BelowIn(stack', frames'[k].depth)
  <2>1. (CHOOSE i \in Pops(frames') : TRUE) = k
    BY <1>1
  <2> QED BY <1>1, <2>1 DEF Drain, Borrowed, Below, BelowIn, FirstOf
<1> QED BY <1>1 DEF Drain, Borrowed

\* A step that does nothing to the pools, or to the pop that drains them.
Quiet ==
    /\ UNCHANGED <<stack, tokens>>
    /\ Pops(frames') = Pops(frames) /\ \A i \in Pops(frames) : frames'[i] = frames[i]
    /\ HandOf(frames') = HandOf(frames)

LEMMA QuietSteps ==
    ASSUME AInv,
           \/ \E o \in Obj : \/ Alloc(o) \/ Retain(o) \/ Release(o)
                             \/ stack = <<>> /\ (AutoreleaseObj(o) \/ LoadWeak(o))
           \/ FinishDealloc \/ PoolsWhileBorrowed \/ UNCHANGED vars
    PROVE  Quiet
<1>1. frames \in Seq(Frame) /\ \A i, j \in Pops(frames) : i = j
  BY DEF AInv, TypeOK, OnePop
<1>2. ASSUME UNCHANGED <<stack, tokens, frames>> PROVE Quiet
  BY <1>2 DEF Quiet
<1>3. ASSUME NEW o \in Obj, \/ Alloc(o) \/ Retain(o)
                            \/ stack = <<>> /\ (AutoreleaseObj(o) \/ LoadWeak(o))
      PROVE  Quiet
  BY <1>2, <1>3 DEF Alloc, Retain, AutoreleaseObj, LoadWeak, Deposit
<1>4. ASSUME NEW o \in Obj, Release(o) PROVE Quiet
  <2>1. count[o] > 0
    BY <1>4, Sums DEF Release
  <2> QED BY <1>1, <1>4, <2>1, ReleaseDoes DEF Release, Quiet
<1>5. ASSUME FinishDealloc PROVE Quiet
  <2>1. frames # <<>> /\ frames' = Front(frames) /\ Last(frames).kind = "dealloc"
    BY <1>5 DEF FinishDealloc, MayRun
  <2>2. Len(frames) \notin Pops(frames)
    BY <1>1, <2>1 DEF Last, Pops
  <2>3. /\ Pops(frames') = Pops(frames) \ {Len(frames)}
        /\ \A i \in Pops(frames') : frames'[i] = frames[i]
        /\ HandOf(frames') = HandOf(frames)
    BY <1>1, <2>1, CallReturns
  <2>4. UNCHANGED <<stack, tokens>>
    BY <1>5 DEF FinishDealloc
  <2> QED BY <2>2, <2>3, <2>4 DEF Quiet
<1>6. ASSUME PoolsWhileBorrowed \/ UNCHANGED vars PROVE Quiet
  BY <1>2, <1>6 DEF PoolsWhileBorrowed, vars
<1> QED BY <1>3, <1>4, <1>5, <1>6

LEMMA QuietHidden ==
    ASSUME AInv, Quiet
    PROVE  /\ UNCHANGED Scopes!vars
           /\ ScopesFromEmpty => ScopesFromEmpty'
<1>1. Trail' = Trail /\ Marks' = Marks /\ UNCHANGED <<stack, tokens>>
  BY MarksAre DEF Quiet, Trail
<1>2. Borrowed' = Borrowed
  BY DEF Quiet, Borrowed
<1>3. CASE ~Borrowed
  <2>1. Drain = -1 /\ Drain' = -1
    BY <1>3, DrainIs, DrainIsNext DEF Quiet, Borrowed
  <2>2. ScopesFromEmpty => ScopesFromEmpty'
    BY <1>1, <1>2, <1>3 DEF ScopesFromEmpty
  <2> QED BY <1>1, <2>1, <2>2, ScopesSeen
<1>4. CASE Borrowed
  <2>1. PICK k : Pops(frames) = {k}
    BY <1>4 DEF Borrowed, AInv, OnePop
  <2>2. Pops(frames') = {k} /\ frames'[k] = frames[k]
    BY <2>1 DEF Quiet
  <2>3. Drain = BelowIn(stack, frames[k].depth) /\ Drain' = BelowIn(stack', frames'[k].depth)
    BY <2>1, <2>2, DrainIs, DrainIsNext
  <2>4. UNCHANGED Scopes!vars
    BY <1>1, <2>2, <2>3, ScopesSeen
  <2>5. ScopesFromEmpty => ScopesFromEmpty'
    BY <1>1, <1>2, <1>4, <2>1, <2>2 DEF ScopesFromEmpty
  <2> QED BY <2>4, <2>5
<1> QED BY <1>3, <1>4

\* The steps of AutoreleaseScopes, as far as they are told apart here.
ScopesStep == [Scopes!Next]_(Scopes!vars)

LEMMA ScopesSteps ==
    /\ Scopes!Open => ScopesStep
    /\ \A o \in Obj : Scopes!Add(o) => ScopesStep
    /\ \A i \in DOMAIN tokens : Scopes!Close(i) => ScopesStep
    /\ Scopes!Drop => ScopesStep
    /\ Scopes!Drained => ScopesStep
    /\ UNCHANGED Scopes!vars => ScopesStep
BY DEF ScopesStep, Scopes!Next

\* The objects in the first pools are counted, and are no more than all.
LEMMA BelowBounds ==
    ASSUME NEW pools \in Seq(Seq(Obj)), NEW d \in 0 .. Len(pools)
    PROVE  /\ FlattenSeq(pools) \in Seq(Obj) /\ Len(FlattenSeq(pools)) \in Nat
           /\ BelowIn(pools, d) \in Nat /\ BelowIn(pools, d) <= Len(FlattenSeq(pools))
           /\ BelowIn(pools, Len(pools)) = Len(FlattenSeq(pools))
           /\ \A p \in Seq(Obj) : BelowIn(Append(pools, p), d) = BelowIn(pools, d)
<1>1. <<>> \in Seq(Obj) /\ \A p \in Seq(Obj) : Len(p) \in Nat
  OBVIOUS
<1>2. FlattenSeq(pools) \in Seq(Obj)
  BY <1>1, Flattened
<1>3. BelowIn(pools, d) \in Nat /\ BelowIn(pools, d) <= Len(FlattenSeq(pools))
  BY FirstsFlattened DEF BelowIn
<1>4. /\ FirstOf(pools, Len(pools)) = pools
      /\ \A p \in Seq(Obj) : FirstOf(Append(pools, p), d) = FirstOf(pools, d)
  BY Firsts
<1> QED BY <1>1, <1>2, <1>3, <1>4 DEF BelowIn

\* A mark is at a depth of the stack.
LEMMA TokenDepths ==
    ASSUME AInv
    PROVE  /\ stack \in Seq(Seq(Obj)) /\ Len(stack) \in Nat
           /\ tokens \in Seq(0 .. MaxPools) /\ Len(tokens) \in Nat
           /\ DOMAIN tokens = 1 .. Len(tokens)
           /\ \A i \in DOMAIN tokens : tokens[i] \in 0 .. Len(stack) - 1
<1>1. stack \in Seq(Seq(Obj)) /\ tokens \in Seq(0 .. MaxPools)
  BY DEF AInv, TypeOK
<1>2. Len(stack) \in Nat /\ Len(tokens) \in Nat /\ DOMAIN tokens = 1 .. Len(tokens)
  BY <1>1
<1>3. ASSUME NEW i \in DOMAIN tokens PROVE tokens[i] \in 0 .. Len(stack) - 1
  <2>1. tokens[i] \in 0 .. MaxPools
    BY <1>1, Elements
  <2>2. tokens[i] < Len(stack)
    BY DEF AInv, TokensFit
  <2> QED BY <1>2, <2>1, <2>2, Bounds
<1> QED BY <1>1, <1>2, <1>3

\* A pop drains back to a depth of the stack.
LEMMA PopDepth ==
    ASSUME AInv, Popping
    PROVE  /\ Last(frames).depth = frames[Len(frames)].depth
           /\ Last(frames).depth \in 0 .. Len(stack)
           /\ Drain = BelowIn(stack, frames[Len(frames)].depth)
           /\ Borrowed /\ Pops(frames) = {Len(frames)}
<1>1. /\ frames \in Seq(Frame) /\ frames # <<>> /\ Last(frames).kind = "pop"
      /\ Last(frames) = frames[Len(frames)] /\ Pops(frames) = {Len(frames)}
  BY OnTop
<1>2. Last(frames) \in Frame
  BY <1>1, Elements DEF Pops
<1>3. Last(frames).depth \in 0 .. MaxPools
  BY <1>1, <1>2, FrameKinds
<1>4. Last(frames).depth <= Len(stack) /\ Len(stack) \in Nat
  BY <1>1 DEF AInv, PopsFit, TypeOK
<1>5. Last(frames).depth \in 0 .. Len(stack)
  BY <1>3, <1>4, Bounds
<1> QED BY <1>1, <1>5, DrainIs DEF Borrowed

\* A list without its last element, put back, and taken off again.
LEMMA FrontOfAppend ==
    ASSUME NEW S, NEW s \in Seq(S), NEW x \in S
    PROVE  Front(Append(s, x)) = s
<1> DEFINE t == Append(s, x)
<1>1. Len(s) \in Nat /\ Len(t) = Len(s) + 1 /\ \A j \in DOMAIN s : t[j] = s[j]
  BY Appended
<1> HIDE DEF t
<1>2. Front(t) = [j \in 1 .. Len(s) |-> t[j]]
  BY <1>1 DEF Front
<1>3. DOMAIN s = 1 .. Len(s) /\ s = [j \in 1 .. Len(s) |-> s[j]]
  OBVIOUS
<1>4. Front(t) = s
  BY <1>1, <1>2, <1>3
<1> QED BY <1>4 DEF t

\* An element appended to the second of two lists is appended to their join.
LEMMA JoinedAppend ==
    ASSUME NEW S, NEW s \in Seq(S), NEW t \in Seq(S), NEW x \in S
    PROVE  s \o t \in Seq(S) /\ s \o Append(t, x) = Append(s \o t, x)
<1> DEFINE a == s \o Append(t, x)
           b == Append(s \o t, x)
<1>1. /\ Len(s) \in Nat /\ Len(t) \in Nat /\ s \o t \in Seq(S)
      /\ Len(s \o t) = Len(s) + Len(t)
  OBVIOUS
<1>2. /\ Len(a) = Len(s) + Len(t) + 1 /\ a \in Seq(S)
      /\ \A j \in 1 .. Len(a) : a[j] = IF j <= Len(s) THEN s[j]
                                     ELSE IF j = Len(a) THEN x ELSE t[j - Len(s)]
  OBVIOUS
<1>3. /\ Len(b) = Len(s) + Len(t) + 1 /\ b \in Seq(S)
      /\ \A j \in 1 .. Len(b) : b[j] = IF j <= Len(s) THEN s[j]
                                     ELSE IF j = Len(b) THEN x ELSE t[j - Len(s)]
  OBVIOUS
<1>4. a = b
  <2> HIDE DEF a, b
  <2>1. a = [j \in 1 .. Len(a) |-> a[j]] /\ b = [j \in 1 .. Len(b) |-> b[j]]
    BY <1>2, <1>3
  <2>2. Len(a) = Len(b)
    BY <1>2, <1>3
  <2>3. \A j \in 1 .. Len(a) : a[j] = b[j]
    BY <1>2, <1>3, <2>2
  <2> QED BY <2>1, <2>2, <2>3
<1> QED BY <1>1, <1>4

LEMMA PushIsOpen ==
    ASSUME AInv, ScopesFromEmpty, Push
    PROVE  ScopesStep /\ ScopesFromEmpty'
<1>1. /\ stack \in Seq(Seq(Obj)) /\ Len(stack) \in Nat
      /\ tokens \in Seq(0 .. MaxPools) /\ Len(tokens) \in Nat
      /\ DOMAIN tokens = 1 .. Len(tokens)
      /\ \A i \in DOMAIN tokens : tokens[i] \in 0 .. Len(stack) - 1
  BY TokenDepths
<1>2. /\ stack' = Append(stack, <<>>) /\ tokens' = Append(tokens, Len(stack))
      /\ frames' = frames /\ ~Borrowed /\ <<>> \in Seq(Obj)
  BY DEF Push
<1>3. Drain = -1 /\ Drain' = -1
  BY <1>2, DrainIs, DrainIsNext DEF Borrowed
<1>4. HandOf(frames) = <<>> /\ HandOf(frames') = <<>>
  BY <1>2 DEF Borrowed, HandOf
<1>5. FlattenSeq(stack') = FlattenSeq(stack) /\ FlattenSeq(stack) \in Seq(Obj)
  <2>1. FlattenSeq(stack) \in Seq(Obj) /\ FlattenSeq(stack') = FlattenSeq(stack) \o <<>>
    BY <1>1, <1>2, Flattened
  <2> QED BY <2>1
<1>6. Trail' = Trail /\ Trail = FlattenSeq(stack)
  BY <1>4, <1>5 DEF Trail
<1>7. /\ tokens' \in Seq(Nat) /\ Len(tokens') = Len(tokens) + 1
      /\ \A i \in DOMAIN tokens : tokens'[i] = tokens[i]
      /\ tokens'[Len(tokens) + 1] = Len(stack)
  <2>1. tokens \in Seq(Nat)
    BY <1>1, Bounds
  <2> QED BY <1>1, <1>2, <2>1, Appended
<1>8. /\ \A i \in DOMAIN tokens : BelowIn(stack', tokens'[i]) = BelowIn(stack, tokens[i])
      /\ BelowIn(stack', tokens'[Len(tokens) + 1]) = Len(Trail)
      /\ \A i \in DOMAIN tokens : BelowIn(stack, tokens[i]) \in Nat
      /\ Len(Trail) \in Nat
  <2>1. ASSUME NEW i \in DOMAIN tokens
        PROVE  /\ BelowIn(stack', tokens'[i]) = BelowIn(stack, tokens[i])
               /\ BelowIn(stack, tokens[i]) \in Nat
    <3>1. tokens[i] \in 0 .. Len(stack)
      BY <1>1
    <3> QED BY <1>1, <1>2, <1>7, <3>1, BelowBounds
  <2>2. Len(stack) \in 0 .. Len(stack)
    BY <1>1
  <2>3. BelowIn(stack', Len(stack)) = Len(FlattenSeq(stack)) /\ Len(FlattenSeq(stack)) \in Nat
    BY <1>1, <1>2, <2>2, BelowBounds
  <2> QED BY <1>6, <1>7, <2>1, <2>3
<1>9. Marks' = Append(Marks, Len(Trail))
  <2> DEFINE m == Append(Marks, Len(Trail))
  <2>1. Marks \in Seq(Nat) /\ Len(Marks) = Len(tokens)
        /\ \A i \in DOMAIN tokens : Marks[i] = BelowIn(stack, tokens[i])
    BY <1>1, <1>8, MarksAre
  <2>2. /\ m \in Seq(Nat) /\ Len(m) = Len(tokens) + 1 /\ m[Len(tokens) + 1] = Len(Trail)
        /\ \A i \in DOMAIN Marks : m[i] = Marks[i]
    BY <1>8, <2>1, Appended
  <2>3. DOMAIN tokens' = 1 .. Len(tokens) + 1 /\ DOMAIN Marks = DOMAIN tokens
    BY <1>1, <1>7, <2>1
  <2>4. \A i \in 1 .. Len(tokens) + 1 : m[i] = BelowIn(stack', tokens'[i])
    <3>1. \A i \in 1 .. Len(tokens) + 1 : i \in DOMAIN tokens \/ i = Len(tokens) + 1
      BY <1>1
    <3> HIDE DEF m
    <3> QED BY <1>8, <2>1, <2>2, <2>3, <3>1
  <2>5. m = [i \in 1 .. Len(tokens) + 1 |-> m[i]]
    <3> HIDE DEF m
    <3> QED BY <2>2
  <2>6. Marks' = [i \in 1 .. Len(tokens) + 1 |-> BelowIn(stack', tokens'[i])]
    BY <2>3, MarksAre
  <2> HIDE DEF m
  <2>7. Marks' = m
    BY <2>4, <2>5, <2>6
  <2> QED BY <2>7 DEF m
<1>10. ScopesStep
  BY <1>3, <1>6, <1>9, ScopesSeen, ScopesSteps
<1>11. ScopesFromEmpty'
  <2>1. tokens' # <<>>
    BY <1>1, <1>7
  <2>2. tokens'[1] = 0
    <3>1. CASE tokens = <<>>
      <4>1. Len(tokens) + 1 = 1 /\ Len(stack) = 0
        BY <1>2, <3>1 DEF ScopesFromEmpty
      <4> QED BY <1>7, <4>1
    <3>2. CASE tokens # <<>>
      <4>1. 1 \in DOMAIN tokens /\ tokens[1] = 0
        BY <1>1, <3>2 DEF ScopesFromEmpty
      <4> QED BY <1>7, <4>1
    <3> QED BY <3>1, <3>2
  <2> QED BY <2>1, <2>2 DEF ScopesFromEmpty
<1> QED BY <1>10, <1>11

LEMMA DepositIsAdd ==
    ASSUME AInv, ScopesFromEmpty, ~Borrowed, NEW o \in Obj, stack # <<>>, Deposit(o),
           UNCHANGED <<tokens, frames>>
    PROVE  ScopesStep /\ ScopesFromEmpty'
<1>1. /\ stack \in Seq(Seq(Obj)) /\ Len(stack) \in Nat
      /\ \A i \in DOMAIN tokens : tokens[i] \in 0 .. Len(stack) - 1
  BY TokenDepths
<1>2. Drain = -1 /\ Drain' = -1
  BY DrainIs, DrainIsNext DEF Borrowed
<1>3. HandOf(frames) = <<>> /\ HandOf(frames') = <<>>
  BY DEF Borrowed, HandOf
<1>4. tokens # <<>> /\ Borrowed' = Borrowed
  BY DEF ScopesFromEmpty, Borrowed
<1> DEFINE q == Front(stack)
           x == Last(stack)
<1>5. /\ q \in Seq(Seq(Obj)) /\ x \in Seq(Obj) /\ stack = Append(q, x)
      /\ Len(q) = Len(stack) - 1 /\ x = stack[Len(stack)]
  BY <1>1, Parted DEF Last
<1> HIDE DEF q, x
<1>6. stack' = Append(q, Append(x, o)) /\ Append(x, o) \in Seq(Obj)
  <2>1. stack' = [stack EXCEPT ![Len(stack)] = Append(x, o)]
    BY <1>5 DEF Deposit
  <2>2. Append(x, o) \in Seq(Obj)
    BY <1>5
  <2> DEFINE y == Append(x, o)
             t == Append(q, y)
  <2> HIDE DEF y
  <2>3. /\ t \in Seq(Seq(Obj)) /\ Len(t) = Len(stack)
        /\ t[Len(stack)] = y /\ \A j \in DOMAIN q : t[j] = q[j]
    <3>1. y \in Seq(Obj) /\ Len(q) + 1 = Len(stack)
      BY <1>1, <1>5, <2>2 DEF y
    <3> QED BY <1>5, <3>1, Appended
  <2>4. \A j \in DOMAIN q : q[j] = stack[j]
    BY <1>5, Appended
  <2>5. DOMAIN stack = 1 .. Len(stack) /\ DOMAIN q = 1 .. Len(stack) - 1
    BY <1>1, <1>5
  <2> HIDE DEF t
  <2>6. \A j \in 1 .. Len(stack) : t[j] = IF j = Len(stack) THEN y ELSE stack[j]
    <3> SUFFICES ASSUME NEW j \in 1 .. Len(stack)
                 PROVE  t[j] = IF j = Len(stack) THEN y ELSE stack[j]
      OBVIOUS
    <3>1. CASE j = Len(stack)
      BY <2>3, <3>1
    <3>2. CASE j # Len(stack)
      <4>1. j \in 1 .. Len(stack) - 1
        BY <1>1, <3>2
      <4>2. j \in DOMAIN q
        BY <2>5, <4>1
      <4> QED BY <2>3, <2>4, <3>2, <4>2
    <3> QED BY <3>1, <3>2
  <2>7. t = [j \in 1 .. Len(stack) |-> t[j]]
    BY <2>3
  <2>8. stack' = [j \in 1 .. Len(stack) |-> IF j = Len(stack) THEN y ELSE stack[j]]
    BY <2>1, <2>5 DEF y
  <2>9. stack' = t
    BY <2>6, <2>7, <2>8
  <2> QED BY <2>2, <2>9 DEF t, y
<1>7. Trail' = Append(Trail, o)
  <2>1. /\ FlattenSeq(q) \in Seq(Obj) /\ FlattenSeq(stack) = FlattenSeq(q) \o x
        /\ FlattenSeq(stack') = FlattenSeq(q) \o Append(x, o)
    BY <1>5, <1>6, Flattened
  <2>2. \A f \in Seq(Obj) : f \o Append(x, o) = Append(f \o x, o) /\ f \o x \in Seq(Obj)
    BY <1>5, JoinedAppend
  <2>3. FlattenSeq(stack') = Append(FlattenSeq(stack), o) /\ FlattenSeq(stack) \in Seq(Obj)
    BY <2>1, <2>2
  <2>4. Trail = FlattenSeq(stack)
    BY <1>3, <2>3 DEF Trail
  <2>5. FlattenSeq(stack') \in Seq(Obj)
    BY <2>3
  <2>6. Trail' = FlattenSeq(stack')
    BY <1>3, <2>5 DEF Trail
  <2> QED BY <2>3, <2>4, <2>6
<1>8. Marks' = Marks
  <2>1. ASSUME NEW i \in DOMAIN tokens
        PROVE  BelowIn(stack', tokens[i]) = BelowIn(stack, tokens[i])
    <3>1. tokens[i] \in 0 .. Len(q)
      BY <1>1, <1>5
    <3> QED BY <1>5, <1>6, <3>1, BelowBounds
  <2>2. [i \in DOMAIN tokens |-> BelowIn(stack', tokens[i])] =
           [i \in DOMAIN tokens |-> BelowIn(stack, tokens[i])]
    BY <2>1
  <2> QED BY <2>2, MarksAre
<1>9. Marks # <<>>
  <2>1. DOMAIN Marks = DOMAIN tokens /\ DOMAIN tokens # {}
    BY <1>4, TokenDepths, MarksAre
  <2> QED BY <2>1
<1>10. ScopesStep
  BY <1>2, <1>7, <1>8, <1>9, ScopesSeen, ScopesSteps
<1> QED BY <1>4, <1>10 DEF ScopesFromEmpty

LEMMA PopStartIsClose ==
    ASSUME AInv, ScopesFromEmpty, NEW i \in 1 .. MaxPools, PopStart(i)
    PROVE  ScopesStep /\ ScopesFromEmpty'
<1>1. /\ frames \in Seq(Frame) /\ Pops(frames) = {} /\ ~Borrowed
      /\ stack' = stack /\ tokens' = SubSeq(tokens, 1, i - 1)
      /\ frames' = Append(frames, PopFrame(tokens[i], <<>>))
  BY DEF AInv, TypeOK, PopStart, Borrowed
<1>2. /\ tokens \in Seq(0 .. MaxPools) /\ Len(tokens) \in Nat /\ DOMAIN tokens = 1 .. Len(tokens)
  BY TokenDepths
<1>3. i \in DOMAIN tokens /\ i \in 1 .. Len(tokens)
  BY <1>2, PopTakesToken
<1>4. tokens[i] \in 0 .. MaxPools
  BY <1>2, <1>3, Elements
<1>5. /\ Pops(frames') = {Len(frames) + 1} /\ frames'[Len(frames) + 1].depth = tokens[i]
      /\ HandOf(frames') = <<>>
  BY <1>1, <1>4, PopCalled
<1>6. /\ Len(tokens') = i - 1 /\ DOMAIN tokens' = 1 .. i - 1
      /\ \A j \in DOMAIN tokens' : j \in DOMAIN tokens /\ tokens'[j] = tokens[j]
  BY <1>1, <1>2, <1>3, Prefix
<1>7. Drain = -1 /\ Drain' = Marks[i]
  <2>1. Drain' = BelowIn(stack', tokens[i])
    BY <1>5, DrainIsNext
  <2> QED BY <1>1, <1>3, <2>1, DrainIs, MarksAre
<1>8. Trail' = Trail
  BY <1>1, <1>5 DEF Trail, HandOf
<1>9. Marks' = SubSeq(Marks, 1, i - 1)
  <2>1. Marks' = [j \in 1 .. i - 1 |-> Marks[j]]
    <3>1. Marks' = [j \in 1 .. i - 1 |-> BelowIn(stack', tokens'[j])]
      BY <1>6, MarksAre
    <3>2. \A j \in 1 .. i - 1 : BelowIn(stack', tokens'[j]) = Marks[j]
      BY <1>1, <1>6, MarksAre
    <3> QED BY <3>1, <3>2
  <2> QED BY <2>1
<1>10. ScopesStep
  BY <1>3, <1>7, <1>8, <1>9, ScopesSeen, ScopesSteps
<1>11. ScopesFromEmpty'
  <2>1. tokens[1] = 0
    BY <1>2, <1>3 DEF ScopesFromEmpty
  <2>2. CASE tokens' = <<>>
    <3>1. i = 1
      BY <1>2, <1>3, <1>6, <2>2
    <3> QED BY <1>5, <2>1, <2>2, <3>1 DEF ScopesFromEmpty, Borrowed
  <2>3. CASE tokens' # <<>>
    <3>1. 1 \in DOMAIN tokens'
      <4>1. tokens' \in Seq(0 .. MaxPools)
        BY <1>1, <1>2, <1>3, Prefix
      <4> QED BY <2>3, <4>1
    <3> QED BY <1>6, <2>1, <2>3, <3>1 DEF ScopesFromEmpty
  <2> QED BY <2>2, <2>3
<1> QED BY <1>10, <1>11

\* The object a pop releases has left its hands.
LEMMA ReleasedFromPool ==
    ASSUME AInv, PopRelease
    PROVE  /\ Pops(frames') = {Len(frames)}
           /\ frames'[Len(frames)].depth = frames[Len(frames)].depth
           /\ HandOf(frames') = Front(Last(frames).rest)
<1> DEFINE rest == Last(frames).rest
           o == Last(rest)
           fs == [frames EXCEPT ![Len(frames)].rest = Front(rest)]
<1>1. /\ frames \in Seq(Frame) /\ \A i, j \in Pops(frames) : i = j
      /\ frames # <<>> /\ Last(frames).kind = "pop"
      /\ Last(frames) = frames[Len(frames)] /\ rest \in Seq(Obj) /\ rest # <<>>
  BY OnTop DEF PopRelease
<1>2. Released(o, fs)
  BY <1>1 DEF PopRelease, Popping
<1> HIDE DEF rest
<1>3. Front(rest) \in Seq(Obj) /\ o \in Obj
  BY <1>1, Shortened
<1> HIDE DEF o
<1>4. /\ fs \in Seq(Frame) /\ Pops(fs) = {Len(frames)}
      /\ fs[Len(frames)].depth = frames[Len(frames)].depth /\ HandOf(fs) = Front(rest)
  BY <1>1, <1>3, HandChanged
<1> HIDE DEF fs
<1>5. \A i, j \in Pops(fs) : i = j
  BY <1>4
<1>6. /\ Pops(frames') = Pops(fs) /\ \A i \in Pops(fs) : frames'[i] = fs[i]
      /\ HandOf(frames') = HandOf(fs)
  BY <1>2, <1>3, <1>4, <1>5, ReleaseCalls
<1> QED BY <1>4, <1>6 DEF rest

LEMMA PopReleaseIsDrop ==
    ASSUME AInv, ScopesFromEmpty, PopRelease
    PROVE  ScopesStep /\ ScopesFromEmpty'
<1> DEFINE k == Len(frames)
           rest == Last(frames).rest
           q == Front(rest)
           x == Last(rest)
<1>1. rest \in Seq(Obj) /\ HandOf(frames) = rest /\ rest # <<>> /\ Popping
  BY OnTop DEF PopRelease
<1>2. stack \in Seq(Seq(Obj)) /\ stack' = stack /\ tokens' = tokens
  BY DEF PopRelease, AInv, TypeOK
<1>3. /\ frames[k].depth \in 0 .. Len(stack) /\ Drain = BelowIn(stack, frames[k].depth)
      /\ Borrowed /\ Pops(frames) = {k}
  BY <1>1, PopDepth
<1>4. /\ Pops(frames') = {k} /\ frames'[k].depth = frames[k].depth /\ HandOf(frames') = q
  BY ReleasedFromPool
<1> HIDE DEF k, rest
<1>5. q \in Seq(Obj) /\ x \in Obj /\ rest = Append(q, x)
  BY <1>1, Parted
<1> HIDE DEF q, x
<1>6. Drain' = Drain /\ Marks' = Marks
  <2>1. Drain' = BelowIn(stack', frames'[k].depth)
    BY <1>4, DrainIsNext
  <2> QED BY <1>2, <1>3, <1>4, <2>1, MarksAre
<1>7. /\ FlattenSeq(stack) \in Seq(Obj) /\ Len(FlattenSeq(stack)) \in Nat
      /\ Drain \in Nat /\ Drain <= Len(FlattenSeq(stack))
  BY <1>2, <1>3, BelowBounds
<1> DEFINE f == FlattenSeq(stack)
<1>8. Trail = f \o Append(q, x) /\ Trail' = f \o q
  BY <1>1, <1>2, <1>4, <1>5 DEF Trail
<1> HIDE DEF f
<1>9. /\ f \o q \in Seq(Obj) /\ Trail = Append(f \o q, x)
      /\ Len(f \o q) = Len(f) + Len(q) /\ Len(q) \in Nat /\ Len(f) \in Nat
  <2>1. f \in Seq(Obj)
    BY <1>7 DEF f
  <2>2. f \o q \in Seq(Obj) /\ f \o Append(q, x) = Append(f \o q, x)
    BY <1>5, <2>1, JoinedAppend
  <2>3. Len(f \o q) = Len(f) + Len(q) /\ Len(q) \in Nat /\ Len(f) \in Nat
    BY <1>5, <2>1
  <2> QED BY <1>8, <2>2, <2>3
<1>10. Trail' = Front(Trail)
  BY <1>5, <1>8, <1>9, FrontOfAppend
<1>11. Drain # -1 /\ Len(Trail) > Drain
  <2>1. Len(Trail) = Len(f \o q) + 1
    BY <1>5, <1>9, Appended
  <2>2. Drain \in Nat /\ Drain <= Len(f)
    BY <1>7 DEF f
  <2> QED BY <1>9, <2>1, <2>2
<1>12. ScopesStep
  BY <1>6, <1>10, <1>11, ScopesSeen, ScopesSteps
<1>13. ScopesFromEmpty'
  BY <1>2, <1>3, <1>4 DEF ScopesFromEmpty, Borrowed
<1> QED BY <1>12, <1>13

LEMMA PopNextPoolIsHidden ==
    ASSUME AInv, ScopesFromEmpty, PopNextPool
    PROVE  ScopesStep /\ ScopesFromEmpty'
<1> DEFINE k == Len(frames)
           q == Front(stack)
           x == Last(stack)
<1>1. Popping /\ HandOf(frames) = <<>> /\ tokens' = tokens
  BY OnTop DEF PopNextPool, refs
<1>2. /\ stack \in Seq(Seq(Obj)) /\ Len(stack) \in Nat
      /\ \A i \in DOMAIN tokens : tokens[i] \in 0 .. Len(stack) - 1
  BY TokenDepths
<1>3. /\ frames[k].depth \in 0 .. Len(stack) /\ Drain = BelowIn(stack, frames[k].depth)
      /\ Borrowed /\ Pops(frames) = {k} /\ Last(frames).depth = frames[k].depth
  BY <1>1, PopDepth
<1>4. Len(stack) > frames[k].depth /\ stack' = q
  BY <1>3 DEF PopNextPool
<1>5. stack # <<>>
  BY <1>2, <1>3, <1>4
<1>6. /\ Pops(frames') = {k} /\ frames'[k].depth = frames[k].depth /\ HandOf(frames') = x
  BY <1>2, <1>5, Parted, TakenInHand
<1> HIDE DEF k
<1>7. /\ q \in Seq(Seq(Obj)) /\ x \in Seq(Obj) /\ stack = Append(q, x) /\ Len(q) = Len(stack) - 1
  BY <1>2, <1>5, Parted
<1> HIDE DEF q, x
<1>8. Trail' = Trail
  <2>1. /\ FlattenSeq(stack) = FlattenSeq(q) \o x /\ FlattenSeq(stack) \in Seq(Obj)
    BY <1>2, <1>7, Flattened
  <2>2. Trail = FlattenSeq(stack)
    BY <1>1, <2>1 DEF Trail
  <2> QED BY <1>4, <1>6, <2>1, <2>2 DEF Trail
<1>9. \A d \in 0 .. Len(q) : BelowIn(q, d) = BelowIn(stack, d)
  BY <1>7, BelowBounds
<1>10. Drain' = Drain
  <2>1. frames[k].depth \in 0 .. Len(q)
    BY <1>2, <1>3, <1>4, <1>7
  <2>2. Drain' = BelowIn(stack', frames'[k].depth)
    BY <1>6, DrainIsNext
  <2> QED BY <1>3, <1>4, <1>6, <1>9, <2>1, <2>2
<1>11. Marks' = Marks
  <2>1. \A i \in DOMAIN tokens : BelowIn(q, tokens[i]) = BelowIn(stack, tokens[i])
    BY <1>2, <1>7, <1>9
  <2>2. [i \in DOMAIN tokens |-> BelowIn(q, tokens[i])] =
           [i \in DOMAIN tokens |-> BelowIn(stack, tokens[i])]
    BY <2>1
  <2> QED BY <1>1, <1>4, <2>2, MarksAre
<1>12. ScopesStep
  BY <1>8, <1>10, <1>11, ScopesSeen, ScopesSteps
<1>13. ScopesFromEmpty'
  BY <1>1, <1>3, <1>6 DEF ScopesFromEmpty, Borrowed
<1> QED BY <1>12, <1>13

LEMMA PopReturnIsDrained ==
    ASSUME AInv, ScopesFromEmpty, PopReturn
    PROVE  ScopesStep /\ ScopesFromEmpty'
<1> DEFINE k == Len(frames)
<1>1. Popping /\ HandOf(frames) = <<>> /\ UNCHANGED <<stack, tokens>> /\ frames' = Front(frames)
  BY OnTop DEF PopReturn, refs
<1>2. /\ frames[k].depth \in 0 .. Len(stack) /\ Drain = BelowIn(stack, frames[k].depth)
      /\ Borrowed /\ Pops(frames) = {k} /\ Last(frames).depth = frames[k].depth
  BY <1>1, PopDepth
<1>3. stack \in Seq(Seq(Obj)) /\ Len(stack) \in Nat
  BY DEF AInv, TypeOK
<1>4. frames[k].depth = Len(stack)
  BY <1>2, <1>3 DEF PopReturn
<1>5. Pops(frames') = {} /\ HandOf(frames') = <<>>
  <2>1. /\ frames \in Seq(Frame) /\ \A i, j \in Pops(frames) : i = j
        /\ frames # <<>> /\ Last(frames).kind = "pop"
    BY <1>1, OnTop
  <2>2. /\ Pops(frames') = Pops(frames) \ {Len(frames)}
        /\ HandOf(frames') = IF Last(frames).kind = "pop" THEN <<>> ELSE HandOf(frames)
    BY <1>1, <2>1, CallReturns
  <2> QED BY <1>2, <2>1, <2>2
<1> HIDE DEF k
<1>6. Trail = FlattenSeq(stack) /\ Trail' = Trail
  <2>1. FlattenSeq(stack) \in Seq(Obj)
    BY <1>2, <1>3, BelowBounds
  <2> QED BY <1>1, <1>5, <2>1 DEF Trail
<1>7. Drain = Len(Trail) /\ Drain # -1
  <2>1. BelowIn(stack, Len(stack)) = Len(FlattenSeq(stack)) /\ Len(FlattenSeq(stack)) \in Nat
    BY <1>2, <1>3, BelowBounds
  <2> QED BY <1>2, <1>4, <1>6, <2>1
<1>8. Drain' = -1 /\ Marks' = Marks
  BY <1>1, <1>5, DrainIsNext, MarksAre
<1>9. ScopesStep
  BY <1>6, <1>7, <1>8, ScopesSeen, ScopesSteps
<1>10. ScopesFromEmpty'
  <2>1. ~Borrowed'
    BY <1>5 DEF Borrowed
  <2>2. tokens = <<>> => stack = <<>>
    BY <1>2, <1>3, <1>4 DEF ScopesFromEmpty
  <2> QED BY <1>1, <2>1, <2>2 DEF ScopesFromEmpty
<1> QED BY <1>9, <1>10

--------------------------------------------------------------------------------
\* The stack of pools behaves as one list with marks in it: objects are released
\* in the reverse of the order in which they were autoreleased, across pools,
\* and none below the mark that is popped; nothing is added or opened meanwhile.
THEOREM PoolsAreScopes == Spec => ImplementsScopes
<1>1. ASSUME Init PROVE Scopes!Init /\ ScopesFromEmpty
  <2>1. stack = <<>> /\ tokens = <<>> /\ frames = <<>> /\ Pops(frames) = {}
    BY <1>1 DEF Init, Pops
  <2>2. Trail = <<>>
    <3>1. FlattenSeq(<<>>) = <<>>
      BY DEF FlattenSeq
    <3>2. HandOf(frames) = <<>>
      BY <2>1 DEF HandOf
    <3> QED BY <2>1, <3>1, <3>2 DEF Trail
  <2> QED BY <2>1, <2>2 DEF Scopes!Init, Borrowed, ScopesFromEmpty
<1>2. ASSUME AInv, ScopesFromEmpty, [Next]_vars PROVE ScopesStep /\ ScopesFromEmpty'
  <2>1. ASSUME Quiet PROVE ScopesStep /\ ScopesFromEmpty'
    BY <1>2, <2>1, QuietHidden, ScopesSteps
  <2>2. ASSUME NEW o \in Obj, Alloc(o) \/ Retain(o) \/ Release(o)
        PROVE  ScopesStep /\ ScopesFromEmpty'
    BY <1>2, <2>1, <2>2, QuietSteps
  <2>3. ASSUME NEW o \in Obj, AutoreleaseObj(o) \/ LoadWeak(o)
        PROVE  ScopesStep /\ ScopesFromEmpty'
    <3>1. CASE stack = <<>>
      BY <1>2, <2>1, <2>3, <3>1, QuietSteps
    <3>2. CASE stack # <<>>
      <4>1. ~Borrowed /\ Deposit(o) /\ UNCHANGED <<tokens, frames>>
        BY <2>3 DEF AutoreleaseObj, LoadWeak
      <4> QED BY <1>2, <3>2, <4>1, DepositIsAdd
    <3> QED BY <3>1, <3>2
  <2>4. ASSUME FinishDealloc \/ PoolsWhileBorrowed \/ UNCHANGED vars
        PROVE  ScopesStep /\ ScopesFromEmpty'
    BY <1>2, <2>1, <2>4, QuietSteps
  <2>5. ASSUME NEW i \in 1 .. MaxPools, PopStart(i) PROVE ScopesStep /\ ScopesFromEmpty'
    BY <1>2, <2>5, PopStartIsClose
  <2>6. ASSUME Push \/ PopRelease \/ PopNextPool \/ PopReturn
        PROVE  ScopesStep /\ ScopesFromEmpty'
    BY <1>2, <2>6, PushIsOpen, PopReleaseIsDrop, PopNextPoolIsHidden, PopReturnIsDrained
  <2> QED BY <1>2, <2>2, <2>3, <2>4, <2>5, <2>6 DEF Next
<1> QED BY <1>1, <1>2, AInvariance, PTL DEF Spec, ImplementsScopes, Scopes!Spec, ScopesStep
================================================================================
