----------------------------- MODULE DispatchProofs -----------------------------
(***************************************************************************)
(* Theorems about Dispatch, for any classes, selectors and threads: caches *)
(* stay sound and every variable within its type whatever the program      *)
(* does; no method is lost if one thread changes classes at a time; and    *)
(* under RulesKept what is cached is what the hierarchy gives.             *)
(***************************************************************************)
EXTENDS Dispatch, FiniteSetTheorems, SequenceTheorems, WellFoundedInduction, TLAPS

--------------------------------------------------------------------------------
(* Types.                                                                     *)

\* What the frame of a thread holds, by what the thread is doing.
LEMMA FrameFields ==
    ASSUME TypeOK, NEW t \in Thread
    PROVE  LET f == frame[t] IN
           /\ f.op \in {"idle", "walk", "fill", "add", "swap", "flush", "flushall", "link"}
           /\ f.op = "idle" => f = Idle
           /\ f.op = "walk" => f.cls \in Class /\ f.sel \in Sel /\ f.at \in Class
                               /\ \A c \in Class : [f EXCEPT !.at = c] =
                                    [op |-> "walk", cls |-> f.cls, sel |-> f.sel, at |-> c]
           /\ f.op = "fill" => f.cls \in Class /\ f.sel \in Sel /\ f.imp \in Imp
           /\ f.op = "add" => f.cls \in Class /\ f.sel \in Sel /\ f.imp \in Imp /\ f.head \subseteq Sel
           /\ f.op = "swap" => f.cls \in Class /\ f.sel \in Sel /\ f.imp \in Imp
           /\ f.op \in {"flush", "flushall"} => f.todo \subseteq Class
                               /\ \A S \in SUBSET Class : [f EXCEPT !.todo = S] = [op |-> f.op, todo |-> S]
           /\ f.op = "link" => f.cls \in Class \ Meta /\ f.head \subseteq Class
<1>1. frame[t] \in Frames
  BY DEF TypeOK
<1>2. CASE frame[t] = Idle
  BY <1>2 DEF Idle
<1>3. CASE frame[t] \in [op : {"walk"}, cls : Class, sel : Sel, at : Class]
  BY <1>3
<1>4. CASE frame[t] \in [op : {"fill"}, cls : Class, sel : Sel, imp : Imp]
  BY <1>4
<1>5. CASE frame[t] \in [op : {"add"}, cls : Class, sel : Sel, imp : Imp, head : SUBSET Sel]
  BY <1>5
<1>6. CASE frame[t] \in [op : {"swap"}, cls : Class, sel : Sel, imp : Imp]
  BY <1>6
<1>7. CASE frame[t] \in [op : {"flush", "flushall"}, todo : SUBSET Class]
  BY <1>7
<1>8. CASE frame[t] \in [op : {"link"}, cls : Class \ Meta, head : SUBSET Class]
  BY <1>8
<1> QED
  BY <1>1, <1>2, <1>3, <1>4, <1>5, <1>6, <1>7, <1>8 DEF Frames

\* Superclasses are class objects, and come next on a chain.
LEMMA Supers ==
    /\ \A c \in Class : Super[c] \in Class \cup {Nil}
    /\ \A c \in Class : /\ 1 \in DOMAIN Chain[c] /\ Chain[c][1] = c
                        /\ Len(Chain[c]) \in Nat /\ DOMAIN Chain[c] = 1 .. Len(Chain[c])
                        /\ Super[c] # Nil => /\ 2 \in DOMAIN Chain[c] /\ Super[c] = Chain[c][2]
                        /\ Super[c] = Nil => Len(Chain[c]) = 1
    /\ \A c \in Class : \A i \in DOMAIN Chain[c] :
          /\ Chain[c][i] \in Class
          /\ i + 1 \in DOMAIN Chain[c] => Super[Chain[c][i]] = Chain[c][i + 1]
          /\ i = Len(Chain[c]) <=> Super[Chain[c][i]] = Nil
          /\ \A j \in DOMAIN Chain[Chain[c][i]] :
                i + j - 1 \in DOMAIN Chain[c] /\ Chain[Chain[c][i]][j] = Chain[c][i + j - 1]
          /\ \A k \in DOMAIN Chain[c] : k >= i => k - i + 1 \in DOMAIN Chain[Chain[c][i]]
<1>1. ASSUME NEW c \in Class
      PROVE  /\ 1 \in DOMAIN Chain[c] /\ Chain[c][1] = c
             /\ Len(Chain[c]) \in Nat /\ Len(Chain[c]) >= 1 /\ DOMAIN Chain[c] = 1 .. Len(Chain[c])
             /\ \A i \in DOMAIN Chain[c] : Chain[c][i] \in Class
  <2>1. Chain[c] \in Seq(Class) /\ Chain[c] # <<>> /\ c = Chain[c][1]
    BY ChainShape
  <2> QED
    BY <2>1
<1>2. ASSUME NEW c \in Class
      PROVE  /\ Super[c] \in Class \cup {Nil}
             /\ Super[c] # Nil => 2 \in DOMAIN Chain[c] /\ Super[c] = Chain[c][2]
             /\ Super[c] = Nil <=> Len(Chain[c]) = 1
  <2>1. Super[c] = IF Len(Chain[c]) = 1 THEN Nil ELSE Chain[c][2]
    BY DEF Super
  <2>2. Len(Chain[c]) # 1 => 2 \in DOMAIN Chain[c]
    <3>1. \A n \in Nat : n >= 1 /\ n # 1 => 2 \in 1 .. n
      OBVIOUS
    <3> QED
      BY <1>1, <3>1
  <2>3. Len(Chain[c]) # 1 => Chain[c][2] \in Class
    BY <1>1, <2>2
  <2> QED
    BY <2>1, <2>2, <2>3, NilIsNothing
<1>3. ASSUME NEW c \in Class, NEW i \in DOMAIN Chain[c]
      PROVE  /\ i + 1 \in DOMAIN Chain[c] => Super[Chain[c][i]] = Chain[c][i + 1]
             /\ i = Len(Chain[c]) <=> Super[Chain[c][i]] = Nil
             /\ \A j \in DOMAIN Chain[Chain[c][i]] :
                  i + j - 1 \in DOMAIN Chain[c] /\ Chain[Chain[c][i]][j] = Chain[c][i + j - 1]
             /\ \A k \in DOMAIN Chain[c] : k >= i => k - i + 1 \in DOMAIN Chain[Chain[c][i]]
  <2>1. Chain[Chain[c][i]] = SubSeq(Chain[c], i, Len(Chain[c]))
    BY ChainShape
  <2>2. /\ Len(Chain[Chain[c][i]]) = Len(Chain[c]) - i + 1
        /\ \A j \in 1 .. Len(Chain[c]) - i + 1 : Chain[Chain[c][i]][j] = Chain[c][i + j - 1]
    <3>1. /\ i \in Int /\ Len(Chain[c]) \in Int /\ i <= Len(Chain[c])
          /\ \A k \in i .. Len(Chain[c]) : Chain[c][k] \in Class
      BY <1>1
    <3> QED
      BY ONLY <2>1, <3>1, SubSeqProperties
  <2>3. Chain[c][i] \in Class /\ i \in 1 .. Len(Chain[c]) /\ Len(Chain[c]) \in Nat
    BY <1>1
  <2>4. DOMAIN Chain[Chain[c][i]] = 1 .. Len(Chain[c]) - i + 1
    <3>1. DOMAIN Chain[Chain[c][i]] = 1 .. Len(Chain[Chain[c][i]])
      BY <1>1, <2>3
    <3> QED
      BY ONLY <3>1, <2>2
  <2>5. i + 1 \in DOMAIN Chain[c] => Super[Chain[c][i]] = Chain[c][i + 1]
    <3>1. ASSUME i + 1 \in DOMAIN Chain[c]
          PROVE  2 \in 1 .. Len(Chain[c]) - i + 1 /\ Len(Chain[Chain[c][i]]) # 1 /\ i + 2 - 1 = i + 1
      <4>1. i + 1 <= Len(Chain[c])
        BY <1>1, <3>1
      <4> QED
        BY ONLY <4>1, <2>2, <2>3
    <3>2. ASSUME i + 1 \in DOMAIN Chain[c] PROVE Chain[Chain[c][i]][2] = Chain[c][i + 1]
      BY ONLY <2>2, <3>1, <3>2
    <3> QED
      BY <1>2, <2>3, <3>1, <3>2
  <2>6. i = Len(Chain[c]) <=> Super[Chain[c][i]] = Nil
    <3>1. Super[Chain[c][i]] = Nil <=> Len(Chain[Chain[c][i]]) = 1
      BY <1>2, <2>3
    <3> QED
      BY ONLY <2>2, <2>3, <3>1
  <2>7. \A j \in DOMAIN Chain[Chain[c][i]] : i + j - 1 \in DOMAIN Chain[c]
    BY <1>1, <2>3, <2>4
  <2>8. \A k \in DOMAIN Chain[c] : k >= i => k - i + 1 \in DOMAIN Chain[Chain[c][i]]
    <3>1. \A n \in Nat : \A j, k \in 1 .. n : k >= j => k - j + 1 \in 1 .. n - j + 1
      OBVIOUS
    <3>2. \A k \in DOMAIN Chain[c] : k \in 1 .. Len(Chain[c])
      BY <1>1
    <3> QED
      BY ONLY <2>3, <2>4, <3>1, <3>2
  <2> QED
    BY <2>2, <2>4, <2>5, <2>6, <2>7, <2>8
<1> QED
  BY <1>1, <1>2, <1>3

\* What threads may be doing.
LEMMA FrameKinds ==
    /\ Idle \in Frames /\ Idle.op = "idle"
    /\ \A c \in Class, s \in Sel :
          /\ \A d \in Class : [op |-> "walk", cls |-> c, sel |-> s, at |-> d] \in Frames
          /\ \A i \in Imp : /\ [op |-> "fill", cls |-> c, sel |-> s, imp |-> i] \in Frames
                            /\ [op |-> "swap", cls |-> c, sel |-> s, imp |-> i] \in Frames
          /\ \A i \in Imp, H \in SUBSET Sel :
                [op |-> "add", cls |-> c, sel |-> s, imp |-> i, head |-> H] \in Frames
    /\ \A S \in SUBSET Class :
          /\ [op |-> "flush", todo |-> S] \in Frames
          /\ [op |-> "flushall", todo |-> S] \in Frames
          /\ \A c \in Class \ Meta : [op |-> "link", cls |-> c, head |-> S] \in Frames
<1>1. Idle \in Frames /\ Idle.op = "idle"
  BY DEF Frames, Idle
<1>2. ASSUME NEW c \in Class, NEW s \in Sel, NEW d \in Class
      PROVE  [op |-> "walk", cls |-> c, sel |-> s, at |-> d] \in Frames
  BY DEF Frames
<1>3. ASSUME NEW c \in Class, NEW s \in Sel, NEW i \in Imp
      PROVE  /\ [op |-> "fill", cls |-> c, sel |-> s, imp |-> i] \in Frames
             /\ [op |-> "swap", cls |-> c, sel |-> s, imp |-> i] \in Frames
  BY DEF Frames
<1>4. ASSUME NEW c \in Class, NEW s \in Sel, NEW i \in Imp, NEW H \in SUBSET Sel
      PROVE  [op |-> "add", cls |-> c, sel |-> s, imp |-> i, head |-> H] \in Frames
  BY DEF Frames
<1>5. ASSUME NEW S \in SUBSET Class
      PROVE  [op |-> "flush", todo |-> S] \in Frames /\ [op |-> "flushall", todo |-> S] \in Frames
  BY DEF Frames
<1>6. ASSUME NEW S \in SUBSET Class, NEW c \in Class \ Meta
      PROVE  [op |-> "link", cls |-> c, head |-> S] \in Frames
  BY DEF Frames
<1> QED
  BY <1>1, <1>2, <1>3, <1>4, <1>5, <1>6

\* A step of thread t moves no other thread.
LEMMA OneFrame ==
    ASSUME TypeOK, NEW t \in Thread, NEW g \in Frames, frame' = [frame EXCEPT ![t] = g]
    PROVE  /\ frame' \in [Thread -> Frames]
           /\ frame'[t] = g
           /\ \A u \in Thread : u # t => frame'[u] = frame[u]
<1>1. frame \in [Thread -> Frames]
  BY DEF TypeOK
<1> HIDE DEF Frames, TypeOK
<1> QED
  BY <1>1

\* Every step keeps every variable within its type, and an IMP with each method.
Typed == TypeOK /\ ListedHaveImps

\* A step that moves a thread and changes no class or method.
LEMMA OnlyFrame ==
    ASSUME TypeOK, ListedHaveImps, NEW t \in Thread, NEW g \in Frames,
           frame' = [frame EXCEPT ![t] = g],
           g.op = "add" => \A s \in g.head : imps[g.cls][s] # Nil,
           UNCHANGED <<allocated, registry, flagged, subs, listed, imps>>,
           cache' \in [Class -> SUBSET [sel : Sel, imp : Imp]]
    PROVE  Typed'
<1>1. TypeOK'
  BY OneFrame DEF TypeOK
<1>2. ASSUME NEW u \in Thread, frame'[u].op = "add"
      PROVE  \A s \in frame'[u].head : imps[frame'[u].cls][s] # Nil
  BY <1>2, OneFrame DEF ListedHaveImps
<1> QED
  BY <1>1, <1>2 DEF Typed, ListedHaveImps

\* Writing one IMP, in a step that starts no addition.
LEMMA OneImpSet ==
    ASSUME TypeOK, ListedHaveImps, NEW t \in Thread, NEW g \in Frames, g.op # "add",
           frame' = [frame EXCEPT ![t] = g],
           NEW c \in Class, NEW s \in Sel, NEW i \in Imp, imps' = [imps EXCEPT ![c][s] = i],
           UNCHANGED <<allocated, registry, flagged, subs, listed, cache>>
    PROVE  Typed'
<1>1. /\ imps' \in [Class -> [Sel -> Imp \cup {Nil}]]
      /\ \A d \in Class, q \in Sel : imps'[d][q] = IF d = c /\ q = s THEN i ELSE imps[d][q]
  <2>1. imps \in [Class -> [Sel -> Imp \cup {Nil}]]
    BY DEF TypeOK
  <2> QED
    BY ONLY <2>1, imps' = [imps EXCEPT ![c][s] = i], c \in Class, s \in Sel, i \in Imp
<1>2. TypeOK'
  BY <1>1, OneFrame DEF TypeOK
<1>3. \A d \in Class : \A q \in listed'[d] : imps'[d][q] # Nil
  BY <1>1, NilIsNothing DEF ListedHaveImps, TypeOK
<1>4. ASSUME NEW u \in Thread, frame'[u].op = "add", NEW q \in frame'[u].head
      PROVE  imps'[frame'[u].cls][q] # Nil
  <2>1. frame'[u] = frame[u]
    BY <1>4, OneFrame
  <2>2. frame[u].cls \in Class /\ q \in Sel
    BY <1>4, <2>1, FrameFields
  <2> QED
    BY <1>1, <1>4, <2>1, <2>2, NilIsNothing DEF ListedHaveImps
<1> QED
  BY <1>2, <1>3, <1>4 DEF Typed, ListedHaveImps

LEMMA TypeStep == Typed /\ [Next]_vars => Typed'
<1> SUFFICES ASSUME TypeOK, ListedHaveImps, [Next]_vars
             PROVE  Typed'
  BY DEF Typed
<1> USE NilIsNothing
<1>c. cache \in [Class -> SUBSET [sel : Sel, imp : Imp]]
  BY DEF TypeOK
<1>1. ASSUME NEW t \in Thread, NEW c \in Class, NEW s \in Sel, Lookup(t, c, s)
      PROVE  Typed'
  <2> DEFINE g == [op |-> "walk", cls |-> c, sel |-> s, at |-> c]
  <2>1. g \in Frames /\ g.op = "walk"
    BY FrameKinds
  <2>2. frame' = [frame EXCEPT ![t] = g] /\ UNCHANGED <<allocated, registry, flagged, subs, listed, imps, cache>>
    BY <1>1 DEF Lookup, classes, methods
  <2> QED
    BY <1>c, <2>1, <2>2, OnlyFrame
<1>2. ASSUME NEW t \in Thread, Walk(t)
      PROVE  Typed'
  <2> DEFINE f == frame[t]
  <2>1. /\ f.cls \in Class /\ f.sel \in Sel /\ f.at \in Class
        /\ \A c \in Class : [f EXCEPT !.at = c] = [op |-> "walk", cls |-> f.cls, sel |-> f.sel, at |-> c]
    BY <1>2, FrameFields DEF Walk
  <2>2. /\ frame' = [frame EXCEPT ![t] =
              IF f.sel \in listed[f.at]
              THEN [op |-> "fill", cls |-> f.cls, sel |-> f.sel, imp |-> imps[f.at][f.sel]]
              ELSE IF Super[f.at] = Nil THEN Idle
              ELSE [f EXCEPT !.at = Super[f.at]]]
        /\ UNCHANGED <<allocated, registry, flagged, subs, listed, imps, cache>>
    BY <1>2 DEF Walk, classes, methods
  <2>3. CASE f.sel \in listed[f.at]
    <3> DEFINE g == [op |-> "fill", cls |-> f.cls, sel |-> f.sel, imp |-> imps[f.at][f.sel]]
    <3>1. imps[f.at][f.sel] \in Imp
      BY <2>1, <2>3 DEF TypeOK, ListedHaveImps
    <3>2. g \in Frames /\ g.op = "fill" /\ frame' = [frame EXCEPT ![t] = g]
      BY <2>1, <2>2, <2>3, <3>1, FrameKinds
    <3> QED
      BY <1>c, <2>2, <3>2, OnlyFrame
  <2>4. CASE f.sel \notin listed[f.at] /\ Super[f.at] = Nil
    <3>1. frame' = [frame EXCEPT ![t] = Idle]
      BY <2>2, <2>4
    <3> QED
      BY <1>c, <2>2, <3>1, FrameKinds, OnlyFrame
  <2>5. CASE f.sel \notin listed[f.at] /\ Super[f.at] # Nil
    <3> DEFINE g == [op |-> "walk", cls |-> f.cls, sel |-> f.sel, at |-> Super[f.at]]
    <3>1. Super[f.at] \in Class
      BY <2>1, <2>5, Supers
    <3>2. g \in Frames /\ g.op = "walk" /\ frame' = [frame EXCEPT ![t] = g]
      BY <2>1, <2>2, <2>5, <3>1, FrameKinds
    <3> QED
      BY <1>c, <2>2, <3>2, OnlyFrame
  <2> QED
    BY <2>3, <2>4, <2>5
<1>3. ASSUME NEW t \in Thread, Fill(t)
      PROVE  Typed'
  <2> DEFINE f == frame[t]
  <2>1. f.cls \in Class /\ f.sel \in Sel /\ f.imp \in Imp
    BY <1>3, FrameFields DEF Fill
  <2>2. /\ cache' = [cache EXCEPT ![f.cls] = Inserted(@, f.sel, f.imp)]
        /\ frame' = [frame EXCEPT ![t] = Idle]
        /\ UNCHANGED <<allocated, registry, flagged, subs, listed, imps>>
    BY <1>3 DEF Fill, classes, methods
  <2>3. Inserted(cache[f.cls], f.sel, f.imp) \subseteq [sel : Sel, imp : Imp]
    BY <1>c, <2>1 DEF Inserted
  <2>4. cache' \in [Class -> SUBSET [sel : Sel, imp : Imp]]
    BY <1>c, <2>1, <2>2, <2>3
  <2> QED
    BY <2>2, <2>4, FrameKinds, OnlyFrame
<1>4. ASSUME NEW t \in Thread, NEW c \in Class, NEW s \in Sel, NEW i \in Imp, AddMethod(t, c, s, i)
      PROVE  Typed'
  <2>1. UNCHANGED <<allocated, registry, flagged, subs, cache>>
    BY <1>4 DEF AddMethod, classes
  <2>2. CASE c \in flagged
    <3> DEFINE g == [op |-> "add", cls |-> c, sel |-> s, imp |-> i, head |-> listed[c]]
    <3>1. frame' = [frame EXCEPT ![t] = g] /\ UNCHANGED <<listed, imps>>
      BY <1>4, <2>2 DEF AddMethod, methods
    <3>2. listed[c] \in SUBSET Sel
      BY DEF TypeOK
    <3>3. g \in Frames
      BY <3>2, FrameKinds
    <3>4. \A q \in g.head : imps[g.cls][q] # Nil
      BY DEF ListedHaveImps
    <3> QED
      BY <1>c, <2>1, <3>1, <3>3, <3>4, OnlyFrame
  <2>3. CASE c \notin flagged
    <3>1. /\ listed' = [listed EXCEPT ![c] = @ \cup {s}]
          /\ imps' = [imps EXCEPT ![c][s] = i]
          /\ frame' = frame
      BY <1>4, <2>3 DEF AddMethod
    <3>2. /\ listed' \in [Class -> SUBSET Sel]
          /\ imps' \in [Class -> [Sel -> Imp \cup {Nil}]]
          /\ \A d \in Class, q \in Sel :
               /\ imps'[d][q] = IF d = c /\ q = s THEN i ELSE imps[d][q]
               /\ q \in listed'[d] <=> q \in listed[d] \/ (d = c /\ q = s)
      <4>1. imps \in [Class -> [Sel -> Imp \cup {Nil}]] /\ listed \in [Class -> SUBSET Sel]
        BY DEF TypeOK
      <4> QED
        BY ONLY <3>1, <4>1, c \in Class, s \in Sel, i \in Imp
    <3>3. TypeOK'
      BY <2>1, <3>1, <3>2 DEF TypeOK
    <3>4. \A d \in Class : \A q \in listed'[d] : imps'[d][q] # Nil
      BY <3>2 DEF ListedHaveImps
    <3>5. ASSUME NEW u \in Thread, frame[u].op = "add", NEW q \in frame[u].head
          PROVE  imps'[frame[u].cls][q] # Nil
      <4>1. frame[u].cls \in Class /\ q \in Sel
        BY <3>5, FrameFields
      <4> QED
        BY <3>2, <3>5, <4>1 DEF ListedHaveImps
    <3> QED
      BY <3>1, <3>3, <3>4, <3>5 DEF Typed, ListedHaveImps
  <2> QED
    BY <2>2, <2>3
<1>5. ASSUME NEW t \in Thread, LinkMethod(t)
      PROVE  Typed'
  <2> DEFINE f == frame[t]
             g == [op |-> "flush", todo |-> {f.cls}]
  <2>1. /\ f.cls \in Class /\ f.sel \in Sel /\ f.imp \in Imp /\ f.head \subseteq Sel
        /\ \A s \in f.head : imps[f.cls][s] # Nil
    BY <1>5, FrameFields DEF LinkMethod, ListedHaveImps
  <2>2. /\ listed' = [listed EXCEPT ![f.cls] = f.head \cup {f.sel}]
        /\ imps' = [imps EXCEPT ![f.cls][f.sel] = f.imp]
        /\ UNCHANGED <<allocated, registry, flagged, subs, cache>>
        /\ frame' = [frame EXCEPT ![t] = g]
    BY <1>5 DEF LinkMethod, classes, Flushing
  <2>3. g \in Frames /\ g.op = "flush"
    BY <2>1, FrameKinds
  <2>4. /\ listed' \in [Class -> SUBSET Sel]
        /\ imps' \in [Class -> [Sel -> Imp \cup {Nil}]]
        /\ \A d \in Class, q \in Sel :
            /\ imps'[d][q] = IF d = f.cls /\ q = f.sel THEN f.imp ELSE imps[d][q]
            /\ q \in listed'[d] <=> IF d = f.cls THEN q \in f.head \/ q = f.sel ELSE q \in listed[d]
    <3>1. imps \in [Class -> [Sel -> Imp \cup {Nil}]] /\ listed \in [Class -> SUBSET Sel]
      BY DEF TypeOK
    <3> HIDE DEF f
    <3> QED
      BY ONLY <2>1, <2>2, <3>1
  <2>5. TypeOK'
    BY <2>2, <2>3, <2>4, OneFrame DEF TypeOK
  <2>6. \A d \in Class : \A q \in listed'[d] : imps'[d][q] # Nil
    BY <2>1, <2>4 DEF ListedHaveImps
  <2>7. ASSUME NEW u \in Thread, frame'[u].op = "add", NEW q \in frame'[u].head
        PROVE  imps'[frame'[u].cls][q] # Nil
    <3>1. frame'[u] = frame[u]
      BY <2>2, <2>3, <2>7, OneFrame
    <3>2. frame[u].cls \in Class /\ q \in Sel
      BY <2>7, <3>1, FrameFields
    <3> QED
      BY <2>1, <2>4, <2>7, <3>1, <3>2 DEF ListedHaveImps
  <2> QED
    BY <2>5, <2>6, <2>7 DEF Typed, ListedHaveImps
<1>6. ASSUME NEW t \in Thread, NEW c \in Class, NEW s \in Sel, NEW i \in Imp, ReplaceMethod(t, c, s, i)
      PROVE  Typed'
  <2> DEFINE g == [op |-> "flush", todo |-> {c}]
  <2>1. g \in Frames /\ g.op = "flush"
    BY FrameKinds
  <2>2. /\ frame' = [frame EXCEPT ![t] = g]
        /\ imps' = [imps EXCEPT ![c][s] = i]
        /\ UNCHANGED <<allocated, registry, flagged, subs, listed, cache>>
    BY <1>6 DEF ReplaceMethod, classes, Flushing
  <2> QED
    BY <2>1, <2>2, OneImpSet
<1>7. ASSUME NEW t \in Thread, NEW c \in Class, NEW s \in Sel, NEW d \in Class, NEW r \in Sel,
             Exchange(t, c, s, d, r)
      PROVE  Typed'
  <2> DEFINE g == [op |-> "swap", cls |-> d, sel |-> r, imp |-> imps[c][s]]
  <2>1. imps[c][s] \in Imp /\ imps[d][r] \in Imp
    BY <1>7 DEF Exchange, TypeOK, ListedHaveImps
  <2>2. g \in Frames /\ g.op = "swap"
    BY <2>1, FrameKinds
  <2>3. /\ frame' = [frame EXCEPT ![t] = g]
        /\ imps' = [imps EXCEPT ![c][s] = imps[d][r]]
        /\ UNCHANGED <<allocated, registry, flagged, subs, listed, cache>>
    BY <1>7 DEF Exchange, classes
  <2> QED
    BY <2>1, <2>2, <2>3, OneImpSet
<1>8. ASSUME NEW t \in Thread, FinishExchange(t)
      PROVE  Typed'
  <2> DEFINE g == [op |-> "flushall", todo |-> Range(registry) \ {Nil}]
  <2>1. frame[t].cls \in Class /\ frame[t].sel \in Sel /\ frame[t].imp \in Imp
    BY <1>8, FrameFields DEF FinishExchange
  <2>2. Range(registry) \ {Nil} \in SUBSET Class
    BY DEF Range, TypeOK
  <2>3. g \in Frames /\ g.op = "flushall"
    BY <2>2, FrameKinds
  <2>4. /\ frame' = [frame EXCEPT ![t] = g]
        /\ imps' = [imps EXCEPT ![frame[t].cls][frame[t].sel] = frame[t].imp]
        /\ UNCHANGED <<allocated, registry, flagged, subs, listed, cache>>
    BY <1>8 DEF FinishExchange, classes
  <2> QED
    BY <2>1, <2>3, <2>4, OneImpSet
<1>9. ASSUME NEW t \in Thread, NEW c \in Class, FlushOne(t, c)
      PROVE  Typed'
  <2> DEFINE S == (frame[t].todo \ {c}) \cup subs[c]
             g == [op |-> frame[t].op, todo |-> S]
  <2>1. /\ frame[t].op \in {"flush", "flushall"} /\ frame[t].todo \subseteq Class
        /\ \A Q \in SUBSET Class : [frame[t] EXCEPT !.todo = Q] = [op |-> frame[t].op, todo |-> Q]
    BY <1>9, FrameFields DEF FlushOne
  <2>2. S \in SUBSET Class
    BY <2>1 DEF TypeOK
  <2>3. g \in Frames /\ g.op # "add"
    <3> HIDE DEF S
    <3> QED
      BY <2>1, <2>2, FrameKinds
  <2>4. frame' = [frame EXCEPT ![t] = g]
    <3>1. frame' = [frame EXCEPT ![t] = [frame[t] EXCEPT !.todo = S]]
      BY <1>9 DEF FlushOne
    <3> QED
      BY <2>1, <2>2, <3>1
  <2>5. cache' = [cache EXCEPT ![c] = {}] /\ UNCHANGED <<allocated, registry, flagged, subs, listed, imps>>
    BY <1>9 DEF FlushOne, classes, methods
  <2>6. cache' \in [Class -> SUBSET [sel : Sel, imp : Imp]]
    BY <1>c, <2>5
  <2> QED
    BY <2>3, <2>4, <2>5, <2>6, OnlyFrame
<1>10. ASSUME NEW t \in Thread, FlushDone(t)
       PROVE  Typed'
  <2>1. /\ frame' = [frame EXCEPT ![t] = Idle]
        /\ UNCHANGED <<allocated, registry, flagged, subs, listed, imps, cache>>
    BY <1>10 DEF FlushDone, classes, methods
  <2> QED
    BY <1>c, <2>1, FrameKinds, OnlyFrame
<1>11. ASSUME NEW t \in Thread, NEW c \in Class, AllocatePair(t, c)
       PROVE  Typed'
  <2>1. c \in Class \ Meta /\ MetaOf[c] \in Class
    BY <1>11, ClassShape DEF AllocatePair
  <2>2. UNCHANGED <<registry, flagged, subs, listed, imps, cache>>
    BY <1>11 DEF AllocatePair, methods
  <2>3. CASE Super[c] = Nil
    <3>1. allocated' = allocated \cup {c, MetaOf[c]} /\ frame' = frame
      BY <1>11, <2>3 DEF AllocatePair
    <3> QED
      BY <2>1, <2>2, <3>1 DEF Typed, TypeOK, ListedHaveImps
  <2>4. CASE Super[c] # Nil
    <3> DEFINE g == [op |-> "link", cls |-> c, head |-> subs[Super[c]]]
    <3>1. subs[Super[c]] \in SUBSET Class
      BY <2>4, Supers DEF TypeOK
    <3>2. g \in Frames /\ g.op = "link"
      BY <2>1, <3>1, FrameKinds
    <3>3. frame' = [frame EXCEPT ![t] = g] /\ allocated' = allocated
      BY <1>11, <2>4 DEF AllocatePair
    <3> QED
      BY <1>c, <2>2, <3>2, <3>3, OnlyFrame
  <2> QED
    BY <2>3, <2>4
<1>12. ASSUME NEW t \in Thread, LinkSubclass(t)
       PROVE  Typed'
  <2> DEFINE f == frame[t]
  <2>1. f.cls \in Class \ Meta /\ f.head \subseteq Class /\ MetaOf[f.cls] \in Class
    BY <1>12, FrameFields, ClassShape DEF LinkSubclass
  <2>2. /\ subs' = [subs EXCEPT ![Super[f.cls]] = f.head \cup {f.cls}]
        /\ allocated' = allocated \cup {f.cls, MetaOf[f.cls]}
        /\ frame' = [frame EXCEPT ![t] = Idle]
        /\ UNCHANGED <<registry, flagged, listed, imps, cache>>
    BY <1>12 DEF LinkSubclass, methods
  <2>3. subs' \in [Class -> SUBSET Class]
    <3>1. subs \in [Class -> SUBSET Class]
      BY DEF TypeOK
    <3> QED
      BY <2>1, <2>2, <3>1
  <2>4. TypeOK'
    BY <2>1, <2>2, <2>3, FrameKinds, OneFrame DEF TypeOK
  <2>5. ASSUME NEW u \in Thread, frame'[u].op = "add"
        PROVE  \A s \in frame'[u].head : imps[frame'[u].cls][s] # Nil
    BY <2>2, <2>5, FrameKinds, OneFrame DEF ListedHaveImps
  <2> QED
    BY <2>2, <2>4, <2>5 DEF Typed, ListedHaveImps
<1>13. ASSUME NEW t \in Thread, NEW c \in Class, RegisterPair(t, c)
       PROVE  Typed'
  <2>1. /\ c \in Class \ Meta
        /\ registry' = [registry EXCEPT ![NameOf[c]] = c]
        /\ flagged' = flagged \cup {c}
        /\ UNCHANGED <<allocated, subs, listed, imps, cache, frame>>
    BY <1>13 DEF RegisterPair, methods, TypeOK
  <2> QED
    BY <2>1 DEF Typed, TypeOK, ListedHaveImps
<1>14. CASE UNCHANGED vars
  BY <1>14 DEF vars, Typed, TypeOK, ListedHaveImps
<1> QED
  BY <1>1, <1>2, <1>3, <1>4, <1>5, <1>6, <1>7, <1>8, <1>9, <1>10, <1>11, <1>12, <1>13, <1>14 DEF Next

LEMMA TypeInit == Init => Typed
<1> SUFFICES ASSUME Init PROVE Typed
  OBVIOUS
<1>1. Idle \in Frames /\ Idle.op = "idle"
  BY FrameKinds
<1>2. registry \in [Name -> Class \cup {Nil}]
  <2>1. ASSUME NEW n \in Name, \E c \in Loaded : NameOf[c] = n
        PROVE  (CHOOSE c \in Loaded : NameOf[c] = n) \in Class
    BY <2>1, LoadedShape
  <2> QED
    BY <2>1 DEF Init
<1>3. allocated \subseteq Class /\ flagged \subseteq Class \ Meta
  BY LoadedShape, ClassShape DEF Init
<1>4. TypeOK
  BY <1>1, <1>2, <1>3, LoadedShape DEF Init, TypeOK
<1>5. ListedHaveImps
  BY <1>1 DEF Init, ListedHaveImps
<1> QED
  BY <1>4, <1>5 DEF Typed

\* Every variable stays within its type, whatever the threads do.
THEOREM TypesKept == Spec => []TypeOK
<1>1. Spec => []Typed
  BY TypeInit, TypeStep, PTL DEF Spec
<1>2. Typed => TypeOK
  BY DEF Typed
<1> QED
  BY <1>1, <1>2, PTL

--------------------------------------------------------------------------------
(* Caches.                                                                    *)

CacheInv == CachesSound /\ \A c \in Class : IsFiniteSet(cache[c])

LEMMA InsertedSound ==
    ASSUME NEW S, IsFiniteSet(S), Cardinality(S) <= Capacity,
           \A e, f \in S : e.sel = f.sel => e = f, NEW s, NEW i
    PROVE  LET T == Inserted(S, s, i) IN
           /\ IsFiniteSet(T) /\ Cardinality(T) <= Capacity
           /\ \A e, f \in T : e.sel = f.sel => e = f
<1> DEFINE new == [sel |-> s, imp |-> i]
<1>1. CASE \E e \in S : e.sel = s
  BY <1>1 DEF Inserted
<1>2. CASE (\A e \in S : e.sel # s) /\ Cardinality(S) = Capacity
  <2>1. Inserted(S, s, i) = {new}
    BY <1>2 DEF Inserted
  <2>2. IsFiniteSet({new}) /\ Cardinality({new}) = 1
    BY FS_Singleton
  <2>3. 1 <= Capacity
    BY CapacityIsPositive
  <2> HIDE DEF new
  <2> QED
    BY <2>1, <2>2, <2>3
<1>3. CASE (\A e \in S : e.sel # s) /\ Cardinality(S) # Capacity
  <2>1. Inserted(S, s, i) = S \cup {new}
    BY <1>3 DEF Inserted
  <2>2. IsFiniteSet(S \cup {new}) /\ Cardinality(S \cup {new}) <= Cardinality(S) + 1
    BY FS_AddElement, FS_CardinalityType
  <2>3. Cardinality(S) \in Nat /\ Cardinality(S \cup {new}) \in Nat
    BY <2>2, FS_CardinalityType
  <2>4. Cardinality(S \cup {new}) <= Capacity
    BY <1>3, <2>2, <2>3, CapacityIsPositive
  <2>5. new.sel = s
    OBVIOUS
  <2> HIDE DEF new
  <2> QED
    BY <1>3, <2>1, <2>2, <2>4, <2>5
<1> QED
  BY <1>1, <1>2, <1>3

\* Who writes caches.
LEMMA CacheWriters ==
    ASSUME Next
    PROVE  \/ UNCHANGED cache
           \/ \E t \in Thread : Fill(t) \/ \E c \in Class : FlushOne(t, c)
<1>1. \A t \in Thread : Walk(t) \/ LinkMethod(t) \/ FinishExchange(t) \/ FlushDone(t) \/ LinkSubclass(t)
                          => UNCHANGED cache
  BY DEF Walk, LinkMethod, FinishExchange, FlushDone, LinkSubclass
<1>2. \A t \in Thread, c \in Class :
        /\ AllocatePair(t, c) \/ RegisterPair(t, c) => UNCHANGED cache
        /\ \A s \in Sel : /\ Lookup(t, c, s) => UNCHANGED cache
                          /\ \A i \in Imp : AddMethod(t, c, s, i) \/ ReplaceMethod(t, c, s, i) => UNCHANGED cache
                          /\ \A d \in Class, r \in Sel : Exchange(t, c, s, d, r) => UNCHANGED cache
  BY DEF AllocatePair, RegisterPair, Lookup, AddMethod, ReplaceMethod, Exchange
<1> QED
  BY <1>1, <1>2 DEF Next

\* A cache never outgrows its capacity or holds two entries for one selector,
\* whichever threads fill it at once.
THEOREM CachesStaySound == Spec => []CachesSound
<1>1. Init => CacheInv
  BY FS_EmptySet, CapacityIsPositive DEF Init, CacheInv, CachesSound
<1>2. TypeOK /\ CacheInv /\ [Next]_vars => CacheInv'
  <2> SUFFICES ASSUME TypeOK, CacheInv, [Next]_vars
               PROVE  CacheInv'
    OBVIOUS
  <2>1. CASE UNCHANGED cache
    BY <2>1 DEF CacheInv, CachesSound
  <2>2. ASSUME NEW t \in Thread, Fill(t)
        PROVE  CacheInv'
    <3> DEFINE f == frame[t]
               T == Inserted(cache[f.cls], f.sel, f.imp)
    <3>1. f.cls \in Class
      BY <2>2, FrameFields DEF Fill
    <3>2. cache' = [cache EXCEPT ![f.cls] = T]
      BY <2>2 DEF Fill
    <3>3. /\ IsFiniteSet(T) /\ Cardinality(T) <= Capacity
          /\ \A e, g \in T : e.sel = g.sel => e = g
      BY <3>1, InsertedSound DEF CacheInv, CachesSound
    <3> HIDE DEF f, T
    <3>4. \A c \in Class : cache'[c] = IF c = f.cls THEN T ELSE cache[c]
      BY <3>1, <3>2 DEF TypeOK
    <3> QED
      BY <3>3, <3>4 DEF CacheInv, CachesSound
  <2>3. ASSUME NEW t \in Thread, NEW d \in Class, FlushOne(t, d)
        PROVE  CacheInv'
    <3>1. \A c \in Class : cache'[c] = IF c = d THEN {} ELSE cache[c]
      BY <2>3 DEF FlushOne, TypeOK
    <3> QED
      BY <3>1, FS_EmptySet, CapacityIsPositive DEF CacheInv, CachesSound
  <2>8. UNCHANGED vars => UNCHANGED cache
    BY DEF vars
  <2> QED
    BY <2>1, <2>2, <2>3, <2>8, CacheWriters
<1>3. CacheInv => CachesSound
  BY DEF CacheInv
<1> QED
  BY <1>1, <1>2, <1>3, TypesKept, PTL DEF Spec

--------------------------------------------------------------------------------
(* Threads.                                                                   *)

\* A thread that takes a step moves no other, and what it goes on to do.
Moved(t) ==
    /\ \A u \in Thread : u # t => frame'[u] = frame[u]
    /\ LET f == frame[t]
           g == frame'[t]
       IN  \/ g = f \/ g = Idle
           \/ g.op = f.op /\ f.op \in {"flush", "flushall"}
           \/ MayLook(t) /\ g.op = "walk" /\ \E c \in Class, s \in Sel : Lookup(t, c, s)
           \/ f.op = "walk" /\ g.op \in {"walk", "fill"} /\ Walk(t)
           \/ MayBuild(t) /\ g.op = "link" /\ Super[g.cls] \in flagged /\ g.head = subs[Super[g.cls]]
           \/ MayChange(t) /\ g.op = "flush"
           \/ MayChange(t) /\ g.op = "swap" /\ Mutable(g.cls)
           \/ MayChange(t) /\ g.op = "add" /\ g.cls \in flagged /\ Mutable(g.cls) /\ g.head = listed[g.cls]
           \/ f.op \in {"add", "swap"} /\ g.op \in {"flush", "flushall"}

LEMMA Moves ==
    ASSUME TypeOK, Next
    PROVE  \E t \in Thread : Moved(t)
<1>f. \A t \in Thread : \A g : frame' = [frame EXCEPT ![t] = g] =>
          frame'[t] = g /\ \A u \in Thread : u # t => frame'[u] = frame[u]
  BY DEF TypeOK
<1>1. ASSUME NEW t \in Thread, NEW c \in Class, NEW s \in Sel, Lookup(t, c, s)
      PROVE  Moved(t)
  <2> DEFINE g == [op |-> "walk", cls |-> c, sel |-> s, at |-> c]
  <2>1. frame' = [frame EXCEPT ![t] = g] /\ g.op = "walk" /\ MayLook(t)
    BY <1>1 DEF Lookup
  <2> HIDE DEF g
  <2>2. frame'[t].op = "walk" /\ \A u \in Thread : u # t => frame'[u] = frame[u]
    BY <1>f, <2>1
  <2> QED
    BY <1>1, <2>1, <2>2 DEF Moved
<1>2. ASSUME NEW t \in Thread, Walk(t)
      PROVE  Moved(t)
  <2>1. /\ frame[t].op = "walk" /\ frame[t].at \in Class
        /\ \A c \in Class : [frame[t] EXCEPT !.at = c].op = "walk"
    BY <1>2, FrameFields DEF Walk
  <2>2. frame' = [frame EXCEPT ![t] =
             IF frame[t].sel \in listed[frame[t].at]
             THEN [op |-> "fill", cls |-> frame[t].cls, sel |-> frame[t].sel,
                   imp |-> imps[frame[t].at][frame[t].sel]]
             ELSE IF Super[frame[t].at] = Nil THEN Idle
             ELSE [frame[t] EXCEPT !.at = Super[frame[t].at]]]
    BY <1>2 DEF Walk
  <2>3. Super[frame[t].at] # Nil => Super[frame[t].at] \in Class
    BY <2>1, Supers
  <2>4. frame'[t].op \in {"fill", "idle", "walk"}
    BY <1>f, <2>1, <2>2, <2>3, FrameKinds DEF Idle
  <2>5. frame'[t].op = "idle" => frame'[t] = Idle
    BY <1>f, <2>1, <2>2, <2>3
  <2> QED
    BY <1>2, <1>f, <2>1, <2>2, <2>4, <2>5 DEF Moved
<1>3. ASSUME NEW t \in Thread, Fill(t)
      PROVE  Moved(t)
  BY <1>3, <1>f, FrameKinds DEF Moved, Fill
<1>4. ASSUME NEW t \in Thread, NEW c \in Class, NEW s \in Sel, NEW i \in Imp, AddMethod(t, c, s, i)
      PROVE  Moved(t)
  BY <1>4, <1>f DEF Moved, AddMethod
<1>5. ASSUME NEW t \in Thread, LinkMethod(t)
      PROVE  Moved(t)
  BY <1>5, <1>f DEF Moved, LinkMethod, Flushing
<1>6. ASSUME NEW t \in Thread, NEW c \in Class, NEW s \in Sel, NEW i \in Imp, ReplaceMethod(t, c, s, i)
      PROVE  Moved(t)
  BY <1>6, <1>f DEF Moved, ReplaceMethod, Flushing
<1>7. ASSUME NEW t \in Thread, NEW c \in Class, NEW s \in Sel, NEW d \in Class, NEW r \in Sel,
             Exchange(t, c, s, d, r)
      PROVE  Moved(t)
  BY <1>7, <1>f DEF Moved, Exchange
<1>8. ASSUME NEW t \in Thread, FinishExchange(t)
      PROVE  Moved(t)
  BY <1>8, <1>f DEF Moved, FinishExchange
<1>9. ASSUME NEW t \in Thread, NEW c \in Class, FlushOne(t, c)
      PROVE  Moved(t)
  <2>1. (frame[t].todo \ {c}) \cup subs[c] \in SUBSET Class
    BY <1>9, FrameFields DEF FlushOne, TypeOK
  <2>2. [frame[t] EXCEPT !.todo = (frame[t].todo \ {c}) \cup subs[c]].op = frame[t].op
    BY <1>9, <2>1, FrameFields DEF FlushOne
  <2> QED
    BY <1>9, <1>f, <2>2 DEF FlushOne, Moved
<1>10. ASSUME NEW t \in Thread, FlushDone(t)
       PROVE  Moved(t)
  BY <1>10, <1>f, FrameKinds DEF Moved, FlushDone
<1>11. ASSUME NEW t \in Thread, NEW c \in Class, AllocatePair(t, c)
       PROVE  Moved(t)
  BY <1>11, <1>f DEF Moved, AllocatePair
<1>12. ASSUME NEW t \in Thread, LinkSubclass(t)
       PROVE  Moved(t)
  BY <1>12, <1>f, FrameKinds DEF Moved, LinkSubclass
<1>13. ASSUME NEW t \in Thread, NEW c \in Class, RegisterPair(t, c)
       PROVE  Moved(t)
  BY <1>13 DEF Moved, RegisterPair
<1> QED
  BY <1>1, <1>2, <1>3, <1>4, <1>5, <1>6, <1>7, <1>8, <1>9, <1>10, <1>11, <1>12, <1>13 DEF Next

LEMMA OneChangeStep ==
    ASSUME ~RacyChanges, TypeOK, OneChange, [Next]_vars
    PROVE  OneChange'
<1>1. CASE UNCHANGED vars
  BY <1>1 DEF vars, OneChange, Changing
<1>2. CASE Next
  <2>1. \A t \in Thread : MayBuild(t) \/ MayChange(t) =>
          \A u \in Thread : ~Changing(u) /\ frame[u].op # "link"
    BY DEF MayChange, MayBuild, ChangingMethods, Building, Busy, Changing
  <2>2. PICK t \in Thread : Moved(t)
    BY <1>2, Moves
  <2>3. ASSUME NEW u \in Thread, u # t, Changing(u)' \/ frame'[u].op = "link"
        PROVE  ~Changing(t)' /\ frame'[t].op # "link"
    <3>1. Changing(u) \/ frame[u].op = "link"
      BY <2>2, <2>3 DEF Changing, Moved
    <3>2. ~Changing(t) /\ frame[t].op # "link" /\ ~MayBuild(t) /\ ~MayChange(t)
      BY <2>1, <2>3, <3>1 DEF OneChange
    <3>3. frame'[t].op \in {frame[t].op, "idle", "walk", "fill"}
      BY <2>2, <3>2, FrameKinds DEF Changing, Moved
    <3> QED
      BY <3>2, <3>3 DEF Changing
  <2> QED
    BY <2>2, <2>3 DEF OneChange, Changing, Moved
<1> QED
  BY <1>1, <1>2

\* Who writes method lists.
LEMMA ListWriters ==
    ASSUME Next, listed' # listed
    PROVE  \E t \in Thread :
             \/ LinkMethod(t)
             \/ \E c \in Class, s \in Sel, i \in Imp : AddMethod(t, c, s, i)
<1>1. \A t \in Thread : Walk(t) \/ Fill(t) \/ FinishExchange(t) \/ FlushDone(t) \/ LinkSubclass(t)
                          => UNCHANGED listed
  BY DEF Walk, Fill, FinishExchange, FlushDone, LinkSubclass, methods
<1>2. \A t \in Thread, c \in Class :
        /\ FlushOne(t, c) \/ AllocatePair(t, c) \/ RegisterPair(t, c) => UNCHANGED listed
        /\ \A s \in Sel : /\ Lookup(t, c, s) => UNCHANGED listed
                          /\ \A i \in Imp : ReplaceMethod(t, c, s, i) => UNCHANGED listed
                          /\ \A d \in Class, r \in Sel : Exchange(t, c, s, d, r) => UNCHANGED listed
  BY DEF FlushOne, AllocatePair, RegisterPair, Lookup, ReplaceMethod, Exchange, methods
<1> QED
  BY <1>1, <1>2 DEF Next

\* The head a thread is about to link to is what the chain still is.
AddHeads == \A t \in Thread : frame[t].op = "add" => frame[t].head = listed[frame[t].cls]

LEMMA AddHeadsStep ==
    ASSUME TypeOK, OneChange, OneChange', AddHeads, Next, ~RacyChanges
    PROVE  AddHeads' /\ \A c \in Class : listed[c] \subseteq listed'[c]
<1>f. \A t \in Thread : \A g : frame' = [frame EXCEPT ![t] = g] =>
          frame'[t] = g /\ \A u \in Thread : u # t => frame'[u] = frame[u]
  BY DEF TypeOK
<1>1. ASSUME NEW t \in Thread, NEW c \in Class, NEW s \in Sel, NEW i \in Imp, AddMethod(t, c, s, i),
             listed' # listed
      PROVE  AddHeads' /\ \A d \in Class : listed[d] \subseteq listed'[d]
  <2>1. \A u \in Thread : frame[u].op # "add"
    BY <1>1 DEF AddMethod, MayChange, MayBuild, ChangingMethods, Busy
  <2>2. listed' = [listed EXCEPT ![c] = @ \cup {s}] /\ UNCHANGED frame
    BY <1>1 DEF AddMethod, methods
  <2> QED
    BY <2>1, <2>2 DEF AddHeads, TypeOK
<1>2. ASSUME NEW t \in Thread, LinkMethod(t)
      PROVE  AddHeads' /\ \A d \in Class : listed[d] \subseteq listed'[d]
  <2>1. frame[t].cls \in Class /\ frame[t].head = listed[frame[t].cls]
    BY <1>2, FrameFields DEF LinkMethod, AddHeads
  <2>2. listed' = [listed EXCEPT ![frame[t].cls] = frame[t].head \cup {frame[t].sel}]
    BY <1>2 DEF LinkMethod
  <2>3. \A d \in Class : listed[d] \subseteq listed'[d]
    BY <2>1, <2>2 DEF TypeOK
  <2>4. frame'[t].op = "flush"
    <3> DEFINE g == [op |-> "flush", todo |-> {frame[t].cls}]
    <3>1. frame' = [frame EXCEPT ![t] = g] /\ g.op = "flush"
      BY <1>2 DEF LinkMethod, Flushing
    <3> HIDE DEF g
    <3> QED
      BY <1>f, <3>1
  <2>5. \A u \in Thread : frame'[u].op # "add"
    BY <2>4 DEF OneChange, Changing
  <2> QED
    BY <2>3, <2>5 DEF AddHeads
<1>3. CASE listed' = listed
  <2>1. PICK t \in Thread : Moved(t)
    BY Moves
  <2>2. ASSUME frame'[t].op = "add"
        PROVE  frame'[t].head = listed[frame'[t].cls]
    BY <2>1, <2>2, FrameKinds DEF Moved, AddHeads
  <2> QED
    BY <1>3, <2>1, <2>2 DEF Moved, AddHeads
<1> QED
  BY <1>1, <1>2, <1>3, ListWriters

--------------------------------------------------------------------------------
(* Chains of superclasses.                                                    *)

\* The first class on a chain that implements a selector is the one resolved.
LEMMA HitsFirst ==
    ASSUME NEW c \in Class, NEW s, NEW i \in Hits(c, s), \A j \in Hits(c, s) : i <= j
    PROVE  Owner(c, s) = Chain[c][i]
<1>1. Hits(c, s) \subseteq Int
  <2>1. DOMAIN Chain[c] = 1 .. Len(Chain[c]) /\ Len(Chain[c]) \in Nat
    BY Supers
  <2>2. DOMAIN Chain[c] \subseteq Int
    BY ONLY <2>1
  <2> QED
    BY <2>2 DEF Hits
<1> DEFINE First(k) == \A j \in Hits(c, s) : k <= j
           k == CHOOSE k \in Hits(c, s) : First(k)
<1>2. k \in Hits(c, s) /\ First(k)
  OBVIOUS
<1>3. k = i
  BY <1>1, <1>2
<1> QED
  BY <1>3 DEF Owner

\* If any class on a chain implements a selector, one is the first to.
LEMMA HitsLeast ==
    ASSUME NEW c \in Class, NEW s, Hits(c, s) # {}
    PROVE  \E i \in Hits(c, s) : \A j \in Hits(c, s) : i <= j
<1> DEFINE R == {ss \in Nat \X Nat : ss[1] < ss[2]}
<1>1. IsWellFoundedOn(R, Nat)
  BY NatLessThanWellFounded DEF OpToRel
<1>2. Hits(c, s) \subseteq Nat
  <2>1. DOMAIN Chain[c] = 1 .. Len(Chain[c]) /\ Len(Chain[c]) \in Nat
    BY Supers
  <2>2. DOMAIN Chain[c] \subseteq Nat
    BY ONLY <2>1
  <2> QED
    BY <2>2 DEF Hits
<1>3. PICK i \in Hits(c, s) : \A j \in Hits(c, s) : <<j, i>> \notin R
  <2> HIDE DEF R
  <2>1. ASSUME NEW T, T = Hits(c, s)
        PROVE  \E i \in T : \A j \in T : <<j, i>> \notin R
    BY <1>1, <1>2, <2>1, WFMin
  <2> QED
    BY <2>1
<1>4. \A j \in Hits(c, s) : i <= j
  <2>1. \A a, b \in Nat : <<b, a>> \in R <=> b < a
    OBVIOUS
  <2> HIDE DEF R
  <2>2. \A j \in Hits(c, s) : i \in Nat /\ j \in Nat /\ ~(j < i)
    BY <1>2, <1>3, <2>1
  <2> QED
    BY <2>2
<1> QED
  BY <1>4

\* What is resolved changes only with a class on the chain.
LEMMA ResolveSame ==
    ASSUME NEW c \in Class, NEW s,
           \A i \in DOMAIN Chain[c] :
              /\ s \in listed'[Chain[c][i]] <=> s \in listed[Chain[c][i]]
              /\ imps'[Chain[c][i]][s] = imps[Chain[c][i]][s]
    PROVE  Resolve(c, s)' = Resolve(c, s)
<1>1. Hits(c, s)' = Hits(c, s)
  BY DEF Hits
<1>2. Owner(c, s)' = Owner(c, s)
  BY <1>1 DEF Owner
<1>3. CASE Hits(c, s) = {}
  BY <1>2, <1>3 DEF Resolve, Owner
<1>4. CASE Hits(c, s) # {}
  <2>1. PICK i \in Hits(c, s) : \A j \in Hits(c, s) : i <= j
    BY <1>4, HitsLeast
  <2>2. Owner(c, s) = Chain[c][i] /\ i \in DOMAIN Chain[c]
    BY <2>1, HitsFirst DEF Hits
  <2> QED
    BY <1>2, <2>2 DEF Resolve
<1> QED
  BY <1>3, <1>4

\* A class object that may be changed and that something in use inherits from is
\* registered, and so is the root: a flush from either comes down to its heir.
LEMMA Reached ==
    ASSUME TypeOK, RulesKept, Linked, NEW c, Mutable(c),
           NEW d \in Class, Receives(d), NEW i \in DOMAIN Chain[d], Chain[d][i] = c
    PROVE  /\ c \in flagged
           /\ d \in Subtree(c)
           /\ \E r \in Range(registry) \ {Nil} : d \in Subtree(r)
<1>1. ASSUME NEW e \in flagged
      PROVE  e \in Class \ Meta /\ e \in allocated /\ \A j \in DOMAIN Chain[e] : Chain[e][j] \in flagged
  <2>1. e \in Class \ Meta /\ e \in allocated
    BY DEF TypeOK, Linked
  <2> QED
    BY <2>1, Supers DEF Linked
<1>2. d \in flagged
  <2> SUFFICES ASSUME d \notin flagged PROVE FALSE
    OBVIOUS
  <2>1. PICK e \in flagged : MetaOf[e] = d
    BY DEF Receives
  <2>2. PICK j \in DOMAIN Chain[e] : c \in {Chain[e][j], MetaOf[Chain[e][j]]}
    BY <1>1, <2>1, ChainShape
  <2>3. Receives(c)
    BY <1>1, <2>1, <2>2 DEF Receives
  <2>4. c \in Changeable
    BY <2>3 DEF Mutable
  <2>5. d \in Meta
    BY <1>1, <2>1, ClassShape
  <2> QED
    BY <2>4, <2>5 DEF RulesKept
<1>3. ASSUME NEW j \in DOMAIN Chain[d], j + 1 \in DOMAIN Chain[d]
      PROVE  Chain[d][j] \in subs[Chain[d][j + 1]]
  <2>1. Super[Chain[d][j]] = Chain[d][j + 1] /\ Chain[d][j + 1] \in Class
    BY <1>3, Supers
  <2>2. Chain[d][j] \in allocated \ Meta
    BY <1>1, <1>2
  <2> QED
    BY <2>1, <2>2, NilIsNothing DEF Linked
<1>4. DOMAIN Chain[d] = 1 .. Len(Chain[d]) /\ Len(Chain[d]) \in Nat /\ Len(Chain[d]) \in DOMAIN Chain[d]
  BY Supers
<1>5. ASSUME NEW k \in DOMAIN Chain[d]
      PROVE  d \in Subtree(Chain[d][k])
  <2>1. \A j \in 1 .. k - 1 : j \in DOMAIN Chain[d] /\ j + 1 \in DOMAIN Chain[d]
    BY <1>4
  <2> QED
    BY <1>3, <2>1 DEF Subtree
<1>6. ASSUME NEW r, r = Chain[d][Len(Chain[d])]
      PROVE  r \in Range(registry) \ {Nil}
  <2>1. r \in flagged /\ r \in Class \ Meta /\ Super[r] = Nil
    BY <1>1, <1>2, <1>4, <1>6, Supers
  <2>2. registry[NameOf[r]] = r /\ NameOf[r] \in Name
    BY <2>1, ClassShape DEF Linked
  <2> QED
    BY <2>1, <2>2, NilIsNothing DEF Range, TypeOK
<1> QED
  BY <1>1, <1>2, <1>4, <1>5, <1>6

--------------------------------------------------------------------------------
(* Classes and what is written to them.                                       *)

\* Who writes them.
LEMMA ClassWriters ==
    ASSUME Next
    PROVE  \/ UNCHANGED classes
           \/ \E t \in Thread : LinkSubclass(t) \/ \E c \in Class : AllocatePair(t, c) \/ RegisterPair(t, c)
<1>1. /\ \A t \in Thread : Walk(t) \/ Fill(t) \/ LinkMethod(t) \/ FinishExchange(t) \/ FlushDone(t)
                             => UNCHANGED classes
      /\ \A t \in Thread, c \in Class :
           /\ FlushOne(t, c) => UNCHANGED classes
           /\ \A s \in Sel :
                /\ Lookup(t, c, s) => UNCHANGED classes
                /\ \A i \in Imp : AddMethod(t, c, s, i) \/ ReplaceMethod(t, c, s, i) => UNCHANGED classes
                /\ \A d \in Class, r \in Sel : Exchange(t, c, s, d, r) => UNCHANGED classes
  BY DEF Walk, Fill, LinkMethod, FinishExchange, FlushDone, FlushOne, Lookup, AddMethod, ReplaceMethod,
         Exchange, classes
<1> HIDE DEF classes
<1> QED
  BY <1>1 DEF Next

LEMMA MethodWriters ==
    ASSUME Next
    PROVE  \/ UNCHANGED methods
           \/ \E t \in Thread :
                \/ LinkMethod(t) \/ FinishExchange(t)
                \/ \E c \in Class, s \in Sel, i \in Imp : AddMethod(t, c, s, i) \/ ReplaceMethod(t, c, s, i)
                \/ \E c, d \in Class, s, r \in Sel : Exchange(t, c, s, d, r)
<1>1. /\ \A t \in Thread : Walk(t) \/ Fill(t) \/ FlushDone(t) \/ LinkSubclass(t) => UNCHANGED methods
      /\ \A t \in Thread, c \in Class :
           /\ FlushOne(t, c) \/ AllocatePair(t, c) \/ RegisterPair(t, c) => UNCHANGED methods
           /\ \A s \in Sel : Lookup(t, c, s) => UNCHANGED methods
  BY DEF Walk, Fill, FlushDone, LinkSubclass, FlushOne, AllocatePair, RegisterPair, Lookup, methods
<1> HIDE DEF methods
<1> QED
  BY <1>1 DEF Next

LEMMA LinkedInit == RulesKept /\ Init => Linked
<1> SUFFICES ASSUME RulesKept, Init PROVE Linked
  OBVIOUS
<1>1. \A c \in Class \ Meta : MetaOf[c] \in Meta
  BY ClassShape
<1>2. allocated \ Meta \subseteq Loaded /\ flagged = Loaded /\ Loaded \subseteq allocated
  BY <1>1, LoadedShape DEF Init
<1>3. ASSUME NEW c \in Loaded, Super[c] = Nil
      PROVE  registry[NameOf[c]] = c
  <2>1. NameOf[c] \in Name /\ c \in Class \ Meta
    BY LoadedShape, ClassShape
  <2> DEFINE d == CHOOSE d \in Loaded : NameOf[d] = NameOf[c]
  <2>2. d \in Loaded /\ NameOf[d] = NameOf[c]
    OBVIOUS
  <2>3. registry[NameOf[c]] = d
    BY <2>1 DEF Init
  <2>4. c = d
    BY <1>3, <2>1, <2>2, LoadedShape DEF RulesKept
  <2> QED
    BY <2>3, <2>4
<1> QED
  BY <1>2, <1>3, LoadedShape DEF Linked, Init

LEMMA LinkedStep ==
    ASSUME RulesKept, TypeOK, TypeOK', Linked, HeadsCurrent, [Next]_vars
    PROVE  Linked'
<1>1. ASSUME NEW t \in Thread, NEW c \in Class, AllocatePair(t, c)
      PROVE  Linked'
  <2>1. CASE Super[c] = Nil
    <3>1. allocated' = allocated \cup {c, MetaOf[c]} /\ UNCHANGED <<registry, flagged, subs>> /\ c \notin Meta
      BY <1>1, <2>1 DEF AllocatePair
    <3>2. MetaOf[c] \in Meta
      BY <3>1, ClassShape
    <3>3. DOMAIN Chain[c] = {1}
      BY <2>1, Supers
    <3> QED
      BY <2>1, <3>1, <3>2, <3>3 DEF Linked
  <2>2. CASE Super[c] # Nil
    BY <1>1, <2>2 DEF AllocatePair, Linked
  <2> QED
    BY <2>1, <2>2
<1>2. ASSUME NEW t \in Thread, LinkSubclass(t)
      PROVE  Linked'
  <2> DEFINE c == frame[t].cls
  <2>1. c \in Class \ Meta /\ Super[c] \in flagged /\ Super[c] \in Class /\ MetaOf[c] \in Meta
    BY <1>2, FrameFields, ClassShape DEF LinkSubclass, HeadsCurrent, TypeOK
  <2>2. /\ subs' = [subs EXCEPT ![Super[c]] = subs[Super[c]] \cup {c}]
        /\ allocated' = allocated \cup {c, MetaOf[c]}
        /\ UNCHANGED <<registry, flagged>>
    BY <1>2 DEF LinkSubclass, HeadsCurrent
  <2>3. \A d \in Class : subs[d] \subseteq subs'[d]
    BY <2>1, <2>2 DEF TypeOK
  <2>4. c \in subs'[Super[c]]
    BY <2>1, <2>2 DEF TypeOK
  <2>5. ASSUME NEW i \in DOMAIN Chain[c], i # 1
        PROVE  Chain[c][i] \in flagged
    <3>1. /\ DOMAIN Chain[c] = 1 .. Len(Chain[c]) /\ Len(Chain[c]) \in Nat
          /\ Super[c] = Chain[c][2] /\ 2 \in DOMAIN Chain[c]
          /\ \A j \in DOMAIN Chain[Chain[c][2]] : Chain[Chain[c][2]][j] = Chain[c][2 + j - 1]
          /\ \A k \in DOMAIN Chain[c] : k >= 2 => k - 2 + 1 \in DOMAIN Chain[Chain[c][2]]
      <4> HIDE DEF c
      <4>1. /\ DOMAIN Chain[c] = 1 .. Len(Chain[c]) /\ Len(Chain[c]) \in Nat
            /\ Super[c] = Chain[c][2] /\ 2 \in DOMAIN Chain[c]
        BY <2>1, Supers, NilIsNothing
      <4>2. \A d \in Class : \A k \in DOMAIN Chain[d] :
              /\ \A j \in DOMAIN Chain[Chain[d][k]] : Chain[Chain[d][k]][j] = Chain[d][k + j - 1]
              /\ \A j \in DOMAIN Chain[d] : j >= k => j - k + 1 \in DOMAIN Chain[Chain[d][k]]
        BY Supers
      <4> QED
        BY ONLY <2>1, <4>1, <4>2
    <3>2. i - 1 \in DOMAIN Chain[Super[c]] /\ Chain[Super[c]][i - 1] = Chain[c][i]
      <4> HIDE DEF c
      <4>1. i \in Int /\ i >= 2 /\ i - 2 + 1 = i - 1 /\ 2 + (i - 1) - 1 = i
        BY <2>5, <3>1
      <4> QED
        BY <2>5, <3>1, <4>1
    <3>3. i - 1 = 1 => Chain[c][i] = Super[c]
      BY <3>1
    <3> QED
      BY <2>1, <3>2, <3>3 DEF Linked, TypeOK
  <2>6. ASSUME NEW d \in allocated' \ Meta
        PROVE  /\ Super[d] # Nil => d \in subs'[Super[d]]
               /\ \A i \in DOMAIN Chain[d] : i # 1 => Chain[d][i] \in flagged
    <3>1. CASE d = c
      BY <2>4, <2>5, <3>1
    <3>2. CASE d # c
      <4>1. d \in allocated \ Meta /\ Super[d] \in Class \cup {Nil}
        BY <2>1, <2>2, <3>2, Supers DEF TypeOK
      <4> QED
        BY <2>3, <4>1 DEF Linked
    <3> QED
      BY <3>1, <3>2
  <2> HIDE DEF c
  <2> QED
    BY <2>2, <2>6 DEF Linked
<1>3. ASSUME NEW t \in Thread, NEW c \in Class, RegisterPair(t, c)
      PROVE  Linked'
  <2>1. /\ c \in allocated /\ c \in Class \ Meta /\ NameOf[c] \in Name
        /\ registry' = [registry EXCEPT ![NameOf[c]] = c]
        /\ flagged' = flagged \cup {c}
        /\ UNCHANGED <<allocated, subs>>
    BY <1>3, ClassShape DEF RegisterPair
  <2>2. ASSUME NEW d \in flagged', Super[d] = Nil
        PROVE  registry'[NameOf[d]] = d
    <3>1. d \in Class \ Meta /\ NameOf[d] \in Name
      BY <2>1, ClassShape DEF TypeOK
    <3>2. CASE NameOf[d] = NameOf[c]
      BY <2>1, <2>2, <3>1, <3>2 DEF RulesKept, TypeOK
    <3>3. CASE NameOf[d] # NameOf[c]
      BY <2>1, <2>2, <3>1, <3>3 DEF Linked, TypeOK
    <3> QED
      BY <3>2, <3>3
  <2> QED
    BY <2>1, <2>2 DEF Linked
<1>4. CASE UNCHANGED classes
  BY <1>4 DEF Linked, classes
<1>5. UNCHANGED vars => UNCHANGED classes
  BY DEF vars, classes
<1> QED
  <2> HIDE DEF Linked, TypeOK, classes
  <2> QED
    BY <1>1, <1>2, <1>3, <1>4, <1>5, ClassWriters

--------------------------------------------------------------------------------
(* Lookups.                                                                   *)

LEMMA LookupsApartStep ==
    ASSUME ~RacyLookups, TypeOK, LookupsApart, [Next]_vars
    PROVE  LookupsApart'
<1>1. CASE UNCHANGED vars
  BY <1>1 DEF vars, LookupsApart, Changing
<1>2. CASE Next
  <2>1. PICK t \in Thread : Moved(t)
    BY <1>2, Moves
  <2>2. ASSUME Changing(t)'
        PROVE  \A u \in Thread : frame'[u].op \notin {"walk", "fill"}
    <3>1. Changing(t) \/ MayChange(t)
      BY <2>1, <2>2, FrameKinds DEF Moved, Changing
    <3>2. \A u \in Thread : frame[u].op \notin {"walk", "fill"}
      BY <3>1 DEF LookupsApart, MayChange, Looking, Busy
    <3> QED
      BY <2>1, <2>2, <3>2 DEF Moved, Changing
  <2>3. ASSUME frame'[t].op \in {"walk", "fill"}
        PROVE  \A u \in Thread : ~Changing(u)'
    <3>1. MayLook(t) \/ frame[t].op \in {"walk", "fill"}
      BY <2>1, <2>3, FrameKinds DEF Moved
    <3>2. \A u \in Thread : ~Changing(u)
      BY <3>1 DEF LookupsApart, MayLook, ChangingMethods, Busy, Changing
    <3> QED
      BY <2>1, <2>3, <3>2 DEF Moved, Changing
  <2> QED
    BY <2>1, <2>2, <2>3 DEF LookupsApart, Moved, Changing
<1> QED
  BY <1>1, <1>2

LEMMA HeadsStep ==
    ASSUME ~RacyChanges, TypeOK, TypeOK', OneChange, OneChange', HeadsCurrent, [Next]_vars
    PROVE  HeadsCurrent'
<1>1. CASE UNCHANGED vars
  BY <1>1 DEF vars, HeadsCurrent, Mutable, Receives
<1>2. CASE Next
  <2>1. PICK t \in Thread : Moved(t)
    BY <1>2, Moves
  <2>2. AddHeads'
    <3>1. AddHeads
      BY DEF AddHeads, HeadsCurrent
    <3> QED
      BY <1>2, <3>1, AddHeadsStep
  <2>3. ASSUME NEW u \in Thread, NEW c \in Class, RegisterPair(u, c)
        PROVE  HeadsCurrent'
    <3>1. \A x \in Thread : frame[x].op \notin {"add", "swap", "link"}
      BY <2>3 DEF RegisterPair, MayBuild, ChangingMethods, Building, Busy
    <3> QED
      BY <2>3, <3>1 DEF RegisterPair, HeadsCurrent
  <2>4. ASSUME NEW u \in Thread, LinkSubclass(u)
        PROVE  HeadsCurrent'
    <3>1. \A x \in Thread : frame[x].op \notin {"add", "swap"} /\ (x # u => frame[x].op # "link")
      BY <2>4 DEF LinkSubclass, OneChange, Changing
    <3>2. frame' = [frame EXCEPT ![u] = Idle]
      BY <2>4 DEF LinkSubclass
    <3>3. \A x \in Thread : frame'[x].op \notin {"add", "swap", "link"}
      BY <3>1, <3>2, FrameKinds, OneFrame
    <3> QED
      BY <3>3 DEF HeadsCurrent
  <2>5. ASSUME UNCHANGED <<flagged, subs>>, allocated \subseteq allocated'
        PROVE  HeadsCurrent'
    <3>1. \A c : Mutable(c) => Mutable(c)'
      BY <2>5 DEF Mutable, Receives
    <3>2. ASSUME NEW u \in Thread, frame'[u].op = "link"
          PROVE  Super[frame'[u].cls] \in flagged /\ frame'[u].head = subs[Super[frame'[u].cls]]
      BY <2>1, <3>2, FrameKinds DEF Moved, HeadsCurrent
    <3>3. ASSUME NEW u \in Thread, frame'[u].op \in {"add", "swap"}
          PROVE  Mutable(frame'[u].cls) /\ (frame'[u].op = "add" => frame'[u].cls \in flagged)
      BY <2>1, <3>3, FrameKinds DEF Moved, HeadsCurrent
    <3> QED
      BY <2>2, <2>5, <3>1, <3>2, <3>3 DEF HeadsCurrent, AddHeads
  <2>6. ASSUME NEW u \in Thread, NEW c \in Class, AllocatePair(u, c)
        PROVE  UNCHANGED <<flagged, subs>> /\ allocated \subseteq allocated'
    BY <2>6 DEF AllocatePair
  <2>7. UNCHANGED classes => UNCHANGED <<flagged, subs>> /\ allocated \subseteq allocated'
    BY DEF classes
  <2> QED
    BY <1>2, <2>3, <2>4, <2>5, <2>6, <2>7, ClassWriters
<1> QED
  BY <1>1, <1>2

\* A step that leaves methods alone leaves what they resolve to alone.
LEMMA SameMethods ==
    ASSUME UNCHANGED methods, flagged \subseteq flagged'
    PROVE  /\ \A c, s : Hits(c, s)' = Hits(c, s) /\ Resolve(c, s)' = Resolve(c, s)
           /\ \A f : OnCourse(f) => /\ f.op \in {"walk", "fill"} => Receives(f.cls)'
                                    /\ f.op = "walk" => \E i \in DOMAIN Chain[f.cls] :
                                         f.at = Chain[f.cls][i] /\ \A j \in Hits(f.cls, f.sel)' : i <= j
                                    /\ f.op = "fill" => f.imp = Resolve(f.cls, f.sel)'
<1>1. listed' = listed /\ imps' = imps
  BY DEF methods
<1>2. \A c, s : Hits(c, s)' = Hits(c, s)
  BY <1>1 DEF Hits
<1>3. ASSUME NEW c, NEW s
      PROVE  Resolve(c, s)' = Resolve(c, s)
  <2>1. Hits(c, s)' = Hits(c, s)
    BY <1>2
  <2>2. Owner(c, s)' = Owner(c, s)
    BY <2>1 DEF Owner
  <2> QED
    BY <1>1, <2>2 DEF Resolve
<1>4. \A c : Receives(c) => Receives(c)'
  BY DEF Receives
<1> QED
  BY <1>2, <1>3, <1>4 DEF OnCourse

\* Where the threads that change methods go on to.
LEMMA Changers ==
    ASSUME TypeOK, NEW t \in Thread
    PROVE  /\ LinkMethod(t) => frame'[t] = [op |-> "flush", todo |-> {frame[t].cls}]
           /\ LinkMethod(t) => frame'[t].op = "flush"
           /\ FinishExchange(t) => frame'[t] = [op |-> "flushall", todo |-> Range(registry) \ {Nil}]
           /\ FinishExchange(t) => frame'[t].op = "flushall"
           /\ \A c \in Class, s \in Sel :
                 /\ \A i \in Imp : /\ ReplaceMethod(t, c, s, i) => frame'[t] = [op |-> "flush", todo |-> {c}]
                                   /\ ReplaceMethod(t, c, s, i) => frame'[t].op = "flush"
                                   /\ AddMethod(t, c, s, i) => UNCHANGED methods \/ UNCHANGED frame
                 /\ \A d \in Class, r \in Sel : Exchange(t, c, s, d, r) =>
                      /\ frame'[t] = [op |-> "swap", cls |-> d, sel |-> r, imp |-> imps[c][s]]
                      /\ frame'[t].op = "swap"
<1>f. \A g : frame' = [frame EXCEPT ![t] = g] => frame'[t] = g
  BY DEF TypeOK
<1>1. ASSUME LinkMethod(t)
      PROVE  frame'[t] = [op |-> "flush", todo |-> {frame[t].cls}]
  <2> DEFINE g == [op |-> "flush", todo |-> {frame[t].cls}]
  <2>1. frame' = [frame EXCEPT ![t] = g]
    BY <1>1 DEF LinkMethod, Flushing
  <2> HIDE DEF g
  <2>2. frame'[t] = g
    BY <1>f, <2>1
  <2> QED
    BY <2>2 DEF g
<1>2. ASSUME FinishExchange(t)
      PROVE  frame'[t] = [op |-> "flushall", todo |-> Range(registry) \ {Nil}]
  BY <1>f, <1>2 DEF FinishExchange
<1>3. ASSUME NEW c \in Class, NEW s \in Sel, NEW i \in Imp, ReplaceMethod(t, c, s, i)
      PROVE  frame'[t] = [op |-> "flush", todo |-> {c}]
  BY <1>f, <1>3 DEF ReplaceMethod, Flushing
<1>4. ASSUME NEW c \in Class, NEW s \in Sel, NEW d \in Class, NEW r \in Sel, Exchange(t, c, s, d, r)
      PROVE  frame'[t] = [op |-> "swap", cls |-> d, sel |-> r, imp |-> imps[c][s]]
  BY <1>f, <1>4 DEF Exchange
<1>5. ASSUME NEW c \in Class, NEW s \in Sel, NEW i \in Imp, AddMethod(t, c, s, i)
      PROVE  UNCHANGED methods \/ UNCHANGED frame
  BY <1>5 DEF AddMethod
<1> QED
  BY <1>1, <1>2, <1>3, <1>4, <1>5

LEMMA LookupsStep ==
    ASSUME RulesKept, Typed, Typed', LookupsApart, LookupsApart', LookupsCurrent, [Next]_vars
    PROVE  LookupsCurrent'
<1> USE DEF Typed
<1>m. flagged \subseteq flagged'
  <2>1. \A t \in Thread, c \in Class : AllocatePair(t, c) \/ RegisterPair(t, c) => flagged \subseteq flagged'
    BY DEF AllocatePair, RegisterPair
  <2>2. \A t \in Thread : LinkSubclass(t) => flagged \subseteq flagged'
    BY DEF LinkSubclass
  <2> QED
    BY <2>1, <2>2, ClassWriters DEF classes, vars
<1>r. \A c : Receives(c) => Receives(c)'
  BY <1>m DEF Receives
\* The caches.
<1>1. ASSUME NEW c \in Class, cache'[c] # {}
      PROVE  Receives(c)'
  <2>1. CASE cache'[c] = cache[c]
    BY <1>1, <1>r, <2>1 DEF LookupsCurrent
  <2>2. ASSUME NEW t \in Thread, Fill(t), cache'[c] # cache[c]
        PROVE  Receives(c)
    <3>1. c = frame[t].cls
      BY <2>2 DEF Fill, TypeOK
    <3> QED
      BY <2>2, <3>1 DEF Fill, LookupsCurrent, OnCourse
  <2>3. ASSUME NEW t \in Thread, NEW d \in Class, FlushOne(t, d)
        PROVE  cache'[c] = cache[c]
    BY <1>1, <2>3 DEF FlushOne, TypeOK
  <2> QED
    BY <1>r, <2>1, <2>2, <2>3, CacheWriters DEF vars
\* The threads, when methods change and when they do not.
<1>2. CASE ~ UNCHANGED methods
  <2>1. PICK t \in Thread :
                \/ LinkMethod(t) \/ FinishExchange(t)
                \/ \E c \in Class, s \in Sel, i \in Imp : AddMethod(t, c, s, i) \/ ReplaceMethod(t, c, s, i)
                \/ \E c, d \in Class, s, r \in Sel : Exchange(t, c, s, d, r)
    BY <1>2, MethodWriters DEF vars, methods
  <2>2. \A c \in Class, s \in Sel, i \in Imp :
          AddMethod(t, c, s, i) => \A u \in Thread : frame'[u].op \notin {"walk", "fill"}
    BY <1>2, Changers DEF AddMethod, MayChange, Looking, Busy, RulesKept
  <2>3. (\A c \in Class, s \in Sel, i \in Imp : ~AddMethod(t, c, s, i)) => Changing(t)'
    <3>1. LinkMethod(t) \/ FinishExchange(t) => frame'[t].op \in {"flush", "flushall"}
      BY Changers
    <3>2. \A c \in Class, s \in Sel, i \in Imp : ReplaceMethod(t, c, s, i) => frame'[t].op = "flush"
      BY Changers
    <3>3. \A c, d \in Class, s, r \in Sel : Exchange(t, c, s, d, r) => frame'[t].op = "swap"
      BY Changers
    <3> QED
      BY <2>1, <3>1, <3>2, <3>3 DEF Changing
  <2>4. \A u \in Thread : frame'[u].op \notin {"walk", "fill"}
    BY <2>2, <2>3 DEF LookupsApart
  <2> QED
    BY <1>1, <2>4 DEF LookupsCurrent, OnCourse
<1>3. ASSUME UNCHANGED methods, NEW u \in Thread, frame'[u] = frame[u]
      PROVE  OnCourse(frame[u])'
  BY <1>m, <1>3, SameMethods DEF LookupsCurrent, OnCourse
<1>4. CASE UNCHANGED methods /\ Next
  <2>1. PICK t \in Thread : Moved(t)
    BY <1>4, Moves
  <2>2. ASSUME NEW c \in Class, NEW s \in Sel, Lookup(t, c, s)
        PROVE  OnCourse(frame[t])'
    <3>1. /\ frame'[t] = [op |-> "walk", cls |-> c, sel |-> s, at |-> c]
          /\ Receives(c)
      BY <2>2 DEF Lookup, TypeOK
    <3>2. 1 \in DOMAIN Chain[c] /\ c = Chain[c][1] /\ \A j \in Hits(c, s)' : 1 <= j
      BY Supers DEF Hits
    <3> QED
      BY <1>r, <3>1, <3>2 DEF OnCourse
  <2>3. ASSUME Walk(t)
        PROVE  OnCourse(frame[t])'
    <3> DEFINE f == frame[t]
    <3>1. /\ f.op = "walk" /\ f.cls \in Class /\ f.sel \in Sel /\ f.at \in Class
          /\ \A c \in Class : [f EXCEPT !.at = c] = [op |-> "walk", cls |-> f.cls, sel |-> f.sel, at |-> c]
      BY <2>3, FrameFields DEF Walk
    <3>2. frame' = [frame EXCEPT ![t] =
              IF f.sel \in listed[f.at]
              THEN [op |-> "fill", cls |-> f.cls, sel |-> f.sel, imp |-> imps[f.at][f.sel]]
              ELSE IF Super[f.at] = Nil THEN Idle
              ELSE [f EXCEPT !.at = Super[f.at]]]
      BY <2>3 DEF Walk
    <3>c. PICK k \in Class, s \in Sel : k = f.cls /\ s = f.sel
      BY <3>1
    <3>3. PICK i \in DOMAIN Chain[k] : f.at = Chain[k][i] /\ \A j \in Hits(k, s) : i <= j
      BY <3>1, <3>c DEF LookupsCurrent, OnCourse
    <3>4. Receives(k)'
      BY <1>r, <3>1, <3>c DEF LookupsCurrent, OnCourse
    <3>5. CASE s \in listed[f.at]
      <4>1. frame'[t] = [op |-> "fill", cls |-> k, sel |-> s, imp |-> imps[f.at][s]]
        BY <3>2, <3>5, <3>c DEF TypeOK
      <4>2. Owner(k, s) = f.at
        BY <3>3, <3>5, HitsFirst DEF Hits
      <4>3. imps[f.at][s] = Resolve(k, s)
        BY <3>1, <4>2, NilIsNothing DEF Resolve
      <4>4. Resolve(k, s)' = Resolve(k, s)
        BY <1>4, <1>m, SameMethods
      <4> QED
        BY <3>4, <4>1, <4>3, <4>4 DEF OnCourse
    <3>6. CASE s \notin listed[f.at] /\ Super[f.at] = Nil
      <4>1. frame'[t] = Idle
        BY <3>2, <3>6, <3>c DEF TypeOK
      <4> QED
        BY <4>1, FrameKinds DEF OnCourse
    <3>7. CASE s \notin listed[f.at] /\ Super[f.at] # Nil
      <4>1. Super[f.at] \in Class
        BY <3>1, <3>7, Supers
      <4>2. frame'[t] = [op |-> "walk", cls |-> k, sel |-> s, at |-> Super[f.at]]
        BY <3>1, <3>2, <3>7, <3>c, <4>1 DEF TypeOK
      <4>3. i + 1 \in DOMAIN Chain[k] /\ Super[f.at] = Chain[k][i + 1]
        <5> HIDE DEF f
        <5>1. /\ i # Len(Chain[k]) /\ DOMAIN Chain[k] = 1 .. Len(Chain[k]) /\ Len(Chain[k]) \in Nat
              /\ i + 1 \in DOMAIN Chain[k] => Super[f.at] = Chain[k][i + 1]
          BY <3>3, <3>7, Supers
        <5> QED
          BY <3>3, <5>1
      <4>4. \A j \in Hits(k, s)' : i + 1 <= j
        <5>1. i \notin Hits(k, s)
          BY <3>3, <3>7 DEF Hits
        <5>2. Hits(k, s)' = Hits(k, s)
          BY <1>4, <1>m, SameMethods
        <5>3. Hits(k, s) \subseteq Int /\ i \in Int
          <6>1. DOMAIN Chain[k] = 1 .. Len(Chain[k]) /\ Len(Chain[k]) \in Nat
            BY Supers
          <6>2. DOMAIN Chain[k] \subseteq Int
            BY ONLY <6>1
          <6> QED
            BY <6>2 DEF Hits
        <5> QED
          BY <3>3, <5>1, <5>2, <5>3
      <4> QED
        BY <3>4, <4>2, <4>3, <4>4 DEF OnCourse
    <3> QED
      BY <3>5, <3>6, <3>7
  <2>4. OnCourse(frame[t])'
    <3>1. CASE frame'[t].op \notin {"walk", "fill"}
      BY <3>1 DEF OnCourse
    <3>2. CASE frame'[t].op \in {"walk", "fill"}
      BY <1>3, <1>4, <2>1, <2>2, <2>3, <3>2, FrameKinds DEF Moved
    <3> QED
      BY <3>1, <3>2
  <2>5. \A u \in Thread : OnCourse(frame[u])'
    BY <1>3, <1>4, <2>1, <2>4 DEF Moved
  <2> QED
    BY <1>1, <2>5 DEF LookupsCurrent
<1>5. CASE UNCHANGED methods /\ UNCHANGED frame
  BY <1>1, <1>3, <1>5 DEF LookupsCurrent
<1> QED
  BY <1>2, <1>4, <1>5 DEF vars

--------------------------------------------------------------------------------
(* What is cached.                                                            *)

\* No cache holds anything but what the hierarchy gives.
Fresh == \A c \in Class : \A e \in cache[c] : e.imp = Resolve(c, e.sel)

\* Unless a flush is under way, or the second half of an exchange is to come.
LEMMA QuietIsFresh ==
    ASSUME CachesCoherent, \A t \in Thread : ToFlush(t) = {}
    PROVE  Fresh
BY DEF CachesCoherent, Fresh

LEMMA FreshIsCoherent == Fresh' => CachesCoherent'
BY DEF CachesCoherent, Fresh

LEMMA MostStepsAreQuiet ==
    ASSUME RulesKept, TypeOK, OneChange, LookupsApart, CachesCoherent, NEW t \in Thread,
           \/ Walk(t) \/ Fill(t) \/ LinkMethod(t) \/ FlushDone(t) \/ LinkSubclass(t)
           \/ \E c \in Class : AllocatePair(t, c) \/ RegisterPair(t, c)
           \/ \E c \in Class, s \in Sel : Lookup(t, c, s)
           \/ \E c \in Class, s \in Sel, i \in Imp : AddMethod(t, c, s, i) \/ ReplaceMethod(t, c, s, i)
           \/ \E c, d \in Class, s, r \in Sel : Exchange(t, c, s, d, r)
    PROVE  Fresh
<1>1. \A u \in Thread : ~Changing(u) => ToFlush(u) = {}
  BY DEF ToFlush, Changing
<1>2. \A u \in Thread : frame[u].op = "add" => ToFlush(u) = {}
  BY DEF ToFlush
<1>3. ASSUME MayLook(t) \/ MayBuild(t) \/ MayChange(t)
      PROVE  \A u \in Thread : ~Changing(u)
  BY <1>3 DEF MayLook, MayBuild, MayChange, ChangingMethods, Busy, Changing, RulesKept
<1>4. ASSUME Walk(t) \/ Fill(t)
      PROVE  \A u \in Thread : ~Changing(u)
  BY <1>4 DEF Walk, Fill, LookupsApart
<1>5. ASSUME LinkSubclass(t)
      PROVE  \A u \in Thread : ~Changing(u)
  BY <1>5 DEF LinkSubclass, OneChange, Changing
<1>6. ASSUME LinkMethod(t) \/ FlushDone(t)
      PROVE  \A u \in Thread : ToFlush(u) = {}
  <2>1. \A u \in Thread : u # t => ~Changing(u)
    BY <1>6 DEF LinkMethod, FlushDone, OneChange, Changing
  <2>2. ToFlush(t) = {}
    BY <1>6 DEF LinkMethod, FlushDone, ToFlush
  <2> QED
    BY <1>1, <2>1, <2>2
<1>7. \/ MayLook(t) \/ MayBuild(t) \/ MayChange(t)
      \/ Walk(t) \/ Fill(t) \/ LinkSubclass(t) \/ LinkMethod(t) \/ FlushDone(t)
  <2>1. \A c \in Class : AllocatePair(t, c) \/ RegisterPair(t, c) => MayBuild(t)
    BY DEF AllocatePair, RegisterPair
  <2>2. \A c \in Class, s \in Sel : /\ Lookup(t, c, s) => MayLook(t)
                                    /\ \A i \in Imp : AddMethod(t, c, s, i) \/ ReplaceMethod(t, c, s, i)
                                                        => MayChange(t)
                                    /\ \A d \in Class, r \in Sel : Exchange(t, c, s, d, r) => MayChange(t)
    BY DEF Lookup, AddMethod, ReplaceMethod, Exchange
  <2> QED
    BY <2>1, <2>2
<1>8. \A u \in Thread : ToFlush(u) = {}
  BY <1>1, <1>3, <1>4, <1>5, <1>6, <1>7
<1> QED
  BY <1>8, QuietIsFresh

\* An entry that a change of a class makes wrong is below it, and below a
\* registered root.
LEMMA MadeStale ==
    ASSUME RulesKept, TypeOK, Linked, LookupsCurrent, UNCHANGED <<registry, subs>>,
           NEW c \in Class, Mutable(c),
           \A d \in Class \ {c} : listed'[d] = listed[d] /\ imps'[d] = imps[d],
           NEW x \in Class, NEW e \in cache[x],
           e.imp = Resolve(x, e.sel), e.imp # Resolve(x, e.sel)'
    PROVE  /\ c \in flagged
           /\ x \in Subtree(c)'
           /\ \E r \in Range(registry') \ {Nil} : x \in Subtree(r)'
<1>1. PICK i \in DOMAIN Chain[x] : Chain[x][i] = c
  <2> SUFFICES ASSUME \A i \in DOMAIN Chain[x] : Chain[x][i] # c
               PROVE  Resolve(x, e.sel)' = Resolve(x, e.sel)
    OBVIOUS
  <2> DEFINE s == e.sel
  <2>1. \A i \in DOMAIN Chain[x] : /\ listed'[Chain[x][i]] = listed[Chain[x][i]]
                                   /\ imps'[Chain[x][i]] = imps[Chain[x][i]]
    BY Supers
  <2> HIDE DEF s
  <2>2. Resolve(x, s)' = Resolve(x, s)
    BY <2>1, ResolveSame DEF s
  <2> QED
    BY <2>2 DEF s
<1>2. Receives(x)
  BY DEF LookupsCurrent
<1>3. /\ c \in flagged /\ x \in Subtree(c)
      /\ \E r \in Range(registry) \ {Nil} : x \in Subtree(r)
  BY <1>1, <1>2, Reached
<1>4. \A d : Subtree(d)' = Subtree(d)
  BY DEF Subtree
<1> QED
  BY <1>3, <1>4

LEMMA CoherentStep ==
    ASSUME RulesKept, TypeOK, TypeOK', Linked, OneChange, LookupsApart, HeadsCurrent,
           LookupsCurrent, CachesCoherent, [Next]_vars
    PROVE  CachesCoherent'
\* Nothing is cached and nothing changes what is resolved.
<1>1. ASSUME Fresh, UNCHANGED cache, UNCHANGED methods
      PROVE  CachesCoherent'
  <2>1. listed' = listed /\ imps' = imps
    BY <1>1 DEF methods
  <2>2. \A c \in Class : \A s : Resolve(c, s)' = Resolve(c, s)
    BY <2>1, ResolveSame
  <2>3. Fresh'
    BY <1>1, <2>2 DEF Fresh
  <2> QED
    BY <2>3, FreshIsCoherent
<1>2. ASSUME NEW t \in Thread,
             \/ Walk(t) \/ FlushDone(t) \/ LinkSubclass(t)
             \/ \E c \in Class : AllocatePair(t, c) \/ RegisterPair(t, c)
             \/ \E c \in Class, s \in Sel : Lookup(t, c, s)
      PROVE  CachesCoherent'
  <2>1. Fresh
    BY <1>2, MostStepsAreQuiet
  <2>2. UNCHANGED cache /\ UNCHANGED methods
    BY <1>2 DEF Walk, FlushDone, LinkSubclass, AllocatePair, RegisterPair, Lookup, methods
  <2> QED
    BY <1>1, <2>1, <2>2
\* What a lookup caches is current.
<1>3. ASSUME NEW t \in Thread, Fill(t)
      PROVE  CachesCoherent'
  <2> DEFINE f == frame[t]
  <2>1. Fresh
    BY <1>3, MostStepsAreQuiet
  <2>2. f.cls \in Class /\ f.imp = Resolve(f.cls, f.sel)
    BY <1>3, FrameFields DEF Fill, LookupsCurrent, OnCourse
  <2>3. cache' = [cache EXCEPT ![f.cls] = Inserted(@, f.sel, f.imp)] /\ listed' = listed /\ imps' = imps
    BY <1>3 DEF Fill, methods
  <2>4. \A c \in Class : \A s : Resolve(c, s)' = Resolve(c, s)
    BY <2>3, ResolveSame
  <2>5. ASSUME NEW c \in Class, NEW e \in cache'[c]
        PROVE  e.imp = Resolve(c, e.sel)
    <3>1. e \in cache[c] \/ (c = f.cls /\ e = [sel |-> f.sel, imp |-> f.imp])
      BY <2>2, <2>3, <2>5 DEF Inserted, TypeOK
    <3> QED
      BY <2>1, <2>2, <3>1 DEF Fresh
  <2>6. Fresh'
    BY <2>4, <2>5 DEF Fresh
  <2> QED
    BY <2>6, FreshIsCoherent
\* A change of a class: what it makes stale, it is about to flush.
<1>4. ASSUME NEW t \in Thread, NEW c \in Class, NEW s \in Sel, NEW i \in Imp, AddMethod(t, c, s, i)
      PROVE  CachesCoherent'
  <2>1. Fresh /\ Mutable(c)
    BY <1>4, MostStepsAreQuiet DEF AddMethod
  <2>2. CASE c \in flagged
    BY <1>1, <1>4, <2>1, <2>2 DEF AddMethod
  <2>3. CASE c \notin flagged
    <3>1. UNCHANGED <<registry, subs, cache>>
      BY <1>4 DEF AddMethod, classes
    <3>2. \A d \in Class \ {c} : listed'[d] = listed[d] /\ imps'[d] = imps[d]
      BY <1>4, <2>3 DEF AddMethod, TypeOK
    <3>3. \A x \in Class : \A e \in cache[x] : e.imp = Resolve(x, e.sel)'
      BY <2>1, <2>3, <3>1, <3>2, MadeStale DEF Fresh
    <3>4. Fresh'
      BY <3>1, <3>3 DEF Fresh
    <3> QED
      BY <3>4, FreshIsCoherent
  <2> QED
    BY <2>2, <2>3
<1>5. ASSUME NEW t \in Thread, NEW c \in Class, Fresh, Mutable(c), UNCHANGED <<registry, subs, cache>>,
             \A d \in Class \ {c} : listed'[d] = listed[d] /\ imps'[d] = imps[d],
             \/ frame'[t] = [op |-> "flush", todo |-> {c}]
             \/ frame'[t].op = "swap"
      PROVE  CachesCoherent'
  <2> SUFFICES ASSUME NEW x \in Class, NEW e \in cache'[x], e.imp # Resolve(x, e.sel)'
               PROVE  \E d \in ToFlush(t)' : x \in Subtree(d)'
    BY DEF CachesCoherent
  <2>1. x \in Subtree(c)' /\ \E r \in Range(registry') \ {Nil} : x \in Subtree(r)'
    BY <1>5, MadeStale DEF Fresh
  <2>2. CASE frame'[t] = [op |-> "flush", todo |-> {c}]
    <3>1. ToFlush(t)' = {c}
      BY <2>2 DEF ToFlush
    <3> QED
      BY <2>1, <3>1
  <2>3. CASE frame'[t].op = "swap"
    <3>1. ToFlush(t)' = Range(registry') \ {Nil}
      BY <2>3 DEF ToFlush
    <3> QED
      BY <2>1, <3>1
  <2> QED
    BY <1>5, <2>2, <2>3
<1>6. ASSUME NEW t \in Thread, LinkMethod(t)
      PROVE  CachesCoherent'
  <2> DEFINE c == frame[t].cls
  <2>1. Fresh /\ Mutable(c) /\ c \in Class
    BY <1>6, MostStepsAreQuiet, FrameFields DEF LinkMethod, HeadsCurrent
  <2>2. UNCHANGED <<registry, subs, cache>>
    BY <1>6 DEF LinkMethod, classes
  <2>3. \A d \in Class \ {c} : listed'[d] = listed[d] /\ imps'[d] = imps[d]
    BY <1>6 DEF LinkMethod, TypeOK
  <2>4. frame'[t] = [op |-> "flush", todo |-> {c}]
    BY <1>6, Changers
  <2>5. PICK k \in Class : k = c
    BY <2>1
  <2> HIDE DEF c
  <2> QED
    BY <1>5, <2>1, <2>2, <2>3, <2>4, <2>5
<1>7. ASSUME NEW t \in Thread, NEW c \in Class, NEW s \in Sel, NEW i \in Imp, ReplaceMethod(t, c, s, i)
      PROVE  CachesCoherent'
  <2>1. Fresh /\ Mutable(c) /\ frame'[t] = [op |-> "flush", todo |-> {c}]
    BY <1>7, MostStepsAreQuiet, Changers DEF ReplaceMethod
  <2>2. UNCHANGED <<registry, subs, cache>> /\ \A d \in Class \ {c} : listed'[d] = listed[d] /\ imps'[d] = imps[d]
    BY <1>7 DEF ReplaceMethod, classes, TypeOK
  <2> QED
    BY <1>5, <2>1, <2>2
<1>8. ASSUME NEW t \in Thread, NEW c \in Class, NEW s \in Sel, NEW d \in Class, NEW r \in Sel,
             Exchange(t, c, s, d, r)
      PROVE  CachesCoherent'
  <2>1. Fresh /\ Mutable(c) /\ frame'[t].op = "swap"
    BY <1>8, MostStepsAreQuiet, Changers DEF Exchange
  <2>2. UNCHANGED <<registry, subs, cache>> /\ \A k \in Class \ {c} : listed'[k] = listed[k] /\ imps'[k] = imps[k]
    BY <1>8 DEF Exchange, classes, TypeOK
  <2> QED
    BY <1>5, <2>1, <2>2
\* The flushes.
<1>q. \A u \in Thread : ~Changing(u) => ToFlush(u) = {}
  BY DEF ToFlush, Changing
<1>9. ASSUME NEW t \in Thread, FinishExchange(t)
      PROVE  CachesCoherent'
  <2>1. /\ frame[t].cls \in Class /\ Mutable(frame[t].cls)
        /\ UNCHANGED <<registry, subs, cache, listed>>
        /\ imps' = [imps EXCEPT ![frame[t].cls][frame[t].sel] = frame[t].imp]
    BY <1>9, FrameFields DEF FinishExchange, HeadsCurrent, classes
  <2>2. PICK c \in Class : c = frame[t].cls
    BY <2>1
  <2>3. Mutable(c) /\ \A d \in Class \ {c} : listed'[d] = listed[d] /\ imps'[d] = imps[d]
    BY <2>1, <2>2 DEF TypeOK
  <2>4. ToFlush(t)' = Range(registry') \ {Nil} /\ ToFlush(t) = Range(registry) \ {Nil}
    <3>1. frame'[t].op = "flushall" /\ frame'[t].todo = Range(registry) \ {Nil} /\ frame[t].op = "swap"
      <4>1. frame'[t] = [op |-> "flushall", todo |-> Range(registry) \ {Nil}]
        BY <1>9, Changers
      <4> QED
        BY <1>9, <4>1 DEF FinishExchange
    <3> QED
      BY <2>1, <3>1 DEF ToFlush
  <2>5. \A u \in Thread \ {t} : ToFlush(u) = {}
    BY <1>9, <1>q DEF FinishExchange, OneChange, Changing
  <2> SUFFICES ASSUME NEW x \in Class, NEW e \in cache'[x], e.imp # Resolve(x, e.sel)'
               PROVE  \E r \in Range(registry') \ {Nil} : x \in Subtree(r)'
    BY <2>4 DEF CachesCoherent
  <2>6. CASE e.imp = Resolve(x, e.sel)
    BY <2>1, <2>3, <2>6, MadeStale
  <2>7. CASE e.imp # Resolve(x, e.sel)
    <3>1. \E r \in Range(registry) \ {Nil} : x \in Subtree(r)
      BY <2>1, <2>4, <2>5, <2>7 DEF CachesCoherent
    <3>2. \A d : Subtree(d)' = Subtree(d)
      BY <2>1 DEF Subtree
    <3> QED
      BY <2>1, <3>1, <3>2
  <2> QED
    BY <2>6, <2>7
<1>10. ASSUME NEW t \in Thread, NEW c \in Class, FlushOne(t, c)
       PROVE  CachesCoherent'
  <2>1. /\ frame[t].op \in {"flush", "flushall"}
        /\ UNCHANGED <<subs, listed, imps>>
        /\ \A x \in Class : cache'[x] = IF x = c THEN {} ELSE cache[x]
    BY <1>10 DEF FlushOne, classes, methods, TypeOK
  <2>2. /\ ToFlush(t) = frame[t].todo
        /\ ToFlush(t)' = (frame[t].todo \ {c}) \cup subs[c]
    <3> DEFINE S == (frame[t].todo \ {c}) \cup subs[c]
    <3>1. frame[t].todo \subseteq Class /\ S \in SUBSET Class
      BY <2>1, FrameFields DEF TypeOK
    <3>2. [frame[t] EXCEPT !.todo = S] = [op |-> frame[t].op, todo |-> S]
      BY <2>1, <3>1, FrameFields
    <3>3. frame'[t] = [frame[t] EXCEPT !.todo = S]
      BY <1>10 DEF FlushOne, TypeOK
    <3>4. frame'[t].op = frame[t].op /\ frame'[t].todo = S
      BY <3>2, <3>3
    <3> QED
      BY <2>1, <3>4 DEF ToFlush
  <2>3. \A u \in Thread \ {t} : ToFlush(u) = {}
    BY <2>1, <1>q DEF OneChange, Changing
  <2> SUFFICES ASSUME NEW x \in Class, NEW e \in cache'[x], e.imp # Resolve(x, e.sel)'
               PROVE  \E d \in ToFlush(t)' : x \in Subtree(d)'
    BY DEF CachesCoherent
  <2>4. x # c /\ e \in cache[x]
    BY <2>1
  <2>5. Resolve(x, e.sel)' = Resolve(x, e.sel)
    <3> DEFINE s == e.sel
    <3>1. Resolve(x, s)' = Resolve(x, s)
      <4> HIDE DEF s
      <4> QED
        BY <2>1, ResolveSame
    <3> QED
      BY <3>1
  <2>6. PICK d \in frame[t].todo : x \in Subtree(d)
    BY <2>2, <2>3, <2>4, <2>5 DEF CachesCoherent
  <2>7. \A k : Subtree(k)' = Subtree(k)
    BY <2>1 DEF Subtree
  <2>8. CASE d # c
    BY <2>2, <2>6, <2>7, <2>8
  <2>9. CASE d = c
    <3>1. PICK i \in DOMAIN Chain[x] : /\ Chain[x][i] = c
                                       /\ \A j \in 1 .. i - 1 : Chain[x][j] \in subs[Chain[x][j + 1]]
      BY <2>6, <2>9 DEF Subtree
    <3>2. DOMAIN Chain[x] = 1 .. Len(Chain[x]) /\ Len(Chain[x]) \in Nat /\ i # 1
      BY <2>4, <3>1, Supers
    <3>3. i - 1 \in DOMAIN Chain[x] /\ i - 1 \in 1 .. i - 1 /\ (i - 1) + 1 = i
      BY <3>1, <3>2
    <3>4. Chain[x][i - 1] \in subs[c]
      BY <3>1, <3>3
    <3>5. x \in Subtree(Chain[x][i - 1])
      <4>1. \A j \in 1 .. (i - 1) - 1 : j \in 1 .. i - 1
        BY <3>2
      <4> QED
        BY <3>1, <3>3, <4>1 DEF Subtree
    <3> QED
      BY <2>2, <2>7, <3>4, <3>5
  <2> QED
    BY <2>8, <2>9
<1>11. CASE UNCHANGED vars
  <2>1. UNCHANGED <<subs, cache, frame, registry>> /\ listed' = listed /\ imps' = imps
    BY <1>11 DEF vars
  <2>2. \A c \in Class : \A s : Resolve(c, s)' = Resolve(c, s)
    BY <2>1, ResolveSame
  <2>3. \A d : Subtree(d)' = Subtree(d)
    BY <2>1 DEF Subtree
  <2>4. \A t : ToFlush(t)' = ToFlush(t)
    BY <2>1 DEF ToFlush
  <2> QED
    BY <2>1, <2>2, <2>3, <2>4 DEF CachesCoherent
<1> QED
  BY <1>2, <1>3, <1>4, <1>6, <1>7, <1>8, <1>9, <1>10, <1>11 DEF Next

\* Inductive, and true at first.
LEMMA DInvInit == RulesKept /\ Init => DInv
<1> SUFFICES ASSUME RulesKept, Init PROVE DInv
  OBVIOUS
<1>1. TypeOK /\ ListedHaveImps
  BY TypeInit DEF Typed
<1>2. \A t \in Thread : frame[t].op = "idle"
  BY FrameKinds DEF Init
<1>3. \A c \in Class : cache[c] = {}
  BY DEF Init
<1>4. OneChange /\ LookupsApart /\ HeadsCurrent
  BY <1>2 DEF OneChange, LookupsApart, HeadsCurrent, Changing
<1>5. LookupsCurrent /\ CachesCoherent
  BY <1>2, <1>3 DEF LookupsCurrent, OnCourse, CachesCoherent
<1> QED
  BY <1>1, <1>4, <1>5, LinkedInit DEF DInv

LEMMA DInvStep == RulesKept /\ DInv /\ [Next]_vars => DInv'
<1> SUFFICES ASSUME RulesKept, DInv, [Next]_vars PROVE DInv'
  OBVIOUS
<1>1. /\ TypeOK /\ ListedHaveImps /\ Linked /\ OneChange /\ LookupsApart
      /\ HeadsCurrent /\ LookupsCurrent /\ CachesCoherent
      /\ ~RacyLookups /\ ~RacyChanges
  BY DEF DInv, RulesKept
<1>2. Typed /\ Typed' /\ TypeOK' /\ ListedHaveImps'
  BY <1>1, TypeStep DEF Typed
<1>3. OneChange' /\ LookupsApart'
  BY <1>1, OneChangeStep, LookupsApartStep
<1>4. Linked' /\ HeadsCurrent'
  BY <1>1, <1>2, <1>3, LinkedStep, HeadsStep
<1>5. LookupsCurrent'
  BY <1>1, <1>2, <1>3, LookupsStep
<1>6. CachesCoherent'
  BY <1>1, <1>2, CoherentStep
<1> QED
  BY <1>2, <1>3, <1>4, <1>5, <1>6 DEF DInv

\* Subclass lists, lookups in progress and pending flushes fit together at every
\* step: at most one thread changes the classes, each change keeps the lists
\* threaded, and every lookup under way is current or has its flush to come
\* (class_add_method, class_replace_method, objc_register_class_pair, objc_msg_lookup).
THEOREM DInvariance == ASSUME RulesKept PROVE Spec => []DInv
BY DInvInit, DInvStep, PTL DEF Spec

\* What is cached is what the hierarchy gives, or about to be flushed by the
\* thread that made it stale, for every hierarchy and number of threads.
THEOREM Coherence == ASSUME RulesKept PROVE Spec => []CachesCoherent
<1>1. Spec => []DInv
  BY DInvariance
<1>2. DInv => CachesCoherent
  BY DEF DInv
<1> QED
  BY <1>1, <1>2, PTL

\* What objc_msg_lookup may return next: an entry of a cache, when no change of
\* methods is in progress; what a walk has found; or nothing, at the end of a
\* walk.  Each is what the hierarchy gives.
AnswersCurrent ==
    /\ ~ChangingMethods => \A c \in Class : \A e \in cache[c] : e.imp = Resolve(c, e.sel)
    /\ \A t \in Thread : frame[t].op = "fill" => frame[t].imp = Resolve(frame[t].cls, frame[t].sel)
    /\ \A t \in Thread :
          frame[t].op = "walk" /\ frame[t].sel \notin listed[frame[t].at] /\ Super[frame[t].at] = Nil
            => Resolve(frame[t].cls, frame[t].sel) = Nil

LEMMA CoherentAnswers == DInv => AnswersCurrent
<1> SUFFICES ASSUME DInv PROVE AnswersCurrent
  OBVIOUS
<1>1. TypeOK /\ LookupsCurrent /\ CachesCoherent
  BY DEF DInv
<1>2. ASSUME ~ChangingMethods, NEW c \in Class, NEW e \in cache[c], e.imp # Resolve(c, e.sel)
      PROVE  FALSE
  <2>1. PICK t \in Thread : \E d \in ToFlush(t) : c \in Subtree(d)
    BY <1>1, <1>2 DEF CachesCoherent
  <2>2. frame[t].op \in {"flush", "flushall", "swap"}
    BY <2>1 DEF ToFlush
  <2> QED BY <1>2, <2>2 DEF ChangingMethods, Busy
<1>3. ASSUME NEW t \in Thread, frame[t].op = "fill"
      PROVE  frame[t].imp = Resolve(frame[t].cls, frame[t].sel)
  BY <1>1, <1>3 DEF LookupsCurrent, OnCourse
<1>4. ASSUME NEW t \in Thread, frame[t].op = "walk",
             frame[t].sel \notin listed[frame[t].at], Super[frame[t].at] = Nil
      PROVE  Resolve(frame[t].cls, frame[t].sel) = Nil
  <2> SUFFICES ASSUME NEW c, c = frame[t].cls, NEW s, s = frame[t].sel, NEW a, a = frame[t].at
               PROVE  Owner(c, s) = Nil
    BY DEF Resolve
  <2>1. c \in Class /\ a \in Class /\ s \notin listed[a] /\ Super[a] = Nil
    BY <1>1, <1>4, FrameFields
  <2>2. PICK i \in DOMAIN Chain[c] : a = Chain[c][i] /\ \A j \in Hits(c, s) : i <= j
    BY <1>1, <1>4 DEF LookupsCurrent, OnCourse
  <2>3. i = Len(Chain[c])
    BY <2>1, <2>2, Supers
  <2>4. Hits(c, s) \subseteq DOMAIN Chain[c] /\ i \notin Hits(c, s)
    BY <2>1, <2>2 DEF Hits
  <2>5. \A j \in DOMAIN Chain[c] : j \in Int /\ j <= Len(Chain[c])
    <3>1. DOMAIN Chain[c] = 1 .. Len(Chain[c]) /\ Len(Chain[c]) \in Nat
      BY <2>1, Supers
    <3> QED BY ONLY <3>1
  <2>6. Hits(c, s) = {}
    <3> SUFFICES ASSUME NEW j \in Hits(c, s) PROVE FALSE
      OBVIOUS
    <3>1. j \in Int /\ j <= i /\ i <= j /\ i \in Int
      BY <2>2, <2>3, <2>4, <2>5
    <3> QED BY <2>4, <3>1
  <2> QED BY <2>6 DEF Owner
<1> QED BY <1>2, <1>3, <1>4 DEF AnswersCurrent

\* A message runs the method the hierarchy gives, from whichever cache or walk,
\* and finds none only if there is none: a change that has returned is seen by
\* every message sent after it (objc_msg_lookup, class_replace_method).
THEOREM MessagesSeeChanges == ASSUME RulesKept PROVE Spec => []AnswersCurrent
BY DInvariance, CoherentAnswers, PTL
================================================================================
