-------------------------------- MODULE Dispatch -------------------------------
(***************************************************************************)
(* Classes, method lists, method caches and message lookup: the dynamic    *)
(* class API of src/class_registry.rs, the caches of src/method_cache.rs   *)
(* and objc_msg_lookup of src/msg_send.rs, run by several threads.         *)
(*                                                                         *)
(* Class objects are the members of Class: a class and its metaclass are   *)
(* two of them.  The superclasses of each are fixed, as they are in the    *)
(* program once a pair is allocated or loaded.                             *)
(*                                                                         *)
(* Nothing but the caches and the registry is guarded by a lock, so a step *)
(* is one critical section on a cache or on the registry, or one word read *)
(* from or written to a class or a method entry, with the private work     *)
(* around it.  `frame' says how far each thread is in its call.            *)
(***************************************************************************)
EXTENDS Integers, Sequences, FiniteSets, Functions

CONSTANTS
    Thread,
    Class,          \* class objects, metaclasses among them
    Meta,           \* the metaclasses
    Chain, MetaOf,  \* each class object and its ancestors; metaclass of each class
    Name, NameOf,   \* class names, and the one of each class
    Sel, Imp,
    Capacity,       \* CACHE_CAPACITY
    Loaded,         \* the classes that came with the binary,
    LoadedSubs,     \* the subclass lists the loader has wired
    LoadedImps,     \* and the methods they came with
    Nil,
    Asked,          \* bound: the class objects messages are sent to
    Implementing,   \* bound: the class objects that are given methods,
    Changeable,     \* and those of them whose methods change while in use
    RacyLookups,    \* messages are sent while a class is being changed
    RacyChanges     \* classes are changed by several threads at once

ASSUME CapacityIsPositive == Capacity \in Nat \ {0}
ASSUME ClassShape == /\ Meta \subseteq Class
                     /\ MetaOf \in [Class \ Meta -> Meta]
                     /\ NameOf \in [Class \ Meta -> Name]
ASSUME NilIsNothing == Nil \notin Class \cup Sel \cup Imp \cup Thread

\* The chain of a class on a chain is the rest of it; superclasses of classes
\* are classes, and the chain of a metaclass follows that of its class.
ASSUME ChainShape ==
    /\ Chain \in [Class -> Seq(Class)]
    /\ \A c \in Class : /\ c = Chain[c][1] /\ Chain[c] # <<>>
                        /\ \A i \in DOMAIN Chain[c] :
                             Chain[Chain[c][i]] = SubSeq(Chain[c], i, Len(Chain[c]))
    /\ \A c \in Class \ Meta :
          /\ \A i \in DOMAIN Chain[c] : Chain[c][i] \notin Meta
          /\ \A i \in DOMAIN Chain[MetaOf[c]] : \E j \in DOMAIN Chain[c] :
                Chain[MetaOf[c]][i] \in {Chain[c][j], MetaOf[Chain[c][j]]}

Super == [c \in Class |-> IF Len(Chain[c]) = 1 THEN Nil ELSE Chain[c][2]]

\* What the loader leaves behind: classes come with those above them, linked.
ASSUME LoadedShape ==
    /\ Loaded \subseteq Class \ Meta
    /\ LoadedSubs \in [Class -> SUBSET Class]
    /\ LoadedImps \in [Class -> [Sel -> Imp \cup {Nil}]]
    /\ \A c \in Loaded : /\ \A i \in DOMAIN Chain[c] : Chain[c][i] \in Loaded
                         /\ Super[c] # Nil => c \in LoadedSubs[Super[c]]

VARIABLES
    allocated,  \* the class objects that exist
    registry,   \* CLASS_REGISTRY: the class registered under each name
    flagged,    \* the class objects with the CLASS_REGISTERED flag
    subs,       \* the subclass list of each class object
    listed,     \* the selectors in the method list chain of each class object
    imps,       \* the IMP of each method entry
    cache,      \* the pairs in the method cache of each class object
    frame       \* what each thread is doing

vars == <<allocated, registry, flagged, subs, listed, imps, cache, frame>>
methods == <<listed, imps>>
classes == <<allocated, registry, flagged, subs>>

Idle == [op |-> "idle"]

Init ==
    /\ allocated = Loaded \cup {MetaOf[c] : c \in Loaded}
    /\ registry = [n \in Name |-> IF \E c \in Loaded : NameOf[c] = n
                                  THEN CHOOSE c \in Loaded : NameOf[c] = n ELSE Nil]
    /\ flagged = Loaded
    /\ subs = LoadedSubs
    /\ imps = LoadedImps
    /\ listed = [c \in Class |-> {s \in Sel : LoadedImps[c][s] # Nil}]
    /\ cache = [c \in Class |-> {}]
    /\ frame = [t \in Thread |-> Idle]

--------------------------------------------------------------------------------
(* Lookup.                                                                    *)

\* Where on its chain c gets s from, and the first class that implements it.
Hits(c, s) == {i \in DOMAIN Chain[c] : s \in listed[Chain[c][i]]}
Owner(c, s) ==
    IF Hits(c, s) = {} THEN Nil
    ELSE Chain[c][CHOOSE i \in Hits(c, s) : \A j \in Hits(c, s) : i <= j]

\* What class_lookup_method returns if nothing changes while it runs.
Resolve(c, s) == IF Owner(c, s) = Nil THEN Nil ELSE imps[Owner(c, s)][s]

CachedSels(c) == {e.sel : e \in cache[c]}

Busy(ops) == \E t \in Thread : frame[t].op \in ops
Looking == Busy({"walk", "fill"})
ChangingMethods == Busy({"add", "swap", "flush", "flushall"})
Building == Busy({"link"})

\* A thread starts a call.  No lock keeps lookups and changes of methods apart,
\* or changes from one another; the switches say whether the program does.
MayLook(t) == frame[t].op = "idle" /\ (RacyLookups \/ ~ChangingMethods)
MayBuild(t) == frame[t].op = "idle" /\ (RacyChanges \/ ~(ChangingMethods \/ Building))
MayChange(t) == MayBuild(t) /\ (RacyLookups \/ ~Looking)

\* Messages go to instances of registered classes and to the classes.
Receives(c) == c \in flagged \/ \E d \in flagged : MetaOf[d] = c

\* objc_msg_lookup finds s in the cache (and returns) or starts to walk.
Lookup(t, c, s) ==
    /\ MayLook(t) /\ c \in Asked /\ Receives(c)
    /\ s \notin CachedSels(c)
    /\ frame' = [frame EXCEPT ![t] = [op |-> "walk", cls |-> c, sel |-> s, at |-> c]]
    /\ UNCHANGED <<classes, methods, cache>>

\* Mutant: a walk that finds nothing fills the cache all the same.
WalkFillingMisses(t) ==
    LET f == frame[t] IN
    /\ f.op = "walk"
    /\ frame' = [frame EXCEPT ![t] =
           IF f.sel \notin listed[f.at] /\ Super[f.at] # Nil
           THEN [f EXCEPT !.at = Super[f.at]]
           ELSE [op |-> "fill", cls |-> f.cls, sel |-> f.sel, imp |-> imps[f.at][f.sel]]]
    /\ UNCHANGED <<classes, methods, cache>>

\* One class of class_lookup_method's walk.
Walk(t) ==
    LET f == frame[t] IN
    /\ f.op = "walk"
    /\ frame' = [frame EXCEPT ![t] =
           IF f.sel \in listed[f.at]
           THEN [op |-> "fill", cls |-> f.cls, sel |-> f.sel, imp |-> imps[f.at][f.sel]]
           ELSE IF Super[f.at] = Nil THEN Idle
           ELSE [f EXCEPT !.at = Super[f.at]]]
    /\ UNCHANGED <<classes, methods, cache>>

\* Mutant: the check for an entry another thread has put there is missing.
InsertedBlindly(entries, s, i) ==
    (IF Cardinality(entries) = Capacity THEN {} ELSE entries) \cup {[sel |-> s, imp |-> i]}

\* MethodCache::insert, under the cache's write lock.
Inserted(entries, s, i) ==
    IF \E e \in entries : e.sel = s THEN entries
    ELSE IF Cardinality(entries) = Capacity THEN {[sel |-> s, imp |-> i]}
    ELSE entries \cup {[sel |-> s, imp |-> i]}

\* The cache is filled with what the walk found.
Fill(t) ==
    LET f == frame[t] IN
    /\ f.op = "fill"
    /\ cache' = [cache EXCEPT ![f.cls] = Inserted(@, f.sel, f.imp)]
    /\ frame' = [frame EXCEPT ![t] = Idle]
    /\ UNCHANGED <<classes, methods>>

--------------------------------------------------------------------------------
(* Changing methods.                                                          *)

\* A class object may get its methods before it is in use.
Mutable(c) == c \in allocated \cap Implementing /\ (c \in Changeable \/ ~Receives(c))

Flushing(S) == [op |-> "flush", todo |-> S]

\* class_add_method of a new selector: a class whose flag is set gets a new list
\* in front of the chain it has just read; any other is changed in place, with
\* no flush.  A selector that is there already is refused, and nothing changes.
AddMethod(t, c, s, i) ==
    /\ MayChange(t) /\ Mutable(c)
    /\ s \notin listed[c]
    /\ IF c \in flagged
       THEN /\ frame' = [frame EXCEPT ![t] = [op |-> "add", cls |-> c, sel |-> s, imp |-> i,
                                              head |-> listed[c]]]
            /\ UNCHANGED methods
       ELSE /\ listed' = [listed EXCEPT ![c] = @ \cup {s}]
            /\ imps' = [imps EXCEPT ![c][s] = i]
            /\ UNCHANGED frame
    /\ UNCHANGED <<classes, cache>>

\* The new head is stored, and the flush begins.
LinkMethod(t) ==
    LET f == frame[t] IN
    /\ f.op = "add"
    /\ listed' = [listed EXCEPT ![f.cls] = f.head \cup {f.sel}]
    /\ imps' = [imps EXCEPT ![f.cls][f.sel] = f.imp]
    /\ frame' = [frame EXCEPT ![t] = Flushing({f.cls})]
    /\ UNCHANGED <<classes, cache>>

\* class_replace_method of a selector that is there.
ReplaceMethod(t, c, s, i) ==
    /\ MayChange(t) /\ Mutable(c)
    /\ s \in listed[c]
    /\ imps' = [imps EXCEPT ![c][s] = i]
    /\ frame' = [frame EXCEPT ![t] = Flushing({c})]
    /\ UNCHANGED <<classes, listed, cache>>

\* method_exchange_implementations: the first of the two writes ...
Exchange(t, c, s, d, r) ==
    /\ MayChange(t) /\ Mutable(c) /\ Mutable(d)
    /\ s \in listed[c] /\ r \in listed[d] /\ <<c, s>> # <<d, r>>
    /\ imps' = [imps EXCEPT ![c][s] = imps[d][r]]
    /\ frame' = [frame EXCEPT ![t] = [op |-> "swap", cls |-> d, sel |-> r, imp |-> imps[c][s]]]
    /\ UNCHANGED <<classes, listed, cache>>

\* ... and the second, after which the registry is read-locked for the flush.
FinishExchange(t) ==
    LET f == frame[t] IN
    /\ f.op = "swap"
    /\ imps' = [imps EXCEPT ![f.cls][f.sel] = f.imp]
    /\ frame' = [frame EXCEPT ![t] = [op |-> "flushall",
                                      todo |-> Range(registry) \ {Nil}]]
    /\ UNCHANGED <<classes, listed, cache>>

\* Mutants: the flush does not go on to the subclasses, or comes back to the
\* class it has flushed.
FlushOneOnly(t, c) ==
    LET f == frame[t] IN
    /\ f.op \in {"flush", "flushall"} /\ c \in f.todo
    /\ cache' = [cache EXCEPT ![c] = {}]
    /\ frame' = [frame EXCEPT ![t] = [f EXCEPT !.todo = @ \ {c}]]
    /\ UNCHANGED <<classes, methods>>
FlushOneAgain(t, c) ==
    LET f == frame[t] IN
    /\ f.op \in {"flush", "flushall"} /\ c \in f.todo
    /\ cache' = [cache EXCEPT ![c] = {}]
    /\ frame' = [frame EXCEPT ![t] = [f EXCEPT !.todo = @ \cup subs[c]]]
    /\ UNCHANGED <<classes, methods>>

\* flush_class_cache_tree flushes one cache and goes on to the subclasses.
FlushOne(t, c) ==
    LET f == frame[t] IN
    /\ f.op \in {"flush", "flushall"} /\ c \in f.todo
    /\ cache' = [cache EXCEPT ![c] = {}]
    /\ frame' = [frame EXCEPT ![t] = [f EXCEPT !.todo = (@ \ {c}) \cup subs[c]]]
    /\ UNCHANGED <<classes, methods>>

FlushDone(t) ==
    /\ frame[t].op \in {"flush", "flushall"} /\ frame[t].todo = {}
    /\ frame' = [frame EXCEPT ![t] = Idle]
    /\ UNCHANGED <<classes, methods, cache>>

--------------------------------------------------------------------------------
(* New classes.                                                               *)

\* objc_allocate_class_pair makes a class and its metaclass, reads the head of
\* the superclass's subclass list ...
AllocatePair(t, c) ==
    /\ MayBuild(t)
    /\ c \notin Meta \cup allocated
    /\ \A u \in Thread : frame[u].op = "link" => frame[u].cls # c
    /\ Super[c] # Nil => Super[c] \in flagged
    /\ IF Super[c] = Nil
       THEN allocated' = allocated \cup {c, MetaOf[c]} /\ UNCHANGED frame
       ELSE /\ frame' = [frame EXCEPT ![t] = [op |-> "link", cls |-> c, head |-> subs[Super[c]]]]
            /\ UNCHANGED allocated
    /\ UNCHANGED <<registry, flagged, subs, methods, cache>>

\* ... and stores the class in front of what it read.  The metaclass is not
\* put in any list.
LinkSubclass(t) ==
    LET f == frame[t] IN
    /\ f.op = "link"
    /\ subs' = [subs EXCEPT ![Super[f.cls]] = f.head \cup {f.cls}]
    /\ allocated' = allocated \cup {f.cls, MetaOf[f.cls]}
    /\ frame' = [frame EXCEPT ![t] = Idle]
    /\ UNCHANGED <<registry, flagged, methods, cache>>

\* objc_register_class_pair, under the write lock of the registry, which waits
\* for a flush of all caches to let go of its read lock.
RegisterPair(t, c) ==
    /\ MayBuild(t)
    /\ c \in allocated \ (Meta \cup flagged)
    /\ \A u \in Thread : frame[u].op # "flushall"
    /\ registry' = [registry EXCEPT ![NameOf[c]] = c]
    /\ flagged' = flagged \cup {c}
    /\ UNCHANGED <<allocated, subs, methods, cache, frame>>

--------------------------------------------------------------------------------
\* The entry points of src/lib.rs, but for those that only read.
Next ==
    \E t \in Thread :
        \/ \E c \in Class, s \in Sel : Lookup(t, c, s)
        \/ Walk(t) \/ Fill(t)
        \/ \E c \in Class, s \in Sel, i \in Imp : AddMethod(t, c, s, i) \/ ReplaceMethod(t, c, s, i)
        \/ \E c, d \in Class, s, r \in Sel : Exchange(t, c, s, d, r)
        \/ LinkMethod(t) \/ FinishExchange(t)
        \/ \E c \in Class : FlushOne(t, c)
        \/ FlushDone(t)
        \/ \E c \in Class : AllocatePair(t, c) \/ RegisterPair(t, c)
        \/ LinkSubclass(t)

Spec == Init /\ [][Next]_vars

\* A thread inside a call goes on.
FairSpec ==
    /\ Spec
    /\ \A t \in Thread :
          /\ WF_vars(Walk(t)) /\ WF_vars(Fill(t))
          /\ WF_vars(LinkMethod(t)) /\ WF_vars(FinishExchange(t)) /\ WF_vars(LinkSubclass(t))
          /\ WF_vars(FlushDone(t)) /\ WF_vars(\E c \in Class : FlushOne(t, c))

--------------------------------------------------------------------------------
(* Properties.                                                                *)

Frames ==
    {Idle}
    \cup [op : {"walk"}, cls : Class, sel : Sel, at : Class]
    \cup [op : {"fill"}, cls : Class, sel : Sel, imp : Imp]
    \cup [op : {"add"}, cls : Class, sel : Sel, imp : Imp, head : SUBSET Sel]
    \cup [op : {"swap"}, cls : Class, sel : Sel, imp : Imp]
    \cup [op : {"flush", "flushall"}, todo : SUBSET Class]
    \cup [op : {"link"}, cls : Class \ Meta, head : SUBSET Class]

TypeOK ==
    /\ allocated \subseteq Class
    /\ registry \in [Name -> Class \cup {Nil}]
    /\ flagged \subseteq Class \ Meta
    /\ subs \in [Class -> SUBSET Class]
    /\ listed \in [Class -> SUBSET Sel]
    /\ imps \in [Class -> [Sel -> Imp \cup {Nil}]]
    /\ cache \in [Class -> SUBSET [sel : Sel, imp : Imp]]
    /\ frame \in [Thread -> Frames]

\* What the flush of c reaches: the classes linked below it, itself included.
Subtree(c) ==
    {d \in Class : \E i \in DOMAIN Chain[d] :
        /\ Chain[d][i] = c
        /\ \A j \in 1 .. i - 1 : Chain[d][j] \in subs[Chain[d][j + 1]]}

\* The classes a thread in the middle of a change has yet to flush.
ToFlush(t) ==
    CASE frame[t].op \in {"flush", "flushall"} -> frame[t].todo
      [] frame[t].op = "swap" -> Range(registry) \ {Nil}
      [] OTHER -> {}

\* A cached IMP is the one the class hierarchy gives: an entry that a change
\* has made wrong is about to be flushed by the thread that made the change,
\* through every level of subclasses and every eviction (class_add_method,
\* class_replace_method, method_exchange_implementations: a message sent after
\* they return runs the new method).
CachesCoherent ==
    \A c \in Class : (\E e \in cache[c] : e.imp # Resolve(c, e.sel))
        => \E t \in Thread : \E d \in ToFlush(t) : c \in Subtree(d)

\* A cache holds at most one entry for a selector and never outgrows its
\* capacity, whichever threads fill it at once (MethodCache::insert).
CachesSound ==
    \A c \in Class :
        /\ Cardinality(cache[c]) <= Capacity
        /\ \A e, f \in cache[c] : e.sel = f.sel => e = f

\* Every lookup and every change of a class returns, flushes of the whole tree
\* and of all caches included, whatever other threads cache, change and link
\* below the classes that are being flushed (flush_class_cache_tree).
CallsEnd == \A t \in Thread : frame[t].op # "idle" ~> frame[t].op = "idle"
--------------------------------------------------------------------------------
(* What DispatchProofs needs.  A message sent after a change is sure to see   *)
(* it if the program keeps lookups and changes apart, and changes no class    *)
(* object that a flush does not lead down from: metaclasses, which no list    *)
(* has, and the classes above them; or a displaced class that is a root.      *)

RulesKept ==
    /\ ~RacyLookups /\ ~RacyChanges
    /\ \A m \in Meta : \A i \in DOMAIN Chain[m] : Chain[m][i] \notin Changeable
    /\ \A c, d \in Class \ Meta : Super[c] = Nil /\ NameOf[c] = NameOf[d] => c = d

\* Every listed selector has an IMP, and so will what is about to be listed.
ListedHaveImps ==
    /\ \A c \in Class : \A s \in listed[c] : imps[c][s] # Nil
    /\ \A t \in Thread : frame[t].op = "add" => \A s \in frame[t].head : imps[frame[t].cls][s] # Nil

\* Every class that exists is where a flush from above finds it.
Linked ==
    /\ flagged \subseteq allocated
    /\ \A c \in allocated \ Meta :
          /\ Super[c] # Nil => c \in subs[Super[c]]
          /\ \A i \in DOMAIN Chain[c] : i # 1 => Chain[c][i] \in flagged
    /\ \A c \in flagged : Super[c] = Nil => registry[NameOf[c]] = c

\* One thread changes classes at a time, and meanwhile no other looks methods up.
Changing(t) == frame[t].op \in {"add", "swap", "flush", "flushall"}
OneChange ==
    \A t, u \in Thread : (Changing(t) \/ frame[t].op = "link") /\ (Changing(u) \/ frame[u].op = "link")
        => t = u
LookupsApart == \A t, u \in Thread : ~(Changing(t) /\ frame[u].op \in {"walk", "fill"})

\* What a list head was when it was read, it still is, and what may be changed
\* may still be changed.
HeadsCurrent ==
    \A t \in Thread :
        LET f == frame[t] IN
        /\ f.op = "add" => f.cls \in flagged /\ f.head = listed[f.cls]
        /\ f.op = "link" => Super[f.cls] \in flagged /\ f.head = subs[Super[f.cls]]
        /\ f.op \in {"add", "swap"} => Mutable(f.cls)

\* What a lookup is about to find or to cache is what the hierarchy gives; only
\* what receives messages is looked up or has anything in its cache.
OnCourse(f) ==
    /\ f.op \in {"walk", "fill"} => Receives(f.cls)
    /\ f.op = "walk" => \E i \in DOMAIN Chain[f.cls] :
                          f.at = Chain[f.cls][i] /\ \A j \in Hits(f.cls, f.sel) : i <= j
    /\ f.op = "fill" => f.imp = Resolve(f.cls, f.sel)
LookupsCurrent ==
    /\ \A c \in Class : cache[c] # {} => Receives(c)
    /\ \A t \in Thread : OnCourse(frame[t])

\* Inductive under RulesKept.
DInv ==
    /\ TypeOK
    /\ ListedHaveImps
    /\ Linked
    /\ OneChange
    /\ LookupsApart
    /\ HeadsCurrent
    /\ LookupsCurrent
    /\ CachesCoherent
================================================================================
