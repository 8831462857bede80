---------------------------------- MODULE Loader -------------------------------
(***************************************************************************)
(* __objc_load of src/loader.rs: the selectors and then the classes of     *)
(* each binary image, patched in place and registered, while other threads *)
(* register selectors (Selectors).                                         *)
(*                                                                         *)
(* The dynamic linker runs one __objc_load at a time, and that of an image *)
(* after those of the images it needs; the order of the classes within a   *)
(* section is the compiler's and linker's, so any order is tried.  A step  *)
(* patches one class object, or reads or writes one subclass list head.    *)
(***************************************************************************)
EXTENDS Selectors, SequencesExt

CONSTANTS
    Image,
    Class,              \* class objects, metaclasses among them
    Meta,               \* the metaclasses
    MetaOf, SuperOf,    \* of each class that is none, as the linker has resolved them
    ImageOf,            \* the image each such class is in
    Section,            \* the compiled selectors of each image
    MethodSels,         \* and those in the compiled method list of each class object
    CompiledSize,       \* instance_size of each class object, as compiled
    ObjectSize          \* size_of::<ObjcObject>()

ASSUME ImageShape ==
    /\ IsFiniteSet(Class) /\ Meta \subseteq Class /\ Nil \notin Class
    /\ MetaOf \in [Class \ Meta -> Meta]
    /\ \A c, d \in Class \ Meta : MetaOf[c] = MetaOf[d] => c = d
    /\ SuperOf \in [Class \ Meta -> (Class \ Meta) \cup {Nil}]
    /\ ImageOf \in [Class \ Meta -> Image]
    /\ Section \in [Image -> SUBSET Compiled]
    /\ MethodSels \in [Class -> SUBSET Compiled]
    /\ \A c \in Class \ Meta : MethodSels[c] \cup MethodSels[MetaOf[c]] \subseteq Section[ImageOf[c]]
ASSUME SizeShape == CompiledSize \in [Class -> Int] /\ ObjectSize \in Nat \ {0}

\* The root class above c, where f gives the superclass of each class.
RootAbove(f, c) ==
    LET up[d \in Class \ Meta] == IF f[d] = Nil THEN d ELSE up[f[d]]
    IN up[c]

\* The root class above c in the program.
RootOf(c) == RootAbove(SuperOf, c)

\* There is no cycle of superclasses: of any classes there is one
\* whose superclass is not among them.
ASSUME NoCycle ==
    \A S \in SUBSET (Class \ Meta) : S # {} => \E c \in S : SuperOf[c] \notin S

VARIABLES
    isa, super,     \* the fields of each class object;
    size,           \* instance_size,
    methodList,     \* and whether method_list is null, compiled or converted
    cached,         \* the class objects that have a method cache
    subclassList,   \* head of the list of subclasses of each class object,
    sibling,        \* threaded through these
    registered,     \* the classes in CLASS_REGISTRY, with their flag
    loaded,         \* the images whose __objc_load has returned
    job             \* how far the running __objc_load is

loadVars == <<isa, super, size, methodList, cached, subclassList, sibling, registered, loaded, job>>
vars == <<selVars, loadVars>>
lists == <<subclassList, sibling>>
fields == <<isa, super, size, methodList, cached>>

NoJob == [image |-> Nil, step |-> "none", cls |-> Nil, wire |-> <<>>]

Init ==
    /\ SelInit
    /\ isa = [c \in Class |-> IF c \in Meta THEN Nil ELSE MetaOf[c]]
    /\ super = [c \in Class |-> IF c \in Meta THEN Nil ELSE SuperOf[c]]
    /\ size = CompiledSize
    /\ methodList = [c \in Class |-> IF MethodSels[c] = {} THEN "null" ELSE "compiled"]
    /\ cached = {}
    /\ subclassList = [c \in Class |-> Nil] /\ sibling = [c \in Class |-> Nil]
    /\ registered = {} /\ loaded = {}
    /\ job = NoJob

--------------------------------------------------------------------------------
ClassesOf(i) == {c \in Class \ Meta : ImageOf[c] = i}

\* The dynamic linker calls __objc_load for an image.
Load(i) ==
    /\ job = NoJob /\ i \notin loaded
    /\ \A c \in ClassesOf(i) : SuperOf[c] # Nil => ImageOf[SuperOf[c]] \in loaded \cup {i}
    /\ job' = [NoJob EXCEPT !.image = i, !.step = "selectors"]
    /\ UNCHANGED <<selVars, fields, lists, registered, loaded>>

FixUpSelector(s) ==
    /\ job.step = "selectors" /\ s \in Section[job.image]
    /\ FixUp(s)
    /\ UNCHANGED loadVars

\* Mutant: the classes are begun while selectors are still to be fixed up.
SelectorsBegun == job.step \in {"selectors", "classes"}

\* load_classes is called when load_selectors has returned.
SelectorsDone == job.step \in {"selectors", "classes"} /\ Section[job.image] \subseteq fixedUp

\* What patch_class makes of instance_size and of the method list.
PatchedSize(c) ==
    IF size[c] < 0 THEN -size[c]
    ELSE IF size[c] = 0 /\ super[c] = Nil THEN ObjectSize ELSE size[c]

Converted(c) == IF methodList[c] = "compiled" THEN "runtime" ELSE "null"

\* Mutant: the list of subclasses is cleared as in a class made at run time.
PatchClearing(c) ==
    /\ size' = [size EXCEPT ![c] = PatchedSize(c)]
    /\ methodList' = [methodList EXCEPT ![c] = Converted(c)]
    /\ cached' = cached \cup {c}
    /\ subclassList' = [subclassList EXCEPT ![c] = Nil]
    /\ UNCHANGED sibling

Patch(c) ==
    /\ size' = [size EXCEPT ![c] = PatchedSize(c)]
    /\ methodList' = [methodList EXCEPT ![c] = Converted(c)]
    /\ cached' = cached \cup {c}
    /\ UNCHANGED lists

\* Mutant: a class waits for its superclass, and a root class for Nil.
PatchClassInOrder(c) ==
    /\ SelectorsDone
    /\ c \in ClassesOf(job.image) \ registered /\ super[c] \in registered
    /\ Patch(c)
    /\ job' = [job EXCEPT !.step = "meta", !.cls = c]
    /\ UNCHANGED <<selVars, isa, super, registered, loaded>>

\* load_classes comes to a class ...
PatchClass(c) ==
    /\ SelectorsDone
    /\ c \in ClassesOf(job.image) \ registered
    /\ Patch(c)
    /\ job' = [job EXCEPT !.step = "meta", !.cls = c]
    /\ UNCHANGED <<selVars, isa, super, registered, loaded>>

\* The root class above c, by the super_class fields.
Root(c) == RootAbove(Restrict(super, Class \ Meta), c)

\* The class objects of a pair that go in a list: a root class has no
\* superclass, and a root metaclass, whose superclass is the root class and so
\* no metaclass, is skipped.
ToWire(c) == IF super[c] = Nil THEN <<>> ELSE <<c, isa[c]>>

\* Mutant: the isa of the superclass's metaclass is taken, fixed or not.
PatchMetaFromSuper ==
    LET c == job.cls
        m == isa[c] IN
    /\ job.step = "meta"
    /\ Patch(m)
    /\ isa' = [isa EXCEPT ![m] = IF super[c] = Nil THEN m ELSE isa[isa[super[c]]]]
    /\ super' = [super EXCEPT ![m] = IF super[c] = Nil THEN c ELSE isa[super[c]]]
    /\ job' = [job EXCEPT !.step = "wire", !.wire = ToWire(c)]
    /\ UNCHANGED <<selVars, registered, loaded>>

\* ... patches its metaclass, and gives it its place in the chain.
PatchMeta ==
    LET c == job.cls
        m == isa[c] IN
    /\ job.step = "meta"
    /\ Patch(m)
    /\ isa' = [isa EXCEPT ![m] = IF super[c] = Nil THEN m ELSE isa[Root(c)]]
    /\ super' = [super EXCEPT ![m] = IF super[c] = Nil THEN c ELSE isa[super[c]]]
    /\ job' = [job EXCEPT !.step = "wire", !.wire = ToWire(c)]
    /\ UNCHANGED <<selVars, registered, loaded>>

\* Mutant: the sibling is left as it is compiled.
SetSiblingNot ==
    /\ job.step = "wire" /\ job.wire # <<>>
    /\ job' = [job EXCEPT !.step = "head"]
    /\ UNCHANGED <<selVars, fields, lists, registered, loaded>>

\* The class, and then the metaclass, goes in front of the list above it: it
\* gets the head of the list as its sibling ...
SetSibling ==
    /\ job.step = "wire" /\ job.wire # <<>>
    /\ LET x == Head(job.wire) IN sibling' = [sibling EXCEPT ![x] = subclassList[super[x]]]
    /\ job' = [job EXCEPT !.step = "head"]
    /\ UNCHANGED <<selVars, fields, subclassList, registered, loaded>>

\* ... and becomes the head.
SetHead ==
    /\ job.step = "head"
    /\ LET x == Head(job.wire) IN subclassList' = [subclassList EXCEPT ![super[x]] = x]
    /\ job' = [job EXCEPT !.step = "wire", !.wire = Tail(@)]
    /\ UNCHANGED <<selVars, fields, sibling, registered, loaded>>

\* Mutant: the metaclass is registered.
RegisterMeta ==
    /\ job.step = "wire" /\ job.wire = <<>>
    /\ registered' = registered \cup {isa[job.cls]}
    /\ job' = [job EXCEPT !.step = "classes"]
    /\ UNCHANGED <<selVars, fields, lists, loaded>>

\* register_loaded_class, under the write lock of the registry.
RegisterLoaded ==
    /\ job.step = "wire" /\ job.wire = <<>>
    /\ registered' = registered \cup {job.cls}
    /\ job' = [job EXCEPT !.step = "classes"]
    /\ UNCHANGED <<selVars, fields, lists, loaded>>

LoadDone ==
    /\ SelectorsDone
    /\ ClassesOf(job.image) \subseteq registered
    /\ loaded' = loaded \cup {job.image}
    /\ job' = NoJob
    /\ UNCHANGED <<selVars, fields, lists, registered>>

LoadStep ==
    \/ \E s \in Compiled : FixUpSelector(s)
    \/ \E c \in Class \ Meta : PatchClass(c)
    \/ PatchMeta \/ SetSibling \/ SetHead \/ RegisterLoaded \/ LoadDone

Next ==
    \/ \E i \in Image : Load(i)
    \/ LoadStep
    \/ \E t \in Thread : Register(t) /\ UNCHANGED loadVars

Spec == Init /\ [][Next]_vars

\* __objc_load goes on, and so does a thread that registers a selector.
FairSpec == Spec /\ WF_vars(LoadStep) /\ SelFairness

--------------------------------------------------------------------------------
(* Properties.                                                                *)

TypeOK ==
    /\ SelTypeOK
    /\ isa \in [Class -> Class \cup {Nil}] /\ super \in [Class -> Class \cup {Nil}]
    /\ size \in [Class -> Int]
    /\ methodList \in [Class -> {"null", "compiled", "runtime"}]
    /\ cached \subseteq Class
    /\ subclassList \in [Class -> Class \cup {Nil}] /\ sibling \in [Class -> Class \cup {Nil}]
    /\ registered \subseteq Class \ Meta
    /\ loaded \subseteq Image
    /\ job \in [image : Image \cup {Nil}, step : {"none", "selectors", "meta", "wire", "head", "classes"},
               cls : Class \cup {Nil}, wire : BoundedSeq(Class, 2)]

\* The class object in whose list of subclasses the program has c.
Parent(c) ==
    IF c \notin Meta THEN SuperOf[c]
    ELSE LET d == CHOOSE d \in Class \ Meta : MetaOf[d] = c
         IN IF SuperOf[d] = Nil THEN Nil ELSE MetaOf[SuperOf[d]]

\* The list of subclasses of c, cut off when it is too long to be one.
Subclasses(c) ==
    LET from[n \in 0 .. Cardinality(Class)] ==
            [d \in Class \cup {Nil} |->
                IF n = 0 \/ d = Nil THEN <<>> ELSE <<d>> \o from[n - 1][sibling[d]]]
    IN from[Cardinality(Class)][subclassList[c]]

Patched(d) == d \in cached /\ size[d] >= 0 /\ methodList[d] # "compiled"

\* A registered class can be found by name and used: it and its metaclass are
\* patched, and every selector of their methods is fixed up; and when no
\* image is being loaded, so are the classes above it (load_classes,
\* register_loaded_class's "fully-patched").
RegisteredIsReady ==
    \A c \in registered :
        /\ \A d \in {c, MetaOf[c]} : Patched(d) /\ MethodSels[d] \subseteq fixedUp
        /\ job = NoJob /\ SuperOf[c] # Nil => SuperOf[c] \in registered

MetaInPlace(c) ==
    /\ super[MetaOf[c]] = IF SuperOf[c] = Nil THEN c ELSE MetaOf[SuperOf[c]]
    /\ isa[MetaOf[c]] = MetaOf[RootOf(c)]

\* The metaclass chain of a registered class is complete, whichever of its
\* superclasses come after it in the section: it goes up beside the classes to
\* the root class, and every metaclass is an instance of the root metaclass
\* (load_classes, "The runtime must fix up the full metaclass chain").
ChainComplete ==
    \A c \in registered :
        isa[c] = MetaOf[c] /\ super[c] = SuperOf[c] /\ MetaInPlace(c)

\* The class objects load_classes has put in the lists above them.
Linked ==
    {c \in Class : c \in registered \/ \E d \in registered : MetaOf[d] = c}
    \cup IF job.step \in {"wire", "head"}
         THEN {job.cls, MetaOf[job.cls]} \ ToSet(job.wire) ELSE {}

\* Between any two writes every list of subclasses ends, and holds once each
\* class object the loader has put below, whatever the order of the section:
\* a flush that follows the lists reaches them all (load_classes, "Wire class
\* into superclass's subclass list for cache invalidation").
ListsFollowHierarchy ==
    \A c \in Class :
        /\ IsInjective(Subclasses(c))
        /\ ToSet(Subclasses(c)) = {d \in Linked : Parent(d) = c}

\* Loading leaves the classes that are in use alone, but for what it puts in
\* front of their lists of subclasses.
LoadedStays ==
    [][\A c \in registered : \A d \in {c, MetaOf[c]} :
        /\ isa'[d] = isa[d] /\ super'[d] = super[d] /\ size'[d] = size[d]
        /\ methodList'[d] = methodList[d] /\ d \in cached'
        /\ IsSuffix(Subclasses(d), Subclasses(d)')]_vars

\* Every __objc_load returns.
LoadEnds == job # NoJob ~> job = NoJob

--------------------------------------------------------------------------------
(* What LoaderProofs needs beside RegisteredIsReady and ChainComplete.        *)

\* The job says how far __objc_load is with the class it has come to.
JobFits ==
    /\ IF job.step = "none" THEN job = NoJob ELSE job.image \in Image
    /\ job.step \in {"meta", "wire", "head"} =>
          job.cls \in ClassesOf(job.image) \ registered /\ Section[job.image] \subseteq fixedUp
    /\ job.step \in {"wire", "head"} =>
          /\ job.wire \in {<<>>, <<MetaOf[job.cls]>>, <<job.cls, MetaOf[job.cls]>>}
          /\ job.wire # <<>> => SuperOf[job.cls] # Nil
    /\ job.step = "head" => job.wire # <<>>

\* Images are loaded after those they need, and whole.
ImagesInOrder ==
    LET started == loaded \cup IF job.step = "none" THEN {} ELSE {job.image} IN
    /\ \A c \in registered : ImageOf[c] \in started
    /\ \A c \in Class \ Meta : /\ ImageOf[c] \in loaded => c \in registered
                               /\ ImageOf[c] \in started /\ SuperOf[c] # Nil =>
                                     ImageOf[SuperOf[c]] \in loaded \cup {ImageOf[c]}

\* The fields of classes, which the linker has resolved, are left alone.
ClassFieldsKept == \A c \in Class \ Meta : isa[c] = MetaOf[c] /\ super[c] = SuperOf[c]

\* What has been patched stays so until the class is registered, and after.
PatchedSoFar ==
    /\ \A c \in registered : \A d \in {c, MetaOf[c]} : Patched(d) /\ MethodSels[d] \subseteq fixedUp
    /\ job.step \in {"meta", "wire", "head"} => Patched(job.cls)
    /\ job.step \in {"wire", "head"} => Patched(MetaOf[job.cls])
MetasSoFar ==
    /\ \A c \in registered : MetaInPlace(c)
    /\ job.step \in {"wire", "head"} => MetaInPlace(job.cls)

FieldsInv ==
    TypeOK /\ JobFits /\ ImagesInOrder /\ ClassFieldsKept /\ PatchedSoFar /\ MetasSoFar

\* l is the list that begins with d and goes on with the siblings s.
IsList(l, s, d) ==
    /\ l \in Seq(Class)
    /\ d = IF l = <<>> THEN Nil ELSE l[1]
    /\ \A i \in 1 .. Len(l) : s[l[i]] = IF i = Len(l) THEN Nil ELSE l[i + 1]

\* The lists end, and what is about to become the head of one leads to it.
ListsWired ==
    /\ ListsFollowHierarchy
    /\ \A c \in Class : IsList(Subclasses(c), sibling, subclassList[c])
    /\ job.step = "head" =>
          sibling[Head(job.wire)] = subclassList[super[Head(job.wire)]]

\* Inductive.
LInv == FieldsInv /\ ListsWired
================================================================================
