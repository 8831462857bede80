------------------------------ MODULE LoaderProofs -----------------------------
(* Loading images is a way of using the selector tables: what is proved of    *)
(* Selectors holds while any number of images of any shape are loaded.        *)
EXTENDS Loader, SelectorsProofs, FiniteSetTheorems, WellFoundedInduction

LEMMA LoaderStep == [Next]_vars => [SelNext]_selVars
<1> SUFFICES ASSUME [Next]_vars PROVE [SelNext]_selVars
  OBVIOUS
<1>1. CASE \E i \in Image : Load(i)
  BY <1>1 DEF Load
<1>2. CASE LoadStep
  <2>1. CASE \E s \in Compiled : FixUpSelector(s)
    BY <2>1 DEF FixUpSelector, SelNext
  <2>2. CASE \E c \in Class \ Meta : PatchClass(c)
    BY <2>2 DEF PatchClass
  <2>3. CASE PatchMeta \/ SetSibling \/ SetHead
    BY <2>3 DEF PatchMeta, SetSibling, SetHead
  <2>4. CASE RegisterLoaded \/ LoadDone
    BY <2>4 DEF RegisterLoaded, LoadDone
  <2> QED BY <1>2, <2>1, <2>2, <2>3, <2>4 DEF LoadStep
<1>3. CASE \E t \in Thread : Register(t) /\ UNCHANGED loadVars
  BY <1>3 DEF SelNext
<1>4. CASE UNCHANGED vars
  BY <1>4 DEF vars
<1> QED BY <1>1, <1>2, <1>3, <1>4 DEF Next

\* Every behaviour of the loader is one of the selector tables (__objc_load,
\* load_selectors).
THEOREM LoaderUsesSelectors == Spec => SelSpec
<1>1. Init => SelInit
  BY DEF Init
<1> QED BY <1>1, LoaderStep, PTL DEF Spec, SelSpec

\* Selectors are equal if and only if their names are, and what was handed out
\* stays, while images are loaded and threads register selectors (sel_eq,
\* intern_selector_name, load_selectors).
THEOREM LoadedSelectors == Spec => []EqualIffSameName /\ InternedStays
BY LoaderUsesSelectors, EqualSelectors, HandedOutStays, PTL

--------------------------------------------------------------------------------
\* The fields of the job are of the kinds TypeOK gives.
LEMMA JobFields ==
    ASSUME TypeOK
    PROVE  /\ job = [image |-> job.image, step |-> job.step, cls |-> job.cls, wire |-> job.wire]
           /\ job.image \in Image \cup {Nil}
           /\ job.step \in {"none", "selectors", "meta", "wire", "head", "classes"}
           /\ job.cls \in Class \cup {Nil}
           /\ job.wire \in BoundedSeq(Class, 2)
BY DEF TypeOK

\* The lists of class objects still to be wired.
LEMMA Wires ==
    /\ <<>> \in BoundedSeq(Class, 2)
    /\ \A x \in Class : <<x>> \in BoundedSeq(Class, 2) /\ Head(<<x>>) = x /\ Tail(<<x>>) = <<>>
    /\ \A x, y \in Class : /\ <<x, y>> \in BoundedSeq(Class, 2)
                           /\ Head(<<x, y>>) = x /\ Tail(<<x, y>>) = <<y>>
<1>1. <<>> \in [1 .. 0 -> Class]
  OBVIOUS
<1>2. \A x \in Class : <<x>> \in [1 .. 1 -> Class] /\ Head(<<x>>) = x /\ Tail(<<x>>) = <<>>
  OBVIOUS
<1>3. \A x, y \in Class : /\ <<x, y>> \in [1 .. 2 -> Class]
                          /\ Head(<<x, y>>) = x /\ Tail(<<x, y>>) = <<y>>
  OBVIOUS
<1>4. \A k \in 0 .. 2 : [1 .. k -> Class] \subseteq BoundedSeq(Class, 2)
  BY DEF BoundedSeq, SeqOf
<1>5. 0 \in 0 .. 2 /\ 1 \in 0 .. 2 /\ 2 \in 0 .. 2
  OBVIOUS
<1> QED BY <1>1, <1>2, <1>3, <1>4, <1>5

\* A class and its metaclass, and what may be on its way into the lists.
LEMMA JobClass ==
    ASSUME TypeOK, JobFits, ClassFieldsKept, job.step \in {"meta", "wire", "head"}
    PROVE  /\ job.image \in Image
           /\ job.cls \in Class \ Meta /\ ImageOf[job.cls] = job.image /\ job.cls \notin registered
           /\ isa[job.cls] = MetaOf[job.cls] /\ MetaOf[job.cls] \in Meta /\ MetaOf[job.cls] \in Class
           /\ super[job.cls] = SuperOf[job.cls]
           /\ SuperOf[job.cls] # Nil =>
                 /\ SuperOf[job.cls] \in Class \ Meta /\ MetaOf[SuperOf[job.cls]] \in Class
                 /\ isa[SuperOf[job.cls]] = MetaOf[SuperOf[job.cls]]
BY ImageShape DEF JobFits, ClassesOf, ClassFieldsKept

\* Steps of the selector tables only add to what is fixed up.
LEMMA FixedUpGrows == [SelNext]_selVars => fixedUp \subseteq fixedUp'
<1> SUFFICES ASSUME [SelNext]_selVars PROVE fixedUp \subseteq fixedUp'
  OBVIOUS
<1>1. CASE \E s \in Compiled : FixUp(s)
  BY <1>1 DEF FixUp
<1>2. CASE \E t \in Thread : Register(t)
  BY <1>2 DEF Register, StartRegister, InternHeld, Publish
<1>3. CASE UNCHANGED selVars
  BY <1>3 DEF selVars
<1> QED BY <1>1, <1>2, <1>3 DEF SelNext

LEMMA FieldsInvInit == Init /\ SelTypeOK => FieldsInv
<1> SUFFICES ASSUME Init, SelTypeOK PROVE FieldsInv
  OBVIOUS
<1>1. TypeOK
  BY Wires, ImageShape, SizeShape DEF Init, TypeOK, NoJob
<1>2. job.step = "none" /\ job = NoJob
  BY DEF Init, NoJob
<1>3. JobFits /\ ImagesInOrder /\ ClassFieldsKept /\ PatchedSoFar /\ MetasSoFar
  BY <1>2 DEF Init, JobFits, ImagesInOrder, ClassFieldsKept, PatchedSoFar, MetasSoFar
<1> QED BY <1>1, <1>3 DEF FieldsInv

\* A step of the selector tables alone.
LEMMA SelectorsStep ==
    ASSUME FieldsInv, SelTypeOK', fixedUp \subseteq fixedUp', UNCHANGED loadVars
    PROVE  FieldsInv'
BY DEF FieldsInv, TypeOK, JobFits, ImagesInOrder, ClassFieldsKept, PatchedSoFar, MetasSoFar, Patched,
       MetaInPlace, ClassesOf, loadVars

LEMMA LoadBegins ==
    ASSUME FieldsInv, SelTypeOK', NEW i \in Image, Load(i)
    PROVE  FieldsInv'
<1>1. job.step = "none" /\ job'.step = "selectors" /\ job'.image = i
  BY DEF Load, NoJob
<1>2. TypeOK'
  BY Wires DEF FieldsInv, TypeOK, Load, NoJob, fields, lists
<1>3. JobFits'
  BY <1>1 DEF JobFits, Load
<1>4. ImagesInOrder'
  BY <1>1 DEF FieldsInv, ImagesInOrder, Load, ClassesOf
<1>5. ClassFieldsKept' /\ PatchedSoFar' /\ MetasSoFar'
  BY <1>1 DEF FieldsInv, ClassFieldsKept, PatchedSoFar, MetasSoFar, Patched, MetaInPlace, Load, fields, selVars
<1> QED BY <1>2, <1>3, <1>4, <1>5 DEF FieldsInv

\* patch_class leaves a class object as it has to be, and the others alone.
LEMMA Patches ==
    ASSUME TypeOK, NEW c \in Class, Patch(c)
    PROVE  /\ size' \in [Class -> Int]
           /\ methodList' \in [Class -> {"null", "compiled", "runtime"}]
           /\ cached' \subseteq Class
           /\ UNCHANGED <<subclassList, sibling>>
           /\ Patched(c)'
           /\ \A d \in Class : Patched(d) => Patched(d)'
<1>1. PatchedSize(c) \in Nat /\ Converted(c) \in {"null", "runtime"}
  BY SizeShape DEF TypeOK, PatchedSize, Converted
<1>2. size[c] \in Int
  BY DEF TypeOK
<1> QED BY <1>1, <1>2 DEF TypeOK, Patch, Patched, lists

LEMMA ClassPatched ==
    ASSUME FieldsInv, SelTypeOK', NEW c \in Class \ Meta, PatchClass(c)
    PROVE  FieldsInv'
<1>1. /\ job.step \in {"selectors", "classes"} /\ job.image \in Image
      /\ Section[job.image] \subseteq fixedUp /\ c \in ClassesOf(job.image) \ registered
  BY DEF FieldsInv, JobFits, PatchClass, SelectorsDone
<1>2. job'.step = "meta" /\ job'.cls = c /\ job'.image = job.image /\ job'.wire = job.wire
  BY JobFields DEF FieldsInv, PatchClass
<1>3. /\ UNCHANGED <<isa, super, registered, loaded, fixedUp, subclassList, sibling>>
      /\ Patched(c)' /\ \A d \in Class : Patched(d) => Patched(d)'
  BY Patches DEF PatchClass, FieldsInv, selVars
<1>4. TypeOK'
  <2>1. job' \in [image : Image \cup {Nil},
                  step : {"none", "selectors", "meta", "wire", "head", "classes"},
                  cls : Class \cup {Nil}, wire : BoundedSeq(Class, 2)]
    BY JobFields DEF FieldsInv, PatchClass
  <2> QED BY <2>1, <1>3, Patches DEF FieldsInv, TypeOK, PatchClass
<1>5. JobFits'
  BY <1>1, <1>2, <1>3 DEF JobFits, ClassesOf
<1>6. ImagesInOrder' /\ ClassFieldsKept'
  BY <1>1, <1>2, <1>3 DEF FieldsInv, ImagesInOrder, ClassFieldsKept
<1>7. PatchedSoFar'
  BY <1>2, <1>3, ImageShape DEF FieldsInv, TypeOK, PatchedSoFar
<1>8. MetasSoFar'
  BY <1>2, <1>3 DEF FieldsInv, MetasSoFar, MetaInPlace
<1> QED BY <1>4, <1>5, <1>6, <1>7, <1>8 DEF FieldsInv

\* Every class has one root class above it: a class with no superclass that is
\* in all sets the class is in that have the superclasses of their members.
UpClosed(S) == \A c \in S : SuperOf[c] # Nil => SuperOf[c] \in S

IsRootOf(r, c) ==
    /\ r \in Class \ Meta /\ SuperOf[r] = Nil
    /\ \A S \in SUBSET (Class \ Meta) : c \in S /\ UpClosed(S) => r \in S

LEMMA OneRoot ==
    /\ \A r : \A c \in Class \ Meta : SuperOf[c] = Nil => (IsRootOf(r, c) <=> r = c)
    /\ \A r : \A c \in Class \ Meta : SuperOf[c] # Nil => (IsRootOf(r, c) <=> IsRootOf(r, SuperOf[c]))
    /\ \A c \in Class \ Meta : \E r : IsRootOf(r, c)
<1>1. ASSUME NEW c \in Class \ Meta, NEW r, SuperOf[c] = Nil
      PROVE  IsRootOf(r, c) <=> r = c
  <2>1. {c} \in SUBSET (Class \ Meta) /\ UpClosed({c})
    BY <1>1 DEF UpClosed
  <2>2. IsRootOf(r, c) => r = c
    BY <2>1 DEF IsRootOf
  <2>3. IsRootOf(c, c)
    BY <1>1 DEF IsRootOf
  <2> QED BY <2>2, <2>3
<1>2. ASSUME NEW c \in Class \ Meta, NEW r, SuperOf[c] # Nil
      PROVE  IsRootOf(r, c) <=> IsRootOf(r, SuperOf[c])
  <2> SUFFICES ASSUME NEW p, p = SuperOf[c] PROVE IsRootOf(r, c) <=> IsRootOf(r, p)
    OBVIOUS
  <2>1. p \in Class \ Meta /\ p # Nil
    BY <1>2, ImageShape
  <2>2. ASSUME IsRootOf(r, p) PROVE IsRootOf(r, c)
    <3>1. ASSUME NEW S \in SUBSET (Class \ Meta), c \in S, UpClosed(S) PROVE r \in S
      <4>1. p \in S
        BY <2>1, <3>1 DEF UpClosed
      <4> QED BY <2>2, <3>1, <4>1 DEF IsRootOf
    <3> QED BY <2>2, <3>1 DEF IsRootOf
  <2>3. ASSUME IsRootOf(r, c) PROVE IsRootOf(r, p)
    <3>1. ASSUME NEW S \in SUBSET (Class \ Meta), p \in S, UpClosed(S) PROVE r \in S
      <4>1. S \cup {c} \in SUBSET (Class \ Meta) /\ UpClosed(S \cup {c})
        BY <3>1 DEF UpClosed
      <4>2. r \in S \cup {c} /\ r # c
        BY <1>2, <2>3, <4>1 DEF IsRootOf
      <4> QED BY <4>2
    <3> QED BY <2>3, <3>1 DEF IsRootOf
  <2> QED BY <2>2, <2>3
<1>3. \A c \in Class \ Meta : \E r : IsRootOf(r, c)
  <2> DEFINE S == {c \in Class \ Meta : ~\E r : IsRootOf(r, c)}
  <2> SUFFICES ASSUME S # {} PROVE FALSE
    OBVIOUS
  <2>1. PICK c \in S : SuperOf[c] \notin S
    BY NoCycle
  <2>2. c \in Class \ Meta /\ SuperOf[c] \in (Class \ Meta) \cup {Nil}
    BY ImageShape
  <2>3. CASE SuperOf[c] = Nil
    BY <1>1, <2>1, <2>2, <2>3
  <2>4. CASE SuperOf[c] # Nil
    <3>1. SuperOf[c] \in Class \ Meta
      BY <2>2, <2>4
    <3>2. PICK r : IsRootOf(r, SuperOf[c])
      BY <2>1, <3>1
    <3>3. IsRootOf(r, c)
      BY <1>2, <2>2, <2>4, <3>2
    <3> QED BY <2>1, <3>3
  <2> QED BY <2>3, <2>4
<1> QED BY <1>1, <1>2, <1>3

\* The recursion of RootAbove finds it.
LEMMA RootOfIs == \A c \in Class \ Meta : IsRootOf(RootOf(c), c)
<1> DEFINE C == Class \ Meta
           Next1(f) == [d \in C |-> IF SuperOf[d] = Nil THEN d ELSE f[SuperOf[d]]]
           up == CHOOSE f : f = Next1(f)
           g == [d \in C |-> CHOOSE r : IsRootOf(r, d)]
<1>1. ASSUME NEW d \in C
      PROVE  g[d] = IF SuperOf[d] = Nil THEN d ELSE g[SuperOf[d]]
  <2>1. g[d] = CHOOSE r : IsRootOf(r, d)
    OBVIOUS
  <2>2. CASE SuperOf[d] = Nil
    <3>1. IsRootOf(g[d], d)
      BY <2>1, OneRoot
    <3> QED BY <2>2, <3>1, OneRoot
  <2>3. CASE SuperOf[d] # Nil
    <3>1. SuperOf[d] \in C
      BY <2>3, ImageShape
    <3>2. g[SuperOf[d]] = CHOOSE r : IsRootOf(r, SuperOf[d])
      BY <3>1
    <3>3. \A r : IsRootOf(r, d) <=> IsRootOf(r, SuperOf[d])
      BY <2>3, OneRoot
    <3>4. (CHOOSE r : IsRootOf(r, d)) = (CHOOSE r : IsRootOf(r, SuperOf[d]))
      BY <3>3
    <3> QED BY <2>1, <2>3, <3>2, <3>4
  <2> QED BY <2>2, <2>3
<1>2. g = Next1(g)
  BY <1>1
<1>3. up = Next1(up)
  BY <1>2
<1>4. \A c \in C : RootOf(c) = up[c]
  BY DEF RootOf, RootAbove
<1> HIDE DEF up
<1>5. \A d \in C : up[d] = IF SuperOf[d] = Nil THEN d ELSE up[SuperOf[d]]
  BY <1>3
<1> DEFINE S == {c \in C : ~IsRootOf(up[c], c)}
<1>6. SUFFICES ASSUME S # {} PROVE FALSE
  BY <1>4
<1>7. PICK c \in S : SuperOf[c] \notin S
  BY <1>6, NoCycle
<1>8. CASE SuperOf[c] = Nil
  BY <1>5, <1>7, <1>8, OneRoot
<1>9. CASE SuperOf[c] # Nil
  <2>1. SuperOf[c] \in C
    BY <1>9, ImageShape
  <2>2. up[c] = up[SuperOf[c]] /\ IsRootOf(up[SuperOf[c]], SuperOf[c])
    BY <1>5, <1>7, <1>9, <2>1
  <2> QED BY <1>7, <1>9, <2>2, OneRoot
<1> QED BY <1>8, <1>9

LEMMA Roots ==
    \A c \in Class \ Meta : /\ RootOf(c) \in Class \ Meta
                            /\ SuperOf[c] = Nil => RootOf(c) = c
BY RootOfIs, OneRoot DEF IsRootOf

\* While classes keep their fields, the traversal finds the root of the program.
LEMMA RootFound == ASSUME ClassFieldsKept, NEW c PROVE Root(c) = RootOf(c)
<1>1. Restrict(super, Class \ Meta) = SuperOf
  BY ImageShape DEF ClassFieldsKept, Restrict
<1> QED BY <1>1 DEF Root, RootOf

LEMMA MetaPatched ==
    ASSUME FieldsInv, SelTypeOK', PatchMeta
    PROVE  FieldsInv'
<1> SUFFICES ASSUME NEW c, c = job.cls, NEW m, m = isa[c] PROVE FieldsInv'
  OBVIOUS
<1>1. job.step = "meta"
  BY DEF PatchMeta
<1>2. /\ job.image \in Image /\ c \in Class \ Meta /\ c \notin registered
      /\ m = MetaOf[c] /\ m \in Meta /\ m \in Class /\ super[c] = SuperOf[c]
      /\ SuperOf[c] # Nil => /\ SuperOf[c] \in Class \ Meta /\ MetaOf[SuperOf[c]] \in Class
                             /\ isa[SuperOf[c]] = MetaOf[SuperOf[c]]
  BY <1>1, JobClass DEF FieldsInv
<1>3. job'.step = "wire" /\ job'.cls = c /\ job'.image = job.image /\ job'.wire = ToWire(c)
  BY JobFields DEF FieldsInv, PatchMeta
<1>4. /\ UNCHANGED <<registered, loaded, fixedUp, subclassList, sibling>>
      /\ Patched(m)' /\ \A d \in Class : Patched(d) => Patched(d)'
  BY <1>2, Patches DEF PatchMeta, FieldsInv, selVars
<1>5. isa[Root(c)] = MetaOf[RootOf(c)] /\ RootOf(c) \in Class \ Meta
  BY <1>2, RootFound, Roots DEF FieldsInv, ClassFieldsKept
<1>6. /\ isa' = [isa EXCEPT ![m] = MetaOf[RootOf(c)]]
      /\ super' = [super EXCEPT ![m] = IF SuperOf[c] = Nil THEN c ELSE MetaOf[SuperOf[c]]]
  <2>1. SuperOf[c] = Nil => m = MetaOf[RootOf(c)]
    BY <1>2, Roots
  <2> QED BY <1>2, <1>5, <2>1 DEF PatchMeta
<1>7. ToWire(c) = IF SuperOf[c] = Nil THEN <<>> ELSE <<c, MetaOf[c]>>
  BY <1>2 DEF ToWire
<1>8. TypeOK'
  <2>1. job' \in [image : Image \cup {Nil},
                  step : {"none", "selectors", "meta", "wire", "head", "classes"},
                  cls : Class \cup {Nil}, wire : BoundedSeq(Class, 2)]
    <3>1. ToWire(c) \in BoundedSeq(Class, 2)
      <4>1. c \in Class /\ MetaOf[c] \in Class
        BY <1>2
      <4>2. <<>> \in BoundedSeq(Class, 2) /\ <<c, MetaOf[c]>> \in BoundedSeq(Class, 2)
        BY <4>1, Wires
      <4> QED BY <1>7, <4>2
    <3> QED BY <3>1, JobFields DEF FieldsInv, PatchMeta
  <2>2. MetaOf[RootOf(c)] \in Class
    BY <1>5, ImageShape
  <2>3. isa' \in [Class -> Class \cup {Nil}] /\ super' \in [Class -> Class \cup {Nil}]
    BY <1>2, <1>6, <2>2 DEF FieldsInv, TypeOK
  <2>4. PICK d \in Class : Patch(d)
    BY <1>2 DEF PatchMeta
  <2> QED BY <2>1, <2>3, <2>4, <1>4, Patches DEF FieldsInv, TypeOK
<1>9. JobFits'
  BY <1>1, <1>2, <1>3, <1>4, <1>7 DEF FieldsInv, JobFits, ClassesOf
<1>10. ImagesInOrder'
  BY <1>1, <1>3, <1>4 DEF FieldsInv, ImagesInOrder
<1>11. ClassFieldsKept'
  BY <1>2, <1>6 DEF FieldsInv, TypeOK, ClassFieldsKept
<1>12. PatchedSoFar'
  BY <1>1, <1>2, <1>3, <1>4, ImageShape DEF FieldsInv, TypeOK, PatchedSoFar
<1>13. MetasSoFar'
  <2>1. MetaInPlace(c)'
    BY <1>2, <1>6 DEF FieldsInv, TypeOK, MetaInPlace
  <2>2. \A d \in registered : MetaInPlace(d)'
    <3> SUFFICES ASSUME NEW d \in registered PROVE MetaInPlace(d)'
      OBVIOUS
    <3>1. d \in Class \ Meta /\ MetaOf[d] # m /\ MetaOf[d] \in Class
      BY <1>2, ImageShape DEF FieldsInv, TypeOK
    <3> QED BY <1>6, <3>1 DEF FieldsInv, TypeOK, MetasSoFar, MetaInPlace
  <2> QED BY <1>3, <1>4, <2>1, <2>2 DEF MetasSoFar
<1> QED BY <1>8, <1>9, <1>10, <1>11, <1>12, <1>13 DEF FieldsInv

\* What is about to be wired has a superclass.
LEMMA Above ==
    ASSUME FieldsInv, job.step \in {"wire", "head"}, job.wire # <<>>
    PROVE  /\ Head(job.wire) \in Class /\ super[Head(job.wire)] \in Class
           /\ Tail(job.wire) \in {<<>>, <<MetaOf[job.cls]>>}
<1>1. /\ job.cls \in Class \ Meta /\ super[job.cls] = SuperOf[job.cls]
      /\ MetaOf[job.cls] \in Class /\ SuperOf[job.cls] # Nil
      /\ SuperOf[job.cls] \in Class \ Meta /\ MetaOf[SuperOf[job.cls]] \in Class
      /\ job.wire \in {<<MetaOf[job.cls]>>, <<job.cls, MetaOf[job.cls]>>}
  BY JobClass DEF FieldsInv, JobFits
<1>2. super[MetaOf[job.cls]] = MetaOf[SuperOf[job.cls]]
  BY <1>1 DEF FieldsInv, MetasSoFar, MetaInPlace
<1>3. /\ Head(job.wire) \in {job.cls, MetaOf[job.cls]}
      /\ Tail(job.wire) \in {<<>>, <<MetaOf[job.cls]>>}
  <2>1. CASE job.wire = <<MetaOf[job.cls]>>
    BY <1>1, <2>1, Wires
  <2>2. CASE job.wire = <<job.cls, MetaOf[job.cls]>>
    BY <1>1, <2>2, Wires
  <2> QED BY <1>1, <2>1, <2>2
<1> QED BY <1>1, <1>2, <1>3

LEMMA SiblingSet == ASSUME FieldsInv, SelTypeOK', SetSibling PROVE FieldsInv'
<1>1. job.step = "wire" /\ job.wire # <<>>
  BY DEF SetSibling
<1>2. job'.step = "head" /\ job'.cls = job.cls /\ job'.image = job.image /\ job'.wire = job.wire
  BY JobFields DEF FieldsInv, SetSibling
<1>3. UNCHANGED <<isa, super, size, methodList, cached, registered, loaded, fixedUp, subclassList>>
  BY DEF SetSibling, fields, selVars
<1>4. TypeOK'
  <2>1. job' \in [image : Image \cup {Nil},
                  step : {"none", "selectors", "meta", "wire", "head", "classes"},
                  cls : Class \cup {Nil}, wire : BoundedSeq(Class, 2)]
    BY JobFields DEF FieldsInv, SetSibling
  <2>2. sibling' \in [Class -> Class \cup {Nil}]
    BY <1>1, Above DEF FieldsInv, TypeOK, SetSibling
  <2> QED BY <2>1, <2>2, <1>3 DEF FieldsInv, TypeOK
<1>5. JobFits'
  BY <1>1, <1>2, <1>3 DEF FieldsInv, JobFits, ClassesOf
<1>6. ImagesInOrder' /\ ClassFieldsKept'
  BY <1>1, <1>2, <1>3 DEF FieldsInv, ImagesInOrder, ClassFieldsKept
<1>7. PatchedSoFar' /\ MetasSoFar'
  BY <1>1, <1>2, <1>3 DEF FieldsInv, PatchedSoFar, MetasSoFar, Patched, MetaInPlace
<1> QED BY <1>4, <1>5, <1>6, <1>7 DEF FieldsInv

LEMMA HeadSet == ASSUME FieldsInv, SelTypeOK', SetHead PROVE FieldsInv'
<1>1. job.step = "head" /\ job.wire # <<>>
  BY DEF FieldsInv, JobFits, SetHead
<1>2. /\ job'.step = "wire" /\ job'.cls = job.cls /\ job'.image = job.image
      /\ job'.wire = Tail(job.wire)
  BY JobFields DEF FieldsInv, SetHead
<1>3. UNCHANGED <<isa, super, size, methodList, cached, registered, loaded, fixedUp, sibling>>
  BY DEF SetHead, fields, selVars
<1>4. job'.wire \in {<<>>, <<MetaOf[job.cls]>>} /\ MetaOf[job.cls] \in Class
  BY <1>1, <1>2, Above, JobClass DEF FieldsInv
<1>5. TypeOK'
  <2>1. job' \in [image : Image \cup {Nil},
                  step : {"none", "selectors", "meta", "wire", "head", "classes"},
                  cls : Class \cup {Nil}, wire : BoundedSeq(Class, 2)]
    <3>1. Tail(job.wire) \in BoundedSeq(Class, 2)
      BY <1>2, <1>4, Wires
    <3> QED BY <3>1, JobFields DEF FieldsInv, SetHead
  <2>2. subclassList' \in [Class -> Class \cup {Nil}]
    BY <1>1, Above DEF FieldsInv, TypeOK, SetHead
  <2> QED BY <2>1, <2>2, <1>3 DEF FieldsInv, TypeOK
<1>6. JobFits'
  <2>1. SuperOf[job.cls] # Nil
    BY <1>1 DEF FieldsInv, JobFits
  <2> QED BY <1>1, <1>2, <1>3, <1>4, <2>1 DEF FieldsInv, JobFits, ClassesOf
<1>7. ImagesInOrder' /\ ClassFieldsKept'
  BY <1>1, <1>2, <1>3 DEF FieldsInv, ImagesInOrder, ClassFieldsKept
<1>8. PatchedSoFar' /\ MetasSoFar'
  BY <1>1, <1>2, <1>3 DEF FieldsInv, PatchedSoFar, MetasSoFar, Patched, MetaInPlace
<1> QED BY <1>5, <1>6, <1>7, <1>8 DEF FieldsInv

LEMMA ClassRegistered == ASSUME FieldsInv, SelTypeOK', RegisterLoaded PROVE FieldsInv'
<1>1. job.step = "wire"
  BY DEF RegisterLoaded
<1>2. /\ job'.step = "classes" /\ job'.cls = job.cls /\ job'.image = job.image
      /\ job'.wire = job.wire
  BY JobFields DEF FieldsInv, RegisterLoaded
<1>3. /\ UNCHANGED <<isa, super, size, methodList, cached, loaded, fixedUp, subclassList, sibling>>
      /\ registered' = registered \cup {job.cls}
  BY DEF RegisterLoaded, fields, lists, selVars
<1>4. job.image \in Image /\ job.cls \in Class \ Meta /\ ImageOf[job.cls] = job.image
  BY <1>1, JobClass DEF FieldsInv
<1>5. TypeOK'
  <2>1. job' \in [image : Image \cup {Nil},
                  step : {"none", "selectors", "meta", "wire", "head", "classes"},
                  cls : Class \cup {Nil}, wire : BoundedSeq(Class, 2)]
    BY JobFields DEF FieldsInv, RegisterLoaded
  <2> QED BY <2>1, <1>3, <1>4 DEF FieldsInv, TypeOK
<1>6. JobFits'
  BY <1>2, <1>4 DEF JobFits
<1>7. ImagesInOrder' /\ ClassFieldsKept'
  BY <1>1, <1>2, <1>3, <1>4 DEF FieldsInv, ImagesInOrder, ClassFieldsKept
<1>8. PatchedSoFar'
  <2>1. MethodSels[job.cls] \cup MethodSels[MetaOf[job.cls]] \subseteq fixedUp
    BY <1>1, <1>4, ImageShape DEF FieldsInv, JobFits
  <2> QED BY <1>1, <1>2, <1>3, <2>1 DEF FieldsInv, PatchedSoFar, Patched
<1>9. MetasSoFar'
  BY <1>1, <1>2, <1>3 DEF FieldsInv, MetasSoFar, MetaInPlace
<1> QED BY <1>5, <1>6, <1>7, <1>8, <1>9 DEF FieldsInv

LEMMA ImageLoaded == ASSUME FieldsInv, SelTypeOK', LoadDone PROVE FieldsInv'
<1>1. job.step \in {"selectors", "classes"} /\ job.image \in Image
  BY DEF FieldsInv, JobFits, LoadDone, SelectorsDone
<1>2. job' = NoJob /\ job'.step = "none"
  BY DEF LoadDone, NoJob
<1>3. /\ UNCHANGED <<isa, super, size, methodList, cached, registered, fixedUp, subclassList, sibling>>
      /\ loaded' = loaded \cup {job.image}
      /\ ClassesOf(job.image) \subseteq registered
  BY DEF LoadDone, fields, lists, selVars
<1>4. TypeOK'
  BY <1>1, <1>2, <1>3, Wires DEF FieldsInv, TypeOK, NoJob
<1>5. JobFits' /\ ClassFieldsKept'
  BY <1>2, <1>3 DEF FieldsInv, JobFits, ClassFieldsKept
<1>6. ImagesInOrder'
  BY <1>1, <1>2, <1>3 DEF FieldsInv, ImagesInOrder, ClassesOf
<1>7. PatchedSoFar' /\ MetasSoFar'
  BY <1>2, <1>3 DEF FieldsInv, PatchedSoFar, MetasSoFar, Patched, MetaInPlace
<1> QED BY <1>4, <1>5, <1>6, <1>7 DEF FieldsInv

LEMMA FieldsInvStep == FieldsInv /\ SelTypeOK' /\ [Next]_vars => FieldsInv'
<1> SUFFICES ASSUME FieldsInv, SelTypeOK', [Next]_vars PROVE FieldsInv'
  OBVIOUS
<1>1. fixedUp \subseteq fixedUp'
  BY LoaderStep, FixedUpGrows
<1>2. CASE \E i \in Image : Load(i)
  BY <1>2, LoadBegins
<1>3. CASE LoadStep
  <2>1. CASE \E s \in Compiled : FixUpSelector(s)
    BY <2>1, <1>1, SelectorsStep DEF FixUpSelector
  <2>2. CASE \E c \in Class \ Meta : PatchClass(c)
    BY <2>2, ClassPatched
  <2> QED BY <1>3, <2>1, <2>2, MetaPatched, SiblingSet, HeadSet, ClassRegistered, ImageLoaded
          DEF LoadStep
<1>4. CASE \E t \in Thread : Register(t) /\ UNCHANGED loadVars
  BY <1>4, <1>1, SelectorsStep
<1>5. CASE UNCHANGED vars
  BY <1>5, <1>1, SelectorsStep DEF vars
<1> QED BY <1>2, <1>3, <1>4, <1>5 DEF Next

--------------------------------------------------------------------------------
(* Lists of class objects, threaded through the siblings.                     *)

\* Induction, for a set of numbers.
LEMMA AllNumbers ==
    ASSUME NEW A, 0 \in A, \A n \in Nat : n \in A => n + 1 \in A
    PROVE  \A n \in Nat : n \in A
<1> DEFINE R == {ss \in Nat \X Nat : ss[1] < ss[2]}
<1>1. IsWellFoundedOn(R, Nat)
  BY NatLessThanWellFounded DEF OpToRel
<1>2. \A a, b \in Nat : <<a, b>> \in R <=> a < b
  OBVIOUS
<1> HIDE DEF R
<1> SUFFICES ASSUME Nat \ A # {} PROVE FALSE
  OBVIOUS
<1>3. PICK n \in Nat \ A : \A m \in Nat \ A : <<m, n>> \notin R
  <2>1. ASSUME NEW T, T = Nat \ A
        PROVE  \E n \in T : \A m \in T : <<m, n>> \notin R
    BY <1>1, <2>1, WFMin
  <2> QED BY <2>1
<1>4. n # 0
  OBVIOUS
<1>5. n - 1 \in Nat /\ n - 1 < n
  BY <1>4
<1>6. n - 1 \in A
  BY <1>2, <1>3, <1>5
<1>7. (n - 1) + 1 = n
  OBVIOUS
<1> QED BY <1>5, <1>6, <1>7

\* The parts of a list.
LEMMA Elements ==
    ASSUME NEW S, NEW l \in Seq(S)
    PROVE  /\ Len(l) \in Nat /\ DOMAIN l = 1 .. Len(l) /\ \A i \in 1 .. Len(l) : l[i] \in S
           /\ l = [i \in 1 .. Len(l) |-> l[i]] /\ (l = <<>> <=> Len(l) = 0)
OBVIOUS

\* An object in front of a list.
Before(x, l) == <<x>> \o l

Fronted(m, x, l) ==
    /\ Len(m) = Len(l) + 1 /\ m[1] = x
    /\ \A i \in 1 .. Len(l) : m[i + 1] = l[i]
    /\ \A i \in 1 .. Len(l) + 1 : i # 1 => i - 1 \in 1 .. Len(l) /\ m[i] = l[i - 1]

LEMMA InFront ==
    ASSUME NEW S, NEW x \in S, NEW l \in Seq(S)
    PROVE  Before(x, l) \in Seq(S) /\ Fronted(Before(x, l), x, l)
<1>1. Before(x, l) \in Seq(S) /\ Len(Before(x, l)) = Len(l) + 1 /\ Before(x, l)[1] = x
  BY DEF Before
<1>2. \A i \in 1 .. Len(l) : Before(x, l)[i + 1] = l[i]
  BY DEF Before
<1>3. ASSUME NEW i \in 1 .. Len(l) + 1, i # 1
      PROVE  i - 1 \in 1 .. Len(l) /\ Before(x, l)[i] = l[i - 1]
  <2>1. Len(l) \in Nat
    OBVIOUS
  <2>2. i - 1 \in 1 .. Len(l) /\ (i - 1) + 1 = i
    BY <1>3, <2>1
  <2> QED BY <1>2, <2>2
<1> QED BY <1>1, <1>2, <1>3 DEF Fronted

LEMMA Rest ==
    ASSUME NEW S, NEW l \in Seq(S), l # <<>>
    PROVE  /\ Len(l) \in Nat \ {0} /\ l[1] \in S /\ Tail(l) \in Seq(S)
           /\ Len(Tail(l)) = Len(l) - 1 /\ \A i \in 1 .. Len(l) - 1 : Tail(l)[i] = l[i + 1]
           /\ l = Before(l[1], Tail(l))
<1> DEFINE t == Tail(l)
           m == Before(l[1], t)
<1>1. Len(l) \in Nat \ {0} /\ l[1] \in S
  OBVIOUS
<1>2. /\ t \in Seq(S) /\ Len(t) = Len(l) - 1
      /\ \A i \in 1 .. Len(l) - 1 : t[i] = l[i + 1]
  OBVIOUS
<1> HIDE DEF t
<1>3. Len(t) + 1 = Len(l) /\ m \in Seq(S) /\ Len(m) = Len(l) /\ m[1] = l[1]
      /\ \A i \in 1 .. Len(l) : i # 1 => i - 1 \in 1 .. Len(l) - 1 /\ m[i] = t[i - 1]
  <2>1. Len(t) + 1 = Len(l)
    BY <1>1, <1>2
  <2>2. /\ m \in Seq(S) /\ Len(m) = Len(t) + 1 /\ m[1] = l[1]
        /\ \A i \in 1 .. Len(t) + 1 : i # 1 => i - 1 \in 1 .. Len(t) /\ m[i] = t[i - 1]
    <3>1. m \in Seq(S) /\ Fronted(m, l[1], t)
      BY <1>1, <1>2, InFront
    <3> HIDE DEF m
    <3> QED BY <3>1 DEF Fronted
  <2> HIDE DEF m
  <2> QED BY <1>2, <2>1, <2>2
<1> HIDE DEF m
<1>4. \A i \in 1 .. Len(l) : m[i] = l[i]
  <2> SUFFICES ASSUME NEW i \in 1 .. Len(l) PROVE m[i] = l[i]
    OBVIOUS
  <2>1. CASE i = 1
    BY <1>3, <2>1
  <2>2. CASE i # 1
    <3>1. i - 1 \in 1 .. Len(l) - 1 /\ m[i] = t[i - 1] /\ (i - 1) + 1 = i
      BY <1>1, <1>3, <2>2
    <3>2. t[i - 1] = l[(i - 1) + 1]
      BY <1>2, <3>1
    <3> QED BY <3>1, <3>2
  <2> QED BY <2>1, <2>2
<1>5. m = l
  BY <1>3, <1>4, Elements
<1> QED BY <1>1, <1>2, <1>5 DEF m, t

\* The lists of at most k objects, by where they begin, as Subclasses has them
\* from those of at most k - 1.
Longer(f, s, k) ==
    [d \in Class \cup {Nil} |-> IF k = 0 \/ d = Nil THEN <<>> ELSE Before(d, f[k - 1][s[d]])]
Cuts(f, s, n) == f = [k \in 0 .. n |-> Longer(f, s, k)]

LEMMA LongerIs ==
    ASSUME NEW f, NEW s, NEW g, NEW k \in Nat, k # 0 => f[k - 1] = g[k - 1]
    PROVE  Longer(f, s, k) = Longer(g, s, k)
BY DEF Longer

LEMMA CutsExist ==
    ASSUME NEW s
    PROVE  \A n \in Nat : \E f : Cuts(f, s, n)
<1> DEFINE A == {n \in Nat : \E f : Cuts(f, s, n)}
<1>1. 0 \in A
  <2> DEFINE none == [d \in Class \cup {Nil} |-> <<>>]
             f == [k \in 0 .. 0 |-> none]
  <2>1. \A g : Longer(g, s, 0) = none
    BY DEF Longer
  <2> HIDE DEF none
  <2>2. f = [k \in 0 .. 0 |-> Longer(f, s, k)]
    <3>1. \A k \in 0 .. 0 : Longer(f, s, k) = none
      <4>1. \A k \in 0 .. 0 : k = 0
        OBVIOUS
      <4> HIDE DEF f
      <4> QED BY <2>1, <4>1
    <3> HIDE DEF f
    <3>2. f = [k \in 0 .. 0 |-> none]
      BY DEF f
    <3> QED BY <3>1, <3>2
  <2>3. Cuts(f, s, 0)
    BY <2>2 DEF Cuts
  <2> HIDE DEF f
  <2> QED BY <2>3
<1>2. ASSUME NEW n \in Nat, n \in A PROVE n + 1 \in A
  <2>1. PICK f : Cuts(f, s, n)
    BY <1>2
  <2> DEFINE g == [k \in 0 .. n + 1 |-> IF k = n + 1 THEN Longer(f, s, n + 1) ELSE f[k]]
  <2>2. \A k \in 0 .. n : k # n + 1 /\ k \in 0 .. n + 1 /\ g[k] = f[k]
    OBVIOUS
  <2>3. g[n + 1] = Longer(f, s, n + 1)
    OBVIOUS
  <2>4. ASSUME NEW k \in 0 .. n + 1 PROVE g[k] = Longer(g, s, k)
    <3>1. k # 0 => k - 1 \in 0 .. n
      OBVIOUS
    <3>2. k # 0 => f[k - 1] = g[k - 1]
      BY <2>2, <3>1
    <3> HIDE DEF g
    <3>3. Longer(f, s, k) = Longer(g, s, k)
      BY <3>2, LongerIs
    <3>4. g[k] = Longer(f, s, k)
      <4>1. CASE k = n + 1
        BY <2>3, <4>1
      <4>2. CASE k # n + 1
        <5>1. k \in 0 .. n
          BY <4>2
        <5>2. f[k] = Longer(f, s, k)
          BY <2>1, <5>1 DEF Cuts
        <5> QED BY <2>2, <5>1, <5>2
      <4> QED BY <4>1, <4>2
    <3> QED BY <3>3, <3>4
  <2>5. g = [k \in 0 .. n + 1 |-> g[k]]
    OBVIOUS
  <2> HIDE DEF g
  <2>6. Cuts(g, s, n + 1)
    BY <2>4, <2>5 DEF Cuts
  <2> QED BY <2>6
<1>3. \A n \in Nat : n \in A
  <2> HIDE DEF A
  <2> QED BY <1>1, <1>2, AllNumbers
<1> QED BY <1>3

\* A list that is not empty is its first object and the list after it.
LEMMA ListAfter ==
    ASSUME NEW l, NEW s, NEW d, IsList(l, s, d), l # <<>>
    PROVE  /\ d \in Class /\ d # Nil /\ l = Before(d, Tail(l)) /\ IsList(Tail(l), s, s[d])
           /\ Len(l) \in Nat /\ Len(Tail(l)) = Len(l) - 1
<1> DEFINE t == Tail(l)
           n == Len(l)
<1>1. l \in Seq(Class) /\ d = l[1]
  BY DEF IsList
<1>2. /\ n \in Nat \ {0} /\ d \in Class /\ t \in Seq(Class) /\ Len(t) = n - 1
      /\ \A i \in 1 .. n - 1 : t[i] = l[i + 1]
      /\ l = Before(d, t)
  BY <1>1, Rest
<1>3. \A i \in 1 .. n : s[l[i]] = IF i = n THEN Nil ELSE l[i + 1]
  BY DEF IsList
<1> HIDE DEF t, n
<1>4. s[d] = IF t = <<>> THEN Nil ELSE t[1]
  <2>1. s[d] = IF n = 1 THEN Nil ELSE l[1 + 1]
    <3>1. 1 \in 1 .. n
      BY <1>2
    <3> QED BY <1>1, <1>3, <3>1
  <2>2. t = <<>> <=> n = 1
    BY <1>2, Elements
  <2>3. n # 1 => 1 \in 1 .. n - 1
    BY <1>2
  <2> QED BY <1>2, <2>1, <2>2, <2>3
<1>5. ASSUME NEW i \in 1 .. Len(t)
      PROVE  s[t[i]] = IF i = Len(t) THEN Nil ELSE t[i + 1]
  <2>1. i \in 1 .. n - 1 /\ i + 1 \in 1 .. n /\ (i = Len(t) <=> i + 1 = n)
    BY <1>2
  <2>2. s[l[i + 1]] = IF i + 1 = n THEN Nil ELSE l[(i + 1) + 1]
    BY <1>3, <2>1
  <2>3. i # Len(t) => i + 1 \in 1 .. n - 1
    BY <1>2
  <2> QED BY <1>2, <2>1, <2>2, <2>3
<1>6. IsList(t, s, s[d])
  BY <1>2, <1>4, <1>5 DEF IsList
<1>7. d # Nil
  BY <1>2, ImageShape
<1> QED BY <1>2, <1>6, <1>7 DEF t, n

\* A list of at most k objects is found whole by following k siblings.
LEMMA CutsKeep ==
    ASSUME NEW f, NEW s, NEW n \in Nat, Cuts(f, s, n)
    PROVE  \A k \in 0 .. n : \A l, d : IsList(l, s, d) /\ Len(l) <= k => f[k][d] = l
<1> DEFINE A == {k \in Nat : k <= n => \A l, d : IsList(l, s, d) /\ Len(l) <= k => f[k][d] = l}
<1>1. 0 \in A
  <2> SUFFICES ASSUME NEW l, NEW d, IsList(l, s, d), Len(l) <= 0 PROVE f[0][d] = l
    OBVIOUS
  <2>1. l = <<>> /\ d = Nil
    BY DEF IsList
  <2>2. f[0] = Longer(f, s, 0)
    BY DEF Cuts
  <2> QED BY <2>1, <2>2 DEF Longer
<1>2. ASSUME NEW k \in Nat, k \in A PROVE k + 1 \in A
  <2> SUFFICES ASSUME k + 1 <= n, NEW l, NEW d, IsList(l, s, d), Len(l) <= k + 1
               PROVE  f[k + 1][d] = l
    OBVIOUS
  <2>1. k + 1 \in 0 .. n /\ k <= n /\ k + 1 # 0 /\ (k + 1) - 1 = k
    OBVIOUS
  <2>2. f[k + 1] = Longer(f, s, k + 1)
    BY <2>1 DEF Cuts
  <2>3. CASE l = <<>>
    <3>1. d = Nil
      BY <2>3 DEF IsList
    <3> QED BY <2>2, <2>3, <3>1 DEF Longer
  <2>4. CASE l # <<>>
    <3>1. /\ d \in Class /\ d # Nil /\ l = Before(d, Tail(l)) /\ IsList(Tail(l), s, s[d])
          /\ Len(Tail(l)) = Len(l) - 1 /\ Len(l) \in Nat
      BY <2>4, ListAfter
    <3>2. Len(Tail(l)) <= k
      BY <3>1
    <3>3. f[k][s[d]] = Tail(l)
      BY <1>2, <2>1, <3>1, <3>2
    <3>4. f[k + 1][d] = Before(d, f[k][s[d]])
      BY <2>1, <2>2, <3>1 DEF Longer
    <3> QED BY <3>1, <3>3, <3>4
  <2> QED BY <2>3, <2>4
<1>3. \A k \in Nat : k \in A
  <2> HIDE DEF A
  <2> QED BY <1>1, <1>2, AllNumbers
<1> QED BY <1>3

\* The list that begins with d, as Subclasses takes it.
ListFrom(s, d) ==
    LET from[n \in 0 .. Cardinality(Class)] ==
            [e \in Class \cup {Nil} |->
                IF n = 0 \/ e = Nil THEN <<>> ELSE <<e>> \o from[n - 1][s[e]]]
    IN from[Cardinality(Class)][d]

LEMMA SubclassesAre ==
    \A c : /\ Subclasses(c) = ListFrom(sibling, subclassList[c])
           /\ Subclasses(c)' = ListFrom(sibling', subclassList'[c])
BY DEF Subclasses, ListFrom

\* A list without repetitions is short enough to be found whole.
LEMMA ListFound ==
    ASSUME NEW l, NEW s, NEW d, IsList(l, s, d), IsInjective(l)
    PROVE  ListFrom(s, d) = l
<1> DEFINE n == Cardinality(Class)
           f == CHOOSE f : f = [k \in 0 .. n |->
                    [e \in Class \cup {Nil} |->
                        IF k = 0 \/ e = Nil THEN <<>> ELSE <<e>> \o f[k - 1][s[e]]]]
<1>1. n \in Nat
  BY ImageShape, FS_CardinalityType
<1>2. ListFrom(s, d) = f[n][d]
  BY DEF ListFrom
<1>3. Len(l) <= n
  <2>1. l \in [1 .. Len(l) -> Class] /\ Len(l) \in Nat
    BY DEF IsList
  <2>2. l \in Injection(1 .. Len(l), Class)
    BY <2>1 DEF Injection
  <2>3. Cardinality(1 .. Len(l)) <= n
    BY <2>2, ImageShape, FS_Injection
  <2>4. Cardinality(1 .. Len(l)) = Len(l)
    <3>1. \A b \in Int : Cardinality(1 .. b) = IF 1 > b THEN 0 ELSE b - 1 + 1
      BY FS_Interval
    <3> QED BY <2>1, <3>1
  <2> QED BY <2>3, <2>4
<1> HIDE DEF n
<1>4. PICK g : Cuts(g, s, n)
  BY <1>1, CutsExist
<1>5. f = [k \in 0 .. n |-> [e \in Class \cup {Nil} |->
              IF k = 0 \/ e = Nil THEN <<>> ELSE <<e>> \o f[k - 1][s[e]]]]
  BY <1>4 DEF Cuts, Longer, Before
<1> HIDE DEF f
<1>6. Cuts(f, s, n)
  BY <1>5 DEF Cuts, Longer, Before
<1> QED BY <1>1, <1>2, <1>3, <1>6, CutsKeep

\* l is the list from d, and holds the objects in T once each.
Holds(l, s, d, T) == IsList(l, s, d) /\ IsInjective(l) /\ ToSet(l) = T

LEMMA HoldsFound ==
    ASSUME NEW l, NEW s, NEW d, NEW T, Holds(l, s, d, T)
    PROVE  ListFrom(s, d) = l
BY ListFound DEF Holds

\* A sibling that is set in an object of no list changes no list.
LEMMA HoldsStill ==
    ASSUME NEW l, NEW s, NEW d, NEW T, Holds(l, s, d, T),
           NEW r, \A e \in T : r[e] = s[e]
    PROVE  Holds(l, r, d, T)
<1>1. l \in Seq(Class) /\ \A i \in 1 .. Len(l) : l[i] \in T
  BY DEF Holds, IsList, ToSet
<1>2. \A i \in 1 .. Len(l) : r[l[i]] = s[l[i]]
  BY <1>1
<1> QED BY <1>2 DEF Holds, IsList

\* An object in no list that leads to one goes in front of it.
LEMMA HoldsOneMore ==
    ASSUME NEW l, NEW s, NEW d, NEW T, Holds(l, s, d, T),
           NEW x \in Class, x \notin T, s[x] = d
    PROVE  Holds(Before(x, l), s, x, T \cup {x})
<1>0. l \in Seq(Class)
  BY DEF Holds, IsList
<1> SUFFICES ASSUME NEW n, n = Len(l), NEW m, m = Before(x, l)
             PROVE  Holds(m, s, x, T \cup {x})
  OBVIOUS
<1>1. /\ l \in Seq(Class) /\ n \in Nat /\ d = (IF l = <<>> THEN Nil ELSE l[1])
      /\ \A i \in 1 .. n : s[l[i]] = IF i = n THEN Nil ELSE l[i + 1]
      /\ DOMAIN l = 1 .. n /\ (l = <<>> <=> n = 0)
  BY <1>0, Elements DEF Holds, IsList
<1>2. /\ m \in Seq(Class) /\ Len(m) = n + 1 /\ m[1] = x
      /\ \A i \in 1 .. n : m[i + 1] = l[i]
      /\ \A i \in 1 .. n + 1 : i # 1 => i - 1 \in 1 .. n /\ m[i] = l[i - 1]
  <2>1. m \in Seq(Class) /\ Fronted(m, x, l)
    BY <1>0, InFront
  <2> QED BY <2>1 DEF Fronted
<1>3. DOMAIN m = 1 .. n + 1 /\ m # <<>>
  <2>1. m \in Seq(Class) /\ Len(m) = n + 1
    BY <1>2
  <2>2. n + 1 # 0
    BY <1>1
  <2> QED BY <2>1, <2>2, Elements
<1>4. ASSUME NEW i \in 1 .. n + 1
      PROVE  s[m[i]] = IF i = n + 1 THEN Nil ELSE m[i + 1]
  <2>1. CASE i = 1
    <3>1. CASE n = 0
      BY <1>1, <1>2, <2>1, <3>1
    <3>2. CASE n # 0
      <4>1. 1 \in 1 .. n /\ i # n + 1 /\ i + 1 = 1 + 1
        BY <1>1, <2>1, <3>2
      <4> QED BY <1>1, <1>2, <2>1, <3>2, <4>1
    <3> QED BY <3>1, <3>2
  <2>2. CASE i # 1
    <3>1. /\ i - 1 \in 1 .. n /\ m[i] = l[i - 1] /\ (i - 1) + 1 = i
          /\ (i - 1 = n <=> i = n + 1)
      BY <1>1, <1>2, <2>2
    <3>2. s[l[i - 1]] = IF i - 1 = n THEN Nil ELSE l[i]
      BY <1>1, <3>1
    <3>3. i # n + 1 => i \in 1 .. n
      BY <1>1
    <3> QED BY <1>2, <3>1, <3>2, <3>3
  <2> QED BY <2>1, <2>2
<1>5. IsList(m, s, x)
  BY <1>2, <1>3, <1>4 DEF IsList
<1>6. \A i \in 1 .. n : l[i] \in T
  BY <1>1 DEF Holds, ToSet
<1>7. IsInjective(m)
  <2> SUFFICES ASSUME NEW i \in 1 .. n + 1, NEW j \in 1 .. n + 1, m[i] = m[j]
               PROVE  i = j
    BY <1>3 DEF IsInjective
  <2>1. CASE i = 1 /\ j = 1
    BY <2>1
  <2>2. CASE i = 1 /\ j # 1
    BY <1>2, <1>6, <2>2
  <2>3. CASE i # 1 /\ j = 1
    BY <1>2, <1>6, <2>3
  <2>4. CASE i # 1 /\ j # 1
    <3>1. i - 1 \in DOMAIN l /\ j - 1 \in DOMAIN l /\ l[i - 1] = l[j - 1]
      BY <1>1, <1>2, <2>4
    <3>2. i - 1 = j - 1
      BY <3>1 DEF Holds, IsInjective
    <3> QED BY <3>2
  <2> QED BY <2>1, <2>2, <2>3, <2>4
<1>8. ToSet(m) = T \cup {x}
  <2>1. ASSUME NEW e \in ToSet(m) PROVE e \in T \cup {x}
    <3>1. PICK i \in 1 .. n + 1 : e = m[i]
      BY <1>3 DEF ToSet
    <3> QED BY <1>2, <1>6, <3>1
  <2>2. ASSUME NEW e \in T PROVE e \in ToSet(m)
    <3>1. PICK i \in 1 .. n : e = l[i]
      BY <1>1 DEF Holds, ToSet
    <3>2. i + 1 \in 1 .. n + 1 /\ m[i + 1] = e
      BY <1>1, <1>2, <3>1
    <3> QED BY <1>3, <3>2 DEF ToSet
  <2>3. x \in ToSet(m)
    <3>1. 1 \in 1 .. n + 1
      BY <1>1
    <3> QED BY <1>2, <1>3, <3>1 DEF ToSet
  <2> QED BY <2>1, <2>2, <2>3
<1> QED BY <1>5, <1>7, <1>8 DEF Holds

\* A list is the end of itself, and of the list with an object in front.
LEMMA EndsOfList ==
    ASSUME NEW S, NEW l \in Seq(S), NEW x \in S
    PROVE  IsSuffix(l, l) /\ IsSuffix(l, Before(x, l))
<1> SUFFICES ASSUME NEW n, n = Len(l), NEW m, m = Before(x, l),
                    NEW p, p = Reverse(l), NEW q, q = Reverse(m)
             PROVE  IsSuffix(l, l) /\ IsSuffix(l, m)
  OBVIOUS
<1>1. /\ n \in Nat /\ m \in Seq(S) /\ Len(m) = n + 1 /\ \A i \in 1 .. n : m[i + 1] = l[i]
  <2>1. m \in Seq(S) /\ Fronted(m, x, l)
    BY InFront
  <2> QED BY <2>1, Elements DEF Fronted
<1>2. /\ p = [i \in 1 .. n |-> l[(n - i) + 1]]
      /\ q = [i \in 1 .. n + 1 |-> m[((n + 1) - i) + 1]]
  BY <1>1 DEF Reverse
<1>3. \A i \in 1 .. n : p[i] = q[i]
  <2> SUFFICES ASSUME NEW i \in 1 .. n PROVE p[i] = q[i]
    OBVIOUS
  <2>1. (n - i) + 1 \in 1 .. n /\ ((n + 1) - i) + 1 = ((n - i) + 1) + 1 /\ i \in 1 .. n + 1
    BY <1>1
  <2>2. p[i] = l[(n - i) + 1] /\ q[i] = m[((n - i) + 1) + 1]
    BY <1>2, <2>1
  <2> QED BY <1>1, <2>1, <2>2
<1>4. Len(p) = n /\ Len(q) = n + 1
  BY <1>1, <1>2
<1>5. SubSeq(p, 1, n) = SubSeq(q, 1, n)
  <2>1. SubSeq(p, 1, n) = [i \in 1 .. n |-> p[i]] /\ SubSeq(q, 1, n) = [i \in 1 .. n |-> q[i]]
    BY <1>1
  <2> QED BY <1>3, <2>1
<1>6. IsSuffix(l, m)
  <2>1. Len(p) <= Len(q) /\ SubSeq(p, 1, Len(p)) = SubSeq(q, 1, Len(p))
    BY <1>1, <1>4, <1>5
  <2> QED BY <2>1 DEF IsSuffix, IsPrefix
<1>7. IsSuffix(l, l)
  BY <1>1, <1>4 DEF IsSuffix, IsPrefix
<1> QED BY <1>6, <1>7

--------------------------------------------------------------------------------
(* The lists of subclasses.                                                   *)

\* The class objects that are in the lists, and those of them below c: with the
\* registered classes there is the one that is on its way.
Placed == {c \in Class : c \in registered \/ \E d \in registered : MetaOf[d] = c}
Wired == {job.cls, MetaOf[job.cls]} \ ToSet(job.wire)
Under(c) == {d \in Linked : Parent(d) = c}

LEMMA LinkedIs ==
    /\ Linked = Placed \cup IF job.step \in {"wire", "head"} THEN Wired ELSE {}
    /\ Linked' = Placed' \cup IF job'.step \in {"wire", "head"} THEN Wired' ELSE {}
BY DEF Linked, Placed, Wired

LEMMA UnderIs ==
    ASSUME NEW c \in Class
    PROVE  /\ Under(c) = {d \in Linked : Parent(d) = c}
           /\ Under(c)' = {d \in Linked' : Parent(d) = c}
BY DEF Under, Parent

\* The list of each class object holds those below it.
InLists == \A c \in Class : Holds(Subclasses(c), sibling, subclassList[c], Under(c))
HeadLeadsOn ==
    job.step = "head" => sibling[Head(job.wire)] = subclassList[super[Head(job.wire)]]

LEMMA WiredIs == ListsWired <=> InLists /\ HeadLeadsOn
BY DEF ListsWired, ListsFollowHierarchy, InLists, HeadLeadsOn, Holds, Under

\* Where a class and its metaclass belong.
LEMMA Parents ==
    ASSUME NEW c \in Class \ Meta
    PROVE  /\ Parent(c) = SuperOf[c]
           /\ Parent(MetaOf[c]) = IF SuperOf[c] = Nil THEN Nil ELSE MetaOf[SuperOf[c]]
<1>1. Parent(c) = SuperOf[c]
  BY DEF Parent
<1>2. MetaOf[c] \in Meta /\ \A d \in Class \ Meta : MetaOf[d] = MetaOf[c] => d = c
  BY ImageShape
<1>3. (CHOOSE d \in Class \ Meta : MetaOf[d] = MetaOf[c]) = c
  BY <1>2
<1> QED BY <1>2, <1>1, <1>3 DEF Parent

\* The lists of class objects still to be wired, as sets.
LEMMA WireSets ==
    /\ ToSet(<<>>) = {}
    /\ \A x : ToSet(<<x>>) = {x} /\ Head(<<x>>) = x /\ Tail(<<x>>) = <<>>
    /\ \A x, y : ToSet(<<x, y>>) = {x, y} /\ Head(<<x, y>>) = x /\ Tail(<<x, y>>) = <<y>>
<1>1. ToSet(<<>>) = {}
  BY DEF ToSet
<1>2. ASSUME NEW x PROVE ToSet(<<x>>) = {x} /\ Head(<<x>>) = x /\ Tail(<<x>>) = <<>>
  <2>1. DOMAIN <<x>> = {1}
    OBVIOUS
  <2> QED BY <2>1 DEF ToSet
<1>3. ASSUME NEW x, NEW y
      PROVE  ToSet(<<x, y>>) = {x, y} /\ Head(<<x, y>>) = x /\ Tail(<<x, y>>) = <<y>>
  <2>1. DOMAIN <<x, y>> = {1, 2}
    OBVIOUS
  <2>2. Head(<<x, y>>) = x /\ Tail(<<x, y>>) = <<y>>
    OBVIOUS
  <2> QED BY <2>1, <2>2 DEF ToSet
<1> QED BY <1>1, <1>2, <1>3

\* The next class object to be wired is in no list, and is wired below the one
\* it belongs to.
LEMMA NextToWire ==
    ASSUME FieldsInv, job.step \in {"wire", "head"}, job.wire # <<>>,
           NEW x, x = Head(job.wire)
    PROVE  /\ x \in Class /\ x \notin Linked /\ super[x] = Parent(x) /\ super[x] \in Class
           /\ {job.cls, MetaOf[job.cls]} \ ToSet(Tail(job.wire)) = Wired \cup {x}
<1> SUFFICES ASSUME NEW c, c = job.cls, NEW m, m = MetaOf[c]
             PROVE  /\ x \in Class /\ x \notin Linked /\ super[x] = Parent(x) /\ super[x] \in Class
                    /\ {c, m} \ ToSet(Tail(job.wire)) = Wired \cup {x}
  OBVIOUS
<1>1. /\ c \in Class \ Meta /\ c \notin registered /\ super[c] = SuperOf[c]
      /\ m \in Meta /\ m \in Class /\ SuperOf[c] # Nil
      /\ SuperOf[c] \in Class \ Meta /\ MetaOf[SuperOf[c]] \in Class
      /\ job.wire \in {<<m>>, <<c, m>>}
  BY JobClass DEF FieldsInv, JobFits
<1>2. super[m] = MetaOf[SuperOf[c]]
  BY <1>1 DEF FieldsInv, MetasSoFar, MetaInPlace
<1>3. Parent(c) = SuperOf[c] /\ Parent(m) = MetaOf[SuperOf[c]]
  BY <1>1, Parents
<1>4. c \notin Placed /\ m \notin Placed
  <2>1. registered \subseteq Class \ Meta
    BY DEF FieldsInv, TypeOK
  <2>2. \A d \in registered : MetaOf[d] \in Meta /\ (MetaOf[d] = m => d = c)
    BY <1>1, <2>1, ImageShape
  <2> QED BY <1>1, <2>1, <2>2 DEF Placed
<1>5. /\ x \in {c, m} /\ x \in ToSet(job.wire)
      /\ {c, m} \ ToSet(Tail(job.wire)) = ({c, m} \ ToSet(job.wire)) \cup {x}
  <2>0. c # m
    BY <1>1
  <2>1. CASE job.wire = <<m>>
    BY <2>0, <2>1, WireSets
  <2>2. CASE job.wire = <<c, m>>
    BY <2>0, <2>2, WireSets
  <2> QED BY <1>1, <2>1, <2>2
<1>6. x \notin Linked
  BY <1>4, <1>5, LinkedIs DEF Wired
<1> QED BY <1>1, <1>2, <1>3, <1>5, <1>6 DEF Wired

\* A step that writes no list, and after which they have the same to hold.
LEMMA ListsAlone ==
    ASSUME InLists, UNCHANGED lists, \A c \in Class : Under(c)' = Under(c)
    PROVE  InLists' /\ \A c \in Class : Subclasses(c)' = Subclasses(c)
<1>1. ASSUME NEW c \in Class PROVE Subclasses(c)' = Subclasses(c)
  BY SubclassesAre DEF lists
<1> QED BY <1>1 DEF InLists, lists

\* The lists a step leaves are those there were, but for what is in front.
ListsGrow == \A c \in Class : IsSuffix(Subclasses(c), Subclasses(c)')

LEMMA SameGrow ==
    ASSUME InLists, \A c \in Class : Subclasses(c)' = Subclasses(c)
    PROVE  ListsGrow
<1>1. ASSUME NEW c \in Class PROVE IsSuffix(Subclasses(c), Subclasses(c)')
  <2>1. Subclasses(c) \in Seq(Class) /\ Subclasses(c)' = Subclasses(c)
    BY <1>1 DEF InLists, Holds, IsList
  <2> QED BY <1>1, <2>1, EndsOfList
<1> QED BY <1>1 DEF ListsGrow

\* The steps that write no list have nothing put in them.
LEMMA OtherSteps ==
    ASSUME FieldsInv, InLists, HeadLeadsOn,
           \/ \E i \in Image : Load(i)
           \/ \E c \in Class \ Meta : PatchClass(c)
           \/ PatchMeta \/ RegisterLoaded \/ LoadDone \/ UNCHANGED loadVars
    PROVE  InLists' /\ HeadLeadsOn' /\ ListsGrow
<1>1. UNCHANGED lists
  BY DEF Load, PatchClass, PatchMeta, RegisterLoaded, LoadDone, loadVars, Patch, lists
<1>2. ASSUME Linked' = Linked PROVE \A c \in Class : Under(c)' = Under(c)
  BY <1>2, UnderIs
<1>3. CASE UNCHANGED loadVars
  BY <1>1, <1>2, <1>3, ListsAlone, SameGrow DEF loadVars, Linked, HeadLeadsOn
<1>4. ASSUME NEW i \in Image, Load(i)
      PROVE  job'.step # "head" /\ \A c \in Class : Under(c)' = Under(c)
  <2>1. job.step = "none" /\ job'.step = "selectors" /\ Placed' = Placed
    BY <1>4 DEF Load, NoJob, Placed
  <2> QED BY <1>2, <2>1, LinkedIs
<1>5. ASSUME NEW c \in Class \ Meta, PatchClass(c)
      PROVE  job'.step # "head" /\ \A d \in Class : Under(d)' = Under(d)
  <2>1. job.step \in {"selectors", "classes"} /\ job'.step = "meta" /\ Placed' = Placed
    BY <1>5, JobFields DEF FieldsInv, PatchClass, SelectorsDone, Placed
  <2> QED BY <1>2, <2>1, LinkedIs
<1>6. ASSUME LoadDone
      PROVE  job'.step # "head" /\ \A d \in Class : Under(d)' = Under(d)
  <2>1. job.step \in {"selectors", "classes"} /\ job'.step = "none" /\ Placed' = Placed
    BY <1>6 DEF LoadDone, SelectorsDone, NoJob, Placed
  <2> QED BY <1>2, <2>1, LinkedIs
<1>7. ASSUME RegisterLoaded
      PROVE  job'.step # "head" /\ \A d \in Class : Under(d)' = Under(d)
  <2>1. /\ job.step = "wire" /\ job.wire = <<>> /\ job'.step = "classes"
        /\ registered' = registered \cup {job.cls}
    BY <1>7, JobFields DEF FieldsInv, RegisterLoaded
  <2>2. job.cls \in Class \ Meta /\ MetaOf[job.cls] \in Class
    BY <2>1, JobClass DEF FieldsInv
  <2>3. Wired = {job.cls, MetaOf[job.cls]}
    BY <2>1, WireSets DEF Wired
  <2>4. Placed' = Placed \cup {job.cls, MetaOf[job.cls]}
    BY <2>1, <2>2 DEF Placed
  <2> QED BY <1>2, <2>1, <2>3, <2>4, LinkedIs
<1>8. ASSUME PatchMeta
      PROVE  job'.step # "head" /\ \A d \in Class : Under(d)' = Under(d)
  <2> SUFFICES ASSUME NEW c, c = job.cls
               PROVE  job'.step # "head" /\ \A d \in Class : Under(d)' = Under(d)
    OBVIOUS
  <2>1. job.step = "meta" /\ registered' = registered
    BY <1>8 DEF PatchMeta
  <2>2. /\ c \in Class \ Meta /\ isa[c] = MetaOf[c] /\ super[c] = SuperOf[c]
    BY <2>1, JobClass DEF FieldsInv
  <2>3. job'.step = "wire" /\ job'.cls = c /\ job'.wire = ToWire(c)
    BY <1>8, JobFields DEF FieldsInv, PatchMeta
  <2>4. Placed' = Placed /\ Linked = Placed /\ Linked' = Placed \cup Wired'
    BY <2>1, <2>3, LinkedIs DEF Placed
  <2>5. CASE SuperOf[c] = Nil
    <3>1. Wired' = {c, MetaOf[c]}
      BY <2>2, <2>3, <2>5, WireSets DEF Wired, ToWire
    <3>2. Parent(c) = Nil /\ Parent(MetaOf[c]) = Nil
      BY <2>2, <2>5, Parents
    <3>3. \A d \in Class : d # Nil
      BY ImageShape
    <3>4. \A d \in Class : {e \in Placed' \cup Wired' : Parent(e) = d} = {e \in Placed : Parent(e) = d}
      BY <2>4, <3>1, <3>2, <3>3
    <3> QED BY <2>3, <2>4, <3>4, UnderIs
  <2>6. CASE SuperOf[c] # Nil
    <3>1. Wired' = {}
      BY <2>2, <2>3, <2>6, WireSets DEF Wired, ToWire
    <3> QED BY <1>2, <2>3, <2>4, <3>1
  <2> QED BY <2>5, <2>6
<1>9. CASE job'.step # "head" /\ \A d \in Class : Under(d)' = Under(d)
  BY <1>1, <1>9, ListsAlone, SameGrow DEF HeadLeadsOn
<1> QED BY <1>3, <1>4, <1>5, <1>6, <1>7, <1>8, <1>9

LEMMA SiblingStep ==
    ASSUME FieldsInv, InLists, SetSibling
    PROVE  InLists' /\ HeadLeadsOn' /\ ListsGrow
<1> SUFFICES ASSUME NEW x, x = Head(job.wire) PROVE InLists' /\ HeadLeadsOn' /\ ListsGrow
  OBVIOUS
<1>1. job.step = "wire" /\ job.wire # <<>>
  BY DEF SetSibling
<1>2. x \in Class /\ x \notin Linked
  BY <1>1, NextToWire
<1>3. /\ job'.step = "head" /\ job'.cls = job.cls /\ job'.wire = job.wire
      /\ sibling' = [sibling EXCEPT ![x] = subclassList[super[x]]]
      /\ UNCHANGED <<subclassList, super, registered>>
  BY JobFields DEF FieldsInv, SetSibling, fields
<1>4. sibling'[x] = subclassList[super[x]] /\ \A d \in Class : d # x => sibling'[d] = sibling[d]
  BY <1>2, <1>3 DEF FieldsInv, TypeOK
<1>5. Linked' = Linked /\ Linked \subseteq Class
  <2>1. Placed' = Placed /\ Wired' = Wired
    BY <1>3 DEF Placed, Wired
  <2>2. Linked' = Linked
    BY <1>1, <1>3, <2>1, LinkedIs
  <2>3. job.cls \in Class /\ MetaOf[job.cls] \in Class
    BY <1>1, JobClass DEF FieldsInv
  <2> QED BY <1>1, <2>2, <2>3, LinkedIs DEF Placed, Wired
<1>6. ASSUME NEW c \in Class
      PROVE  /\ Holds(Subclasses(c), sibling', subclassList'[c], Under(c)')
             /\ Subclasses(c)' = Subclasses(c)
  <2>1. Under(c)' = Under(c) /\ \A d \in Under(c) : sibling'[d] = sibling[d]
    BY <1>2, <1>4, <1>5 DEF Under, Parent
  <2>2. Holds(Subclasses(c), sibling, subclassList[c], Under(c))
    BY DEF InLists
  <2>3. Holds(Subclasses(c), sibling', subclassList[c], Under(c))
    BY <2>1, <2>2, HoldsStill
  <2>4. ListFrom(sibling', subclassList[c]) = Subclasses(c)
    BY <2>3, HoldsFound
  <2> QED BY <1>3, <2>1, <2>3, <2>4, SubclassesAre
<1>7. InLists'
  BY <1>6 DEF InLists
<1>8. HeadLeadsOn'
  BY <1>3, <1>4 DEF HeadLeadsOn
<1> QED BY <1>6, <1>7, <1>8, SameGrow

LEMMA HeadStep ==
    ASSUME FieldsInv, InLists, HeadLeadsOn, SetHead
    PROVE  InLists' /\ HeadLeadsOn' /\ ListsGrow
<1> SUFFICES ASSUME NEW x, x = Head(job.wire), NEW p, p = super[x]
             PROVE  InLists' /\ HeadLeadsOn' /\ ListsGrow
  OBVIOUS
<1>1. job.step = "head" /\ job.wire # <<>>
  BY DEF FieldsInv, JobFits, SetHead
<1>2. /\ x \in Class /\ x \notin Linked /\ p = Parent(x) /\ p \in Class
      /\ {job.cls, MetaOf[job.cls]} \ ToSet(Tail(job.wire)) = Wired \cup {x}
      /\ sibling[x] = subclassList[p]
  BY <1>1, NextToWire DEF HeadLeadsOn
<1>3. /\ job'.step = "wire" /\ job'.cls = job.cls /\ job'.wire = Tail(job.wire)
      /\ subclassList' = [subclassList EXCEPT ![p] = x]
      /\ UNCHANGED <<sibling, registered>>
  BY JobFields DEF FieldsInv, SetHead
<1>4. subclassList'[p] = x /\ \A c \in Class : c # p => subclassList'[c] = subclassList[c]
  BY <1>2, <1>3 DEF FieldsInv, TypeOK
<1>5. Linked' = Linked \cup {x}
  <2>1. Placed' = Placed /\ Wired' = Wired \cup {x}
    BY <1>2, <1>3 DEF Placed, Wired
  <2> QED BY <1>1, <1>3, <2>1, LinkedIs
<1>6. \A c \in Class : Under(c)' = IF c = p THEN Under(c) \cup {x} ELSE Under(c)
  <2>1. ASSUME NEW c \in Class PROVE Under(c)' = IF c = p THEN Under(c) \cup {x} ELSE Under(c)
    BY <1>2, <1>5, UnderIs
  <2> QED BY <2>1
<1>7. /\ Holds(Before(x, Subclasses(p)), sibling', subclassList'[p], Under(p)')
      /\ Subclasses(p)' = Before(x, Subclasses(p))
  <2>1. Holds(Subclasses(p), sibling, subclassList[p], Under(p)) /\ x \notin Under(p)
    BY <1>2 DEF InLists, Under
  <2>2. Holds(Before(x, Subclasses(p)), sibling, x, Under(p) \cup {x})
    BY <1>2, <2>1, HoldsOneMore
  <2>3. ListFrom(sibling, x) = Before(x, Subclasses(p))
    BY <2>2, HoldsFound
  <2> QED BY <1>2, <1>3, <1>4, <1>6, <2>2, <2>3, SubclassesAre
<1>8. ASSUME NEW c \in Class, c # p
      PROVE  /\ Holds(Subclasses(c), sibling', subclassList'[c], Under(c)')
             /\ Subclasses(c)' = Subclasses(c)
  <2>1. Holds(Subclasses(c), sibling, subclassList[c], Under(c))
    BY DEF InLists
  <2> QED BY <1>3, <1>4, <1>6, <1>8, <2>1, SubclassesAre
<1>9. InLists'
  BY <1>7, <1>8 DEF InLists
<1>10. HeadLeadsOn'
  BY <1>3 DEF HeadLeadsOn
<1>11. ListsGrow
  <2> SUFFICES ASSUME NEW c \in Class PROVE IsSuffix(Subclasses(c), Subclasses(c)')
    BY DEF ListsGrow
  <2>1. Subclasses(c) \in Seq(Class)
    BY DEF InLists, Holds, IsList
  <2>2. IsSuffix(Subclasses(c), Subclasses(c)) /\ IsSuffix(Subclasses(c), Before(x, Subclasses(c)))
    BY <1>2, <2>1, EndsOfList
  <2> QED BY <1>7, <1>8, <2>2
<1> QED BY <1>9, <1>10, <1>11

LEMMA ListsInit == Init => ListsWired
<1> SUFFICES ASSUME Init PROVE ListsWired
  OBVIOUS
<1>1. job.step = "none" /\ Placed = {} /\ Placed \cup {} = {}
  BY DEF Init, NoJob, Placed
<1>2. Linked = {}
  BY <1>1, LinkedIs
<1>3. Holds(<<>>, sibling, Nil, {})
  <2>1. <<>> \in Seq(Class) /\ Len(<<>>) = 0 /\ ToSet(<<>>) = {} /\ IsInjective(<<>>)
    BY WireSets DEF IsInjective
  <2> QED BY <2>1 DEF Holds, IsList
<1>4. ListFrom(sibling, Nil) = <<>>
  BY <1>3, HoldsFound
<1>5. ASSUME NEW c \in Class PROVE Holds(Subclasses(c), sibling, subclassList[c], Under(c))
  <2>1. subclassList[c] = Nil /\ Under(c) = {}
    BY <1>2, UnderIs DEF Init
  <2>2. Subclasses(c) = <<>>
    BY <1>4, <2>1, SubclassesAre
  <2> QED BY <1>3, <2>1, <2>2
<1> QED BY <1>1, <1>5, WiredIs DEF InLists, HeadLeadsOn

\* Every step keeps the lists, and only puts class objects in front.
LEMMA ListsStep ==
    ASSUME FieldsInv, ListsWired, [Next]_vars
    PROVE  InLists' /\ HeadLeadsOn' /\ ListsGrow
<1>1. InLists /\ HeadLeadsOn
  BY WiredIs
<1>2. CASE \E i \in Image : Load(i)
  BY <1>1, <1>2, OtherSteps
<1>3. CASE LoadStep
  <2>1. CASE \E s \in Compiled : FixUpSelector(s)
    BY <1>1, <2>1, OtherSteps DEF FixUpSelector
  <2>2. CASE \E c \in Class \ Meta : PatchClass(c)
    BY <1>1, <2>2, OtherSteps
  <2>3. CASE PatchMeta \/ RegisterLoaded \/ LoadDone
    BY <1>1, <2>3, OtherSteps
  <2> QED BY <1>1, <1>3, <2>1, <2>2, <2>3, SiblingStep, HeadStep DEF LoadStep
<1>4. CASE \E t \in Thread : Register(t) /\ UNCHANGED loadVars
  BY <1>1, <1>4, OtherSteps
<1>5. CASE UNCHANGED vars
  BY <1>1, <1>5, OtherSteps DEF vars
<1> QED BY <1>2, <1>3, <1>4, <1>5 DEF Next

LEMMA LInvInit == Init /\ SelTypeOK => LInv
BY FieldsInvInit, ListsInit DEF LInv

LEMMA WiredNext == InLists' /\ HeadLeadsOn' => ListsWired'
BY DEF ListsWired, ListsFollowHierarchy, InLists, HeadLeadsOn, Holds, Under

LEMMA LInvStep == LInv /\ SelTypeOK' /\ [Next]_vars => LInv'
<1> SUFFICES ASSUME LInv, SelTypeOK', [Next]_vars PROVE LInv'
  OBVIOUS
<1>1. FieldsInv'
  BY FieldsInvStep DEF LInv
<1>2. ListsWired'
  BY ListsStep, WiredNext DEF LInv
<1> QED BY <1>1, <1>2 DEF LInv

--------------------------------------------------------------------------------
\* The inductive invariant, types included, for any images and classes
\* (__objc_load).
THEOREM LoaderInvariance == Spec => []LInv
<1>1. Spec => []SelTypeOK
  <2>1. SelInv => SelTypeOK
    BY DEF SelInv
  <2> QED BY <2>1, LoaderUsesSelectors, SelInvariance, PTL
<1> QED BY <1>1, LInvInit, LInvStep, PTL DEF Spec

\* A class is in the registry once it and its metaclass are patched and the
\* selectors of their methods are fixed up, and with the classes above it once
\* its image is loaded (load_classes, register_loaded_class).
THEOREM ReadyWhenRegistered == Spec => []RegisteredIsReady
<1>1. FieldsInv => RegisteredIsReady
  <2> SUFFICES ASSUME FieldsInv, NEW c \in registered
               PROVE  /\ \A d \in {c, MetaOf[c]} : Patched(d) /\ MethodSels[d] \subseteq fixedUp
                      /\ job = NoJob /\ SuperOf[c] # Nil => SuperOf[c] \in registered
    BY DEF RegisteredIsReady
  <2>1. \A d \in {c, MetaOf[c]} : Patched(d) /\ MethodSels[d] \subseteq fixedUp
    BY DEF FieldsInv, PatchedSoFar
  <2>2. ASSUME job = NoJob, SuperOf[c] # Nil PROVE SuperOf[c] \in registered
    <3>1. job.step = "none"
      BY <2>2 DEF NoJob
    <3>2. c \in Class \ Meta /\ SuperOf[c] \in Class \ Meta
      BY <2>2, ImageShape DEF FieldsInv, TypeOK
    <3>3. ImageOf[c] \in loaded
      BY <3>1 DEF FieldsInv, ImagesInOrder
    <3>4. ImageOf[SuperOf[c]] \in loaded
      BY <2>2, <3>1, <3>2, <3>3 DEF FieldsInv, ImagesInOrder
    <3> QED BY <3>2, <3>4 DEF FieldsInv, ImagesInOrder
  <2> QED BY <2>1, <2>2
<1>2. LInv => RegisteredIsReady
  BY <1>1 DEF LInv
<1> QED BY <1>2, LoaderInvariance, PTL

\* The metaclass chain of a registered class is complete, whatever the order of
\* the section and however many classes are above it (load_classes).
THEOREM ChainsComplete == Spec => []ChainComplete
<1>1. LInv => ChainComplete
  BY DEF LInv, FieldsInv, TypeOK, ClassFieldsKept, MetasSoFar, ChainComplete
<1> QED BY <1>1, LoaderInvariance, PTL

\* Between any two writes of a load every list of subclasses ends, and holds
\* once each class object that has been put below, for any order of the section
\* (load_classes, which links the class and then its metaclass).
THEOREM ListsAlwaysFollow == Spec => []ListsFollowHierarchy
<1>1. LInv => ListsFollowHierarchy
  BY DEF LInv, ListsWired
<1> QED BY <1>1, LoaderInvariance, PTL

--------------------------------------------------------------------------------
\* What a class in use consists of: the fields of one of its class objects are
\* those of before.
FieldsStay(d) ==
    /\ isa'[d] = isa[d] /\ super'[d] = super[d] /\ size'[d] = size[d]
    /\ methodList'[d] = methodList[d] /\ d \in cached'

\* Only a class that is not registered, or its metaclass, is patched.
LEMMA FieldsOfOthersStay ==
    ASSUME FieldsInv, [Next]_vars, NEW c \in registered, NEW d \in {c, MetaOf[c]}
    PROVE  FieldsStay(d)
<1>1. c \in Class \ Meta /\ MetaOf[c] \in Meta /\ MetaOf[c] \in Class /\ d \in Class /\ d \in cached
  BY ImageShape DEF FieldsInv, TypeOK, PatchedSoFar, Patched
<1>2. CASE \E e \in Class \ Meta : PatchClass(e)
  <2> PICK e \in Class \ Meta : PatchClass(e)
    BY <1>2
  <2>1. e \notin registered /\ d # e
    BY <1>1 DEF PatchClass
  <2> QED BY <1>1, <2>1 DEF PatchClass, Patch, FieldsStay, FieldsInv, TypeOK
<1>3. CASE PatchMeta
  <2> SUFFICES ASSUME NEW m, m = isa[job.cls] PROVE FieldsStay(d)
    OBVIOUS
  <2>1. job.step = "meta"
    BY <1>3 DEF PatchMeta
  <2>2. /\ job.cls \in Class \ Meta /\ job.cls \notin registered /\ m = MetaOf[job.cls]
    BY <2>1, JobClass DEF FieldsInv
  <2>3. d # m
    BY <1>1, <2>2, ImageShape
  <2> QED BY <1>1, <1>3, <2>3 DEF PatchMeta, Patch, FieldsStay, FieldsInv, TypeOK
<1>4. CASE UNCHANGED fields
  BY <1>1, <1>4 DEF fields, FieldsStay
<1>5. CASE \E i \in Image : Load(i)
  BY <1>4, <1>5 DEF Load
<1>6. CASE \E s \in Compiled : FixUpSelector(s)
  BY <1>4, <1>6 DEF FixUpSelector, loadVars, fields
<1>7. CASE SetSibling \/ SetHead \/ RegisterLoaded \/ LoadDone
  BY <1>4, <1>7 DEF SetSibling, SetHead, RegisterLoaded, LoadDone
<1>8. CASE \E t \in Thread : Register(t) /\ UNCHANGED loadVars
  BY <1>4, <1>8 DEF loadVars, fields
<1>9. CASE UNCHANGED vars
  BY <1>4, <1>9 DEF vars, loadVars, fields
<1> QED BY <1>2, <1>3, <1>5, <1>6, <1>7, <1>8, <1>9 DEF Next, LoadStep

\* Loading leaves the classes in use alone, and only puts others in front of
\* their lists of subclasses (__objc_load beside running threads).
THEOREM LoadedStaysPut == Spec => LoadedStays
<1>1. LInv /\ [Next]_vars =>
        [\A c \in registered : \A d \in {c, MetaOf[c]} :
           /\ isa'[d] = isa[d] /\ super'[d] = super[d] /\ size'[d] = size[d]
           /\ methodList'[d] = methodList[d] /\ d \in cached'
           /\ IsSuffix(Subclasses(d), Subclasses(d)')]_vars
  <2> SUFFICES ASSUME LInv, [Next]_vars, NEW c \in registered, NEW d \in {c, MetaOf[c]}
               PROVE  FieldsStay(d) /\ IsSuffix(Subclasses(d), Subclasses(d)')
    BY DEF FieldsStay
  <2>1. FieldsStay(d)
    BY FieldsOfOthersStay DEF LInv
  <2>2. d \in Class
    BY ImageShape DEF LInv, FieldsInv, TypeOK
  <2>3. ListsGrow
    BY ListsStep DEF LInv
  <2> QED BY <2>1, <2>2, <2>3 DEF ListsGrow
<1> QED BY <1>1, LoaderInvariance, PTL DEF Spec, LoadedStays
================================================================================
