------------------------------- MODULE MCDispatch ------------------------------
(* Instances of Dispatch for TLC.                                             *)
EXTENDS Dispatch, TLC

CONSTANTS t1, t2, root, child, grand, rootMeta, childMeta, grandMeta,
          nRoot, nChild, nGrand, s1, s2, s3, i1, i2

Three == {root, child, grand, rootMeta, childMeta, grandMeta}
Two == {root, child, rootMeta, childMeta}

\* Three classes made at run time, each below the one before; the last is
\* registered under the name of the second, which it displaces.
DynamicChain == (root :> <<root>>) @@ (child :> <<child, root>>)
             @@ (grand :> <<grand, child, root>>)
             @@ (rootMeta :> <<rootMeta>>) @@ (childMeta :> <<childMeta, rootMeta>>)
             @@ (grandMeta :> <<grandMeta, childMeta, rootMeta>>)
MetaOfThree == (root :> rootMeta) @@ (child :> childMeta) @@ (grand :> grandMeta)
SharedNames == (root :> nRoot) @@ (child :> nChild) @@ (grand :> nChild)
NoSubs == [c \in Three |-> {}]
NoImps == [c \in Three |-> [s \in Sel |-> Nil]]

\* A class and a subclass that came with the binary: the loader puts the root
\* metaclass below the root class, and in no subclass list.
LoadedChain == (root :> <<root>>) @@ (child :> <<child, root>>)
            @@ (rootMeta :> <<rootMeta, root>>) @@ (childMeta :> <<childMeta, rootMeta, root>>)
MetaOfTwo == (root :> rootMeta) @@ (child :> childMeta)
NamesOfTwo == (root :> nRoot) @@ (child :> nChild)
WiredSubs == (root :> {child}) @@ (child :> {}) @@ (rootMeta :> {childMeta}) @@ (childMeta :> {})
ChildImps == [c \in Two |-> [s \in Sel |-> IF s = s1 /\ c = root THEN i1
                                           ELSE IF s = s1 /\ c = child THEN i2 ELSE Nil]]

\* The same, and a class made at run time below the second, which has two methods.
GrowingChain == LoadedChain @@ (grand :> <<grand, child, root>>)
             @@ (grandMeta :> <<grandMeta, childMeta, rootMeta, root>>)
NamesOfThree == NamesOfTwo @@ (grand :> nGrand)
WiredSubsOfTwo == [c \in Three |-> IF c \in Two THEN WiredSubs[c] ELSE {}]
TwoImps == [c \in Three |-> [s \in Sel |-> IF c = child /\ s # s3 THEN i1 ELSE Nil]]

ImpThreadSymmetry == Permutations(Thread) \cup Permutations(Imp)
================================================================================
