-------------------------------- MODULE MCLoader -------------------------------
(* An instance of Loader for TLC.                                             *)
EXTENDS Loader, TLC

CONSTANTS main, plugin, root, child, grand, rootMeta, childMeta, grandMeta, extra, extraMeta,
          foo, bar, cFoo, cBar, pFoo, a1, a2, a3, a4, a5, c1, c2, t1, t2

\* A program of three classes, each below the one before, and a plugin with
\* another below the root class: both send "foo".
Metas == (root :> rootMeta) @@ (child :> childMeta) @@ (grand :> grandMeta) @@ (extra :> extraMeta)
Supers == (root :> Nil) @@ (child :> root) @@ (grand :> child) @@ (extra :> root)
Images == (root :> main) @@ (child :> main) @@ (grand :> main) @@ (extra :> plugin)
Objects == DOMAIN Metas \cup {rootMeta, childMeta, grandMeta, extraMeta}
Sections == (main :> {cFoo, cBar}) @@ (plugin :> {pFoo})
Methods == [c \in Objects |-> CASE c = root -> {cFoo} [] c = childMeta -> {cBar}
                                [] c = extra -> {pFoo} [] OTHER -> {}]
Sizes == [c \in Objects |-> CASE c = root -> 0 [] c \in {child, extra} -> -2 [] OTHER -> 1]
Literals == (cFoo :> a1) @@ (cBar :> a2) @@ (pFoo :> a3)
Texts == (cFoo :> foo) @@ (cBar :> bar) @@ (pFoo :> foo)
================================================================================
