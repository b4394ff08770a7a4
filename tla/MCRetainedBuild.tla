-------------------------- MODULE MCRetainedBuild --------------------------
(* Two objects and one output that is linked twice: from one object by a link    *)
(* the recorder does not support, and from both.                                 *)
EXTENDS RetainedBuildInvariant, TLC

CONSTANTS c1, c2, l1, l2, o1, o2, f1, out

MCInputOf == (c1 :> f1) @@ (c2 :> f1)
MCObjectOf == (c1 :> o1) @@ (c2 :> o2)
MCObjectsOf == (l1 :> <<o1>>) @@ (l2 :> <<o1, o2>>)
MCDsosOf == (l1 :> {}) @@ (l2 :> {})
MCOutputOf == (l1 :> out) @@ (l2 :> out)

\* createUniqueFile's names are interchangeable.
NameSymmetry == Permutations(Name)

\* An archive is made where both compilers succeeded and no link is running; an
\* interrupted lane that stopped before that is left to the linked outputs.
ArchivedLast ==
    archive = <<>> \/ (Returned /\ \A c \in Compile : compiler[c].pc = "done")
=============================================================================
