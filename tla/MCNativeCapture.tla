-------------------------- MODULE MCNativeCapture --------------------------
(* Small lanes for TLC: which run reads and writes which path. *)
EXTENDS NativeCaptureInvariant, TLC

CONSTANTS c1, c2, l1, l2, o1, o2, f1, out, lib

\* Two runs that both write o1 (a rebuild, or a recursive make racing itself).
MCCompile == {c1, c2}
MCInputOf == (c1 :> f1) @@ (c2 :> f1)
RebuildObjectOf == (c1 :> o1) @@ (c2 :> o1)
\* Two runs with an object each.
PairObjectOf == (c1 :> o1) @@ (c2 :> o2)

OneLinkObjects == (l1 :> <<o1>>)
OneLinkDsos == (l1 :> {})
OneLinkOutput == (l1 :> out)

\* A shared library and an executable that needs it, linked from one object.
DsoLinkObjects == (l1 :> <<o1>>) @@ (l2 :> <<o1, o2>>)
DsoLinkDsos == (l1 :> {}) @@ (l2 :> {lib})
DsoLinkOutput == (l1 :> lib) @@ (l2 :> out)

\* No link at all: the build only archives.
NoLinkObjects == [l \in {} |-> <<>>]
NoLinkDsos == [l \in {} |-> {}]
NoLinkOutput == [l \in {} |-> out]
=============================================================================
