---------------------------- MODULE MCFileInstall ----------------------------
(***************************************************************************)
(* Two publishers replacing an artifact while a consumer reads it.         *)
(***************************************************************************)
EXTENDS FileInstall, TLC

CONSTANTS c1, p1, p2, v0, v1, v2

mcVersionOf == (p1 :> v1) @@ (p2 :> v2)
\* The second version has the size of the previous one, the first is shorter.
mcSize == (v0 :> 2) @@ (v1 :> 1) @@ (v2 :> 2)
=============================================================================
