--------------------------- MODULE MCModelImports ---------------------------
(***************************************************************************)
(* Two Workspaces and the legacy routes, one key, two request bodies.      *)
(***************************************************************************)
EXTENDS ModelImports, TLC

CONSTANTS i1, i2, i3, w1, w2, k1, r1, r2

\* Ids and Workspaces are interchangeable.
Interchangeable == Permutations(Imports) \cup Permutations(Workspaces)
=============================================================================
