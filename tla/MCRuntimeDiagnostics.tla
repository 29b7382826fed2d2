------------------------ MODULE MCRuntimeDiagnostics ------------------------
(***************************************************************************)
(* Two consoles and a runtime of a few lines, with limits so small that    *)
(* both the harvest and the pages are cut.                                 *)
(***************************************************************************)
EXTENDS RuntimeDiagnostics, TLC

CONSTANTS c1, c2

\* The consoles are interchangeable.
Interchangeable == Permutations(Consoles)
=============================================================================
