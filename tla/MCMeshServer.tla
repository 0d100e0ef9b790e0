---------------------------- MODULE MCMeshServer ----------------------------
(* MeshServer with two downloads, each of its own group, in one directory. *)
EXTENDS MeshServer, TLC

CONSTANTS d1, d2

MCDownloaders == {d1, d2}

\* Downloads are interchangeable; used by the run that checks no liveness.
Symmetry == Permutations(MCDownloaders)
=============================================================================
