------------------------------ MODULE MCMeshctl ------------------------------
(* Meshctl with one or two processes, each of its own device group. *)
EXTENDS Meshctl, TLC

CONSTANTS p1, p2

MCProcs == {p1, p2}

\* Processes are interchangeable; used where no liveness is checked.
Symmetry == Permutations(MCProcs)
=============================================================================
