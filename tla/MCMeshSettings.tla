--------------------------- MODULE MCMeshSettings ---------------------------
(* MeshSettings with every short answer over a small alphabet. *)
EXTENDS MeshSettings

CONSTANT MaxLength

MCTexts == BoundedSeq({"k", "=", "#", " ", "\n"}, MaxLength)
=============================================================================
