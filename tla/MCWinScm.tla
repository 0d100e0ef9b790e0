------------------------------ MODULE MCWinScm ------------------------------
(* WinScm with two callers: one may act between any two calls of the other. *)
EXTENDS WinScm

CONSTANTS c1, c2

MCCallers == {c1, c2}
=============================================================================
