--------------------------- MODULE MCProjectAccess ---------------------------
(* A small project for TLC. *)
EXTENDS ProjectAccess, TLC

Symmetry == Permutations(Humans)
=============================================================================
