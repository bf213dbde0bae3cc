----------------------- MODULE MCOperationReservation -----------------------
(* Three requests with one key and two meanings for TLC. *)
EXTENDS OperationReservation, TLC

Symmetry == Permutations(Clients) \union Permutations(Meanings)
=============================================================================
