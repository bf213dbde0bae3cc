--------------------------- MODULE MCWorkerProcess ---------------------------
(* The worker with the two native calls of the code, for TLC. *)
EXTENDS WorkerProcess
=============================================================================
