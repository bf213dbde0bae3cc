----------------------------- MODULE MCJobQueue -----------------------------
(* Small instances of the durable job queue for TLC: jobs that have the    *)
(* queue to themselves, and three jobs that share a queue of two.          *)
EXTENDS JobQueue

\* One job at a time: each behaviour admits a product job or a cleanup job, and
\* nothing changes about the other.
Untouched(j) == job[j].status = "absent" /\ authority[j] /\ target[j] = "free" /\ j \notin complete
Alone == \A i, j \in Jobs : i = j \/ Untouched(i) \/ Untouched(j)
=============================================================================
