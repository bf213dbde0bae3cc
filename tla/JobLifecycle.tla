---------------------------- MODULE JobLifecycle ----------------------------
(***************************************************************************)
(* What the durable job queue promises to the rest of the system, without  *)
(* leases, fences, checkpoints or effect rows.  An accepted job waits, is  *)
(* active in at most MaxAttempts attempts of which only one exists in the  *)
(* whole installation at a time, and ends either settled (its outcome is   *)
(* known) or in doubt (an external effect may have happened and nobody may *)
(* repeat it).  Neither end is ever left.                                  *)
(***************************************************************************)
EXTENDS Naturals, FiniteSets

CONSTANTS Jobs,      \* job identities
          Capacity   \* bound on waiting plus active jobs

\* postgres_job_store.py: row.attempt_count >= 3
MaxAttempts == 3

Phases == {"absent", "waiting", "active", "settled", "doubt"}

VARIABLES phase,   \* phase[j]: where job j is in its life
          tries    \* tries[j]: attempts started so far

lifeVars == <<phase, tries>>

Accepted == {j \in Jobs : phase[j] \in {"waiting", "active"}}
Active == {j \in Jobs : phase[j] = "active"}

LifeInit ==
    /\ phase = [j \in Jobs |-> "absent"]
    /\ tries = [j \in Jobs |-> 0]

Accept(j) ==
    /\ phase[j] = "absent"
    /\ Cardinality(Accepted) < Capacity
    /\ phase' = [phase EXCEPT ![j] = "waiting"]
    /\ UNCHANGED tries

Activate(j) ==
    /\ phase[j] = "waiting"
    /\ Active = {}
    /\ tries[j] < MaxAttempts
    /\ phase' = [phase EXCEPT ![j] = "active"]
    /\ tries' = [tries EXCEPT ![j] = @ + 1]

\* The attempt is over and the remaining work is known to be safe to repeat.
GiveBack(j) ==
    /\ phase[j] = "active"
    /\ tries[j] < MaxAttempts
    /\ phase' = [phase EXCEPT ![j] = "waiting"]
    /\ UNCHANGED tries

Settle(j) ==
    /\ phase[j] \in {"waiting", "active"}
    /\ phase' = [phase EXCEPT ![j] = "settled"]
    /\ UNCHANGED tries

Doubt(j) ==
    /\ phase[j] = "active"
    /\ phase' = [phase EXCEPT ![j] = "doubt"]
    /\ UNCHANGED tries

LifeNext ==
    \E j \in Jobs : Accept(j) \/ Activate(j) \/ GiveBack(j) \/ Settle(j) \/ Doubt(j)

LifeSpec == LifeInit /\ [][LifeNext]_lifeVars
=============================================================================
