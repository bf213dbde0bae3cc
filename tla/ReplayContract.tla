--------------------------- MODULE ReplayContract ---------------------------
(* What a client of one idempotency key is promised, without transactions:   *)
(* while an outcome is kept nothing is performed under the key, and every    *)
(* answer names the outcome kept for the meaning that was asked.             *)
EXTENDS Naturals

CONSTANTS Meanings, Retention, Never, NoOutcome

VARIABLES
    clock,
    outcome,        \* the kept outcome: its operation, meaning and deadline
    performed,      \* operations whose effects were committed
    told            \* <<meaning, operation>> of every answer

contractVars == <<clock, outcome, performed, told>>

Over == outcome.until # Never /\ outcome.until <= clock
Free == outcome = NoOutcome \/ Over

ContractInit ==
    /\ clock = 0
    /\ outcome = NoOutcome
    /\ performed = {}
    /\ told = {}

\* Under a free key: a fresh operation, kept for whatever time the work is open.
Perform(meaning) ==
    /\ Free
    /\ outcome' # NoOutcome
    /\ outcome'.op \notin performed
    /\ outcome'.meaning = meaning
    /\ performed' = performed \union {outcome'.op}
    /\ told' = told \union {<<meaning, outcome'.op>>}
    /\ UNCHANGED clock

Answer(meaning) ==
    /\ outcome # NoOutcome
    /\ outcome.meaning = meaning
    /\ told' = told \union {<<meaning, outcome.op>>}
    /\ UNCHANGED <<clock, outcome, performed>>

\* The work behind an accepted operation is over: its outcome gets a deadline.
Close ==
    /\ outcome # NoOutcome
    /\ outcome.until = Never
    /\ outcome' = [outcome EXCEPT !.until = clock + Retention]
    /\ UNCHANGED <<clock, performed, told>>

\* Nobody relies on an outcome past its deadline.
Forget ==
    /\ outcome # NoOutcome
    /\ Over
    /\ outcome' = NoOutcome
    /\ UNCHANGED <<clock, performed, told>>

Pass ==
    /\ clock' = clock + 1
    /\ UNCHANGED <<outcome, performed, told>>

ContractNext ==
    \/ \E meaning \in Meanings : Perform(meaning) \/ Answer(meaning)
    \/ Close
    \/ Forget
    \/ Pass

ContractSpec == ContractInit /\ [][ContractNext]_contractVars
=============================================================================
