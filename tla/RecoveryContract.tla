-------------------------- MODULE RecoveryContract --------------------------
(* What recovery promises to everything that trusts a credential, without     *)
(* workers, runs or proofs: each admitted recovery blocks the identity until  *)
(* it is released, and is released only once nothing issued before it works.  *)
EXTENDS Naturals

CONSTANTS
    MaxRecoveries,  \* bound: recoveries of the identity
    Surfaces        \* where its credentials live

ASSUME ContractAssumption == MaxRecoveries \in Nat \ {0}

VARIABLES
    admitted,       \* recoveries admitted so far, numbered in their order
    released,       \* those that block no longer
    exposed         \* exposed[s]: recoveries whose earlier credentials may still work on s

contractVars == <<admitted, released, exposed>>

ContractInit ==
    /\ admitted = {}
    /\ released = {}
    /\ exposed = [s \in Surfaces |-> {}]

\* From now on, whatever is already out counts as issued before r.
Block(r) ==
    /\ r \notin admitted
    /\ 1 .. r - 1 \subseteq admitted
    /\ admitted' = admitted \union {r}
    /\ exposed' = [s \in Surfaces |-> exposed[s] \union {r}]
    /\ UNCHANGED released

\* Credentials from before some recoveries stop working on one surface, for good.
Revoke(s) ==
    /\ \E gone \in SUBSET exposed[s] : exposed' = [exposed EXCEPT ![s] = @ \ gone]
    /\ UNCHANGED <<admitted, released>>

Release(r) ==
    /\ r \in admitted
    /\ \A s \in Surfaces : r \notin exposed[s]
    /\ released' = released \union {r}
    /\ UNCHANGED <<admitted, exposed>>

ContractNext ==
    \/ \E r \in 1 .. MaxRecoveries : Block(r) \/ Release(r)
    \/ \E s \in Surfaces : Revoke(s)

ContractSpec == ContractInit /\ [][ContractNext]_contractVars
=============================================================================
