--------------------------- MODULE SpendingLedger ---------------------------
(***************************************************************************)
(* Spending accounting of one project: SpendingAccountingService, the      *)
(* policy change of ProjectSpendingPolicyService and the ledger tables     *)
(* they write.  Each action is one transaction; all of them lock the       *)
(* project's policy row first, so they do not overlap.                     *)
(*                                                                         *)
(* A refused call (revoked authority, canceled job, stale revision) writes *)
(* nothing and is the absence of a step.  Whether the caller still owns    *)
(* its job's attempt is the environment's choice: a lease may be lost at   *)
(* any moment.                                                             *)
(***************************************************************************)
EXTENDS Integers, FiniteSets, Functions

CONSTANTS
    Calls,          \* model calls of the project
    Operations,     \* admitted operations
    OperationOf,    \* the operation each call belongs to
    Evidence,       \* evidence_ids an owner may use for a call
    NoEvidence,     \* resolved_by_evidence_id IS NULL
    Limits,         \* limits an administrator or an operation may set
    MaxAmount,      \* bound: the largest amount of one call
    MaxRevision,    \* RevisionValidation.MAX_VALUE, small in the runs
    Months          \* bound: the last month

ASSUME SpendingAssumption ==
    /\ IsFiniteSet(Calls)
    /\ OperationOf \in [Calls -> Operations]
    /\ NoEvidence \notin Evidence
    /\ Limits \subseteq Nat
    /\ MaxAmount \in Nat /\ MaxRevision \in Nat /\ Months \in Nat \ {0}

None == -1      \* a NULL amount or limit
Unset == -2     \* an operation that has no row yet

Amounts == 0 .. MaxAmount
Maybe == Amounts \cup {None}
States == {"absent", "reserved", "accounting_approved", "unresolved", "settled", "released"}
Final == {"settled", "released"}

VARIABLES
    month,      \* the current accounting period
    limit,      \* the project's monthly limit
    opLimit,    \* operation_limit of each operation
    call,       \* model_call_accounting
    evidence,   \* evidence[c][e]: model_call_accounting_evidence
    bill        \* what the provider charges for each call, should it be sent

vars == <<month, limit, opLimit, call, evidence, bill>>

Receipt == [state: States, hold: Maybe, settled: Maybe, revision: Nat]
NoReceipt == [state |-> "absent", hold |-> None, settled |-> None, revision |-> 0]

CallRow == [state: States, hold: Maybe, settled: Maybe, revision: Nat, reserved: Maybe, period: 0 .. Months]
NoCall ==
    [state |-> "absent", hold |-> None, settled |-> None, revision |-> 0,
     reserved |-> None, period |-> 0]

\* What the row returns of a call.
Result(r) == [state |-> r.state, hold |-> r.hold, settled |-> r.settled, revision |-> r.revision]

\* "not_sent" acts as "not_billed" does, and usage the basis can price as a charge
\* of its cost; a usage without an amount is one the basis cannot price.
Observations == [kind: {"not_billed", "charge", "usage", "uncertain"}, amount: Maybe]

EvidenceRow ==
    [known: BOOLEAN, observation: Observations, wasPending: BOOLEAN, applied: Receipt,
     resolvedBy: Evidence \cup {NoEvidence}, resolution: Receipt]
Unseen ==
    [known |-> FALSE, observation |-> [kind |-> "uncertain", amount |-> None],
     wasPending |-> FALSE, applied |-> NoReceipt, resolvedBy |-> NoEvidence,
     resolution |-> NoReceipt]

TypeOK ==
    /\ month \in 1 .. Months
    /\ limit \in Limits \cup {None}
    /\ opLimit \in [Operations -> Limits \cup {None, Unset}]
    /\ call \in [Calls -> CallRow]
    /\ evidence \in [Calls -> [Evidence -> EvidenceRow]]
    /\ bill \in [Calls -> Amounts]

Init ==
    /\ month = 1
    /\ limit = None
    /\ opLimit = [o \in Operations |-> Unset]
    /\ call = [c \in Calls |-> NoCall]
    /\ evidence = [c \in Calls |-> [e \in Evidence |-> Unseen]]
    /\ bill = [c \in Calls |-> 0]

Recorded == {c \in Calls : call[c].state # "absent"}

-----------------------------------------------------------------------------
(* Totals and the allowance.                                               *)

Settled(S) ==
    SumFunctionOnSet([c \in Calls |-> call[c].settled], {c \in S : call[c].state = "settled"})

Active(c) == call[c].state \notin Final

\* SUM skips the NULL holds.
Held(S) ==
    SumFunctionOnSet([c \in Calls |-> call[c].hold],
                     {c \in S : Active(c) /\ call[c].hold # None})

Pending(row) == row.wasPending /\ row.resolvedBy = NoEvidence

\* A call whose cost has no conservative bound: late evidence awaits review, or
\* its hold is unquantified.
Incomplete(c) ==
    \/ \E e \in Evidence : Pending(evidence[c][e])
    \/ Active(c) /\ call[c].hold = None

\* SpendingAllowancePolicy._fits behind the completeness checks of
\* _require_allowance.  The call itself is excluded from the totals, never from
\* the completeness check.
Allows(cap, c, S, amount) ==
    cap # None =>
        /\ amount # None
        /\ \A d \in S : ~Incomplete(d)
        /\ Settled(S \ {c}) + Held(S \ {c}) + amount <= cap

InPeriod(p) == {c \in Recorded : call[c].period = p}
InOperation(o) == {c \in Recorded : OperationOf[c] = o}

Allowance(c, period, operationLimit, amount) ==
    /\ Allows(limit, c, InPeriod(period), amount)
    /\ Allows(operationLimit, c, InOperation(OperationOf[c]), amount)

-----------------------------------------------------------------------------
(* Transactions.                                                           *)

\* reserve, of a new call.  maximum is the cost of the captured maximum usage,
\* or None when the basis cannot price it; the provider bills no more than that,
\* which is what makes it a maximum.  The operation's limit is fixed by its
\* first call.
Reserve(c, maximum, operationLimit, cost) ==
    /\ call[c].state = "absent"
    /\ maximum # None => cost <= maximum
    /\ opLimit[OperationOf[c]] \in {Unset, operationLimit}
    /\ Allowance(c, month, operationLimit, maximum)
    /\ opLimit' = [opLimit EXCEPT ![OperationOf[c]] = operationLimit]
    /\ call' = [call EXCEPT ![c] =
          [NoCall EXCEPT !.state = "reserved", !.hold = maximum, !.reserved = maximum,
                         !.period = month]]
    /\ bill' = [bill EXCEPT ![c] = cost]
    /\ UNCHANGED <<month, limit, evidence>>

\* approve_accounting: its caller may now send the call.
Approve(c) ==
    /\ call[c].state = "reserved"
    /\ call[c].revision < MaxRevision
    /\ Allowance(c, call[c].period, opLimit[OperationOf[c]], call[c].hold)
    /\ call' = [call EXCEPT ![c].state = "accounting_approved", ![c].revision = @ + 1]
    /\ UNCHANGED <<month, limit, opLimit, evidence, bill>>

\* Mutant: an uncertain outcome frees the hold.
OptimisticMutant(r, o) ==
    CASE o.kind \in {"not_billed", "uncertain"} ->
            [r EXCEPT !.state = "released", !.hold = 0, !.settled = 0, !.revision = @ + 1]
      [] OTHER -> [r EXCEPT !.state = "settled", !.hold = 0, !.settled = o.amount, !.revision = @ + 1]

\* _apply_observation.
Applied(r, o) ==
    IF o.kind = "not_billed"
    THEN [r EXCEPT !.state = "released", !.hold = 0, !.settled = 0, !.revision = @ + 1]
    ELSE IF o.amount # None
    THEN [r EXCEPT !.state = "settled", !.hold = 0, !.settled = o.amount, !.revision = @ + 1]
    ELSE IF r.state \in Final
    THEN [r EXCEPT !.revision = @ + 1]
    ELSE [r EXCEPT !.state = "unresolved",
                   !.hold = IF o.kind = "usage" THEN None ELSE @,
                   !.revision = @ + 1]

\* Evidence counts at once only under live ownership and while the outcome is
\* still open.
Applicable(c, owned) == owned /\ call[c].state \notin Final

\* record_observation, of evidence not recorded before; a repetition returns
\* the original receipt and writes nothing.
RecordObservation(c, e, o, owned) ==
    /\ c \in Recorded
    /\ ~evidence[c][e].known
    /\ call[c].revision < MaxRevision
    /\ LET updated == IF Applicable(c, owned) THEN Applied(call[c], o)
                      ELSE [call[c] EXCEPT !.revision = @ + 1]
       IN  /\ call' = [call EXCEPT ![c] = updated]
           /\ evidence' = [evidence EXCEPT ![c][e] =
                 [Unseen EXCEPT !.known = TRUE,
                                !.observation = o,
                                !.wasPending = ~Applicable(c, owned),
                                !.applied = IF Applicable(c, owned) THEN Result(updated)
                                            ELSE NoReceipt]]
    /\ UNCHANGED <<month, limit, opLimit, bill>>

\* Mutant: evidence that resolved itself is not seen as applied.
ReceiptOnlyMutant(c, p, a) == evidence[c][a].applied # NoReceipt

\* The proof already moved the money: when it was recorded, as the proof of
\* another correction, or when it resolved itself.
AlreadyApplied(c, p, a) ==
    \/ evidence[c][a].applied # NoReceipt
    \/ p # a /\ evidence[c][a].resolvedBy = a

\* mark_observation_applied runs for a proof other than the pending evidence.
Stamps(c, p, a) == ~AlreadyApplied(c, p, a) /\ p # a

\* reconcile: an administrator resolves pending evidence p by proof a.
Reconcile(c, p, a) ==
    /\ c \in Recorded
    /\ Pending(evidence[c][p])
    /\ evidence[c][a].known
    /\ evidence[c][a].observation.kind # "uncertain"
    /\ evidence[c][a].observation.kind = "usage" => evidence[c][a].observation.amount # None
    /\ call[c].revision < MaxRevision
    /\ LET updated == IF AlreadyApplied(c, p, a) THEN [call[c] EXCEPT !.revision = @ + 1]
                      ELSE Applied(call[c], evidence[c][a].observation)
           stamped == IF Stamps(c, p, a)
                      THEN [evidence[c] EXCEPT ![a].applied = Result(updated)]
                      ELSE evidence[c]
       IN  /\ call' = [call EXCEPT ![c] = updated]
           /\ evidence' = [evidence EXCEPT ![c] =
                 [stamped EXCEPT ![p].resolvedBy = a, ![p].resolution = Result(updated)]]
    /\ UNCHANGED <<month, limit, opLimit, bill>>

\* change_limit of the policy service.
ChangeLimit(l) ==
    /\ l # limit
    /\ limit' = l
    /\ UNCHANGED <<month, opLimit, call, evidence, bill>>

NextMonth ==
    /\ month < Months
    /\ month' = month + 1
    /\ UNCHANGED <<limit, opLimit, call, evidence, bill>>

\* What an owner may report of a call.  Contradictory reports happen: the
\* reports of two attempts, of a gateway and of an invoice need not agree.
Reports(c) ==
    {[kind |-> k, amount |-> None] : k \in {"uncertain", "usage", "not_billed"}}
      \cup {[kind |-> "charge", amount |-> m] : m \in Amounts}

Next ==
    \/ \E c \in Calls, m \in Maybe, l \in Limits \cup {None}, cost \in Amounts :
          Reserve(c, m, l, cost)
    \/ \E c \in Calls : Approve(c)
    \/ \E c \in Calls, e \in Evidence, owned \in BOOLEAN :
          \E o \in Reports(c) : RecordObservation(c, e, o, owned)
    \/ \E c \in Calls, p, a \in Evidence : Reconcile(c, p, a)
    \/ \E l \in Limits \cup {None} : ChangeLimit(l)
    \/ NextMonth

Spec == Init /\ [][Next]_vars

-----------------------------------------------------------------------------
(* Properties.                                                             *)

\* What is owed for the calls of S that may have been sent.
Billed(S) == SumFunctionOnSet(bill, {c \in S : call'[c].state # "reserved"})

\* A report of a charge, or that there is none, agrees with what the provider bills.
Agrees(c, o) ==
    /\ o.kind = "not_billed" => bill[c] = 0
    /\ o.kind = "charge" => o.amount = bill[c]

\* All that was ever reported of the calls of S agrees with the bill.
Truthful(S) ==
    \A c \in S, e \in Evidence : evidence[c][e].known => Agrees(c, evidence[c][e].observation)

\* At the moment a call is approved, what the provider has charged or may
\* charge for every call of the period that was let go, this one included, fits the
\* project's limit, and likewise for its operation: through partial usage,
\* uncertain outcomes, late evidence and corrections the ledger never
\* understates what is owed, provided what was reported of those calls is
\* truthful (_require_allowance, _totals_columns).
ApprovalFitsTrueCost ==
    [][\A c \in Calls :
         call[c].state = "reserved" /\ call'[c].state = "accounting_approved" =>
            LET inPeriod == InPeriod(call[c].period)
                inOperation == InOperation(OperationOf[c])
            IN  /\ limit # None /\ Truthful(inPeriod) => Billed(inPeriod) <= limit
                /\ opLimit[OperationOf[c]] # None /\ Truthful(inOperation) =>
                      Billed(inOperation) <= opLimit[OperationOf[c]]]_vars

\* What a call is known to have cost.
Outcome(r) == IF r.state \in Final THEN <<r.state, r.settled>> ELSE <<"open", None>>

\* Evidence e has moved the money of call c.
Spent(c, e) ==
    evidence[c][e].applied # NoReceipt \/ evidence[c][e].resolvedBy = e

\* Every change of a call's known outcome consumes evidence that had not moved
\* the call's money before: a repeated observation or correction never applies
\* a charge or a release twice (_recover_observation, reconcile).
MoneyMovesOnNewEvidence ==
    [][\A c \in Calls :
         Outcome(call'[c]) # Outcome(call[c]) =>
            \E e \in Evidence : ~Spent(c, e) /\ Spent(c, e)']_vars

\* Receipts returned for an observation or a correction are never rewritten, so
\* a retry of a lost reply reports what was first reported
\* (mark_observation_applied, record_resolution).
ReceiptsAreFinal ==
    [][\A c \in Calls, e \in Evidence :
         /\ evidence[c][e].applied # NoReceipt => evidence'[c][e].applied = evidence[c][e].applied
         /\ evidence[c][e].resolvedBy # NoEvidence =>
               /\ evidence'[c][e].resolvedBy = evidence[c][e].resolvedBy
               /\ evidence'[c][e].resolution = evidence[c][e].resolution]_vars

\* Once a call's outcome is known only a reviewed correction changes it: late
\* evidence, whoever brings it, waits (record_observation, _retain_pending).
KnownOutcomeNeedsReview ==
    [][\A c \in Calls :
         call[c].state \in Final /\ Outcome(call'[c]) # Outcome(call[c]) =>
            \E e \in Evidence :
                evidence[c][e].resolvedBy = NoEvidence /\ evidence'[c][e].resolvedBy # NoEvidence]_vars
=============================================================================
