--------------------------- MODULE RecoveryCleanup ---------------------------
(***************************************************************************)
(* What happens to the credentials of one person after account recoveries. *)
(* Verifying a recovery code admits a recovery and blocks product access   *)
(* for the identity.  Kratos reports the new password, a cleanup worker    *)
(* revokes the CLI grants and the remembered logins at Hydra, and a        *)
(* reconciler turns the saved proof into the release of the block, also    *)
(* for the older recoveries the proof covers.  A host operator may give an *)
(* exhausted cleanup another run.                                          *)
(*                                                                         *)
(* Every transaction takes the identity's coordinator lock, so an action   *)
(* is one transaction, or one call of the provider between two of them.    *)
(* A worker or reconciler that crashes takes no further step; a slow one   *)
(* takes its next step at any later time, whoever has replaced it.         *)
(***************************************************************************)
EXTENDS Integers, Sequences, FiniteSets

CONSTANTS
    MaxRecoveries,  \* bound: recoveries of the identity
    MaxAttempts,    \* max_attempts of a run, 12 in the code
    Requests        \* operation ids of the host operator

ASSUME RecoveryAssumption == MaxRecoveries \in Nat \ {0} /\ MaxAttempts \in Nat \ {0}

Recoveries == 1 .. MaxRecoveries    \* in the order of their admission
Steps == {"cli", "logins"}          \* executed in this order
Surfaces == Steps \cup {"sessions"}
Outcomes == {"confirmed", "retryable", "operator"}

VARIABLES
    recovery,   \* identity_recovery_admissions
    links,      \* identity_recovery_proof_links: <<covering, covered>>
    reconciled, \* the links with reconciled_at
    job,        \* identity_recovery_cleanup_jobs
    run,        \* the open identity_recovery_cleanup_run of each job, or NoRun
    attempts,   \* identity_recovery_cleanup_attempts, and what their worker is doing
    proof,      \* identity_recovery_cleanup_proofs
    page,       \* <<source, target>>: calls of reconcile_proof some reconciler has planned
    receipt,    \* host_maintenance_receipts
    eligible,   \* the account is active, or linked to no principal
    exposed     \* exposed[s]: recoveries whose earlier credentials may still work on s

vars == <<recovery, links, reconciled, job, run, attempts, proof, page, receipt, eligible, exposed>>

RecoveryRow == [admitted: BOOLEAN, kratos: BOOLEAN, hydra: BOOLEAN, released: BOOLEAN]
JobRow(n) == [exists: BOOLEAN, claim: 0 .. n, lease: BOOLEAN, confirmedBy: [Steps -> 0 .. n]]
RunRow == [open: BOOLEAN, due: BOOLEAN, overdue: BOOLEAN, consumed: 0 .. MaxAttempts]
StepRow == {"none", "dispatched"} \cup Outcomes
AttemptRow ==
    [recovery: Recoveries, open: BOOLEAN, worker: {"idle", "calling"} \cup Outcomes,
     step: Steps \cup {"done"}, rows: [Steps -> StepRow]]
ProofRow(n) ==
    [source: Recoveries \cup {0}, by: [Steps -> 0 .. n], checked: {"no", "released", "ineligible"},
     propagated: BOOLEAN, due: BOOLEAN]
ReceiptRow ==
    [recovery: Recoveries \cup {0}, outcome: {"none", "completed", "confirmed", "authorized"}]

(* In a job, 0 is "no attempt"; in a proof, source = 0 is "no row". *)
NoJob == [exists |-> FALSE, claim |-> 0, lease |-> FALSE, confirmedBy |-> [s \in Steps |-> 0]]
NoRun == [open |-> FALSE, due |-> FALSE, overdue |-> FALSE, consumed |-> 0]
NewRun == [open |-> TRUE, due |-> TRUE, overdue |-> FALSE, consumed |-> 0]
NoProof == [source |-> 0, by |-> [s \in Steps |-> 0], checked |-> "no", propagated |-> FALSE, due |-> FALSE]
NoReceipt == [recovery |-> 0, outcome |-> "none"]
NoRecovery == [admitted |-> FALSE, kratos |-> FALSE, hydra |-> FALSE, released |-> FALSE]

Attempt(r) ==
    [recovery |-> r, open |-> TRUE, worker |-> "idle", step |-> "cli",
     rows |-> [s \in Steps |-> "none"]]

Init ==
    /\ recovery = [r \in Recoveries |-> NoRecovery]
    /\ links = {} /\ reconciled = {}
    /\ job = [r \in Recoveries |-> NoJob]
    /\ run = [r \in Recoveries |-> NoRun]
    /\ attempts = <<>>
    /\ proof = [r \in Recoveries |-> NoProof]
    /\ page = {}
    /\ receipt = [o \in Requests |-> NoReceipt]
    /\ eligible = TRUE
    /\ exposed = [s \in Surfaces |-> {}]

-----------------------------------------------------------------------------
(* Evidence from Kratos. *)

\* A new recovery covers every older one that still blocks.
Covered(r) == {q \in Recoveries : q # r /\ recovery[q].admitted /\ ~recovery[q].released}
\* Wrong: the link is stored the other way round.
ReversedMutant(r) == {<<q, r>> : q \in Covered(r)}
NewLinks(r) == {<<r, q>> : q \in Covered(r)}

Admit(r) ==
    /\ ~recovery[r].admitted
    /\ \A q \in 1 .. r - 1 : recovery[q].admitted
    /\ recovery' = [recovery EXCEPT ![r].admitted = TRUE]
    /\ links' = links \cup NewLinks(r)
    /\ exposed' = [s \in Surfaces |-> exposed[s] \cup {r}]
    /\ UNCHANGED <<reconciled, job, run, attempts, proof, page, receipt, eligible>>

\* Wrong: a repeated report of the password starts another run.
RepeatedMutant(r) == ~recovery[r].released /\ ~recovery[r].hydra /\ ~run[r].open
\* ensure_initial_cleanup_handoff: one job and its first run, once.
Handoff(r) == ~recovery[r].released /\ ~recovery[r].hydra /\ ~job[r].exists

\* Kratos has saved the new password and revoked the sessions from before.
PasswordSaved(r) ==
    /\ recovery[r].admitted
    /\ recovery' = [recovery EXCEPT ![r].kratos = TRUE]
    /\ exposed' = [exposed EXCEPT !["sessions"] = @ \ (1 .. r)]
    /\ job' = [job EXCEPT ![r].exists = @ \/ Handoff(r)]
    /\ run' = IF Handoff(r) THEN [run EXCEPT ![r] = NewRun] ELSE run
    /\ UNCHANGED <<links, reconciled, attempts, proof, page, receipt, eligible>>

-----------------------------------------------------------------------------
(* Bounded runs. *)

Confirmed(r) == \A s \in Steps : job[r].confirmedBy[s] # 0
\* Wrong: the lease is cleared, the attempt's name is not.
HalfFreedMutant(row) == [row EXCEPT !.lease = FALSE]
Freed(row) == [row EXCEPT !.claim = 0, !.lease = FALSE]
Exhausted(r) == run[r].consumed >= MaxAttempts
Refused(r) == job[r].claim # 0 /\ \E s \in Steps : attempts[job[r].claim].rows[s] = "operator"

\* An unacknowledged call is uncertainty, never failure or success.
ClosedRows(rows) == [s \in Steps |-> IF rows[s] = "dispatched" THEN "retryable" ELSE rows[s]]

\* Only a worker that ends its own attempt makes no further call of the provider.
Ended(at, own) ==
    [at EXCEPT !.open = FALSE, !.rows = ClosedRows(@), !.worker = IF own THEN "idle" ELSE @]

\* writer.finish: the attempt ends, the job is free, its run waits or ends.
Finish(r, next, own) ==
    /\ attempts' = IF job[r].claim = 0 THEN attempts
                   ELSE [attempts EXCEPT ![job[r].claim] = Ended(@, own)]
    /\ job' = [job EXCEPT ![r] = Freed(@)]
    /\ run' = [run EXCEPT ![r] = next]

\* save_complete_proof: an existing proof stays.
OwnProof(r) ==
    [source |-> r, by |-> job[r].confirmedBy, checked |-> "no", propagated |-> FALSE, due |-> TRUE]
SaveProof(r) == proof' = IF proof[r].source = 0 THEN [proof EXCEPT ![r] = OwnProof(r)] ELSE proof

\* _finish: proof, or an end, or a later attempt if the provider's delay leaves time for one.
FinishRun(r, own) ==
    \/ /\ Confirmed(r)
       /\ SaveProof(r)
       /\ Finish(r, NoRun, own)
    \/ /\ ~Confirmed(r)
       /\ Finish(r, NoRun, own)
       /\ UNCHANGED proof
    \/ /\ ~Confirmed(r) /\ ~Refused(r) /\ ~Exhausted(r) /\ ~run[r].overdue
       /\ Finish(r, [run[r] EXCEPT !.due = FALSE], own)
       /\ UNCHANGED proof

\* Wrong: a job with an expired lease is never picked up again.
UnleasedMutant(r) == run[r].open /\ run[r].due /\ job[r].claim = 0
Candidate(r) == run[r].open /\ run[r].due /\ ~job[r].lease

\* execute_once of a worker that finds the lease of another attempt expired.
PollExpired(r) == Candidate(r) /\ (job[r].claim # 0 \/ (Confirmed(r) /\ ~recovery[r].released)) /\ FinishRun(r, FALSE)

PollEnd(r) ==
    /\ Candidate(r) /\ job[r].claim = 0
    /\ recovery[r].released \/ (~Confirmed(r) /\ (run[r].overdue \/ Exhausted(r)))
    /\ Finish(r, NoRun, FALSE)
    /\ UNCHANGED proof

PollClaim(r) ==
    /\ Candidate(r) /\ job[r].claim = 0
    /\ ~recovery[r].released /\ ~Confirmed(r) /\ ~run[r].overdue /\ ~Exhausted(r)
    /\ attempts' = Append(attempts, Attempt(r))
    /\ job' = [job EXCEPT ![r] = [@ EXCEPT !.claim = Len(attempts) + 1, !.lease = TRUE]]
    /\ run' = [run EXCEPT ![r].consumed = @ + 1]
    /\ UNCHANGED proof

Poll(r) ==
    /\ PollExpired(r) \/ PollEnd(r) \/ PollClaim(r)
    /\ UNCHANGED <<recovery, links, reconciled, page, receipt, eligible, exposed>>

-----------------------------------------------------------------------------
(* A worker in its attempt: admit a step, call the provider, save the answer. *)

Owner(a) == attempts[a].recovery
\* _owned_work, read anew in every stage.
Owned(a) == job[Owner(a)].claim = a /\ job[Owner(a)].lease /\ run[Owner(a)].open

\* The first step from the worker's position that is not confirmed yet.
NextStep(a, s) ==
    /\ attempts[a].step \in Steps
    /\ job[Owner(a)].confirmedBy[s] = 0
    /\ s # attempts[a].step =>
        attempts[a].step = "cli" /\ s = "logins" /\ job[Owner(a)].confirmedBy["cli"] # 0

Dispatched(at, s) == [at EXCEPT !.worker = "calling", !.step = s, !.rows = [@ EXCEPT ![s] = "dispatched"]]

AdmitStep(a, s) ==
    /\ attempts[a].worker = "idle" /\ Owned(a) /\ ~run[Owner(a)].overdue
    /\ NextStep(a, s)
    /\ attempts' = [attempts EXCEPT ![a] = Dispatched(@, s)]
    /\ UNCHANGED <<recovery, links, reconciled, job, run, proof, page, receipt, eligible, exposed>>

\* Hydra revokes by subject; a browser session that survived may log in again at once.
Revoked(s) == exposed[s] \cap exposed["sessions"]

\* Only an empty 204 confirms; any other answer leaves open whether Hydra did it.  Nothing
\* is checked again before the call; lost ownership makes the worker drop the answer.
CallProvider(a, answer, effective) ==
    /\ attempts[a].worker = "calling"
    /\ answer = "confirmed" => effective
    /\ attempts' = [attempts EXCEPT ![a] = [@ EXCEPT !.worker = IF Owned(a) THEN answer ELSE "idle"]]
    /\ exposed' = IF effective THEN [exposed EXCEPT ![attempts[a].step] = Revoked(attempts[a].step)]
                  ELSE exposed
    /\ UNCHANGED <<recovery, links, reconciled, job, run, proof, page, receipt, eligible>>

After(s, answer) == IF s = "cli" /\ answer # "operator" THEN "logins" ELSE "done"

Saved(at) ==
    [at EXCEPT !.worker = "idle", !.rows = [@ EXCEPT ![at.step] = at.worker],
               !.step = After(at.step, at.worker)]

\* Only a confirmation becomes provenance of the job.
Provenance(a) ==
    LET at == attempts[a] IN
    IF at.worker = "confirmed" THEN [job EXCEPT ![at.recovery].confirmedBy = [@ EXCEPT ![at.step] = a]]
    ELSE job

SaveOutcome(a) ==
    /\ attempts[a].worker \in Outcomes /\ Owned(a)
    /\ attempts' = [attempts EXCEPT ![a] = Saved(@)]
    /\ job' = Provenance(a)
    /\ UNCHANGED <<recovery, links, reconciled, run, proof, page, receipt, eligible, exposed>>

\* The worker leaves its loop: all steps done, a stop, no time left.
FinishAttempt(a) ==
    /\ attempts[a].worker \in {"idle", "calling"} /\ Owned(a)
    /\ FinishRun(Owner(a), TRUE)
    /\ UNCHANGED <<recovery, links, reconciled, page, receipt, eligible, exposed>>

\* An unexpected exception ends the run without a proof.
FailAttempt(a) ==
    /\ Owned(a)
    /\ Finish(Owner(a), NoRun, TRUE)
    /\ UNCHANGED <<recovery, links, reconciled, proof, page, receipt, eligible, exposed>>

-----------------------------------------------------------------------------
(* Host maintenance: resume_recovery_cleanup. *)

\* _terminal_reason: the recorded run has ended, or can be ended now.
MayEnd(r) == ~run[r].open \/ Refused(r) \/ run[r].overdue \/ (Exhausted(r) /\ ~job[r].lease)

Replied(o, r, outcome) == receipt' = [receipt EXCEPT ![o] = [recovery |-> r, outcome |-> outcome]]

ResumeCompleted(o, r) ==
    /\ recovery[r].released
    /\ Replied(o, r, "completed")
    /\ UNCHANGED <<job, run, attempts, proof>>

ResumeConfirmed(o, r) ==
    /\ ~recovery[r].released
    /\ proof[r].source # 0 \/ Confirmed(r) \/ (recovery[r].hydra /\ recovery[r].kratos)
    /\ Replied(o, r, "confirmed")
    /\ IF proof[r].source = 0 /\ job[r].exists
       THEN SaveProof(r) /\ (IF run[r].open THEN Finish(r, NoRun, FALSE) ELSE UNCHANGED <<job, run, attempts>>)
       ELSE UNCHANGED <<job, run, attempts, proof>>

ResumeAuthorized(o, r) ==
    /\ ~recovery[r].released /\ proof[r].source = 0 /\ ~Confirmed(r) /\ ~recovery[r].hydra
    /\ job[r].exists /\ recovery[r].kratos
    /\ MayEnd(r)
    /\ Replied(o, r, "authorized")
    /\ Finish(r, NewRun, FALSE)
    /\ UNCHANGED proof

\* A request id that has a receipt is answered from it; a refused one writes nothing.
Resume(o, r) ==
    /\ receipt[o] = NoReceipt /\ recovery[r].admitted
    /\ ResumeCompleted(o, r) \/ ResumeConfirmed(o, r) \/ ResumeAuthorized(o, r)
    /\ UNCHANGED <<recovery, links, reconciled, page, eligible, exposed>>

-----------------------------------------------------------------------------
(* The reconciler: pages of saved proofs, one transaction per original. *)

Older(s) == {<<s, t>> : t \in {q \in Recoveries : <<s, q>> \in links \ reconciled}}
\* Wrong: a checked proof is not listed again for its older recoveries.
UncheckedMutant(s) == proof[s].source # 0 /\ proof[s].checked = "no"
Pending(s) == proof[s].source # 0 /\ (proof[s].checked = "no" \/ ~proof[s].propagated)

ReadPage(s) ==
    /\ Pending(s) /\ proof[s].due
    /\ page' = page \cup Older(s) \cup (IF proof[s].checked = "no" THEN {<<s, s>>} ELSE {})
    /\ UNCHANGED <<recovery, links, reconciled, job, run, attempts, proof, receipt, eligible, exposed>>

\* _require_complete_proof, with the joins of read_proof.
Complete(p) ==
    /\ recovery[p.source].kratos /\ job[p.source].exists
    /\ \A s \in Steps :
        /\ p.by[s] \in DOMAIN attempts
        /\ Owner(p.by[s]) = p.source
        /\ attempts[p.by[s]].rows[s] = "confirmed"

\* Wrong: the covered recovery's run stays open.
OpenRunMutant(s, t) ==
    /\ reconciled' = reconciled \cup {<<s, t>>}
    /\ attempts' = IF job[t].claim = 0 THEN attempts ELSE [attempts EXCEPT ![job[t].claim].open = FALSE]
    /\ job' = [job EXCEPT ![t] = Freed(@)]
    /\ UNCHANGED run

\* apply_to_covered: the older recovery needs no cleanup of its own any more.
ApplyToCovered(s, t) ==
    /\ reconciled' = reconciled \cup {<<s, t>>}
    /\ attempts' = IF job[t].claim = 0 THEN attempts ELSE [attempts EXCEPT ![job[t].claim].open = FALSE]
    /\ job' = [job EXCEPT ![t] = Freed(@)]
    /\ run' = [run EXCEPT ![t] = NoRun]

CoveredRow(s, t) ==
    IF s # t /\ proof[t].source = 0 THEN [proof[s] EXCEPT !.checked = "no", !.propagated = TRUE, !.due = TRUE]
    ELSE proof[t]

\* record_checked keeps "released"; only a release replaces "ineligible".
CheckedRow(row, released) ==
    IF released THEN [row EXCEPT !.checked = "released"]
    ELSE [row EXCEPT !.checked = IF @ = "no" THEN "ineligible" ELSE @]

\* Wrong: an account deactivated since then is blocked again.
AsEligible(t) == eligible
\* A release stands; without one the account must be active, or linked to no principal.
MayRelease(t) == recovery[t].released \/ eligible

\* Completion of target t by the proof of s; the page's other reader may keep the pair.
Reconcile(s, t) ==
    LET released == MayRelease(t) IN
    /\ <<s, t>> \in page /\ proof[s].source # 0
    /\ Complete(proof[s])
    /\ proof[s].source = t \/ <<proof[s].source, t>> \in links
    /\ s # t => proof[s].source = s
    /\ IF s # t THEN ApplyToCovered(s, t) ELSE UNCHANGED <<reconciled, attempts, job, run>>
    /\ recovery' = [recovery EXCEPT ![t] = [@ EXCEPT !.kratos = TRUE, !.hydra = TRUE, !.released = released]]
    /\ proof' = [proof EXCEPT ![t] = CheckedRow(CoveredRow(s, t), released)]
    /\ page' \in {page, page \ {<<s, t>>}}
    /\ UNCHANGED <<links, receipt, eligible, exposed>>

\* The database failed: the reconciler gives up its plan for s and tries it later.
Defer(s) ==
    /\ \E t \in Recoveries : <<s, t>> \in page
    /\ proof' = [proof EXCEPT ![s].due = FALSE]
    /\ page' \in {page, {p \in page : p[1] # s}}
    /\ UNCHANGED <<recovery, links, reconciled, job, run, attempts, receipt, eligible, exposed>>

\* After its targets, handled or deferred, a source without open links is done.
MarkPropagated(s) ==
    /\ proof[s].source # 0 /\ ~proof[s].propagated /\ Older(s) = {}
    /\ proof' = [proof EXCEPT ![s].propagated = TRUE]
    /\ UNCHANGED <<recovery, links, reconciled, job, run, attempts, page, receipt, eligible, exposed>>

-----------------------------------------------------------------------------
(* Time and the account. *)

LeaseExpires(r) ==
    /\ job[r].lease
    /\ job' = [job EXCEPT ![r].lease = FALSE]
    /\ UNCHANGED <<recovery, links, reconciled, attempts, run, proof, page, receipt, eligible, exposed>>

\* next_attempt_at always lies before the deadline.
BecomesDue(r) ==
    /\ run[r].open /\ ~run[r].due
    /\ run' = [run EXCEPT ![r].due = TRUE]
    /\ UNCHANGED <<recovery, links, reconciled, job, attempts, proof, page, receipt, eligible, exposed>>

DeadlinePasses(r) ==
    /\ run[r].open /\ run[r].due /\ ~run[r].overdue
    /\ run' = [run EXCEPT ![r].overdue = TRUE]
    /\ UNCHANGED <<recovery, links, reconciled, job, attempts, proof, page, receipt, eligible, exposed>>

ProofDue(s) ==
    /\ proof[s].source # 0 /\ ~proof[s].due
    /\ proof' = [proof EXCEPT ![s].due = TRUE]
    /\ UNCHANGED <<recovery, links, reconciled, job, run, attempts, page, receipt, eligible, exposed>>

\* An administrator deactivates or restores the linked account.
EligibilityChanges ==
    /\ eligible' = ~eligible
    /\ UNCHANGED <<recovery, links, reconciled, job, run, attempts, proof, page, receipt, exposed>>

Work(a) ==
    \/ \E s \in Steps : AdmitStep(a, s)
    \/ \E answer \in Outcomes, effective \in BOOLEAN : CallProvider(a, answer, effective)
    \/ SaveOutcome(a)
    \/ FinishAttempt(a)
    \/ FailAttempt(a)

Next ==
    \/ \E r \in Recoveries : Admit(r) \/ PasswordSaved(r) \/ Poll(r)
    \/ \E r \in Recoveries : LeaseExpires(r) \/ BecomesDue(r) \/ DeadlinePasses(r)
    \/ \E a \in DOMAIN attempts : Work(a)
    \/ \E o \in Requests, r \in Recoveries : Resume(o, r)
    \/ \E s \in Recoveries : ReadPage(s) \/ Defer(s) \/ MarkPropagated(s) \/ ProofDue(s)
    \/ \E s, t \in Recoveries : Reconcile(s, t)
    \/ EligibilityChanges

\* Time passes and some recovery worker keeps polling and reconciling; a reconciliation
\* that is tried again and again succeeds.  Nothing is assumed of a claimed attempt.
Fairness ==
    /\ WF_vars(\E r \in Recoveries : Poll(r))
    /\ WF_vars(\E r \in Recoveries : BecomesDue(r))
    /\ WF_vars(\E r \in Recoveries : LeaseExpires(r))
    /\ WF_vars(\E s \in Recoveries : ProofDue(s))
    /\ WF_vars(\E s \in Recoveries : ReadPage(s))
    /\ WF_vars(\E s \in Recoveries : MarkPropagated(s))
    /\ SF_vars(\E s, t \in Recoveries : Reconcile(s, t))

Spec == Init /\ [][Next]_vars /\ Fairness

-----------------------------------------------------------------------------
(* Properties. *)

\* The rows stay within the columns' domains; a run never consumes more than its budget.
TypeOK ==
    /\ recovery \in [Recoveries -> RecoveryRow]
    /\ links \subseteq Recoveries \X Recoveries /\ reconciled \subseteq links
    /\ job \in [Recoveries -> JobRow(Len(attempts))]
    /\ run \in [Recoveries -> RunRow]
    /\ attempts \in Seq(AttemptRow)
    /\ proof \in [Recoveries -> ProofRow(Len(attempts))]
    /\ page \subseteq Recoveries \X Recoveries
    /\ receipt \in [Requests -> ReceiptRow]
    /\ eligible \in BOOLEAN
    /\ exposed \in [Surfaces -> SUBSET Recoveries]

\* A released block leaves nothing behind: no session, CLI grant or remembered login from
\* before the recovery can still work, whichever recovery's proof lifted the block
\* (IdentityRecoveryCompletionService.reconcile_proof).
ReleasedIsSafe ==
    \A r \in Recoveries, s \in Surfaces : recovery[r].released => r \notin exposed[s]

Admitted == {r \in Recoveries : recovery[r].admitted}
Released == {r \in Recoveries : recovery[r].released}
Contract == INSTANCE RecoveryContract WITH admitted <- Admitted, released <- Released

\* The whole machinery of attempts, leases, resumptions and proofs does nothing that the
\* contract of recovery does not allow; what lies above it may rely on the contract alone.
ImplementsRecoveryContract == Contract!ContractSpec

\* The claim on the job and the attempts' history agree: an attempt is open exactly while
\* its job names it and its run is open, so a replaced worker has no open attempt.
ClaimAgreesWithHistory ==
    /\ \A a \in DOMAIN attempts : attempts[a].open <=> job[Owner(a)].claim = a
    /\ \A r \in Recoveries : job[r].claim # 0 => run[r].open /\ Owner(job[r].claim) = r

\* Once a recovery is proved, by its own cleanup or a newer one's, nobody works on it and
\* no operator can start another run (satisfied_by_newer_recovery, resume).
ProvedWorkIsOver ==
    \A r \in Recoveries : proof[r].source # 0 => ~run[r].open /\ job[r].claim = 0

AttemptsOf(r) == {a \in DOMAIN attempts : Owner(a) = r}
AuthorizedFor(r) == {o \in Requests : receipt[o] = [recovery |-> r, outcome |-> "authorized"]}

\* The provider is called under a finite authority: the attempts ever made for a recovery
\* fit its first run and the runs the operator's receipts authorized (ADR-0069).
BudgetIsAuthorized ==
    \A r \in Recoveries :
        Cardinality(AttemptsOf(r)) <= MaxAttempts * (1 + Cardinality(AuthorizedFor(r)))

\* Every run ends, whatever its workers do (bounded run, leases, recovery of an expired claim).
RunsEnd == \A r \in Recoveries : run[r].open ~> ~run[r].open

\* The block is decided for the recovery that was cleaned up and for all older ones: each
\* is released, or its account was found ineligible (reconcile_pending, linked_older).
ProofDecidesBlocks ==
    \A s \in Recoveries : proof[s].source = s ~>
        \A r \in 1 .. s : recovery[r].released \/ proof[r].checked = "ineligible"
=============================================================================
