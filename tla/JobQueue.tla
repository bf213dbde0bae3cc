------------------------------ MODULE JobQueue ------------------------------
(***************************************************************************)
(* The durable job queue of the Inframeld backend: the durable_jobs,       *)
(* durable_job_attempts and durable_job_effects tables and every           *)
(* transaction that writes them (PostgresJobStore and the admission,       *)
(* claim, recovery, checkpoint and effect-observation services), together  *)
(* with the native-call gate of the S3 adapter that turns an admitted      *)
(* effect into a physical one.                                             *)
(*                                                                         *)
(* Each action is one database transaction.  The transactions lock the     *)
(* rows they read until they commit, so one step is faithful.              *)
(*                                                                         *)
(* Workers are represented by the attempt contexts they hold.  A context   *)
(* is never taken away from a process, so any context ever issued may try  *)
(* any operation at any later time: a worker that stalled, lost a reply or *)
(* was superseded is a context whose next call comes late, and a worker    *)
(* that crashed is one whose next call never comes.                        *)
(***************************************************************************)
EXTENDS Integers, Sequences, FiniteSets

CONSTANTS
    ProductJobs,    \* jobs with a product binding (an admitted operation)
    CleanupJobs,    \* jobs with an artifact_cleanup binding (an obligation)
    Unsupported,    \* jobs whose payload the worker release does not handle
    Units,          \* names of external units (pending_effect)
    NoUnit,         \* pending_effect IS NULL
    Capacity,       \* ordinary job capacity, 1..8 in the code
    LeaseTime,      \* lease_seconds
    WorkTime,       \* work_seconds
    QueueWait,      \* the 24 hours of queued_deadline
    TransferWait,   \* the 2 hours of a cleanup's transfer_deadline
    RetryStep,      \* the 5 seconds of the retry delay
    RetryCap,       \* the 15 seconds that cap it
    Retention,      \* the 24 hours an operation replay outlives its job
    MaxEffects,     \* bound: external units attempted in a behaviour
    MaxDisturbed,   \* bound: external facts that differ from the initial ones at once
    AdmitHorizon,   \* bound: the last tick at which a job is admitted
    Horizon         \* bound: the last tick of the clock

Jobs == ProductJobs \cup CleanupJobs

ASSUME JobsAssumption ==
    /\ IsFiniteSet(ProductJobs)
    /\ IsFiniteSet(CleanupJobs)
    /\ ProductJobs \cap CleanupJobs = {}
ASSUME UnitsAssumption == NoUnit \notin Units
ASSUME TimesAssumption ==
    /\ LeaseTime \in Nat \ {0}
    /\ WorkTime \in Nat \ {0}
    /\ QueueWait \in Nat \ {0}
    /\ TransferWait \in Nat \ {0}
    /\ RetryStep \in Nat /\ RetryCap \in Nat
    /\ Retention \in Nat \ {0}
    /\ Capacity \in Nat \ {0}
    /\ MaxEffects \in Nat /\ MaxDisturbed \in Nat /\ AdmitHorizon \in Nat /\ Horizon \in Nat

MaxAttempts == 3        \* attempt_count >= 3 ends the retries
Null == 0               \* a NULL timestamp or fence; the clock starts at 1

Settled == {"succeeded", "failed", "canceled"}
Terminal == Settled \cup {"recovery_required"}
Live == {"queued", "running"}
Statuses == {"absent"} \cup Live \cup Terminal

\* A checkpoint is opaque bytes: none yet, some progress, or the
\* acknowledgment of the external unit.
Checkpoints == {"empty", "saved", "ack"}

VARIABLES
    now,        \* the database clock
    job,        \* durable_jobs
    attempts,   \* durable_job_attempts; a row is also the context a worker holds
    issued,     \* how many fences (fresh UUIDs) have been drawn
    effects,    \* durable_job_effects, with the gate of each native call
    authority,  \* authority[j]: the job's original authority is still current
    target,     \* target[j]: the state of the artifact the job's effect names
    complete    \* cleanup jobs whose obligation is physically complete

vars == <<now, job, attempts, issued, effects, authority, target, complete>>

JobRow ==
    [status: Statuses, attempt: 0 .. MaxAttempts, fence: Nat, lease: Nat,
     deadline: Nat, due: Nat, queuedDeadline: Nat, admitted: Nat,
     checkpoint: Checkpoints, pending: Units \cup {NoUnit}, cancel: BOOLEAN,
     expires: Nat, execution: {"none"} \cup Terminal]

AttemptRow ==
    [job: Jobs, number: 1 .. MaxAttempts, fence: Nat, deadline: Nat, open: BOOLEAN]

\* stage is the row's admitted_at / aborted_at / consumed_at; "direct" is a
\* unit begun without a row.  gate is the adapter's _InvocationGate, and
\* confirmed records that the owner's confirmation committed.
EffectRow ==
    [stage: {"direct", "registered", "admitted", "aborted", "consumed"},
     job: Jobs, attempt: 1 .. MaxAttempts, fence: Nat, deadline: Nat,
     unit: Units, checkpoint: Checkpoints,
     gate: {"none", "waiting", "entered", "aborted"}, confirmed: BOOLEAN]

TypeOK ==
    /\ now \in Nat \ {0}
    /\ job \in [Jobs -> JobRow]
    /\ attempts \subseteq AttemptRow
    /\ issued \in Nat
    /\ effects \in Seq(EffectRow)
    /\ authority \in [Jobs -> BOOLEAN]
    /\ target \in [Jobs -> {"free", "protected", "blocked"}]
    /\ complete \subseteq CleanupJobs

AbsentJob ==
    [status |-> "absent", attempt |-> 0, fence |-> Null, lease |-> Null,
     deadline |-> Null, due |-> 0, queuedDeadline |-> 0, admitted |-> 0,
     checkpoint |-> "empty", pending |-> NoUnit, cancel |-> FALSE,
     expires |-> Null, execution |-> "none"]

Init ==
    /\ now = 1
    /\ job = [j \in Jobs |-> AbsentJob]
    /\ attempts = {}
    /\ issued = 0
    /\ effects = << >>
    /\ authority = [j \in Jobs |-> TRUE]
    /\ target = [j \in Jobs |-> "free"]
    /\ complete = {}

Earlier(a, b) == IF a < b THEN a ELSE b

-----------------------------------------------------------------------------
(* Admission.                                                              *)

\* Mutant: only queued jobs are counted against the capacity.
QueuedOnlyMutant == {j \in Jobs : job[j].status = "queued"}

Backlog == {j \in Jobs : job[j].status \in Live}

QueuedRow(due) ==
    [AbsentJob EXCEPT !.status = "queued", !.admitted = now, !.due = due,
                      !.queuedDeadline = now + QueueWait]

\* JobAdmissionService.admit on a new reservation.  A replay of an accepted
\* operation returns the original job and writes nothing.
AdmitProduct(j) ==
    /\ now <= AdmitHorizon
    /\ job[j].status = "absent"
    /\ authority[j]
    /\ Cardinality(Backlog) < Capacity
    /\ job' = [job EXCEPT ![j] = QueuedRow(now)]
    /\ UNCHANGED <<now, attempts, issued, effects, authority, target, complete>>

\* PostgresArtifactCleanupAdmissionWriter.admit: the job becomes due when the
\* obligation's transfer deadline, at most two hours ahead, has passed.
AdmitCleanup(j, transferDeadline) ==
    /\ now <= AdmitHorizon
    /\ job[j].status = "absent"
    /\ Cardinality(Backlog) < Capacity
    /\ now < transferDeadline
    /\ transferDeadline <= now + TransferWait
    /\ job' = [job EXCEPT ![j] = QueuedRow(transferDeadline)]
    /\ UNCHANGED <<now, attempts, issued, effects, authority, target, complete>>

\* Only product work can be canceled.
RequestCancel(j) ==
    /\ job[j].status \in Live
    /\ ~job[j].cancel
    /\ job' = [job EXCEPT ![j].cancel = TRUE]
    /\ UNCHANGED <<now, attempts, issued, effects, authority, target, complete>>

-----------------------------------------------------------------------------
(* Ownership of an attempt, and its end.                                   *)

\* Mutant: the row is found by its job alone, so a superseded worker owns it.
UnfencedMutant(c) ==
    LET r == job[c.job] IN r.status = "running" /\ now < r.lease /\ now < r.deadline

\* Mutant: the fence is checked but not the time.
TimelessMutant(c) ==
    job[c.job].status = "running" /\ job[c.job].fence = c.fence

Owned(c) ==
    LET r == job[c.job]
    IN  /\ r.status = "running"
        /\ r.fence = c.fence
        /\ r.attempt = c.number
        /\ now < r.lease
        /\ now < r.deadline

\* Mutant: retirement forgets the attempt row.
ForgottenMutant(rows, fence) == rows

Ended(rows, fence) ==
    {IF a.fence = fence THEN [a EXCEPT !.open = FALSE] ELSE a : a \in rows}

\* Mutant: every terminal outcome starts the replay's retention period.
AlwaysExpiresMutant(j, r, status) == IF j \in ProductJobs THEN now + Retention ELSE r.expires

\* When the replay of the operation may be forgotten: never, while an external
\* effect is unknown.
Expiry(j, r, status) ==
    IF j \notin ProductJobs THEN r.expires
    ELSE IF status = "recovery_required" \/ r.pending # NoUnit THEN Null
    ELSE IF r.expires = Null THEN now + Retention ELSE r.expires

\* The row _complete leaves behind.  pending_effect is kept: it is the
\* evidence of what is unknown.
Completed(j, r, status) ==
    [r EXCEPT !.status = status, !.fence = Null, !.lease = Null,
              !.expires = Expiry(j, r, status),
              !.execution = IF j \in CleanupJobs THEN status ELSE r.execution]

\* Mutant: the caller's outcome is believed over the pending effect.
BelievedMutant(r, status) == status

\* finish never reports a known outcome over a pending effect.
FinishedStatus(r, status) ==
    IF r.pending # NoUnit THEN "recovery_required" ELSE status

Finish(c, status) ==
    /\ Owned(c)
    /\ job' = [job EXCEPT ![c.job] = Completed(c.job, @, FinishedStatus(@, status))]
    /\ attempts' = Ended(attempts, c.fence)

-----------------------------------------------------------------------------
(* claim_next: the head of the queue is a running job, else the due queued *)
(* job admitted first.                                                     *)

Due(j) ==
    /\ job[j].status = "queued"
    /\ job[j].due <= now \/ job[j].queuedDeadline <= now

Running == {j \in Jobs : job[j].status = "running"}

\* Ties of admitted_at are broken by the random job id.
Candidate(j) ==
    IF Running # {}
    THEN j \in Running /\ \A i \in Running : job[j].admitted <= job[i].admitted
    ELSE Due(j) /\ \A i \in Jobs : Due(i) => job[j].admitted <= job[i].admitted

\* The outcome claim_next gives a queued job it must not start, or "none".
RetireStatus(j) ==
    IF j \in ProductJobs /\ ~authority[j] THEN "failed"
    ELSE IF job[j].cancel THEN "canceled"
    ELSE IF \/ job[j].queuedDeadline <= now
            \/ job[j].deadline # Null /\ job[j].deadline <= now
            \/ j \in Unsupported
         THEN "failed"
    ELSE "none"

ClaimRetire(j) ==
    /\ Candidate(j)
    /\ job[j].status = "queued"
    /\ RetireStatus(j) # "none"
    /\ job' = [job EXCEPT ![j] = Completed(j, @, RetireStatus(j))]
    /\ UNCHANGED <<now, attempts, issued, effects, authority, target, complete>>

\* Mutant: every attempt gets a fresh work budget.
FreshDeadlineMutant(r) == now + WorkTime

\* The deadline of the first attempt is the deadline of the job.
DeadlineOf(r) == IF r.deadline # Null THEN r.deadline ELSE now + WorkTime

\* start_attempt: a new fence, and a lease that never outlives the deadline
\* set by the first attempt.
ClaimStart(j) ==
    /\ Candidate(j)
    /\ RetireStatus(j) = "none"
    /\ Running = {}
    /\ job[j].status = "queued"
    /\ ~job[j].cancel
    /\ job[j].due <= now
    /\ now < job[j].queuedDeadline
    /\ job[j].attempt < MaxAttempts
    /\ LET deadline == DeadlineOf(job[j])
           fence == issued + 1
       IN  /\ now < deadline
           /\ job' = [job EXCEPT ![j].status = "running",
                                 ![j].attempt = @ + 1,
                                 ![j].fence = fence,
                                 ![j].deadline = deadline,
                                 ![j].lease = Earlier(now + LeaseTime, deadline)]
           /\ attempts' = attempts \cup
                {[job |-> j, number |-> job[j].attempt + 1, fence |-> fence,
                  deadline |-> deadline, open |-> TRUE]}
           /\ issued' = fence
    /\ UNCHANGED <<now, effects, authority, target, complete>>

-----------------------------------------------------------------------------
(* recover_in_transaction: the head of the queue is a running job whose    *)
(* lease has expired.                                                      *)

\* Mutant: an expired attempt is left alone while its effect is unknown.
SkipUnknownMutant(j) ==
    /\ Candidate(j)
    /\ job[j].status = "running"
    /\ job[j].lease <= now
    /\ job[j].pending = NoUnit

Expired(j) ==
    /\ Candidate(j)
    /\ job[j].status = "running"
    /\ job[j].lease <= now

\* pending_observation: the aborted, unconsumed rows of the pending unit.
AbortProofs(j) ==
    {e \in DOMAIN effects :
        /\ effects[e].stage = "aborted"
        /\ effects[e].job = j
        /\ effects[e].attempt = job[j].attempt
        /\ effects[e].fence = job[j].fence
        /\ effects[e].unit = job[j].pending}

\* JobContinuationEligibilityService: e proves that the pending unit was never
\* dispatched, it was captured at this very checkpoint and deadline, and its
\* target is still what it was.
Establishes(e, j) ==
    /\ AbortProofs(j) = {e}
    /\ effects[e].checkpoint = job[j].checkpoint
    /\ effects[e].deadline = job[j].deadline
    /\ target[j] # "blocked"

\* The work that remains is known: nothing is pending, or e proves it is safe.
Known(j) ==
    job[j].pending = NoUnit \/ \E e \in DOMAIN effects : Establishes(e, j)

\* The outcome of an ineligible continuation, or "none" when it is eligible.
RecoveryStatus(j) ==
    IF ~authority[j] THEN "failed"
    ELSE IF j \in ProductJobs /\ job[j].cancel THEN "canceled"
    ELSE IF j \in complete THEN "succeeded"
    ELSE IF \/ job[j].attempt >= MaxAttempts
            \/ job[j].deadline = Null \/ job[j].deadline <= now
            \/ j \in Unsupported
         THEN "failed"
    ELSE "none"

\* consume_effect: the proof is used up and the pending unit cleared.
Cleared(j) == [job[j] EXCEPT !.pending = NoUnit]
Consume(j) ==
    effects' = [e \in DOMAIN effects |->
        IF job[j].pending # NoUnit /\ e \in AbortProofs(j)
        THEN [effects[e] EXCEPT !.stage = "consumed"] ELSE effects[e]]

RecoverUnknown(j) ==
    /\ Expired(j)
    /\ ~Known(j)
    /\ job' = [job EXCEPT ![j] = Completed(j, @, "recovery_required")]
    /\ attempts' = Ended(attempts, job[j].fence)
    /\ UNCHANGED <<now, issued, effects, authority, target, complete>>

RecoverRetire(j) ==
    /\ Expired(j)
    /\ Known(j)
    /\ RecoveryStatus(j) # "none"
    /\ Consume(j)
    /\ job' = [job EXCEPT ![j] = Completed(j, Cleared(j), RecoveryStatus(j))]
    /\ attempts' = Ended(attempts, job[j].fence)
    /\ UNCHANGED <<now, issued, authority, target, complete>>

RetryDelay(attempt) == Earlier(RetryStep * attempt, RetryCap)

RecoverRequeue(j) ==
    /\ Expired(j)
    /\ Known(j)
    /\ RecoveryStatus(j) = "none"
    /\ Consume(j)
    /\ job' = [job EXCEPT ![j] =
                [Cleared(j) EXCEPT !.status = "queued",
                                   !.fence = Null,
                                   !.lease = Null,
                                   !.due = now + RetryDelay(job[j].attempt)]]
    /\ attempts' = Ended(attempts, job[j].fence)
    /\ UNCHANGED <<now, issued, authority, target, complete>>

-----------------------------------------------------------------------------
(* Checkpoint operations of the worker that holds context c.               *)

\* Mutant: a cancellation is not looked at before the operation.
DeafMutant(j) == IF authority[j] THEN "none" ELSE "failed"

\* The guard of both checkpoint services: a stopped job is finished in the
\* same transaction and the operation itself does not happen.
StopStatus(j) ==
    IF ~authority[j] THEN "failed"
    ELSE IF j \in ProductJobs /\ job[j].cancel THEN "canceled"
    ELSE "none"

Guarded(c) == Owned(c) /\ StopStatus(c.job) = "none"

Stop(c) ==
    /\ StopStatus(c.job) # "none"
    /\ Finish(c, StopStatus(c.job))
    /\ UNCHANGED <<now, issued, effects, authority, target, complete>>

\* check and renew keep the checkpoint; save replaces it.
Checkpoint(c, data) ==
    /\ Guarded(c)
    /\ job' = [job EXCEPT ![c.job].checkpoint = data,
                          ![c.job].lease = Earlier(now + LeaseTime, job[c.job].deadline)]
    /\ UNCHANGED <<now, attempts, issued, effects, authority, target, complete>>

Renew(c) == Checkpoint(c, job[c.job].checkpoint)

\* The cleanup handler never saves anything but its acknowledgment.
Save(c) == c.job \in ProductJobs /\ Checkpoint(c, "saved")

NewEffect(c, unit, stage, gate) ==
    [stage |-> stage, job |-> c.job, attempt |-> c.number, fence |-> c.fence,
     deadline |-> c.deadline, unit |-> unit, checkpoint |-> job[c.job].checkpoint,
     gate |-> gate, confirmed |-> FALSE]

\* begin_effect declares a unit the handler performs itself, with no row.
BeginEffect(c, unit) ==
    /\ c.job \in ProductJobs
    /\ Guarded(c)
    /\ job[c.job].pending = NoUnit
    /\ Len(effects) < MaxEffects
    /\ job' = [job EXCEPT ![c.job].pending = unit]
    /\ effects' = Append(effects, NewEffect(c, unit, "direct", "waiting"))
    /\ UNCHANGED <<now, attempts, issued, authority, target, complete>>

\* confirm_effect.  The handler calls it after its external call returned.
ConfirmEffect(c, e) ==
    /\ effects[e].fence = c.fence
    /\ effects[e].gate = "entered"
    /\ ~effects[e].confirmed
    /\ Guarded(c)
    /\ job[c.job].pending = effects[e].unit
    /\ job' = [job EXCEPT ![c.job].pending = NoUnit, ![c.job].checkpoint = "ack"]
    /\ effects' = [effects EXCEPT ![e].confirmed = TRUE]
    /\ UNCHANGED <<now, attempts, issued, authority, target, complete>>

\* succeed, after the handler returned.  The cleanup handler returns only when
\* its acknowledgment is saved, and then only physical completion is success.
Succeed(c) ==
    /\ Guarded(c)
    /\ c.job \in CleanupJobs => job[c.job].checkpoint = "ack"
    /\ Finish(c, IF c.job \in ProductJobs \/ c.job \in complete
                 THEN "succeeded" ELSE "recovery_required")
    /\ UNCHANGED <<now, issued, effects, authority, target, complete>>

Fail(c) ==
    /\ Guarded(c)
    /\ Finish(c, "failed")
    /\ UNCHANGED <<now, issued, effects, authority, target, complete>>

-----------------------------------------------------------------------------
(* Observed effects: registration, single admission, the gate, the proof.  *)

\* Mutant: the saved acknowledgment does not suppress another DELETE.
ForgetfulMutant(j) == target[j] # "blocked"

\* What must hold of the target and the progress before a unit is registered.
\* Cleanup also refuses a target under retention, and any checkpoint but the
\* empty one: a saved acknowledgment means the DELETE was already made.
Preparable(j) ==
    IF j \in CleanupJobs
    THEN target[j] = "free" /\ job[j].checkpoint = "empty"
    ELSE target[j] # "blocked"

\* JobEffectObservationService.register, and the same registration made by
\* ArtifactCleanupPreparationService.prepare.
RegisterEffect(c, unit) ==
    /\ Guarded(c)
    /\ job[c.job].deadline = c.deadline
    /\ Preparable(c.job)
    /\ job[c.job].pending = NoUnit
    /\ Len(effects) < MaxEffects
    /\ job' = [job EXCEPT ![c.job].pending = unit]
    /\ effects' = Append(effects, NewEffect(c, unit, "registered", "none"))
    /\ UNCHANGED <<now, attempts, issued, authority, target, complete>>

\* The guard admission and recording share: the effect's own attempt still owns
\* the job, its unit is the pending one and its target has not moved.
Observable(c, e) ==
    /\ effects[e].fence = c.fence
    /\ Guarded(c)
    /\ job[c.job].pending = effects[e].unit
    /\ job[c.job].deadline = effects[e].deadline
    /\ target[c.job] # "blocked"

\* admit_effect, then the adapter hands the call to a thread behind a gate.
AdmitEffect(c, e) ==
    /\ effects[e].stage = "registered"
    /\ Observable(c, e)
    /\ effects' = [effects EXCEPT ![e].stage = "admitted", ![e].gate = "waiting"]
    /\ UNCHANGED <<now, job, attempts, issued, authority, target, complete>>

\* Mutant: the thread does not look at the gate it passes.
UngatedMutant(e) ==
    /\ effects[e].gate \in {"waiting", "aborted"}
    /\ effects' = [effects EXCEPT ![e].gate = "entered"]
    /\ UNCHANGED <<now, job, attempts, issued, authority, target, complete>>

\* The thread passes the gate: from here the call may take effect, whatever
\* has become of the lease.
EnterGate(e) ==
    /\ effects[e].gate = "waiting"
    /\ effects' = [effects EXCEPT ![e].gate = "entered"]
    /\ UNCHANGED <<now, job, attempts, issued, authority, target, complete>>

\* The caller timed out or was canceled and closed the gate first.
AbortGate(e) ==
    /\ effects[e].stage = "admitted"
    /\ effects[e].gate = "waiting"
    /\ effects' = [effects EXCEPT ![e].gate = "aborted"]
    /\ UNCHANGED <<now, job, attempts, issued, authority, target, complete>>

\* record_effect_abort: the proof of non-dispatch, under the live lease only.
RecordAbort(c, e) ==
    /\ effects[e].stage = "admitted"
    /\ effects[e].gate = "aborted"
    /\ Observable(c, e)
    /\ effects' = [effects EXCEPT ![e].stage = "aborted"]
    /\ UNCHANGED <<now, job, attempts, issued, authority, target, complete>>

-----------------------------------------------------------------------------
(* The environment: grants, artifact facts, settlement, and time.          *)

\* Facts the queue reads and other parts of the system write.
Disturbed ==
    Cardinality({j \in Jobs : ~authority[j]})
      + Cardinality({j \in Jobs : target[j] # "free"}) + Cardinality(complete)

AuthorityChanges(j) ==
    /\ authority[j] => Disturbed < MaxDisturbed
    /\ authority' = [authority EXCEPT ![j] = ~@]
    /\ UNCHANGED <<now, job, attempts, issued, effects, target, complete>>

TargetChanges(j, state) ==
    /\ target[j] # state
    /\ target[j] = "free" => Disturbed < MaxDisturbed
    /\ target' = [target EXCEPT ![j] = state]
    /\ UNCHANGED <<now, job, attempts, issued, effects, authority, complete>>

PhysicallyComplete(j) ==
    /\ j \notin complete
    /\ Disturbed < MaxDisturbed
    /\ complete' = complete \cup {j}
    /\ UNCHANGED <<now, job, attempts, issued, effects, authority, target>>

Tick ==
    /\ now < Horizon
    /\ now' = now + 1
    /\ UNCHANGED <<job, attempts, issued, effects, authority, target, complete>>

-----------------------------------------------------------------------------

Admit ==
    \/ \E j \in ProductJobs : AdmitProduct(j)
    \/ \E j \in CleanupJobs, d \in 1 .. AdmitHorizon + TransferWait : AdmitCleanup(j, d)

\* One poll of a worker that finds something to change.
Claim ==
    \E j \in Jobs : \/ ClaimRetire(j) \/ ClaimStart(j)
                    \/ RecoverUnknown(j) \/ RecoverRetire(j) \/ RecoverRequeue(j)

Work ==
    \E c \in attempts :
        \/ Stop(c) \/ Renew(c) \/ Save(c) \/ Succeed(c) \/ Fail(c)
        \/ \E u \in Units : BeginEffect(c, u) \/ RegisterEffect(c, u)
        \/ \E e \in DOMAIN effects :
              ConfirmEffect(c, e) \/ AdmitEffect(c, e) \/ RecordAbort(c, e)

Native == \E e \in DOMAIN effects : EnterGate(e) \/ AbortGate(e)

Environment ==
    \/ \E j \in ProductJobs : RequestCancel(j)
    \/ \E j \in Jobs : AuthorityChanges(j)
    \/ \E j \in Jobs, s \in {"free", "protected", "blocked"} : TargetChanges(j, s)
    \/ \E j \in CleanupJobs : PhysicallyComplete(j)

Next == Admit \/ Claim \/ Work \/ Native \/ Environment \/ Tick

Spec == Init /\ [][Next]_vars

\* Time passes, and some worker process keeps polling the queue
\* (run_application_worker's loop).  Nothing is assumed of the holder of an
\* attempt: it may crash or stall for ever.
FairSpec == Spec /\ WF_vars(Tick) /\ WF_vars(Claim)

-----------------------------------------------------------------------------
(* Properties.                                                             *)

\* An external call that may have happened and was not confirmed pins its job:
\* the attempt that made it is the job's last, the unit stays pending, and the
\* job is still running or reported as recovery_required - never requeued,
\* succeeded, failed or canceled (finish, recover_in_transaction).
UnknownEffectIsHeld ==
    \A e \in DOMAIN effects :
        LET f == effects[e]
            r == job[f.job]
        IN  f.gate = "entered" /\ ~f.confirmed =>
                /\ r.pending = f.unit
                /\ r.attempt = f.attempt
                /\ \/ r.status = "running" /\ r.fence = f.fence
                   \/ r.status = "recovery_required"

\* Recorded or consumed proof of non-dispatch is true for ever: the thread that
\* shares the gate never entered it, however late it ran (_InvocationGate,
\* record_effect_abort).
ProofExcludesDispatch ==
    \A e \in DOMAIN effects :
        effects[e].stage \in {"aborted", "consumed"} => effects[e].gate = "aborted"

\* Across all attempts, crashes and recoveries the DELETE of a cleanup
\* obligation is dispatched at most once (prepare, the saved acknowledgment).
DeleteDispatchedOnce ==
    \A d, e \in DOMAIN effects :
        /\ effects[d].job = effects[e].job
        /\ effects[d].job \in CleanupJobs
        /\ effects[d].gate = "entered"
        /\ effects[e].gate = "entered"
        => d = e

\* A running job's pending unit was declared by the attempt that owns the job:
\* no superseded worker ever leaves its own unit pending (_owned_row).
PendingBelongsToOwner ==
    \A j \in Jobs :
        job[j].status = "running" /\ job[j].pending # NoUnit =>
            \E e \in DOMAIN effects :
                /\ effects[e].job = j
                /\ effects[e].fence = job[j].fence
                /\ effects[e].unit = job[j].pending
                /\ ~effects[e].confirmed
                /\ effects[e].stage # "consumed"

\* The attempt history agrees with the job rows on every exit path: the open
\* attempts are exactly the current attempts of the running jobs (_end_attempt).
OpenAttemptsAreRunning ==
    {<<a.job, a.number, a.fence>> : a \in {b \in attempts : b.open}}
        = {<<j, job[j].attempt, job[j].fence>> : j \in Running}

\* The replay of an accepted operation is kept for as long as its job is live
\* or its outcome unknown (_complete's retention update).
ReplayOutlivesWork ==
    \A j \in ProductJobs :
        job[j].expires # Null => job[j].status \in Settled /\ job[j].pending = NoUnit

\* The lease alone decides who owns a running job. Once it has run out nothing
\* its holder does counts any more: the next change of the job is its retirement,
\* with progress left as it was. Until then it protects the holder: nobody
\* requeues the job, and the attempt and fence stay what they are until the
\* holder itself ends the attempt.
LeaseDecidesOwner ==
    [][\A j \in Jobs : job[j].status = "running" =>
         /\ job[j].lease <= now =>
               /\ job'[j].checkpoint = job[j].checkpoint
               /\ job'[j].pending \in {job[j].pending, NoUnit}
               /\ job'[j].status = "running" => job'[j].lease = job[j].lease
         /\ now < job[j].lease =>
               /\ job'[j].status # "queued"
               /\ job'[j].attempt = job[j].attempt
               /\ job'[j].status = "running" => job'[j].fence = job[j].fence]_vars

\* The budget of the original work never grows: the deadline is set by the
\* first attempt and kept, and every lease ends by it.
BudgetNeverGrows ==
    [][\A j \in Jobs :
         /\ job[j].deadline # Null => job'[j].deadline = job[j].deadline
         /\ job'[j].lease <= job'[j].deadline]_vars

\* Canceled or unauthorized product work is inert: from the commit of the
\* cancellation or revocation on it starts no attempt, declares or admits no
\* effect and saves no progress.
StoppedWorkIsInert ==
    [][\A j \in ProductJobs :
         job[j].cancel \/ ~authority[j] =>
            /\ job'[j].attempt = job[j].attempt
            /\ job'[j].checkpoint = job[j].checkpoint
            /\ job'[j].pending \in {job[j].pending, NoUnit}
            /\ \A e \in DOMAIN effects :
                  effects[e].job = j /\ effects[e].stage = "registered" =>
                      effects'[e].stage = "registered"]_vars

\* Every accepted job reaches a terminal outcome while some worker polls, even
\* if every worker that ever holds an attempt crashes in it.
AcceptedJobsEnd ==
    \A j \in Jobs : job[j].status \in Live ~> job[j].status \in Terminal

\* How much of a job's status the lifecycle contract sees.
Phase(status) ==
    CASE status = "absent" -> "absent"
      [] status = "queued" -> "waiting"
      [] status = "running" -> "active"
      [] status = "recovery_required" -> "doubt"
      [] OTHER -> "settled"

Life == INSTANCE JobLifecycle WITH
    phase <- [j \in Jobs |-> Phase(job[j].status)],
    tries <- [j \in Jobs |-> job[j].attempt]

\* Every transaction of the queue is a step of the lifecycle contract or
\* leaves it unchanged: one active attempt, at most three of them, a bounded
\* backlog, and no way out of a terminal outcome.
ImplementsLifecycle == Life!LifeSpec
=============================================================================
