# A verification of Inframeld

This directory holds TLA+ models of the backend in `src/apps/backend` and of the command line client's
target registry in `src/apps/cli`, TLC configurations that
check them on small instances, and proofs checked by TLAPS. The models are written from the code;
`PROJECT.json` maps each definition to the lines it stands for. Paths below are relative to
`src/apps/backend/src/inframeld_backend/` unless they start with `src/`.

    tlc -workers 2 -config JobQueueAlone.cfg MCJobQueue.tla     # one run
    tlapm HumanCredentialsProofs.tla                            # one proof module

## 1. The system

Inframeld is a self-hosted platform with one PostgreSQL database, a web application, one or more
*ordinary worker* processes, a *recovery worker* process, an S3 artifact store, and Ory Kratos and
Hydra for identities and OAuth. All coordination between processes goes through PostgreSQL: every
operation is a short transaction that locks the rows it decides on. The difficult behaviour sits
between transactions, where processes crash or stall and where calls to S3, Kratos or Hydra may or
may not have happened.

### Components

| Component | State | Operations | Interacts with |
|---|---|---|---|
| Durable job queue (`shared/infrastructure/repositories/postgres_job_store.py`, `job_*_service.py`) | `durable_jobs`, `durable_job_attempts` | admit, claim (retire or start), renew, save, succeed, fail, stop, recover, request cancellation | workers, admitted operations, work authority |
| External effects and recovery (`job_effect_observation_service.py`, `job_continuation_eligibility_service.py`, `job_recovery_service.py`, `artifact_cleanup_preparation_service.py`) | `durable_job_effects`, `pending_effect` | register, admit, record an abort, confirm, consume the proof, assess an expired attempt | the queue, the artifact store |
| Artifact store adapter (`s3_artifact_store.py`) | the gate of each native call, the pool of threads | dispatch or abandon a call, bound on pending calls, close | effects, worker |
| Ordinary worker (`application_worker.py`, `application_worker_operations.py`) | stop flag, handler and renewal tasks | poll, execute with a deadline, renew every third of a lease, shut down within a grace | everything above |
| Spending accounting (`spending_accounting_service.py`, `project_spending_policy_service.py`) | project and operation limits, calls, evidence, receipts | reserve, approve, record an observation, correct, change the limit | admitted work, administrators |
| Idempotent operations (`idempotency_service.py`, `postgres_operation_reservation_writer.py`) | reservations with fingerprint, state, expiry | reserve, replay, mark replayable, require recovery, expire | every mutating command, the queue |
| Artifact allocation (`artifact_allocation_service.py` and its repositories) | the byte ledger, attempts, reservations, cleanup obligations | allocate, retry | admission of cleanup jobs |
| Identity recovery (`access/application/services/identity_recovery_*`) | recoveries, credential version, product block, coverage of older recoveries | admit, save the password, record evidence, release | Kratos, authentication |
| Recovery cleanup (`identity_recovery_cleanup_*`, `bootstrap/recovery_worker.py`) | runs, attempts, steps, leases, proofs | claim, admit step, checkpoint, finish, resume, spread the proof | Hydra, Kratos, host operator |
| Project access (`project_grant_change_service.py`, `project_membership_change_service.py`, `access_group_*`) | memberships, grants, groups, one access revision | change grants, remove or hand over members, edit groups | authorization |
| Organization access (`organization_action_grant_change_service.py`, `first_administrator_bootstrap_service.py`, ...) | principals, organization grants, the bootstrap claim | bootstrap, admit humans, create application accounts, grant | authorization |
| Authentication and consent (`human_*_authentication_service.py`, `human_oauth_consent_service.py`) | none of its own; reads the credential version | authenticate before and after a provider call, consent | recovery, Hydra |
| Authorization (`action_authorization_service.py`, `admitted_work_authorization_service.py`) | none | allow or refuse, at admission and again for running work | access, queue |
| Project names and metadata (`project_*`, `resource_name_resolution_service.py`) | projects, names | create, rename, repair, resolve | access revision |
| Command line client's targets (`src/apps/cli/src/targets.rs`, `commands/targets/`) | the registry file, its lock, the stop flag of a call | register, select, answer, be interrupted | other calls on the same machine, the file system |

The HTTP layer, the dependency wiring, the lookups, the maintenance commands, the rest of the Rust
command line client (`src/apps/cli`), the web pages (`src/apps/web`), the documentation site, the client packages
with their generators, and the delivery scripts keep no state of the kind studied here;
`PROJECT.json` lists each of them with the reason.

### What is hard, and what makes each component correct

* **Queue and effects.** A worker whose lease ran out is still running and may call late. A worker may
  die between declaring an external effect and learning its outcome. A timed-out S3 call may be
  declared "never dispatched" while its thread is about to dispatch it. Authority, cancellation and
  the target can change between any two transactions of a worker. Correct means: only the live owner
  of a job changes it; an effect that may have happened is neither repeated nor reported as known; a
  cleanup deletes at most once; retries do not extend the time budget; every job ends.
* **Spending.** Evidence is late, repeated or contradictory; owners lose their leases before reporting;
  corrections are retried and may reuse a proof; limits change between reservation and approval.
  Correct means: money moves once per piece of evidence, receipts are stable, what is owed is never
  understated when a call is let go.
* **Idempotency.** Two requests with one key, an expired key reserved again, a crash between the work
  and the receipt. Correct means: at most one execution per live reservation, a replay returns the
  original result.
* **Recovery and its cleanup.** The provider calls run outside any transaction under a lease; a run
  may be ended, resumed by a host operator, or satisfied by the proof of a newer recovery while a call
  is in flight. Correct means: the block on a recovered identity is lifted only once everything issued
  before is revoked, a stale worker changes nothing, runs and attempts are bounded.
* **Access.** Changes of grants, memberships and groups race on one revision and are retried with
  receipts. Correct means: no change is decided on a stale revision and responsibilities always
  have an eligible holder.

* **Targets.** Several calls of the client change one file; signals, kills and losses of power fall between the
  replacement of the file and the synchronization of its directory. Correct means: no call loses another's entry, and
  what a call answers of its change is true and stays true.

The list of hazards in `PROJECT.json` names the line at which each of these bites.

## 2. The modules

### JobQueue: the durable queue, its effects and the gate

One action is one transaction. The claim transactions lock the head of the queue, the worker's
transactions lock the job's row, and both re-read what they decide on after locking, so a step per
transaction loses no interleaving. `Claim` is one poll by any worker, `Work` one call by the holder
of an attempt context, `Native` a step of the adapter's thread or of its caller.

| Model | Code |
|---|---|
| `job[j]` | row of `durable_jobs`; `pending` is `pending_effect`, `due` is `next_attempt_at`; `expires` and `execution` are written by `_complete` to the operation's reservation and the cleanup's execution state |
| `attempts` | rows of `durable_job_attempts`, and the contexts workers hold. A context is never taken back: a worker that stalls, is superseded or loses a reply is a context used late, one that crashes is a context not used again |
| `issued` | the fences drawn so far; a random UUID is modelled by a fresh number |
| `effects[e]` | row of `durable_job_effects`, `stage` for its timestamps; `gate` for the `_InvocationGate` of the call, `confirmed` for the owner's confirmation. `begin_effect` writes no row, so a unit begun that way is an entry of stage `direct` |
| `authority`, `target`, `complete` | facts the queue reads and other components write; the environment changes them at any moment |
| `AdmitProduct`, `AdmitCleanup` | the insertion under the capacity limit, one for each kind of work |
| `ClaimRetire`, `ClaimStart` | `claim_next` on a queued job |
| `RecoverUnknown`, `RecoverRetire`, `RecoverRequeue` | `claim_next` on a running job whose lease expired: `recover_in_transaction` and the assessment it makes |
| `Stop`, `Renew`, `Save`, `Succeed`, `Fail` | the checkpoint services; `Guarded` is the check each of them makes first, and `Stop` what happens when it fails |
| `BeginEffect`, `ConfirmEffect`, `RegisterEffect`, `AdmitEffect`, `RecordAbort` | the effect operations |
| `EnterGate`, `AbortGate` | `_InvocationGate.enter` in the thread and `abort` in its caller |

Bytes of a checkpoint are reduced to *empty*, *saved* and *ack*; the handlers distinguish no more.
Seconds are ticks, with the order of the code's durations kept. The bounds `MaxEffects`,
`MaxDisturbed` (how many external facts differ from the initial ones at once), `AdmitHorizon` and
`Horizon` appear as guards of the actions they bound.

`JobLifecycle` is the contract the queue offers to the rest: a job waits, is active in at most three
attempts of which only one exists in the installation, and ends settled or in doubt for good, with
at most `Capacity` accepted at a time. `JobQueue` maps its statuses to these phases, and
`ImplementsLifecycle` is checked and proved.

### SpendingLedger: the accounts of a project

Each action is a transaction; all lock the project's policy row first. The calls of a project carry a
state, a hold, a settled amount, a revision and the period they count in; `evidence[c][e]` is a row of
the evidence table with both receipts it may carry; `bill[c]` is what the provider would charge,
unknown to the code. Reports may contradict it and each other; `ApprovalFitsTrueCost` promises something only for
periods and operations whose reports were `Truthful`. Amounts are whole units: rounding happens in `_cost`, before the
steps modelled here. The bounds are `MaxAmount`, `MaxRevision` (the code's own limit, small) and
`Months`.

### RecoveryCleanup: from a recovery code to the release of the block

One identity and its recoveries, numbered in the order of their admission. Every transaction of the code
takes the identity's coordinator lock first, so an action is one transaction, or one call of Hydra
between two of them. Workers, reconcilers and operators are not processes of the model: a worker is
the attempt it holds, a reconciler the pairs it has planned. Each takes its next step at any later time or
never, whoever has replaced it meanwhile, and as many of them run at once as the rows allow.

| Model | Code |
|---|---|
| `recovery[r]`, `links`, `reconciled` | `identity_recovery_admissions`, and the links by which the proof of a newer recovery covers older ones |
| `job[r]`, `run[r]` | the cleanup job with its claim, and its open run. An ended run is `NoRun`, since nothing reads an ended run's contents. `lease`, `due` and `overdue` stand for the clock against `lease_expires_at`, `next_attempt_at` and the deadline |
| `attempts[a]` | row of the attempt with its step rows; `worker` and `step` are where the worker holding it has got to |
| `proof[r]`, `page` | `identity_recovery_cleanup_proofs`; the calls of `reconcile_proof` that some reconciler has planned |
| `receipt[o]` | `host_maintenance_receipts` |
| `exposed[s]` | not in the code: the recoveries whose earlier sessions, CLI grants or remembered logins may still work at Kratos or Hydra |
| `Admit`, `PasswordSaved` | the notifications of Kratos: the admission with its links, and the saved password with the hand-off of the first run |
| `Poll` (`PollExpired`, `PollEnd`, `PollClaim`) | the first transaction of `execute_once` |
| `AdmitStep`, `CallProvider`, `SaveOutcome`, `FinishAttempt`, `FailAttempt` | its later stages; each begins with `_owned_work`, except the provider call |
| `Resume` (`ResumeCompleted`, `ResumeConfirmed`, `ResumeAuthorized`) | the host command |
| `ReadPage`, `Reconcile`, `Defer`, `MarkPropagated` | `reconcile_pending` and the completion it calls |

`exposed` is pessimistic: a browser session that survived a recovery may log in to Hydra again right
after a revocation, so revoking at Hydra helps only those recoveries whose sessions Kratos has already
ended, and an answer other than the empty 204 leaves open whether Hydra acted. `Eligible` accounts may
be deactivated and restored at any moment. The terminal reasons, the missing credential version (which
makes every transaction refuse) and `record_cleanup`, which nothing in the repository calls, are left
out. Some conjuncts guard against states that cannot occur (`recovery[r].released` in `PollEnd`); they are
kept because the code has them.

### RecoveryContract and HumanCredentials: what a recovery means for a token

`RecoveryContract` is what recovery promises to those who trust a credential: it blocks the identity (`Block`), credentials
from before it stop working one surface after the other (`Revoke`), and it is released only when none is left (`Release`). `RecoveryCleanup`
implements it (`ImplementsRecoveryContract`), and `HumanCredentials` is built on the contract alone.

| `HumanCredentials` | Code |
|---|---|
| `version` | `human_credential_versions`, 0 without a row |
| `Notify` | `_reserve` of the admission writer: a new event advances the version, a repeated one changes nothing |
| `consent[c]` | one `decide` that approves: `Initialize` (own transaction), `Verify` (Kratos), `Approve` (second reading and checks), `Allow` (Hydra, at any later time or never) |
| `tokens` | not in the database: the version claim of each token Hydra may have issued, and the number of recoveries before the sign-in behind it |
| `call[k]` | a call's `AccessContextDTO`: `Authenticate` reads the state once, `Serve` is the check in the product's transaction, `Continue` the check of admitted work |
| `served` | history |

A token is never revoked or expired here, and a refreshed one keeps its claim, so the version has to do all the work. Whether the account is
active and what it may do are other refusals (`Leave`). A call that only reads may be overtaken by an admission after its
check; `served` records the check. Not modelled: inspecting and denying consents, calls with a browser session (they are checked for the
block, not for a version), and the end of the version's range at 2^63 - 1, where admission refuses.

### ArtifactCapacity: staging space for private bytes

`allocate` reads the disk, then runs one transaction that locks the Project, the queue and the ledger: the
model's `ReadCapacity(c)`, after which anything may happen before the same call's `Allocate` or
`Reject`. `Permitted` is the conjunction of what its three parts demand (reservation, obligation, cleanup
job); each part is either new or exactly the original of a retry, and a part refused rolls the others back.

| Model | Code |
|---|---|
| `ledger` | `artifact_storage_capacity`; `occupied` is its `occupied_bytes`, which no code in the repository writes |
| `staging[s]` | row of `artifact_staging_reservations` with its attempt; `limit` stands for the limit and the transfer time a retry must repeat |
| `obligation[o]`, `job[o]` | `artifact_cleanup_obligations` with its one target, and whether its job is absent, live or ended |
| `reading[c]` | the `ArtifactCapacityDTO` in a call's hand |
| `copies[a]`, `foreign` | not in the database: copies of the attempt on the disk (spool, store), and what others keep on it |

Sizes are small numbers in the code's proportions. `foreign` only shrinks: the reader's answer can promise
nothing against programs that fill the disk later. Nothing in the repository releases reserved bytes yet, so the
model has no such action, and an installation that has reserved its ceiling accepts no more bytes. The
deadline of the transfer and the artifact's later life (sealing, publication, retention) are not modelled.

`FloorKept` holds *because* `occupied` never moves: a stale reading does not show the bytes others
reserved or wrote since, but the ledger charges all of them as pending. Code that came to count
occupied bytes would have to read the disk after it, not before.

### ProjectAccess: who may do and delegate what in one Project

A service that changes access takes the organization's row for sharing, then the Project's row for itself,
reads its facts, decides, and writes under the revision it read. `Begin(h)` is the first half, up to the
decision, and the `Save...` actions the second, so the lock is held between them and everything the lock does
not stop happens there. `Turn` is the admission or completion of a recovery, which takes the organization's row
for itself and not the Project's.

| Model | Code |
|---|---|
| `members`, `groupMembers`, `managers`, `groups`, `accounts` | rows of `project_memberships`, `group_memberships`, `group_managers`, `access_groups`, `application_accounts` |
| `Rights`, `holders`, `grantors` | the pairs of a target (Project, group or account) and an action; the humans with a grant row, and those whose row says `can_grant` |
| `revision`, `looked[h]` | `projects.access_revision`, and the revision that human's client will send |
| `eligible` | humans whose principal is active and whose identity has no pending recovery |
| `Accepted` and its four parts | the decisions of the change services, each with its own rule of handover: `MayDepart`, `MayLeaveManagement`, `MayLoseGrant` |
| `SaveMembership`, `SaveGrant`, `SaveRelationship`, `CreateGroup`, `DeleteGroup`, `CreateAccount` | the writers |

A refused request and one that asks for what is already so change nothing and are stutters; receipts are the
business of `OperationReservation`. `Look` returns the current revision at any moment, more than a client can
rely on. Application accounts as recipients of grants hold use only, answer for nothing, and are left out.

### OrganizationAccess: who may act for the Organization

Three kinds of calls change who belongs to the Organization and what its members may do: `bootstrap` on the host,
`admit` and `grant` over HTTP. Identity recoveries take authority away at the same time. No single lock covers them
all: each call takes two or three of the identity's coordinator lock, the installation row and the Organization's row,
and which ones depends on what it finds. So an action is one *lock taken* (`Take`), one *decision* (`Decide`, `Refuse`,
`Replay`) or one *commit* (`Claim`, `Admit`, `Change`, `Recover`, `Release`), with anything in between. A lock that is not needed
(`Needs`: the Organization of an identity that is not linked) is passed by.

| Model | Code |
|---|---|
| `claim` | `first_administrator_bootstrap_receipts` |
| `linked`, `version`, `pending` | `human_identity_links`, `human_credential_versions`, recoveries not released |
| `grant`, `revision` | `organization_action_grants` (`use` is a row without `can_delegate`), `organizations.access_revision` |
| `call[c]` | one transaction: what was asked, the revision and token it came with, how many locks it has passed (`taken`) and holds (`held`) |
| `answers` | history: who was told that he is the first administrator, of which command |

The facts are read once, after the last lock, and the writers rely on them: `DecisionsStand` says that they may. The writers' own
second reads, the revision in their `UPDATE`s and the unique constraints would turn a broken decision into an error and are
not relied on. `Abandon` is the five-second deadline, a lost connection or a crash. No code changes the status of a
principal, so all are active. Replays of admissions and grants are those of `OperationReservation`; accounts, names and the audit
trail are left out.

### OperationReservation and ReplayContract: one key, many requests

The reservation, the work and its result are one transaction of the caller at READ COMMITTED, so its statements
interleave with those of other transactions: here an action is one *statement*. `row` is the committed row of
the key; `tx[c]` what the transaction of request `c` deleted (`purged`), inserted (`own`) and read (`found`).
`Contended` is PostgreSQL's wait for a transaction that holds the row or inserted the same key. `SettleJob` is
the queue giving the reservation of an accepted job its deadline.

`ReplayContract` is what a client relies on: under a key, at most one performance per kept outcome, and every
answer names that outcome. The refinement maps the clock, the row, what was performed and what was told; the
statements before the commit are stutters. Left out: the authority checks of a lookup, malformed metadata, and
rows that are committed in progress or that require recovery, which no code in the repository produces.

### WorkerProcess: the tasks of one worker and their end

| Model | Code |
|---|---|
| `main` | `run_application_worker` and `_serve`: startup, serving, the grace period, joining, closing |
| `loop` | the task of `loop()` with `_execute` inside |
| `handler`, `result` | the task of `handler.run`, its checkpoints and how it ended |
| `renewer` | `keep_lease` |
| `cancels` | tasks canceled but not yet told: a cancellation is met at the task's next step |
| `calls[s]`, `awaited` | the `_InvocationGate` of each native call in flight, and the one the handler waits for |
| `database`, `store` | the connection pool and the S3 client |

A handler is any sequence of work, checkpoints, effects and native calls, of any length. What a transaction
decides is left open, since `JobQueue` models it. `gather` waits for both tasks again after a cancellation.
A second cancellation may reach a handler while it records an abort, and the record is lost; the queue then
treats the effect as unknown. Reads of the store, which change nothing, and crashes, which `JobQueue`
models as attempts never continued, are left out. `late` counts effects admitted after the stop, up to `MaxLate`.

### TargetRegistry: the client's file of targets

`target add` and `target use` are processes of the same user that share a directory. An action is one effect on it, or
one point at which the call waits or looks at its stop flag.

| Model | Code |
|---|---|
| `file`, `disk` | the file `targets` as processes see it, and as a loss of power leaves it; the replacement is atomic, and on the disk once the directory is synchronized or any time before (`WriteBack`) |
| `lock` | the kernel lock on `targets.lock`, which dies with its holder |
| `call[c]` | one invocation: where it is, its `stop` flag, the registry it loaded (`seen`), and what it answered |
| `Start`, `Discover` | `add` asks the installation before it takes the lock, `use` does not |
| `Signal`, `Interrupt`, `Kill` | the first signal sets the flag; the `select!` in `run` drops an operation that waits; a second one, or SIGKILL, ends the process anywhere |
| `Acquire`, `GiveUp`, `Load`, `Refuse`, `Keep`, `Write` | `Store::update` |
| `Replace`, `ReplaceFails`, `Sync`, `SyncFails` | `publish` |

`writes` counts publications, to tell an entry replaced by others from one lost. Assumed: the directory itself survives a
loss of power (nothing synchronizes its parent), and a `persist` that fails has not replaced the file. A call answered
`alreadyRegistered` or `unchanged` has published nothing and synchronizes nothing: what it saw may be the work of a
call killed before its `Sync`, and can still be lost with the power. `SavedSurvives` therefore speaks of `saved` only.

## 3. The runs

| Run | Instance | Shows |
|---|---|---|
| `jobs_alone` | a product job or a cleanup job with the queue to itself, one unit name, two effects attempted, one disturbed fact | stale workers, the gate, cancellation and revocation, three attempts: `DeleteDispatchedOnce`, `UnknownEffectIsHeld`, `ProofExcludesDispatch`, `PendingBelongsToOwner`, `ReplayOutlivesWork`, `LeaseDecidesOwner`, `BudgetNeverGrows`, `StoppedWorkIsInert` |
| `jobs_shared` | two product jobs (one unsupported) and a cleanup job in a queue of two | `OpenAttemptsAreRunning`, `ImplementsLifecycle`, and the liveness property `AcceptedJobsEnd` |
| `spending` | two calls of an operation, three pieces of evidence, two months, amounts to 1, limits 1 and 2, six revisions, within `TogetherOrAlone` | `ApprovalFitsTrueCost`: what is owed never exceeds the limit at an approval; `MoneyMovesOnNewEvidence` |
| `recovery_overlap` | two recoveries, runs of one attempt, no host request | `ReleasedIsSafe`, `ProvedWorkIsOver`, `ImplementsRecoveryContract`, and the liveness properties `ProofDecidesBlocks` and `RunsEnd` |
| `recovery_operator` | one recovery, one host request, runs of two attempts | `ClaimAgreesWithHistory`, `BudgetIsAuthorized` |
| `credentials` | two recoveries, two consents under way, two calls, sessions and one other surface | `NothingOldIsServed`, `OnlyRecoverySignsOut` |
| `artifact_capacity` | two callers, two names of each kind, limits 1 and 2, one business operation and unadmitted staging, one place in the queue, a disk of 20 of which others hold 6 | `FloorKept`, `LedgerCoversBytes`, `BytesAreOwned`, `OperationWithinAllowance` |
| `project_access` | two humans, one group, one application account, two Project actions, seven revisions | `NothingOrphaned`, `DecisionsStayTrue`, `HandoverFindsSomeone` |
| `organization_access` | two humans, two bootstrap commands, two calls under way, four revisions, one recovery of each human | `DecisionsStand`, `OneFirstAdministrator`, `NoCircularWait` |
| `reservation_retries` | three requests at once, two meanings, a retention of one tick of three, four operation ids | `WinnerIsFound`, `ImplementsContract` |
| `worker_shutdown` | two slots for native calls | `ResourcesOutliveUsers`, `OneLateEffect`, and the liveness property `NobodyWaitsForever` |
| `target_registry` | three calls, two labels, two bindings | `SavedSurvives`, `NoSilentChange`, `OthersAreKept` |

**Why the bounds are enough.** The effect properties relate the attempts of one job; the job's row
never depends on other jobs except through the head of the queue and the capacity, which
`jobs_shared` covers. Time is long enough for three attempts, with expiry, the retry delay and the
deadline falling inside the horizon; an effect fits in each of two attempts,
so a stale one meets a new one, and a third attempt follows. Two calls are
the least for which totals, holds and incompleteness of another call matter, and with amounts to 1 they fit the one limit and not the other; three pieces of evidence
the least in which one is pending, one resolves it and one arrives in between. The constraint `TogetherOrAlone` of `spending`
keeps the two apart, since totals do not depend on how many pieces of evidence made them: either two calls share the limits,
with one truthful piece each, or one call has all three pieces, contradictory or not, and no limits. Two recoveries are
the least with a link, and give both orders in which an older and a newer cleanup finish; one attempt each
still lets every attempt stall, be replaced and answer late. Retries within a run and the host's request are independent of
links and meet in `recovery_operator`, where an attempt can be outlived by three others. For `credentials` two recoveries let a
consent begin before one, pass between two and end after both, while another takes its token to two calls. In `artifact_capacity` the floor (a fifth of 20), the spool's ceiling (3), the
operation's allowance (2) and the queue (1) each refuse some call that the others would admit; two
names of each kind are enough for a retry under changed names to meet another's rows. In `project_access` two humans are the
least who can rely on each other, and seven revisions let both be made responsible for every kind of target and
then leave. In `organization_access` four revisions let the first administrator admit another human, hand his
delegation over and lose it, and one recovery of each meets every kind of call before, between and after its locks; two calls
are enough for a circle of two locks, and the proof covers longer ones. Three requests are the least in which one purges, one waits for it and one finds what both left; the
clock passes a deadline twice. The worker's model has no bound but the two slots: one call given up, one new. Three calls of the
client let one wait or give up while another writes and a third, later one sees what they left; two labels and bindings meet every case
of the update. The proofs
remove the bounds for the properties they cover. Every property has a mutant in
`PROJECT.json`: a plausible bug in the mapped code under which the same run fails.

**Fairness.** `FairSpec` assumes that time passes and that some worker keeps polling
(`WF_vars(Claim)`), which is the loop of `run_application_worker`; an installation with no worker
running promises nothing. Nothing is assumed of the holder of an attempt, of a native call or of the
environment, so `AcceptedJobsEnd` holds although every attempt may crash. All safety runs use `Spec`.
`Fairness` of `RecoveryCleanup` assumes the same of the recovery worker, whose loop polls and then
reconciles (a worker ended by an unexpected exception is restarted by its supervisor): weak fairness of
`Poll`, of `ReadPage` and `MarkPropagated`, and of the clock. `Reconcile` has strong fairness: a database
failure may defer a proof again and again, each time it is listed once more after fifteen seconds, and the
assumption says that the database does not fail for ever. Again nothing is assumed of an attempt, of Hydra or of
the operator, so `RunsEnd` holds although every attempt may be abandoned in the middle of a call.
`WorkerProcess` assumes that timers fire, that a runnable task runs, and that database and SDK calls return, since both
have timeouts: weak fairness of the steps of `main`, of the loop, of the renewal, of each thread, and of those steps of
the handler that wait for such a call or meet a cancellation. Nothing is assumed of a handler's own work, nor that the process is ever stopped.

**Deadlock** checking is on in `artifact_capacity`, `reservation_retries` and `worker_shutdown`, where an exited
process is the only state that may stop. Elsewhere it is off because the bounded clock, revisions, months and calls end every
behaviour of the models; the code's services have no final state, and a call of the client ends.

**Symmetry** is used in `spending`, where calls and evidence are interchangeable, in
`artifact_capacity`, where callers and the names they choose are, in `credentials`, where consents and
calls are, in `project_access`, where the humans are, in `organization_access`, where humans and calls are, in `reservation_retries`, where requests and meanings are, and in `target_registry`, where calls, labels and bindings are; none of
them checks a liveness property.

## 4. The proofs

| Module | Theorem | For every value of the constants |
|---|---|---|
| `JobQueueProofs` | `TypeCorrect` | rows stay well-formed |
| | `EffectInvariant` | the inductive invariant below |
| | `UnknownEffectHeld`, `ProofsAreSound`, `DeleteOnce` | `UnknownEffectIsHeld`, `ProofExcludesDispatch`, `DeleteDispatchedOnce` |
| | `QueueImplementsLifecycle` | the queue implements `JobLifecycle` |
| | `RowInvariant`, `ReplaysAreKept`, `BudgetIsFixed` | what a job's row says of itself; `ReplayOutlivesWork`, `BudgetNeverGrows` |
| | `LeaseIsDecisive`, `StoppedWorkStays` | `LeaseDecidesOwner`, `StoppedWorkIsInert` |
| | `OwnersPendingUnit`, `HistoryAgrees` | `PendingBelongsToOwner`, `OpenAttemptsAreRunning` |
| | `LifecycleKeepsPromise`, `JobsDescend`, `OutcomesStay` | one attempt at a time in the installation, the backlog within `Capacity`, three attempts of a job (`LifePromise`); every change of phase brings a job nearer to its end (`NoWayBack`); a job that is over is changed by nothing (`OutcomesAreFinal`) |
| `AccountingProofs` (spending) | `TypeCorrect`, `EvidenceInvariant` | rows are well-formed; evidence not recorded left no trace |
| | `MoneyMovesOnce`, `ReceiptsFinal`, `KnownOutcomesWait` | `MoneyMovesOnNewEvidence`; receipts are never rewritten (`ReceiptsAreFinal`); a known outcome changes only by a reviewed correction (`KnownOutcomeNeedsReview`) |
| | `CostInvariant`, `ApprovalsFit` | the inductive invariant `CostInv`; `ApprovalFitsTrueCost` |
| `RecoveryProofs` | `RecoveryTypes`, `RecoverySafety` | `TypeOK`, `ReleasedIsSafe` |
| | `RecoveryImplementsContract` | the cleanup implements `RecoveryContract` |
| | `ClaimsMatchHistory`, `ProofEndsWork`, `BudgetIsRespected` | `ClaimAgreesWithHistory`, `ProvedWorkIsOver`, `BudgetIsAuthorized` |
| `HumanCredentialsProofs` | `CredentialInvariant`, `CredentialTypes` | the inductive invariant; rows are well-formed |
| | `OldTokensAreUseless`, `SignOutIsRecovery` | `NothingOldIsServed`, `OnlyRecoverySignsOut` |
| `AccountingProofs` (artifacts) | `Invariance`, `TypesHold` | the inductive invariant `AllocationInv`; rows are well-formed |
| | `FloorHolds`, `OwnersHold`, `RetriesAreFree` | `FloorKept`, `BytesAreOwned`; no allocation changes once made, and the ledger moves only with a new one (`AllocationsAreFinal`) |
| | `SumsInvariance`, `LedgerCovers`, `AllowanceHolds` | the inductive invariant `SumsInv`; `LedgerCoversBytes`, `OperationWithinAllowance` |
| `ProjectAccessProofs` | `AccessTypes` | rows are well-formed |
| | `NothingIsOrphaned`, `AccessFollowsMembership`, `DecisionsHold` | `NothingOrphaned`, `DecisionsStayTrue`; grants and relations belong to members and to existing targets (`AccessNeedsMembership`) |
| | `HandoverIsReal`, `ViewsAreUsedOnce` | `HandoverFindsSomeone`; of the changes asked for on one view at most one happens (`OneChangePerLook`) |
| `OrganizationAccessProofs` | `LocksAreHeld` | rows are well-formed, locks exclude one another |
| | `DecisionsHold`, `OnlyOneBootstrap`, `NoDeadlock` | `DecisionsStand`, `OneFirstAdministrator`, `NoCircularWait` |
| `ReservationProofs` | `ReservationTypes`, `TheWinnerIsFound` | `TypeOK`, `WinnerIsFound` |
| | `ReservationsImplementContract` | the transactions implement `ReplayContract` |
| | `AnswersAreHonest` | no operation is the answer to two different requests, and every answer names committed work (`Honest`) |
| `ProcessProofs` (worker) | `StopInvariant`, `WorkerTypes` | the inductive invariant `StopInv`; variables are well-formed |
| | `ResourcesStay`, `AtMostOneLate` | `ResourcesOutliveUsers`, `OneLateEffect` |
| `ProcessProofs` (targets) | `RegistryInvariant`, `RegistryTypes` | the inductive invariant `RegistryInv`; `RegistryTypeOK` |
| | `SavedStays`, `SilenceIsKept`, `PublicationsKeepOthers` | `SavedSurvives`, `NoSilentChange`, `OthersAreKept` |

What is proved of every instance is not always repeated in the runs: neither the type invariants nor the properties the table describes in words.
Every safety property and every refinement that a run checks is proved.

They assume what the `ASSUME`s of the modules state: at least one recovery and one attempt; finite and disjoint sets of jobs, natural
durations, a `NoUnit` or `NoEvidence` outside its set, limits in `Nat`. TLC evaluates them in each run.

**The argument for effects.** "An effect that may have happened is held" is not inductive: from a
state in which an entered effect is not its job's pending unit, nothing stops a retry. `EffectInv`
adds what the code maintains. `FenceInv`: every fence in use was issued, and one fence names one attempt, in
the history and in the effects. `GateInv`: the stage of an effect bounds its gate; a recorded proof has an
aborted gate, a registered unit has none, and only an entered call is confirmed. `PinInv`: an effect that
is neither confirmed nor consumed is its job's pending unit, under the job's own fence or with the job in
`recovery_required`, and no job has two such effects. `CleanupInv`: the checkpoint of a cleanup tells
whether its DELETE was confirmed, which is where the empty-checkpoint rule of `prepare` is needed.
`AbsentInv`: an absent job's row is empty. Each action needs one step, grouped by how it touches the effects: those that leave
them alone, those that change one stage, declaration, confirmation and recovery.

**The refinement** shows that each action maps to `Accept`, `Activate`, `GiveBack`, `Settle`, `Doubt`
or a stutter. It uses `EffectInv` for one step only: a job that finishes with a pending effect goes to
doubt from the active phase. What the contract promises in numbers, `LifePromise`, is proved of the contract's steps
alone (`PromiseKept`) and so holds of the queue.

**Leases and history.** A step changes one job's row at most (`OneRow`), and in one of five ways: it is accepted,
ends, starts an attempt, gives one back, or its owner works on it (`RowChange`). Each names what it may touch, so the lease properties follow
from the kind of change and the guard behind it. `PendingBelongsToOwner` adds the same for the effects
(`EffectChanges`), `OpenAttemptsAreRunning` the history (`HistoryInv`: an open row of the history is the current attempt of a running job, and each
running job has one).

**Spending.** A call's outcome changes in two actions. In `RecordObservation` the evidence is new, so by
`EvidenceInv` it carried no receipt and now does. In `Reconcile` the proof was not
`AlreadyApplied`, and afterwards it is stamped or resolves itself.

**What is owed.** The approval compares sums of rows with limits, `ApprovalFitsTrueCost` sums of bills. `CostInv` relates each row to its
bill: a hold still open covers the bill, a settled or released call has the outcome of a report that is on record. If the reports of a period
are truthful, a settled amount is the bill and a released call has none; a call whose hold is unknown makes
the period incomplete, and then nothing is approved. So every bill of a call that was sent is covered by its row's settled amount or hold
(`SumCovered`), and their sums were within the limit (`AllowedCoversBills`).

**The release of a recovery.** `Reconcile` releases a recovery because step rows of the proof's source say
"confirmed", long after the calls were made. `IInv` says why that is enough. `AdmittedInOrder` and
`LinksCoverOlder`: recoveries are admitted in order and a link leads to an older one, so what is gone for
a proof's source and everything older is gone for its target. `JobsRestOnEvidence`, with `RunsHaveJobs` and `AttemptsHaveJobs`: an
attempt belongs to a job, and a job exists only after the saved password ended the earlier sessions, so a
call of Hydra that took effect leaves nothing behind. `ClaimsAreTrue`: whatever an
attempt claims, in a step row or as an answer its worker has not saved yet, is true at Hydra and stays
true, since only an admission adds to `exposed` and it adds the newest recovery. `StepsInHand`: an answer
is saved to the step it was given for. `TypeOK` is among them because rows refer to attempts by their number.

**The contract of recovery.** An admission is `Block`, a step that shrinks `exposed` is `Revoke`, and `Reconcile` is `Release` or a
stutter: that the released recovery is in no `exposed[s]` any more is the step of `ReleasedIsSafe` above. All other actions leave
`recovery[r].admitted`, `recovery[r].released` and `exposed` as they are.

**Claims and budgets.** Every step of the cleanup but `PollClaim` leaves each job's claim as it is or drops it together with the
attempt's open mark (`ClaimStep`), from which `ClaimAgreesWithHistory` and `ProvedWorkIsOver` follow. `ProofsRest` is the missing
part: a proof belongs to a recovery that has had its job or is recorded as cleaned, so `PasswordSaved` starts nothing after it. `BudgetHolds` counts: the attempts
made and those an open run has left fit the runs granted, one with the job and one for each receipt that authorizes.

**Credentials.** Only the contract is used, never a revocation of tokens. `VersionCounts`: the version is one more than
the recoveries admitted. A consent that began with nothing pending (`clear`) thus has all recoveries its version counts released, hence
closed on every surface (`ReleasedIsClosed`), so a session that Kratos still accepts later was born after them (`Grounded`).
The token then carries a version that the next recovery outdates. Without the first reading's `clear` an old session could be verified
before the release and its consent approved after it: the mutant of `NothingOldIsServed`.

**The free-space floor.** `FloorKept` is not inductive, since a call may hold any reading. `AllocationInv` adds
`ReadingsAreModest`: a reading is at most what others leave *now*, because written bytes only lower it and
others only leave more; and `occupied` is 0. Then `FitsFacts` is linear arithmetic: the admitted call's own
inequality, with the whole ledger charged as pending and again as backup, is the floor of the next state. `BytesAreOwned`
is needed to see that a reservation and its obligation are either both new or both the original ones
(`AllocateFacts`), from which `RetriesAreFree` follows too.

**Sums.** Totals in the ledgers are `SumFunctionOnSet`, a recursive function over sets whose induction theorem the provers cannot
instantiate. Its equations are proved without induction: a set on which one failed would have a least subset on which it
fails (`LeastExists`), and one step of the recursion contradicts that. From `SumInsert`, `SumPart`, `SumCovered` and `SumMonotone` follow
the arguments about totals. `Charges` says that the ledger's bytes are the sum of the reservations, counted by reservation and counted
by staged attempt, and that a reserved byte is charged twice. An attempt has
at most two copies, so `LedgerCoversBytes` follows. `OperationWithinAllowance` is inductive with it: a new obligation of an operation is
admitted on the same sum.

**Access.** `DecisionsStayTrue` is what makes the writers safe: the facts they do not read again still hold. It is
inductive with `OneAtATime` (the Project's lock), and because `Turn` waits for the organization's lock. Each change
then keeps `NothingOrphaned` and `AccessNeedsMembership` together (`Kept`): who leaves a right leaves it to somebody
the rule of handover named, and for a new or deleted target nobody else held anything, which
`AccessNeedsMembership` says. `AsSeen` ties the transaction to the revision its client saw.

**The Organization.** `LockInv` says that locks are taken in one order and exclude one another, and that a call which passed the
Organization lock without taking it still does not need it (`OrganizationTaken`): to link its human another call would need
his identity lock. From the order alone `NoDeadlock` follows: if every call of a group waited for another, none could hold the last
lock, hence none the one before. For `DecisionsHold`, of two decided calls one commits: either both hold the same lock, which is
impossible, or the recovery that commits is of a human who is neither the actor, the recipient nor the
delegate the other decided on, since those are linked and would have made it take the Organization lock. `AnswersRecorded` gives
`OnlyOneBootstrap`: while there is no claim nobody was answered.

**Reservations.** `OneHolder` (at most one open transaction has deleted or inserted the key's row), `PurgedIsExpired`
and `OwnIsFresh` (an inserted operation id was never performed) make `WinnerIsFound` inductive: once a row is
committed, another takes its place at a commit and never leaves a gap. The refinement adds `RowIsDone` and
`FoundIsOriginal`: the row read by a replay is still the row of that operation, or the replay answers nothing. `Honest`, that answers
naming one operation were given to requests for one thing, needs only the contract: a performance brings an operation that was never performed, and a
kept outcome is answered for its own meaning.

**The stop of the worker.** What is closed is closed by the main task in its last stages, and those begin when the loop is over. `StopInv` says so,
and that outside an attempt neither the handler nor the renewal is running (`Joined`): the loop leaves an attempt by `Unwound` only, which waits
for both, however often it is canceled meanwhile. Threads are not tasks: they are
waited for by `Drain`. `LateInv`: nothing late before the stop, and once an effect was late the handler is not about to be allowed another,
because a checkpoint reads the flag and `Admit` always leaves that stage.

**The targets.** `RowInv` is what is known of one call, given what is read (`file`) and what survives (`disk`). Under the lock it has loaded the
current registry, so when it writes, the entry it adds is free, or the target it selects is there; nobody else is under the lock, so no promise
is about an entry that changes. A saved call's publication and entry are in both registries, and since nothing survives
that was not written (`disk.writes <= file.writes`), a loss of power takes only what nobody was promised. It follows
that `Replace` alone publishes (`OnlyReplacePublishes`), and `ReplacementIs` says what.

Only model-checked: liveness (`AcceptedJobsEnd`, `RunsEnd`, `ProofDecidesBlocks`, `NobodyWaitsForever`), which rests on fairness and `ENABLED` and
is beyond the provers. Of `AcceptedJobsEnd` the part without fairness is proved: `NoWayBack` bounds the steps a job can take, and TLC shows that the next
one is taken.

## 5. The plan

1. `JobQueue`, `JobLifecycle`, `SpendingLedger` and their proofs: done.
2. `RecoveryCleanup` with the proof of its release rule: done.
3. `ArtifactCapacity` with the proof of its floor: done.
4. `ProjectAccess` with the proof that nothing is orphaned: done.
5. `OperationReservation` with its contract and the proof of the refinement: done.
6. `WorkerProcess`: done.
7. `RecoveryContract`, which `RecoveryCleanup` implements, and `HumanCredentials` on top of it: done.
8. `OrganizationAccess` with the proofs that decisions stand and that no calls wait in a circle: done.
9. Proofs of the queue's lease and history properties and of the cleanup's claims and budgets: done.
10. `TargetRegistry`, the first part of the client: done. Its login could follow.
11. Proofs about the worker and the targets, about every sum of the ledgers, and about what the contracts of the queue and of a key mean: done.

## 6. Not modelled

The SQL itself, apart from what its conditions say; the isolation level enters only as the row locks that
make a transaction one step. Encoding of payloads, fingerprints and checkpoints, and the rounding of a model call's cost
(`_cost`), which happens before anything is compared. The HTTP interface and the web pages, which keep no state of their own.
The client's discovery, login and hand-over of recipient proofs, each a protocol of one process with the identity
provider or a host
command that keeps nothing for the next call. Lookups and other reads. Logging and metrics. The delivery scripts and the generators of the client
packages, which are tools of the developers, and what they generate. The packages `knowledge`, `indexing`, `pipelines`,
`evaluation` and `releases`, which hold no code yet. `PROJECT.json` lists these parts with their reasons.
