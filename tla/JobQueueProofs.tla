--------------------------- MODULE JobQueueProofs ---------------------------
(***************************************************************************)
(* Proofs about the durable job queue, for every number of jobs, units and *)
(* effects and every lease, budget and delay: its types, that it never     *)
(* loses track of an external effect, and that it implements the lifecycle *)
(* contract.                                                               *)
(***************************************************************************)
EXTENDS JobQueue, FiniteSetTheorems, TLAPS

-----------------------------------------------------------------------------
(* Facts about sequences and numbers.                                      *)

\* Replacing one element keeps a sequence a sequence.
LEMMA SeqUpdate ==
    ASSUME NEW S, NEW s \in Seq(S), NEW i \in DOMAIN s, NEW v \in S
    PROVE  [s EXCEPT ![i] = v] \in Seq(S)
  OBVIOUS

\* Appending an element keeps a sequence a sequence.
LEMMA SeqAppend ==
    ASSUME NEW S, NEW s \in Seq(S), NEW v \in S
    PROVE  Append(s, v) \in Seq(S)
  OBVIOUS

\* Rewriting the elements one by one keeps a sequence a sequence of its length.
LEMMA SeqReplace ==
    ASSUME NEW S, NEW s \in Seq(S), NEW F,
           F = [i \in DOMAIN s |-> F[i]], \A i \in DOMAIN s : F[i] \in S
    PROVE  F \in Seq(S)
  OBVIOUS

\* Products of naturals are naturals (the retry delay).
LEMMA ProductIsNat ==
    ASSUME NEW a \in Nat, NEW b \in Nat
    PROVE  a * b \in Nat
  OBVIOUS

-----------------------------------------------------------------------------
(* Type correctness.                                                       *)

\* Where a row of the queue may go when an attempt or a queued job ends.
LEMMA CompletedType ==
    ASSUME NEW j \in Jobs, NEW r \in JobRow, NEW status \in Terminal, now \in Nat
    PROVE  Completed(j, r, status) \in JobRow
<1> DEFINE expires == Expiry(j, r, status)
           execution == IF j \in CleanupJobs THEN status ELSE r.execution
<1>1. expires \in Nat
  BY TimesAssumption DEF Expiry, JobRow, Null
<1>2. execution \in {"none"} \cup Terminal
  BY DEF JobRow
<1>3. Null \in Nat /\ status \in Statuses
  BY DEF Null, Statuses
<1> HIDE DEF expires, execution
<1>4. [r EXCEPT !.status = status, !.fence = Null, !.lease = Null,
                !.expires = expires, !.execution = execution] \in JobRow
  BY <1>1, <1>2, <1>3 DEF JobRow
<1>5. QED
  BY <1>4 DEF Completed, expires, execution

\* An admitted row is well formed.
LEMMA QueuedType ==
    ASSUME now \in Nat, NEW due \in Nat
    PROVE  QueuedRow(due) \in JobRow
<1> DEFINE wait == now + QueueWait
<1>1. wait \in Nat
  BY TimesAssumption
<1>2. AbsentJob \in JobRow /\ "queued" \in Statuses
  BY DEF AbsentJob, JobRow, Statuses, Live, Checkpoints, Null, MaxAttempts
<1> HIDE DEF wait
<1>3. [AbsentJob EXCEPT !.status = "queued", !.admitted = now, !.due = due,
                        !.queuedDeadline = wait] \in JobRow
  BY <1>1, <1>2 DEF JobRow
<1>4. QED
  BY <1>3 DEF QueuedRow, wait

\* Clearing the pending unit keeps the row well formed.
LEMMA ClearedType ==
    ASSUME NEW j \in Jobs, job[j] \in JobRow
    PROVE  Cleared(j) \in JobRow
  BY DEF Cleared, JobRow

\* Ending an attempt keeps the history well formed.
LEMMA EndedType ==
    ASSUME NEW rows, rows \subseteq AttemptRow, NEW fence
    PROVE  Ended(rows, fence) \subseteq AttemptRow
  BY DEF Ended, AttemptRow

\* A newly declared effect is a row of the effect table.
LEMMA NewEffectType ==
    ASSUME NEW c \in AttemptRow, NEW u \in Units, TypeOK,
           NEW stage \in {"direct", "registered"}, NEW gate \in {"none", "waiting"}
    PROVE  NewEffect(c, u, stage, gate) \in EffectRow
  BY DEF NewEffect, EffectRow, AttemptRow, TypeOK, JobRow

\* A finished attempt leaves a well-formed row and history.
LEMMA FinishType ==
    ASSUME TypeOK, NEW c \in attempts, NEW status \in Terminal, Finish(c, status)
    PROVE  job' \in [Jobs -> JobRow] /\ attempts' \subseteq AttemptRow
  <1>1. c.job \in Jobs /\ job[c.job] \in JobRow
    BY DEF TypeOK, AttemptRow
  <1>2. FinishedStatus(job[c.job], status) \in Terminal
    BY DEF FinishedStatus, Terminal
  <1>3. Completed(c.job, job[c.job], FinishedStatus(job[c.job], status)) \in JobRow
    BY <1>1, <1>2, CompletedType DEF TypeOK
  <1>4. job' \in [Jobs -> JobRow]
    BY <1>3 DEF Finish, TypeOK
  <1>5. QED
    BY <1>4, EndedType DEF Finish, TypeOK

\* Every transaction keeps the tables well formed.
LEMMA TypeStep == TypeOK /\ [Next]_vars => TypeOK'
<1> SUFFICES ASSUME TypeOK, [Next]_vars PROVE TypeOK'
  OBVIOUS
<1> USE DEF TypeOK
<1>1. ASSUME NEW j \in ProductJobs, AdmitProduct(j) PROVE TypeOK'
  <2>1. QueuedRow(now) \in JobRow
    BY QueuedType
  <2>2. QED
    BY <1>1, <2>1 DEF AdmitProduct, Jobs
<1>2. ASSUME NEW j \in CleanupJobs, NEW d \in 1 .. AdmitHorizon + TransferWait,
             AdmitCleanup(j, d)
      PROVE  TypeOK'
  <2>1. QueuedRow(d) \in JobRow
    BY QueuedType, TimesAssumption
  <2>2. QED
    BY <1>2, <2>1 DEF AdmitCleanup, Jobs
<1>3. ASSUME NEW j \in Jobs, ClaimRetire(j) PROVE TypeOK'
  <2>1. RetireStatus(j) \in Terminal
    BY <1>3 DEF ClaimRetire, RetireStatus, Terminal, Settled
  <2>2. Completed(j, job[j], RetireStatus(j)) \in JobRow
    BY <2>1, CompletedType
  <2>3. QED
    BY <1>3, <2>2 DEF ClaimRetire
<1>4. ASSUME NEW j \in Jobs, ClaimStart(j) PROVE TypeOK'
  <2> DEFINE d == DeadlineOf(job[j])
             row == [job[j] EXCEPT !.status = "running", !.attempt = @ + 1,
                                   !.fence = issued + 1, !.deadline = d,
                                   !.lease = Earlier(now + LeaseTime, d)]
             context == [job |-> j, number |-> job[j].attempt + 1,
                         fence |-> issued + 1, deadline |-> d, open |-> TRUE]
  <2>1. d \in Nat /\ Earlier(now + LeaseTime, d) \in Nat
    BY TimesAssumption DEF DeadlineOf, JobRow, Earlier
  <2>2. job[j].attempt \in 0 .. MaxAttempts /\ job[j].attempt < MaxAttempts
    BY <1>4 DEF ClaimStart, JobRow
  <2>3. row \in JobRow
    <3> DEFINE lease == Earlier(now + LeaseTime, d)
               number == job[j].attempt + 1
               fence == issued + 1
    <3>1. /\ d \in Nat /\ lease \in Nat /\ fence \in Nat
          /\ number \in 0 .. MaxAttempts /\ "running" \in Statuses
      BY <2>1, <2>2 DEF MaxAttempts, Statuses, Live
    <3> HIDE DEF d, lease, number, fence
    <3>2. [job[j] EXCEPT !.status = "running", !.attempt = number, !.fence = fence,
                         !.deadline = d, !.lease = lease] \in JobRow
      BY <3>1 DEF JobRow
    <3>3. QED
      BY <3>2 DEF lease, number, fence
  <2>4. context \in AttemptRow
    BY <2>1, <2>2 DEF AttemptRow, MaxAttempts
  <2>5. job' = [job EXCEPT ![j] = row] /\ attempts' = attempts \cup {context}
        /\ issued' = issued + 1
    BY <1>4 DEF ClaimStart
  <2> HIDE DEF d, row, context
  <2>6. job' \in [Jobs -> JobRow] /\ attempts' \subseteq AttemptRow /\ issued' \in Nat
    BY <2>3, <2>4, <2>5
  <2>7. QED
    BY <1>4, <2>6 DEF ClaimStart
<1>5. ASSUME NEW j \in Jobs, RecoverUnknown(j) PROVE TypeOK'
  <2>1. Completed(j, job[j], "recovery_required") \in JobRow
    <3>1. "recovery_required" \in Terminal /\ job[j] \in JobRow
      BY DEF Terminal
    <3>2. QED
      BY <3>1, CompletedType
  <2>2. QED
    BY <1>5, <2>1, EndedType DEF RecoverUnknown
<1>6. ASSUME NEW j \in Jobs, Consume(j) PROVE effects' \in Seq(EffectRow)
  <2>1. \A e \in DOMAIN effects :
          /\ effects[e] \in EffectRow
          /\ [effects[e] EXCEPT !.stage = "consumed"] \in EffectRow
    <3>1. \A row \in EffectRow : [row EXCEPT !.stage = "consumed"] \in EffectRow
      BY DEF EffectRow
    <3>2. QED
      BY <3>1
  <2>2. \A e \in DOMAIN effects : effects'[e] \in EffectRow
    BY <1>6, <2>1 DEF Consume
  <2>3. effects' = [e \in DOMAIN effects |-> effects'[e]]
    BY <1>6 DEF Consume
  <2>4. QED
    BY <2>2, <2>3, SeqReplace
<1>7. ASSUME NEW j \in Jobs, RecoverRetire(j) PROVE TypeOK'
  <2>1. RecoveryStatus(j) \in Terminal
    BY <1>7 DEF RecoverRetire, RecoveryStatus, Terminal, Settled
  <2>2. Completed(j, Cleared(j), RecoveryStatus(j)) \in JobRow
    BY <2>1, ClearedType, CompletedType
  <2>3. QED
    BY <1>6, <1>7, <2>2, EndedType DEF RecoverRetire
<1>8. ASSUME NEW j \in Jobs, RecoverRequeue(j) PROVE TypeOK'
  <2>1. RetryDelay(job[j].attempt) \in Nat
    <3>1. job[j].attempt \in Nat
      <4>1. job[j] \in JobRow
        OBVIOUS
      <4>2. QED
        BY <4>1 DEF JobRow, MaxAttempts
    <3>2. RetryStep * job[j].attempt \in Nat
      BY <3>1, ProductIsNat, TimesAssumption
    <3>3. QED
      BY <3>2, TimesAssumption DEF RetryDelay, Earlier
  <2>2. [Cleared(j) EXCEPT !.status = "queued", !.fence = Null, !.lease = Null,
                           !.due = now + RetryDelay(job[j].attempt)] \in JobRow
    <3> DEFINE due == now + RetryDelay(job[j].attempt)
    <3>1. due \in Nat /\ Null \in Nat /\ "queued" \in Statuses /\ Cleared(j) \in JobRow
      BY <2>1, ClearedType DEF Statuses, Live, Null
    <3> HIDE DEF due
    <3>2. [Cleared(j) EXCEPT !.status = "queued", !.fence = Null, !.lease = Null,
                             !.due = due] \in JobRow
      BY <3>1 DEF JobRow
    <3>3. QED
      BY <3>2 DEF due
  <2>3. QED
    BY <1>6, <1>8, <2>2, EndedType DEF RecoverRequeue
<1>9. ASSUME NEW c \in attempts,
             Stop(c) \/ Succeed(c) \/ Fail(c)
      PROVE  TypeOK'
  <2>1. StopStatus(c.job) # "none" => StopStatus(c.job) \in Terminal
    BY DEF StopStatus, Terminal, Settled
  <2>2. PICK status \in Terminal : Finish(c, status)
    BY <1>9, <2>1 DEF Stop, Succeed, Fail, Terminal, Settled
  <2>3. QED
    BY <1>9, <2>2, FinishType DEF Stop, Succeed, Fail
<1>10. ASSUME NEW c \in attempts, Renew(c) \/ Save(c) PROVE TypeOK'
  <2>1. c.job \in Jobs /\ job[c.job] \in JobRow
    BY DEF AttemptRow
  <2>2. PICK data \in Checkpoints : Checkpoint(c, data)
    BY <1>10, <2>1 DEF Renew, Save, JobRow, Checkpoints
  <2>3. Earlier(now + LeaseTime, job[c.job].deadline) \in Nat
    BY <2>1, TimesAssumption DEF Earlier, JobRow
  <2>4. QED
    BY <2>1, <2>2, <2>3 DEF Checkpoint, JobRow
<1>11. ASSUME NEW c \in attempts, NEW u \in Units, BeginEffect(c, u) \/ RegisterEffect(c, u)
       PROVE  TypeOK'
  <2>1. c \in AttemptRow /\ c.job \in Jobs /\ job[c.job] \in JobRow
    BY DEF AttemptRow
  <2>2. /\ NewEffect(c, u, "direct", "waiting") \in EffectRow
        /\ NewEffect(c, u, "registered", "none") \in EffectRow
    BY <2>1, NewEffectType
  <2>3. job' \in [Jobs -> JobRow]
    <3>1. [job[c.job] EXCEPT !.pending = u] \in JobRow
      BY <2>1 DEF JobRow
    <3>2. job' = [job EXCEPT ![c.job] = [job[c.job] EXCEPT !.pending = u]]
      BY <1>11 DEF BeginEffect, RegisterEffect
    <3>3. QED
      BY <2>1, <3>1, <3>2
  <2>4. effects' \in Seq(EffectRow)
    <3>1. PICK row \in EffectRow : effects' = Append(effects, row)
      BY <1>11, <2>2 DEF BeginEffect, RegisterEffect
    <3>2. QED
      BY <3>1, SeqAppend
  <2>5. QED
    BY <1>11, <2>3, <2>4 DEF BeginEffect, RegisterEffect
<1>12. ASSUME NEW c \in attempts, NEW e \in DOMAIN effects, ConfirmEffect(c, e)
       PROVE  TypeOK'
  <2>1. c.job \in Jobs /\ job[c.job] \in JobRow /\ effects[e] \in EffectRow
    BY DEF AttemptRow
  <2>2. job' \in [Jobs -> JobRow]
    BY <1>12, <2>1 DEF ConfirmEffect, JobRow, Checkpoints
  <2>3. effects' \in Seq(EffectRow)
    <3>1. [effects[e] EXCEPT !.confirmed = TRUE] \in EffectRow
      BY <2>1 DEF EffectRow
    <3>2. effects' = [effects EXCEPT ![e] = [effects[e] EXCEPT !.confirmed = TRUE]]
      BY <1>12 DEF ConfirmEffect
    <3>3. QED
      BY <3>1, <3>2, SeqUpdate
  <2>4. QED
    BY <1>12, <2>2, <2>3 DEF ConfirmEffect
<1>13. ASSUME NEW e \in DOMAIN effects,
              \/ \E c \in attempts : AdmitEffect(c, e) \/ RecordAbort(c, e)
              \/ EnterGate(e) \/ AbortGate(e)
       PROVE  TypeOK'
  <2>1. effects[e] \in EffectRow
    OBVIOUS
  <2>2. effects' \in Seq(EffectRow)
    <3>1. PICK row \in EffectRow : effects' = [effects EXCEPT ![e] = row]
      <4>1. /\ [effects[e] EXCEPT !.stage = "admitted", !.gate = "waiting"] \in EffectRow
            /\ [effects[e] EXCEPT !.stage = "aborted"] \in EffectRow
            /\ [effects[e] EXCEPT !.gate = "entered"] \in EffectRow
            /\ [effects[e] EXCEPT !.gate = "aborted"] \in EffectRow
        BY <2>1 DEF EffectRow
      <4>2. QED
        BY <1>13, <4>1 DEF AdmitEffect, RecordAbort, EnterGate, AbortGate
    <3>2. QED
      BY <3>1, SeqUpdate
  <2>3. QED
    BY <1>13, <2>2 DEF AdmitEffect, RecordAbort, EnterGate, AbortGate
<1>14. CASE Environment
  <2>1. ASSUME NEW j \in ProductJobs, RequestCancel(j) PROVE TypeOK'
    <3>1. [job[j] EXCEPT !.cancel = TRUE] \in JobRow
      BY DEF Jobs, JobRow
    <3>2. job' = [job EXCEPT ![j] = [job[j] EXCEPT !.cancel = TRUE]]
      BY <2>1 DEF RequestCancel
    <3>3. QED
      BY <2>1, <3>1, <3>2 DEF RequestCancel, Jobs
  <2>2. QED
    BY <1>14, <2>1 DEF Environment, AuthorityChanges, TargetChanges, PhysicallyComplete
<1>15. CASE Tick
  BY <1>15, TimesAssumption DEF Tick
<1>16. CASE UNCHANGED vars
  BY <1>16 DEF vars
<1>17. QED
  BY <1>1, <1>2, <1>3, <1>4, <1>5, <1>7, <1>8, <1>9, <1>10, <1>11, <1>12, <1>13, <1>14,
     <1>15, <1>16 DEF Next, Admit, Claim, Work, Native

\* The tables are well formed in every reachable state: in particular no job
\* ever counts a fourth attempt (the CHECK constraint attempt_count <= 3).
THEOREM TypeCorrect == Spec => []TypeOK
<1>1. Init => TypeOK
  BY DEF Init, TypeOK, AbsentJob, JobRow, Statuses, Live, Terminal, Checkpoints, Null, MaxAttempts
<1>2. QED
  BY <1>1, TypeStep, PTL DEF Spec
-----------------------------------------------------------------------------
(***************************************************************************)
(* Effects.  The inductive invariant says who may resolve what: fences     *)
(* name one attempt each, an unresolved effect pins its job to the attempt *)
(* that declared it, and no job has two of them.                           *)
(***************************************************************************)

\* An effect that is neither confirmed nor proved undispatched.
Unresolved(f) == f.stage # "consumed" /\ ~f.confirmed

\* Row r is pinned to the attempt that declared effect f.
Pins(r, f) ==
    /\ r.pending = f.unit
    /\ r.attempt = f.attempt
    /\ \/ r.status = "running" /\ r.fence = f.fence
       \/ r.status = "recovery_required"

\* A fence names one attempt, in the history and in the effects.
FenceInv ==
    /\ \A a \in attempts : a.fence \in 1 .. issued
    /\ \A e \in DOMAIN effects : effects[e].fence \in 1 .. issued
    /\ \A a, b \in attempts : a.fence = b.fence => a.job = b.job /\ a.number = b.number
    /\ \A e \in DOMAIN effects, a \in attempts :
          effects[e].fence = a.fence =>
              effects[e].job = a.job /\ effects[e].attempt = a.number

GateInv ==
    \A e \in DOMAIN effects :
        /\ effects[e].stage \in {"aborted", "consumed"} => effects[e].gate = "aborted"
        /\ effects[e].stage = "registered" => effects[e].gate = "none"
        /\ effects[e].confirmed => effects[e].gate = "entered"

PinInv ==
    /\ \A e \in DOMAIN effects :
          Unresolved(effects[e]) => Pins(job[effects[e].job], effects[e])
    /\ \A d, e \in DOMAIN effects :
          /\ Unresolved(effects[d])
          /\ Unresolved(effects[e])
          /\ effects[d].job = effects[e].job
          => d = e

\* The checkpoint of a cleanup job tells whether its DELETE was confirmed.
CleanupInv ==
    /\ \A e \in DOMAIN effects :
          effects[e].job \in CleanupJobs =>
             /\ effects[e].confirmed => job[effects[e].job].checkpoint = "ack"
             /\ Unresolved(effects[e]) => job[effects[e].job].checkpoint = "empty"
    /\ \A d, e \in DOMAIN effects :
          /\ effects[d].job \in CleanupJobs
          /\ effects[d].job = effects[e].job
          /\ effects[d].confirmed
          /\ effects[e].confirmed
          => d = e

\* A job that was never admitted has nothing recorded of it.
AbsentInv == \A j \in Jobs : job[j].status = "absent" => job[j] = AbsentJob

EffectInv == TypeOK /\ AbsentInv /\ FenceInv /\ GateInv /\ PinInv /\ CleanupInv

-----------------------------------------------------------------------------

\* Registering an effect adds a row with a new position and leaves the others alone.
LEMMA AppendFacts ==
    ASSUME NEW S, NEW s \in Seq(S), NEW v, NEW t, t = Append(s, v)
    PROVE  /\ DOMAIN t = DOMAIN s \cup {Len(s) + 1}
           /\ \A i \in DOMAIN s : t[i] = s[i]
           /\ t[Len(s) + 1] = v
           /\ Len(s) + 1 \notin DOMAIN s
  OBVIOUS

\* What a step does to the effects that exist before it.
SameEffect(g, f) ==
    g.job = f.job /\ g.attempt = f.attempt /\ g.fence = f.fence /\ g.unit = f.unit

\* The step leaves job j pinned as it was.
Keeps(j) ==
    \/ job'[j] = job[j]
    \/ /\ job'[j].pending = job[j].pending
       /\ job'[j].attempt = job[j].attempt
       /\ \/ job'[j].status = "recovery_required"
          \/ job'[j].status = "running" /\ job[j].status = "running" /\ job'[j].fence = job[j].fence

\* A step that declares no effect keeps PinInv if it keeps the job of every
\* effect it leaves unresolved.
LEMMA PinStep ==
    ASSUME PinInv, DOMAIN effects' = DOMAIN effects,
           \A e \in DOMAIN effects :
              /\ SameEffect(effects'[e], effects[e])
              /\ Unresolved(effects'[e]) => Unresolved(effects[e]) /\ Keeps(effects[e].job)
    PROVE  PinInv'
<1>1. ASSUME NEW e \in DOMAIN effects', Unresolved(effects'[e])
      PROVE  Pins(job'[effects'[e].job], effects'[e])
  <2>1. Pins(job[effects[e].job], effects[e]) /\ Keeps(effects[e].job)
    BY <1>1 DEF PinInv
  <2>2. QED
    BY <2>1 DEF Pins, Keeps, SameEffect
<1>2. ASSUME NEW d \in DOMAIN effects', NEW e \in DOMAIN effects',
             Unresolved(effects'[d]), Unresolved(effects'[e]),
             effects'[d].job = effects'[e].job
      PROVE  d = e
  BY <1>2 DEF PinInv, SameEffect
<1>3. QED
  BY <1>1, <1>2 DEF PinInv

\* A step that confirms and declares no effect keeps CleanupInv if it keeps the
\* checkpoints of the cleanup jobs.
LEMMA CleanupStep ==
    ASSUME CleanupInv, DOMAIN effects' = DOMAIN effects,
           \A e \in DOMAIN effects :
              /\ effects'[e].job = effects[e].job
              /\ effects'[e].confirmed = effects[e].confirmed
              /\ Unresolved(effects'[e]) => Unresolved(effects[e]),
           \A j \in CleanupJobs : job'[j].checkpoint = job[j].checkpoint
    PROVE  CleanupInv'
  BY DEF CleanupInv

\* A step that draws no fence and declares no effect keeps FenceInv.
LEMMA FenceStep ==
    ASSUME FenceInv, DOMAIN effects' = DOMAIN effects, issued' = issued,
           \A e \in DOMAIN effects : SameEffect(effects'[e], effects[e]),
           \A a \in attempts' : \E b \in attempts :
              a.job = b.job /\ a.number = b.number /\ a.fence = b.fence
    PROVE  FenceInv'
  BY DEF FenceInv, SameEffect

\* Ending an attempt changes nothing but its open flag.
LEMMA EndedRows ==
    ASSUME NEW rows, rows \subseteq AttemptRow, NEW fence, NEW a \in Ended(rows, fence)
    PROVE  \E b \in rows : a.job = b.job /\ a.number = b.number /\ a.fence = b.fence
  BY DEF Ended, AttemptRow

\* An unresolved effect's job holds a pending unit and is not free to run.
LEMMA Pinned ==
    ASSUME TypeOK, PinInv, NEW e \in DOMAIN effects, Unresolved(effects[e])
    PROVE  /\ effects[e].job \in Jobs
           /\ job[effects[e].job].pending # NoUnit
           /\ job[effects[e].job].status \in {"running", "recovery_required"}
<1>1. effects[e] \in EffectRow
  BY DEF TypeOK
<1>2. effects[e].job \in Jobs /\ effects[e].unit \in Units
  BY <1>1 DEF EffectRow
<1>3. QED
  BY <1>2, UnitsAssumption DEF PinInv, Pins

\* A step that touches no effect and draws no fence keeps the invariant if it
\* keeps the pinned jobs and the checkpoints of the cleanup jobs.
LEMMA JobStep ==
    ASSUME EffectInv, TypeOK', effects' = effects, issued' = issued,
           \A a \in attempts' : \E b \in attempts :
              a.job = b.job /\ a.number = b.number /\ a.fence = b.fence,
           \A j \in Jobs :
              /\ job'[j].status = "absent" => job'[j] = job[j]
              /\ /\ job[j].pending # NoUnit
                 /\ job[j].status \in {"running", "recovery_required"}
                 => Keeps(j),
           \A j \in CleanupJobs : job'[j].checkpoint = job[j].checkpoint
    PROVE  EffectInv'
<1>1. PinInv'
  <2>1. \A e \in DOMAIN effects : Unresolved(effects[e]) => Keeps(effects[e].job)
    BY Pinned DEF EffectInv
  <2>2. QED
    BY <2>1, PinStep DEF EffectInv, SameEffect
<1>2. CleanupInv'
  BY CleanupStep DEF EffectInv
<1>3. FenceInv'
  BY FenceStep DEF EffectInv, SameEffect
<1>4. AbsentInv'
  BY DEF EffectInv, AbsentInv
<1>5. QED
  BY <1>1, <1>2, <1>3, <1>4 DEF EffectInv, GateInv

\* What retirement leaves of a row.
LEMMA CompletedFacts ==
    ASSUME NEW j, NEW r \in JobRow, NEW status
    PROVE  /\ Completed(j, r, status).pending = r.pending
           /\ Completed(j, r, status).attempt = r.attempt
           /\ Completed(j, r, status).checkpoint = r.checkpoint
           /\ Completed(j, r, status).status = status
<1> DEFINE expires == Expiry(j, r, status)
           execution == IF j \in CleanupJobs THEN status ELSE r.execution
<1> HIDE DEF expires, execution
<1>1. Completed(j, r, status) =
        [r EXCEPT !.status = status, !.fence = Null, !.lease = Null,
                  !.expires = expires, !.execution = execution]
  BY DEF Completed, expires, execution
<1>2. QED
  BY <1>1 DEF JobRow

\* Finishing an attempt keeps a pinned job pinned: it is the reason finish
\* overrides the outcome it is given.
LEMMA FinishStep ==
    ASSUME EffectInv, TypeOK', NEW c \in attempts, NEW status \in Terminal, Finish(c, status),
           UNCHANGED <<issued, effects>>
    PROVE  EffectInv'
<1> DEFINE outcome == FinishedStatus(job[c.job], status)
<1>1. c.job \in Jobs /\ job[c.job] \in JobRow /\ job \in [Jobs -> JobRow]
  BY DEF EffectInv, TypeOK, AttemptRow
<1>2. /\ outcome # "absent"
      /\ job[c.job].pending # NoUnit => outcome = "recovery_required"
  BY DEF FinishedStatus, Terminal, Settled
<1> HIDE DEF outcome
<1>3. job' = [job EXCEPT ![c.job] = Completed(c.job, job[c.job], outcome)]
  BY <1>1 DEF Finish, outcome
<1>4. /\ job'[c.job].pending = job[c.job].pending
      /\ job'[c.job].attempt = job[c.job].attempt
      /\ job'[c.job].checkpoint = job[c.job].checkpoint
      /\ job'[c.job].status = outcome
      /\ \A j \in Jobs \ {c.job} : job'[j] = job[j]
  BY <1>1, <1>3, CompletedFacts
<1>5. \A a \in attempts' : \E b \in attempts :
        a.job = b.job /\ a.number = b.number /\ a.fence = b.fence
  BY EndedRows DEF Finish, EffectInv, TypeOK
<1>6. \A j \in Jobs :
        /\ job'[j].status = "absent" => job'[j] = job[j]
        /\ job[j].pending # NoUnit => Keeps(j)
        /\ job'[j].checkpoint = job[j].checkpoint
  BY <1>2, <1>4 DEF Keeps
<1>7. QED
  BY <1>5, <1>6, JobStep DEF Jobs

\* Recovery of a job whose remaining work is known: nothing of it stays
\* unresolved, so the job need not stay pinned.
LEMMA RecoverStep ==
    ASSUME EffectInv, TypeOK', NEW j \in Jobs, Known(j), Consume(j),
           NEW row, job' = [job EXCEPT ![j] = row],
           row.checkpoint = job[j].checkpoint, row.status # "absent",
           attempts' = Ended(attempts, job[j].fence), issued' = issued
    PROVE  EffectInv'
<1>1. job \in [Jobs -> JobRow] /\ attempts \subseteq AttemptRow
      /\ \A e \in DOMAIN effects : effects[e] \in EffectRow
  BY DEF EffectInv, TypeOK
<1>2. \A e \in DOMAIN effects :
        \/ effects'[e] = effects[e]
        \/ e \in AbortProofs(j) /\ effects'[e] = [effects[e] EXCEPT !.stage = "consumed"]
  BY DEF Consume
<1>3. DOMAIN effects' = DOMAIN effects
  BY DEF Consume
<1>4. \A e \in DOMAIN effects :
        /\ SameEffect(effects'[e], effects[e])
        /\ effects'[e].confirmed = effects[e].confirmed
        /\ effects'[e].gate = effects[e].gate
        /\ \/ effects'[e].stage = effects[e].stage
           \/ effects'[e].stage = "consumed" /\ effects[e].stage = "aborted"
  <2>1. ASSUME NEW f \in EffectRow, NEW g, g = [f EXCEPT !.stage = "consumed"]
        PROVE  /\ SameEffect(g, f) /\ g.confirmed = f.confirmed /\ g.gate = f.gate
               /\ g.stage = "consumed"
    BY <2>1 DEF EffectRow, SameEffect
  <2>2. \A e \in AbortProofs(j) : effects[e].stage = "aborted"
    BY DEF AbortProofs
  <2>3. ASSUME NEW e \in DOMAIN effects
        PROVE  \/ effects'[e] = effects[e]
               \/ /\ SameEffect(effects'[e], effects[e])
                  /\ effects'[e].confirmed = effects[e].confirmed
                  /\ effects'[e].gate = effects[e].gate
                  /\ effects'[e].stage = "consumed" /\ effects[e].stage = "aborted"
    <3>1. CASE effects'[e] = effects[e]
      BY <3>1
    <3>2. CASE e \in AbortProofs(j) /\ effects'[e] = [effects[e] EXCEPT !.stage = "consumed"]
      BY <1>1, <2>1, <2>2, <3>2
    <3>3. QED
      BY <1>2, <3>1, <3>2
  <2>4. QED
    BY <2>3 DEF SameEffect
<1>5. ASSUME NEW e \in DOMAIN effects, Unresolved(effects'[e])
      PROVE  Unresolved(effects[e]) /\ effects[e].job # j
  <2>1. Unresolved(effects[e])
    BY <1>4, <1>5 DEF Unresolved
  <2>2. ASSUME effects[e].job = j PROVE FALSE
    <3>1. job[j].pending # NoUnit
      BY <2>1, <2>2, Pinned DEF EffectInv
    <3>2. PICK p \in DOMAIN effects : Establishes(p, j)
      BY <3>1 DEF Known
    <3>3. p \in AbortProofs(j)
      BY <3>2 DEF Establishes
    <3>4. effects[p].stage = "aborted" /\ effects[p].job = j
      BY <3>3 DEF AbortProofs
    <3>5. Unresolved(effects[p])
      BY <3>4 DEF Unresolved, EffectInv, GateInv
    <3>6. p = e
      BY <2>1, <2>2, <3>4, <3>5 DEF EffectInv, PinInv
    <3>7. effects'[e] = [effects[e] EXCEPT !.stage = "consumed"]
      BY <3>1, <3>3, <3>6 DEF Consume
    <3>8. QED
      BY <1>1, <1>5, <3>7 DEF Unresolved, EffectRow
  <2>3. QED
    BY <2>1, <2>2
<1>6. PinInv'
  <2>1. \A e \in DOMAIN effects :
          Unresolved(effects'[e]) => Unresolved(effects[e]) /\ Keeps(effects[e].job)
    <3>1. \A e \in DOMAIN effects : effects[e].job \in Jobs
      BY <1>1 DEF EffectRow
    <3>2. QED
      BY <1>1, <1>5, <3>1 DEF Keeps
  <2>2. QED
    BY <1>3, <1>4, <2>1, PinStep DEF EffectInv
<1>7. CleanupInv'
  <2>1. \A i \in CleanupJobs : job'[i].checkpoint = job[i].checkpoint
    BY <1>1 DEF Jobs
  <2>2. QED
    BY <1>3, <1>4, <1>5, <2>1, CleanupStep DEF EffectInv, SameEffect
<1>8. FenceInv'
  <2>1. \A a \in attempts' : \E b \in attempts :
          a.job = b.job /\ a.number = b.number /\ a.fence = b.fence
    BY <1>1, EndedRows
  <2>2. QED
    BY <1>3, <1>4, <2>1, FenceStep DEF EffectInv
<1>9. AbsentInv'
  BY <1>1 DEF EffectInv, AbsentInv
<1>10. GateInv'
  BY <1>3, <1>4 DEF EffectInv, GateInv
<1>11. QED
  BY <1>6, <1>7, <1>8, <1>9, <1>10 DEF EffectInv

\* A step that only moves an effect's stage or gate forward.
LEMMA ObserveStep ==
    ASSUME EffectInv, TypeOK', UNCHANGED <<job, attempts, issued>>,
           NEW e \in DOMAIN effects, NEW row \in EffectRow,
           effects' = [effects EXCEPT ![e] = row],
           SameEffect(row, effects[e]), row.confirmed = effects[e].confirmed,
           effects[e].stage # "consumed", GateInv'
    PROVE  EffectInv'
<1>1. /\ DOMAIN effects' = DOMAIN effects
      /\ effects'[e] = row
      /\ \A d \in DOMAIN effects : d # e => effects'[d] = effects[d]
  <2>1. effects \in Seq(EffectRow)
    BY DEF EffectInv, TypeOK
  <2>2. QED
    BY <2>1
<1>2. \A d \in DOMAIN effects :
        /\ SameEffect(effects'[d], effects[d])
        /\ effects'[d].confirmed = effects[d].confirmed
        /\ Unresolved(effects'[d]) => Unresolved(effects[d])
  BY <1>1 DEF SameEffect, Unresolved
<1>3. PinInv'
  BY <1>1, <1>2, PinStep DEF EffectInv, Keeps
<1>4. CleanupInv'
  BY <1>1, <1>2, CleanupStep DEF EffectInv, SameEffect
<1>5. FenceInv'
  BY <1>1, <1>2, FenceStep DEF EffectInv
<1>6. QED
  BY <1>3, <1>4, <1>5 DEF EffectInv, AbsentInv

\* Declaring a unit: the job had none, so the new effect is its only unresolved
\* one, and it belongs to the attempt that owns the job.
LEMMA DeclareStep ==
    ASSUME EffectInv, TypeOK', NEW c \in attempts, NEW u \in Units,
           NEW stage \in {"direct", "registered"}, NEW gate \in {"none", "waiting"},
           stage = "registered" => gate = "none",
           Owned(c), job[c.job].pending = NoUnit,
           c.job \in CleanupJobs => job[c.job].checkpoint = "empty",
           job' = [job EXCEPT ![c.job].pending = u],
           effects' = Append(effects, NewEffect(c, u, stage, gate)),
           UNCHANGED <<attempts, issued>>
    PROVE  EffectInv'
<1> DEFINE n == Len(effects) + 1
           f == NewEffect(c, u, stage, gate)
<1>1. /\ c \in AttemptRow /\ c.job \in Jobs
      /\ job \in [Jobs -> JobRow]
      /\ \A e \in DOMAIN effects : effects[e] \in EffectRow
  BY DEF EffectInv, TypeOK, AttemptRow
<1>2. /\ f.stage = stage /\ f.job = c.job /\ f.attempt = c.number /\ f.fence = c.fence
      /\ f.unit = u /\ f.gate = gate /\ f.confirmed = FALSE
  BY DEF NewEffect
<1> HIDE DEF f
<1>3. /\ DOMAIN effects' = DOMAIN effects \cup {n}
      /\ \A e \in DOMAIN effects : effects'[e] = effects[e]
      /\ effects'[n] = f
      /\ n \notin DOMAIN effects
  BY AppendFacts DEF EffectInv, TypeOK, f
<1> HIDE DEF n
<1>4. /\ \A j \in Jobs \ {c.job} : job'[j] = job[j]
      /\ job'[c.job].pending = u
      /\ job'[c.job].status = "running" /\ job[c.job].status = "running"
      /\ job'[c.job].fence = c.fence
      /\ job'[c.job].attempt = c.number
      /\ job'[c.job].checkpoint = job[c.job].checkpoint
  BY <1>1 DEF Owned, JobRow
<1>5. \A e \in DOMAIN effects : effects[e].job \in Jobs
  BY <1>1 DEF EffectRow
<1>6. \A e \in DOMAIN effects : Unresolved(effects[e]) => effects[e].job # c.job
  BY Pinned DEF EffectInv
<1>7. PinInv'
  <2>1. \A e \in DOMAIN effects' :
          Unresolved(effects'[e]) => Pins(job'[effects'[e].job], effects'[e])
    <3>1. Pins(job'[c.job], f)
      BY <1>2, <1>4 DEF Pins
    <3>2. \A e \in DOMAIN effects :
            Unresolved(effects[e]) => Pins(job'[effects[e].job], effects[e])
      BY <1>4, <1>5, <1>6 DEF EffectInv, PinInv
    <3>3. QED
      BY <1>2, <1>3, <3>1, <3>2
  <2>2. ASSUME NEW d \in DOMAIN effects', NEW e \in DOMAIN effects',
               Unresolved(effects'[d]), Unresolved(effects'[e]),
               effects'[d].job = effects'[e].job
        PROVE  d = e
    BY <1>2, <1>3, <1>6, <2>2 DEF EffectInv, PinInv
  <2>3. QED
    BY <2>1, <2>2 DEF PinInv
<1>8. CleanupInv'
  <2>1. \A e \in DOMAIN effects : job'[effects[e].job].checkpoint = job[effects[e].job].checkpoint
    BY <1>4, <1>5
  <2>2. \A e \in DOMAIN effects' : effects'[e].job \in CleanupJobs =>
          /\ effects'[e].confirmed => job'[effects'[e].job].checkpoint = "ack"
          /\ Unresolved(effects'[e]) => job'[effects'[e].job].checkpoint = "empty"
    BY <1>2, <1>3, <1>4, <2>1 DEF EffectInv, CleanupInv
  <2>3. \A e \in DOMAIN effects' : effects'[e].confirmed => e \in DOMAIN effects
    BY <1>2, <1>3
  <2>4. QED
    BY <1>3, <2>2, <2>3 DEF EffectInv, CleanupInv
<1>9. FenceInv'
  BY <1>2, <1>3 DEF EffectInv, FenceInv
<1>10. GateInv'
  BY <1>2, <1>3 DEF EffectInv, GateInv
<1>11. AbsentInv'
  BY <1>4 DEF EffectInv, AbsentInv
<1>12. QED
  BY <1>7, <1>8, <1>9, <1>10, <1>11 DEF EffectInv

\* A confirmation resolves the one unresolved effect of its job.
LEMMA ConfirmStep ==
    ASSUME EffectInv, TypeOK', NEW c \in attempts, NEW e \in DOMAIN effects, ConfirmEffect(c, e)
    PROVE  EffectInv'
<1>1. /\ c.job \in Jobs /\ job \in [Jobs -> JobRow]
      /\ \A d \in DOMAIN effects : effects[d] \in EffectRow
  BY DEF EffectInv, TypeOK, AttemptRow
<1>2. /\ effects[e].gate = "entered" /\ ~effects[e].confirmed
      /\ effects[e].job = c.job
      /\ Owned(c)
  BY DEF ConfirmEffect, EffectInv, FenceInv, Guarded
<1>3. Unresolved(effects[e])
  BY <1>2 DEF Unresolved, EffectInv, GateInv
<1>4. /\ DOMAIN effects' = DOMAIN effects
      /\ \A d \in DOMAIN effects \ {e} : effects'[d] = effects[d]
      /\ SameEffect(effects'[e], effects[e])
      /\ effects'[e].confirmed = TRUE
      /\ effects'[e].stage = effects[e].stage /\ effects'[e].gate = effects[e].gate
  BY <1>1 DEF ConfirmEffect, EffectRow, SameEffect
<1>5. /\ \A j \in Jobs \ {c.job} : job'[j] = job[j]
      /\ job'[c.job].checkpoint = "ack"
      /\ job'[c.job].status = "running"
  BY <1>1, <1>2 DEF ConfirmEffect, Owned, JobRow
<1>6. \A d \in DOMAIN effects : d # e /\ Unresolved(effects[d]) => effects[d].job # c.job
  BY <1>2, <1>3 DEF EffectInv, PinInv
<1>7. PinInv'
  <2>1. ~Unresolved(effects'[e])
    BY <1>4 DEF Unresolved
  <2>2. \A d \in DOMAIN effects :
          /\ SameEffect(effects'[d], effects[d])
          /\ Unresolved(effects'[d]) => Unresolved(effects[d]) /\ Keeps(effects[d].job)
    BY <1>1, <1>4, <1>5, <1>6, <2>1 DEF Keeps, SameEffect, EffectRow
  <2>3. QED
    BY <1>4, <2>2, PinStep DEF EffectInv
<1>8. CleanupInv'
  <2>1. \A d \in DOMAIN effects' : effects'[d].job \in CleanupJobs =>
          /\ effects'[d].confirmed => job'[effects'[d].job].checkpoint = "ack"
          /\ Unresolved(effects'[d]) => job'[effects'[d].job].checkpoint = "empty"
    <3>1. \A d \in DOMAIN effects \ {e} : effects[d].job \in Jobs
      BY <1>1 DEF EffectRow
    <3>2. QED
      BY <1>2, <1>4, <1>5, <1>6, <3>1 DEF EffectInv, CleanupInv, SameEffect, Unresolved
  <2>2. \A d \in DOMAIN effects :
          effects[d].confirmed /\ effects[d].job = c.job => c.job \notin CleanupJobs
    BY <1>2, <1>3 DEF EffectInv, CleanupInv
  <2>3. QED
    BY <1>2, <1>4, <2>1, <2>2 DEF EffectInv, CleanupInv, SameEffect
<1>9. FenceInv'
  BY <1>4, FenceStep DEF ConfirmEffect, EffectInv, SameEffect
<1>10. GateInv'
  BY <1>2, <1>4 DEF EffectInv, GateInv
<1>11. AbsentInv'
  BY <1>5 DEF EffectInv, AbsentInv
<1>12. QED
  BY <1>7, <1>8, <1>9, <1>10, <1>11 DEF EffectInv

\* The steps that only move an effect through its stages and its gate.
LEMMA ObserveSteps ==
    ASSUME EffectInv, TypeOK', NEW e \in DOMAIN effects,
           \/ \E c \in attempts : AdmitEffect(c, e) \/ RecordAbort(c, e)
           \/ EnterGate(e) \/ AbortGate(e)
    PROVE  EffectInv'
<1>1. effects[e] \in EffectRow /\ effects \in Seq(EffectRow)
  BY DEF EffectInv, TypeOK
<1>2. PICK row \in EffectRow :
        /\ effects' = [effects EXCEPT ![e] = row]
        /\ SameEffect(row, effects[e]) /\ row.confirmed = effects[e].confirmed
        /\ effects[e].stage # "consumed"
        /\ row.stage \in {"aborted", "consumed"} => row.gate = "aborted"
        /\ row.stage = "registered" => row.gate = "none"
        /\ row.confirmed => row.gate = "entered"
  <2>2. CASE \E c \in attempts : AdmitEffect(c, e)
    <3> DEFINE row == [effects[e] EXCEPT !.stage = "admitted", !.gate = "waiting"]
    <3>1. row \in EffectRow /\ SameEffect(row, effects[e])
          /\ row.confirmed = effects[e].confirmed /\ row.stage = "admitted"
      BY <1>1 DEF EffectRow, SameEffect
    <3>2. effects[e].stage = "registered" /\ ~effects[e].confirmed
      BY <2>2 DEF AdmitEffect, EffectInv, GateInv
    <3>3. effects' = [effects EXCEPT ![e] = row]
      BY <2>2 DEF AdmitEffect
    <3> HIDE DEF row
    <3>4. QED
      BY <3>1, <3>2, <3>3 DEF EffectRow
  <2>3. CASE \E c \in attempts : RecordAbort(c, e)
    <3> DEFINE row == [effects[e] EXCEPT !.stage = "aborted"]
    <3>1. row \in EffectRow /\ SameEffect(row, effects[e])
          /\ row.confirmed = effects[e].confirmed /\ row.stage = "aborted"
          /\ row.gate = effects[e].gate
      BY <1>1 DEF EffectRow, SameEffect
    <3>2. effects[e].stage = "admitted" /\ effects[e].gate = "aborted" /\ ~effects[e].confirmed
      BY <2>3 DEF RecordAbort, EffectInv, GateInv
    <3>3. effects' = [effects EXCEPT ![e] = row]
      BY <2>3 DEF RecordAbort
    <3> HIDE DEF row
    <3>4. QED
      BY <3>1, <3>2, <3>3
  <2>4. CASE EnterGate(e)
    <3> DEFINE row == [effects[e] EXCEPT !.gate = "entered"]
    <3>1. row \in EffectRow /\ SameEffect(row, effects[e])
          /\ row.confirmed = effects[e].confirmed /\ row.stage = effects[e].stage
          /\ row.gate = "entered"
      BY <1>1 DEF EffectRow, SameEffect
    <3>2. effects[e].stage \notin {"registered", "aborted", "consumed"}
      BY <2>4 DEF EnterGate, EffectInv, GateInv
    <3>3. effects' = [effects EXCEPT ![e] = row]
      BY <2>4 DEF EnterGate
    <3> HIDE DEF row
    <3>4. QED
      BY <3>1, <3>2, <3>3
  <2>5. CASE AbortGate(e)
    <3> DEFINE row == [effects[e] EXCEPT !.gate = "aborted"]
    <3>1. row \in EffectRow /\ SameEffect(row, effects[e])
          /\ row.confirmed = effects[e].confirmed /\ row.stage = effects[e].stage
          /\ row.gate = "aborted"
      BY <1>1 DEF EffectRow, SameEffect
    <3>2. effects[e].stage = "admitted" /\ ~effects[e].confirmed
      BY <2>5 DEF AbortGate, EffectInv, GateInv
    <3>3. effects' = [effects EXCEPT ![e] = row]
      BY <2>5 DEF AbortGate
    <3> HIDE DEF row
    <3>4. QED
      BY <3>1, <3>2, <3>3
  <2>6. QED
    BY <2>2, <2>3, <2>4, <2>5
<1>3. GateInv'
  <2>1. /\ DOMAIN effects' = DOMAIN effects
        /\ effects'[e] = row
        /\ \A d \in DOMAIN effects : d # e => effects'[d] = effects[d]
    BY <1>1, <1>2
  <2>2. QED
    BY <1>2, <2>1 DEF EffectInv, GateInv
<1>4. UNCHANGED <<job, attempts, issued>>
  BY DEF AdmitEffect, RecordAbort, EnterGate, AbortGate
<1>5. QED
  BY <1>2, <1>3, <1>4, ObserveStep

-----------------------------------------------------------------------------
(* The invariant is inductive.                                             *)

\* A new attempt: its fence is fresh, and no unresolved effect is in its way
\* because the job was waiting.
LEMMA StartStep ==
    ASSUME EffectInv, TypeOK', NEW j \in Jobs, ClaimStart(j)
    PROVE  EffectInv'
<1> DEFINE fence == issued + 1
           context == [job |-> j, number |-> job[j].attempt + 1, fence |-> fence,
                       deadline |-> DeadlineOf(job[j]), open |-> TRUE]
<1>1. /\ job \in [Jobs -> JobRow] /\ issued \in Nat
      /\ attempts' = attempts \cup {context} /\ issued' = fence /\ effects' = effects
  BY DEF ClaimStart, EffectInv, TypeOK
<1>2. /\ \A i \in Jobs \ {j} : job'[i] = job[i]
      /\ job[j].status = "queued"
      /\ job'[j].status = "running"
      /\ job'[j].checkpoint = job[j].checkpoint
  BY <1>1 DEF ClaimStart, JobRow
<1>3. context.job = j /\ context.fence = issued + 1
  OBVIOUS
<1> HIDE DEF context, fence
<1>4. \A e \in DOMAIN effects : Unresolved(effects[e]) => Keeps(effects[e].job)
  BY <1>2, Pinned DEF EffectInv, Keeps
<1>5. PinInv'
  BY <1>1, <1>4, PinStep DEF EffectInv, SameEffect
<1>6. CleanupInv'
  BY <1>1, <1>2, CleanupStep DEF EffectInv, Jobs
<1>7. FenceInv'
  BY <1>1, <1>3 DEF EffectInv, FenceInv, fence
<1>8. AbsentInv'
  BY <1>2 DEF EffectInv, AbsentInv
<1>9. QED
  BY <1>1, <1>5, <1>6, <1>7, <1>8 DEF EffectInv, GateInv

\* No transaction of the store breaks the effect invariant: one step per action.
LEMMA EffectStep == EffectInv /\ [Next]_vars => EffectInv'
<1> SUFFICES ASSUME EffectInv, [Next]_vars PROVE EffectInv'
  OBVIOUS
<1>1. TypeOK'
  BY TypeStep DEF EffectInv
<1>2. /\ job \in [Jobs -> JobRow] /\ attempts \subseteq AttemptRow
      /\ \A c \in attempts : c.job \in Jobs
  BY DEF EffectInv, TypeOK, AttemptRow
<1>3. ASSUME NEW j \in Jobs, NEW d, job[j].status = "absent",
             job' = [job EXCEPT ![j] = QueuedRow(d)],
             UNCHANGED <<attempts, issued, effects>>
      PROVE  EffectInv'
  <2>1. QueuedRow(d).status = "queued" /\ QueuedRow(d).checkpoint = "empty"
    BY DEF QueuedRow, AbsentJob
  <2>2. \A i \in Jobs :
          /\ job'[i].status = "absent" => job'[i] = job[i]
          /\ job[i].status \in {"running", "recovery_required"} => Keeps(i)
          /\ job'[i].checkpoint = job[i].checkpoint
    BY <1>2, <1>3, <2>1 DEF EffectInv, AbsentInv, AbsentJob, Keeps
  <2>3. QED
    BY <1>1, <1>3, <2>2, JobStep DEF Jobs
<1>4. ASSUME NEW j \in ProductJobs, RequestCancel(j) PROVE EffectInv'
  <2>1. \A i \in Jobs :
          /\ job'[i].status = "absent" => job'[i] = job[i]
          /\ job[i].status \in {"running", "recovery_required"} => Keeps(i)
          /\ job'[i].checkpoint = job[i].checkpoint
    BY <1>2, <1>4 DEF RequestCancel, Keeps, JobRow, Live, Jobs
  <2>2. QED
    BY <1>1, <1>4, <2>1, JobStep DEF RequestCancel, Jobs
<1>5. ASSUME NEW j \in Jobs, NEW status \in Terminal,
             \/ job[j].status = "queued" \/ status = "recovery_required",
             job' = [job EXCEPT ![j] = Completed(j, job[j], status)],
             \/ attempts' = attempts
             \/ attempts' = Ended(attempts, job[j].fence),
             UNCHANGED <<issued, effects>>
      PROVE  EffectInv'
  <2>1. /\ job'[j].pending = job[j].pending
        /\ job'[j].attempt = job[j].attempt
        /\ job'[j].checkpoint = job[j].checkpoint
        /\ job'[j].status = status
        /\ \A i \in Jobs \ {j} : job'[i] = job[i]
    BY <1>2, <1>5, CompletedFacts
  <2>2. \A i \in Jobs :
          /\ job'[i].status = "absent" => job'[i] = job[i]
          /\ job[i].status \in {"running", "recovery_required"} => Keeps(i)
          /\ job'[i].checkpoint = job[i].checkpoint
    BY <1>5, <2>1 DEF Keeps, Terminal, Settled
  <2>3. \A a \in attempts' : \E b \in attempts :
          a.job = b.job /\ a.number = b.number /\ a.fence = b.fence
    BY <1>2, <1>5, EndedRows
  <2>4. QED
    BY <1>1, <1>5, <2>2, <2>3, JobStep DEF Jobs
<1>6. ASSUME NEW j \in Jobs, ClaimRetire(j) PROVE EffectInv'
  <2>1. RetireStatus(j) \in Terminal
    BY <1>6 DEF ClaimRetire, RetireStatus, Terminal, Settled
  <2>2. QED
    BY <1>5, <1>6, <2>1 DEF ClaimRetire
<1>7. ASSUME NEW j \in Jobs, RecoverUnknown(j) PROVE EffectInv'
  <2>1. "recovery_required" \in Terminal
    BY DEF Terminal
  <2>2. QED
    BY <1>5, <1>7, <2>1 DEF RecoverUnknown
<1>8. ASSUME NEW j \in Jobs, RecoverRetire(j) PROVE EffectInv'
  <2> DEFINE row == Completed(j, Cleared(j), RecoveryStatus(j))
  <2>1. RecoveryStatus(j) # "absent"
    BY DEF RecoveryStatus
  <2>2. Cleared(j) \in JobRow /\ Cleared(j).checkpoint = job[j].checkpoint
    BY <1>2, ClearedType DEF Cleared, JobRow
  <2>3. row.checkpoint = job[j].checkpoint /\ row.status # "absent"
    BY <2>1, <2>2, CompletedFacts
  <2>4. job' = [job EXCEPT ![j] = row]
    BY <1>8 DEF RecoverRetire
  <2> HIDE DEF row
  <2>5. QED
    BY <1>1, <1>8, <2>3, <2>4, RecoverStep DEF RecoverRetire
<1>9. ASSUME NEW j \in Jobs, RecoverRequeue(j) PROVE EffectInv'
  <2> DEFINE due == now + RetryDelay(job[j].attempt)
             row == [Cleared(j) EXCEPT !.status = "queued", !.fence = Null,
                                       !.lease = Null, !.due = due]
  <2>1. job' = [job EXCEPT ![j] = row]
    BY <1>9 DEF RecoverRequeue
  <2>2. Cleared(j) \in JobRow /\ Cleared(j).checkpoint = job[j].checkpoint
    BY <1>2, ClearedType DEF Cleared, JobRow
  <2> HIDE DEF due
  <2>3. row.checkpoint = job[j].checkpoint /\ row.status # "absent"
    BY <2>2 DEF JobRow
  <2> HIDE DEF row
  <2>4. QED
    BY <1>1, <1>9, <2>1, <2>3, RecoverStep DEF RecoverRequeue
<1>10. ASSUME NEW c \in attempts, Stop(c) \/ Succeed(c) \/ Fail(c) PROVE EffectInv'
  <2>1. PICK status \in Terminal : Finish(c, status)
    BY <1>10 DEF Stop, Succeed, Fail, StopStatus, Terminal, Settled
  <2>2. QED
    BY <1>1, <1>10, <2>1, FinishStep DEF Stop, Succeed, Fail
<1>11. ASSUME NEW c \in attempts, Renew(c) \/ Save(c) PROVE EffectInv'
  <2>1. PICK data :
          /\ Checkpoint(c, data)
          /\ c.job \in CleanupJobs => data = job[c.job].checkpoint
    BY <1>11, JobsAssumption DEF Renew, Save
  <2> DEFINE lease == Earlier(now + LeaseTime, job[c.job].deadline)
  <2>2. job[c.job] \in JobRow /\ c.job \in Jobs
    BY <1>2
  <2> HIDE DEF lease
  <2>3. job' = [job EXCEPT ![c.job] = [job[c.job] EXCEPT !.checkpoint = data, !.lease = lease]]
    BY <1>2, <2>1 DEF Checkpoint, lease
  <2>4. /\ \A i \in Jobs \ {c.job} : job'[i] = job[i]
        /\ job'[c.job].pending = job[c.job].pending
        /\ job'[c.job].attempt = job[c.job].attempt
        /\ job'[c.job].status = job[c.job].status
        /\ job'[c.job].fence = job[c.job].fence
        /\ job'[c.job].checkpoint = data
    BY <1>2, <2>2, <2>3 DEF JobRow
  <2>5. job[c.job].status = "running"
    BY <2>1 DEF Checkpoint, Guarded, Owned
  <2>6. /\ \A i \in Jobs :
             /\ job'[i].status = "absent" => job'[i] = job[i]
             /\ Keeps(i)
        /\ \A i \in CleanupJobs : job'[i].checkpoint = job[i].checkpoint
    BY <2>1, <2>4, <2>5 DEF Keeps, Jobs
  <2>7. QED
    BY <1>1, <2>1, <2>6, JobStep DEF Checkpoint
<1>12. ASSUME NEW c \in attempts, NEW u \in Units, BeginEffect(c, u) PROVE EffectInv'
  <2>1. c.job \notin CleanupJobs
    BY <1>12, JobsAssumption DEF BeginEffect
  <2>2. QED
    BY <1>1, <1>12, <2>1, DeclareStep DEF BeginEffect, Guarded
<1>13. ASSUME NEW c \in attempts, NEW u \in Units, RegisterEffect(c, u) PROVE EffectInv'
  BY <1>1, <1>13, DeclareStep DEF RegisterEffect, Guarded, Preparable
<1>14. CASE \E c \in attempts, e \in DOMAIN effects : ConfirmEffect(c, e)
  BY <1>1, <1>14, ConfirmStep
<1>15. CASE \E e \in DOMAIN effects :
              \/ \E c \in attempts : AdmitEffect(c, e) \/ RecordAbort(c, e)
              \/ EnterGate(e) \/ AbortGate(e)
  BY <1>1, <1>15, ObserveSteps
<1>16. CASE UNCHANGED <<job, attempts, issued, effects>>
  BY <1>1, <1>16 DEF EffectInv, AbsentInv, FenceInv, GateInv, PinInv, CleanupInv
<1>17. CASE Admit
  <2>1. ASSUME NEW j \in ProductJobs, AdmitProduct(j) PROVE EffectInv'
    BY <1>3, <2>1 DEF AdmitProduct, Jobs
  <2>2. ASSUME NEW j \in CleanupJobs, NEW d, AdmitCleanup(j, d) PROVE EffectInv'
    BY <1>3, <2>2 DEF AdmitCleanup, Jobs
  <2>3. QED
    BY <1>17, <2>1, <2>2 DEF Admit
<1>18. CASE Claim
  BY <1>1, <1>6, <1>7, <1>8, <1>9, <1>18, StartStep DEF Claim
<1>19. CASE Work
  BY <1>10, <1>11, <1>12, <1>13, <1>14, <1>15, <1>19 DEF Work
<1>20. CASE Native
  BY <1>15, <1>20 DEF Native
<1>21. CASE Environment
  BY <1>4, <1>16, <1>21 DEF Environment, AuthorityChanges, TargetChanges, PhysicallyComplete
<1>22. CASE Tick \/ UNCHANGED vars
  BY <1>16, <1>22 DEF Tick, vars
<1>23. QED
  BY <1>17, <1>18, <1>19, <1>20, <1>21, <1>22 DEF Next

\* The invariant holds in every reachable state.
THEOREM EffectInvariant == Spec => []EffectInv
<1>1. Init => EffectInv
  <2> SUFFICES ASSUME Init PROVE EffectInv
    OBVIOUS
  <2>1. TypeOK
    BY DEF Init, TypeOK, AbsentJob, JobRow, Statuses, Live, Terminal, Checkpoints, Null,
           MaxAttempts
  <2>2. effects = << >> /\ attempts = {} /\ \A j \in Jobs : job[j] = AbsentJob
    BY DEF Init
  <2>3. QED
    BY <2>1, <2>2 DEF EffectInv, AbsentInv, FenceInv, GateInv, PinInv, CleanupInv
<1>2. QED
  BY <1>1, EffectStep, PTL DEF Spec

\* For any number of jobs, units, attempts and effects, an external call that
\* may have happened and was not confirmed pins its job: nothing requeues,
\* completes, fails or cancels it (finish, recover_in_transaction).
THEOREM UnknownEffectHeld == Spec => []UnknownEffectIsHeld
<1>1. EffectInv => UnknownEffectIsHeld
  BY DEF EffectInv, GateInv, PinInv, Unresolved, Pins, UnknownEffectIsHeld
<1>2. QED
  BY <1>1, EffectInvariant, PTL

\* Recorded proof of non-dispatch stays true, however late the thread that
\* shares the gate runs (_InvocationGate, record_effect_abort).
THEOREM ProofsAreSound == Spec => []ProofExcludesDispatch
<1>1. EffectInv => ProofExcludesDispatch
  BY DEF EffectInv, GateInv, ProofExcludesDispatch
<1>2. QED
  BY <1>1, EffectInvariant, PTL

\* Whatever crashes, stalls and recoveries happen between its attempts, the
\* DELETE of a cleanup obligation is dispatched at most once.
THEOREM DeleteOnce == Spec => []DeleteDispatchedOnce
<1>1. EffectInv => DeleteDispatchedOnce
  BY DEF EffectInv, GateInv, PinInv, CleanupInv, Unresolved, DeleteDispatchedOnce
<1>2. QED
  BY <1>1, EffectInvariant, PTL
-----------------------------------------------------------------------------
(***************************************************************************)
(* The lifecycle contract: each transaction is one step of it or changes   *)
(* nothing it can see.                                                     *)
(***************************************************************************)

\* The step moves job j from one status to another and leaves every other job.
Moves(j, from, to) ==
    /\ job[j].status \in from
    /\ job'[j].status = to
    /\ \A i \in Jobs \ {j} : job'[i] = job[i]

phases == [j \in Jobs |-> Phase(job[j].status)]
tried == [j \in Jobs |-> job[j].attempt]

\* Moving a job from one phase to another is a step of the abstract lifecycle's
\* phase function and of nothing else.
LEMMA MoveStep ==
    ASSUME NEW j \in Jobs, NEW from, NEW to, Moves(j, from, to)
    PROVE  /\ phases' = [phases EXCEPT ![j] = Phase(to)]
           /\ job'[j].attempt = job[j].attempt => tried' = tried
           /\ tried' = [tried EXCEPT ![j] = job'[j].attempt]
  BY DEF Moves, phases, tried

\* A job the lifecycle calls active is one whose row is running.
LEMMA ActiveIsRunning ==
    Life!Active = Running /\ Life!Accepted = Backlog
  BY DEF Life!Active, Life!Accepted, Running, Backlog, Live, Phase

\* Admission of a job maps to Accept.
LEMMA AcceptStep ==
    ASSUME NEW j \in Jobs, Moves(j, {"absent"}, "queued"), job'[j].attempt = job[j].attempt,
           Cardinality(Backlog) < Capacity
    PROVE  Life!Accept(j)
<1>1. /\ phases' = [phases EXCEPT ![j] = "waiting"]
      /\ tried' = tried
      /\ phases[j] = "absent"
  BY MoveStep DEF Moves, phases, Phase
<1>2. Life!Cardinality(Life!Accepted) < Capacity
  BY ActiveIsRunning DEF Cardinality, Life!Cardinality
<1>3. QED
  BY <1>1, <1>2 DEF Life!Accept, phases, tried

\* Settling a job maps to Settle.
LEMMA SettleStep ==
    ASSUME NEW j \in Jobs, NEW to \in Settled, Moves(j, {"queued", "running"}, to),
           job'[j].attempt = job[j].attempt
    PROVE  Life!Settle(j)
  BY MoveStep DEF Moves, Life!Settle, phases, tried, Phase, Settled

\* Leaving a job in recovery_required maps to Doubt.
LEMMA DoubtStep ==
    ASSUME NEW j \in Jobs, Moves(j, {"running"}, "recovery_required"),
           job'[j].attempt = job[j].attempt
    PROVE  Life!Doubt(j)
  BY MoveStep DEF Moves, Life!Doubt, phases, tried, Phase

\* A claim maps to Activate, and takes one of the job's tries.
LEMMA ActivateStep ==
    ASSUME NEW j \in Jobs, Moves(j, {"queued"}, "running"),
           job'[j].attempt = job[j].attempt + 1,
           job[j].attempt < MaxAttempts, Running = {}
    PROVE  Life!Activate(j)
<1>1. /\ phases' = [phases EXCEPT ![j] = "active"]
      /\ tried' = [tried EXCEPT ![j] = @ + 1]
      /\ phases[j] = "waiting"
      /\ tried[j] < MaxAttempts
  BY MoveStep DEF Moves, phases, tried, Phase
<1>2. Life!Active = {}
  BY ActiveIsRunning
<1>3. QED
  BY <1>1, <1>2 DEF Life!Activate, phases, tried, MaxAttempts, Life!MaxAttempts

\* Requeueing a job after its attempt maps to GiveBack.
LEMMA GiveBackStep ==
    ASSUME NEW j \in Jobs, Moves(j, {"running"}, "queued"),
           job'[j].attempt = job[j].attempt, job[j].attempt < MaxAttempts
    PROVE  Life!GiveBack(j)
<1>1. /\ phases' = [phases EXCEPT ![j] = "waiting"]
      /\ tried' = tried
      /\ phases[j] = "active"
      /\ tried[j] < MaxAttempts
  BY MoveStep DEF Moves, phases, tried, Phase
<1>2. QED
  BY <1>1 DEF Life!GiveBack, phases, tried, MaxAttempts, Life!MaxAttempts

\* A step that changes no job's status or attempt count is invisible.
LEMMA StutterStep ==
    ASSUME \A j \in Jobs :
              job'[j].status = job[j].status /\ job'[j].attempt = job[j].attempt
    PROVE  UNCHANGED Life!lifeVars
  BY DEF Life!lifeVars

\* Every transaction of the store is a lifecycle step or leaves the lifecycle alone.
LEMMA LifeStep == EffectInv /\ [Next]_vars => [Life!LifeNext]_(Life!lifeVars)
<1> SUFFICES ASSUME EffectInv, [Next]_vars PROVE Life!LifeNext \/ UNCHANGED Life!lifeVars
  OBVIOUS
<1>1. /\ job \in [Jobs -> JobRow]
      /\ \A j \in Jobs : job[j] \in JobRow /\ Cleared(j) \in JobRow
      /\ \A j \in Jobs : Cleared(j).attempt = job[j].attempt
      /\ \A c \in attempts : c.job \in Jobs
      /\ \A j \in Jobs : job[j].status = "absent" => job[j].attempt = 0
  <2>1. TypeOK
    BY DEF EffectInv
  <2>2. /\ job \in [Jobs -> JobRow]
        /\ \A j \in Jobs : job[j] \in JobRow
        /\ \A c \in attempts : c.job \in Jobs
    BY <2>1 DEF TypeOK, AttemptRow
  <2>3. \A j \in Jobs : Cleared(j) \in JobRow /\ Cleared(j).attempt = job[j].attempt
    BY <2>2, ClearedType DEF Cleared, JobRow
  <2>4. QED
    BY <2>2, <2>3 DEF EffectInv, AbsentInv, AbsentJob
<1>2. ASSUME NEW j \in Jobs, NEW d, job[j].status = "absent",
             Cardinality(Backlog) < Capacity, job' = [job EXCEPT ![j] = QueuedRow(d)]
      PROVE  Life!LifeNext
  <2>1. QueuedRow(d).status = "queued" /\ QueuedRow(d).attempt = 0
    BY DEF QueuedRow, AbsentJob
  <2>2. Moves(j, {"absent"}, "queued") /\ job'[j].attempt = job[j].attempt
    BY <1>1, <1>2, <2>1 DEF Moves
  <2>3. QED
    BY <1>2, <2>2, AcceptStep DEF Life!LifeNext
<1>3. ASSUME NEW j \in Jobs, NEW to \in Terminal, NEW r \in JobRow,
             r.attempt = job[j].attempt,
             job' = [job EXCEPT ![j] = Completed(j, r, to)],
             \/ job[j].status = "running"
             \/ job[j].status = "queued" /\ to \in Settled
      PROVE  Life!LifeNext
  <2>1. /\ Moves(j, {job[j].status}, to) /\ job'[j].attempt = job[j].attempt
    BY <1>1, <1>3, CompletedFacts DEF Moves
  <2>2. CASE to \in Settled
    <3>1. Moves(j, {"queued", "running"}, to)
      BY <1>3, <2>1 DEF Moves
    <3>2. QED
      BY <2>1, <2>2, <3>1, SettleStep DEF Life!LifeNext
  <2>3. CASE to = "recovery_required"
    <3>1. Moves(j, {"running"}, "recovery_required")
      BY <1>3, <2>1, <2>3 DEF Moves, Settled
    <3>2. QED
      BY <2>1, <3>1, DoubtStep DEF Life!LifeNext
  <2>4. QED
    BY <2>2, <2>3 DEF Terminal
<1>4. CASE UNCHANGED job
  BY <1>4, StutterStep
<1>5. ASSUME NEW c \in attempts, NEW status \in Terminal, Finish(c, status)
      PROVE  Life!LifeNext
  <2>1. FinishedStatus(job[c.job], status) \in Terminal
    BY DEF FinishedStatus, Terminal
  <2>2. QED
    BY <1>1, <1>3, <1>5, <2>1 DEF Finish, Owned
<1>6. ASSUME NEW j \in Jobs, NEW row, job' = [job EXCEPT ![j] = row],
             row.status = job[j].status, row.attempt = job[j].attempt
      PROVE  UNCHANGED Life!lifeVars
  <2>1. \A i \in Jobs :
          job'[i].status = job[i].status /\ job'[i].attempt = job[i].attempt
    BY <1>1, <1>6
  <2>2. QED
    BY <2>1, StutterStep
<1>7. ASSUME NEW j \in ProductJobs, RequestCancel(j) PROVE UNCHANGED Life!lifeVars
  <2> DEFINE row == [job[j] EXCEPT !.cancel = TRUE]
  <2>1. row.status = job[j].status /\ row.attempt = job[j].attempt
    BY <1>1 DEF JobRow, Jobs
  <2>2. job' = [job EXCEPT ![j] = row]
    BY <1>1, <1>7 DEF RequestCancel
  <2> HIDE DEF row
  <2>3. QED
    BY <1>6, <2>1, <2>2 DEF Jobs
<1>8. ASSUME NEW j \in Jobs, ClaimStart(j) PROVE Life!LifeNext
  <2>1. /\ Moves(j, {"queued"}, "running")
        /\ job'[j].attempt = job[j].attempt + 1
        /\ job[j].attempt < MaxAttempts
        /\ Running = {}
    BY <1>1, <1>8 DEF ClaimStart, Moves, JobRow
  <2>2. QED
    BY <2>1, ActivateStep DEF Life!LifeNext
<1>9. ASSUME NEW j \in Jobs, ClaimRetire(j) PROVE Life!LifeNext
  <2>1. RetireStatus(j) \in Settled
    BY <1>9 DEF ClaimRetire, RetireStatus, Settled
  <2>2. QED
    BY <1>1, <1>3, <1>9, <2>1 DEF ClaimRetire, Terminal
<1>10. ASSUME NEW j \in Jobs, RecoverUnknown(j) PROVE Life!LifeNext
  BY <1>1, <1>3, <1>10 DEF RecoverUnknown, Expired, Terminal
<1>11. ASSUME NEW j \in Jobs, RecoverRetire(j) PROVE Life!LifeNext
  <2>1. RecoveryStatus(j) \in Terminal
    BY <1>11 DEF RecoverRetire, RecoveryStatus, Terminal, Settled
  <2>2. QED
    BY <1>1, <1>3, <1>11, <2>1 DEF RecoverRetire, Expired
<1>12. ASSUME NEW j \in Jobs, RecoverRequeue(j) PROVE Life!LifeNext
  <2> DEFINE due == now + RetryDelay(job[j].attempt)
             row == [Cleared(j) EXCEPT !.status = "queued", !.fence = Null,
                                       !.lease = Null, !.due = due]
  <2>1. job' = [job EXCEPT ![j] = row]
    BY <1>12 DEF RecoverRequeue
  <2> HIDE DEF due
  <2>2. row.status = "queued" /\ row.attempt = job[j].attempt
    BY <1>1 DEF JobRow
  <2> HIDE DEF row
  <2>3. Moves(j, {"running"}, "queued") /\ job'[j].attempt = job[j].attempt
    BY <1>1, <1>12, <2>1, <2>2 DEF Moves, RecoverRequeue, Expired
  <2>4. job[j].attempt < MaxAttempts
    <3>1. ~(job[j].attempt >= MaxAttempts)
      BY <1>12 DEF RecoverRequeue, RecoveryStatus
    <3>2. QED
      BY <1>1, <3>1 DEF JobRow, MaxAttempts
  <2>5. QED
    BY <2>3, <2>4, GiveBackStep DEF Life!LifeNext
<1>13. ASSUME NEW c \in attempts, Stop(c) \/ Succeed(c) \/ Fail(c) PROVE Life!LifeNext
  <2>1. PICK status \in Terminal : Finish(c, status)
    BY <1>13 DEF Stop, Succeed, Fail, StopStatus, Terminal, Settled
  <2>2. QED
    BY <1>5, <2>1
<1>14. ASSUME NEW c \in attempts, Renew(c) \/ Save(c) PROVE UNCHANGED Life!lifeVars
  <2> DEFINE lease == Earlier(now + LeaseTime, job[c.job].deadline)
  <2>1. PICK data : Checkpoint(c, data)
    BY <1>14 DEF Renew, Save
  <2> DEFINE row == [job[c.job] EXCEPT !.checkpoint = data, !.lease = lease]
  <2>2. job' = [job EXCEPT ![c.job] = row]
    BY <1>1, <2>1 DEF Checkpoint
  <2> HIDE DEF lease
  <2>3. row.status = job[c.job].status /\ row.attempt = job[c.job].attempt
    BY <1>1 DEF JobRow
  <2> HIDE DEF row
  <2>4. QED
    BY <1>1, <1>6, <2>2, <2>3
<1>15. ASSUME NEW c \in attempts, NEW u \in Units, BeginEffect(c, u) \/ RegisterEffect(c, u)
       PROVE  UNCHANGED Life!lifeVars
  <2> DEFINE row == [job[c.job] EXCEPT !.pending = u]
  <2>1. row.status = job[c.job].status /\ row.attempt = job[c.job].attempt
    BY <1>1 DEF JobRow
  <2>2. job' = [job EXCEPT ![c.job] = row]
    BY <1>1, <1>15 DEF BeginEffect, RegisterEffect
  <2> HIDE DEF row
  <2>3. QED
    BY <1>1, <1>6, <2>1, <2>2
<1>16. ASSUME NEW c \in attempts, NEW e \in DOMAIN effects, ConfirmEffect(c, e)
       PROVE  UNCHANGED Life!lifeVars
  <2> DEFINE row == [job[c.job] EXCEPT !.pending = NoUnit, !.checkpoint = "ack"]
  <2>1. row.status = job[c.job].status /\ row.attempt = job[c.job].attempt
    BY <1>1 DEF JobRow
  <2>2. job' = [job EXCEPT ![c.job] = row]
    BY <1>1, <1>16 DEF ConfirmEffect
  <2> HIDE DEF row
  <2>3. QED
    BY <1>1, <1>6, <2>1, <2>2
<1>17. CASE Admit
  <2>1. ASSUME NEW j \in ProductJobs, AdmitProduct(j) PROVE Life!LifeNext
    BY <1>2, <2>1 DEF AdmitProduct, Jobs
  <2>2. ASSUME NEW j \in CleanupJobs, NEW d, AdmitCleanup(j, d) PROVE Life!LifeNext
    BY <1>2, <2>2 DEF AdmitCleanup, Jobs
  <2>3. QED
    BY <1>17, <2>1, <2>2 DEF Admit
<1>18. CASE Claim
  BY <1>8, <1>9, <1>10, <1>11, <1>12, <1>18 DEF Claim
<1>19. CASE Work
  <2>1. ASSUME NEW c \in attempts, NEW e \in DOMAIN effects, AdmitEffect(c, e) \/ RecordAbort(c, e)
        PROVE  UNCHANGED Life!lifeVars
    BY <1>4, <2>1, StutterStep DEF AdmitEffect, RecordAbort
  <2>2. QED
    BY <1>13, <1>14, <1>15, <1>16, <1>19, <2>1 DEF Work
<1>20. CASE Native
  BY <1>20, StutterStep DEF Native, EnterGate, AbortGate
<1>21. CASE Environment
  BY <1>7, <1>21, StutterStep DEF Environment, AuthorityChanges, TargetChanges, PhysicallyComplete
<1>22. CASE Tick \/ UNCHANGED vars
  BY <1>22, StutterStep DEF Tick, vars
<1>23. QED
  BY <1>17, <1>18, <1>19, <1>20, <1>21, <1>22 DEF Next

\* The queue implements the lifecycle contract: one active attempt in the whole
\* installation, three at most for a job, a bounded backlog, and no way out of
\* a terminal outcome (claim_next, start_attempt, recover_in_transaction,
\* finish).
THEOREM QueueImplementsLifecycle == Spec => ImplementsLifecycle
<1>1. Init => Life!LifeInit
  BY DEF Init, AbsentJob, Life!LifeInit, Phase
<1>2. QED
  BY <1>1, EffectInvariant, LifeStep, PTL DEF Spec, ImplementsLifecycle, Life!LifeSpec

\* What the lifecycle contract means in numbers: one attempt at a time in the
\* installation, a bounded backlog, and three attempts of a job at most.
LifePromise ==
    /\ \A i, j \in Running : i = j
    /\ Cardinality(Backlog) <= Capacity
    /\ \A j \in Jobs : job[j].attempt \in 0 .. MaxAttempts

\* The contract moves one job at a time.
LEMMA LifeMoves ==
  ASSUME Life!LifeNext
  PROVE  \E j \in Jobs, to \in {"waiting", "active", "settled", "doubt"} :
            /\ phases[j] \notin {"settled", "doubt"}
            /\ phases' = [phases EXCEPT ![j] = to]
            /\ phases[j] = "absent" => to = "waiting" /\ Life!Cardinality(Life!Accepted) < Capacity
            /\ phases[j] = "waiting" => to # "waiting"
            /\ to = "active" => phases[j] = "waiting" /\ Life!Active = {}
            /\ tried' = IF to = "active" THEN [tried EXCEPT ![j] = @ + 1] ELSE tried
            /\ to = "active" => tried[j] < MaxAttempts
<1>1. PICK j \in Jobs :
         Life!Accept(j) \/ Life!Activate(j) \/ Life!GiveBack(j) \/ Life!Settle(j) \/ Life!Doubt(j)
  BY DEF Life!LifeNext
<1>2. CASE Life!Accept(j)
  BY <1>2 DEF Life!Accept, phases, tried
<1>3. CASE Life!Activate(j)
  BY <1>3 DEF Life!Activate, phases, tried, MaxAttempts, Life!MaxAttempts
<1>4. CASE Life!GiveBack(j)
  BY <1>4 DEF Life!GiveBack, phases, tried
<1>5. CASE Life!Settle(j)
  BY <1>5 DEF Life!Settle, phases, tried
<1>6. CASE Life!Doubt(j)
  BY <1>6 DEF Life!Doubt, phases, tried
<1> QED
  BY <1>1, <1>2, <1>3, <1>4, <1>5, <1>6

\* So it keeps its promise.
LEMMA PromiseKept ==
  ASSUME LifePromise, Life!LifeNext
  PROVE  LifePromise'
<1>1. PICK j \in Jobs, to \in {"waiting", "active", "settled", "doubt"} :
            /\ phases[j] \notin {"settled", "doubt"}
            /\ phases' = [phases EXCEPT ![j] = to]
            /\ phases[j] = "absent" => to = "waiting" /\ Life!Cardinality(Life!Accepted) < Capacity
            /\ to = "active" => phases[j] = "waiting" /\ Life!Active = {}
            /\ tried' = IF to = "active" THEN [tried EXCEPT ![j] = @ + 1] ELSE tried
            /\ to = "active" => tried[j] < MaxAttempts
  BY LifeMoves
<1>2. /\ Running = {i \in Jobs : phases[i] = "active"}
      /\ Backlog = {i \in Jobs : phases[i] \in {"waiting", "active"}}
      /\ Life!Active = Running /\ Life!Accepted = Backlog
  BY DEF Running, Backlog, Live, phases, Phase, Life!Active, Life!Accepted
<1>3. /\ Running' = {i \in Jobs : phases'[i] = "active"}
      /\ Backlog' = {i \in Jobs : phases'[i] \in {"waiting", "active"}}
  BY DEF Running, Backlog, Live, phases, Phase
<1>4. phases \in [Jobs -> {"absent", "waiting", "active", "settled", "doubt"}]
  BY DEF phases, Phase
<1>5. \A i \in Jobs : phases'[i] = IF i = j THEN to ELSE phases[i]
  BY <1>1, <1>4
<1>6. \A i, k \in Running' : i = k
  BY <1>1, <1>2, <1>3, <1>5 DEF LifePromise
<1>7. IsFiniteSet(Backlog) /\ Cardinality(Backlog) \in Nat /\ Capacity \in Nat
  <2>1. IsFiniteSet(Jobs)
    BY JobsAssumption, FS_Union DEF Jobs
  <2>2. Backlog \in SUBSET Jobs
    BY DEF Backlog
  <2> QED
    BY <2>1, <2>2, FS_Subset, FS_CardinalityType, TimesAssumption
<1>8. Cardinality(Backlog') <= Capacity
  <2>1. CASE phases[j] = "absent"
    <3>1. Backlog' = Backlog \cup {j}
      BY <1>1, <1>2, <1>3, <1>5, <2>1
    <3>2. Cardinality(Backlog) < Capacity
      BY <1>1, <1>2, <2>1 DEF Cardinality, Life!Cardinality
    <3>3. Cardinality(Backlog \cup {j}) \in {Cardinality(Backlog), Cardinality(Backlog) + 1}
      BY <1>7, FS_AddElement
    <3> QED
      BY <1>7, <3>1, <3>2, <3>3
  <2>2. CASE phases[j] # "absent"
    <3>1. Backlog' \in SUBSET Backlog
      BY <1>1, <1>2, <1>3, <1>4, <1>5, <2>2
    <3>2. Cardinality(Backlog') <= Cardinality(Backlog) /\ IsFiniteSet(Backlog')
      BY <1>7, <3>1, FS_Subset
    <3>3. Cardinality(Backlog') \in Nat
      BY <3>2, FS_CardinalityType
    <3> QED
      BY <1>7, <3>2, <3>3 DEF LifePromise
  <2> QED
    BY <2>1, <2>2
<1>9. ASSUME NEW i \in Jobs PROVE job'[i].attempt \in 0 .. MaxAttempts
  <2>1. tried[i] = job[i].attempt /\ tried'[i] = job'[i].attempt /\ tried[i] \in 0 .. MaxAttempts
    BY DEF tried, LifePromise
  <2>2. tried'[i] = tried[i] \/ (i = j /\ tried'[i] = tried[i] + 1 /\ tried[i] < MaxAttempts)
    <3>1. tried = [k \in Jobs |-> tried[k]]
      BY DEF tried
    <3> HIDE DEF tried
    <3> QED
      BY <1>1, <3>1
  <2> QED
    BY <2>1, <2>2 DEF MaxAttempts
<1> QED
  BY <1>6, <1>8, <1>9 DEF LifePromise

\* Unchanged in the contract's eyes, a state keeps the promise.
LEMMA PromiseStutters == LifePromise /\ UNCHANGED Life!lifeVars => LifePromise'
<1> SUFFICES ASSUME LifePromise, UNCHANGED Life!lifeVars PROVE LifePromise'
  OBVIOUS
<1>1. phases' = phases /\ tried' = tried
  BY DEF Life!lifeVars, phases, tried
<1>2. /\ Running = {i \in Jobs : phases[i] = "active"}
      /\ Backlog = {i \in Jobs : phases[i] \in {"waiting", "active"}}
      /\ Running' = {i \in Jobs : phases'[i] = "active"}
      /\ Backlog' = {i \in Jobs : phases'[i] \in {"waiting", "active"}}
  BY DEF Running, Backlog, Live, phases, Phase
<1>3. \A i \in Jobs : job'[i].attempt = job[i].attempt
  <2>1. \A i \in Jobs : tried[i] = job[i].attempt /\ tried'[i] = job'[i].attempt
    BY DEF tried
  <2> QED
    BY <1>1, <2>1
<1> QED
  BY <1>1, <1>2, <1>3 DEF LifePromise

\* One attempt runs at a time in the installation, the backlog never exceeds its
\* capacity and no job starts more than three attempts, whatever workers,
\* clocks, stores and administrators do (start_attempt, admit).
THEOREM LifecycleKeepsPromise == Spec => []LifePromise
<1>1. Init => LifePromise
  <2> SUFFICES ASSUME Init PROVE LifePromise
    OBVIOUS
  <2>1. \A j \in Jobs : job[j].status = "absent" /\ job[j].attempt = 0
    BY DEF Init, AbsentJob
  <2>2. Running = {} /\ Backlog = {}
    BY <2>1 DEF Running, Backlog, Live
  <2>3. Cardinality(Backlog) <= Capacity
    BY <2>2, FS_EmptySet, TimesAssumption
  <2> QED
    BY <2>1, <2>2, <2>3 DEF LifePromise, MaxAttempts
<1>2. EffectInv /\ LifePromise /\ [Next]_vars => LifePromise'
  BY LifeStep, PromiseKept, PromiseStutters
<1> QED
  BY <1>1, <1>2, EffectInvariant, PTL DEF Spec

\* How far a job is from its end: each try costs at most a wait and a run.
Distance(j) ==
    IF phases[j] = "absent" THEN 2 * MaxAttempts + 3
    ELSE IF phases[j] = "waiting" THEN 2 * (MaxAttempts - tried[j]) + 2
    ELSE IF phases[j] = "active" THEN 2 * (MaxAttempts - tried[j]) + 3
    ELSE 0

\* A job moves towards its end or stays where it is.
NoWayBack ==
    [][\A j \in Jobs :
         /\ Distance(j) \in 0 .. 2 * MaxAttempts + 3
         /\ Distance(j)' < Distance(j)
              \/ (phases'[j] = phases[j] /\ tried'[j] = tried[j])]_vars

\* A move of the lifecycle brings its job nearer to the end and leaves the others.
LEMMA MovesDescend ==
  ASSUME LifePromise, Life!LifeNext, NEW i \in Jobs
  PROVE  Distance(i)' < Distance(i) \/ (phases'[i] = phases[i] /\ tried'[i] = tried[i])
<1>1. PICK j \in Jobs, to \in {"waiting", "active", "settled", "doubt"} :
            /\ phases[j] \notin {"settled", "doubt"}
            /\ phases' = [phases EXCEPT ![j] = to]
            /\ phases[j] = "absent" => to = "waiting" /\ Life!Cardinality(Life!Accepted) < Capacity
            /\ phases[j] = "waiting" => to # "waiting"
            /\ to = "active" => phases[j] = "waiting" /\ Life!Active = {}
            /\ tried' = IF to = "active" THEN [tried EXCEPT ![j] = @ + 1] ELSE tried
            /\ to = "active" => tried[j] < MaxAttempts
  BY LifeMoves
<1>2. /\ phases = [k \in Jobs |-> phases[k]] /\ tried = [k \in Jobs |-> tried[k]]
      /\ phases[j] \in {"absent", "waiting", "active", "settled", "doubt"}
      /\ tried[j] \in 0 .. 3
  BY DEF phases, Phase, tried, LifePromise, MaxAttempts
<1> HIDE DEF phases, tried
<1>3. phases'[j] = to /\ (i # j => phases'[i] = phases[i] /\ tried'[i] = tried[i])
  BY <1>1, <1>2
<1>4. tried'[j] = IF to = "active" THEN tried[j] + 1 ELSE tried[j]
  BY <1>1, <1>2
<1>5. Distance(j)' < Distance(j)
  BY <1>1, <1>2, <1>3, <1>4 DEF Distance, MaxAttempts
<1> QED
  BY <1>3, <1>5

\* A job changes its phase at most nine times in its life: no sequence of crashes,
\* recoveries and retries keeps it going round for ever (start_attempt,
\* recover_in_transaction).
THEOREM JobsDescend == Spec => NoWayBack
<1>1. EffectInv /\ LifePromise /\ [Next]_vars =>
        [\A j \in Jobs :
           /\ Distance(j) \in 0 .. 2 * MaxAttempts + 3
           /\ Distance(j)' < Distance(j)
                \/ (phases'[j] = phases[j] /\ tried'[j] = tried[j])]_vars
  <2> SUFFICES ASSUME EffectInv, LifePromise, [Next]_vars, NEW j \in Jobs
               PROVE  /\ Distance(j) \in 0 .. 2 * MaxAttempts + 3
                      /\ Distance(j)' < Distance(j)
                           \/ (phases'[j] = phases[j] /\ tried'[j] = tried[j])
    OBVIOUS
  <2>1. tried[j] \in 0 .. 3
    BY DEF tried, LifePromise, MaxAttempts
  <2>2. Distance(j) \in 0 .. 2 * MaxAttempts + 3
    BY <2>1 DEF Distance, MaxAttempts
  <2>3. CASE UNCHANGED Life!lifeVars
    BY <2>2, <2>3 DEF Life!lifeVars, phases, tried
  <2>4. CASE Life!LifeNext
    BY <2>2, <2>4, MovesDescend
  <2> QED
    BY <2>3, <2>4, LifeStep
<1> QED
  BY <1>1, EffectInvariant, LifecycleKeepsPromise, PTL DEF Spec, NoWayBack

-----------------------------------------------------------------------------
(***************************************************************************)
(* The rows of the queue: what one step can do to a job.  Leases, budgets, *)
(* cancellation and replays follow from these kinds of change.             *)
(***************************************************************************)

SameWork(j) ==
    /\ job'[j].attempt = job[j].attempt
    /\ job'[j].deadline = job[j].deadline
    /\ job'[j].checkpoint = job[j].checkpoint

SameOwner(j) ==
    /\ job'[j].status = job[j].status
    /\ job'[j].fence = job[j].fence
    /\ job'[j].lease = job[j].lease

\* Admission and the request to cancel: nothing the worker wrote changes.
Accepted(j) ==
    /\ SameWork(j)
    /\ job'[j].lease = job[j].lease
    /\ job'[j].pending = job[j].pending /\ job'[j].expires = job[j].expires
    /\ \/ job[j].status = "absent" /\ job'[j].status = "queued"
       \/ SameOwner(j)

\* A terminal outcome.
Ends(j) ==
    /\ SameWork(j)
    /\ job[j].status \in Live /\ job'[j].status \in Terminal
    /\ job'[j].lease = Null
    /\ job'[j].pending \in {job[j].pending, NoUnit}
    /\ j \in ProductJobs /\ job'[j].expires # Null =>
           job'[j].status \in Settled /\ job'[j].pending = NoUnit

\* A new attempt of a waiting job.
Starts(j) ==
    /\ job[j].status = "queued" /\ job'[j].status = "running"
    /\ job[j].deadline # Null => job'[j].deadline = job[j].deadline
    /\ job'[j].lease <= job'[j].deadline
    /\ job'[j].checkpoint = job[j].checkpoint
    /\ job'[j].pending = job[j].pending /\ job'[j].expires = job[j].expires
    /\ j \in ProductJobs => authority[j] /\ ~job[j].cancel

\* An expired attempt goes back to the queue.
Returns(j) ==
    /\ SameWork(j)
    /\ job[j].status = "running" /\ job'[j].status = "queued"
    /\ job[j].lease <= now /\ job'[j].lease = Null
    /\ job'[j].pending = NoUnit /\ job'[j].expires = job[j].expires

\* The owner works on its job.
Works(j) ==
    /\ job[j].status = "running" /\ job'[j].status = "running"
    /\ now < job[j].lease
    /\ StopStatus(j) = "none"
    /\ job'[j].attempt = job[j].attempt
    /\ job'[j].deadline = job[j].deadline
    /\ job'[j].fence = job[j].fence
    /\ job'[j].expires = job[j].expires
    /\ job'[j].lease \in {job[j].lease, Earlier(now + LeaseTime, job[j].deadline)}

\* What a terminal outcome leaves of a row, the replay's retention included.
LEMMA CompletedEnds ==
    ASSUME NEW j \in Jobs, NEW status \in Terminal,
           job \in [Jobs -> JobRow], job[j].status \in Live,
           NEW r \in JobRow, r.attempt = job[j].attempt, r.deadline = job[j].deadline,
           r.checkpoint = job[j].checkpoint, r.pending \in {job[j].pending, NoUnit},
           job' = [job EXCEPT ![j] = Completed(j, r, status)]
    PROVE  Ends(j)
<1> DEFINE expires == Expiry(j, r, status)
           execution == IF j \in CleanupJobs THEN status ELSE r.execution
<1>1. j \in ProductJobs /\ expires # Null => status \in Settled /\ r.pending = NoUnit
  BY DEF Expiry, Terminal
<1> HIDE DEF expires, execution
<1>2. Completed(j, r, status) =
        [r EXCEPT !.status = status, !.fence = Null, !.lease = Null,
                  !.expires = expires, !.execution = execution]
  BY DEF Completed, expires, execution
<1>3. /\ job'[j].status = status /\ job'[j].lease = Null /\ job'[j].expires = expires
      /\ job'[j].pending = r.pending /\ job'[j].attempt = r.attempt
      /\ job'[j].deadline = r.deadline /\ job'[j].checkpoint = r.checkpoint
  BY <1>2 DEF JobRow
<1>4. QED
  BY <1>1, <1>3 DEF Ends, SameWork

\* An attempt finished by its owner.
LEMMA FinishEnds ==
    ASSUME TypeOK, NEW c \in attempts, NEW status \in Terminal, Finish(c, status)
    PROVE  /\ c.job \in Jobs /\ Ends(c.job)
           /\ \A j \in Jobs \ {c.job} : job'[j] = job[j]
<1>1. c.job \in Jobs /\ job[c.job] \in JobRow /\ job \in [Jobs -> JobRow]
  BY DEF TypeOK, AttemptRow
<1>2. PICK outcome \in Terminal : outcome = FinishedStatus(job[c.job], status)
  BY DEF FinishedStatus, Terminal
<1>3. job' = [job EXCEPT ![c.job] = Completed(c.job, job[c.job], outcome)]
  BY <1>1, <1>2 DEF Finish
<1>4. job[c.job].status \in Live
  BY DEF Finish, Owned, Live
<1>5. Ends(c.job)
  BY <1>1, <1>3, <1>4, CompletedEnds
<1>6. QED
  BY <1>1, <1>3, <1>5

\* One transaction changes at most one job, in one of these ways.
RowChange(j) == Accepted(j) \/ Ends(j) \/ Starts(j) \/ Returns(j) \/ Works(j)

OneRow == \A j \in Jobs : job'[j] = job[j] \/ RowChange(j)

LEMMA AdmissionRow ==
    ASSUME TypeOK, AbsentInv, NEW j \in Jobs, NEW due, job[j].status = "absent",
           job' = [job EXCEPT ![j] = QueuedRow(due)]
    PROVE  OneRow
<1>1. job \in [Jobs -> JobRow] /\ job[j] = AbsentJob
  BY DEF TypeOK, AbsentInv
<1>2. job'[j] = QueuedRow(due) /\ \A i \in Jobs \ {j} : job'[i] = job[i]
  BY <1>1
<1>3. Accepted(j)
  BY <1>1, <1>2 DEF Accepted, SameWork, QueuedRow, AbsentJob
<1>4. QED
  BY <1>2, <1>3 DEF OneRow, RowChange

LEMMA StartRow ==
    ASSUME TypeOK, NEW j \in Jobs, ClaimStart(j)
    PROVE  OneRow
<1>1. job \in [Jobs -> JobRow] /\ now \in Nat /\ job[j] \in JobRow
  BY DEF TypeOK
<1>2. PICK d \in Nat : d = DeadlineOf(job[j])
  BY <1>1, TimesAssumption DEF DeadlineOf, JobRow
<1>3. PICK lease \in Nat : lease = Earlier(now + LeaseTime, d) /\ lease <= d
  BY <1>1, TimesAssumption DEF Earlier
<1>4. job' = [job EXCEPT ![j] = [job[j] EXCEPT !.status = "running", !.attempt = job[j].attempt + 1,
                                 !.fence = issued + 1, !.deadline = d, !.lease = lease]]
  BY <1>1, <1>2, <1>3 DEF ClaimStart
<1>5. /\ \A i \in Jobs \ {j} : job'[i] = job[i]
      /\ job'[j].status = "running" /\ job'[j].deadline = d /\ job'[j].lease = lease
      /\ job'[j].checkpoint = job[j].checkpoint
      /\ job'[j].pending = job[j].pending /\ job'[j].expires = job[j].expires
  BY <1>1, <1>4 DEF JobRow
<1>6. job[j].deadline # Null => d = job[j].deadline
  BY <1>2 DEF DeadlineOf
<1>7. job[j].status = "queued" /\ ~job[j].cancel /\ (j \in ProductJobs => authority[j])
  BY DEF ClaimStart, RetireStatus
<1>8. Starts(j)
  BY <1>3, <1>5, <1>6, <1>7 DEF Starts
<1>9. QED
  BY <1>5, <1>8 DEF OneRow, RowChange

LEMMA RecoveryRow ==
    ASSUME TypeOK, NEW j \in Jobs,
           ClaimRetire(j) \/ RecoverUnknown(j) \/ RecoverRetire(j) \/ RecoverRequeue(j)
    PROVE  OneRow
<1>1. job \in [Jobs -> JobRow] /\ now \in Nat /\ job[j] \in JobRow
  BY DEF TypeOK
<1>2. \A i \in Jobs \ {j} : job'[i] = job[i]
  BY <1>1 DEF ClaimRetire, RecoverUnknown, RecoverRetire, RecoverRequeue
<1>3. CASE ClaimRetire(j)
  <2>1. RetireStatus(j) \in Terminal /\ job[j].status \in Live
    BY <1>3 DEF ClaimRetire, RetireStatus, Terminal, Settled, Live
  <2>2. Ends(j)
    BY <1>1, <1>3, <2>1, CompletedEnds DEF ClaimRetire
  <2>3. QED
    BY <1>2, <2>2 DEF OneRow, RowChange
<1>4. CASE RecoverUnknown(j)
  <2>1. "recovery_required" \in Terminal /\ job[j].status \in Live
    BY <1>4 DEF RecoverUnknown, Expired, Terminal, Live
  <2>2. Ends(j)
    BY <1>1, <1>4, <2>1, CompletedEnds DEF RecoverUnknown
  <2>3. QED
    BY <1>2, <2>2 DEF OneRow, RowChange
<1>5. CASE RecoverRetire(j)
  <2>1. RecoveryStatus(j) \in Terminal /\ job[j].status \in Live
    BY <1>5 DEF RecoverRetire, Expired, RecoveryStatus, Terminal, Settled, Live
  <2>2. PICK r \in JobRow : r = Cleared(j)
    BY <1>1, ClearedType
  <2>3. /\ r.attempt = job[j].attempt /\ r.deadline = job[j].deadline
        /\ r.checkpoint = job[j].checkpoint /\ r.pending = NoUnit
    BY <1>1, <2>2 DEF Cleared, JobRow
  <2>4. job' = [job EXCEPT ![j] = Completed(j, r, RecoveryStatus(j))]
    BY <1>5, <2>2 DEF RecoverRetire
  <2>5. Ends(j)
    BY <1>1, <2>1, <2>3, <2>4, CompletedEnds
  <2>6. QED
    BY <1>2, <2>5 DEF OneRow, RowChange
<1>6. CASE RecoverRequeue(j)
  <2>1. PICK r \in JobRow : r = Cleared(j)
    BY <1>1, ClearedType
  <2>2. /\ r.attempt = job[j].attempt /\ r.deadline = job[j].deadline
        /\ r.checkpoint = job[j].checkpoint /\ r.pending = NoUnit /\ r.expires = job[j].expires
    BY <1>1, <2>1 DEF Cleared, JobRow
  <2>3. PICK due : due = now + RetryDelay(job[j].attempt)
    OBVIOUS
  <2>4. job' = [job EXCEPT ![j] = [r EXCEPT !.status = "queued", !.fence = Null,
                                            !.lease = Null, !.due = due]]
    BY <1>6, <2>1, <2>3 DEF RecoverRequeue
  <2>5. /\ job'[j].status = "queued" /\ job'[j].lease = Null /\ job'[j].pending = NoUnit
        /\ SameWork(j) /\ job'[j].expires = job[j].expires
    BY <1>1, <2>2, <2>4 DEF JobRow, SameWork
  <2>6. job[j].status = "running" /\ job[j].lease <= now
    BY <1>6 DEF RecoverRequeue, Expired
  <2>7. Returns(j)
    BY <2>5, <2>6 DEF Returns
  <2>8. QED
    BY <1>2, <2>7 DEF OneRow, RowChange
<1>7. QED
  BY <1>3, <1>4, <1>5, <1>6

\* What the owner of an attempt does to its row.
LEMMA WorkRow ==
    ASSUME TypeOK, FenceInv, NEW c \in attempts,
           \/ Stop(c) \/ Renew(c) \/ Save(c) \/ Succeed(c) \/ Fail(c)
           \/ \E u \in Units : BeginEffect(c, u) \/ RegisterEffect(c, u)
           \/ \E e \in DOMAIN effects : ConfirmEffect(c, e)
    PROVE  OneRow
<1>1. c.job \in Jobs /\ job \in [Jobs -> JobRow] /\ job[c.job] \in JobRow
  BY DEF TypeOK, AttemptRow
<1>2. CASE Stop(c) \/ Succeed(c) \/ Fail(c)
  <2>1. PICK status \in Terminal : Finish(c, status)
    BY <1>2 DEF Stop, Succeed, Fail, StopStatus, Terminal, Settled
  <2>2. QED
    BY <2>1, FinishEnds DEF OneRow, RowChange
<1>3. CASE Renew(c) \/ Save(c)
  <2>1. PICK data : Checkpoint(c, data)
    BY <1>3 DEF Renew, Save
  <2>2. PICK lease : lease = Earlier(now + LeaseTime, job[c.job].deadline)
    OBVIOUS
  <2>3. job' = [job EXCEPT ![c.job] = [job[c.job] EXCEPT !.checkpoint = data, !.lease = lease]]
    BY <1>1, <2>1, <2>2 DEF Checkpoint
  <2>4. /\ \A i \in Jobs \ {c.job} : job'[i] = job[i]
        /\ job'[c.job].attempt = job[c.job].attempt
        /\ job'[c.job].deadline = job[c.job].deadline
        /\ job'[c.job].status = job[c.job].status
        /\ job'[c.job].fence = job[c.job].fence
        /\ job'[c.job].expires = job[c.job].expires
        /\ job'[c.job].lease = lease
    BY <1>1, <2>3 DEF JobRow
  <2>5. job[c.job].status = "running" /\ now < job[c.job].lease /\ StopStatus(c.job) = "none"
    BY <2>1 DEF Checkpoint, Guarded, Owned
  <2>6. Works(c.job)
    BY <2>2, <2>4, <2>5 DEF Works
  <2>7. QED
    BY <2>4, <2>6 DEF OneRow, RowChange
<1>4. CASE \/ \E u \in Units : BeginEffect(c, u) \/ RegisterEffect(c, u)
           \/ \E e \in DOMAIN effects : ConfirmEffect(c, e)
  <2>1. PICK unit, data :
          job' = [job EXCEPT ![c.job] = [job[c.job] EXCEPT !.pending = unit, !.checkpoint = data]]
    <3>1. ASSUME NEW u, job' = [job EXCEPT ![c.job].pending = u]
          PROVE  job' = [job EXCEPT ![c.job] =
                            [job[c.job] EXCEPT !.pending = u, !.checkpoint = job[c.job].checkpoint]]
      BY <1>1, <3>1 DEF JobRow
    <3>2. ASSUME job' = [job EXCEPT ![c.job].pending = NoUnit, ![c.job].checkpoint = "ack"]
          PROVE  job' = [job EXCEPT ![c.job] =
                            [job[c.job] EXCEPT !.pending = NoUnit, !.checkpoint = "ack"]]
      BY <1>1, <3>2 DEF JobRow
    <3>3. QED
      BY <1>4, <3>1, <3>2 DEF BeginEffect, RegisterEffect, ConfirmEffect
  <2>2. /\ \A i \in Jobs \ {c.job} : job'[i] = job[i]
        /\ job'[c.job].attempt = job[c.job].attempt
        /\ job'[c.job].deadline = job[c.job].deadline
        /\ job'[c.job].status = job[c.job].status
        /\ job'[c.job].fence = job[c.job].fence
        /\ job'[c.job].expires = job[c.job].expires
        /\ job'[c.job].lease = job[c.job].lease
    BY <1>1, <2>1 DEF JobRow
  <2>3. job[c.job].status = "running" /\ now < job[c.job].lease /\ StopStatus(c.job) = "none"
    BY <1>4 DEF BeginEffect, RegisterEffect, ConfirmEffect, Guarded, Owned
  <2>4. Works(c.job)
    BY <2>2, <2>3 DEF Works
  <2>5. QED
    BY <2>2, <2>4 DEF OneRow, RowChange
<1>5. QED
  BY <1>2, <1>3, <1>4

LEMMA RowStep == EffectInv /\ [Next]_vars => OneRow
<1> SUFFICES ASSUME EffectInv, [Next]_vars PROVE OneRow
  OBVIOUS
<1>1. TypeOK /\ AbsentInv /\ FenceInv /\ job \in [Jobs -> JobRow]
  BY DEF EffectInv, TypeOK
<1>2. CASE job' = job
  BY <1>2 DEF OneRow
<1>3. CASE Admit
  BY <1>1, <1>3, AdmissionRow DEF Admit, AdmitProduct, AdmitCleanup, Jobs
<1>4. CASE Claim
  BY <1>1, <1>4, StartRow, RecoveryRow DEF Claim
<1>5. CASE Work
  <2>1. PICK c \in attempts :
          \/ Stop(c) \/ Renew(c) \/ Save(c) \/ Succeed(c) \/ Fail(c)
          \/ \E u \in Units : BeginEffect(c, u) \/ RegisterEffect(c, u)
          \/ \E e \in DOMAIN effects :
                ConfirmEffect(c, e) \/ AdmitEffect(c, e) \/ RecordAbort(c, e)
    BY <1>5 DEF Work
  <2>2. CASE \E e \in DOMAIN effects : AdmitEffect(c, e) \/ RecordAbort(c, e)
    BY <1>2, <2>2 DEF AdmitEffect, RecordAbort
  <2>3. QED
    BY <1>1, <2>1, <2>2, WorkRow
<1>6. ASSUME NEW j \in ProductJobs, RequestCancel(j) PROVE OneRow
  <2>1. j \in Jobs /\ job' = [job EXCEPT ![j] = [job[j] EXCEPT !.cancel = TRUE]]
    BY <1>6 DEF RequestCancel, Jobs
  <2>2. /\ \A i \in Jobs \ {j} : job'[i] = job[i]
        /\ SameWork(j) /\ SameOwner(j)
        /\ job'[j].pending = job[j].pending /\ job'[j].expires = job[j].expires
    BY <1>1, <2>1 DEF SameWork, SameOwner, JobRow
  <2>3. QED
    BY <2>2 DEF OneRow, RowChange, Accepted, SameOwner
<1>7. CASE Native \/ Tick \/ UNCHANGED vars
  BY <1>2, <1>7 DEF Native, EnterGate, AbortGate, Tick, vars
<1>8. CASE Environment
  BY <1>2, <1>6, <1>8 DEF Environment, AuthorityChanges, TargetChanges, PhysicallyComplete
<1>9. QED
  BY <1>3, <1>4, <1>5, <1>7, <1>8 DEF Next

\* A lease ends by the deadline, and a waiting job has nothing pending.
LeaseInv ==
    \A j \in Jobs :
        /\ job[j].lease <= job[j].deadline
        /\ job[j].status \in {"absent", "queued"} => job[j].pending = NoUnit

RowInv == EffectInv /\ LeaseInv /\ ReplayOutlivesWork

LEMMA RowInvStep == RowInv /\ [Next]_vars => RowInv'
<1> SUFFICES ASSUME RowInv, [Next]_vars PROVE RowInv'
  OBVIOUS
<1>1. EffectInv' /\ OneRow
  BY EffectStep, RowStep DEF RowInv
<1>2. TypeOK /\ TypeOK'
  BY <1>1 DEF RowInv, EffectInv
<1>3. LeaseInv'
  <2> SUFFICES ASSUME NEW j \in Jobs
               PROVE  /\ job'[j].lease <= job'[j].deadline
                      /\ job'[j].status \in {"absent", "queued"} => job'[j].pending = NoUnit
    BY DEF LeaseInv
  <2>1. /\ job[j].lease \in Nat /\ job[j].deadline \in Nat
        /\ job'[j].lease \in Nat /\ job'[j].deadline \in Nat /\ now \in Nat
    BY <1>2 DEF TypeOK, JobRow
  <2>2. /\ job[j].lease <= job[j].deadline
        /\ job[j].status \in {"absent", "queued"} => job[j].pending = NoUnit
    BY DEF RowInv, LeaseInv
  <2>3. CASE Works(j)
    BY <2>1, <2>2, <2>3, TimesAssumption DEF Works, Earlier
  <2>4. CASE Accepted(j)
    BY <2>2, <2>4 DEF Accepted, SameWork, SameOwner
  <2>5. CASE Ends(j)
    BY <2>1, <2>5 DEF Ends, Null, Terminal, Settled
  <2>6. CASE Starts(j)
    BY <2>6 DEF Starts
  <2>7. CASE Returns(j)
    BY <2>1, <2>7 DEF Returns, Null
  <2>8. QED
    BY <1>1, <2>2, <2>3, <2>4, <2>5, <2>6, <2>7 DEF OneRow, RowChange
<1>4. ReplayOutlivesWork'
  <2> SUFFICES ASSUME NEW j \in ProductJobs, job'[j].expires # Null
               PROVE  job'[j].status \in Settled /\ job'[j].pending = NoUnit
    BY DEF ReplayOutlivesWork
  <2>1. j \in Jobs /\ (job[j].expires # Null => job[j].status \in Settled /\ job[j].pending = NoUnit)
    BY DEF RowInv, ReplayOutlivesWork, Jobs
  <2>2. QED
    BY <1>1, <2>1
      DEF OneRow, RowChange, Accepted, SameOwner, Ends, Starts, Returns, Works, Settled
<1>5. QED
  BY <1>1, <1>3, <1>4 DEF RowInv

\* What each job's row says of itself holds in every reachable state: the owner
\* and lease of a running job, the deadline, and the retention of its replay
\* (start_attempt, renew, recover_in_transaction, finish).
THEOREM RowInvariant == Spec => []RowInv
<1>1. Init => RowInv
  <2> SUFFICES ASSUME Init PROVE RowInv
    OBVIOUS
  <2>1. TypeOK
    BY DEF Init, TypeOK, AbsentJob, JobRow, Statuses, Live, Terminal, Checkpoints, Null,
           MaxAttempts
  <2>2. effects = << >> /\ attempts = {} /\ \A j \in Jobs : job[j] = AbsentJob
    BY DEF Init
  <2>3. EffectInv
    BY <2>1, <2>2 DEF EffectInv, AbsentInv, FenceInv, GateInv, PinInv, CleanupInv
  <2>4. LeaseInv /\ ReplayOutlivesWork
    BY <2>2 DEF LeaseInv, ReplayOutlivesWork, AbsentJob, Null, Jobs
  <2>5. QED
    BY <2>3, <2>4 DEF RowInv
<1>2. QED
  BY <1>1, RowInvStep, PTL DEF Spec

\* The replay of an operation is kept while its job is live or its outcome
\* unknown, for any number of jobs (_complete's retention update).
THEOREM ReplaysAreKept == Spec => []ReplayOutlivesWork
<1>1. RowInv => ReplayOutlivesWork
  BY DEF RowInv
<1>2. QED
  BY <1>1, RowInvariant, PTL

\* The budget of the original work never grows, for any lease and work time
\* (start_attempt, renew).
THEOREM BudgetIsFixed == Spec => BudgetNeverGrows
<1>1. RowInv /\ RowInv' /\ [Next]_vars =>
        [\A j \in Jobs :
           /\ job[j].deadline # Null => job'[j].deadline = job[j].deadline
           /\ job'[j].lease <= job'[j].deadline]_vars
  <2> SUFFICES ASSUME RowInv, RowInv', [Next]_vars, NEW j \in Jobs
               PROVE  /\ job[j].deadline # Null => job'[j].deadline = job[j].deadline
                      /\ job'[j].lease <= job'[j].deadline
    OBVIOUS
  <2>1. OneRow
    BY RowStep DEF RowInv
  <2>2. job'[j].lease <= job'[j].deadline
    BY DEF RowInv, LeaseInv
  <2>3. QED
    BY <2>1, <2>2 DEF OneRow, RowChange, Accepted, SameWork, Ends, Starts, Returns, Works
<1>2. QED
  BY <1>1, RowInvariant, PTL DEF Spec, BudgetNeverGrows

\* A terminal outcome is left by nothing: not the status, nor what was saved for
\* it, nor the unit whose effect is in doubt, nor the replay's deadline.
OutcomesAreFinal ==
    [][\A j \in Jobs : job[j].status \in Terminal =>
         /\ job'[j].status = job[j].status /\ job'[j].attempt = job[j].attempt
         /\ job'[j].checkpoint = job[j].checkpoint /\ job'[j].pending = job[j].pending
         /\ job'[j].expires = job[j].expires]_vars

\* Whoever comes late, a worker with an old context, a recovery or a
\* cancellation, changes nothing of a job that is over (finish,
\* recover_in_transaction, request_cancellation).
THEOREM OutcomesStay == Spec => OutcomesAreFinal
<1>1. RowInv /\ [Next]_vars =>
        [\A j \in Jobs : job[j].status \in Terminal =>
           /\ job'[j].status = job[j].status /\ job'[j].attempt = job[j].attempt
           /\ job'[j].checkpoint = job[j].checkpoint /\ job'[j].pending = job[j].pending
           /\ job'[j].expires = job[j].expires]_vars
  <2> SUFFICES ASSUME RowInv, [Next]_vars, NEW j \in Jobs, job[j].status \in Terminal
               PROVE  /\ job'[j].status = job[j].status /\ job'[j].attempt = job[j].attempt
                      /\ job'[j].checkpoint = job[j].checkpoint
                      /\ job'[j].pending = job[j].pending /\ job'[j].expires = job[j].expires
    OBVIOUS
  <2>1. OneRow
    BY RowStep DEF RowInv
  <2>2. job[j].status \notin {"absent", "queued", "running"}
    BY DEF Terminal, Settled
  <2>3. QED
    BY <2>1, <2>2 DEF OneRow, RowChange, Accepted, SameWork, SameOwner, Ends, Starts, Returns,
                      Works, Live
<1>2. QED
  BY <1>1, RowInvariant, PTL DEF Spec, OutcomesAreFinal

\* The steps that change progress are those of the live owner, and the step that
\* takes a job from its owner waits for the end of the lease.
THEOREM LeaseIsDecisive == Spec => LeaseDecidesOwner
<1>1. RowInv /\ [Next]_vars =>
        [\A j \in Jobs : job[j].status = "running" =>
           /\ job[j].lease <= now =>
                 /\ job'[j].checkpoint = job[j].checkpoint
                 /\ job'[j].pending \in {job[j].pending, NoUnit}
                 /\ job'[j].status = "running" => job'[j].lease = job[j].lease
           /\ now < job[j].lease =>
                 /\ job'[j].status # "queued"
                 /\ job'[j].attempt = job[j].attempt
                 /\ job'[j].status = "running" => job'[j].fence = job[j].fence]_vars
  <2> SUFFICES ASSUME RowInv, [Next]_vars, NEW j \in Jobs, job[j].status = "running"
               PROVE  /\ job[j].lease <= now =>
                            /\ job'[j].checkpoint = job[j].checkpoint
                            /\ job'[j].pending \in {job[j].pending, NoUnit}
                            /\ job'[j].status = "running" => job'[j].lease = job[j].lease
                      /\ now < job[j].lease =>
                            /\ job'[j].status # "queued"
                            /\ job'[j].attempt = job[j].attempt
                            /\ job'[j].status = "running" => job'[j].fence = job[j].fence
    OBVIOUS
  <2>1. OneRow /\ now \in Nat /\ job[j].lease \in Nat
    BY RowStep DEF RowInv, EffectInv, TypeOK, JobRow
  <2>2. CASE job'[j] = job[j]
    BY <2>2
  <2>3. CASE Accepted(j)
    BY <2>3 DEF Accepted, SameWork, SameOwner
  <2>4. CASE Ends(j)
    BY <2>4 DEF Ends, SameWork, Terminal, Settled
  <2>5. CASE Starts(j)
    BY <2>5 DEF Starts
  <2>6. CASE Returns(j)
    BY <2>1, <2>6 DEF Returns, SameWork
  <2>7. CASE Works(j)
    BY <2>1, <2>7 DEF Works
  <2>8. QED
    BY <2>1, <2>2, <2>3, <2>4, <2>5, <2>6, <2>7 DEF OneRow, RowChange
<1>2. QED
  BY <1>1, RowInvariant, PTL DEF Spec, LeaseDecidesOwner

-----------------------------------------------------------------------------
(***************************************************************************)
(* The effects and the history: what one step can do to a declared unit,   *)
(* and which attempts it opens and ends.                                   *)
(***************************************************************************)

\* Row e of the effects after the step: confirmed only while its unit is
\* cleared, consumed only when its attempt ends, admitted only if its job is
\* not to stop.
EffectChange(e) ==
    /\ e \in DOMAIN effects'
    /\ SameEffect(effects'[e], effects[e])
    /\ effects'[e].confirmed # effects[e].confirmed => job'[effects[e].job].pending = NoUnit
    /\ effects'[e].stage = "consumed" /\ effects[e].stage # "consumed" =>
           job'[effects[e].job].status # "running"
    /\ effects[e].stage = "registered" /\ effects'[e].stage # "registered" =>
           StopStatus(effects[e].job) = "none"

\* A unit that was not pending before belongs to a new effect of the owner.
Declared(j) ==
    \E e \in DOMAIN effects' :
        /\ effects'[e].job = j
        /\ effects'[e].fence = job'[j].fence
        /\ effects'[e].unit = job'[j].pending
        /\ ~effects'[e].confirmed
        /\ effects'[e].stage # "consumed"

EffectChanges ==
    /\ \A e \in DOMAIN effects : EffectChange(e)
    /\ \A j \in Jobs : job'[j].pending \in {job[j].pending, NoUnit} \/ Declared(j)

\* Declaring a unit appends its row and names it in the job.
LEMMA DeclareChange ==
    ASSUME EffectInv, NEW c \in attempts, NEW u \in Units,
           NEW stage \in {"direct", "registered"}, NEW gate,
           Owned(c), job' = [job EXCEPT ![c.job].pending = u],
           effects' = Append(effects, NewEffect(c, u, stage, gate))
    PROVE  EffectChanges
<1>1. /\ c.job \in Jobs /\ job \in [Jobs -> JobRow] /\ job[c.job] \in JobRow
      /\ effects \in Seq(EffectRow)
  BY DEF EffectInv, TypeOK, AttemptRow
<1>2. PICK f : /\ f = NewEffect(c, u, stage, gate)
               /\ f.stage = stage /\ f.job = c.job /\ f.fence = c.fence
               /\ f.unit = u /\ f.confirmed = FALSE
  BY DEF NewEffect
<1>3. /\ DOMAIN effects' = DOMAIN effects \cup {Len(effects) + 1}
      /\ \A e \in DOMAIN effects : effects'[e] = effects[e]
      /\ effects'[Len(effects) + 1] = f
  BY <1>1, <1>2, AppendFacts
<1>4. /\ \A j \in Jobs \ {c.job} : job'[j] = job[j]
      /\ job'[c.job].pending = u /\ job'[c.job].fence = c.fence
  BY <1>1 DEF Owned, JobRow
<1>5. Declared(c.job)
  BY <1>2, <1>3, <1>4 DEF Declared
<1>6. \A e \in DOMAIN effects : EffectChange(e)
  BY <1>3 DEF EffectChange, SameEffect
<1>7. QED
  BY <1>4, <1>5, <1>6 DEF EffectChanges

\* An attempt that is proved undispatched and used up belongs to the job that
\* leaves its running state.
LEMMA ConsumeChange ==
    ASSUME EffectInv, NEW j \in Jobs, RecoverRetire(j) \/ RecoverRequeue(j)
    PROVE  \A e \in DOMAIN effects : EffectChange(e)
<1>1. job \in [Jobs -> JobRow] /\ job[j] \in JobRow /\ effects \in Seq(EffectRow)
  BY DEF EffectInv, TypeOK
<1>2. /\ DOMAIN effects' = DOMAIN effects
      /\ \A e \in DOMAIN effects :
            \/ effects'[e] = effects[e]
            \/ e \in AbortProofs(j) /\ effects'[e] = [effects[e] EXCEPT !.stage = "consumed"]
  BY DEF RecoverRetire, RecoverRequeue, Consume
<1>3. job'[j].status # "running"
  <2>1. CASE RecoverRetire(j)
    <3>1. PICK r \in JobRow : r = Cleared(j)
      BY <1>1, ClearedType
    <3>2. job'[j] = Completed(j, r, RecoveryStatus(j))
      BY <1>1, <2>1, <3>1 DEF RecoverRetire
    <3>3. job'[j].status = RecoveryStatus(j)
      BY <3>2, CompletedFacts
    <3>4. QED
      BY <3>3 DEF RecoveryStatus
  <2>2. CASE RecoverRequeue(j)
    <3>1. PICK r \in JobRow : r = Cleared(j)
      BY <1>1, ClearedType
    <3>2. PICK due : due = now + RetryDelay(job[j].attempt)
      OBVIOUS
    <3>3. job'[j] = [r EXCEPT !.status = "queued", !.fence = Null, !.lease = Null, !.due = due]
      BY <1>1, <2>2, <3>1, <3>2 DEF RecoverRequeue
    <3>4. QED
      BY <3>3 DEF JobRow
  <2>3. QED
    BY <2>1, <2>2
<1>4. SUFFICES ASSUME NEW e \in DOMAIN effects, e \in AbortProofs(j),
                      effects'[e] = [effects[e] EXCEPT !.stage = "consumed"]
               PROVE  EffectChange(e)
  BY <1>2 DEF EffectChange, SameEffect
<1>5. effects[e].stage = "aborted" /\ effects[e].job = j /\ effects[e] \in EffectRow
  BY <1>1, <1>4 DEF AbortProofs
<1>6. SameEffect(effects'[e], effects[e]) /\ effects'[e].confirmed = effects[e].confirmed
  BY <1>4, <1>5 DEF SameEffect, EffectRow
<1>7. QED
  BY <1>2, <1>3, <1>5, <1>6 DEF EffectChange

\* A confirmation clears the unit of the job whose effect it confirms.
LEMMA ConfirmChange ==
    ASSUME EffectInv, NEW c \in attempts, NEW e \in DOMAIN effects, ConfirmEffect(c, e)
    PROVE  EffectChanges
<1>1. /\ c.job \in Jobs /\ job \in [Jobs -> JobRow] /\ effects \in Seq(EffectRow)
      /\ effects[e] \in EffectRow /\ job[c.job] \in JobRow
  BY DEF EffectInv, TypeOK, AttemptRow
<1>2. effects[e].job = c.job
  BY DEF ConfirmEffect, EffectInv, FenceInv
<1>3. /\ DOMAIN effects' = DOMAIN effects
      /\ \A d \in DOMAIN effects \ {e} : effects'[d] = effects[d]
      /\ SameEffect(effects'[e], effects[e]) /\ effects'[e].stage = effects[e].stage
  BY <1>1 DEF ConfirmEffect, EffectRow, SameEffect
<1>4. /\ \A j \in Jobs \ {c.job} : job'[j] = job[j]
      /\ job'[c.job].pending = NoUnit
  BY <1>1 DEF ConfirmEffect, JobRow
<1>5. QED
  BY <1>2, <1>3, <1>4 DEF EffectChanges, EffectChange, SameEffect

\* Of the steps that move an effect through its stages and its gate, only its
\* admission leaves "registered", and the owner makes it.
LEMMA ObserveChange ==
    ASSUME EffectInv, NEW e \in DOMAIN effects,
           \/ \E c \in attempts : AdmitEffect(c, e) \/ RecordAbort(c, e)
           \/ EnterGate(e) \/ AbortGate(e)
    PROVE  EffectChanges
<1>1. effects \in Seq(EffectRow) /\ effects[e] \in EffectRow
  BY DEF EffectInv, TypeOK
<1>2. job' = job
  BY DEF AdmitEffect, RecordAbort, EnterGate, AbortGate
<1>3. ASSUME NEW stage, NEW gate,
             effects' = [effects EXCEPT ![e] = [effects[e] EXCEPT !.stage = stage, !.gate = gate]],
             stage # "consumed" \/ stage = effects[e].stage,
             effects[e].stage = "registered" /\ stage # "registered" =>
                 StopStatus(effects[e].job) = "none"
      PROVE  EffectChanges
  <2>1. /\ DOMAIN effects' = DOMAIN effects
        /\ \A d \in DOMAIN effects \ {e} : effects'[d] = effects[d]
        /\ SameEffect(effects'[e], effects[e]) /\ effects'[e].stage = stage
        /\ effects'[e].confirmed = effects[e].confirmed
    BY <1>1, <1>3 DEF EffectRow, SameEffect
  <2>2. QED
    BY <1>2, <1>3, <2>1 DEF EffectChanges, EffectChange, SameEffect
<1>4. ASSUME NEW c \in attempts, AdmitEffect(c, e) PROVE EffectChanges
  <2> DEFINE stage == "admitted"
             gate == "waiting"
  <2>1. effects' = [effects EXCEPT ![e] = [effects[e] EXCEPT !.stage = stage, !.gate = gate]]
    BY <1>1, <1>4 DEF AdmitEffect, EffectRow
  <2>2. effects[e].job = c.job
    BY <1>4 DEF AdmitEffect, Observable, EffectInv, FenceInv
  <2>3. StopStatus(effects[e].job) = "none"
    BY <1>4, <2>2 DEF AdmitEffect, Observable, Guarded
  <2>4. stage # "consumed"
    OBVIOUS
  <2> HIDE DEF stage, gate
  <2>5. QED
    BY <1>3, <2>1, <2>3, <2>4
<1>5. ASSUME NEW c \in attempts, RecordAbort(c, e) PROVE EffectChanges
  <2> DEFINE stage == "aborted"
  <2>1. effects' = [effects EXCEPT ![e] = [effects[e] EXCEPT !.stage = stage, !.gate = effects[e].gate]]
    BY <1>1, <1>5 DEF RecordAbort, EffectRow
  <2>2. effects[e].stage = "admitted"
    BY <1>5 DEF RecordAbort
  <2>3. stage # "consumed"
    OBVIOUS
  <2> HIDE DEF stage
  <2>4. QED
    BY <1>3, <2>1, <2>2, <2>3
<1>6. CASE EnterGate(e)
  <2>1. effects' = [effects EXCEPT ![e] = [effects[e] EXCEPT !.stage = effects[e].stage, !.gate = "entered"]]
    BY <1>1, <1>6 DEF EnterGate, EffectRow
  <2>2. QED
    BY <1>3, <2>1
<1>7. CASE AbortGate(e)
  <2>1. effects' = [effects EXCEPT ![e] = [effects[e] EXCEPT !.stage = effects[e].stage, !.gate = "aborted"]]
    BY <1>1, <1>7 DEF AbortGate, EffectRow
  <2>2. QED
    BY <1>3, <2>1
<1>8. QED
  BY <1>4, <1>5, <1>6, <1>7

\* A step that leaves the effects alone declares nothing.
LEMMA QuietChange ==
    ASSUME effects' = effects, \A j \in Jobs : job'[j].pending \in {job[j].pending, NoUnit}
    PROVE  EffectChanges
  BY DEF EffectChanges, EffectChange, SameEffect

LEMMA EffectChangeStep == EffectInv /\ [Next]_vars => EffectChanges
<1> SUFFICES ASSUME EffectInv, [Next]_vars PROVE EffectChanges
  OBVIOUS
<1>1. TypeOK /\ AbsentInv /\ FenceInv /\ job \in [Jobs -> JobRow]
  BY DEF EffectInv, TypeOK
<1>2. CASE UNCHANGED <<job, effects>>
  BY <1>2, QuietChange
<1>3. CASE Admit
  <2>1. \A j \in Jobs : job'[j].pending \in {job[j].pending, NoUnit}
    <3>1. PICK j, due : j \in Jobs /\ job' = [job EXCEPT ![j] = QueuedRow(due)]
      BY <1>3 DEF Admit, AdmitProduct, AdmitCleanup, Jobs
    <3>2. QueuedRow(due).pending = NoUnit
      BY DEF QueuedRow, AbsentJob
    <3>3. QED
      BY <1>1, <3>1, <3>2
  <2>2. QED
    BY <1>3, <2>1, QuietChange DEF Admit, AdmitProduct, AdmitCleanup
<1>4. ASSUME NEW j \in Jobs,
             ClaimRetire(j) \/ ClaimStart(j) \/ RecoverUnknown(j) \/ RecoverRetire(j) \/ RecoverRequeue(j)
      PROVE  EffectChanges
  <2>1. \A i \in Jobs : job'[i].pending \in {job[i].pending, NoUnit}
    <3>1. \A i \in Jobs \ {j} : job'[i] = job[i]
      BY <1>1, <1>4 DEF ClaimRetire, ClaimStart, RecoverUnknown, RecoverRetire, RecoverRequeue
    <3>2. job[j].status \in {"queued", "running"} /\ (job'[j] = job[j] \/ RowChange(j))
      BY <1>1, <1>4, StartRow, RecoveryRow
        DEF OneRow, ClaimRetire, ClaimStart, RecoverUnknown, RecoverRetire, RecoverRequeue, Expired
    <3>3. CASE Works(j)
      <4>1. job'[j].status = "running" /\ job[j].status = "running" /\ now < job[j].lease
        BY <3>3 DEF Works
      <4>2. RecoverUnknown(j) \/ RecoverRetire(j) \/ RecoverRequeue(j)
        BY <1>4, <4>1 DEF ClaimRetire, ClaimStart
      <4>3. now \in Nat /\ job[j].lease \in Nat /\ job[j].lease <= now
        BY <1>1, <4>2 DEF RecoverUnknown, RecoverRetire, RecoverRequeue, Expired, TypeOK, JobRow
      <4>4. QED
        BY <4>1, <4>3
    <3>4. QED
      BY <3>1, <3>2, <3>3 DEF RowChange, Accepted, Ends, Starts, Returns
  <2>2. CASE RecoverRetire(j) \/ RecoverRequeue(j)
    BY <2>1, <2>2, ConsumeChange DEF EffectChanges
  <2>3. CASE ClaimRetire(j) \/ ClaimStart(j) \/ RecoverUnknown(j)
    BY <2>1, <2>3, QuietChange DEF ClaimRetire, ClaimStart, RecoverUnknown
  <2>4. QED
    BY <1>4, <2>2, <2>3
<1>5. ASSUME NEW c \in attempts, Stop(c) \/ Succeed(c) \/ Fail(c) PROVE EffectChanges
  <2>1. PICK status \in Terminal : Finish(c, status)
    BY <1>5 DEF Stop, Succeed, Fail, StopStatus, Terminal, Settled
  <2>2. \A j \in Jobs : job'[j].pending \in {job[j].pending, NoUnit}
    BY <1>1, <2>1, FinishEnds DEF Ends
  <2>3. QED
    BY <1>5, <2>2, QuietChange DEF Stop, Succeed, Fail
<1>6. ASSUME NEW c \in attempts, Renew(c) \/ Save(c) PROVE EffectChanges
  <2>1. \A j \in Jobs : job'[j].pending = job[j].pending
    BY <1>1, <1>6 DEF Renew, Save, Checkpoint, JobRow
  <2>2. effects' = effects
    BY <1>6 DEF Renew, Save, Checkpoint
  <2>3. QED
    BY <2>1, <2>2, QuietChange
<1>7. ASSUME NEW c \in attempts, NEW u \in Units, BeginEffect(c, u) \/ RegisterEffect(c, u)
      PROVE  EffectChanges
  BY <1>7, DeclareChange DEF BeginEffect, RegisterEffect, Guarded
<1>8. CASE Claim
  BY <1>4, <1>8 DEF Claim
<1>9. CASE Work
  BY <1>5, <1>6, <1>7, <1>9, ConfirmChange, ObserveChange DEF Work
<1>10. CASE Native
  BY <1>10, ObserveChange DEF Native
<1>11. ASSUME NEW j \in ProductJobs, RequestCancel(j) PROVE EffectChanges
  <2>1. \A i \in Jobs : job'[i].pending = job[i].pending
    BY <1>1, <1>11 DEF RequestCancel, JobRow
  <2>2. QED
    BY <1>11, <2>1, QuietChange DEF RequestCancel
<1>12. CASE Environment
  BY <1>2, <1>11, <1>12 DEF Environment, AuthorityChanges, TargetChanges, PhysicallyComplete
<1>13. CASE Tick \/ UNCHANGED vars
  BY <1>2, <1>13 DEF Tick, vars
<1>14. QED
  BY <1>3, <1>8, <1>9, <1>10, <1>12, <1>13 DEF Next

\* Whatever a stale or stopped worker tries, canceled or unauthorized product
\* work starts nothing, declares nothing and saves nothing (the checkpoint guard).
THEOREM StoppedWorkStays == Spec => StoppedWorkIsInert
<1>1. RowInv /\ [Next]_vars =>
        [\A j \in ProductJobs :
           job[j].cancel \/ ~authority[j] =>
              /\ job'[j].attempt = job[j].attempt
              /\ job'[j].checkpoint = job[j].checkpoint
              /\ job'[j].pending \in {job[j].pending, NoUnit}
              /\ \A e \in DOMAIN effects :
                    effects[e].job = j /\ effects[e].stage = "registered" =>
                        effects'[e].stage = "registered"]_vars
  <2> SUFFICES ASSUME RowInv, [Next]_vars, NEW j \in ProductJobs, job[j].cancel \/ ~authority[j]
               PROVE  /\ job'[j].attempt = job[j].attempt
                      /\ job'[j].checkpoint = job[j].checkpoint
                      /\ job'[j].pending \in {job[j].pending, NoUnit}
                      /\ \A e \in DOMAIN effects :
                            effects[e].job = j /\ effects[e].stage = "registered" =>
                                effects'[e].stage = "registered"
    OBVIOUS
  <2>1. OneRow /\ EffectChanges /\ j \in Jobs
    BY RowStep, EffectChangeStep DEF RowInv, Jobs
  <2>2. StopStatus(j) # "none"
    BY DEF StopStatus
  <2>3. job'[j] = job[j] \/ Accepted(j) \/ Ends(j) \/ Returns(j)
    BY <2>1, <2>2 DEF OneRow, RowChange, Starts, Works
  <2>4. QED
    BY <2>1, <2>2, <2>3
      DEF EffectChanges, EffectChange, Accepted, Ends, Returns, SameWork
<1>2. QED
  BY <1>1, RowInvariant, PTL DEF Spec, StoppedWorkIsInert

\* A row that is running after the step was running before it under the same
\* fence, or is started by it.
LEMMA OwnerStep ==
    ASSUME RowInv, PendingBelongsToOwner, [Next]_vars
    PROVE  PendingBelongsToOwner'
<1> SUFFICES ASSUME NEW j \in Jobs, job'[j].status = "running", job'[j].pending # NoUnit
             PROVE  Declared(j)
  BY DEF PendingBelongsToOwner, Declared
<1>1. OneRow /\ EffectChanges
  BY RowStep, EffectChangeStep DEF RowInv
<1>2. CASE Starts(j)
  BY <1>2 DEF RowInv, LeaseInv, Starts
<1>3. CASE job'[j].pending = job[j].pending /\ job'[j].fence = job[j].fence
           /\ job[j].status = "running"
  <2>1. PICK e \in DOMAIN effects :
          /\ effects[e].job = j /\ effects[e].fence = job[j].fence
          /\ effects[e].unit = job[j].pending
          /\ ~effects[e].confirmed /\ effects[e].stage # "consumed"
    BY <1>3 DEF PendingBelongsToOwner
  <2>2. EffectChange(e)
    BY <1>1 DEF EffectChanges
  <2>3. /\ e \in DOMAIN effects' /\ SameEffect(effects'[e], effects[e])
        /\ ~effects'[e].confirmed /\ effects'[e].stage # "consumed"
    BY <2>1, <2>2 DEF EffectChange
  <2>4. QED
    BY <1>3, <2>1, <2>3 DEF Declared, SameEffect
<1>4. CASE job'[j].pending # job[j].pending
  BY <1>1, <1>4 DEF EffectChanges
<1>5. Starts(j) \/ (job'[j].fence = job[j].fence /\ job[j].status = "running")
  BY <1>1 DEF OneRow, RowChange, Accepted, SameOwner, Ends, Returns, Works, Terminal, Settled
<1>6. QED
  BY <1>2, <1>3, <1>4, <1>5

\* For any number of workers and late calls, the pending unit of a running job
\* was declared by the attempt that owns it (_owned_row).
THEOREM OwnersPendingUnit == Spec => []PendingBelongsToOwner
<1>1. Init => PendingBelongsToOwner
  BY DEF Init, PendingBelongsToOwner, AbsentJob
<1>2. QED
  BY <1>1, OwnerStep, RowInvariant, PTL DEF Spec

\* The open rows of the history and the running rows of the queue name each
\* other.
HistoryInv ==
    /\ \A a \in attempts : a.open =>
          /\ job[a.job].status = "running"
          /\ job[a.job].fence = a.fence /\ job[a.job].attempt = a.number
    /\ \A j \in Jobs : job[j].status = "running" =>
          \E a \in attempts : /\ a.open /\ a.job = j
                             /\ a.fence = job[j].fence /\ a.number = job[j].attempt

\* The step leaves every running job with its owner and starts none.
SameRunning ==
    \A j \in Jobs :
        /\ job'[j].status = "running" <=> job[j].status = "running"
        /\ job[j].status = "running" =>
               job'[j].fence = job[j].fence /\ job'[j].attempt = job[j].attempt

LEMMA SameHistory ==
    ASSUME TypeOK, HistoryInv, SameRunning, attempts' = attempts
    PROVE  HistoryInv'
<1>1. \A a \in attempts : a.job \in Jobs
  BY DEF TypeOK, AttemptRow
<1>2. QED
  BY <1>1 DEF HistoryInv, SameRunning

\* Ending the attempt of a job that stops running closes its row and no other.
LEMMA EndedHistory ==
    ASSUME EffectInv, HistoryInv, NEW j \in Jobs,
           job[j].status = "running", job'[j].status # "running",
           \A i \in Jobs \ {j} : job'[i] = job[i],
           attempts' = Ended(attempts, job[j].fence)
    PROVE  HistoryInv'
<1>1. attempts \subseteq AttemptRow /\ \A a \in attempts : a.job \in Jobs
  BY DEF EffectInv, TypeOK, AttemptRow
<1>2. PICK b \in attempts : b.open /\ b.job = j /\ b.fence = job[j].fence
  BY DEF HistoryInv
<1>3. ASSUME NEW a \in attempts', a.open
      PROVE  /\ job'[a.job].status = "running"
             /\ job'[a.job].fence = a.fence /\ job'[a.job].attempt = a.number
  <2>1. a \in attempts /\ a.fence # job[j].fence
    BY <1>1, <1>3 DEF Ended, AttemptRow
  <2>2. a.job # j
    BY <1>3, <2>1 DEF HistoryInv
  <2>3. QED
    BY <1>1, <1>3, <2>1, <2>2 DEF HistoryInv
<1>4. ASSUME NEW i \in Jobs, job'[i].status = "running"
      PROVE  \E a \in attempts' : /\ a.open /\ a.job = i
                                  /\ a.fence = job'[i].fence /\ a.number = job'[i].attempt
  <2>1. i # j /\ job'[i] = job[i]
    BY <1>4
  <2>2. PICK a \in attempts : /\ a.open /\ a.job = i
                              /\ a.fence = job[i].fence /\ a.number = job[i].attempt
    BY <1>4, <2>1 DEF HistoryInv
  <2>3. a.fence # job[j].fence
    BY <1>2, <2>1, <2>2 DEF EffectInv, FenceInv
  <2>4. a \in attempts'
    BY <2>2, <2>3 DEF Ended
  <2>5. QED
    BY <2>1, <2>2, <2>4
<1>5. QED
  BY <1>3, <1>4 DEF HistoryInv

\* A new attempt opens one row, of a job that had none open.
LEMMA StartedHistory ==
    ASSUME EffectInv, HistoryInv, NEW j \in Jobs, ClaimStart(j)
    PROVE  HistoryInv'
<1>1. /\ job \in [Jobs -> JobRow] /\ job[j] \in JobRow /\ issued \in Nat
      /\ \A a \in attempts : a.job \in Jobs
  BY DEF EffectInv, TypeOK, AttemptRow
<1>2. PICK d, lease : d = DeadlineOf(job[j]) /\ lease = Earlier(now + LeaseTime, d)
  OBVIOUS
<1>3. job' = [job EXCEPT ![j] = [job[j] EXCEPT !.status = "running", !.attempt = job[j].attempt + 1,
                                 !.fence = issued + 1, !.deadline = d, !.lease = lease]]
  BY <1>1, <1>2 DEF ClaimStart
<1>4. /\ \A i \in Jobs \ {j} : job'[i] = job[i]
      /\ job'[j].fence = issued + 1 /\ job'[j].attempt = job[j].attempt + 1
      /\ job'[j].status = "running"
  BY <1>1, <1>3 DEF JobRow
<1>5. PICK context : /\ attempts' = attempts \cup {context}
                     /\ context.job = j /\ context.number = job[j].attempt + 1
                     /\ context.fence = issued + 1 /\ context.open
  <2> DEFINE context == [job |-> j, number |-> job[j].attempt + 1, fence |-> issued + 1,
                         deadline |-> DeadlineOf(job[j]), open |-> TRUE]
  <2>1. attempts' = attempts \cup {context}
    BY DEF ClaimStart
  <2>2. /\ context.job = j /\ context.number = job[j].attempt + 1
        /\ context.fence = issued + 1 /\ context.open
    OBVIOUS
  <2> HIDE DEF context
  <2>3. QED
    BY <2>1, <2>2
<1>6. job[j].status = "queued"
  BY DEF ClaimStart
<1>7. \A a \in attempts : a.open => a.job # j
  BY <1>6 DEF HistoryInv
<1>8. \A a \in attempts' : a.open =>
        /\ job'[a.job].status = "running"
        /\ job'[a.job].fence = a.fence /\ job'[a.job].attempt = a.number
  BY <1>1, <1>4, <1>5, <1>7 DEF HistoryInv
<1>9. \A i \in Jobs : job'[i].status = "running" =>
        \E a \in attempts' : /\ a.open /\ a.job = i
                             /\ a.fence = job'[i].fence /\ a.number = job'[i].attempt
  BY <1>4, <1>5 DEF HistoryInv
<1>10. QED
  BY <1>8, <1>9 DEF HistoryInv

LEMMA HistoryStep ==
    ASSUME RowInv, HistoryInv, [Next]_vars
    PROVE  HistoryInv'
<1>1. /\ EffectInv /\ TypeOK /\ OneRow /\ job \in [Jobs -> JobRow]
      /\ now \in Nat /\ \A j \in Jobs : job[j].lease \in Nat
  BY RowStep DEF RowInv, EffectInv, TypeOK, JobRow
<1>2. CASE job' = job /\ attempts' = attempts
  BY <1>1, <1>2, SameHistory DEF SameRunning
<1>3. CASE Admit
  <2>1. PICK j, due : j \in Jobs /\ job' = [job EXCEPT ![j] = QueuedRow(due)] /\ job[j].status = "absent"
    BY <1>3 DEF Admit, AdmitProduct, AdmitCleanup, Jobs
  <2>2. SameRunning /\ attempts' = attempts
    BY <1>1, <1>3, <2>1 DEF SameRunning, QueuedRow, AbsentJob, Admit, AdmitProduct, AdmitCleanup
  <2>3. QED
    BY <1>1, <2>2, SameHistory
<1>4. ASSUME NEW j \in Jobs, ClaimRetire(j) PROVE HistoryInv'
  <2>1. PICK row : row = Completed(j, job[j], RetireStatus(j)) /\ row.status = RetireStatus(j)
    BY <1>1, CompletedFacts
  <2>2. job' = [job EXCEPT ![j] = row] /\ job[j].status = "queued" /\ attempts' = attempts
    BY <1>4, <2>1 DEF ClaimRetire
  <2>3. row.status # "running"
    BY <2>1 DEF RetireStatus
  <2>4. SameRunning
    BY <1>1, <2>2, <2>3 DEF SameRunning
  <2>5. QED
    BY <1>1, <2>2, <2>4, SameHistory
<1>5. ASSUME NEW j \in Jobs, RecoverUnknown(j) \/ RecoverRetire(j) \/ RecoverRequeue(j)
      PROVE  HistoryInv'
  <2>1. job[j].status = "running" /\ ~(now < job[j].lease)
    BY <1>1, <1>5 DEF RecoverUnknown, RecoverRetire, RecoverRequeue, Expired
  <2>2. \A i \in Jobs \ {j} : job'[i] = job[i]
    BY <1>1, <1>5 DEF RecoverUnknown, RecoverRetire, RecoverRequeue
  <2>3. job'[j].status # "running"
    <3>1. CASE RecoverUnknown(j)
      <4>1. Completed(j, job[j], "recovery_required").status = "recovery_required"
        BY <1>1, CompletedFacts
      <4>2. QED
        BY <1>1, <3>1, <4>1 DEF RecoverUnknown
    <3>2. CASE RecoverRetire(j)
      <4>1. PICK r \in JobRow : r = Cleared(j)
        BY <1>1, ClearedType
      <4>2. job'[j] = Completed(j, r, RecoveryStatus(j))
        BY <1>1, <3>2, <4>1 DEF RecoverRetire
      <4>3. job'[j].status = RecoveryStatus(j)
        BY <4>2, CompletedFacts
      <4>4. QED
        BY <4>3 DEF RecoveryStatus
    <3>3. CASE RecoverRequeue(j)
      <4>1. PICK r \in JobRow : r = Cleared(j)
        BY <1>1, ClearedType
      <4>2. PICK due : due = now + RetryDelay(job[j].attempt)
        OBVIOUS
      <4>3. job'[j] = [r EXCEPT !.status = "queued", !.fence = Null, !.lease = Null, !.due = due]
        BY <1>1, <3>3, <4>1, <4>2 DEF RecoverRequeue
      <4>4. QED
        BY <4>3 DEF JobRow
    <3>4. QED
      BY <1>5, <3>1, <3>2, <3>3
  <2>4. attempts' = Ended(attempts, job[j].fence)
    BY <1>5 DEF RecoverUnknown, RecoverRetire, RecoverRequeue
  <2>5. QED
    BY <1>1, <2>1, <2>2, <2>3, <2>4, EndedHistory
<1>6. ASSUME NEW c \in attempts, Stop(c) \/ Succeed(c) \/ Fail(c) PROVE HistoryInv'
  <2>1. PICK status \in Terminal : Finish(c, status)
    BY <1>6 DEF Stop, Succeed, Fail, StopStatus, Terminal, Settled
  <2>2. /\ c.job \in Jobs /\ Ends(c.job)
        /\ \A j \in Jobs \ {c.job} : job'[j] = job[j]
    BY <1>1, <2>1, FinishEnds
  <2>3. job[c.job].status = "running" /\ job[c.job].fence = c.fence
        /\ attempts' = Ended(attempts, c.fence)
    BY <2>1 DEF Finish, Owned
  <2>4. job'[c.job].status # "running"
    BY <2>2 DEF Ends, Terminal, Settled
  <2>5. QED
    BY <1>1, <2>2, <2>3, <2>4, EndedHistory
<1>7. ASSUME attempts' = attempts, \A j \in Jobs : job'[j] = job[j] \/ Accepted(j) \/ Works(j)
      PROVE  HistoryInv'
  <2>1. SameRunning
    BY <1>7 DEF SameRunning, Accepted, SameWork, SameOwner, Works
  <2>2. QED
    BY <1>1, <1>7, <2>1, SameHistory
<1>8. ASSUME NEW c \in attempts,
             \/ Renew(c) \/ Save(c)
             \/ \E u \in Units : BeginEffect(c, u) \/ RegisterEffect(c, u)
             \/ \E e \in DOMAIN effects : ConfirmEffect(c, e)
      PROVE  HistoryInv'
  <2>1. c.job \in Jobs /\ job[c.job] \in JobRow
    BY <1>1 DEF TypeOK, AttemptRow
  <2>2. Owned(c)
    BY <1>8 DEF Renew, Save, Checkpoint, BeginEffect, RegisterEffect, ConfirmEffect, Guarded
  <2>3. /\ \A j \in Jobs \ {c.job} : job'[j] = job[j]
        /\ job'[c.job].status = job[c.job].status
    <3>1. CASE Renew(c) \/ Save(c)
      BY <1>1, <2>1, <3>1 DEF Renew, Save, Checkpoint, JobRow
    <3>2. CASE \E u \in Units : BeginEffect(c, u) \/ RegisterEffect(c, u)
      BY <1>1, <2>1, <3>2 DEF BeginEffect, RegisterEffect, JobRow
    <3>3. CASE \E e \in DOMAIN effects : ConfirmEffect(c, e)
      BY <1>1, <2>1, <3>3 DEF ConfirmEffect, JobRow
    <3>4. QED
      BY <1>8, <3>1, <3>2, <3>3
  <2>4. attempts' = attempts
    BY <1>8 DEF Renew, Save, Checkpoint, BeginEffect, RegisterEffect, ConfirmEffect
  <2>5. \A j \in Jobs : job'[j] = job[j] \/ Accepted(j) \/ Works(j)
    BY <1>1, <2>2, <2>3 DEF Owned, OneRow, RowChange, Ends, Starts, Returns, Terminal, Settled
  <2>6. QED
    BY <1>7, <2>4, <2>5
<1>9. CASE Claim
  BY <1>1, <1>4, <1>5, <1>9, StartedHistory DEF Claim
<1>10. CASE Work
  BY <1>2, <1>6, <1>8, <1>10 DEF Work, AdmitEffect, RecordAbort
<1>11. ASSUME NEW j \in ProductJobs, RequestCancel(j) PROVE HistoryInv'
  <2>1. j \in Jobs /\ job[j] \in JobRow
    BY <1>1 DEF Jobs
  <2>2. /\ \A i \in Jobs \ {j} : job'[i] = job[i]
        /\ job'[j].status = job[j].status /\ job'[j].fence = job[j].fence
        /\ job'[j].attempt = job[j].attempt /\ attempts' = attempts
    BY <1>1, <1>11, <2>1 DEF RequestCancel, JobRow
  <2>3. QED
    BY <1>1, <2>2, SameHistory DEF SameRunning
<1>12. CASE Environment
  BY <1>2, <1>11, <1>12 DEF Environment, AuthorityChanges, TargetChanges, PhysicallyComplete
<1>13. CASE Native \/ Tick \/ UNCHANGED vars
  BY <1>2, <1>13 DEF Native, EnterGate, AbortGate, Tick, vars
<1>14. QED
  BY <1>3, <1>9, <1>10, <1>12, <1>13 DEF Next

\* On every exit path, of any number of jobs and attempts, the open rows of the
\* history are the current attempts of the running jobs (_end_attempt).
THEOREM HistoryAgrees == Spec => []OpenAttemptsAreRunning
<1>1. Init => HistoryInv
  BY DEF Init, HistoryInv, AbsentJob
<1>2. TypeOK /\ HistoryInv => OpenAttemptsAreRunning
  <2> SUFFICES ASSUME TypeOK, HistoryInv PROVE OpenAttemptsAreRunning
    OBVIOUS
  <2>1. \A a \in attempts : a.job \in Jobs
    BY DEF TypeOK, AttemptRow
  <2>2. ASSUME NEW a \in attempts, a.open
        PROVE  /\ a.job \in Running
               /\ <<a.job, a.number, a.fence>> = <<a.job, job[a.job].attempt, job[a.job].fence>>
    BY <2>1, <2>2 DEF HistoryInv, Running
  <2>3. ASSUME NEW j \in Running
        PROVE  \E a \in attempts : a.open /\
                  <<a.job, a.number, a.fence>> = <<j, job[j].attempt, job[j].fence>>
    BY <2>3 DEF HistoryInv, Running
  <2>4. QED
    BY <2>2, <2>3 DEF OpenAttemptsAreRunning
<1>3. RowInv => TypeOK
  BY DEF RowInv, EffectInv
<1>4. QED
  BY <1>1, <1>2, <1>3, HistoryStep, RowInvariant, PTL DEF Spec
=============================================================================
