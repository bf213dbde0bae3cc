---------------------------- MODULE RecoveryProofs ----------------------------
(***************************************************************************)
(* Proofs about account recovery, for every number of recoveries, attempts *)
(* and operator requests: type correctness, and that a released block      *)
(* leaves no credential from before the recovery usable.                   *)
(***************************************************************************)
EXTENDS RecoveryCleanup, SequenceTheorems, FiniteSetTheorems, TLAPS

-----------------------------------------------------------------------------
(* The rows the actions write. *)

\* The attempts are a sequence: its domain, its elements, and replacing one of them.
LEMMA AttemptSequence ==
    ASSUME TypeOK
    PROVE  /\ Len(attempts) \in Nat
           /\ DOMAIN attempts = 1 .. Len(attempts)
           /\ \A a \in 1 .. Len(attempts) : attempts[a] \in AttemptRow
           /\ \A a \in 1 .. Len(attempts), row \in AttemptRow :
                LET next == [attempts EXCEPT ![a] = row] IN
                /\ next \in Seq(AttemptRow) /\ Len(next) = Len(attempts)
                /\ \A b \in 1 .. Len(attempts) : next[b] = IF b = a THEN row ELSE attempts[b]
<1>1. attempts \in Seq(AttemptRow)
  BY DEF TypeOK
<1> HIDE DEF AttemptRow
<1>2. Len(attempts) \in Nat /\ DOMAIN attempts = 1 .. Len(attempts)
  BY <1>1, LenProperties
<1>3. \A a \in 1 .. Len(attempts) : attempts[a] \in AttemptRow
  BY <1>1, ElementOfSeq
<1>4. \A a \in 1 .. Len(attempts), row \in AttemptRow :
        LET next == [attempts EXCEPT ![a] = row] IN
        /\ next \in Seq(AttemptRow) /\ Len(next) = Len(attempts)
        /\ \A b \in 1 .. Len(attempts) : next[b] = IF b = a THEN row ELSE attempts[b]
  BY <1>1, ExceptSeq
<1> QED
  BY <1>2, <1>3, <1>4

\* An attempt gives reason to believe that step s was revoked: the saved outcome, or the
\* answer its worker is about to save.
Revokes(at, s) == at.rows[s] = "confirmed" \/ (at.worker = "confirmed" /\ at.step = s)

\* While it calls the provider or holds an answer, a worker is at one of the steps.
InHand(at) == at.worker # "idle" => at.step \in Steps

\* A row that replaces another one of the same recovery and claims nothing new.
Succeeds(new, old) ==
    /\ new \in AttemptRow
    /\ new.recovery = old.recovery
    /\ InHand(old) => InHand(new)
    /\ \A s \in Steps : Revokes(new, s) => Revokes(old, s)

\* Closing an attempt keeps its confirmations and adds none.
LEMMA EndedFacts ==
    ASSUME NEW at \in AttemptRow, NEW own \in BOOLEAN
    PROVE  Succeeds(Ended(at, own), at)
<1> DEFINE rows == ClosedRows(at.rows)
           worker == IF own THEN "idle" ELSE at.worker
<1>1. rows \in [Steps -> StepRow] /\ \A s \in Steps : rows[s] = "confirmed" => at.rows[s] = "confirmed"
  BY DEF ClosedRows, AttemptRow, StepRow, Outcomes
<1>2. worker \in {"idle", "calling"} \cup Outcomes /\ worker \in {"idle", at.worker}
  BY DEF AttemptRow
<1>3. Ended(at, own) = [at EXCEPT !.open = FALSE, !.rows = rows, !.worker = worker]
  BY DEF Ended
<1> HIDE DEF rows, worker
<1>4. Ended(at, own) \in AttemptRow
  BY <1>1, <1>2, <1>3 DEF AttemptRow
<1>5. /\ Ended(at, own).recovery = at.recovery /\ Ended(at, own).step = at.step
      /\ Ended(at, own).rows = rows /\ Ended(at, own).worker = worker
  BY <1>3 DEF AttemptRow
<1> QED
  BY <1>1, <1>2, <1>4, <1>5 DEF Succeeds, Revokes, InHand

\* Dispatching a step makes no claim.
LEMMA DispatchedFacts ==
    ASSUME NEW at \in AttemptRow, NEW s \in Steps
    PROVE  Succeeds(Dispatched(at, s), at)
<1> DEFINE rows == [at.rows EXCEPT ![s] = "dispatched"]
<1>1. rows \in [Steps -> StepRow] /\ \A t \in Steps : rows[t] = "confirmed" => at.rows[t] = "confirmed"
  BY DEF AttemptRow, StepRow, Outcomes
<1>2. Dispatched(at, s) = [at EXCEPT !.worker = "calling", !.step = s, !.rows = rows]
  BY DEF Dispatched
<1> HIDE DEF rows
<1>3. Dispatched(at, s) \in AttemptRow
  BY <1>1, <1>2 DEF AttemptRow
<1>4. /\ Dispatched(at, s).recovery = at.recovery /\ Dispatched(at, s).rows = rows
      /\ Dispatched(at, s).worker = "calling" /\ Dispatched(at, s).step = s
  BY <1>2 DEF AttemptRow
<1> QED
  BY <1>1, <1>3, <1>4 DEF Succeeds, Revokes, InHand

\* Saving an answer turns the claim of the worker into the claim of the row.
LEMMA SavedFacts ==
    ASSUME NEW at \in AttemptRow, at.worker \in Outcomes, at.step \in Steps
    PROVE  Succeeds(Saved(at), at)
<1> DEFINE rows == [at.rows EXCEPT ![at.step] = at.worker]
           next == After(at.step, at.worker)
<1>1. /\ rows \in [Steps -> StepRow]
      /\ \A t \in Steps : rows[t] = "confirmed" => Revokes(at, t)
  BY DEF AttemptRow, StepRow, Outcomes, Revokes
<1>2. next \in Steps \cup {"done"}
  BY DEF After, Steps
<1>3. Saved(at) = [at EXCEPT !.worker = "idle", !.rows = rows, !.step = next]
  BY DEF Saved
<1> HIDE DEF rows, next
<1>4. Saved(at) \in AttemptRow
  BY <1>1, <1>2, <1>3 DEF AttemptRow
<1>5. Saved(at).recovery = at.recovery /\ Saved(at).rows = rows /\ Saved(at).worker = "idle"
  BY <1>3 DEF AttemptRow
<1> QED
  BY <1>1, <1>4, <1>5 DEF Succeeds, Revokes, InHand

\* What finish may do to the attempts, the jobs and the runs.
Settled(r, next) ==
    /\ attempts' \in Seq(AttemptRow) /\ Len(attempts') = Len(attempts)
    /\ \A a \in 1 .. Len(attempts) : Succeeds(attempts'[a], attempts[a])
    /\ job' \in [Recoveries -> JobRow(Len(attempts))]
    /\ \A q \in Recoveries : job'[q].exists = job[q].exists
    /\ run' = [run EXCEPT ![r] = next]

LEMMA FreedFacts ==
    ASSUME NEW n \in Nat, NEW row \in JobRow(n)
    PROVE  Freed(row) \in JobRow(n) /\ Freed(row).exists = row.exists
<1> DEFINE claims == 0 .. n
           sources == [Steps -> claims]
<1>1. 0 \in claims
  OBVIOUS
<1>2. JobRow(n) = [exists: BOOLEAN, claim: claims, lease: BOOLEAN, confirmedBy: sources]
  BY DEF JobRow
<1> HIDE DEF claims, sources
<1>3. row \in [exists: BOOLEAN, claim: claims, lease: BOOLEAN, confirmedBy: sources]
  BY <1>2
<1>4. Freed(row) = [row EXCEPT !.claim = 0, !.lease = FALSE]
  BY DEF Freed
<1>5. /\ Freed(row) \in [exists: BOOLEAN, claim: claims, lease: BOOLEAN, confirmedBy: sources]
      /\ Freed(row).exists = row.exists
  BY <1>1, <1>3, <1>4
<1> QED
  BY <1>2, <1>5

LEMMA FinishFacts ==
    ASSUME TypeOK, NEW r \in Recoveries, NEW next, NEW own \in BOOLEAN, Finish(r, next, own)
    PROVE  Settled(r, next)
<1>1. /\ Len(attempts) \in Nat
      /\ \A a \in 1 .. Len(attempts) : attempts[a] \in AttemptRow
      /\ \A a \in 1 .. Len(attempts), row \in AttemptRow :
           LET new == [attempts EXCEPT ![a] = row] IN
           /\ new \in Seq(AttemptRow) /\ Len(new) = Len(attempts)
           /\ \A b \in 1 .. Len(attempts) : new[b] = IF b = a THEN row ELSE attempts[b]
  BY AttemptSequence
<1>2. attempts \in Seq(AttemptRow) /\ job \in [Recoveries -> JobRow(Len(attempts))]
  BY DEF TypeOK
<1>3. job[r].claim \in 0 .. Len(attempts)
  BY <1>2 DEF JobRow
<1>4. \A at \in AttemptRow : Succeeds(at, at)
  BY DEF Succeeds
<1>5. /\ attempts' \in Seq(AttemptRow) /\ Len(attempts') = Len(attempts)
      /\ \A a \in 1 .. Len(attempts) : Succeeds(attempts'[a], attempts[a])
  <2>1. CASE job[r].claim = 0
    BY <1>1, <1>2, <1>4, <2>1 DEF Finish
  <2>2. CASE job[r].claim # 0
    <3> DEFINE k == job[r].claim
               row == Ended(attempts[k], own)
    <3>1. k \in 1 .. Len(attempts)
      BY <1>1, <1>3, <2>2
    <3>2. attempts' = [attempts EXCEPT ![k] = row]
      BY <2>2 DEF Finish
    <3>3. Succeeds(row, attempts[k]) /\ row \in AttemptRow
      BY <1>1, <3>1, EndedFacts DEF Succeeds
    <3> HIDE DEF k, row
    <3> QED
      BY <1>1, <1>4, <3>1, <3>2, <3>3
  <2> QED
    BY <2>1, <2>2
<1>6. job' = [job EXCEPT ![r] = Freed(job[r])] /\ run' = [run EXCEPT ![r] = next]
  BY DEF Finish
<1>7. /\ job' \in [Recoveries -> JobRow(Len(attempts))]
      /\ \A q \in Recoveries : job'[q].exists = job[q].exists
  <2>1. job[r] \in JobRow(Len(attempts))
    BY <1>2
  <2>2. Freed(job[r]) \in JobRow(Len(attempts)) /\ Freed(job[r]).exists = job[r].exists
    BY <1>1, <2>1, FreedFacts
  <2> QED
    BY <1>2, <1>6, <2>2
<1> QED
  BY <1>5, <1>6, <1>7 DEF Settled

-----------------------------------------------------------------------------
(* Steps inside one recovery's cleanup. *)

\* A step that keeps the evidence: it moves attempts on without claiming more, and opens
\* a run only where there is a job.
Progress ==
    /\ attempts' \in Seq(AttemptRow) /\ Len(attempts') = Len(attempts)
    /\ \A a \in 1 .. Len(attempts) : Succeeds(attempts'[a], attempts[a])
    /\ job' \in [Recoveries -> JobRow(Len(attempts))]
    /\ \A q \in Recoveries : job'[q].exists = job[q].exists
    /\ run' \in [Recoveries -> RunRow]
    /\ \A q \in Recoveries : run'[q].open => run[q].open \/ job[q].exists
    /\ proof' \in [Recoveries -> ProofRow(Len(attempts))]

LEMMA EmptyRows ==
    NoRun \in RunRow /\ NewRun \in RunRow /\ ~NoRun.open /\ NewRun.open
<1>1. 0 \in 0 .. MaxAttempts
  BY RecoveryAssumption
<1> QED
  BY <1>1 DEF NoRun, NewRun, RunRow

\* The attempts seen as no more than they are.
LEMMA Unmoved ==
    ASSUME TypeOK
    PROVE  \A a \in 1 .. Len(attempts) : Succeeds(attempts[a], attempts[a])
  BY AttemptSequence DEF Succeeds

LEMMA FinishProgress ==
    ASSUME TypeOK, NEW r \in Recoveries, NEW next \in RunRow, NEW own \in BOOLEAN,
           Finish(r, next, own), next.open => run[r].open \/ job[r].exists,
           proof' \in [Recoveries -> ProofRow(Len(attempts))]
    PROVE  Progress
<1>1. Settled(r, next)
  BY FinishFacts
<1>2. run \in [Recoveries -> RunRow]
  BY DEF TypeOK
<1> QED
  BY <1>1, <1>2 DEF Settled, Progress

LEMMA SavedProof ==
    ASSUME TypeOK, NEW r \in Recoveries, SaveProof(r)
    PROVE  proof' \in [Recoveries -> ProofRow(Len(attempts))]
<1> DEFINE sources == [Steps -> 0 .. Len(attempts)]
<1>1. /\ proof \in [Recoveries -> ProofRow(Len(attempts))]
      /\ job[r].confirmedBy \in sources
  BY DEF TypeOK, JobRow
<1>2. ProofRow(Len(attempts)) =
        [source: Recoveries \cup {0}, by: sources, checked: {"no", "released", "ineligible"},
         propagated: BOOLEAN, due: BOOLEAN]
  BY DEF ProofRow
<1>3. OwnProof(r) = [source |-> r, by |-> job[r].confirmedBy, checked |-> "no",
                     propagated |-> FALSE, due |-> TRUE]
  BY DEF OwnProof
<1> HIDE DEF sources
<1>4. OwnProof(r) \in ProofRow(Len(attempts))
  BY <1>1, <1>2, <1>3
<1>5. proof' = IF proof[r].source = 0 THEN [proof EXCEPT ![r] = OwnProof(r)] ELSE proof
  BY DEF SaveProof
<1> QED
  BY <1>1, <1>4, <1>5

LEMMA FinishRunProgress ==
    ASSUME TypeOK, NEW r \in Recoveries, NEW own \in BOOLEAN, FinishRun(r, own)
    PROVE  Progress
<1>1. proof \in [Recoveries -> ProofRow(Len(attempts))] /\ run[r] \in RunRow
  BY DEF TypeOK
<1>2. CASE SaveProof(r) /\ Finish(r, NoRun, own)
  BY <1>2, SavedProof, FinishProgress, EmptyRows
<1>3. CASE Finish(r, NoRun, own) /\ UNCHANGED proof
  BY <1>1, <1>3, FinishProgress, EmptyRows
<1>4. CASE Finish(r, [run[r] EXCEPT !.due = FALSE], own) /\ UNCHANGED proof
  <2>1. [run[r] EXCEPT !.due = FALSE] \in RunRow /\ [run[r] EXCEPT !.due = FALSE].open = run[r].open
    BY <1>1 DEF RunRow
  <2> QED
    BY <1>1, <1>4, <2>1, FinishProgress
<1> QED
  BY <1>2, <1>3, <1>4 DEF FinishRun

\* A change of the runs alone.
LEMMA RunProgress ==
    ASSUME TypeOK, UNCHANGED <<job, attempts, proof>>,
           NEW r \in Recoveries, NEW row \in RunRow, row.open => run[r].open,
           run' = [run EXCEPT ![r] = row]
    PROVE  Progress
<1>1. /\ run \in [Recoveries -> RunRow] /\ attempts \in Seq(AttemptRow)
      /\ job \in [Recoveries -> JobRow(Len(attempts))]
      /\ proof \in [Recoveries -> ProofRow(Len(attempts))]
  BY DEF TypeOK
<1> QED
  BY <1>1, Unmoved DEF Progress

\* A change of one proof row alone.
LEMMA ProofProgress ==
    ASSUME TypeOK, UNCHANGED <<job, attempts, run>>,
           NEW r \in Recoveries, NEW row \in ProofRow(Len(attempts)), proof' = [proof EXCEPT ![r] = row]
    PROVE  Progress
<1>1. /\ run \in [Recoveries -> RunRow] /\ attempts \in Seq(AttemptRow)
      /\ job \in [Recoveries -> JobRow(Len(attempts))]
      /\ proof \in [Recoveries -> ProofRow(Len(attempts))]
  BY DEF TypeOK
<1> QED
  BY <1>1, Unmoved DEF Progress

\* A change of one attempt's row alone.
LEMMA AttemptProgress ==
    ASSUME TypeOK, UNCHANGED <<run, proof>>,
           job' \in [Recoveries -> JobRow(Len(attempts))],
           \A q \in Recoveries : job'[q].exists = job[q].exists,
           NEW a \in 1 .. Len(attempts), NEW row, Succeeds(row, attempts[a]),
           attempts' = [attempts EXCEPT ![a] = row]
    PROVE  Progress
<1>1. /\ run \in [Recoveries -> RunRow]
      /\ proof \in [Recoveries -> ProofRow(Len(attempts))]
  BY DEF TypeOK
<1>2. row \in AttemptRow
  BY DEF Succeeds
<1>3. /\ attempts' \in Seq(AttemptRow) /\ Len(attempts') = Len(attempts)
      /\ \A b \in 1 .. Len(attempts) : attempts'[b] = IF b = a THEN row ELSE attempts[b]
  BY <1>2, AttemptSequence
<1>4. \A b \in 1 .. Len(attempts) : Succeeds(attempts'[b], attempts[b])
  BY <1>3, Unmoved
<1> QED
  BY <1>1, <1>3, <1>4 DEF Progress

-----------------------------------------------------------------------------
(* The inductive invariant. *)

\* Recoveries are admitted in order, and only an admitted one is released.
AdmittedInOrder ==
    \A r \in Recoveries :
        /\ recovery[r].admitted => \A q \in 1 .. r - 1 : recovery[q].admitted
        /\ recovery[r].released => recovery[r].admitted

\* A link leads from a recovery to an older one.
LinksCoverOlder == \A s, t \in Recoveries : <<s, t>> \in links => t < s

\* Cleanup starts from the saved password: no earlier session is left.
JobsRestOnEvidence ==
    \A r \in Recoveries : job[r].exists =>
        recovery[r].admitted /\ \A q \in 1 .. r : q \notin exposed["sessions"]

RunsHaveJobs == \A r \in Recoveries : run[r].open => job[r].exists
AttemptsHaveJobs == \A a \in 1 .. Len(attempts) : job[Owner(a)].exists

\* What an attempt claims to have revoked is revoked, for its recovery and the older ones.
ClaimsAreTrue ==
    \A a \in 1 .. Len(attempts), s \in Steps :
        Revokes(attempts[a], s) => \A q \in 1 .. Owner(a) : q \notin exposed[s]

\* Every attempt's worker is at a step it can finish.
StepsInHand == \A a \in 1 .. Len(attempts) : InHand(attempts[a])

IInv ==
    /\ TypeOK /\ AdmittedInOrder /\ LinksCoverOlder /\ JobsRestOnEvidence
    /\ RunsHaveJobs /\ AttemptsHaveJobs /\ ClaimsAreTrue /\ StepsInHand
    /\ ReleasedIsSafe

\* Nothing changes outside the cleanup but the account, the page and the receipts.
Quiet ==
    /\ UNCHANGED <<recovery, links, reconciled, exposed>>
    /\ page' \subseteq Recoveries \X Recoveries
    /\ receipt' \in [Requests -> ReceiptRow]
    /\ eligible' \in BOOLEAN

\* A step of the cleanup that keeps the evidence keeps the invariant.
LEMMA ProgressKeeps ==
    ASSUME IInv, Progress, Quiet
    PROVE  IInv'
<1>1. TypeOK'
  BY DEF IInv, TypeOK, Progress, Quiet
<1>2. AdmittedInOrder' /\ LinksCoverOlder' /\ ReleasedIsSafe'
  BY DEF IInv, AdmittedInOrder, LinksCoverOlder, ReleasedIsSafe, Quiet
<1>3. JobsRestOnEvidence' /\ RunsHaveJobs'
  BY DEF IInv, JobsRestOnEvidence, RunsHaveJobs, Progress, Quiet
<1>4. \A a \in 1 .. Len(attempts) : attempts[a] \in AttemptRow /\ attempts[a].recovery \in Recoveries
  BY AttemptSequence DEF IInv, AttemptRow
<1>5. AttemptsHaveJobs'
  BY <1>4 DEF IInv, AttemptsHaveJobs, Owner, Progress, Succeeds
<1>6. ClaimsAreTrue'
  <2> SUFFICES ASSUME NEW a \in 1 .. Len(attempts), NEW s \in Steps, Revokes(attempts'[a], s)
               PROVE  \A q \in 1 .. attempts'[a].recovery : q \notin exposed[s]
    BY DEF ClaimsAreTrue, Owner, Progress, Quiet, Revokes
  <2>1. attempts'[a].recovery = attempts[a].recovery /\ Revokes(attempts[a], s)
    BY DEF Progress, Succeeds
  <2> QED
    BY <2>1 DEF IInv, ClaimsAreTrue, Owner
<1>7. StepsInHand'
  BY DEF IInv, StepsInHand, Progress, Succeeds, InHand
<1> QED
  BY <1>1, <1>2, <1>3, <1>5, <1>6, <1>7 DEF IInv

LEMMA InitInv ==
    ASSUME Init
    PROVE  IInv
<1>1. 0 \in 0 .. 0 /\ 0 \in 0 .. MaxAttempts /\ Len(<<>>) = 0 /\ <<>> \in Seq(AttemptRow)
  BY RecoveryAssumption
<1>2. TypeOK
  <2>1. job \in [Recoveries -> JobRow(Len(attempts))]
    BY <1>1 DEF Init, NoJob, JobRow
  <2>2. proof \in [Recoveries -> ProofRow(Len(attempts))]
    BY <1>1 DEF Init, NoProof, ProofRow
  <2>3. recovery \in [Recoveries -> RecoveryRow] /\ run \in [Recoveries -> RunRow]
    BY <1>1 DEF Init, NoRecovery, RecoveryRow, NoRun, RunRow
  <2>4. receipt \in [Requests -> ReceiptRow]
    BY DEF Init, NoReceipt, ReceiptRow
  <2> QED
    BY <1>1, <2>1, <2>2, <2>3, <2>4 DEF Init, TypeOK
<1>3. Len(attempts) = 0
  BY DEF Init
<1> QED
  BY <1>2, <1>3 DEF Init, IInv, AdmittedInOrder, LinksCoverOlder, JobsRestOnEvidence, RunsHaveJobs,
     AttemptsHaveJobs, ClaimsAreTrue, StepsInHand, ReleasedIsSafe, NoRecovery, NoJob, NoRun

-----------------------------------------------------------------------------
(* Each step keeps it. *)

LEMMA AdmitKeeps ==
    ASSUME IInv, NEW r \in Recoveries, Admit(r)
    PROVE  IInv'
<1>1. /\ recovery \in [Recoveries -> RecoveryRow] /\ recovery[r] \in RecoveryRow
      /\ exposed \in [Surfaces -> SUBSET Recoveries]
  BY DEF IInv, TypeOK
<1>2. /\ recovery' \in [Recoveries -> RecoveryRow]
      /\ recovery'[r].admitted /\ recovery'[r].released = recovery[r].released
      /\ \A q \in Recoveries : q # r => recovery'[q] = recovery[q]
  BY <1>1 DEF Admit, RecoveryRow
<1>3. ~recovery[r].admitted /\ \A q \in 1 .. r - 1 : recovery[q].admitted
  BY DEF Admit
<1>4. \A q \in Covered(r) : q < r
  <2> SUFFICES ASSUME NEW q \in Recoveries, q # r, recovery[q].admitted, ~(q < r)
               PROVE  FALSE
    BY DEF Covered, Recoveries
  <2>1. r \in 1 .. q - 1
    BY RecoveryAssumption DEF Recoveries
  <2> QED
    BY <1>3, <2>1 DEF IInv, AdmittedInOrder
<1>5. links' = links \cup NewLinks(r) /\ NewLinks(r) \subseteq Recoveries \X Recoveries
  BY DEF Admit, NewLinks, Covered
<1>6. TypeOK'
  <2>1. exposed' \in [Surfaces -> SUBSET Recoveries]
    BY <1>1 DEF Admit
  <2> QED
    BY <1>2, <1>5, <2>1 DEF IInv, TypeOK, Admit
<1>7. AdmittedInOrder'
  <2>1. \A q \in Recoveries : recovery[q].admitted => recovery'[q].admitted
    BY <1>2
  <2>2. \A x \in Recoveries : \A q \in 1 .. x - 1 : q \in Recoveries
    BY RecoveryAssumption DEF Recoveries
  <2>3. \A x \in Recoveries : recovery'[x].admitted => \A q \in 1 .. x - 1 : recovery[q].admitted
    BY <1>2, <1>3 DEF IInv, AdmittedInOrder
  <2>4. \A x \in Recoveries : recovery'[x].released => recovery'[x].admitted
    BY <1>2 DEF IInv, AdmittedInOrder
  <2> QED
    BY <2>1, <2>2, <2>3, <2>4 DEF AdmittedInOrder
<1>8. LinksCoverOlder'
  <2> SUFFICES ASSUME NEW s \in Recoveries, NEW t \in Recoveries, <<s, t>> \in links'
               PROVE  t < s
    BY DEF LinksCoverOlder
  <2>1. CASE <<s, t>> \in links
    BY <2>1 DEF IInv, LinksCoverOlder
  <2>2. CASE <<s, t>> \in NewLinks(r)
    BY <1>4, <2>2 DEF NewLinks
  <2> QED
    BY <1>5, <2>1, <2>2
<1>9. \A q \in Recoveries, s \in Surfaces : recovery[q].admitted => (q \in exposed'[s] <=> q \in exposed[s])
  BY <1>3 DEF Admit
<1>10. \A q \in Recoveries : recovery[q].admitted => \A p \in 1 .. q : p \in Recoveries /\ recovery[p].admitted
  <2> SUFFICES ASSUME NEW q \in Recoveries, recovery[q].admitted, NEW p \in 1 .. q
               PROVE  p \in Recoveries /\ recovery[p].admitted
    OBVIOUS
  <2>1. p \in Recoveries /\ (p = q \/ p \in 1 .. q - 1)
    BY RecoveryAssumption DEF Recoveries
  <2> QED
    BY <2>1 DEF IInv, AdmittedInOrder
<1>11. JobsRestOnEvidence'
  <2>1. UNCHANGED job /\ "sessions" \in Surfaces
    BY DEF Admit, Surfaces
  <2> QED
    BY <1>2, <1>9, <1>10, <2>1 DEF IInv, JobsRestOnEvidence
<1>12. RunsHaveJobs' /\ AttemptsHaveJobs'
  BY DEF IInv, RunsHaveJobs, AttemptsHaveJobs, Owner, Admit
<1>13. ClaimsAreTrue'
  <2> SUFFICES ASSUME NEW a \in 1 .. Len(attempts), NEW s \in Steps, Revokes(attempts[a], s),
                      NEW q \in 1 .. Owner(a)
               PROVE  q \notin exposed'[s]
    BY DEF ClaimsAreTrue, Owner, Admit, Revokes
  <2>1. Owner(a) \in Recoveries /\ s \in Surfaces
    BY AttemptSequence DEF IInv, AttemptRow, Owner, Surfaces
  <2>2. job[Owner(a)].exists
    BY DEF IInv, AttemptsHaveJobs
  <2>3. recovery[Owner(a)].admitted
    BY <2>1, <2>2 DEF IInv, JobsRestOnEvidence
  <2>4. q \notin exposed[s]
    BY DEF IInv, ClaimsAreTrue
  <2> QED
    BY <1>9, <1>10, <2>1, <2>3, <2>4
<1>14. ReleasedIsSafe'
  BY <1>2, <1>3, <1>9 DEF IInv, AdmittedInOrder, ReleasedIsSafe
<1>15. StepsInHand'
  BY DEF IInv, StepsInHand, InHand, Admit
<1> QED
  BY <1>6, <1>7, <1>8, <1>11, <1>12, <1>13, <1>14, <1>15 DEF IInv

LEMMA PasswordSavedKeeps ==
    ASSUME IInv, NEW r \in Recoveries, PasswordSaved(r)
    PROVE  IInv'
<1>1. /\ recovery \in [Recoveries -> RecoveryRow] /\ exposed \in [Surfaces -> SUBSET Recoveries]
      /\ job \in [Recoveries -> JobRow(Len(attempts))] /\ run \in [Recoveries -> RunRow]
      /\ recovery[r] \in RecoveryRow /\ job[r] \in JobRow(Len(attempts))
  BY DEF IInv, TypeOK
<1>2. /\ recovery' \in [Recoveries -> RecoveryRow]
      /\ \A q \in Recoveries : recovery'[q].admitted = recovery[q].admitted
                               /\ recovery'[q].released = recovery[q].released
  BY <1>1 DEF PasswordSaved, RecoveryRow
<1>3. /\ job' \in [Recoveries -> JobRow(Len(attempts))]
      /\ \A q \in Recoveries : job[q].exists => job'[q].exists
      /\ \A q \in Recoveries : q # r => job'[q].exists = job[q].exists
      /\ Handoff(r) => job'[r].exists
  <2> DEFINE claims == 0 .. Len(attempts)
             sources == [Steps -> claims]
             flag == job[r].exists \/ Handoff(r)
  <2>1. JobRow(Len(attempts)) = [exists: BOOLEAN, claim: claims, lease: BOOLEAN, confirmedBy: sources]
    BY DEF JobRow
  <2>2. flag \in BOOLEAN /\ job' = [job EXCEPT ![r] = [job[r] EXCEPT !.exists = flag]]
    BY <1>1, <2>1 DEF PasswordSaved, Handoff
  <2>3. (job[r].exists => flag) /\ (Handoff(r) => flag)
    OBVIOUS
  <2> HIDE DEF claims, sources, flag
  <2>4. [job[r] EXCEPT !.exists = flag] \in JobRow(Len(attempts)) /\ [job[r] EXCEPT !.exists = flag].exists = flag
    BY <1>1, <2>1, <2>2
  <2> QED
    BY <1>1, <2>2, <2>3, <2>4
<1>4. /\ run' \in [Recoveries -> RunRow]
      /\ \A q \in Recoveries : run'[q].open => run[q].open \/ (q = r /\ Handoff(r))
  BY <1>1, EmptyRows DEF PasswordSaved
<1>5. /\ exposed' \in [Surfaces -> SUBSET Recoveries]
      /\ \A s \in Surfaces : exposed'[s] \subseteq exposed[s]
      /\ \A q \in 1 .. r : q \notin exposed'["sessions"]
  BY <1>1 DEF PasswordSaved, Surfaces
<1>6. UNCHANGED <<links, reconciled, attempts, proof, page, receipt, eligible>> /\ recovery[r].admitted
  BY DEF PasswordSaved
<1>7. TypeOK'
  BY <1>2, <1>3, <1>4, <1>5, <1>6 DEF IInv, TypeOK
<1>8. AdmittedInOrder'
  <2>1. \A x \in Recoveries : \A q \in 1 .. x - 1 : q \in Recoveries
    BY RecoveryAssumption DEF Recoveries
  <2> QED
    BY <1>2, <2>1 DEF IInv, AdmittedInOrder
<1>9. LinksCoverOlder' /\ ReleasedIsSafe'
  BY <1>2, <1>5, <1>6 DEF IInv, LinksCoverOlder, ReleasedIsSafe
<1>10. JobsRestOnEvidence'
  <2>1. "sessions" \in Surfaces
    BY DEF Surfaces
  <2> QED
    BY <1>2, <1>3, <1>5, <1>6, <2>1 DEF IInv, JobsRestOnEvidence
<1>11. RunsHaveJobs'
  BY <1>3, <1>4 DEF IInv, RunsHaveJobs
<1>12. \A a \in 1 .. Len(attempts) : Owner(a) \in Recoveries
  BY AttemptSequence DEF IInv, AttemptRow, Owner
<1>13. AttemptsHaveJobs'
  BY <1>3, <1>6, <1>12 DEF IInv, AttemptsHaveJobs, Owner
<1>14. ClaimsAreTrue'
  <2>1. \A s \in Steps : s \in Surfaces
    BY DEF Surfaces
  <2> QED
    BY <1>5, <1>6, <2>1 DEF IInv, ClaimsAreTrue, Owner, Revokes
<1>15. StepsInHand'
  BY <1>6 DEF IInv, StepsInHand, InHand
<1> QED
  BY <1>7, <1>8, <1>9, <1>10, <1>11, <1>13, <1>14, <1>15 DEF IInv

\* A new attempt claims nothing.
LEMMA AttemptFacts ==
    ASSUME NEW r \in Recoveries
    PROVE  /\ Attempt(r) \in AttemptRow /\ Attempt(r).recovery = r
           /\ InHand(Attempt(r)) /\ \A s \in Steps : ~Revokes(Attempt(r), s)
  BY DEF Attempt, AttemptRow, Revokes, InHand, Steps, StepRow

LEMMA PollClaimKeeps ==
    ASSUME IInv, NEW r \in Recoveries, PollClaim(r),
           UNCHANGED <<recovery, links, reconciled, page, receipt, eligible, exposed>>
    PROVE  IInv'
<1> DEFINE n == Len(attempts)
<1>1. /\ attempts \in Seq(AttemptRow) /\ n \in Nat
      /\ \A a \in 1 .. n : attempts[a] \in AttemptRow /\ Owner(a) \in Recoveries
  BY AttemptSequence DEF IInv, TypeOK, AttemptRow, Owner
<1>2. /\ attempts' \in Seq(AttemptRow) /\ Len(attempts') = n + 1
      /\ \A a \in 1 .. n : attempts'[a] = attempts[a]
      /\ attempts'[n + 1] = Attempt(r)
  BY <1>1, AttemptFacts, AppendProperties DEF PollClaim
<1>3. /\ job \in [Recoveries -> JobRow(n)] /\ run \in [Recoveries -> RunRow]
      /\ proof \in [Recoveries -> ProofRow(n)]
  BY DEF IInv, TypeOK
<1>4. /\ \A row \in JobRow(n) : row \in JobRow(n + 1)
      /\ \A row \in ProofRow(n) : row \in ProofRow(n + 1)
  <2>1. \A k \in 0 .. n : k \in 0 .. n + 1
    BY <1>1
  <2>2. \A f \in [Steps -> 0 .. n] : f \in [Steps -> 0 .. n + 1]
    BY <2>1
  <2> QED
    BY <2>1, <2>2 DEF JobRow, ProofRow
<1>5. /\ job' \in [Recoveries -> JobRow(n + 1)]
      /\ \A q \in Recoveries : job'[q].exists = job[q].exists
  <2> DEFINE claims == 0 .. n + 1
             sources == [Steps -> claims]
             next == n + 1
  <2>1. JobRow(n + 1) = [exists: BOOLEAN, claim: claims, lease: BOOLEAN, confirmedBy: sources]
    BY DEF JobRow
  <2>2. next \in claims /\ job' = [job EXCEPT ![r] = [job[r] EXCEPT !.claim = next, !.lease = TRUE]]
    BY <1>1 DEF PollClaim
  <2>3. job \in [Recoveries -> JobRow(n + 1)] /\ job[r] \in JobRow(n + 1)
    BY <1>3, <1>4
  <2> HIDE DEF claims, sources, next
  <2>4. job[r] \in [exists: BOOLEAN, claim: claims, lease: BOOLEAN, confirmedBy: sources]
    BY <2>1, <2>3
  <2>5. /\ [job[r] EXCEPT !.claim = next, !.lease = TRUE] \in
             [exists: BOOLEAN, claim: claims, lease: BOOLEAN, confirmedBy: sources]
        /\ [job[r] EXCEPT !.claim = next, !.lease = TRUE].exists = job[r].exists
    BY <2>2, <2>4
  <2> QED
    BY <2>1, <2>2, <2>3, <2>5
<1>6. /\ run' \in [Recoveries -> RunRow]
      /\ \A q \in Recoveries : run'[q].open = run[q].open
  <2> DEFINE next == run[r].consumed + 1
             budget == 0 .. MaxAttempts
  <2>1. next \in budget
    BY <1>3, RecoveryAssumption DEF PollClaim, Exhausted, RunRow
  <2>2. run' = [run EXCEPT ![r] = [run[r] EXCEPT !.consumed = next]] /\ run[r] \in RunRow
    BY <1>3 DEF PollClaim
  <2>3. RunRow = [open: BOOLEAN, due: BOOLEAN, overdue: BOOLEAN, consumed: budget]
    BY DEF RunRow
  <2> HIDE DEF next, budget
  <2>4. [run[r] EXCEPT !.consumed = next] \in RunRow /\ [run[r] EXCEPT !.consumed = next].open = run[r].open
    BY <2>1, <2>2, <2>3
  <2> QED
    BY <1>3, <2>2, <2>4
<1>7. job[r].exists /\ UNCHANGED proof
  BY DEF PollClaim, Candidate, IInv, RunsHaveJobs
<1>8. TypeOK'
  BY <1>2, <1>3, <1>4, <1>5, <1>6, <1>7 DEF IInv, TypeOK
<1>9. AdmittedInOrder' /\ LinksCoverOlder' /\ ReleasedIsSafe'
  BY DEF IInv, AdmittedInOrder, LinksCoverOlder, ReleasedIsSafe
<1>10. JobsRestOnEvidence' /\ RunsHaveJobs'
  BY <1>5, <1>6 DEF IInv, JobsRestOnEvidence, RunsHaveJobs
<1>11. \A a \in 1 .. n + 1 : a \in 1 .. n \/ a = n + 1
  BY <1>1
<1>12. AttemptsHaveJobs'
  BY <1>1, <1>2, <1>5, <1>7, <1>11, AttemptFacts DEF IInv, AttemptsHaveJobs, Owner
<1>13. ClaimsAreTrue'
  BY <1>1, <1>2, <1>11, AttemptFacts DEF IInv, ClaimsAreTrue, Owner, Revokes
<1>14. StepsInHand'
  BY <1>1, <1>2, <1>11, AttemptFacts DEF IInv, StepsInHand, InHand
<1> QED
  BY <1>8, <1>9, <1>10, <1>12, <1>13, <1>14 DEF IInv

LEMMA CallProviderKeeps ==
    ASSUME IInv, NEW a \in 1 .. Len(attempts), NEW answer \in Outcomes, NEW effective \in BOOLEAN,
           CallProvider(a, answer, effective)
    PROVE  IInv'
<1> DEFINE at == attempts[a]
           worker == IF Owned(a) THEN answer ELSE "idle"
           row == [at EXCEPT !.worker = worker]
<1>1. at \in AttemptRow /\ Owner(a) \in Recoveries /\ attempts \in Seq(AttemptRow)
  BY AttemptSequence DEF IInv, TypeOK, AttemptRow, Owner
<1>2. /\ row \in AttemptRow /\ row.recovery = at.recovery /\ row.rows = at.rows
      /\ row.step = at.step /\ row.worker = worker
  <2>1. worker \in {"idle", "calling"} \cup Outcomes
    OBVIOUS
  <2> HIDE DEF worker
  <2> QED
    BY <1>1, <2>1 DEF AttemptRow
<1>3. attempts' = [attempts EXCEPT ![a] = row] /\ at.step \in Steps
  BY DEF CallProvider, IInv, StepsInHand, InHand
<1>4. worker = "confirmed" => effective
  BY DEF CallProvider
<1> HIDE DEF row, worker
<1>5. /\ attempts' \in Seq(AttemptRow) /\ Len(attempts') = Len(attempts)
      /\ \A b \in 1 .. Len(attempts) : attempts'[b] = IF b = a THEN row ELSE attempts[b]
  BY <1>2, <1>3, AttemptSequence DEF IInv
<1>6. at.step \in Surfaces /\ exposed \in [Surfaces -> SUBSET Recoveries] /\ Steps \subseteq Surfaces
  BY <1>3 DEF Surfaces, IInv, TypeOK
<1>7. exposed' = IF effective THEN [exposed EXCEPT ![at.step] = Revoked(at.step)] ELSE exposed
  BY DEF CallProvider
<1>8. /\ exposed' \in [Surfaces -> SUBSET Recoveries]
      /\ \A s \in Surfaces : exposed'[s] \subseteq exposed[s]
      /\ effective => exposed'[at.step] \subseteq exposed["sessions"]
  BY <1>6, <1>7 DEF Revoked
<1>9. UNCHANGED <<recovery, links, reconciled, job, run, proof, page, receipt, eligible>>
  BY DEF CallProvider
<1>10. TypeOK'
  BY <1>5, <1>8, <1>9 DEF IInv, TypeOK
<1>11. AdmittedInOrder' /\ LinksCoverOlder' /\ RunsHaveJobs' /\ ReleasedIsSafe'
  BY <1>8, <1>9 DEF IInv, AdmittedInOrder, LinksCoverOlder, RunsHaveJobs, ReleasedIsSafe
<1>12. JobsRestOnEvidence'
  BY <1>8, <1>9 DEF IInv, JobsRestOnEvidence, Surfaces
<1>13. \A b \in 1 .. Len(attempts) : attempts'[b].recovery = attempts[b].recovery
  BY <1>2, <1>5
<1>14. AttemptsHaveJobs'
  BY <1>5, <1>9, <1>13 DEF IInv, AttemptsHaveJobs, Owner
<1>15. ClaimsAreTrue'
  <2> SUFFICES ASSUME NEW b \in 1 .. Len(attempts), NEW s \in Steps, Revokes(attempts'[b], s),
                      NEW q \in 1 .. attempts[b].recovery
               PROVE  q \notin exposed'[s]
    BY <1>5, <1>13 DEF ClaimsAreTrue, Owner, Revokes
  <2>1. CASE Revokes(attempts[b], s)
    BY <1>6, <1>8, <2>1 DEF IInv, ClaimsAreTrue, Owner
  <2>2. CASE ~Revokes(attempts[b], s)
    <3>1. b = a /\ worker = "confirmed" /\ s = at.step
      BY <1>2, <1>5, <2>2 DEF Revokes
    <3>2. job[Owner(a)].exists
      BY DEF IInv, AttemptsHaveJobs
    <3>3. q \notin exposed["sessions"]
      BY <1>1, <3>1, <3>2 DEF IInv, JobsRestOnEvidence, Owner
    <3> QED
      BY <1>4, <1>8, <3>1, <3>3
  <2> QED
    BY <2>1, <2>2
<1>16. StepsInHand'
  BY <1>2, <1>3, <1>5 DEF IInv, StepsInHand, InHand
<1> QED
  BY <1>10, <1>11, <1>12, <1>14, <1>15, <1>16 DEF IInv

\* A complete proof is about its source: nothing from before that recovery is left.
LEMMA CompleteIsSafe ==
    ASSUME IInv, NEW p \in ProofRow(Len(attempts)), p.source # 0, Complete(p)
    PROVE  /\ p.source \in Recoveries /\ recovery[p.source].admitted
           /\ \A q \in 1 .. p.source, s \in Surfaces : q \notin exposed[s]
<1>1. p.source \in Recoveries
  BY DEF ProofRow
<1>2. job[p.source].exists
  BY DEF Complete
<1>3. recovery[p.source].admitted /\ \A q \in 1 .. p.source : q \notin exposed["sessions"]
  BY <1>1, <1>2 DEF IInv, JobsRestOnEvidence
<1>4. \A q \in 1 .. p.source, s \in Steps : q \notin exposed[s]
  <2> SUFFICES ASSUME NEW q \in 1 .. p.source, NEW s \in Steps
               PROVE  q \notin exposed[s]
    OBVIOUS
  <2>1. /\ p.by[s] \in 1 .. Len(attempts) /\ Owner(p.by[s]) = p.source
        /\ attempts[p.by[s]].rows[s] = "confirmed"
    BY AttemptSequence DEF Complete, IInv
  <2> QED
    BY <2>1 DEF IInv, ClaimsAreTrue, Revokes
<1> QED
  BY <1>1, <1>3, <1>4 DEF Surfaces

\* Closing an attempt from outside leaves the rest of its row.
LEMMA ClosedFacts ==
    ASSUME NEW at \in AttemptRow
    PROVE  Succeeds([at EXCEPT !.open = FALSE], at)
<1>1. [at EXCEPT !.open = FALSE] \in AttemptRow
  BY DEF AttemptRow
<1> QED
  BY <1>1 DEF Succeeds, Revokes, InHand, AttemptRow

\* What reconciling does to the covered recovery's job, run and attempt.
LEMMA CoverProgress ==
    ASSUME TypeOK, NEW s \in Recoveries, NEW t \in Recoveries,
           \/ ApplyToCovered(s, t) 
           \/ UNCHANGED <<reconciled, attempts, job, run>>,
           proof' \in [Recoveries -> ProofRow(Len(attempts))]
    PROVE  Progress
<1>1. /\ run \in [Recoveries -> RunRow] /\ attempts \in Seq(AttemptRow)
      /\ job \in [Recoveries -> JobRow(Len(attempts))]
  BY DEF TypeOK
<1>2. CASE UNCHANGED <<reconciled, attempts, job, run>>
  BY <1>1, <1>2, Unmoved DEF Progress
<1>3. CASE ApplyToCovered(s, t)
  <2>1. job[t] \in JobRow(Len(attempts)) /\ Len(attempts) \in Nat
    BY <1>1, AttemptSequence
  <2>2. Freed(job[t]) \in JobRow(Len(attempts)) /\ Freed(job[t]).exists = job[t].exists
    BY <2>1, FreedFacts
  <2>3. job' = [job EXCEPT ![t] = Freed(job[t])] /\ run' = [run EXCEPT ![t] = NoRun]
    BY <1>3 DEF ApplyToCovered
  <2>4. /\ job' \in [Recoveries -> JobRow(Len(attempts))] /\ run' \in [Recoveries -> RunRow]
        /\ \A q \in Recoveries : job'[q].exists = job[q].exists
        /\ \A q \in Recoveries : run'[q].open => run[q].open
    BY <1>1, <2>2, <2>3, EmptyRows
  <2>5. /\ attempts' \in Seq(AttemptRow) /\ Len(attempts') = Len(attempts)
        /\ \A a \in 1 .. Len(attempts) : Succeeds(attempts'[a], attempts[a])
    <3>1. CASE job[t].claim = 0
      BY <1>1, <1>3, <3>1, Unmoved DEF ApplyToCovered
    <3>2. CASE job[t].claim # 0
      <4> DEFINE k == job[t].claim
                 row == [attempts[k] EXCEPT !.open = FALSE]
      <4>1. k \in 1 .. Len(attempts)
        BY <2>1, <3>2 DEF JobRow
      <4>2. attempts' = [attempts EXCEPT ![k] = row]
        BY <1>3, <3>2 DEF ApplyToCovered
      <4>3. Succeeds(row, attempts[k]) /\ row \in AttemptRow
        BY <4>1, ClosedFacts, AttemptSequence DEF Succeeds
      <4> HIDE DEF k, row
      <4> QED
        BY <4>1, <4>2, <4>3, Unmoved, AttemptSequence
    <3> QED
      BY <3>1, <3>2
  <2> QED
    BY <2>4, <2>5 DEF Progress
<1> QED
  BY <1>2, <1>3

\* The proof row of a covered recovery, and its check, are rows.
LEMMA ReconciledRow ==
    ASSUME TypeOK, NEW s \in Recoveries, NEW t \in Recoveries, NEW released
    PROVE  CheckedRow(CoveredRow(s, t), released) \in ProofRow(Len(attempts))
<1> DEFINE sources == [Steps -> 0 .. Len(attempts)]
<1>1. proof[s] \in ProofRow(Len(attempts)) /\ proof[t] \in ProofRow(Len(attempts))
  BY DEF TypeOK
<1>2. ProofRow(Len(attempts)) =
        [source: Recoveries \cup {0}, by: sources, checked: {"no", "released", "ineligible"},
         propagated: BOOLEAN, due: BOOLEAN]
  BY DEF ProofRow
<1> HIDE DEF sources
<1>3. /\ proof[s] \in [source: Recoveries \cup {0}, by: sources, checked: {"no", "released", "ineligible"},
                       propagated: BOOLEAN, due: BOOLEAN]
      /\ proof[t] \in [source: Recoveries \cup {0}, by: sources, checked: {"no", "released", "ineligible"},
                       propagated: BOOLEAN, due: BOOLEAN]
  BY <1>1, <1>2
<1>4. CoveredRow(s, t) \in [source: Recoveries \cup {0}, by: sources,
                           checked: {"no", "released", "ineligible"}, propagated: BOOLEAN, due: BOOLEAN]
  BY <1>3 DEF CoveredRow
<1> QED
  BY <1>2, <1>4 DEF CheckedRow

LEMMA ReconcileKeeps ==
    ASSUME IInv, NEW s \in Recoveries, NEW t \in Recoveries, Reconcile(s, t)
    PROVE  IInv'
<1> DEFINE released == MayRelease(t)
           source == proof[s].source
<1>1. /\ proof \in [Recoveries -> ProofRow(Len(attempts))] /\ recovery \in [Recoveries -> RecoveryRow]
      /\ proof[s] \in ProofRow(Len(attempts)) /\ recovery[t] \in RecoveryRow
  BY DEF IInv, TypeOK
<1>2. /\ source # 0 /\ Complete(proof[s]) /\ (source = t \/ <<source, t>> \in links)
      /\ proof' = [proof EXCEPT ![t] = CheckedRow(CoveredRow(s, t), released)]
      /\ recovery' = [recovery EXCEPT ![t] =
                        [recovery[t] EXCEPT !.kratos = TRUE, !.hydra = TRUE, !.released = released]]
      /\ page' \subseteq page
      /\ UNCHANGED <<links, receipt, eligible, exposed>>
  BY DEF Reconcile
<1>3. /\ source \in Recoveries /\ recovery[source].admitted
      /\ \A q \in 1 .. source, f \in Surfaces : q \notin exposed[f]
  BY <1>1, <1>2, CompleteIsSafe
<1>4. t \in 1 .. source
  BY <1>2, <1>3, RecoveryAssumption DEF IInv, LinksCoverOlder, Recoveries
<1>5. recovery[t].admitted
  <2>1. t = source \/ t \in 1 .. source - 1
    BY <1>3, <1>4, RecoveryAssumption DEF Recoveries
  <2> QED
    BY <1>3, <2>1 DEF IInv, AdmittedInOrder
<1>6. proof' \in [Recoveries -> ProofRow(Len(attempts))]
  BY <1>1, <1>2, ReconciledRow DEF IInv
<1>7. Progress
  <2>1. ApplyToCovered(s, t) \/ UNCHANGED <<reconciled, attempts, job, run>>
    BY DEF Reconcile
  <2> QED
    BY <1>6, <2>1, CoverProgress DEF IInv
<1>8. reconciled' \subseteq links
  <2>1. CASE ApplyToCovered(s, t)
    <3>1. reconciled' = reconciled \cup {<<s, t>>}
      BY <2>1 DEF ApplyToCovered
    <3>2. CASE s = t
      BY <3>2 DEF Reconcile, IInv, TypeOK
    <3>3. CASE s # t
      <4>1. <<s, t>> \in links
        BY <1>2, <3>3 DEF Reconcile
      <4> QED
        BY <3>1, <4>1 DEF IInv, TypeOK
    <3> QED
      BY <3>2, <3>3
  <2>2. CASE UNCHANGED <<reconciled, attempts, job, run>>
    BY <2>2 DEF IInv, TypeOK
  <2> QED
    BY <2>1, <2>2 DEF Reconcile
<1>9. /\ recovery' \in [Recoveries -> RecoveryRow]
      /\ \A q \in Recoveries : recovery'[q].admitted = recovery[q].admitted
      /\ \A q \in Recoveries : recovery'[q].released => q = t \/ recovery[q].released
  <2>1. released \in BOOLEAN
    BY <1>1 DEF IInv, TypeOK, RecoveryRow, MayRelease
  <2> HIDE DEF released
  <2> QED
    BY <1>1, <1>2, <2>1 DEF RecoveryRow
<1>10. TypeOK'
  BY <1>2, <1>7, <1>8, <1>9 DEF IInv, TypeOK, Progress
<1>11. AdmittedInOrder'
  <2>1. \A x \in Recoveries : \A q \in 1 .. x - 1 : q \in Recoveries
    BY RecoveryAssumption DEF Recoveries
  <2> QED
    BY <1>5, <1>9, <2>1 DEF IInv, AdmittedInOrder
<1>12. LinksCoverOlder'
  BY <1>2 DEF IInv, LinksCoverOlder
<1>13. JobsRestOnEvidence' /\ RunsHaveJobs'
  BY <1>2, <1>7, <1>9 DEF IInv, JobsRestOnEvidence, RunsHaveJobs, Progress
<1>14. ReleasedIsSafe'
  BY <1>2, <1>3, <1>4, <1>9 DEF IInv, ReleasedIsSafe
<1>15. \A a \in 1 .. Len(attempts) : attempts[a].recovery \in Recoveries
  BY AttemptSequence DEF IInv, AttemptRow
<1>16. AttemptsHaveJobs' /\ StepsInHand'
  BY <1>7, <1>15 DEF IInv, AttemptsHaveJobs, StepsInHand, Owner, Progress, Succeeds
<1>17. ClaimsAreTrue'
  <2> SUFFICES ASSUME NEW a \in 1 .. Len(attempts), NEW f \in Steps, Revokes(attempts'[a], f)
               PROVE  \A q \in 1 .. attempts'[a].recovery : q \notin exposed[f]
    BY <1>2, <1>7 DEF ClaimsAreTrue, Owner, Progress, Revokes
  <2>1. attempts'[a].recovery = attempts[a].recovery /\ Revokes(attempts[a], f)
    BY <1>7 DEF Progress, Succeeds
  <2> QED
    BY <2>1 DEF IInv, ClaimsAreTrue, Owner
<1> QED
  BY <1>10, <1>11, <1>12, <1>13, <1>14, <1>16, <1>17 DEF IInv

\* Saving an outcome: the provenance names an existing attempt.
LEMMA ProvenanceFacts ==
    ASSUME TypeOK, NEW a \in 1 .. Len(attempts), attempts[a].step \in Steps, job' = Provenance(a)
    PROVE  /\ job' \in [Recoveries -> JobRow(Len(attempts))]
           /\ \A q \in Recoveries : job'[q].exists = job[q].exists
<1> DEFINE claims == 0 .. Len(attempts)
           sources == [Steps -> claims]
           r == attempts[a].recovery
           by == [job[r].confirmedBy EXCEPT ![attempts[a].step] = a]
<1>1. r \in Recoveries /\ job \in [Recoveries -> JobRow(Len(attempts))] /\ job[r] \in JobRow(Len(attempts))
  BY AttemptSequence DEF TypeOK, AttemptRow
<1>2. JobRow(Len(attempts)) = [exists: BOOLEAN, claim: claims, lease: BOOLEAN, confirmedBy: sources]
  BY DEF JobRow
<1>3. by \in sources
  BY <1>1, <1>2, AttemptSequence
<1>4. job' = job \/ job' = [job EXCEPT ![r] = [job[r] EXCEPT !.confirmedBy = by]]
  BY DEF Provenance
<1> HIDE DEF claims, sources, by, r
<1>5. job[r] \in [exists: BOOLEAN, claim: claims, lease: BOOLEAN, confirmedBy: sources]
  BY <1>1, <1>2
<1>6. /\ [job[r] EXCEPT !.confirmedBy = by] \in
           [exists: BOOLEAN, claim: claims, lease: BOOLEAN, confirmedBy: sources]
      /\ [job[r] EXCEPT !.confirmedBy = by].exists = job[r].exists
  BY <1>3, <1>5
<1> QED
  BY <1>1, <1>2, <1>4, <1>6

\* The steps of the worker that stay inside its attempt or end it.
LEMMA WorkKeeps ==
    ASSUME IInv, NEW a \in 1 .. Len(attempts), Work(a)
    PROVE  IInv'
<1>1. /\ attempts[a] \in AttemptRow /\ Owner(a) \in Recoveries
      /\ job \in [Recoveries -> JobRow(Len(attempts))] /\ TypeOK
      /\ proof \in [Recoveries -> ProofRow(Len(attempts))]
  BY AttemptSequence DEF IInv, TypeOK, AttemptRow, Owner
<1>2. page \subseteq Recoveries \X Recoveries /\ receipt \in [Requests -> ReceiptRow] /\ eligible \in BOOLEAN
  BY DEF IInv, TypeOK
<1>3. ASSUME NEW s \in Steps, AdmitStep(a, s)
      PROVE  IInv'
  <2>1. /\ attempts' = [attempts EXCEPT ![a] = Dispatched(attempts[a], s)]
        /\ UNCHANGED <<recovery, links, reconciled, job, run, proof, page, receipt, eligible, exposed>>
    BY <1>3 DEF AdmitStep
  <2>2. Succeeds(Dispatched(attempts[a], s), attempts[a])
    BY <1>1, DispatchedFacts
  <2>3. Progress
    BY <1>1, <2>1, <2>2, AttemptProgress
  <2> QED
    BY <1>2, <2>1, <2>3, ProgressKeeps DEF Quiet
<1>4. ASSUME NEW answer \in Outcomes, NEW effective \in BOOLEAN, CallProvider(a, answer, effective)
      PROVE  IInv'
  BY <1>4, CallProviderKeeps
<1>5. CASE SaveOutcome(a)
  <2>1. /\ attempts' = [attempts EXCEPT ![a] = Saved(attempts[a])] /\ job' = Provenance(a)
        /\ attempts[a].worker \in Outcomes
        /\ UNCHANGED <<recovery, links, reconciled, run, proof, page, receipt, eligible, exposed>>
    BY <1>5 DEF SaveOutcome
  <2>2. attempts[a].step \in Steps
    BY <2>1 DEF IInv, StepsInHand, InHand, Outcomes
  <2>3. Succeeds(Saved(attempts[a]), attempts[a])
    BY <1>1, <2>1, <2>2, SavedFacts
  <2>4. Progress
    BY <1>1, <2>1, <2>2, <2>3, ProvenanceFacts, AttemptProgress
  <2> QED
    BY <1>2, <2>1, <2>4, ProgressKeeps DEF Quiet
<1>6. CASE FinishAttempt(a)
  <2>1. Progress
    BY <1>1, <1>6, FinishRunProgress DEF FinishAttempt
  <2> QED
    BY <1>2, <1>6, <2>1, ProgressKeeps DEF FinishAttempt, Quiet
<1>7. CASE FailAttempt(a)
  <2>1. Progress
    BY <1>1, <1>7, EmptyRows, FinishProgress DEF FailAttempt
  <2> QED
    BY <1>2, <1>7, <2>1, ProgressKeeps DEF FailAttempt, Quiet
<1> QED
  BY <1>3, <1>4, <1>5, <1>6, <1>7 DEF Work

LEMMA PollKeeps ==
    ASSUME IInv, NEW r \in Recoveries, Poll(r)
    PROVE  IInv'
<1>1. /\ TypeOK /\ proof \in [Recoveries -> ProofRow(Len(attempts))]
      /\ page \subseteq Recoveries \X Recoveries /\ receipt \in [Requests -> ReceiptRow] /\ eligible \in BOOLEAN
  BY DEF IInv, TypeOK
<1>2. UNCHANGED <<recovery, links, reconciled, page, receipt, eligible, exposed>>
  BY DEF Poll
<1>3. CASE PollExpired(r)
  <2>1. Progress
    BY <1>1, <1>3, FinishRunProgress DEF PollExpired
  <2> QED
    BY <1>1, <1>2, <2>1, ProgressKeeps DEF Quiet
<1>4. CASE PollEnd(r)
  <2>1. Progress
    BY <1>1, <1>4, EmptyRows, FinishProgress DEF PollEnd
  <2> QED
    BY <1>1, <1>2, <2>1, ProgressKeeps DEF Quiet
<1>5. CASE PollClaim(r)
  BY <1>2, <1>5, PollClaimKeeps
<1> QED
  BY <1>3, <1>4, <1>5 DEF Poll

LEMMA ResumeKeeps ==
    ASSUME IInv, NEW o \in Requests, NEW r \in Recoveries, Resume(o, r)
    PROVE  IInv'
<1>1. /\ TypeOK /\ proof \in [Recoveries -> ProofRow(Len(attempts))] /\ attempts \in Seq(AttemptRow)
      /\ job \in [Recoveries -> JobRow(Len(attempts))] /\ run \in [Recoveries -> RunRow]
      /\ page \subseteq Recoveries \X Recoveries /\ receipt \in [Requests -> ReceiptRow] /\ eligible \in BOOLEAN
  BY DEF IInv, TypeOK
<1>2. UNCHANGED <<recovery, links, reconciled, page, eligible, exposed>>
  BY DEF Resume
<1>3. receipt' \in [Requests -> ReceiptRow]
  <2>1. \A outcome \in {"completed", "confirmed", "authorized"} :
          Replied(o, r, outcome) => receipt' \in [Requests -> ReceiptRow]
    BY <1>1 DEF Replied, ReceiptRow
  <2> QED
    BY <2>1 DEF Resume, ResumeCompleted, ResumeConfirmed, ResumeAuthorized
<1>4. Progress
  <2>1. CASE UNCHANGED <<job, run, attempts, proof>>
    BY <1>1, <2>1, Unmoved DEF Progress
  <2>2. CASE SaveProof(r) /\ UNCHANGED <<job, run, attempts>>
    BY <1>1, <2>2, SavedProof, Unmoved DEF Progress
  <2>3. CASE SaveProof(r) /\ Finish(r, NoRun, FALSE)
    BY <1>1, <2>3, SavedProof, EmptyRows, FinishProgress
  <2>4. CASE ResumeAuthorized(o, r)
    BY <1>1, <2>4, EmptyRows, FinishProgress DEF ResumeAuthorized
  <2> QED
    BY <2>1, <2>2, <2>3, <2>4 DEF Resume, ResumeCompleted, ResumeConfirmed
<1> QED
  BY <1>1, <1>2, <1>3, <1>4, ProgressKeeps DEF Quiet

\* Pages, marks of the reconciler, clocks and the account.
LEMMA RestKeeps ==
    ASSUME IInv, NEW s \in Recoveries,
           \/ ReadPage(s) \/ Defer(s) \/ MarkPropagated(s) \/ ProofDue(s)
           \/ LeaseExpires(s) \/ BecomesDue(s) \/ DeadlinePasses(s) \/ EligibilityChanges
    PROVE  IInv'
<1>1. /\ TypeOK /\ proof \in [Recoveries -> ProofRow(Len(attempts))] /\ attempts \in Seq(AttemptRow)
      /\ job \in [Recoveries -> JobRow(Len(attempts))] /\ run \in [Recoveries -> RunRow]
      /\ page \subseteq Recoveries \X Recoveries /\ receipt \in [Requests -> ReceiptRow] /\ eligible \in BOOLEAN
      /\ proof[s] \in ProofRow(Len(attempts)) /\ run[s] \in RunRow /\ job[s] \in JobRow(Len(attempts))
  BY DEF IInv, TypeOK
<1>2. Progress
  <2>1. CASE UNCHANGED <<job, attempts, run, proof>>
    BY <1>1, <2>1, Unmoved DEF Progress
  <2>2. CASE Defer(s) \/ MarkPropagated(s) \/ ProofDue(s)
    <3>1. \A flag \in BOOLEAN :
            /\ [proof[s] EXCEPT !.due = flag] \in ProofRow(Len(attempts))
            /\ [proof[s] EXCEPT !.propagated = flag] \in ProofRow(Len(attempts))
      BY <1>1 DEF ProofRow
    <3>2. /\ UNCHANGED <<job, attempts, run>>
          /\ \E row \in ProofRow(Len(attempts)) : proof' = [proof EXCEPT ![s] = row]
      BY <1>1, <2>2, <3>1 DEF Defer, MarkPropagated, ProofDue
    <3> QED
      BY <1>1, <3>2, ProofProgress
  <2>3. CASE BecomesDue(s) \/ DeadlinePasses(s)
    <3>1. /\ [run[s] EXCEPT !.due = TRUE] \in RunRow /\ [run[s] EXCEPT !.overdue = TRUE] \in RunRow
          /\ [run[s] EXCEPT !.due = TRUE].open = run[s].open
          /\ [run[s] EXCEPT !.overdue = TRUE].open = run[s].open
      BY <1>1 DEF RunRow
    <3>2. /\ UNCHANGED <<job, attempts, proof>>
          /\ \E row \in RunRow : row.open = run[s].open /\ run' = [run EXCEPT ![s] = row]
      BY <1>1, <2>3, <3>1 DEF BecomesDue, DeadlinePasses
    <3> QED
      BY <1>1, <3>2, RunProgress
  <2>4. CASE LeaseExpires(s)
    <3>1. /\ [job[s] EXCEPT !.lease = FALSE] \in JobRow(Len(attempts))
          /\ [job[s] EXCEPT !.lease = FALSE].exists = job[s].exists
      BY <1>1 DEF JobRow
    <3>2. /\ UNCHANGED <<attempts, run, proof>>
          /\ job' = [job EXCEPT ![s] = [job[s] EXCEPT !.lease = FALSE]]
      BY <2>4 DEF LeaseExpires
    <3>3. /\ job' \in [Recoveries -> JobRow(Len(attempts))]
          /\ \A q \in Recoveries : job'[q].exists = job[q].exists
      BY <1>1, <3>1, <3>2
    <3> QED
      BY <1>1, <3>2, <3>3, Unmoved DEF Progress
  <2> QED
    BY <2>1, <2>2, <2>3, <2>4 DEF ReadPage, EligibilityChanges
<1>3. Quiet
  <2>1. CASE ReadPage(s)
    <3>1. \A x \in Older(s) \cup {<<s, s>>} : \E t \in Recoveries : x = <<s, t>>
      BY DEF Older
    <3>2. page' \subseteq page \cup Older(s) \cup {<<s, s>>}
      BY <2>1 DEF ReadPage
    <3> QED
      BY <1>1, <2>1, <3>1, <3>2 DEF ReadPage, Quiet
  <2>2. CASE Defer(s)
    BY <1>1, <2>2 DEF Defer, Quiet
  <2>3. CASE MarkPropagated(s) \/ ProofDue(s) \/ LeaseExpires(s) \/ BecomesDue(s) \/ DeadlinePasses(s)
    BY <1>1, <2>3 DEF MarkPropagated, ProofDue, LeaseExpires, BecomesDue, DeadlinePasses, Quiet
  <2>4. CASE EligibilityChanges
    BY <1>1, <2>4 DEF EligibilityChanges, Quiet
  <2> QED
    BY <2>1, <2>2, <2>3, <2>4
<1> QED
  BY <1>2, <1>3, ProgressKeeps

LEMMA StepKeeps ==
    ASSUME IInv, [Next]_vars
    PROVE  IInv'
<1>1. DOMAIN attempts = 1 .. Len(attempts)
  BY AttemptSequence DEF IInv
<1>2. CASE UNCHANGED vars
  BY <1>2 DEF vars, IInv, TypeOK, AdmittedInOrder, LinksCoverOlder, JobsRestOnEvidence, RunsHaveJobs,
     AttemptsHaveJobs, ClaimsAreTrue, StepsInHand, ReleasedIsSafe, Owner, Revokes, InHand
<1>3. ASSUME NEW r \in Recoveries, Admit(r) \/ PasswordSaved(r) \/ Poll(r)
      PROVE  IInv'
  BY <1>3, AdmitKeeps, PasswordSavedKeeps, PollKeeps
<1>4. ASSUME NEW a \in DOMAIN attempts, Work(a)
      PROVE  IInv'
  BY <1>1, <1>4, WorkKeeps
<1>5. ASSUME NEW o \in Requests, NEW r \in Recoveries, Resume(o, r)
      PROVE  IInv'
  BY <1>5, ResumeKeeps
<1>6. ASSUME NEW s \in Recoveries, NEW t \in Recoveries, Reconcile(s, t)
      PROVE  IInv'
  BY <1>6, ReconcileKeeps
<1>7. ASSUME NEW s \in Recoveries,
             \/ ReadPage(s) \/ Defer(s) \/ MarkPropagated(s) \/ ProofDue(s)
             \/ LeaseExpires(s) \/ BecomesDue(s) \/ DeadlinePasses(s)
      PROVE  IInv'
  BY <1>7, RestKeeps
<1>8. CASE EligibilityChanges
  <2>1. 1 \in Recoveries
    BY RecoveryAssumption DEF Recoveries
  <2> QED
    BY <1>8, <2>1, RestKeeps
<1> QED
  BY <1>2, <1>3, <1>4, <1>5, <1>6, <1>7, <1>8 DEF Next

LEMMA Invariance == Spec => []IInv
<1>1. Init => IInv
  BY InitInv
<1>2. IInv /\ [Next]_vars => IInv'
  BY StepKeeps
<1> QED
  BY <1>1, <1>2, PTL DEF Spec

-----------------------------------------------------------------------------
(* The theorems. *)

\* Every table keeps its columns' domains, and no run consumes more than its budget.
THEOREM RecoveryTypes == Spec => []TypeOK
<1>1. IInv => TypeOK
  BY DEF IInv
<1> QED
  BY <1>1, Invariance, PTL

\* The product block of a recovery is lifted only when no session, CLI grant or remembered
\* login from before the recovery can still work, whoever called the provider and when.
THEOREM RecoverySafety == Spec => []ReleasedIsSafe
<1>1. IInv => ReleasedIsSafe
  BY DEF IInv
<1> QED
  BY <1>1, Invariance, PTL

-----------------------------------------------------------------------------
(* The contract. *)

\* An admission is the contract's: in order, exposing what was out before.
LEMMA AdmitBlocks ==
    ASSUME IInv, NEW r \in Recoveries, Admit(r)
    PROVE  Contract!Block(r)
<1>1. recovery \in [Recoveries -> RecoveryRow] /\ ~recovery[r].admitted
  BY DEF IInv, TypeOK, Admit
<1>2. recovery' = [recovery EXCEPT ![r] = [recovery[r] EXCEPT !.admitted = TRUE]]
  BY DEF Admit
<1>3. Admitted' = Admitted \cup {r} /\ Released' = Released
  BY <1>1, <1>2 DEF Admitted, Released, RecoveryRow
<1>4. 1 .. r - 1 \subseteq Admitted
  <2>1. 1 .. r - 1 \subseteq Recoveries
    BY RecoveryAssumption DEF Recoveries
  <2> QED
    BY <2>1 DEF Admit, Admitted
<1>5. r \notin Admitted
  BY <1>1 DEF Admitted
<1>6. exposed' = [s \in Surfaces |-> exposed[s] \cup {r}]
  BY DEF Admit
<1> QED
  BY <1>3, <1>4, <1>5, <1>6 DEF Contract!Block

\* Credentials that stop working on one surface are a revocation of the contract.
LEMMA SmallerRevokes ==
    ASSUME NEW s \in Surfaces, NEW left, left \subseteq exposed[s], exposed' = [exposed EXCEPT ![s] = left],
           UNCHANGED <<Admitted, Released>>
    PROVE  Contract!Revoke(s)
<1>1. exposed[s] \ left \in SUBSET exposed[s] /\ exposed[s] \ (exposed[s] \ left) = left
  OBVIOUS
<1>2. exposed' = [exposed EXCEPT ![s] = exposed[s] \ (exposed[s] \ left)]
  BY <1>1
<1> QED
  BY <1>1, <1>2 DEF Contract!Revoke

LEMMA PasswordRevokes ==
    ASSUME IInv, NEW r \in Recoveries, PasswordSaved(r)
    PROVE  Contract!Revoke("sessions")
<1>1. recovery \in [Recoveries -> RecoveryRow]
  BY DEF IInv, TypeOK
<1>2. recovery' = [recovery EXCEPT ![r] = [recovery[r] EXCEPT !.kratos = TRUE]]
  BY DEF PasswordSaved
<1>3. UNCHANGED <<Admitted, Released>>
  BY <1>1, <1>2 DEF Admitted, Released, RecoveryRow
<1>4. exposed' = [exposed EXCEPT !["sessions"] = exposed["sessions"] \ (1 .. r)]
  BY DEF PasswordSaved
<1>5. exposed["sessions"] \ (1 .. r) \subseteq exposed["sessions"]
  OBVIOUS
<1>6. "sessions" \in Surfaces
  BY DEF Surfaces
<1> HIDE DEF Surfaces
<1> QED
  BY <1>3, <1>4, <1>5, <1>6, SmallerRevokes

LEMMA CallRevokes ==
    ASSUME IInv, NEW a \in 1 .. Len(attempts), NEW answer \in Outcomes, NEW effective \in BOOLEAN,
           CallProvider(a, answer, effective)
    PROVE  (\E s \in Surfaces : Contract!Revoke(s)) \/ UNCHANGED <<Admitted, Released, exposed>>
<1>1. attempts[a].step \in Surfaces
  BY DEF IInv, StepsInHand, InHand, CallProvider, Surfaces
<1>2. UNCHANGED <<Admitted, Released>>
  BY DEF CallProvider, Admitted, Released
<1>3. CASE effective
  <2>1. exposed' = [exposed EXCEPT ![attempts[a].step] = Revoked(attempts[a].step)]
    BY <1>3 DEF CallProvider
  <2>2. Revoked(attempts[a].step) \subseteq exposed[attempts[a].step]
    BY DEF Revoked
  <2> QED
    BY <1>1, <1>2, <2>1, <2>2, SmallerRevokes
<1>4. CASE ~effective
  BY <1>2, <1>4 DEF CallProvider
<1> QED
  BY <1>3, <1>4

\* A reconciliation releases its target, or leaves its block as it was.
LEMMA ReconcileReleases ==
    ASSUME IInv, NEW s \in Recoveries, NEW t \in Recoveries, Reconcile(s, t)
    PROVE  Contract!Release(t) \/ UNCHANGED <<Admitted, Released, exposed>>
<1> DEFINE source == proof[s].source
           released == MayRelease(t)
<1>1. /\ recovery \in [Recoveries -> RecoveryRow] /\ proof[s] \in ProofRow(Len(attempts))
      /\ released \in BOOLEAN
  BY DEF IInv, TypeOK, MayRelease, RecoveryRow
<1>2. /\ source # 0 /\ Complete(proof[s]) /\ (source = t \/ <<source, t>> \in links)
      /\ recovery' = [recovery EXCEPT ![t] =
                        [recovery[t] EXCEPT !.kratos = TRUE, !.hydra = TRUE, !.released = released]]
      /\ UNCHANGED exposed
  BY DEF Reconcile
<1>3. /\ source \in Recoveries /\ recovery[source].admitted
      /\ \A q \in 1 .. source, f \in Surfaces : q \notin exposed[f]
  BY <1>1, <1>2, CompleteIsSafe
<1>4. t \in 1 .. source
  BY <1>2, <1>3, RecoveryAssumption DEF IInv, LinksCoverOlder, Recoveries
<1>5. recovery[t].admitted
  <2>1. t = source \/ t \in 1 .. source - 1
    BY <1>3, <1>4, RecoveryAssumption DEF Recoveries
  <2> QED
    BY <1>3, <2>1 DEF IInv, AdmittedInOrder
<1>6. recovery[t].released => released
  BY DEF MayRelease
<1> HIDE DEF released, source
<1>7. Admitted' = Admitted
  BY <1>1, <1>2 DEF Admitted, RecoveryRow
<1>8. Released' = IF released THEN Released \cup {t} ELSE Released
  BY <1>1, <1>2, <1>6 DEF Released, RecoveryRow
<1>9. t \in Admitted /\ \A f \in Surfaces : t \notin exposed[f]
  BY <1>3, <1>4, <1>5 DEF Admitted
<1> QED
  BY <1>2, <1>7, <1>8, <1>9 DEF Contract!Release

\* What cleanup does besides is invisible to the contract.
LEMMA RestIsSilent ==
    ASSUME UNCHANGED <<recovery, exposed>>
    PROVE  UNCHANGED <<Admitted, Released, exposed>>
BY DEF Admitted, Released

LEMMA EveryStepKeepsTheContract ==
    IInv /\ [Next]_vars => [Contract!ContractNext]_Contract!contractVars
<1> SUFFICES ASSUME IInv, [Next]_vars
             PROVE  Contract!ContractNext \/ UNCHANGED <<Admitted, Released, exposed>>
  BY DEF Contract!contractVars
<1>1. DOMAIN attempts = 1 .. Len(attempts)
  BY AttemptSequence DEF IInv
<1>2. Recoveries = 1 .. MaxRecoveries
  BY DEF Recoveries
<1>3. CASE UNCHANGED vars
  BY <1>3, RestIsSilent DEF vars
<1>4. ASSUME NEW r \in Recoveries, Admit(r) \/ PasswordSaved(r)
      PROVE  Contract!ContractNext
  <2>1. "sessions" \in Surfaces
    BY DEF Surfaces
  <2> QED
    BY <1>2, <1>4, <2>1, AdmitBlocks, PasswordRevokes DEF Contract!ContractNext
<1>5. ASSUME NEW r \in Recoveries, Poll(r) \/ LeaseExpires(r) \/ BecomesDue(r) \/ DeadlinePasses(r)
      PROVE  UNCHANGED <<Admitted, Released, exposed>>
  <2>1. UNCHANGED <<recovery, exposed>>
    BY <1>5 DEF Poll, LeaseExpires, BecomesDue, DeadlinePasses
  <2> QED
    BY <2>1, RestIsSilent
<1>6. ASSUME NEW a \in DOMAIN attempts, Work(a)
      PROVE  Contract!ContractNext \/ UNCHANGED <<Admitted, Released, exposed>>
  <2>1. CASE \E answer \in Outcomes, effective \in BOOLEAN : CallProvider(a, answer, effective)
    BY <1>1, <1>6, <2>1, CallRevokes DEF Contract!ContractNext
  <2>2. CASE (\E s \in Steps : AdmitStep(a, s)) \/ SaveOutcome(a) \/ FinishAttempt(a) \/ FailAttempt(a)
    <3>1. UNCHANGED <<recovery, exposed>>
      BY <2>2 DEF AdmitStep, SaveOutcome, FinishAttempt, FailAttempt
    <3> QED
      BY <3>1, RestIsSilent
  <2> QED
    BY <1>6, <2>1, <2>2 DEF Work
<1>7. ASSUME NEW o \in Requests, NEW r \in Recoveries, Resume(o, r)
      PROVE  UNCHANGED <<Admitted, Released, exposed>>
  BY <1>7, RestIsSilent DEF Resume
<1>8. ASSUME NEW s \in Recoveries, ReadPage(s) \/ Defer(s) \/ MarkPropagated(s) \/ ProofDue(s)
      PROVE  UNCHANGED <<Admitted, Released, exposed>>
  <2>1. UNCHANGED <<recovery, exposed>>
    BY <1>8 DEF ReadPage, Defer, MarkPropagated, ProofDue
  <2> QED
    BY <2>1, RestIsSilent
<1>9. ASSUME NEW s \in Recoveries, NEW t \in Recoveries, Reconcile(s, t)
      PROVE  Contract!ContractNext \/ UNCHANGED <<Admitted, Released, exposed>>
  BY <1>2, <1>9, ReconcileReleases DEF Contract!ContractNext
<1>10. CASE EligibilityChanges
  BY <1>10, RestIsSilent DEF EligibilityChanges
<1> QED
  BY <1>3, <1>4, <1>5, <1>6, <1>7, <1>8, <1>9, <1>10 DEF Next

\* Recovery keeps its contract: a block is lifted once, only when nothing issued before works,
\* and nothing that was revoked works again but by the next recovery's own count.
THEOREM RecoveryImplementsContract == Spec => ImplementsRecoveryContract
<1>1. Init => Contract!ContractInit
  BY DEF Init, Contract!ContractInit, Admitted, Released, NoRecovery
<1>2. IInv /\ [Next]_vars => [Contract!ContractNext]_Contract!contractVars
  BY EveryStepKeepsTheContract
<1> QED
  BY <1>1, <1>2, Invariance, PTL DEF Spec, ImplementsRecoveryContract, Contract!ContractSpec
-----------------------------------------------------------------------------
(* Claims, runs and proofs. *)

\* A proof is saved only for a recovery that had a cleanup job, or was covered by a newer one:
\* neither is handed to cleanup again.
ProofsRest ==
    \A r \in Recoveries : proof[r].source # 0 => job[r].exists \/ recovery[r].hydra

ClaimInv == IInv /\ ClaimAgreesWithHistory /\ ProvedWorkIsOver /\ ProofsRest

\* The part of the state the claims depend on, as every step but a new claim changes it:
\* jobs keep their claim or lose it, and with it the open attempt.
ClaimStep ==
    /\ DOMAIN attempts' = DOMAIN attempts
    /\ \A b \in DOMAIN attempts :
         /\ attempts'[b].recovery = attempts[b].recovery
         /\ attempts'[b].open <=> attempts[b].open /\ job'[Owner(b)].claim = b
    /\ \A q \in Recoveries :
         /\ job'[q].claim = job[q].claim \/ job'[q].claim = 0
         /\ job'[q].claim # 0 => run'[q].open
         /\ job[q].exists => job'[q].exists
         /\ proof'[q].source # 0 =>
              ~run'[q].open /\ job'[q].claim = 0 /\ (job'[q].exists \/ recovery'[q].hydra)

\* The attempts and what they belong to.
LEMMA OwnersAreRecoveries ==
    ASSUME IInv
    PROVE  /\ DOMAIN attempts = 1 .. Len(attempts) /\ Len(attempts) \in Nat
           /\ \A b \in DOMAIN attempts : attempts[b] \in AttemptRow /\ Owner(b) \in Recoveries /\ b # 0
  BY AttemptSequence DEF IInv, AttemptRow, Owner

LEMMA ClaimStepKeeps ==
    ASSUME ClaimInv, ClaimStep
    PROVE  ClaimAgreesWithHistory' /\ ProvedWorkIsOver' /\ ProofsRest'
<1>1. \A b \in DOMAIN attempts : Owner(b) \in Recoveries /\ b # 0
  BY OwnersAreRecoveries DEF ClaimInv
<1>2. \A b \in DOMAIN attempts : attempts'[b].recovery = Owner(b)
  BY DEF ClaimStep, Owner
<1>3. \A q \in Recoveries : job[q].claim # 0 => job[q].claim \in DOMAIN attempts
  <2>1. job \in [Recoveries -> JobRow(Len(attempts))]
    BY DEF ClaimInv, IInv, TypeOK
  <2>2. \A q \in Recoveries : job[q].claim \in 0 .. Len(attempts)
    BY <2>1 DEF JobRow
  <2> QED
    BY <2>2, OwnersAreRecoveries DEF ClaimInv
<1>4. ASSUME NEW b \in DOMAIN attempts
      PROVE  attempts'[b].open <=> job'[Owner(b)].claim = b
  BY <1>1, <1>4 DEF ClaimInv, ClaimAgreesWithHistory, ClaimStep
<1>5. ASSUME NEW q \in Recoveries, job'[q].claim # 0
      PROVE  run'[q].open /\ attempts'[job'[q].claim].recovery = q
  <2>1. job'[q].claim = job[q].claim /\ run'[q].open
    BY <1>5 DEF ClaimStep
  <2>2. Owner(job[q].claim) = q /\ job[q].claim \in DOMAIN attempts
    BY <1>3, <1>5, <2>1 DEF ClaimInv, ClaimAgreesWithHistory
  <2> QED
    BY <1>2, <2>1, <2>2
<1>6. ClaimAgreesWithHistory'
  <2>1. DOMAIN attempts' = DOMAIN attempts
    BY DEF ClaimStep
  <2> QED
    BY <1>2, <1>4, <1>5, <2>1 DEF ClaimAgreesWithHistory, Owner
<1> QED
  BY <1>6 DEF ClaimStep, ProvedWorkIsOver, ProofsRest

\* Steps that touch neither a claim nor the opening of a run.
LEMMA ClaimsUntouched ==
    ASSUME ClaimInv, DOMAIN attempts' = DOMAIN attempts,
           \A b \in DOMAIN attempts :
             attempts'[b].recovery = attempts[b].recovery /\ attempts'[b].open = attempts[b].open,
           \A q \in Recoveries :
             /\ job'[q].claim = job[q].claim /\ job'[q].exists = job[q].exists
             /\ run'[q].open = run[q].open /\ proof'[q].source = proof[q].source
             /\ recovery'[q].hydra = recovery[q].hydra
    PROVE  ClaimStep
<1>1. \A b \in DOMAIN attempts : Owner(b) \in Recoveries
  BY OwnersAreRecoveries DEF ClaimInv
<1>2. ASSUME NEW b \in DOMAIN attempts
      PROVE  /\ attempts'[b].recovery = attempts[b].recovery
             /\ attempts'[b].open <=> attempts[b].open /\ job'[Owner(b)].claim = b
  BY <1>1, <1>2 DEF ClaimInv, ClaimAgreesWithHistory
<1>3. ASSUME NEW q \in Recoveries
      PROVE  /\ job'[q].claim = job[q].claim \/ job'[q].claim = 0
             /\ job'[q].claim # 0 => run'[q].open
             /\ job[q].exists => job'[q].exists
             /\ proof'[q].source # 0 =>
                  ~run'[q].open /\ job'[q].claim = 0 /\ (job'[q].exists \/ recovery'[q].hydra)
  BY <1>3 DEF ClaimInv, ClaimAgreesWithHistory, ProvedWorkIsOver, ProofsRest
<1> QED
  BY <1>2, <1>3 DEF ClaimStep

\* The job of r loses its claim and its attempt is closed; the run is replaced.
Freeing(r, next) ==
    /\ DOMAIN attempts' = DOMAIN attempts
    /\ \A b \in DOMAIN attempts :
         /\ attempts'[b].recovery = attempts[b].recovery
         /\ attempts'[b].open <=> attempts[b].open /\ b # job[r].claim
    /\ \A q \in Recoveries :
         /\ job'[q].claim = IF q = r THEN 0 ELSE job[q].claim
         /\ job'[q].exists = job[q].exists
    /\ run' = [run EXCEPT ![r] = next]

LEMMA FreeingIsClaimStep ==
    ASSUME ClaimInv, NEW r \in Recoveries, NEW next, Freeing(r, next),
           proof'[r].source # 0 => ~next.open /\ (job[r].exists \/ recovery'[r].hydra),
           \A q \in Recoveries \ {r} :
             proof'[q].source = proof[q].source /\ recovery'[q].hydra = recovery[q].hydra
    PROVE  ClaimStep
<1>1. \A b \in DOMAIN attempts : Owner(b) \in Recoveries /\ b # 0
  BY OwnersAreRecoveries DEF ClaimInv
<1>2. run \in [Recoveries -> RunRow]
  BY DEF ClaimInv, IInv, TypeOK
<1>3. \A q \in Recoveries : run'[q] = IF q = r THEN next ELSE run[q]
  BY <1>2 DEF Freeing
<1>4. ASSUME NEW b \in DOMAIN attempts
      PROVE  /\ attempts'[b].recovery = attempts[b].recovery
             /\ attempts'[b].open <=> attempts[b].open /\ job'[Owner(b)].claim = b
  <2>1. attempts[b].open <=> job[Owner(b)].claim = b
    BY <1>4 DEF ClaimInv, ClaimAgreesWithHistory
  <2>2. job[r].claim = b => Owner(b) = r
    BY <1>1 DEF ClaimInv, ClaimAgreesWithHistory
  <2>3. job'[Owner(b)].claim = IF Owner(b) = r THEN 0 ELSE job[Owner(b)].claim
    BY <1>1 DEF Freeing
  <2>4. /\ attempts'[b].recovery = attempts[b].recovery
        /\ attempts'[b].open <=> attempts[b].open /\ b # job[r].claim
    BY DEF Freeing
  <2> QED
    BY <1>1, <2>1, <2>2, <2>3, <2>4
<1>5. ASSUME NEW q \in Recoveries
      PROVE  /\ job'[q].claim = job[q].claim \/ job'[q].claim = 0
             /\ job'[q].claim # 0 => run'[q].open
             /\ job[q].exists => job'[q].exists
             /\ proof'[q].source # 0 =>
                  ~run'[q].open /\ job'[q].claim = 0 /\ (job'[q].exists \/ recovery'[q].hydra)
  <2>1. CASE q = r
    BY <1>3, <2>1 DEF Freeing
  <2>2. CASE q # r
    <3>1. /\ job'[q].claim = job[q].claim /\ job'[q].exists = job[q].exists
          /\ run'[q] = run[q] /\ proof'[q].source = proof[q].source
          /\ recovery'[q].hydra = recovery[q].hydra
      BY <1>3, <2>2 DEF Freeing
    <3> QED
      BY <3>1 DEF ClaimInv, ClaimAgreesWithHistory, ProvedWorkIsOver, ProofsRest
  <2> QED
    BY <2>1, <2>2
<1> QED
  BY <1>4, <1>5 DEF ClaimStep, Freeing

\* Closing the claimed attempt: the same row but open, whatever else of it is rewritten.
LEMMA ClosingFacts ==
    ASSUME ClaimInv, NEW r \in Recoveries,
           NEW row, row.recovery = attempts[job[r].claim].recovery, row.open = FALSE,
           attempts' = IF job[r].claim = 0 THEN attempts
                       ELSE [attempts EXCEPT ![job[r].claim] = row]
    PROVE  /\ DOMAIN attempts' = DOMAIN attempts
           /\ \A b \in DOMAIN attempts :
                /\ attempts'[b].recovery = attempts[b].recovery
                /\ attempts'[b].open <=> attempts[b].open /\ b # job[r].claim
<1>1. \A b \in DOMAIN attempts : b # 0
  BY OwnersAreRecoveries DEF ClaimInv
<1>2. CASE job[r].claim = 0
  BY <1>1, <1>2
<1>3. CASE job[r].claim # 0
  <2>1. attempts' = [attempts EXCEPT ![job[r].claim] = row]
    BY <1>3
  <2>2. DOMAIN attempts' = DOMAIN attempts
    BY <2>1
  <2>3. \A b \in DOMAIN attempts : attempts'[b] = IF b = job[r].claim THEN row ELSE attempts[b]
    BY <2>1
  <2> QED
    BY <2>2, <2>3
<1> QED
  BY <1>2, <1>3

LEMMA FreedJobs ==
    ASSUME IInv, NEW r \in Recoveries, job' = [job EXCEPT ![r] = Freed(job[r])]
    PROVE  \A q \in Recoveries :
             /\ job'[q].claim = IF q = r THEN 0 ELSE job[q].claim
             /\ job'[q].exists = job[q].exists
<1>1. job \in [Recoveries -> JobRow(Len(attempts))] /\ job[r] \in JobRow(Len(attempts))
  BY DEF IInv, TypeOK
<1>2. Freed(job[r]).claim = 0 /\ Freed(job[r]).exists = job[r].exists
  BY <1>1 DEF Freed, JobRow
<1> QED
  BY <1>1, <1>2

LEMMA FinishFrees ==
    ASSUME ClaimInv, NEW r \in Recoveries, NEW next, NEW own \in BOOLEAN, Finish(r, next, own)
    PROVE  Freeing(r, next)
<1>1. \A b \in DOMAIN attempts : attempts[b] \in AttemptRow
  BY OwnersAreRecoveries DEF ClaimInv
<1>2. job[r].claim # 0 => job[r].claim \in DOMAIN attempts
  <2>1. job[r].claim \in 0 .. Len(attempts)
    BY DEF ClaimInv, IInv, TypeOK, JobRow
  <2> QED
    BY <2>1, OwnersAreRecoveries DEF ClaimInv
<1>3. /\ DOMAIN attempts' = DOMAIN attempts
      /\ \A b \in DOMAIN attempts :
           /\ attempts'[b].recovery = attempts[b].recovery
           /\ attempts'[b].open <=> attempts[b].open /\ b # job[r].claim
  <2>1. CASE job[r].claim = 0
    <3>1. attempts' = attempts
      BY <2>1 DEF Finish
    <3> QED
      BY <2>1, <3>1, OwnersAreRecoveries DEF ClaimInv
  <2>2. CASE job[r].claim # 0
    <3> DEFINE row == Ended(attempts[job[r].claim], own)
    <3>1. attempts[job[r].claim] \in AttemptRow
      BY <1>1, <1>2, <2>2
    <3>2. row.open = FALSE /\ row.recovery = attempts[job[r].claim].recovery
      BY <3>1 DEF Ended, AttemptRow
    <3>3. attempts' = [attempts EXCEPT ![job[r].claim] = row]
      BY <2>2 DEF Finish
    <3> HIDE DEF row
    <3> QED
      BY <2>2, <3>2, <3>3, ClosingFacts
  <2> QED
    BY <2>1, <2>2
<1>4. job' = [job EXCEPT ![r] = Freed(job[r])] /\ run' = [run EXCEPT ![r] = next]
  BY DEF Finish
<1> QED
  BY <1>3, <1>4, FreedJobs DEF Freeing, ClaimInv

\* A finish is a step of the claims if its proof is saved only when the run ends.
LEMMA FinishClaims ==
    ASSUME ClaimInv, NEW r \in Recoveries, NEW next, NEW own \in BOOLEAN, Finish(r, next, own),
           UNCHANGED recovery, job[r].exists,
           \/ SaveProof(r) /\ ~next.open
           \/ UNCHANGED proof /\ (next.open => run[r].open \/ proof[r].source = 0)
    PROVE  ClaimStep
<1>1. Freeing(r, next)
  BY FinishFrees
<1>2. proof \in [Recoveries -> ProofRow(Len(attempts))]
  BY DEF ClaimInv, IInv, TypeOK
<1>3. \A q \in Recoveries \ {r} : proof'[q].source = proof[q].source
  BY <1>2 DEF SaveProof
<1>4. proof'[r].source # 0 => ~next.open
  BY DEF ClaimInv, ProvedWorkIsOver
<1> QED
  BY <1>1, <1>3, <1>4, FreeingIsClaimStep

LEMMA FinishRunClaims ==
    ASSUME ClaimInv, NEW r \in Recoveries, NEW own \in BOOLEAN, FinishRun(r, own), run[r].open,
           UNCHANGED recovery
    PROVE  ClaimStep
<1>1. job[r].exists
  BY DEF ClaimInv, IInv, RunsHaveJobs
<1>2. CASE SaveProof(r) /\ Finish(r, NoRun, own)
  BY <1>1, <1>2, EmptyRows, FinishClaims
<1>3. CASE Finish(r, NoRun, own) /\ UNCHANGED proof
  BY <1>1, <1>3, EmptyRows, FinishClaims
<1>4. CASE Finish(r, [run[r] EXCEPT !.due = FALSE], own) /\ UNCHANGED proof
  BY <1>1, <1>4, FinishClaims
<1> QED
  BY <1>2, <1>3, <1>4 DEF FinishRun

\* A worker's stages before the last one keep its claim.
LEMMA WorkClaims ==
    ASSUME ClaimInv, NEW a \in DOMAIN attempts, Work(a)
    PROVE  ClaimStep
<1>1. /\ attempts[a] \in AttemptRow /\ Owner(a) \in Recoveries
      /\ job \in [Recoveries -> JobRow(Len(attempts))]
  BY OwnersAreRecoveries DEF ClaimInv, IInv, TypeOK
<1>2. ASSUME NEW row, row.recovery = attempts[a].recovery, row.open = attempts[a].open,
             attempts' = [attempts EXCEPT ![a] = row], UNCHANGED <<run, proof, recovery>>,
             \A q \in Recoveries : job'[q].claim = job[q].claim /\ job'[q].exists = job[q].exists
      PROVE  ClaimStep
  <2>1. DOMAIN attempts' = DOMAIN attempts
    BY <1>2
  <2>2. \A b \in DOMAIN attempts : attempts'[b] = IF b = a THEN row ELSE attempts[b]
    BY <1>2
  <2> QED
    BY <1>2, <2>1, <2>2, ClaimsUntouched
<1>3. ASSUME NEW s \in Steps, AdmitStep(a, s)
      PROVE  ClaimStep
  <2> DEFINE row == Dispatched(attempts[a], s)
  <2>1. row.recovery = attempts[a].recovery /\ row.open = attempts[a].open
    BY <1>1 DEF Dispatched, AttemptRow
  <2>2. attempts' = [attempts EXCEPT ![a] = row] /\ UNCHANGED <<job, run, proof, recovery>>
    BY <1>3 DEF AdmitStep
  <2> HIDE DEF row
  <2> QED
    BY <1>2, <2>1, <2>2
<1>4. ASSUME NEW answer \in Outcomes, NEW effective \in BOOLEAN, CallProvider(a, answer, effective)
      PROVE  ClaimStep
  <2> DEFINE next == IF Owned(a) THEN answer ELSE "idle"
             row == [attempts[a] EXCEPT !.worker = next]
  <2>1. row.recovery = attempts[a].recovery /\ row.open = attempts[a].open
    BY <1>1 DEF AttemptRow
  <2>2. attempts' = [attempts EXCEPT ![a] = row] /\ UNCHANGED <<job, run, proof, recovery>>
    BY <1>4 DEF CallProvider
  <2> HIDE DEF row
  <2> QED
    BY <1>2, <2>1, <2>2
<1>5. CASE SaveOutcome(a)
  <2> DEFINE row == Saved(attempts[a])
             sources == [job[Owner(a)].confirmedBy EXCEPT ![attempts[a].step] = a]
             kept == [job[Owner(a)] EXCEPT !.confirmedBy = sources]
  <2>1. row.recovery = attempts[a].recovery /\ row.open = attempts[a].open
    BY <1>1 DEF Saved, AttemptRow
  <2>2. attempts' = [attempts EXCEPT ![a] = row] /\ UNCHANGED <<run, proof, recovery>>
    BY <1>5 DEF SaveOutcome
  <2>3. \A q \in Recoveries : job'[q].claim = job[q].claim /\ job'[q].exists = job[q].exists
    <3>1. job' = job \/ job' = [job EXCEPT ![Owner(a)] = kept]
      BY <1>5 DEF SaveOutcome, Provenance, Owner
    <3>2. kept.claim = job[Owner(a)].claim /\ kept.exists = job[Owner(a)].exists
      BY <1>1 DEF JobRow
    <3> HIDE DEF kept
    <3> QED
      BY <1>1, <3>1, <3>2
  <2> HIDE DEF row
  <2> QED
    BY <1>2, <2>1, <2>2, <2>3
<1>6. CASE FinishAttempt(a)
  BY <1>1, <1>6, FinishRunClaims DEF FinishAttempt, Owned
<1>7. CASE FailAttempt(a)
  <2>1. job[Owner(a)].exists
    BY <1>1, <1>7 DEF FailAttempt, Owned, ClaimInv, IInv, RunsHaveJobs
  <2> QED
    BY <1>1, <1>7, <2>1, EmptyRows, FinishClaims DEF FailAttempt
<1> QED
  BY <1>3, <1>4, <1>5, <1>6, <1>7 DEF Work

LEMMA ResumeClaims ==
    ASSUME ClaimInv, NEW o \in Requests, NEW r \in Recoveries, Resume(o, r)
    PROVE  ClaimStep
<1>1. UNCHANGED recovery
  BY DEF Resume
<1>2. CASE UNCHANGED <<job, run, attempts, proof>>
  BY <1>1, <1>2, ClaimsUntouched
<1>3. CASE SaveProof(r) /\ job[r].exists /\ ~run[r].open /\ UNCHANGED <<job, run, attempts>>
  <2>1. proof \in [Recoveries -> ProofRow(Len(attempts))]
    BY DEF ClaimInv, IInv, TypeOK
  <2>2. \A q \in Recoveries \ {r} : proof'[q].source = proof[q].source
    BY <1>3, <2>1 DEF SaveProof
  <2>3. /\ DOMAIN attempts' = DOMAIN attempts
        /\ \A b \in DOMAIN attempts :
             /\ attempts'[b].recovery = attempts[b].recovery
             /\ attempts'[b].open <=> attempts[b].open /\ job'[Owner(b)].claim = b
    BY <1>3, OwnersAreRecoveries DEF ClaimInv, ClaimAgreesWithHistory
  <2>4. \A q \in Recoveries :
          /\ job'[q].claim = job[q].claim \/ job'[q].claim = 0
          /\ job'[q].claim # 0 => run'[q].open
          /\ job[q].exists => job'[q].exists
          /\ proof'[q].source # 0 =>
               ~run'[q].open /\ job'[q].claim = 0 /\ (job'[q].exists \/ recovery'[q].hydra)
    BY <1>1, <1>3, <2>2 DEF ClaimInv, ClaimAgreesWithHistory, ProvedWorkIsOver, ProofsRest
  <2> QED
    BY <2>3, <2>4 DEF ClaimStep
<1>4. CASE SaveProof(r) /\ job[r].exists /\ Finish(r, NoRun, FALSE)
  BY <1>1, <1>4, EmptyRows, FinishClaims
<1>5. CASE ResumeAuthorized(o, r)
  BY <1>1, <1>5, FinishClaims DEF ResumeAuthorized
<1> QED
  BY <1>2, <1>3, <1>4, <1>5 DEF Resume, ResumeCompleted, ResumeConfirmed

LEMMA ReconcileClaims ==
    ASSUME ClaimInv, NEW s \in Recoveries, NEW t \in Recoveries, Reconcile(s, t)
    PROVE  ClaimStep
<1> DEFINE released == MayRelease(t)
           row == CheckedRow(CoveredRow(s, t), released)
           next == [recovery[t] EXCEPT !.kratos = TRUE, !.hydra = TRUE, !.released = released]
<1>1. /\ proof \in [Recoveries -> ProofRow(Len(attempts))] /\ recovery \in [Recoveries -> RecoveryRow]
      /\ proof[s] \in ProofRow(Len(attempts)) /\ proof[t] \in ProofRow(Len(attempts))
      /\ recovery[t] \in RecoveryRow
  BY DEF ClaimInv, IInv, TypeOK
<1>2. /\ proof' = [proof EXCEPT ![t] = row] /\ recovery' = [recovery EXCEPT ![t] = next]
      /\ proof[s].source # 0
  BY DEF Reconcile
<1>3. next.hydra = TRUE
  BY <1>1 DEF RecoveryRow
<1>4. s = t => row.source = proof[t].source
  BY <1>1 DEF CheckedRow, CoveredRow, ProofRow
<1> HIDE DEF row, next
<1>5. \A q \in Recoveries \ {t} :
        proof'[q].source = proof[q].source /\ recovery'[q].hydra = recovery[q].hydra
  BY <1>1, <1>2
<1>6. recovery'[t].hydra /\ proof'[t].source = row.source
  BY <1>1, <1>2, <1>3
<1>7. CASE s = t
  <2>1. UNCHANGED <<attempts, job, run>> /\ proof'[t].source = proof[t].source
    BY <1>4, <1>6, <1>7 DEF Reconcile
  <2>2. ~run[t].open /\ job[t].claim = 0
    BY <1>2, <1>7 DEF ClaimInv, ProvedWorkIsOver
  <2>3. /\ DOMAIN attempts' = DOMAIN attempts
        /\ \A b \in DOMAIN attempts :
             /\ attempts'[b].recovery = attempts[b].recovery
             /\ attempts'[b].open <=> attempts[b].open /\ job'[Owner(b)].claim = b
    BY <2>1, OwnersAreRecoveries DEF ClaimInv, ClaimAgreesWithHistory
  <2>4. ASSUME NEW q \in Recoveries
        PROVE  /\ job'[q].claim = job[q].claim \/ job'[q].claim = 0
               /\ job'[q].claim # 0 => run'[q].open
               /\ job[q].exists => job'[q].exists
               /\ proof'[q].source # 0 =>
                    ~run'[q].open /\ job'[q].claim = 0 /\ (job'[q].exists \/ recovery'[q].hydra)
    <3>1. CASE q = t
      BY <1>6, <2>1, <2>2, <3>1
    <3>2. CASE q # t
      BY <1>5, <2>1, <3>2 DEF ClaimInv, ClaimAgreesWithHistory, ProvedWorkIsOver, ProofsRest
    <3> QED
      BY <3>1, <3>2
  <2> QED
    BY <2>3, <2>4 DEF ClaimStep
<1>8. CASE s # t
  <2>1. /\ attempts' = IF job[t].claim = 0 THEN attempts
                       ELSE [attempts EXCEPT ![job[t].claim].open = FALSE]
        /\ job' = [job EXCEPT ![t] = Freed(job[t])] /\ run' = [run EXCEPT ![t] = NoRun]
    BY <1>8 DEF Reconcile, ApplyToCovered
  <2>2. /\ DOMAIN attempts' = DOMAIN attempts
        /\ \A b \in DOMAIN attempts :
             /\ attempts'[b].recovery = attempts[b].recovery
             /\ attempts'[b].open <=> attempts[b].open /\ b # job[t].claim
    <3>1. CASE job[t].claim = 0
      BY <2>1, <3>1, OwnersAreRecoveries DEF ClaimInv
    <3>2. CASE job[t].claim # 0
      <4> DEFINE closed == [attempts[job[t].claim] EXCEPT !.open = FALSE]
      <4>1. job[t].claim \in DOMAIN attempts
        <5>1. job[t].claim \in 0 .. Len(attempts)
          BY DEF ClaimInv, IInv, TypeOK, JobRow
        <5> QED
          BY <3>2, <5>1, OwnersAreRecoveries DEF ClaimInv
      <4>2. closed.open = FALSE /\ closed.recovery = attempts[job[t].claim].recovery
        BY <4>1, OwnersAreRecoveries DEF ClaimInv, AttemptRow
      <4>3. attempts' = [attempts EXCEPT ![job[t].claim] = closed]
        BY <2>1, <3>2
      <4> HIDE DEF closed
      <4> QED
        BY <3>2, <4>2, <4>3, ClosingFacts
    <3> QED
      BY <3>1, <3>2
  <2>3. Freeing(t, NoRun)
    BY <2>1, <2>2, FreedJobs DEF Freeing, ClaimInv
  <2> QED
    BY <1>5, <1>6, <2>3, EmptyRows, FreeingIsClaimStep
<1> QED
  BY <1>7, <1>8

LEMMA PasswordClaims ==
    ASSUME ClaimInv, NEW r \in Recoveries, PasswordSaved(r)
    PROVE  ClaimStep
<1> DEFINE flag == job[r].exists \/ Handoff(r)
           row == [job[r] EXCEPT !.exists = flag]
<1>1. /\ recovery \in [Recoveries -> RecoveryRow] /\ job \in [Recoveries -> JobRow(Len(attempts))]
      /\ run \in [Recoveries -> RunRow]
  BY DEF ClaimInv, IInv, TypeOK
<1>2. /\ job' = [job EXCEPT ![r] = row] /\ UNCHANGED <<attempts, proof>>
      /\ recovery' = [recovery EXCEPT ![r] = [recovery[r] EXCEPT !.kratos = TRUE]]
      /\ run' = IF Handoff(r) THEN [run EXCEPT ![r] = NewRun] ELSE run
  BY DEF PasswordSaved
<1>3. row.claim = job[r].claim /\ row.exists = flag
  BY <1>1 DEF JobRow
<1>4. job[r].exists => flag
  OBVIOUS
<1> HIDE DEF row, flag
<1>5. \A q \in Recoveries :
        /\ job'[q].claim = job[q].claim /\ (job[q].exists => job'[q].exists)
        /\ recovery'[q].hydra = recovery[q].hydra
  BY <1>1, <1>2, <1>3, <1>4 DEF RecoveryRow
<1>6. \A q \in Recoveries : run'[q].open <=> run[q].open \/ (q = r /\ Handoff(r))
  BY <1>1, <1>2, EmptyRows
<1>7. Handoff(r) => proof[r].source = 0
  BY DEF Handoff, ClaimInv, ProofsRest
<1>8. /\ DOMAIN attempts' = DOMAIN attempts
      /\ \A b \in DOMAIN attempts :
           /\ attempts'[b].recovery = attempts[b].recovery
           /\ attempts'[b].open <=> attempts[b].open /\ job'[Owner(b)].claim = b
  BY <1>2, <1>5, OwnersAreRecoveries DEF ClaimInv, ClaimAgreesWithHistory
<1>9. \A q \in Recoveries :
        /\ job'[q].claim = job[q].claim \/ job'[q].claim = 0
        /\ job'[q].claim # 0 => run'[q].open
        /\ job[q].exists => job'[q].exists
        /\ proof'[q].source # 0 =>
             ~run'[q].open /\ job'[q].claim = 0 /\ (job'[q].exists \/ recovery'[q].hydra)
  BY <1>2, <1>5, <1>6, <1>7 DEF ClaimInv, ClaimAgreesWithHistory, ProvedWorkIsOver, ProofsRest
<1> QED
  BY <1>8, <1>9 DEF ClaimStep

\* The one step that makes a claim: its attempt is new, and its job had none.
LEMMA PollClaimClaims ==
    ASSUME ClaimInv, NEW r \in Recoveries, PollClaim(r), UNCHANGED recovery
    PROVE  ClaimAgreesWithHistory' /\ ProvedWorkIsOver' /\ ProofsRest'
<1> DEFINE n == Len(attempts)
           next == n + 1
           claimed == [job[r] EXCEPT !.claim = next, !.lease = TRUE]
           consumed == [run[r] EXCEPT !.consumed = run[r].consumed + 1]
<1>1. /\ attempts \in Seq(AttemptRow) /\ n \in Nat /\ DOMAIN attempts = 1 .. n
      /\ \A b \in 1 .. n : Owner(b) \in Recoveries
      /\ job \in [Recoveries -> JobRow(n)] /\ run \in [Recoveries -> RunRow]
  BY OwnersAreRecoveries DEF ClaimInv, IInv, TypeOK
<1>2. /\ attempts' \in Seq(AttemptRow) /\ Len(attempts') = n + 1
      /\ \A b \in 1 .. n : attempts'[b] = attempts[b]
      /\ attempts'[n + 1] = Attempt(r)
  BY <1>1, AttemptFacts, AppendProperties DEF PollClaim
<1>3. DOMAIN attempts' = 1 .. n + 1
  BY <1>2, LenProperties
<1>4. /\ job' = [job EXCEPT ![r] = claimed] /\ run' = [run EXCEPT ![r] = consumed]
      /\ UNCHANGED proof /\ job[r].claim = 0 /\ run[r].open
  BY DEF PollClaim, Candidate
<1>5. claimed.claim = next /\ claimed.exists = job[r].exists /\ consumed.open = run[r].open
  BY <1>1 DEF JobRow, RunRow
<1> HIDE DEF claimed, consumed
<1>6. \A q \in Recoveries :
        /\ job'[q].claim = IF q = r THEN next ELSE job[q].claim
        /\ job'[q].exists = job[q].exists /\ run'[q].open = run[q].open
  BY <1>1, <1>4, <1>5
<1>7. Attempt(r).recovery = r /\ Attempt(r).open = TRUE
  BY DEF Attempt
<1>8. \A q \in Recoveries : job[q].claim \in 0 .. n
  BY <1>1 DEF JobRow
<1>9. ASSUME NEW b \in 1 .. n + 1
      PROVE  attempts'[b].open <=> job'[attempts'[b].recovery].claim = b
  <2>1. CASE b = n + 1
    BY <1>2, <1>6, <1>7, <2>1
  <2>2. CASE b # n + 1
    <3>1. b \in 1 .. n /\ b # 0 /\ b # next
      BY <1>1, <2>2
    <3>2. attempts'[b].open = attempts[b].open /\ attempts'[b].recovery = Owner(b) /\ Owner(b) \in Recoveries
      BY <1>1, <1>2, <3>1 DEF Owner
    <3>3. attempts[b].open <=> job[Owner(b)].claim = b
      BY <1>1, <3>1 DEF ClaimInv, ClaimAgreesWithHistory
    <3> QED
      BY <1>4, <1>6, <3>1, <3>2, <3>3
  <2> QED
    BY <2>1, <2>2
<1>10. ASSUME NEW q \in Recoveries, job'[q].claim # 0
       PROVE  run'[q].open /\ attempts'[job'[q].claim].recovery = q
  <2>1. CASE q = r
    BY <1>2, <1>4, <1>6, <1>7, <2>1
  <2>2. CASE q # r
    <3>1. job'[q].claim = job[q].claim /\ run'[q].open = run[q].open
      BY <1>6, <2>2
    <3>2. job[q].claim \in 1 .. n
      BY <1>1, <1>8, <1>10, <3>1
    <3>3. run[q].open /\ attempts[job[q].claim].recovery = q
      BY <1>10, <3>1 DEF ClaimInv, ClaimAgreesWithHistory, Owner
    <3> QED
      BY <1>2, <3>1, <3>2, <3>3
  <2> QED
    BY <2>1, <2>2
<1>11. ClaimAgreesWithHistory'
  BY <1>3, <1>9, <1>10 DEF ClaimAgreesWithHistory, Owner
<1>12. ProvedWorkIsOver'
  BY <1>4, <1>6 DEF ClaimInv, ProvedWorkIsOver
<1>13. ProofsRest'
  BY <1>4, <1>6 DEF ClaimInv, ProofsRest
<1> QED
  BY <1>11, <1>12, <1>13

\* Admissions, pages, marks, clocks and the account.
LEMMA RestClaims ==
    ASSUME ClaimInv, NEW s \in Recoveries,
           \/ Admit(s) \/ ReadPage(s) \/ Defer(s) \/ MarkPropagated(s) \/ ProofDue(s)
           \/ LeaseExpires(s) \/ BecomesDue(s) \/ DeadlinePasses(s) \/ EligibilityChanges
    PROVE  ClaimStep
<1>1. /\ recovery \in [Recoveries -> RecoveryRow] /\ job \in [Recoveries -> JobRow(Len(attempts))]
      /\ run \in [Recoveries -> RunRow] /\ proof \in [Recoveries -> ProofRow(Len(attempts))]
  BY DEF ClaimInv, IInv, TypeOK
<1>2. UNCHANGED attempts
  BY DEF Admit, ReadPage, Defer, MarkPropagated, ProofDue, LeaseExpires, BecomesDue, DeadlinePasses,
     EligibilityChanges
<1>3. \A q \in Recoveries : recovery'[q].hydra = recovery[q].hydra
  BY <1>1 DEF Admit, ReadPage, Defer, MarkPropagated, ProofDue, LeaseExpires, BecomesDue, DeadlinePasses,
     EligibilityChanges, RecoveryRow
<1>4. \A q \in Recoveries : job'[q].claim = job[q].claim /\ job'[q].exists = job[q].exists
  <2>1. CASE LeaseExpires(s)
    <3> DEFINE row == [job[s] EXCEPT !.lease = FALSE]
    <3>1. row.claim = job[s].claim /\ row.exists = job[s].exists
      BY <1>1 DEF JobRow
    <3>2. job' = [job EXCEPT ![s] = row]
      BY <2>1 DEF LeaseExpires
    <3> HIDE DEF row
    <3> QED
      BY <1>1, <3>1, <3>2
  <2>2. CASE UNCHANGED job
    BY <2>2
  <2> QED
    BY <2>1, <2>2 DEF Admit, ReadPage, Defer, MarkPropagated, ProofDue, BecomesDue, DeadlinePasses,
       EligibilityChanges
<1>5. \A q \in Recoveries : run'[q].open = run[q].open
  BY <1>1 DEF Admit, ReadPage, Defer, MarkPropagated, ProofDue, LeaseExpires, BecomesDue, DeadlinePasses,
     EligibilityChanges, RunRow
<1>6. \A q \in Recoveries : proof'[q].source = proof[q].source
  <2>1. ASSUME NEW row, row.source = proof[s].source, proof' = [proof EXCEPT ![s] = row]
        PROVE  \A q \in Recoveries : proof'[q].source = proof[q].source
    BY <1>1, <2>1
  <2>2. \A flag \in BOOLEAN :
          /\ [proof[s] EXCEPT !.due = flag].source = proof[s].source
          /\ [proof[s] EXCEPT !.propagated = flag].source = proof[s].source
    BY <1>1 DEF ProofRow
  <2>3. CASE Defer(s)
    BY <2>1, <2>2, <2>3 DEF Defer
  <2>4. CASE MarkPropagated(s)
    BY <2>1, <2>2, <2>4 DEF MarkPropagated
  <2>5. CASE ProofDue(s)
    BY <2>1, <2>2, <2>5 DEF ProofDue
  <2>6. CASE UNCHANGED proof
    BY <2>6
  <2> QED
    BY <2>3, <2>4, <2>5, <2>6 DEF Admit, ReadPage, LeaseExpires, BecomesDue, DeadlinePasses,
       EligibilityChanges
<1> QED
  BY <1>2, <1>3, <1>4, <1>5, <1>6, ClaimsUntouched

LEMMA ClaimInvStep ==
    ASSUME ClaimInv, [Next]_vars
    PROVE  ClaimInv'
<1> SUFFICES ASSUME TRUE
             PROVE  ClaimAgreesWithHistory' /\ ProvedWorkIsOver' /\ ProofsRest'
  BY StepKeeps DEF ClaimInv
<1>1. CASE UNCHANGED vars
  BY <1>1 DEF vars, ClaimInv, ClaimAgreesWithHistory, ProvedWorkIsOver, ProofsRest, Owner
<1>2. ASSUME NEW r \in Recoveries, PasswordSaved(r) \/ Poll(r)
      PROVE  ClaimAgreesWithHistory' /\ ProvedWorkIsOver' /\ ProofsRest'
  <2>1. CASE PasswordSaved(r)
    BY <2>1, PasswordClaims, ClaimStepKeeps
  <2>2. CASE PollExpired(r) /\ UNCHANGED recovery
    BY <2>2, FinishRunClaims, ClaimStepKeeps DEF PollExpired, Candidate
  <2>3. CASE PollEnd(r) /\ UNCHANGED recovery
    <3>1. job[r].exists
      BY <2>3 DEF PollEnd, Candidate, ClaimInv, IInv, RunsHaveJobs
    <3> QED
      BY <2>3, <3>1, EmptyRows, FinishClaims, ClaimStepKeeps DEF PollEnd
  <2>4. CASE PollClaim(r) /\ UNCHANGED recovery
    BY <2>4, PollClaimClaims
  <2> QED
    BY <1>2, <2>1, <2>2, <2>3, <2>4 DEF Poll
<1>3. ASSUME NEW a \in DOMAIN attempts, Work(a)
      PROVE  ClaimAgreesWithHistory' /\ ProvedWorkIsOver' /\ ProofsRest'
  BY <1>3, WorkClaims, ClaimStepKeeps
<1>4. ASSUME NEW o \in Requests, NEW r \in Recoveries, Resume(o, r)
      PROVE  ClaimAgreesWithHistory' /\ ProvedWorkIsOver' /\ ProofsRest'
  BY <1>4, ResumeClaims, ClaimStepKeeps
<1>5. ASSUME NEW s \in Recoveries, NEW t \in Recoveries, Reconcile(s, t)
      PROVE  ClaimAgreesWithHistory' /\ ProvedWorkIsOver' /\ ProofsRest'
  BY <1>5, ReconcileClaims, ClaimStepKeeps
<1>6. ASSUME NEW s \in Recoveries,
             \/ Admit(s) \/ ReadPage(s) \/ Defer(s) \/ MarkPropagated(s) \/ ProofDue(s)
             \/ LeaseExpires(s) \/ BecomesDue(s) \/ DeadlinePasses(s)
      PROVE  ClaimAgreesWithHistory' /\ ProvedWorkIsOver' /\ ProofsRest'
  BY <1>6, RestClaims, ClaimStepKeeps
<1>7. CASE EligibilityChanges
  <2>1. 1 \in Recoveries
    BY RecoveryAssumption DEF Recoveries
  <2> QED
    BY <1>7, <2>1, RestClaims, ClaimStepKeeps
<1> QED
  BY <1>1, <1>2, <1>3, <1>4, <1>5, <1>6, <1>7 DEF Next

LEMMA ClaimInvariance == Spec => []ClaimInv
<1>1. Init => ClaimInv
  <2>1. ASSUME Init
        PROVE  ClaimAgreesWithHistory /\ ProvedWorkIsOver /\ ProofsRest
    BY <2>1 DEF Init, ClaimAgreesWithHistory, ProvedWorkIsOver, ProofsRest, NoJob, NoProof
  <2> QED
    BY <2>1, InitInv DEF ClaimInv
<1>2. ClaimInv /\ [Next]_vars => ClaimInv'
  BY ClaimInvStep
<1> QED
  BY <1>1, <1>2, PTL DEF Spec

\* For any number of workers, reconcilers and operators, an attempt is open exactly while its
\* job names it and its run is open (claim, finish, apply_to_covered).
THEOREM ClaimsMatchHistory == Spec => []ClaimAgreesWithHistory
<1>1. ClaimInv => ClaimAgreesWithHistory
  BY DEF ClaimInv
<1> QED
  BY <1>1, ClaimInvariance, PTL

\* Once a recovery is proved, by its own cleanup or a newer one's, no attempt works on it and
\* nobody can start another run (satisfied_by_newer_recovery, resume_recovery_cleanup).
THEOREM ProofEndsWork == Spec => []ProvedWorkIsOver
<1>1. ClaimInv => ProvedWorkIsOver
  BY DEF ClaimInv
<1> QED
  BY <1>1, ClaimInvariance, PTL
-----------------------------------------------------------------------------
(* The budget of provider calls. *)

\* The runs a recovery was given, and the attempts its open run may still make.
Granted(r) == (IF job[r].exists THEN 1 ELSE 0) + Cardinality(AuthorizedFor(r))
Left(r) == IF run[r].open THEN MaxAttempts - run[r].consumed ELSE 0

BudgetHolds ==
    \A r \in Recoveries :
        /\ IsFiniteSet(AuthorizedFor(r))
        /\ Cardinality(AttemptsOf(r)) + Left(r) <= MaxAttempts * Granted(r)

LEMMA AttemptsAreCounted ==
    ASSUME IInv, NEW r
    PROVE  IsFiniteSet(AttemptsOf(r)) /\ Cardinality(AttemptsOf(r)) \in Nat
<1>1. IsFiniteSet(1 .. Len(attempts))
  BY OwnersAreRecoveries, FS_Interval
<1>2. AttemptsOf(r) \subseteq 1 .. Len(attempts)
  BY OwnersAreRecoveries DEF AttemptsOf
<1> QED
  BY <1>1, <1>2, FS_Subset, FS_CardinalityType

LEMMA LeftIsNatural ==
    ASSUME IInv, NEW r \in Recoveries
    PROVE  Left(r) \in Nat
<1>1. run[r].consumed \in 0 .. MaxAttempts
  BY DEF IInv, TypeOK, RunRow
<1> QED
  BY <1>1, RecoveryAssumption DEF Left

\* The arithmetic of one recovery: the bound carries over when no more is made than is given.
LEMMA BudgetArithmetic ==
    ASSUME NEW made \in Nat, NEW left \in Nat, NEW given \in Nat, made + left <= MaxAttempts * given,
           NEW made2 \in Nat, NEW left2 \in Nat, NEW given2 \in Nat,
           \/ made2 + left2 <= made + left /\ given2 >= given
           \/ made2 <= made /\ left2 <= MaxAttempts /\ given2 >= given + 1
    PROVE  made2 + left2 <= MaxAttempts * given2
<1>1. MaxAttempts \in Nat
  BY RecoveryAssumption
<1>2. \A k \in Nat, n \in Nat : n >= k => MaxAttempts * n >= MaxAttempts * k
  BY <1>1, SMT
<1>3. MaxAttempts * (given + 1) = MaxAttempts * given + MaxAttempts
  BY <1>1, SMT
<1> DEFINE old == MaxAttempts * given
           new == MaxAttempts * given2
           more == MaxAttempts * (given + 1)
<1>4. old \in Int /\ new \in Int /\ more \in Int
  BY <1>1
<1>5. (given2 >= given => new >= old) /\ (given2 >= given + 1 => new >= more) /\ more = old + MaxAttempts
  BY <1>2, <1>3
<1>6. made + left <= old
  OBVIOUS
<1> HIDE DEF old, new, more
<1>7. made2 + left2 <= new
  BY <1>1, <1>4, <1>5, <1>6
<1> QED
  BY <1>7 DEF new

\* A step that makes no attempt and opens no run.
LEMMA BudgetUnspent ==
    ASSUME ClaimInv, ClaimInv', BudgetHolds, ClaimStep,
           \A q \in Recoveries :
             /\ AuthorizedFor(q)' = AuthorizedFor(q)
             /\ run'[q].open => run[q].open /\ run'[q].consumed = run[q].consumed
    PROVE  BudgetHolds'
<1> SUFFICES ASSUME NEW q \in Recoveries
             PROVE  /\ IsFiniteSet(AuthorizedFor(q)')
                    /\ (Cardinality(AttemptsOf(q)) + Left(q) <= MaxAttempts * Granted(q))'
  BY DEF BudgetHolds
<1>1. AttemptsOf(q)' = AttemptsOf(q)
  BY DEF ClaimStep, AttemptsOf, Owner
<1>2. /\ IsFiniteSet(AuthorizedFor(q)) /\ Cardinality(AuthorizedFor(q)) \in Nat
      /\ AuthorizedFor(q)' = AuthorizedFor(q)
  BY FS_CardinalityType DEF BudgetHolds
<1>3. Left(q) \in Nat /\ Left(q)' \in Nat /\ Left(q)' <= Left(q)
  <2>1. run[q].consumed \in 0 .. MaxAttempts /\ run'[q].consumed \in 0 .. MaxAttempts
    BY DEF ClaimInv, IInv, TypeOK, RunRow
  <2> QED
    BY <2>1, RecoveryAssumption DEF Left
<1>4. Cardinality(AttemptsOf(q)) \in Nat
  BY AttemptsAreCounted DEF ClaimInv
<1>5. job[q].exists => job'[q].exists
  BY DEF ClaimStep
<1>6. Granted(q) \in Nat /\ Granted(q)' \in Nat /\ Granted(q)' >= Granted(q)
  BY <1>2, <1>5 DEF Granted
<1>7. Cardinality(AttemptsOf(q)) + Left(q) <= MaxAttempts * Granted(q)
  BY DEF BudgetHolds
<1>8. Cardinality(AttemptsOf(q)) + Left(q)' <= MaxAttempts * Granted(q)'
  <2> DEFINE made == Cardinality(AttemptsOf(q))
             left == Left(q)
             given == Granted(q)
  <2>1. PICK left2 \in Nat, given2 \in Nat : left2 = Left(q)' /\ given2 = Granted(q)'
    BY <1>3, <1>6
  <2>2. left2 <= left /\ given2 >= given /\ made \in Nat /\ left \in Nat /\ given \in Nat
        /\ made + left <= MaxAttempts * given
    BY <1>3, <1>4, <1>6, <1>7, <2>1
  <2> HIDE DEF made, left, given
  <2>3. made + left2 <= MaxAttempts * given2
    BY <2>1, <2>2, BudgetArithmetic
  <2> QED
    BY <2>1, <2>3 DEF made
<1> QED
  BY <1>1, <1>2, <1>8

\* The arithmetic is that of one recovery; the others are left alone.
Aside(q) ==
    /\ AttemptsOf(q)' = AttemptsOf(q) /\ AuthorizedFor(q)' = AuthorizedFor(q)
    /\ job'[q].exists = job[q].exists /\ run'[q] = run[q]

LEMMA AsideKeeps ==
    ASSUME BudgetHolds, NEW q \in Recoveries, Aside(q)
    PROVE  /\ IsFiniteSet(AuthorizedFor(q)')
           /\ (Cardinality(AttemptsOf(q)) + Left(q) <= MaxAttempts * Granted(q))'
BY DEF BudgetHolds, Aside, Left, Granted

\* A saved password grants the first run, once.
LEMMA PasswordBudget ==
    ASSUME ClaimInv, ClaimInv', BudgetHolds, NEW r \in Recoveries, PasswordSaved(r)
    PROVE  BudgetHolds'
<1>1. CASE ~Handoff(r)
  <2>1. UNCHANGED <<run, receipt>>
    BY <1>1 DEF PasswordSaved
  <2>2. \A q \in Recoveries : AuthorizedFor(q)' = AuthorizedFor(q)
    BY <2>1 DEF AuthorizedFor
  <2> QED
    BY <2>1, <2>2, PasswordClaims, BudgetUnspent
<1>2. CASE Handoff(r)
  <2>1. /\ job \in [Recoveries -> JobRow(Len(attempts))] /\ run \in [Recoveries -> RunRow]
    BY DEF ClaimInv, IInv, TypeOK
  <2>2. /\ run' = [run EXCEPT ![r] = NewRun] /\ UNCHANGED <<attempts, receipt>>
        /\ job' = [job EXCEPT ![r] = [job[r] EXCEPT !.exists = TRUE]]
        /\ ~job[r].exists
    BY <1>2 DEF PasswordSaved, Handoff
  <2>3. \A q \in Recoveries :
          AttemptsOf(q)' = AttemptsOf(q) /\ AuthorizedFor(q)' = AuthorizedFor(q)
    BY <2>2 DEF AttemptsOf, AuthorizedFor, Owner
  <2>4. [job[r] EXCEPT !.exists = TRUE].exists = TRUE
    BY <2>1 DEF JobRow
  <2>5. job'[r].exists = TRUE /\ run'[r] = NewRun
    BY <2>1, <2>2, <2>4
  <2>6. /\ Cardinality(AttemptsOf(r)) \in Nat /\ Left(r) \in Nat
        /\ IsFiniteSet(AuthorizedFor(r)) /\ Cardinality(AuthorizedFor(r)) \in Nat
    BY AttemptsAreCounted, LeftIsNatural, FS_CardinalityType DEF ClaimInv, BudgetHolds
  <2>7. Granted(r) = Cardinality(AuthorizedFor(r)) /\ Granted(r)' = Granted(r) + 1 /\ Left(r)' = MaxAttempts
    BY <2>2, <2>3, <2>5, <2>6, RecoveryAssumption DEF Granted, Left, NewRun
  <2>8. Cardinality(AttemptsOf(r)) + MaxAttempts <= MaxAttempts * (Granted(r) + 1)
    <3> DEFINE made == Cardinality(AttemptsOf(r))
               left == Left(r)
               given == Granted(r)
    <3>1. made \in Nat /\ left \in Nat /\ given \in Nat /\ made + left <= MaxAttempts * given
      BY <2>6, <2>7 DEF BudgetHolds
    <3> HIDE DEF made, left, given
    <3>2. made + MaxAttempts <= MaxAttempts * (given + 1)
      BY <3>1, BudgetArithmetic, RecoveryAssumption
    <3> QED
      BY <3>2 DEF made, given
  <2>9. \A q \in Recoveries \ {r} : Aside(q)
    BY <2>1, <2>2, <2>3 DEF Aside
  <2>10. \A q \in Recoveries \ {r} :
           /\ IsFiniteSet(AuthorizedFor(q)')
           /\ (Cardinality(AttemptsOf(q)) + Left(q) <= MaxAttempts * Granted(q))'
    BY <2>9, AsideKeeps
  <2> QED
    BY <2>3, <2>6, <2>7, <2>8, <2>10 DEF BudgetHolds
<1> QED
  BY <1>1, <1>2

\* The host's authorization grants a new run and takes what was left of the old one.
LEMMA AuthorizedBudget ==
    ASSUME ClaimInv, ClaimInv', BudgetHolds, NEW o \in Requests, NEW r \in Recoveries,
           receipt[o] = NoReceipt, ResumeAuthorized(o, r)
    PROVE  BudgetHolds'
<1>1. run \in [Recoveries -> RunRow] /\ receipt \in [Requests -> ReceiptRow]
  BY DEF ClaimInv, IInv, TypeOK
<1>2. Freeing(r, NewRun) /\ receipt' = [receipt EXCEPT ![o] = [recovery |-> r, outcome |-> "authorized"]]
  BY FinishFrees DEF ResumeAuthorized, Replied
<1>3. \A q \in Recoveries : AttemptsOf(q)' = AttemptsOf(q)
  BY <1>2 DEF Freeing, AttemptsOf, Owner
<1>4. AuthorizedFor(r)' = AuthorizedFor(r) \cup {o} /\ o \notin AuthorizedFor(r)
  BY <1>1, <1>2 DEF AuthorizedFor, NoReceipt
<1>5. \A q \in Recoveries \ {r} : AuthorizedFor(q)' = AuthorizedFor(q)
  BY <1>1, <1>2 DEF AuthorizedFor, NoReceipt
<1>6. /\ Cardinality(AttemptsOf(r)) \in Nat /\ Left(r) \in Nat
      /\ IsFiniteSet(AuthorizedFor(r)) /\ Cardinality(AuthorizedFor(r)) \in Nat
  BY AttemptsAreCounted, LeftIsNatural, FS_CardinalityType DEF ClaimInv, BudgetHolds
<1>7. IsFiniteSet(AuthorizedFor(r)') /\ Cardinality(AuthorizedFor(r)') = Cardinality(AuthorizedFor(r)) + 1
  BY <1>4, <1>6, FS_AddElement
<1>8. run'[r] = NewRun /\ job'[r].exists = job[r].exists
  BY <1>1, <1>2 DEF Freeing
<1>9. Granted(r) \in Nat /\ Granted(r)' = Granted(r) + 1 /\ Left(r)' = MaxAttempts
  BY <1>6, <1>7, <1>8, RecoveryAssumption DEF Granted, Left, NewRun
<1>10. Cardinality(AttemptsOf(r)) + MaxAttempts <= MaxAttempts * (Granted(r) + 1)
  <2> DEFINE made == Cardinality(AttemptsOf(r))
             left == Left(r)
             given == Granted(r)
  <2>1. made \in Nat /\ left \in Nat /\ given \in Nat /\ made + left <= MaxAttempts * given
    BY <1>6, <1>9 DEF BudgetHolds
  <2> HIDE DEF made, left, given
  <2>2. made + MaxAttempts <= MaxAttempts * (given + 1)
    BY <2>1, BudgetArithmetic, RecoveryAssumption
  <2> QED
    BY <2>2 DEF made, given
<1>11. \A q \in Recoveries \ {r} : Aside(q)
  BY <1>1, <1>2, <1>3, <1>5 DEF Aside, Freeing
<1>12. \A q \in Recoveries \ {r} :
         /\ IsFiniteSet(AuthorizedFor(q)')
         /\ (Cardinality(AttemptsOf(q)) + Left(q) <= MaxAttempts * Granted(q))'
  BY <1>11, AsideKeeps
<1> QED
  BY <1>3, <1>7, <1>9, <1>10, <1>12 DEF BudgetHolds

\* A claim spends one attempt of what is left.
LEMMA ClaimBudget ==
    ASSUME ClaimInv, ClaimInv', BudgetHolds, NEW r \in Recoveries, PollClaim(r), UNCHANGED receipt
    PROVE  BudgetHolds'
<1> DEFINE next == Len(attempts) + 1
<1>1. /\ attempts \in Seq(AttemptRow) /\ Len(attempts) \in Nat /\ DOMAIN attempts = 1 .. Len(attempts)
      /\ job \in [Recoveries -> JobRow(Len(attempts))] /\ run \in [Recoveries -> RunRow]
  BY OwnersAreRecoveries DEF ClaimInv, IInv, TypeOK
<1>2. /\ attempts' \in Seq(AttemptRow) /\ Len(attempts') = next
      /\ \A b \in 1 .. Len(attempts) : attempts'[b] = attempts[b]
      /\ attempts'[next] = Attempt(r)
  BY <1>1, AttemptFacts, AppendProperties DEF PollClaim
<1>3. DOMAIN attempts' = 1 .. next /\ Attempt(r).recovery = r /\ next \notin DOMAIN attempts
  BY <1>1, <1>2, LenProperties DEF Attempt
<1>4. AttemptsOf(r)' = AttemptsOf(r) \cup {next} /\ next \notin AttemptsOf(r)
  BY <1>1, <1>2, <1>3 DEF AttemptsOf, Owner
<1>5. \A q \in Recoveries \ {r} : AttemptsOf(q)' = AttemptsOf(q)
  BY <1>1, <1>2, <1>3 DEF AttemptsOf, Owner
<1>6. \A q \in Recoveries : AuthorizedFor(q)' = AuthorizedFor(q)
  BY DEF AuthorizedFor
<1>7. /\ run' = [run EXCEPT ![r] = [run[r] EXCEPT !.consumed = run[r].consumed + 1]]
      /\ run[r].open /\ run[r].consumed \in 0 .. MaxAttempts /\ run[r].consumed < MaxAttempts
  BY <1>1, RecoveryAssumption DEF PollClaim, Candidate, Exhausted, RunRow
<1>8. \A q \in Recoveries : job'[q].exists = job[q].exists
  <2> DEFINE claimed == [job[r] EXCEPT !.claim = next, !.lease = TRUE]
  <2>1. job' = [job EXCEPT ![r] = claimed] /\ claimed.exists = job[r].exists
    BY <1>1 DEF PollClaim, JobRow
  <2> HIDE DEF claimed
  <2> QED
    BY <1>1, <2>1
<1>9. Left(r) \in Nat /\ Left(r) = Left(r)' + 1 /\ Left(r)' \in Nat
  <2>1. run'[r].open /\ run'[r].consumed = run[r].consumed + 1
    BY <1>1, <1>7 DEF RunRow
  <2> QED
    BY <1>7, <2>1, RecoveryAssumption DEF Left
<1>10. /\ IsFiniteSet(AttemptsOf(r)) /\ Cardinality(AttemptsOf(r)) \in Nat
       /\ IsFiniteSet(AuthorizedFor(r)) /\ Cardinality(AuthorizedFor(r)) \in Nat
  BY AttemptsAreCounted, FS_CardinalityType DEF ClaimInv, BudgetHolds
<1>11. Cardinality(AttemptsOf(r)') = Cardinality(AttemptsOf(r)) + 1
  BY <1>4, <1>10, FS_AddElement
<1>12. Granted(r)' = Granted(r) /\ Granted(r) \in Nat
  BY <1>6, <1>8, <1>10 DEF Granted
<1>13. Cardinality(AttemptsOf(r)') + Left(r)' <= MaxAttempts * Granted(r)'
  <2>1. Cardinality(AttemptsOf(r)) + Left(r) <= MaxAttempts * Granted(r)
    BY DEF BudgetHolds
  <2>2. Cardinality(AttemptsOf(r)') + Left(r)' = Cardinality(AttemptsOf(r)) + Left(r)
    BY <1>9, <1>10, <1>11
  <2> QED
    BY <1>12, <2>1, <2>2
<1>14. \A q \in Recoveries \ {r} : Aside(q)
  BY <1>1, <1>5, <1>6, <1>7, <1>8 DEF Aside
<1>15. \A q \in Recoveries \ {r} :
         /\ IsFiniteSet(AuthorizedFor(q)')
         /\ (Cardinality(AttemptsOf(q)) + Left(q) <= MaxAttempts * Granted(q))'
  BY <1>14, AsideKeeps
<1> QED
  BY <1>6, <1>10, <1>13, <1>15 DEF BudgetHolds

\* A step that ends the run of r or lets it wait.
LEMMA EndedBudget ==
    ASSUME ClaimInv, ClaimInv', BudgetHolds, ClaimStep, UNCHANGED receipt,
           NEW r \in Recoveries, NEW next, run' = [run EXCEPT ![r] = next],
           next.open => run[r].open /\ next.consumed = run[r].consumed
    PROVE  BudgetHolds'
<1>1. run \in [Recoveries -> RunRow]
  BY DEF ClaimInv, IInv, TypeOK
<1>2. \A q \in Recoveries : run'[q].open => run[q].open /\ run'[q].consumed = run[q].consumed
  BY <1>1
<1>3. \A q \in Recoveries : AuthorizedFor(q)' = AuthorizedFor(q)
  BY DEF AuthorizedFor
<1> QED
  BY <1>2, <1>3, BudgetUnspent

LEMMA FinishRunBudget ==
    ASSUME ClaimInv, ClaimInv', BudgetHolds, UNCHANGED <<recovery, receipt>>,
           NEW r \in Recoveries, NEW own \in BOOLEAN, FinishRun(r, own), run[r].open
    PROVE  BudgetHolds'
<1>1. ClaimStep
  BY FinishRunClaims
<1>2. CASE Finish(r, NoRun, own)
  BY <1>1, <1>2, EmptyRows, EndedBudget DEF Finish
<1>3. CASE Finish(r, [run[r] EXCEPT !.due = FALSE], own)
  <2> DEFINE next == [run[r] EXCEPT !.due = FALSE]
  <2>1. run[r] \in RunRow
    BY DEF ClaimInv, IInv, TypeOK
  <2>2. next.open = run[r].open /\ next.consumed = run[r].consumed
    BY <2>1 DEF RunRow
  <2>3. run' = [run EXCEPT ![r] = next]
    BY <1>3 DEF Finish
  <2> HIDE DEF next
  <2> QED
    BY <1>1, <2>2, <2>3, EndedBudget
<1> QED
  BY <1>2, <1>3 DEF FinishRun

LEMMA WorkBudget ==
    ASSUME ClaimInv, ClaimInv', BudgetHolds, NEW a \in DOMAIN attempts, Work(a)
    PROVE  BudgetHolds'
<1>1. ClaimStep
  BY WorkClaims
<1>2. Owner(a) \in Recoveries
  BY OwnersAreRecoveries DEF ClaimInv
<1>3. CASE UNCHANGED <<run, receipt>>
  <2>1. \A q \in Recoveries : AuthorizedFor(q)' = AuthorizedFor(q)
    BY <1>3 DEF AuthorizedFor
  <2> QED
    BY <1>1, <1>3, <2>1, BudgetUnspent
<1>4. CASE FinishAttempt(a)
  BY <1>2, <1>4, FinishRunBudget DEF FinishAttempt, Owned
<1>5. CASE FailAttempt(a)
  BY <1>1, <1>2, <1>5, EmptyRows, EndedBudget DEF FailAttempt, Finish
<1> QED
  BY <1>3, <1>4, <1>5 DEF Work, AdmitStep, CallProvider, SaveOutcome

LEMMA ResumeBudget ==
    ASSUME ClaimInv, ClaimInv', BudgetHolds, NEW o \in Requests, NEW r \in Recoveries, Resume(o, r)
    PROVE  BudgetHolds'
<1>1. CASE ResumeAuthorized(o, r)
  BY <1>1, AuthorizedBudget DEF Resume
<1>2. CASE ResumeCompleted(o, r) \/ ResumeConfirmed(o, r)
  <2>1. ClaimStep /\ receipt[o] = NoReceipt
    BY ResumeClaims DEF Resume
  <2>2. run \in [Recoveries -> RunRow] /\ receipt \in [Requests -> ReceiptRow]
    BY DEF ClaimInv, IInv, TypeOK
  <2>3. \/ receipt' = [receipt EXCEPT ![o] = [recovery |-> r, outcome |-> "completed"]]
        \/ receipt' = [receipt EXCEPT ![o] = [recovery |-> r, outcome |-> "confirmed"]]
    BY <1>2 DEF ResumeCompleted, ResumeConfirmed, Replied
  <2>4. \A q \in Recoveries : AuthorizedFor(q)' = AuthorizedFor(q)
    BY <2>1, <2>2, <2>3 DEF AuthorizedFor, NoReceipt
  <2>5. run' = run \/ run' = [run EXCEPT ![r] = NoRun]
    BY <1>2 DEF ResumeCompleted, ResumeConfirmed, Finish
  <2>6. \A q \in Recoveries : run'[q].open => run[q].open /\ run'[q].consumed = run[q].consumed
    BY <2>2, <2>5, EmptyRows
  <2> QED
    BY <2>1, <2>4, <2>6, BudgetUnspent
<1> QED
  BY <1>1, <1>2 DEF Resume

LEMMA RestBudget ==
    ASSUME ClaimInv, ClaimInv', BudgetHolds, NEW s \in Recoveries,
           \/ Admit(s) \/ ReadPage(s) \/ Defer(s) \/ MarkPropagated(s) \/ ProofDue(s)
           \/ LeaseExpires(s) \/ BecomesDue(s) \/ DeadlinePasses(s) \/ EligibilityChanges
    PROVE  BudgetHolds'
<1>1. ClaimStep
  BY RestClaims
<1>2. run \in [Recoveries -> RunRow]
  BY DEF ClaimInv, IInv, TypeOK
<1>3. UNCHANGED receipt
  BY DEF Admit, ReadPage, Defer, MarkPropagated, ProofDue, LeaseExpires, BecomesDue, DeadlinePasses,
     EligibilityChanges
<1>4. \A q \in Recoveries : AuthorizedFor(q)' = AuthorizedFor(q)
  BY <1>3 DEF AuthorizedFor
<1>5. \A q \in Recoveries : run'[q].open => run[q].open /\ run'[q].consumed = run[q].consumed
  BY <1>2 DEF Admit, ReadPage, Defer, MarkPropagated, ProofDue, LeaseExpires, BecomesDue, DeadlinePasses,
     EligibilityChanges, RunRow
<1> QED
  BY <1>1, <1>4, <1>5, BudgetUnspent

LEMMA BudgetStep ==
    ASSUME ClaimInv, ClaimInv', BudgetHolds, [Next]_vars
    PROVE  BudgetHolds'
<1>1. CASE UNCHANGED vars
  BY <1>1 DEF vars, BudgetHolds, AuthorizedFor, AttemptsOf, Owner, Left, Granted
<1>2. ASSUME NEW r \in Recoveries, PasswordSaved(r)
      PROVE  BudgetHolds'
  BY <1>2, PasswordBudget
<1>3. ASSUME NEW r \in Recoveries, Poll(r)
      PROVE  BudgetHolds'
  <2>1. UNCHANGED <<recovery, receipt>>
    BY <1>3 DEF Poll
  <2>2. CASE PollExpired(r)
    BY <2>1, <2>2, FinishRunBudget DEF PollExpired, Candidate
  <2>3. CASE PollEnd(r)
    <3>1. job[r].exists
      BY <2>3 DEF PollEnd, Candidate, ClaimInv, IInv, RunsHaveJobs
    <3>2. ClaimStep
      BY <2>1, <2>3, <3>1, EmptyRows, FinishClaims DEF PollEnd
    <3> QED
      BY <2>1, <2>3, <3>2, EmptyRows, EndedBudget DEF PollEnd, Finish
  <2>4. CASE PollClaim(r)
    BY <2>1, <2>4, ClaimBudget
  <2> QED
    BY <1>3, <2>2, <2>3, <2>4 DEF Poll
<1>4. ASSUME NEW a \in DOMAIN attempts, Work(a)
      PROVE  BudgetHolds'
  BY <1>4, WorkBudget
<1>5. ASSUME NEW o \in Requests, NEW r \in Recoveries, Resume(o, r)
      PROVE  BudgetHolds'
  BY <1>5, ResumeBudget
<1>6. ASSUME NEW s \in Recoveries, NEW t \in Recoveries, Reconcile(s, t)
      PROVE  BudgetHolds'
  <2>1. ClaimStep /\ UNCHANGED receipt
    BY <1>6, ReconcileClaims DEF Reconcile
  <2>2. run' = run \/ run' = [run EXCEPT ![t] = NoRun]
    BY <1>6 DEF Reconcile, ApplyToCovered
  <2>3. run \in [Recoveries -> RunRow]
    BY DEF ClaimInv, IInv, TypeOK
  <2>4. \A q \in Recoveries : run'[q].open => run[q].open /\ run'[q].consumed = run[q].consumed
    BY <2>2, <2>3, EmptyRows
  <2>5. \A q \in Recoveries : AuthorizedFor(q)' = AuthorizedFor(q)
    BY <2>1 DEF AuthorizedFor
  <2> QED
    BY <2>1, <2>4, <2>5, BudgetUnspent
<1>7. ASSUME NEW s \in Recoveries,
             \/ Admit(s) \/ ReadPage(s) \/ Defer(s) \/ MarkPropagated(s) \/ ProofDue(s)
             \/ LeaseExpires(s) \/ BecomesDue(s) \/ DeadlinePasses(s)
      PROVE  BudgetHolds'
  BY <1>7, RestBudget
<1>8. CASE EligibilityChanges
  <2>1. 1 \in Recoveries
    BY RecoveryAssumption DEF Recoveries
  <2> QED
    BY <1>8, <2>1, RestBudget
<1> QED
  BY <1>1, <1>2, <1>3, <1>4, <1>5, <1>6, <1>7, <1>8 DEF Next

\* However often runs are retried, replaced and resumed, Hydra is called under no more attempts
\* than the first run and the authorized ones allow (claim, resume_recovery_cleanup).
THEOREM BudgetIsRespected == Spec => []BudgetIsAuthorized
<1>1. Init => BudgetHolds
  <2> SUFFICES ASSUME Init, NEW r \in Recoveries
               PROVE  IsFiniteSet(AuthorizedFor(r)) /\ Cardinality(AttemptsOf(r)) + Left(r) <= MaxAttempts * Granted(r)
    BY DEF BudgetHolds
  <2>1. AuthorizedFor(r) = {} /\ AttemptsOf(r) = {}
    BY DEF Init, AuthorizedFor, AttemptsOf, NoReceipt
  <2>2. Left(r) = 0 /\ job[r].exists = FALSE
    BY DEF Init, Left, NoRun, NoJob
  <2>3. IsFiniteSet({}) /\ Cardinality({}) = 0
    BY FS_EmptySet
  <2> QED
    BY <2>1, <2>2, <2>3, RecoveryAssumption DEF Granted
<1>2. ClaimInv /\ ClaimInv' /\ BudgetHolds /\ [Next]_vars => BudgetHolds'
  BY BudgetStep
<1>3. ClaimInv /\ BudgetHolds => BudgetIsAuthorized
  <2> SUFFICES ASSUME ClaimInv, BudgetHolds, NEW r \in Recoveries
               PROVE  Cardinality(AttemptsOf(r)) <= MaxAttempts * (1 + Cardinality(AuthorizedFor(r)))
    BY DEF BudgetIsAuthorized
  <2> DEFINE made == Cardinality(AttemptsOf(r))
             left == Left(r)
             given == Granted(r)
             allowed == 1 + Cardinality(AuthorizedFor(r))
  <2>1. made \in Nat /\ left \in Nat /\ Cardinality(AuthorizedFor(r)) \in Nat /\ made + left <= MaxAttempts * given
    BY AttemptsAreCounted, LeftIsNatural, FS_CardinalityType DEF ClaimInv, BudgetHolds
  <2>2. given \in Nat /\ allowed \in Nat /\ allowed >= given
    BY <2>1 DEF Granted
  <2> HIDE DEF made, left, given, allowed
  <2>3. made + left <= MaxAttempts * allowed
    BY <2>1, <2>2, BudgetArithmetic
  <2>4. MaxAttempts * allowed \in Nat
    BY <2>2, RecoveryAssumption
  <2>5. made <= MaxAttempts * allowed
    BY <2>1, <2>3, <2>4
  <2> QED
    BY <2>5 DEF made, allowed
<1> QED
  BY <1>1, <1>2, <1>3, ClaimInvariance, PTL DEF Spec
=============================================================================
