---------------------------- MODULE ProcessProofs ----------------------------
(***************************************************************************)
(* Proofs about the two programs that are stopped while they work: the     *)
(* ordinary worker, whose stop closes what its tasks and threads use, and  *)
(* the command line client, which signals, a kill or a loss of power may   *)
(* end between any two steps of an update.                                 *)
(***************************************************************************)
EXTENDS WorkerProcess, TargetRegistry, TLAPS

-----------------------------------------------------------------------------
(* The ordinary worker, for any number of native calls.                    *)

\* The stages of the loop in which an attempt's tasks may run.
Attempting == {"attempt", "succeed", "fail", "unwind", "leave"}

\* Resources are closed in the last stages of the main task, which begin when
\* there is no loop or it is over; outside an attempt no task of one is left.
StopInv ==
    /\ TypeOK
    /\ database = "closed" <=> main \in {"draining", "exited"}
    /\ store = "open" <=> main \notin {"draining", "exited"}
    /\ store = "closed" <=> main = "exited"
    /\ main \in {"starting", "closing", "draining", "exited"} => loop \in {"none", "done"}
    /\ loop \notin Attempting => Joined
    /\ main = "exited" => Drained

\* An effect counts as late only after the stop, and once one does the handler
\* is not about to be allowed another.
LateInv ==
    /\ ~stopped => late = 0
    /\ late # 0 => handler # "admit"
    /\ late <= 1

\* The worker starts with everything open and nobody at work.
LEMMA StopInit == Init => StopInv
<1> SUFFICES ASSUME Init PROVE StopInv
  OBVIOUS
<1>1. calls \in [Slots -> {"free", "waiting", "entered", "aborted"}] /\ late \in 0 .. MaxLate
  BY WorkerAssumption DEF Init
<1>2. TypeOK
  BY <1>1 DEF Init, TypeOK, Results, Tasks
<1>3. Joined
  BY DEF Init, Joined, Unfinished
<1> QED
  BY <1>2, <1>3 DEF Init, StopInv

\* The main task closes what the loop has left.
LEMMA MainKeeps == StopInv /\ MainStep => StopInv'
<1> SUFFICES ASSUME StopInv, MainStep PROVE StopInv'
  OBVIOUS
<1> USE DEF StopInv, TypeOK, Attempting, Joined, Unfinished, tasks, process
<1>1. CASE Startup
  BY <1>1 DEF Startup
<1>2. CASE Serve
  BY <1>2 DEF Serve
<1>3. CASE GraceExpires
  BY <1>3 DEF GraceExpires, Tasks
<1>4. CASE LoopJoined
  BY <1>4 DEF LoopJoined
<1>5. CASE Close
  BY <1>5 DEF Close
<1>6. CASE Drain
  BY <1>6 DEF Drain, Drained
<1> QED
  BY <1>1, <1>2, <1>3, <1>4, <1>5, <1>6 DEF MainStep

\* The loop leaves an attempt only when its tasks have ended.
LEMMA LoopKeeps == StopInv /\ (LoopStep \/ Deadline) => StopInv'
<1> SUFFICES ASSUME StopInv, LoopStep \/ Deadline PROVE StopInv'
  OBVIOUS
<1>1. Alive \subseteq Tasks
  BY DEF Alive
<1> USE DEF StopInv, TypeOK, Attempting, Joined, Unfinished, Drained, tasks, process
<1>2. CASE Poll
  BY <1>2 DEF Poll
<1>3. CASE Claim
  BY <1>3 DEF Claim
<1>4. CASE Check
  BY <1>4 DEF Check
<1>5. CASE FirstCompleted
  BY <1>1, <1>5 DEF FirstCompleted, Unwind
<1>6. CASE Report
  BY <1>1, <1>6 DEF Report, Unwind
<1>7. CASE Unwound
  BY <1>7 DEF Unwound
<1>8. CASE LoopCanceled
  BY <1>1, <1>8 DEF LoopCanceled
<1>9. CASE Deadline
  BY <1>1, <1>9 DEF Deadline, Unwind
<1> QED
  BY <1>2, <1>3, <1>4, <1>5, <1>6, <1>7, <1>8, <1>9 DEF LoopStep

\* The handler runs in an attempt only, so before anything is closed.
LEMMA HandlerKeeps ==
    StopInv /\ (HandlerStep \/ Work \/ Checkpoint \/ Expire) => StopInv'
<1> SUFFICES ASSUME StopInv, HandlerStep \/ Work \/ Checkpoint \/ Expire PROVE StopInv'
  OBVIOUS
<1>1. \A n \in 0 .. MaxLate : Bound(n + 1) \in 0 .. MaxLate
  BY WorkerAssumption DEF Bound
<1> USE DEF StopInv, TypeOK, Results, Attempting, Joined, Unfinished, Drained, others, process, End
<1>2. CASE Saved
  BY <1>2 DEF Saved
<1>3. CASE Admit
  BY <1>1, <1>3 DEF Admit, Admitted
<1>4. CASE Return
  BY <1>4 DEF Return
<1>5. CASE AbortRecorded
  BY <1>5 DEF AbortRecorded
<1>6. CASE HandlerCanceled
  BY <1>1, <1>6 DEF HandlerCanceled, Abandon, Admitted
<1>7. CASE Work
  BY <1>7 DEF Work
<1>8. CASE Checkpoint
  BY <1>8 DEF Checkpoint
<1>9. CASE Expire
  BY <1>9 DEF Expire, Abandon
<1> QED
  BY <1>2, <1>3, <1>4, <1>5, <1>6, <1>7, <1>8, <1>9 DEF HandlerStep

\* Every step keeps the order of the stop.
LEMMA StopStep == StopInv /\ [Next]_vars => StopInv'
<1> SUFFICES ASSUME StopInv, [Next]_vars PROVE StopInv'
  OBVIOUS
<1> USE DEF StopInv, TypeOK, Attempting, Joined, Unfinished, Drained
<1>1. CASE Stop
  BY <1>1 DEF Stop, tasks
<1>2. CASE RenewerStep
  BY <1>2 DEF RenewerStep, Renew, RenewerCanceled, process
<1>3. ASSUME NEW s \in Slots, Thread(s) PROVE StopInv'
  BY <1>3 DEF Thread, process
<1>4. CASE UNCHANGED vars
  BY <1>4 DEF vars
<1> QED
  BY <1>1, <1>2, <1>3, <1>4, MainKeeps, LoopKeeps, HandlerKeeps DEF Next, Exited

\* The order of the stop holds at every moment.
THEOREM StopInvariant == Spec => []StopInv
<1> QED
  BY StopInit, StopStep, PTL DEF Spec

\* The worker's variables are well-formed.
THEOREM WorkerTypes == Spec => []TypeOK
<1>1. StopInv => TypeOK
  BY DEF StopInv
<1> QED
  BY <1>1, StopInvariant, PTL

\* However the stop, the deadline, the lease and the calls race, nothing is
\* closed under somebody who uses it (run_application_worker, _execute,
\* S3ArtifactStore.close).
THEOREM ResourcesStay == Spec => []ResourcesOutliveUsers
<1>1. StopInv => ResourcesOutliveUsers
  BY DEF StopInv, ResourcesOutliveUsers, Attempting, Joined, Unfinished, Drained
<1> QED
  BY <1>1, StopInvariant, PTL

\* Whatever happens, the flag is read between two admissions.
LEMMA LateStep == StopInv /\ LateInv /\ [Next]_vars => LateInv'
<1> SUFFICES ASSUME StopInv, LateInv, [Next]_vars PROVE LateInv'
  OBVIOUS
<1>1. late \in Nat /\ MaxLate \in Nat
  BY WorkerAssumption DEF StopInv, TypeOK
<1>2. late = 0 => Bound(late + 1) \in {0, 1}
  BY <1>1 DEF Bound
<1> USE DEF LateInv
<1>3. CASE Stop
  BY <1>1, <1>3 DEF Stop, tasks
<1>4. CASE MainStep
  BY <1>4 DEF MainStep, Startup, Serve, GraceExpires, LoopJoined, Close, Drain, tasks
<1>5. CASE LoopStep \/ Deadline
  <2>1. UNCHANGED <<late, stopped>> /\ (handler' = handler \/ handler' = "busy")
    BY <1>5 DEF LoopStep, Deadline, Poll, Claim, Check, FirstCompleted, Report, Unwound,
                LoopCanceled, tasks, process
  <2> QED
    BY <2>1
<1>6. CASE HandlerStep \/ Work \/ Checkpoint \/ Expire
  <2> USE DEF End, others, process
  <2>1. CASE Saved
    BY <2>1 DEF Saved
  <2>2. CASE Admit
    BY <1>1, <1>2, <2>2 DEF Admit, Admitted
  <2>3. CASE Return
    BY <2>3 DEF Return
  <2>4. CASE AbortRecorded
    BY <2>4 DEF AbortRecorded
  <2>5. CASE HandlerCanceled
    BY <1>1, <1>2, <2>5 DEF HandlerCanceled, Abandon, Admitted
  <2>6. CASE Work
    BY <2>6 DEF Work
  <2>7. CASE Checkpoint
    BY <1>1, <2>7 DEF Checkpoint, NotStopping
  <2>8. CASE Expire
    BY <2>8 DEF Expire, Abandon
  <2> QED
    BY <1>6, <2>1, <2>2, <2>3, <2>4, <2>5, <2>6, <2>7, <2>8 DEF HandlerStep
<1>7. CASE RenewerStep
  BY <1>7 DEF RenewerStep, Renew, RenewerCanceled, process
<1>8. ASSUME NEW s \in Slots, Thread(s) PROVE LateInv'
  BY <1>8 DEF Thread, process
<1>9. CASE UNCHANGED vars
  BY <1>9 DEF vars
<1> QED
  BY <1>3, <1>4, <1>5, <1>6, <1>7, <1>8, <1>9 DEF Next, Exited

\* After the stop at most the one effect is admitted whose flag was read before
\* (prepare, begin_effect, admit_put, admit_delete).
THEOREM AtMostOneLate == Spec => []OneLateEffect
<1>1. Init => LateInv
  BY DEF Init, LateInv
<1>2. LateInv => OneLateEffect
  BY DEF LateInv, OneLateEffect
<1> QED
  BY <1>1, <1>2, LateStep, StopInvariant, PTL DEF Spec

-----------------------------------------------------------------------------
(* The registry of targets, for any number of calls, labels and bindings.  *)

\* What is known of a call, given the registry that is read and the one that
\* survives: under the lock, what it has loaded is what it will replace; the
\* entry it is about to make is free, and the target it is about to select is
\* there; and what it has answered is true.
RowInv(row, current, durable) ==
    /\ row.stage # "ended" => row.answer = "none"
    /\ row.stage \in Underway \/ row.answer = "saved" => row.label \in Labels
    /\ row.op = "add" /\ (row.stage \in {"waiting"} \cup Inside \/ row.answer = "saved")
           => row.binding \in Bindings
    /\ row.stage \in {"loaded", "writing"} => row.seen = current
    /\ row.stage = "writing" => (row.op = "add" <=> current.targets[row.label] = None)
    /\ row.stage = "replaced" =>
           /\ row.wrote = current.writes /\ row.wrote > 0
           /\ row.op = "add" => current.targets[row.label] = row.binding
    /\ row.stage \notin {"replaced", "ended"} => row.wrote = 0
    /\ row.answer \notin {"none", "saved", "unconfirmed"} => row.wrote = 0
    /\ row.answer = "saved" =>
           /\ row.wrote \in 1 .. durable.writes
           /\ row.op = "add" => /\ current.targets[row.label] = row.binding
                                /\ durable.targets[row.label] = row.binding

\* Nothing survives that was not written.
RegistryInv ==
    /\ RegistryTypeOK
    /\ disk.writes <= file.writes
    /\ \A c \in Calls : RowInv(call[c], file, disk)

\* An empty registry is a registry.
LEMMA EmptyIsRegistry == EmptyRegistry \in Registry /\ EmptyRegistry.writes = 0
<1>1. [l \in Labels |-> None] \in [Labels -> Bindings \cup {None}]
  OBVIOUS
<1> QED
  BY <1>1 DEF EmptyRegistry, Registry

\* Before the first call nothing is registered.
LEMMA RegistryStarts == RegistryInit => RegistryInv
<1> SUFFICES ASSUME RegistryInit PROVE RegistryInv
  OBVIOUS
<1>1. IdleCall \in CallRow
  BY EmptyIsRegistry DEF IdleCall, CallRow, Answers
<1>2. IdleCall.stage = "idle" /\ IdleCall.answer = "none" /\ IdleCall.wrote = 0
  BY DEF IdleCall
<1>3. \A c \in Calls : call[c] = IdleCall
  BY DEF RegistryInit
<1>4. \A c \in Calls : RowInv(call[c], file, disk)
  BY <1>2, <1>3 DEF RowInv, Underway, Inside
<1>5. RegistryTypeOK
  BY <1>1, <1>2, <1>3, EmptyIsRegistry, RegistryAssumption
  DEF RegistryInit, RegistryTypeOK, Inside
<1> QED
  BY <1>4, <1>5, EmptyIsRegistry DEF RegistryInit, RegistryInv

\* A call that takes a step and leaves the registry alone need only look to its
\* own row and to the lock.
LEMMA OneCallMoves ==
  ASSUME RegistryInv, NEW c \in Calls, NEW row, row \in CallRow,
         call' = [call EXCEPT ![c] = row], UNCHANGED <<file, disk>>,
         RowInv(row, file, disk),
         \/ lock' = lock /\ (row.stage \in Inside <=> call[c].stage \in Inside)
         \/ lock = Nobody /\ lock' = c /\ row.stage \in Inside
         \/ lock = c /\ lock' = Nobody /\ row.stage \notin Inside
  PROVE  RegistryInv'
<1>1. call' \in [Calls -> CallRow] /\ call'[c] = row
  BY DEF RegistryInv, RegistryTypeOK
<1>2. \A d \in Calls \ {c} : call'[d] = call[d]
  BY DEF RegistryInv, RegistryTypeOK
<1>3. \A d \in Calls : RowInv(call'[d], file', disk')
  BY <1>1, <1>2 DEF RegistryInv
<1>4. \A d \in Calls : call'[d].stage \in Inside <=> lock' = d
  BY <1>1, <1>2, RegistryAssumption DEF RegistryInv, RegistryTypeOK
<1>5. RegistryTypeOK'
  BY <1>1, <1>4, RegistryAssumption DEF RegistryInv, RegistryTypeOK
<1> QED
  BY <1>3, <1>5 DEF RegistryInv

\* What is left of a call that is over.
LEMMA EndedRow ==
  ASSUME RegistryInv, NEW c \in Calls, NEW answer \in Answers
  PROVE  LET row == [Forgotten(c) EXCEPT !.answer = answer]
         IN  /\ row \in CallRow /\ Forgotten(c) \in CallRow
             /\ row.stage = "ended" /\ row.answer = answer
             /\ row.wrote = call[c].wrote /\ row.op = call[c].op
             /\ row.label = call[c].label /\ row.binding = call[c].binding
             /\ Forgotten(c).stage = "ended" /\ Forgotten(c).answer = call[c].answer
             /\ Forgotten(c).wrote = call[c].wrote
<1>1. call[c] \in CallRow
  BY DEF RegistryInv, RegistryTypeOK
<1> QED
  BY <1>1, EmptyIsRegistry DEF Forgotten, CallRow

\* A call may end with any answer that is no promise, unless it has replaced the
\* registry: then it ends unconfirmed.
LEMMA EndsKeeps ==
  ASSUME RegistryInv, NEW c \in Calls, NEW answer \in Answers \ {"saved"},
         call[c].stage \in Underway, Ends(c, answer), UNCHANGED <<file, disk>>,
         call[c].stage = "replaced" => answer = "unconfirmed"
  PROVE  RegistryInv'
<1> DEFINE row == [Forgotten(c) EXCEPT !.answer = answer]
<1>1. /\ row \in CallRow
      /\ row.stage = "ended" /\ row.answer = answer /\ row.wrote = call[c].wrote
  BY EndedRow
<1>2. call' = [call EXCEPT ![c] = row] /\ lock' = IF lock = c THEN Nobody ELSE lock
  BY DEF Ends, Reported
<1> HIDE DEF row
<1>3. answer # "unconfirmed" => call[c].wrote = 0
  BY DEF RegistryInv, RowInv, Underway, Inside
<1>4. RowInv(row, file, disk)
  BY <1>1, <1>3 DEF RowInv, Underway, Inside, Answers
<1>5. row.stage \notin Inside
  BY <1>1 DEF Inside
<1>6. call[c].stage \in Inside <=> lock = c
  BY DEF RegistryInv, RegistryTypeOK
<1> QED
  BY <1>1, <1>2, <1>4, <1>5, <1>6, OneCallMoves

\* A call that goes on without ending, in its own row: the row's new value.
LEMMA CallsGoOn ==
  ASSUME RegistryInv, NEW c \in Calls,
         \/ \E op \in {"add", "use"}, label \in Labels : Start(c, op, label)
         \/ \E binding \in Bindings : Discover(c, binding)
         \/ Signal(c) \/ Acquire(c) \/ Load(c) \/ Write(c)
  PROVE  RegistryInv'
<1>1. call[c] \in CallRow /\ file \in Registry /\ RowInv(call[c], file, disk)
  BY DEF RegistryInv, RegistryTypeOK
<1>2. ASSUME NEW op \in {"add", "use"}, NEW label \in Labels, Start(c, op, label)
      PROVE  RegistryInv'
  <2> DEFINE row == [call[c] EXCEPT !.stage = IF op = "add" THEN "discovering" ELSE "waiting",
                                    !.op = op, !.label = label]
  <2>1. call' = [call EXCEPT ![c] = row]
    BY <1>2 DEF Start, RegistryInv, RegistryTypeOK
  <2>2. row \in CallRow
    BY <1>1 DEF CallRow, Underway
  <2>3. RowInv(row, file, disk)
    BY <1>1, <1>2 DEF RowInv, CallRow, Start, Underway, Inside
  <2>4. row.stage \notin Inside /\ call[c].stage \notin Inside
    BY <1>1, <1>2 DEF CallRow, Start, Inside
  <2>5. UNCHANGED <<file, disk, lock>>
    BY <1>2 DEF Start
  <2> HIDE DEF row
  <2> QED
    BY <2>1, <2>2, <2>3, <2>4, <2>5, OneCallMoves
<1>3. ASSUME NEW binding \in Bindings, Discover(c, binding) PROVE RegistryInv'
  <2> DEFINE row == [call[c] EXCEPT !.stage = "waiting", !.binding = binding]
  <2>1. call' = [call EXCEPT ![c] = row]
    BY <1>3 DEF Discover, RegistryInv, RegistryTypeOK
  <2>2. row \in CallRow
    BY <1>1 DEF CallRow, Underway
  <2>3. RowInv(row, file, disk)
    BY <1>1, <1>3 DEF RowInv, CallRow, Discover, Underway, Inside
  <2>4. row.stage \notin Inside /\ call[c].stage \notin Inside
    BY <1>1, <1>3 DEF CallRow, Discover, Inside
  <2>5. UNCHANGED <<file, disk, lock>>
    BY <1>3 DEF Discover
  <2> HIDE DEF row
  <2> QED
    BY <2>1, <2>2, <2>3, <2>4, <2>5, OneCallMoves
<1>4. CASE Signal(c)
  <2> DEFINE row == [call[c] EXCEPT !.stop = TRUE]
  <2>1. call' = [call EXCEPT ![c] = row]
    BY <1>4 DEF Signal, RegistryInv, RegistryTypeOK
  <2>2. row \in CallRow /\ row.stage = call[c].stage
    BY <1>1 DEF CallRow
  <2>3. RowInv(row, file, disk)
    BY <1>1 DEF RowInv, CallRow
  <2>4. UNCHANGED <<file, disk, lock>>
    BY <1>4 DEF Signal
  <2> HIDE DEF row
  <2> QED
    BY <2>1, <2>2, <2>3, <2>4, OneCallMoves
<1>5. CASE Acquire(c)
  <2> DEFINE row == [call[c] EXCEPT !.stage = "locked"]
  <2>1. call' = [call EXCEPT ![c] = row]
    BY <1>5 DEF Acquire, RegistryInv, RegistryTypeOK
  <2>2. row \in CallRow /\ row.stage \in Inside
    BY <1>1 DEF CallRow, Underway, Inside
  <2>3. RowInv(row, file, disk)
    BY <1>1, <1>5 DEF RowInv, CallRow, Acquire, LockIsFree, Underway, Inside
  <2>4. UNCHANGED <<file, disk>> /\ lock = Nobody /\ lock' = c
    BY <1>5 DEF Acquire, LockIsFree
  <2> HIDE DEF row
  <2> QED
    BY <2>1, <2>2, <2>3, <2>4, OneCallMoves
<1>6. CASE Load(c)
  <2> DEFINE row == [call[c] EXCEPT !.stage = "loaded", !.seen = file]
  <2>1. call' = [call EXCEPT ![c] = row]
    BY <1>6 DEF Load, RegistryInv, RegistryTypeOK
  <2>2. row \in CallRow /\ row.stage \in Inside
    BY <1>1 DEF CallRow, Underway, Inside
  <2>3. RowInv(row, file, disk)
    BY <1>1, <1>6 DEF RowInv, CallRow, Load, Underway, Inside
  <2>4. UNCHANGED <<file, disk, lock>> /\ call[c].stage \in Inside
    BY <1>6 DEF Load, Inside
  <2> HIDE DEF row
  <2> QED
    BY <2>1, <2>2, <2>3, <2>4, OneCallMoves
<1>7. CASE Write(c)
  <2> DEFINE row == [call[c] EXCEPT !.stage = "writing"]
  <2>1. call' = [call EXCEPT ![c] = row]
    BY <1>7 DEF Write, RegistryInv, RegistryTypeOK
  <2>2. row \in CallRow /\ row.stage \in Inside
    BY <1>1 DEF CallRow, Underway, Inside
  <2>3. call[c].seen = file /\ call[c].op \in {"add", "use"}
    BY <1>1, <1>7 DEF RowInv, CallRow, Write
  <2>4. call[c].op = "add" <=> file.targets[call[c].label] = None
    BY <1>7, <2>3 DEF Write, Refused, Unchanged
  <2>5. RowInv(row, file, disk)
    BY <1>1, <1>7, <2>4 DEF RowInv, CallRow, Write, Underway, Inside
  <2>6. UNCHANGED <<file, disk, lock>> /\ call[c].stage \in Inside
    BY <1>7 DEF Write, Inside
  <2> HIDE DEF row
  <2> QED
    BY <2>1, <2>2, <2>5, <2>6, OneCallMoves
<1> QED
  BY <1>2, <1>3, <1>4, <1>5, <1>6, <1>7

\* Every other end but a promise.
LEMMA CallsEnd ==
  ASSUME RegistryInv, NEW c \in Calls,
         \/ Interrupt(c) \/ Fail(c) \/ GiveUp(c) \/ Refuse(c) \/ Keep(c)
         \/ ReplaceFails(c) \/ SyncFails(c)
  PROVE  RegistryInv'
<1>1. PICK answer \in Answers \ {"saved"} :
         /\ Ends(c, answer) /\ UNCHANGED <<file, disk>>
         /\ call[c].stage \in Underway
         /\ call[c].stage = "replaced" => answer = "unconfirmed"
  BY DEF Interrupt, Fail, GiveUp, Refuse, Keep, ReplaceFails, SyncFails, AfterLostSync,
         Answers, Underway, Inside
<1> QED
  BY <1>1, EndsKeeps

\* A call that is gone has promised nothing.
LEMMA KillKeeps ==
  ASSUME RegistryInv, NEW c \in Calls, Kill(c)
  PROVE  RegistryInv'
<1> DEFINE row == Forgotten(c)
<1>1. row \in CallRow /\ row.stage = "ended" /\ row.answer = call[c].answer
  BY EndedRow DEF Answers
<1>2. call' = [call EXCEPT ![c] = row] /\ UNCHANGED <<file, disk>>
  BY DEF Kill
<1>3. call[c].answer = "none" /\ (call[c].stage \in Inside <=> lock = c)
  BY DEF Kill, RegistryInv, RegistryTypeOK, RowInv, Underway, Inside
<1>4. lock' = IF lock = c THEN Nobody ELSE lock
  BY DEF Kill
<1> HIDE DEF row
<1>5. RowInv(row, file, disk) /\ row.stage \notin Inside
  BY <1>1, <1>3 DEF RowInv, Underway, Inside
<1> QED
  BY <1>1, <1>2, <1>3, <1>4, <1>5, OneCallMoves

\* What is true of a call stays true when the registry it is in becomes durable.
LEMMA DurableKeeps ==
  ASSUME RegistryInv, NEW c \in Calls
  PROVE  RowInv(call[c], file, file)
<1>1. RowInv(call[c], file, disk) /\ disk.writes <= file.writes
  BY DEF RegistryInv
<1>2. disk.writes \in Nat /\ file.writes \in Nat /\ call[c].wrote \in Nat
  BY DEF RegistryInv, RegistryTypeOK, Registry, CallRow
<1>3. call[c].wrote \in 1 .. disk.writes => call[c].wrote \in 1 .. file.writes
  BY <1>1, <1>2
<1> QED
  BY <1>1, <1>3 DEF RowInv

\* The directory is written back: what is read survives.
LEMMA WriteBackKeeps == RegistryInv /\ WriteBack => RegistryInv'
<1> SUFFICES ASSUME RegistryInv, WriteBack PROVE RegistryInv'
  OBVIOUS
<1>1. disk' = file /\ UNCHANGED <<file, lock, call>>
  BY DEF WriteBack
<1>2. \A c \in Calls : RowInv(call'[c], file', disk')
  BY <1>1, DurableKeeps
<1>3. RegistryTypeOK'
  BY <1>1 DEF RegistryInv, RegistryTypeOK
<1>4. disk'.writes <= file'.writes
  BY <1>1 DEF RegistryInv, RegistryTypeOK, Registry
<1> QED
  BY <1>2, <1>3, <1>4 DEF RegistryInv

\* A call promises when its registry is durable.
LEMMA SyncKeeps ==
  ASSUME RegistryInv, NEW c \in Calls, Sync(c)
  PROVE  RegistryInv'
<1> DEFINE row == [Forgotten(c) EXCEPT !.answer = "saved"]
<1>1. /\ row \in CallRow /\ row.stage = "ended" /\ row.answer = "saved"
      /\ row.wrote = call[c].wrote /\ row.op = call[c].op
      /\ row.label = call[c].label /\ row.binding = call[c].binding
  <2>1. "saved" \in Answers
    BY DEF Answers
  <2> QED
    BY <2>1, EndedRow
<1>2. call' = [call EXCEPT ![c] = row] /\ lock' = IF lock = c THEN Nobody ELSE lock
  BY DEF Sync, Ends, Reported
<1>3. disk' = file /\ file' = file /\ call[c].stage = "replaced"
  BY DEF Sync
<1> HIDE DEF row
<1>4. call[c].wrote = file.writes /\ call[c].wrote > 0 /\ file.writes \in Nat
  BY <1>3 DEF RegistryInv, RegistryTypeOK, RowInv, Registry
<1>5. row.wrote \in 1 .. file.writes
  BY <1>1, <1>4
<1>6. RowInv(row, file, file)
  BY <1>1, <1>3, <1>5 DEF RegistryInv, RowInv, Underway, Inside
<1>7. call' \in [Calls -> CallRow] /\ call'[c] = row /\ \A d \in Calls \ {c} : call'[d] = call[d]
  BY <1>1, <1>2 DEF RegistryInv, RegistryTypeOK
<1>8. \A d \in Calls : RowInv(call'[d], file', disk')
  BY <1>3, <1>6, <1>7, DurableKeeps
<1>9. \A d \in Calls : call'[d].stage \in Inside <=> lock' = d
  <2>1. lock = c
    BY <1>3 DEF RegistryInv, RegistryTypeOK, Inside
  <2> QED
    BY <1>1, <1>2, <1>7, <2>1, RegistryAssumption DEF RegistryInv, RegistryTypeOK, Inside
<1>10. RegistryTypeOK'
  BY <1>2, <1>3, <1>7, <1>9 DEF RegistryInv, RegistryTypeOK
<1> QED
  BY <1>3, <1>4, <1>8, <1>10 DEF RegistryInv

\* What a replacement makes of the registry: the entry that was free, or the
\* preference, and nothing else.
LEMMA ReplacementIs ==
  ASSUME RegistryInv, NEW c \in Calls, Replace(c)
  PROVE  /\ call[c].label \in Labels /\ call[c].op \in {"add", "use"}
         /\ file' \in Registry /\ file'.writes = file.writes + 1
         /\ call[c].seen = file
         /\ call[c].op = "add" =>
                /\ call[c].binding \in Bindings
                /\ file.targets[call[c].label] = None
                /\ file'.targets[call[c].label] = call[c].binding
                /\ \A l \in Labels \ {call[c].label} : file'.targets[l] = file.targets[l]
                /\ file'.selected = file.selected
         /\ call[c].op = "use" =>
                /\ file.targets[call[c].label] # None
                /\ file'.targets = file.targets
                /\ file'.selected = call[c].label
<1>1. call[c] \in CallRow /\ file \in Registry /\ RowInv(call[c], file, disk)
  BY DEF RegistryInv, RegistryTypeOK
<1>2. call[c].stage = "writing" /\ file' = Updated(c)
  BY DEF Replace
<1>3. /\ call[c].label \in Labels /\ call[c].op \in {"add", "use"} /\ call[c].seen = file
      /\ call[c].op = "add" <=> file.targets[call[c].label] = None
      /\ call[c].op = "add" => call[c].binding \in Bindings
  BY <1>1, <1>2 DEF RowInv, CallRow, Underway, Inside
<1>4. file.targets \in [Labels -> Bindings \cup {None}] /\ file.writes \in Nat
      /\ file.selected \in Labels \cup {None}
  BY <1>1 DEF Registry
<1> PICK total \in Nat : total = file.writes + 1
  BY <1>4
<1>5. CASE call[c].op = "add"
  <2> DEFINE entries == [file.targets EXCEPT ![call[c].label] = call[c].binding]
  <2>1. entries \in [Labels -> Bindings \cup {None}]
    BY <1>3, <1>4, <1>5
  <2>2. /\ entries[call[c].label] = call[c].binding
        /\ \A l \in Labels \ {call[c].label} : entries[l] = file.targets[l]
    BY <1>3, <1>4
  <2>3. file' = [file EXCEPT !.targets = entries, !.writes = total]
    BY <1>1, <1>2, <1>3, <1>5 DEF Updated, Registry
  <2> HIDE DEF entries
  <2>4. /\ file' \in Registry /\ file'.targets = entries /\ file'.writes = total
        /\ file'.selected = file.selected
    BY <1>1, <1>4, <2>1, <2>3 DEF Registry
  <2> QED
    BY <1>3, <1>5, <2>2, <2>4
<1>6. CASE call[c].op = "use"
  <2>1. file' = [file EXCEPT !.selected = call[c].label, !.writes = total]
    BY <1>1, <1>2, <1>3, <1>6 DEF Updated, Registry
  <2>2. /\ file' \in Registry /\ file'.targets = file.targets /\ file'.writes = total
        /\ file'.selected = call[c].label
    BY <1>1, <1>3, <1>4, <2>1 DEF Registry
  <2> QED
    BY <1>3, <1>6, <2>2
<1> QED
  BY <1>3, <1>5, <1>6

\* A replacement breaks no promise: it adds where nothing was.
LEMMA ReplaceKeeps ==
  ASSUME RegistryInv, NEW c \in Calls, Replace(c)
  PROVE  RegistryInv'
<1>0. file'.writes \in Nat
  BY ReplacementIs DEF Registry
<1> PICK total \in Nat : total = file'.writes
  BY <1>0
<1> DEFINE row == [call[c] EXCEPT !.stage = "replaced", !.wrote = total]
<1>1. call[c] \in CallRow /\ file \in Registry /\ disk \in Registry /\ RowInv(call[c], file, disk)
  BY DEF RegistryInv, RegistryTypeOK
<1>2. file.writes \in Nat /\ disk.writes \in Nat /\ disk.writes <= file.writes
  BY <1>1 DEF Registry, RegistryInv
<1>3. file' \in Registry /\ file'.writes = file.writes + 1
  BY ReplacementIs
<1>4. call' = [call EXCEPT ![c] = row]
  BY DEF Replace, RegistryInv, RegistryTypeOK
<1>5. /\ row \in CallRow /\ row.stage = "replaced" /\ row.wrote = total
      /\ row.op = call[c].op /\ row.label = call[c].label /\ row.binding = call[c].binding
      /\ row.answer = call[c].answer
  BY <1>1, <1>2, <1>3 DEF CallRow, Underway, Inside
<1> HIDE DEF row
<1>6. call[c].stage = "writing" /\ lock' = lock /\ disk' = disk
  BY DEF Replace
<1>7. RowInv(row, file', disk')
  <2>1. row.wrote > 0
    BY <1>2, <1>3, <1>5
  <2>2. row.answer = "none"
    BY <1>1, <1>5, <1>6 DEF RowInv
  <2>3. row.op = "add" => row.binding \in Bindings /\ file'.targets[row.label] = row.binding
    BY <1>5, ReplacementIs
  <2>4. row.label \in Labels
    BY <1>5, ReplacementIs
  <2> QED
    BY <1>5, <2>1, <2>2, <2>3, <2>4 DEF RowInv, Underway, Inside
<1>8. call' \in [Calls -> CallRow] /\ call'[c] = row /\ \A d \in Calls \ {c} : call'[d] = call[d]
  BY <1>4, <1>5 DEF RegistryInv, RegistryTypeOK
<1>9. lock = c
  BY <1>6 DEF RegistryInv, RegistryTypeOK, Inside
<1>10. ASSUME NEW d \in Calls \ {c} PROVE RowInv(call'[d], file', disk')
  <2>1. RowInv(call[d], file, disk) /\ call[d].stage \notin Inside
    BY <1>9 DEF RegistryInv, RegistryTypeOK
  <2>2. call[d].answer = "saved" /\ call[d].op = "add" =>
           file'.targets[call[d].label] = call[d].binding
    <3> SUFFICES ASSUME call[d].answer = "saved", call[d].op = "add"
                 PROVE  file'.targets[call[d].label] = call[d].binding
      OBVIOUS
    <3>1. /\ call[d].label \in Labels /\ call[d].binding \in Bindings
          /\ file.targets[call[d].label] = call[d].binding
      BY <2>1 DEF RowInv
    <3>2. file.targets[call[d].label] # None
      BY <3>1, RegistryAssumption
    <3> QED
      BY <3>1, <3>2, ReplacementIs
  <2>3. RowInv(call[d], file', disk)
    BY <2>1, <2>2 DEF RowInv, Inside
  <2> QED
    BY <1>6, <1>8, <2>3
<1>11. \A d \in Calls : RowInv(call'[d], file', disk')
  BY <1>7, <1>8, <1>10
<1>12. \A d \in Calls : call'[d].stage \in Inside <=> lock' = d
  BY <1>5, <1>6, <1>8 DEF RegistryInv, RegistryTypeOK, Inside
<1>13. RegistryTypeOK'
  BY <1>3, <1>6, <1>8, <1>12 DEF RegistryInv, RegistryTypeOK
<1> QED
  BY <1>2, <1>3, <1>6, <1>11, <1>13 DEF RegistryInv

\* A loss of power takes back what was never promised.
LEMMA PowerLossKeeps == RegistryInv /\ PowerLoss => RegistryInv'
<1> SUFFICES ASSUME RegistryInv, PowerLoss PROVE RegistryInv'
  OBVIOUS
<1>1. file' = disk /\ disk' = disk /\ lock' = Nobody /\ disk \in Registry
  BY DEF PowerLoss, RegistryInv, RegistryTypeOK
<1>2. ASSUME NEW d \in Calls
      PROVE  /\ call'[d] \in CallRow /\ call'[d].stage \notin Inside
             /\ RowInv(call'[d], file', disk')
  <2>1. call[d] \in CallRow /\ RowInv(call[d], file, disk)
    BY DEF RegistryInv, RegistryTypeOK
  <2>2. CASE call[d].stage \in Underway
    <3> DEFINE row == Forgotten(d)
    <3>1. call'[d] = row
      BY <2>2 DEF PowerLoss
    <3>2. row \in CallRow /\ row.stage = "ended" /\ row.answer = call[d].answer
      BY EndedRow DEF Answers
    <3> HIDE DEF row
    <3>3. row.answer = "none"
      BY <2>1, <2>2, <3>2 DEF RowInv, Underway, Inside
    <3> QED
      BY <3>1, <3>2, <3>3 DEF RowInv, Underway, Inside
  <2>3. CASE call[d].stage \notin Underway
    <3>1. call'[d] = call[d]
      BY <2>3 DEF PowerLoss
    <3>2. RowInv(call[d], disk, disk)
      BY <2>1, <2>3 DEF RowInv, Underway, Inside
    <3> QED
      BY <1>1, <2>1, <2>3, <3>1, <3>2 DEF Underway
  <2> QED
    BY <2>2, <2>3
<1>3. DOMAIN call' = Calls /\ call' = [d \in Calls |-> call'[d]]
  BY DEF PowerLoss
<1>4. call' \in [Calls -> CallRow]
  BY <1>2, <1>3
<1>5. RegistryTypeOK'
  BY <1>1, <1>2, <1>4, RegistryAssumption DEF RegistryTypeOK
<1>6. disk'.writes <= file'.writes
  BY <1>1 DEF Registry
<1> QED
  BY <1>2, <1>5, <1>6 DEF RegistryInv

\* Every step, of every call and of the machine.
LEMMA RegistryStep == RegistryInv /\ [RegistryNext]_registryVars => RegistryInv'
<1> SUFFICES ASSUME RegistryInv, [RegistryNext]_registryVars PROVE RegistryInv'
  OBVIOUS
<1>1. CASE UNCHANGED registryVars
  BY <1>1 DEF registryVars, RegistryInv, RegistryTypeOK
<1>2. CASE RegistryNext
  BY <1>2, CallsGoOn, CallsEnd, KillKeeps, SyncKeeps, ReplaceKeeps, WriteBackKeeps,
     PowerLossKeeps
  DEF RegistryNext
<1> QED
  BY <1>1, <1>2

\* The invariant of the registry.
THEOREM RegistryInvariant == RegistrySpec => []RegistryInv
<1> QED
  BY RegistryStarts, RegistryStep, PTL DEF RegistrySpec

\* The registry's variables are well-formed, and whoever is between the lock and
\* the end of an update is the one who holds the lock.
THEOREM RegistryTypes == RegistrySpec => []RegistryTypeOK
<1>1. RegistryInv => RegistryTypeOK
  BY DEF RegistryInv
<1> QED
  BY <1>1, RegistryInvariant, PTL

\* What was answered as saved is there, whoever writes and whenever power is
\* lost (publish, update).
THEOREM SavedStays == RegistrySpec => []SavedSurvives
<1>1. RegistryInv => SavedSurvives
  BY DEF RegistryInv, RowInv, SavedSurvives
<1> QED
  BY <1>1, RegistryInvariant, PTL

\* Whoever is told that nothing was done did nothing (TargetError, Report).
THEOREM SilenceIsKept == RegistrySpec => []NoSilentChange
<1>1. RegistryInv => NoSilentChange
  BY DEF RegistryInv, RowInv, NoSilentChange
<1> QED
  BY <1>1, RegistryInvariant, PTL

\* Only a replacement publishes.
LEMMA OnlyReplacePublishes ==
  ASSUME RegistryInv, RegistryNext, file'.writes > file.writes
  PROVE  \E c \in Calls : Replace(c)
<1>1. disk.writes \in Nat /\ file.writes \in Nat /\ disk.writes <= file.writes
  BY DEF RegistryInv, RegistryTypeOK, Registry
<1>2. ~PowerLoss
  BY <1>1 DEF PowerLoss
<1>3. file' # file
  BY <1>1
<1> QED
  BY <1>2, <1>3 DEF RegistryNext, Start, Discover, Signal, Interrupt, Fail, Kill, Acquire,
                    GiveUp, Load, Refuse, Keep, Write, ReplaceFails, Sync, SyncFails, WriteBack

\* A publication makes one entry where there was none or moves the preference,
\* and leaves everything else alone, whatever was published meanwhile (update).
THEOREM PublicationsKeepOthers == RegistrySpec => OthersAreKept
<1> DEFINE Kept ==
      file'.writes > file.writes =>
         /\ \/ /\ file'.selected = file.selected
               /\ \E l \in Labels :
                     /\ file.targets[l] = None
                     /\ \A k \in Labels \ {l} : file'.targets[k] = file.targets[k]
            \/ /\ file'.targets = file.targets
               /\ file.targets[file'.selected] # None
         /\ \E c \in Calls :
               /\ call[c].stage = "writing" /\ call'[c].stage = "replaced"
               /\ call[c].seen.selected = file.selected
<1>1. RegistryInv /\ [RegistryNext]_registryVars => [Kept]_registryVars
  <2> SUFFICES ASSUME RegistryInv, RegistryNext, file'.writes > file.writes PROVE Kept
    BY DEF registryVars
  <2>1. PICK c \in Calls : Replace(c)
    BY OnlyReplacePublishes
  <2>2. call[c].stage = "writing"
    BY <2>1 DEF Replace
  <2>3. call'[c].stage = "replaced"
    BY <2>1 DEF Replace, RegistryInv, RegistryTypeOK, CallRow
  <2> QED
    BY <2>1, <2>2, <2>3, ReplacementIs
<1> QED
  BY <1>1, RegistryInvariant, PTL DEF RegistrySpec, OthersAreKept
=============================================================================
