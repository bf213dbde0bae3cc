---------------------------- MODULE WorkerProcess ----------------------------
(* The process that runs ordinary jobs: one loop that claims and executes an  *)
(* attempt at a time, the handler and the lease renewal it runs as tasks, the *)
(* threads of the artifact store, and the orderly stop that cancels, joins    *)
(* and closes them.  A cancellation is a request that the task meets at its   *)
(* next step; what a database call decides is left open.                      *)
EXTENDS Naturals, FiniteSets

CONSTANTS
    Slots,      \* native calls the store keeps in flight: at most two
    NoCall,     \* the handler waits for no native call
    MaxLate     \* bound on the count of late effects

ASSUME WorkerAssumption == NoCall \notin Slots /\ MaxLate \in Nat

VARIABLES
    stopped,    \* the event set by SIGINT and SIGTERM
    main,       \* run_application_worker and _serve
    loop,       \* the task of loop() with _execute
    handler,    \* the task of handler.run
    result,     \* how the handler ended
    renewer,    \* the task of keep_lease
    cancels,    \* tasks with an undelivered cancellation
    calls,      \* of each slot: the gate of its native call, or "free"
    awaited,    \* the slot the handler waits for
    database,   \* the connection pool: open or disposed
    store,      \* the S3 client: "open", "closing" or "closed"
    late        \* effects admitted after the stop

vars == <<stopped, main, loop, handler, result, renewer, cancels, calls, awaited,
          database, store, late>>

Tasks == {"loop", "handler", "renewer"}
Results == {"ok", "error", "deferred", "stopped"}

TypeOK ==
    /\ stopped \in BOOLEAN
    /\ main \in {"starting", "serving", "grace", "joining", "closing", "draining", "exited"}
    /\ loop \in {"none", "poll", "claim", "check", "attempt", "succeed", "fail", "unwind",
                 "leave", "done"}
    /\ handler \in {"none", "busy", "admit", "call", "abort", "save", "ended"}
    /\ result \in Results
    /\ renewer \in {"none", "asleep", "renew", "ended"}
    /\ cancels \subseteq Tasks
    /\ calls \in [Slots -> {"free", "waiting", "entered", "aborted"}]
    /\ awaited \in Slots \union {NoCall}
    /\ database \in {"open", "closed"}
    /\ store \in {"open", "closing", "closed"}
    /\ late \in 0 .. MaxLate

Init ==
    /\ stopped = FALSE
    /\ main = "starting"
    /\ loop = "none"
    /\ handler = "none"
    /\ result = "ok"
    /\ renewer = "none"
    /\ cancels = {}
    /\ calls = [s \in Slots |-> "free"]
    /\ awaited = NoCall
    /\ database = "open"
    /\ store = "open"
    /\ late = 0

tasks == <<handler, result, renewer, calls, awaited, late>>
process == <<stopped, main, database, store>>

-----------------------------------------------------------------------------
(* The main task *)

Stop ==
    /\ ~stopped
    /\ main # "exited"
    /\ stopped' = TRUE
    /\ UNCHANGED <<main, loop, cancels, tasks, database, store>>

\* Startup succeeds, fails, or is overtaken by the stop.
Startup ==
    /\ main = "starting"
    /\ \/ /\ ~stopped
          /\ main' = "serving"
          /\ loop' = "poll"
       \/ /\ main' = "closing"
          /\ UNCHANGED loop
    /\ UNCHANGED <<stopped, cancels, tasks, database, store>>

Serve ==
    /\ main = "serving"
    /\ \/ loop = "done" /\ main' = "closing"
       \/ loop # "done" /\ stopped /\ main' = "grace"
    /\ UNCHANGED <<stopped, loop, cancels, tasks, database, store>>

\* shutdown_seconds are over: the loop is canceled and joined.
GraceExpires ==
    /\ main = "grace"
    /\ loop # "done"
    /\ main' = "joining"
    /\ cancels' = cancels \union {"loop"}
    /\ UNCHANGED <<stopped, loop, tasks, database, store>>

LoopJoined ==
    /\ main \in {"grace", "joining"}
    /\ loop = "done"
    /\ main' = "closing"
    /\ UNCHANGED <<stopped, loop, cancels, tasks, database, store>>

\* The pool is disposed, and the store refuses calls from then on.
Close ==
    /\ main = "closing"
    /\ main' = "draining"
    /\ database' = "closed"
    /\ store' = "closing"
    /\ UNCHANGED <<stopped, loop, cancels, tasks>>

Drained == \A s \in Slots : calls[s] = "free"

Drain ==
    /\ main = "draining"
    /\ Drained
    /\ main' = "exited"
    /\ store' = "closed"
    /\ UNCHANGED <<stopped, loop, cancels, tasks, database>>

-----------------------------------------------------------------------------
(* The loop and _execute *)

Running(task) == task \notin cancels

Unfinished(task) ==
    CASE task = "handler" -> handler \notin {"none", "ended"}
      [] task = "renewer" -> renewer \notin {"none", "ended"}
      [] OTHER -> FALSE

HandlerOnly == {task \in {"handler"} : Unfinished(task)}
Alive == {task \in Tasks : Unfinished(task)}

\* The finally of _execute: cancel both tasks and gather them.
Unwind(how) ==
    /\ loop' = how
    /\ cancels' = cancels \union Alive

Poll ==
    /\ loop = "poll"
    /\ Running("loop")
    /\ loop' = IF stopped THEN "done" ELSE "claim"
    /\ UNCHANGED <<cancels, tasks, process>>

\* A job is claimed and the flag read before its check is sent; no job, or an
\* unavailable database, is a poll; anything unexpected ends the loop.
Claim ==
    /\ loop = "claim"
    /\ Running("loop")
    /\ \/ loop' \in {"poll", "done"}
       \/ ~stopped /\ loop' = "check"
    /\ UNCHANGED <<cancels, tasks, process>>

Check ==
    /\ loop = "check"
    /\ Running("loop")
    /\ \/ /\ loop' = "attempt"
          /\ handler' = "busy"
          /\ renewer' = "asleep"
       \/ /\ loop' \in {"poll", "fail"}
          /\ UNCHANGED <<handler, renewer>>
    /\ UNCHANGED <<result, calls, awaited, late, cancels, process>>

\* The first of the two tasks is done; a lost lease counts before a result.
FirstCompleted ==
    /\ loop = "attempt"
    /\ Running("loop")
    /\ \/ renewer = "ended" /\ (Unwind("unwind") \/ (loop' = "fail" /\ UNCHANGED cancels))
       \/ /\ renewer # "ended"
          /\ handler = "ended"
          /\ CASE result = "ok" -> loop' = "succeed" /\ UNCHANGED cancels
               [] result = "error" -> loop' = "fail" /\ UNCHANGED cancels
               [] OTHER -> Unwind("unwind")
    /\ UNCHANGED <<tasks, process>>

\* The work deadline.
Deadline ==
    /\ loop \in {"attempt", "succeed"}
    /\ Running("loop")
    /\ Unwind("unwind")
    /\ UNCHANGED <<tasks, process>>

\* The outcome is saved, refused or unconfirmed; a refused success is a failure,
\* and an unexpected error of a failure leaves the loop.
Report ==
    /\ loop \in {"succeed", "fail"}
    /\ Running("loop")
    /\ \/ Unwind("unwind")
       \/ loop = "succeed" /\ loop' = "fail" /\ UNCHANGED cancels
       \/ loop = "fail" /\ Unwind("leave")
    /\ UNCHANGED <<tasks, process>>

RenewerJoined == ~Unfinished("renewer")
Joined == ~Unfinished("handler") /\ ~Unfinished("renewer")

Unwound ==
    /\ loop \in {"unwind", "leave"}
    /\ Running("loop")
    /\ Joined
    /\ loop' = IF loop = "leave" THEN "done" ELSE "poll"
    /\ UNCHANGED <<cancels, tasks, process>>

\* Cancellation ends the loop where it waits, but not before its tasks: gather
\* passes the cancellation on and goes on waiting.
LoopCanceled ==
    /\ "loop" \in cancels
    /\ IF loop \in {"attempt", "succeed", "fail", "unwind", "leave"}
       THEN /\ loop' = "leave"
            /\ cancels' = (cancels \ {"loop"}) \union Alive
       ELSE /\ loop' = "done"
            /\ cancels' = cancels \ {"loop"}
    /\ UNCHANGED <<tasks, process>>

-----------------------------------------------------------------------------
(* The handler *)

others == <<loop, renewer, cancels, process>>

End(how) == handler' = "ended" /\ result' = how

Bound(n) == IF n < MaxLate THEN n ELSE MaxLate
Admitted == late' = IF stopped THEN Bound(late + 1) ELSE late

\* Work between two checkpoints, for as long as it takes.
Work ==
    /\ handler = "busy"
    /\ Running("handler")
    /\ \E how \in Results : End(how)
    /\ UNCHANGED <<calls, awaited, late, others>>

Unchecked == TRUE
NotStopping == ~stopped

\* prepare, begin_effect, admit_put and admit_delete read the flag, then wait
\* for the database; save and confirm_effect do not read it.
Checkpoint ==
    /\ handler = "busy"
    /\ Running("handler")
    /\ \/ handler' = "save" /\ UNCHANGED result
       \/ NotStopping /\ handler' = "admit" /\ UNCHANGED result
       \/ ~NotStopping /\ End("stopped")
    /\ UNCHANGED <<calls, awaited, late, others>>

Saved ==
    /\ handler = "save"
    /\ Running("handler")
    /\ \/ handler' = "busy" /\ UNCHANGED result
       \/ \E how \in Results \ {"ok"} : End(how)
    /\ UNCHANGED <<calls, awaited, late, others>>

\* The effect is admitted, or not; then _call takes a slot of the pool, or
\* raises ArtifactStoreUnavailableError with the effect admitted.
Admit ==
    /\ handler = "admit"
    /\ Running("handler")
    /\ \/ /\ \E how \in Results \ {"ok"} : End(how)
          /\ UNCHANGED <<calls, awaited, late>>
       \/ /\ Admitted
          /\ handler' = "busy"                      \* an effect of its own
          /\ UNCHANGED <<result, calls, awaited>>
       \/ /\ Admitted
          /\ store = "open"
          /\ \E s \in Slots : /\ calls[s] = "free"
                              /\ calls' = [calls EXCEPT ![s] = "waiting"]
                              /\ awaited' = s
          /\ handler' = "call"
          /\ UNCHANGED result
       \/ /\ Admitted
          /\ store # "open" \/ \A s \in Slots : calls[s] # "free"
          /\ End("error")
          /\ UNCHANGED <<calls, awaited>>
    /\ UNCHANGED others

\* The thread ran: acknowledged, or failed with an unknown outcome.
Return ==
    /\ handler = "call"
    /\ Running("handler")
    /\ calls[awaited] = "free"
    /\ awaited' = NoCall
    /\ \/ handler' = "busy" /\ UNCHANGED result
       \/ End("error")
    /\ UNCHANGED <<calls, late, others>>

\* The caller stops waiting.  If it closes the gate first the call never
\* happens, and that is recorded while there is time; else nobody knows.
Abandon ==
    /\ handler = "call"
    /\ awaited' = NoCall
    /\ \/ /\ calls[awaited] = "waiting"
          /\ calls' = [calls EXCEPT ![awaited] = "aborted"]
          /\ (handler' = "abort" /\ UNCHANGED result) \/ End("error")
       \/ /\ calls[awaited] # "waiting"
          /\ End("error")
          /\ UNCHANGED calls

Expire ==
    /\ Running("handler")
    /\ Abandon
    /\ UNCHANGED <<late, others>>

AbortRecorded ==
    /\ handler = "abort"
    /\ Running("handler")
    /\ \E how \in Results \ {"ok"} : End(how)
    /\ UNCHANGED <<calls, awaited, late, others>>

\* A canceled admission may have been committed; a canceled call is abandoned
\* like one that timed out; everything else ends here.
HandlerCanceled ==
    /\ "handler" \in cancels
    /\ cancels' = cancels \ {"handler"}
    /\ \/ Abandon /\ UNCHANGED late
       \/ /\ handler # "call"
          /\ End("deferred")
          /\ (handler = "admit" /\ Admitted) \/ UNCHANGED late
          /\ UNCHANGED <<calls, awaited>>
    /\ UNCHANGED <<loop, renewer, process>>

-----------------------------------------------------------------------------
(* The renewal and the threads *)

Renew ==
    /\ Running("renewer")
    /\ \/ renewer = "asleep" /\ renewer' = "renew"
       \/ renewer = "renew" /\ renewer' \in {"asleep", "ended"}
    /\ UNCHANGED <<loop, handler, result, calls, awaited, late, cancels, process>>

RenewerCanceled ==
    /\ "renewer" \in cancels
    /\ cancels' = cancels \ {"renewer"}
    /\ renewer' = "ended"
    /\ UNCHANGED <<loop, handler, result, calls, awaited, late, process>>

\* A thread passes the gate, and sooner or later returns; past a closed gate
\* it returns at once.
Thread(s) ==
    /\ \/ calls[s] = "waiting" /\ calls' = [calls EXCEPT ![s] = "entered"]
       \/ calls[s] \in {"entered", "aborted"} /\ calls' = [calls EXCEPT ![s] = "free"]
    /\ UNCHANGED <<loop, handler, result, renewer, awaited, late, cancels, process>>

-----------------------------------------------------------------------------

MainStep == Startup \/ Serve \/ GraceExpires \/ LoopJoined \/ Close \/ Drain
LoopStep == Poll \/ Claim \/ Check \/ FirstCompleted \/ Report \/ Unwound \/ LoopCanceled
HandlerStep == Saved \/ Admit \/ Return \/ AbortRecorded \/ HandlerCanceled
RenewerStep == Renew \/ RenewerCanceled

Exited == main = "exited" /\ UNCHANGED vars

Next ==
    \/ Stop \/ MainStep
    \/ LoopStep \/ Deadline
    \/ HandlerStep \/ Work \/ Checkpoint \/ Expire
    \/ RenewerStep
    \/ \E s \in Slots : Thread(s)
    \/ Exited

\* Timers fire, database calls are bounded by timeouts, SDK calls by theirs, and
\* a runnable task runs; a handler's own work need not come to an end.
Spec ==
    /\ Init /\ [][Next]_vars
    /\ WF_vars(MainStep) /\ WF_vars(LoopStep) /\ WF_vars(Deadline)
    /\ WF_vars(HandlerStep) /\ WF_vars(RenewerStep)
    /\ \A s \in Slots : WF_vars(Thread(s))
-----------------------------------------------------------------------------

\* Nothing is taken away from somebody who uses it: no task waits for the
\* database after its pool is disposed, no thread runs with a closed client, and
\* no handler finds the store closed under an effect it was just allowed.
ResourcesOutliveUsers ==
    /\ database = "closed" =>
           /\ loop \notin {"claim", "check", "succeed", "fail"}
           /\ handler \notin {"admit", "abort", "save"}
           /\ renewer # "renew"
    /\ store # "open" => handler \notin {"busy", "admit", "call"}
    /\ store = "closed" => \A s \in Slots : calls[s] = "free"

\* After the stop at most the one effect is admitted whose flag was read before,
\* however many the handler still has ahead.
OneLateEffect == late <= 1

\* Renewal, handler, threads and shutdown do not wait for each other for ever:
\* the worker comes back from every attempt, and a stopped process exits.
NobodyWaitsForever ==
    /\ loop \in {"check", "attempt", "succeed", "fail", "unwind", "leave"}
           ~> loop \in {"poll", "done"}
    /\ stopped ~> main = "exited"
=============================================================================
