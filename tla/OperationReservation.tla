------------------------ MODULE OperationReservation ------------------------
(* Requests that carry the same idempotency key.  The reservation, the work   *)
(* and the saved result are one transaction of the caller at READ COMMITTED,  *)
(* so only finished reservations are ever seen by another transaction; the    *)
(* scoped unique constraint decides which transaction owns the key.           *)
EXTENDS Naturals

CONSTANTS
    Clients,        \* requests in flight at once
    Meanings,       \* what a request can ask for (its fingerprint)
    Retention,      \* _COMPLETED_RETENTION
    Never,          \* expires_at IS NULL
    NoRow,
    Idle,
    MaxTime,        \* bound on the clock, for model checking
    MaxOperations   \* bound on the operation identities issued

ASSUME ReservationAssumption ==
    /\ Retention \in Nat \ {0}
    /\ MaxTime \in Nat
    /\ MaxOperations \in Nat
    /\ Never \notin Nat
    /\ NoRow \notin [op : Nat, meaning : Meanings, until : Nat \union {Never}]

VARIABLES
    now,            \* clock_timestamp()
    async,          \* the route starts a job: OperationReplayKind.ASYNC_JOB
    row,            \* the committed reservation of the key
    tx,             \* of each client: its request's transaction
    issued,         \* operation identities generated so far
    performed,      \* operations whose work was committed
    told            \* <<meaning, operation>> of every answer

vars == <<now, async, row, tx, issued, performed, told>>

Rows == [op : Nat, meaning : Meanings, until : Nat \union {Never}]

Transactions ==
    [stage : {"purge", "insert", "find", "replay", "work", "commit"},
     meaning : Meanings,
     purged : BOOLEAN,                  \* deleted the expired row
     own : Rows \union {NoRow},         \* the row it inserted
     found : Nat]                       \* the operation it read

TypeOK ==
    /\ now \in 0 .. MaxTime
    /\ async \in BOOLEAN
    /\ row \in Rows \union {NoRow}
    /\ tx \in [Clients -> Transactions \union {Idle}]
    /\ issued \in 0 .. MaxOperations
    /\ performed \subseteq 1 .. issued
    /\ told \subseteq Meanings \X (1 .. issued)

Init ==
    /\ now = 0
    /\ async \in BOOLEAN
    /\ row = NoRow
    /\ tx = [c \in Clients |-> Idle]
    /\ issued = 0
    /\ performed = {}
    /\ told = {}

-----------------------------------------------------------------------------

At(c, stage) == tx[c] # Idle /\ tx[c].stage = stage

\* Deletes of this transaction are seen by others at its commit.
GoneAtOnce(r) == NoRow
KeptUntilCommit(r) == r

Unfinished(r) == r # NoRow /\ (r.until # Never => r.until <= now)
Expired(r) == r # NoRow /\ r.until # Never /\ r.until <= now

\* The row of the key is locked by another transaction that changes it.
Contended(c) ==
    \E d \in Clients \ {c} : tx[d] # Idle /\ (tx[d].purged \/ tx[d].own # NoRow)

Begin(c) ==
    /\ tx[c] = Idle
    /\ \E meaning \in Meanings :
           tx' = [tx EXCEPT ![c] = [stage |-> "purge", meaning |-> meaning, purged |-> FALSE,
                                    own |-> NoRow, found |-> 0]]
    /\ UNCHANGED <<now, async, row, issued, performed, told>>

\* Statement 1 of reserve: release the key if its outcome has expired.
Purge(c) ==
    /\ At(c, "purge")
    /\ \/ /\ Expired(row)
          /\ ~Contended(c)
          /\ row' = KeptUntilCommit(row)
          /\ tx' = [tx EXCEPT ![c].stage = "insert", ![c].purged = TRUE]
       \/ /\ ~Expired(row)
          /\ tx' = [tx EXCEPT ![c].stage = "insert"]
          /\ UNCHANGED row
    /\ UNCHANGED <<now, async, issued, performed, told>>

\* Statement 2: INSERT ... ON CONFLICT DO NOTHING waits for a competing
\* transaction, then inserts or finds the key taken.
Insert(c) ==
    /\ At(c, "insert")
    /\ ~Contended(c)
    /\ \/ /\ row # NoRow
          /\ ~tx[c].purged
          /\ tx' = [tx EXCEPT ![c].stage = "find"]
          /\ UNCHANGED issued
       \/ /\ row = NoRow \/ tx[c].purged
          /\ issued < MaxOperations
          /\ issued' = issued + 1
          /\ tx' = [tx EXCEPT ![c].stage = "work",
                              ![c].own = [op |-> issued', meaning |-> tx[c].meaning, until |-> Never]]
    /\ UNCHANGED <<now, async, row, performed, told>>

\* Statement 3 and the decision on the stored outcome.  A job is found by its
\* operation; a synchronous result is read by a statement of its own.
Find(c) ==
    /\ At(c, "find")
    /\ row # NoRow
    /\ \/ /\ row.meaning # tx[c].meaning            \* IdempotencyKeyReusedError
          /\ tx' = [tx EXCEPT ![c] = Idle]
          /\ UNCHANGED told
       \/ /\ row.meaning = tx[c].meaning
          /\ async
          /\ tx' = [tx EXCEPT ![c] = Idle]
          /\ told' = told \union {<<tx[c].meaning, row.op>>}
       \/ /\ row.meaning = tx[c].meaning
          /\ ~async
          /\ tx' = [tx EXCEPT ![c].stage = "replay", ![c].found = row.op]
          /\ UNCHANGED told
    /\ UNCHANGED <<now, async, row, issued, performed>>

\* The original result, which goes with its reservation; else ConflictError.
Replay(c) ==
    /\ At(c, "replay")
    /\ told' = told \union (IF row # NoRow /\ row.op = tx[c].found /\ ~Expired(row)
                            THEN {<<tx[c].meaning, row.op>>} ELSE {})
    /\ tx' = [tx EXCEPT ![c] = Idle]
    /\ UNCHANGED <<now, async, row, issued, performed>>

\* The work, and record_completed_result.
Complete(c) ==
    /\ At(c, "work")
    /\ tx' = [tx EXCEPT ![c].stage = "commit",
                        ![c].own.until = IF async THEN Never ELSE now + Retention]
    /\ UNCHANGED <<now, async, row, issued, performed, told>>

Commit(c) ==
    /\ At(c, "commit")
    /\ row' = tx[c].own
    /\ performed' = performed \union {tx[c].own.op}
    /\ told' = told \union {<<tx[c].meaning, tx[c].own.op>>}
    /\ tx' = [tx EXCEPT ![c] = Idle]
    /\ UNCHANGED <<now, async, issued>>

\* Refused work, a timeout, a lost connection or a crash.
Rollback(c) ==
    /\ tx[c] # Idle
    /\ tx' = [tx EXCEPT ![c] = Idle]
    /\ UNCHANGED <<now, async, row, issued, performed, told>>

\* The job of an accepted operation ends with a known outcome; in doubt, the
\* reservation keeps no deadline.
SettleJob ==
    /\ async
    /\ row # NoRow
    /\ row.until = Never
    /\ row' = [row EXCEPT !.until = now + Retention]
    /\ UNCHANGED <<now, async, tx, issued, performed, told>>

Tick ==
    /\ now < MaxTime
    /\ now' = now + 1
    /\ UNCHANGED <<async, row, tx, issued, performed, told>>

Step(c) == Purge(c) \/ Insert(c) \/ Find(c) \/ Replay(c) \/ Complete(c) \/ Commit(c)

Next ==
    \/ \E c \in Clients : Begin(c) \/ Step(c) \/ Rollback(c)
    \/ SettleJob
    \/ Tick


Spec == Init /\ [][Next]_vars
-----------------------------------------------------------------------------

\* The request that lost the key always finds the winner's row, whatever
\* expires or is released between its statements: the RuntimeError
\* "Conflicting operation reservation was not found after insert" never happens.
WinnerIsFound == \A c \in Clients : At(c, "find") => row # NoRow

Contract == INSTANCE ReplayContract WITH clock <- now, outcome <- row, NoOutcome <- NoRow

\* Every step of the transactions is a step of the contract or invisible to
\* it: one performance per kept outcome, and answers from that outcome only.
ImplementsContract == Contract!ContractSpec
=============================================================================
