-------------------------- MODULE ReservationProofs --------------------------
(* The reservations of one key implement the contract, for any number of     *)
(* requests, meanings and any retention.  At most one transaction has a      *)
(* change of the key under way, and what it inserts replaces nothing, or the *)
(* expired row that it deleted.                                              *)
EXTENDS OperationReservation, TLAPS

\* The transaction has an uncommitted change of the key.
Holding(c) == tx[c] # Idle /\ (tx[c].purged \/ tx[c].own # NoRow)

OneHolder == \A c, d \in Clients : Holding(c) /\ Holding(d) => c = d
PurgedIsExpired == \A c \in Clients : tx[c] # Idle /\ tx[c].purged => Expired(row)
Owned(c) ==
    /\ tx[c].stage \in {"work", "commit"} <=> tx[c].own # NoRow
    /\ tx[c].own # NoRow =>
           /\ row = NoRow \/ tx[c].purged
           /\ tx[c].own.op \in (1 .. issued) \ performed
           /\ tx[c].own.meaning = tx[c].meaning
OwnIsFresh == \A c \in Clients : tx[c] # Idle => Owned(c)

Inv ==
    /\ TypeOK
    /\ OneHolder
    /\ PurgedIsExpired
    /\ OwnIsFresh
    /\ WinnerIsFound

-----------------------------------------------------------------------------
LEMMA InitInv == Init => Inv
  BY ReservationAssumption DEF Init, Inv, TypeOK, OneHolder, PurgedIsExpired, OwnIsFresh, Holding,
     WinnerIsFound, At

\* What a step of one client leaves alone: the other transactions.
LEMMA Others ==
    ASSUME TypeOK, NEW c \in Clients, NEW t \in Transactions \union {Idle},
           tx' = [tx EXCEPT ![c] = t]
    PROVE  /\ tx'[c] = t
           /\ \A d \in Clients \ {c} : tx'[d] = tx[d]
           /\ tx' \in [Clients -> Transactions \union {Idle}]
  BY DEF TypeOK

\* A step that changes one transaction, and holds no more of the key than before.
LEMMA QuietStep ==
    ASSUME Inv, NEW c \in Clients, NEW t \in Transactions \union {Idle},
           tx' = [tx EXCEPT ![c] = t],
           UNCHANGED <<now, async, row, issued, performed>>,
           told' \subseteq Meanings \X (1 .. issued),
           t # Idle => /\ tx[c] # Idle \/ (~t.purged /\ t.own = NoRow)
                       /\ tx[c] # Idle => t.purged = tx[c].purged
                       /\ t.stage \in {"work", "commit"} <=> t.own # NoRow
                       /\ t.own # NoRow => /\ tx[c] # Idle
                                           /\ tx[c].own # NoRow
                                           /\ t.own.op = tx[c].own.op
                                           /\ t.own.meaning = t.meaning
                       /\ t.stage = "find" => row # NoRow
    PROVE  Inv'
<1>1. /\ tx'[c] = t
      /\ \A d \in Clients \ {c} : tx'[d] = tx[d]
      /\ tx' \in [Clients -> Transactions \union {Idle}]
  BY Others DEF Inv
<1>2. TypeOK'
  BY <1>1 DEF Inv, TypeOK
<1>3. \A d \in Clients : Holding(d)' => Holding(d)
  BY <1>1 DEF Holding
<1>4. OneHolder'
  BY <1>3 DEF Inv, OneHolder
<1>5. PurgedIsExpired'
  <2>1. Expired(row)' <=> Expired(row)
    BY DEF Expired
  <2>2. QED
    BY <1>1, <2>1 DEF Inv, PurgedIsExpired
<1>6. OwnIsFresh'
  <2>1. ASSUME t # Idle PROVE Owned(c)'
    BY <1>1, <2>1 DEF Inv, OwnIsFresh, Owned
  <2>2. QED
    BY <1>1, <2>1 DEF Inv, OwnIsFresh, Owned
<1>7. WinnerIsFound'
  BY <1>1 DEF Inv, WinnerIsFound, At
<1>8. QED
  BY <1>2, <1>4, <1>5, <1>6, <1>7 DEF Inv
-----------------------------------------------------------------------------
LEMMA BeginInv == ASSUME Inv, NEW c \in Clients, Begin(c) PROVE Inv'
<1>1. PICK meaning \in Meanings :
        tx' = [tx EXCEPT ![c] = [stage |-> "purge", meaning |-> meaning, purged |-> FALSE,
                                 own |-> NoRow, found |-> 0]]
  BY DEF Begin
<1>2. [stage |-> "purge", meaning |-> meaning, purged |-> FALSE, own |-> NoRow, found |-> 0]
        \in Transactions
  BY DEF Transactions
<1>3. told \subseteq Meanings \X (1 .. issued)
  BY DEF Inv, TypeOK
<1>4. QED
  BY <1>1, <1>2, <1>3, QuietStep DEF Begin

\* Deleting the expired row makes the transaction the only holder.
LEMMA PurgeInv == ASSUME Inv, NEW c \in Clients, Purge(c) PROVE Inv'
<1>1. tx[c] \in Transactions /\ tx[c].stage = "purge" /\ tx[c] # Idle
  BY DEF Purge, At, Inv, TypeOK
<1>2. tx[c].own = NoRow
  BY <1>1 DEF Inv, OwnIsFresh, Owned
<1>3. told \subseteq Meanings \X (1 .. issued)
  BY DEF Inv, TypeOK
<1>4. CASE ~Expired(row)
  <2>1. tx' = [tx EXCEPT ![c] = [tx[c] EXCEPT !.stage = "insert"]]
    BY <1>4 DEF Purge
  <2>2. [tx[c] EXCEPT !.stage = "insert"] \in Transactions
    BY <1>1 DEF Transactions
  <2>3. UNCHANGED <<now, async, row, issued, performed, told>>
    BY <1>4 DEF Purge
  <2>4. QED
    BY <1>1, <1>2, <1>3, <2>1, <2>2, <2>3, QuietStep DEF Transactions
<1>5. CASE Expired(row)
  <2> DEFINE t == [tx[c] EXCEPT !.stage = "insert", !.purged = TRUE]
  <2>1. tx' = [tx EXCEPT ![c] = t] /\ ~Contended(c)
    BY <1>5 DEF Purge
  <2>2. t \in Transactions
    BY <1>1 DEF Transactions
  <2>3. t.stage = "insert" /\ t.own = NoRow
    BY <1>1, <1>2 DEF Transactions
  <2>4. UNCHANGED <<now, async, row, issued, performed, told>>
    BY <1>5 DEF Purge, KeptUntilCommit
  <2> HIDE DEF t
  <2>5. /\ tx'[c] = t
        /\ \A d \in Clients \ {c} : tx'[d] = tx[d]
        /\ tx' \in [Clients -> Transactions \union {Idle}]
    BY <2>1, <2>2, Others DEF Inv
  <2>6. TypeOK'
    BY <2>4, <2>5 DEF Inv, TypeOK
  <2>7. OneHolder'
    <3>1. \A d \in Clients \ {c} : ~Holding(d)'
      BY <2>1, <2>5, <2>4 DEF Contended, Holding
    <3>2. QED
      BY <3>1 DEF OneHolder
  <2>8. PurgedIsExpired'
    BY <1>5, <2>4 DEF PurgedIsExpired, Expired
  <2>9. OwnIsFresh'
    BY <2>3, <2>4, <2>5 DEF Inv, OwnIsFresh, Owned
  <2>10. WinnerIsFound'
    BY <2>3, <2>4, <2>5 DEF Inv, WinnerIsFound, At
  <2>11. QED
    BY <2>6, <2>7, <2>8, <2>9, <2>10 DEF Inv
<1>6. QED
  BY <1>4, <1>5

\* The key goes to the only holder, under an operation nobody has used.
LEMMA InsertInv == ASSUME Inv, NEW c \in Clients, Insert(c) PROVE Inv'
<1>1. tx[c] \in Transactions /\ tx[c].stage = "insert" /\ tx[c] # Idle
  BY DEF Insert, At, Inv, TypeOK
<1>2. tx[c].own = NoRow
  BY <1>1 DEF Inv, OwnIsFresh, Owned
<1>3. told \subseteq Meanings \X (1 .. issued)
  BY DEF Inv, TypeOK
<1>4. CASE row # NoRow /\ ~tx[c].purged
  <2>1. /\ tx' = [tx EXCEPT ![c] = [tx[c] EXCEPT !.stage = "find"]]
        /\ UNCHANGED <<now, async, row, issued, performed, told>>
    BY <1>4 DEF Insert
  <2>2. [tx[c] EXCEPT !.stage = "find"] \in Transactions
    BY <1>1 DEF Transactions
  <2>3. QED
    BY <1>1, <1>2, <1>3, <1>4, <2>1, <2>2, QuietStep DEF Transactions
<1>5. CASE row = NoRow \/ tx[c].purged
  <2> DEFINE mine == [op |-> issued + 1, meaning |-> tx[c].meaning, until |-> Never]
             t == [tx[c] EXCEPT !.stage = "work", !.own = mine]
  <2>1. /\ tx' = [tx EXCEPT ![c] = t]
        /\ issued' = issued + 1
        /\ issued < MaxOperations
        /\ ~Contended(c)
        /\ UNCHANGED <<now, async, row, performed, told>>
    BY <1>5 DEF Insert
  <2>2. issued \in Nat /\ issued' \in 0 .. MaxOperations /\ 1 .. issued \subseteq 1 .. issued'
    BY <2>1, ReservationAssumption DEF Inv, TypeOK
  <2>3. mine \in Rows /\ mine # NoRow
    BY <1>1, <2>2, ReservationAssumption DEF Rows, Transactions
  <2>4. t \in Transactions
    BY <1>1, <2>3 DEF Transactions
  <2>5. t.stage = "work" /\ t.own = mine /\ t.purged = tx[c].purged /\ t.meaning = tx[c].meaning
    BY <1>1 DEF Transactions
  <2>6. mine.op = issued' /\ mine.meaning = tx[c].meaning
    BY <2>1
  <2> HIDE DEF t, mine
  <2>7. /\ tx'[c] = t
        /\ \A d \in Clients \ {c} : tx'[d] = tx[d]
        /\ tx' \in [Clients -> Transactions \union {Idle}]
    BY <2>1, <2>4, Others DEF Inv
  <2>8. TypeOK'
    BY <2>1, <2>2, <2>7 DEF Inv, TypeOK
  <2>9. OneHolder'
    <3>1. \A d \in Clients \ {c} : ~Holding(d)'
      BY <2>1, <2>7 DEF Contended, Holding
    <3>2. QED
      BY <3>1 DEF OneHolder
  <2>10. PurgedIsExpired'
    BY <1>1, <2>1, <2>5, <2>7 DEF Inv, PurgedIsExpired, Expired
  <2>11. issued' \in (1 .. issued') \ performed'
    BY <2>1, <2>2 DEF Inv, TypeOK
  <2>12. OwnIsFresh'
    <3>1. Owned(c)'
      BY <1>5, <2>1, <2>3, <2>5, <2>6, <2>7, <2>11 DEF Owned
    <3>2. ASSUME NEW d \in Clients \ {c}, tx[d] # Idle PROVE Owned(d)'
      BY <2>1, <2>2, <2>7, <3>2 DEF Inv, OwnIsFresh, Owned
    <3>3. QED
      BY <2>7, <3>1, <3>2 DEF OwnIsFresh
  <2>13. WinnerIsFound'
    BY <2>1, <2>5, <2>7 DEF Inv, WinnerIsFound, At
  <2>14. QED
    BY <2>8, <2>9, <2>10, <2>12, <2>13 DEF Inv
<1>6. QED
  BY <1>4, <1>5

\* The work of the row's operation has been committed.
RowIsDone == row # NoRow => row.op \in performed

LEMMA IdleInv ==
    ASSUME Inv, NEW c \in Clients, tx' = [tx EXCEPT ![c] = Idle],
           UNCHANGED <<now, async, row, issued, performed>>,
           told' \subseteq Meanings \X (1 .. issued)
    PROVE  Inv'
  BY QuietStep

LEMMA FindInv == ASSUME Inv, RowIsDone, NEW c \in Clients, Find(c) PROVE Inv'
<1>1. tx[c] \in Transactions /\ tx[c].stage = "find" /\ tx[c] # Idle /\ row \in Rows
  BY DEF Find, At, Inv, TypeOK
<1>2. tx[c].own = NoRow
  BY <1>1 DEF Inv, OwnIsFresh, Owned
<1>3. UNCHANGED <<now, async, row, issued, performed>>
  BY DEF Find
<1>4. told' \subseteq Meanings \X (1 .. issued)
  BY <1>1 DEF Find, Inv, TypeOK, RowIsDone, Transactions
<1>5. CASE tx' = [tx EXCEPT ![c] = Idle]
  BY <1>3, <1>4, <1>5, IdleInv
<1>6. CASE tx' = [tx EXCEPT ![c] = [tx[c] EXCEPT !.stage = "replay", !.found = row.op]]
  <2>1. [tx[c] EXCEPT !.stage = "replay", !.found = row.op] \in Transactions
    BY <1>1 DEF Transactions, Rows
  <2>2. QED
    BY <1>1, <1>2, <1>3, <1>4, <1>6, <2>1, QuietStep DEF Transactions
<1>7. QED
  BY <1>5, <1>6 DEF Find

LEMMA ReplayInv == ASSUME Inv, RowIsDone, NEW c \in Clients, Replay(c) PROVE Inv'
<1>1. tx[c] \in Transactions
  BY DEF Replay, At, Inv, TypeOK
<1>2. told' \subseteq Meanings \X (1 .. issued)
  BY <1>1 DEF Replay, Inv, TypeOK, RowIsDone, Transactions
<1>3. QED
  BY <1>2, IdleInv DEF Replay

LEMMA CompleteInv == ASSUME Inv, NEW c \in Clients, Complete(c) PROVE Inv'
<1> DEFINE until == IF async THEN Never ELSE now + Retention
           mine == [tx[c].own EXCEPT !.until = until]
           t == [tx[c] EXCEPT !.stage = "commit", !.own = mine]
<1>1. tx[c] \in Transactions /\ tx[c].stage = "work" /\ tx[c] # Idle
  BY DEF Complete, At, Inv, TypeOK
<1>2. tx[c].own # NoRow /\ tx[c].own \in Rows /\ tx[c].own.meaning = tx[c].meaning
  BY <1>1 DEF Inv, OwnIsFresh, Owned, Transactions
<1>3. until \in Nat \union {Never}
  BY ReservationAssumption DEF Inv, TypeOK
<1>4. mine \in Rows /\ mine.op = tx[c].own.op /\ mine.meaning = tx[c].own.meaning
  BY <1>2, <1>3 DEF Rows
<1>5. mine # NoRow
  BY <1>4, ReservationAssumption DEF Rows
<1>6. tx' = [tx EXCEPT ![c] = t] /\ UNCHANGED <<now, async, row, issued, performed, told>>
  BY DEF Complete
<1>7. t \in Transactions
  BY <1>1, <1>4 DEF Transactions
<1>8. t.stage = "commit" /\ t.own = mine /\ t.purged = tx[c].purged /\ t.meaning = tx[c].meaning
  BY <1>1 DEF Transactions
<1>9. told \subseteq Meanings \X (1 .. issued)
  BY DEF Inv, TypeOK
<1> HIDE DEF t, mine
<1>10. QED
  BY <1>1, <1>2, <1>4, <1>5, <1>6, <1>7, <1>8, <1>9, QuietStep

\* The holder's row replaces none, or the expired one it deleted; no other
\* transaction holds anything of the key.
LEMMA CommitInv == ASSUME Inv, NEW c \in Clients, Commit(c) PROVE Inv'
<1>1. tx[c] \in Transactions /\ tx[c].stage = "commit" /\ tx[c] # Idle
  BY DEF Commit, At, Inv, TypeOK
<1>2. /\ tx[c].own # NoRow
      /\ tx[c].own \in Rows
      /\ tx[c].own.op \in (1 .. issued) \ performed
  BY <1>1 DEF Inv, OwnIsFresh, Owned, Transactions
<1>3. /\ tx'[c] = Idle
      /\ \A d \in Clients \ {c} : tx'[d] = tx[d]
      /\ tx' \in [Clients -> Transactions \union {Idle}]
  BY Others DEF Commit, Inv
<1>4. \A d \in Clients \ {c} : ~Holding(d)
  BY <1>1, <1>2 DEF Inv, OneHolder, Holding
<1>5. \A d \in Clients : ~Holding(d)'
  BY <1>3, <1>4 DEF Holding
<1>6. row' = tx[c].own /\ performed' = performed \union {tx[c].own.op}
        /\ UNCHANGED <<now, async, issued>>
  BY DEF Commit
<1>7. told' \subseteq Meanings \X (1 .. issued)
  BY <1>1, <1>2 DEF Commit, Inv, TypeOK, Transactions
<1>8. TypeOK'
  BY <1>2, <1>3, <1>6, <1>7 DEF Inv, TypeOK
<1>9. OneHolder' /\ PurgedIsExpired'
  BY <1>5 DEF OneHolder, PurgedIsExpired, Holding
<1>10. OwnIsFresh'
  BY <1>3, <1>4 DEF Inv, OwnIsFresh, Owned, Holding
<1>11. WinnerIsFound'
  BY <1>2, <1>6 DEF WinnerIsFound
<1>12. QED
  BY <1>8, <1>9, <1>10, <1>11 DEF Inv

LEMMA RollbackInv == ASSUME Inv, NEW c \in Clients, Rollback(c) PROVE Inv'
  BY IdleInv DEF Rollback, Inv, TypeOK

\* Only a kept row gets a deadline, and no transaction has deleted that one.
LEMMA SettleJobInv == ASSUME Inv, SettleJob PROVE Inv'
<1>1. row' \in Rows /\ row' # NoRow
  <2>1. row \in Rows /\ now + Retention \in Nat
    BY ReservationAssumption DEF Inv, TypeOK, SettleJob
  <2>2. row' \in Rows
    BY <2>1 DEF SettleJob, Rows
  <2>3. QED
    BY <2>2, ReservationAssumption DEF Rows
<1>2. UNCHANGED <<now, async, tx, issued, performed, told>> /\ row # NoRow /\ ~Expired(row)
  BY DEF SettleJob, Expired
<1>3. TypeOK'
  BY <1>1, <1>2 DEF Inv, TypeOK
<1>4. OneHolder'
  BY <1>2 DEF Inv, OneHolder, Holding
<1>5. \A c \in Clients : tx[c] # Idle => ~tx[c].purged /\ tx[c].own = NoRow
  BY <1>2 DEF Inv, PurgedIsExpired, OwnIsFresh, Owned
<1>6. PurgedIsExpired' /\ OwnIsFresh'
  BY <1>2, <1>5 DEF Inv, PurgedIsExpired, OwnIsFresh, Owned
<1>7. WinnerIsFound'
  BY <1>1 DEF WinnerIsFound
<1>8. QED
  BY <1>3, <1>4, <1>6, <1>7 DEF Inv

\* What has expired stays so.
LEMMA TickInv == ASSUME Inv, Tick PROVE Inv'
<1>1. /\ now' = now + 1
      /\ now \in Nat
      /\ now' \in 0 .. MaxTime
      /\ UNCHANGED <<async, row, tx, issued, performed, told>>
  BY ReservationAssumption DEF Tick, Inv, TypeOK
<1>2. row \in Rows \union {NoRow}
  BY DEF Inv, TypeOK
<1>3. TypeOK'
  BY <1>1 DEF Inv, TypeOK
<1>4. Expired(row) => Expired(row)'
  BY <1>1, <1>2 DEF Expired, Rows
<1>5. PurgedIsExpired'
  BY <1>1, <1>4 DEF Inv, PurgedIsExpired
<1>6. OneHolder' /\ OwnIsFresh' /\ WinnerIsFound'
  BY <1>1 DEF Inv, OneHolder, Holding, OwnIsFresh, Owned, WinnerIsFound, At
<1>7. QED
  BY <1>3, <1>5, <1>6 DEF Inv
-----------------------------------------------------------------------------
LEMMA RowIsDoneHolds == ASSUME Inv, RowIsDone, [Next]_vars PROVE RowIsDone'
<1>1. ASSUME NEW c \in Clients, Commit(c) PROVE RowIsDone'
  BY <1>1 DEF Commit, RowIsDone
<1>2. ASSUME SettleJob PROVE RowIsDone'
  <2>1. row \in Rows
    BY <1>2 DEF SettleJob, Inv, TypeOK
  <2>2. QED
    BY <1>2, <2>1 DEF SettleJob, RowIsDone, Rows
<1>3. ASSUME UNCHANGED <<row, performed>> PROVE RowIsDone'
  BY <1>3 DEF RowIsDone
<1>4. QED
  BY <1>1, <1>2, <1>3
     DEF Next, Step, vars, Begin, Purge, KeptUntilCommit, Insert, Find, Replay, Complete, Rollback, Tick

\* The operation a request found was performed for what it asks.
Originates(t) ==
    /\ t.found \in performed
    /\ row # NoRow /\ row.op = t.found => row.meaning = t.meaning
FoundIsOriginal == \A c \in Clients : At(c, "replay") => Originates(tx[c])

\* A change of the row keeps its operation and meaning, or brings a new operation.
LEMMA OriginatesHolds ==
    ASSUME Inv, [Next]_vars, NEW t, Originates(t) PROVE Originates(t)'
<1>1. ASSUME NEW c \in Clients, Commit(c) PROVE Originates(t)'
  <2>1. tx[c].own.op \notin performed
    BY <1>1 DEF Commit, At, Inv, OwnIsFresh, Owned
  <2>2. QED
    BY <1>1, <2>1 DEF Commit, Originates
<1>2. ASSUME SettleJob PROVE Originates(t)'
  <2>1. row \in Rows
    BY <1>2 DEF SettleJob, Inv, TypeOK
  <2>2. QED
    BY <1>2, <2>1 DEF SettleJob, Originates, Rows
<1>3. ASSUME UNCHANGED <<row, performed>> PROVE Originates(t)'
  BY <1>3 DEF Originates
<1>4. QED
  BY <1>1, <1>2, <1>3
     DEF Next, Step, vars, Begin, Purge, KeptUntilCommit, Insert, Find, Replay, Complete, Rollback, Tick

\* A transaction that waits to replay has just found its operation, or waited before.
LEMMA ReplayStage ==
    ASSUME Inv, [Next]_vars, NEW d \in Clients, At(d, "replay")'
    PROVE  tx'[d] = tx[d] \/ (Find(d) /\ ~async /\ tx'[d] = [tx[d] EXCEPT !.stage = "replay", !.found = row.op])
<1>1. ASSUME NEW c \in Clients, Begin(c) \/ Purge(c) \/ Insert(c) \/ Complete(c), c = d PROVE FALSE
  <2>1. c = d /\ tx \in [Clients -> Transactions \union {Idle}]
    BY <1>1 DEF Inv, TypeOK
  <2>2. CASE Begin(c)
    BY <2>1, <2>2 DEF Begin, At
  <2>3. CASE Purge(c)
    BY <2>1, <2>3 DEF Purge, At, Transactions
  <2>4. CASE Insert(c)
    BY <2>1, <2>4 DEF Insert, At, Transactions
  <2>5. CASE Complete(c)
    BY <2>1, <2>5 DEF Complete, At, Transactions
  <2>6. QED
    BY <1>1, <2>2, <2>3, <2>4, <2>5
<1>2. ASSUME NEW c \in Clients, Replay(c) \/ Commit(c) \/ Rollback(c), c = d PROVE FALSE
  BY <1>2 DEF Replay, Commit, Rollback, At, Inv, TypeOK
<1>3. ASSUME NEW c \in Clients, Find(c), c = d
      PROVE  ~async /\ tx'[d] = [tx[d] EXCEPT !.stage = "replay", !.found = row.op]
  BY <1>3 DEF Find, At, Inv, TypeOK
<1>4. ASSUME NEW c \in Clients, Begin(c) \/ Step(c) \/ Rollback(c), c # d PROVE tx'[d] = tx[d]
  <2>1. c # d /\ tx \in [Clients -> Transactions \union {Idle}]
    BY <1>4 DEF Inv, TypeOK
  <2>2. CASE Begin(c) \/ Purge(c) \/ Insert(c) \/ Find(c)
    BY <2>1, <2>2 DEF Begin, Purge, Insert, Find
  <2>3. CASE Replay(c) \/ Complete(c) \/ Commit(c) \/ Rollback(c)
    BY <2>1, <2>3 DEF Replay, Complete, Commit, Rollback
  <2>4. QED
    BY <1>4, <2>2, <2>3 DEF Step
<1>5. CASE UNCHANGED tx
  BY <1>5
<1>6. QED
  BY <1>1, <1>2, <1>3, <1>4, <1>5 DEF Next, Step, vars, SettleJob, Tick

LEMMA FoundHolds ==
    ASSUME Inv, RowIsDone, FoundIsOriginal, [Next]_vars PROVE FoundIsOriginal'
<1> SUFFICES ASSUME NEW d \in Clients, At(d, "replay")' PROVE Originates(tx[d])'
  BY DEF FoundIsOriginal
<1>1. CASE tx'[d] = tx[d]
  <2>1. PICK t : t = tx[d]
    OBVIOUS
  <2>2. Originates(t)
    BY <1>1, <2>1 DEF FoundIsOriginal, At
  <2>3. Originates(t)'
    BY <2>2, OriginatesHolds
  <2>4. QED
    BY <1>1, <2>1, <2>3 DEF Originates
<1>2. CASE Find(d) /\ ~async /\ tx'[d] = [tx[d] EXCEPT !.stage = "replay", !.found = row.op]
  <2>1. tx[d] \in Transactions /\ row # NoRow /\ row.meaning = tx[d].meaning
    <3>1. tx[d] \in Transactions /\ row # NoRow
      BY <1>2 DEF Find, At, Inv, TypeOK
    <3>2. At(d, "replay")'
      OBVIOUS
    <3>3. row.meaning = tx[d].meaning
      BY <1>2, <3>1, <3>2 DEF Find, At, Inv, TypeOK
    <3>4. QED
      BY <3>1, <3>3
  <2>2. tx'[d].found = row.op /\ tx'[d].meaning = tx[d].meaning
    BY <1>2, <2>1 DEF Transactions
  <2>3. UNCHANGED <<row, performed>>
    BY <1>2 DEF Find
  <2>4. QED
    BY <2>1, <2>2, <2>3 DEF Originates, RowIsDone
<1>3. QED
  BY <1>1, <1>2, ReplayStage

Strong == Inv /\ RowIsDone /\ FoundIsOriginal

LEMMA StrongHolds == Strong /\ [Next]_vars => Strong'
<1> SUFFICES ASSUME Strong, [Next]_vars PROVE Strong'
  OBVIOUS
<1>1. Inv /\ RowIsDone /\ FoundIsOriginal
  BY DEF Strong
<1>2. RowIsDone' /\ FoundIsOriginal'
  BY <1>1, RowIsDoneHolds, FoundHolds
<1>3. ASSUME NEW c \in Clients, Begin(c) \/ Step(c) \/ Rollback(c) PROVE Inv'
  BY <1>1, <1>3, BeginInv, PurgeInv, InsertInv, FindInv, ReplayInv, CompleteInv, CommitInv,
     RollbackInv DEF Step
<1>4. ASSUME UNCHANGED vars PROVE Inv'
  BY <1>1, <1>4 DEF vars, Inv, TypeOK, OneHolder, Holding, PurgedIsExpired, Expired, OwnIsFresh,
     Owned, WinnerIsFound, At
<1>5. Inv'
  BY <1>1, <1>3, <1>4, SettleJobInv, TickInv DEF Next
<1>6. QED
  BY <1>2, <1>5 DEF Strong

LEMMA Reachable == Spec => []Strong
<1>1. Init => Strong
  BY InitInv DEF Init, Strong, RowIsDone, FoundIsOriginal, At
<1>2. QED
  BY <1>1, StrongHolds, PTL DEF Spec

\* The key's row, the transactions and the answers are well-formed.
THEOREM ReservationTypes == Spec => []TypeOK
<1>1. Strong => TypeOK
  BY DEF Strong, Inv
<1>2. QED
  BY <1>1, Reachable, PTL

\* Whatever expires or is released between the statements of a reservation,
\* the request that lost the key reads the winner's committed row.
THEOREM TheWinnerIsFound == Spec => []WinnerIsFound
<1>1. Strong => WinnerIsFound
  BY DEF Strong, Inv
<1>2. QED
  BY <1>1, Reachable, PTL
-----------------------------------------------------------------------------
(* The refinement: a commit performs, a find or a replay answers, the end of  *)
(* the job closes, and everything else is invisible to a client.              *)

LEMMA CommitPerforms ==
    ASSUME Strong, NEW c \in Clients, Commit(c)
    PROVE  \E meaning \in Meanings : Contract!Perform(meaning)
<1>1. tx[c] \in Transactions /\ tx[c].stage = "commit" /\ tx[c] # Idle
  BY DEF Commit, At, Strong, Inv, TypeOK
<1>2. /\ tx[c].own # NoRow
      /\ tx[c].own.op \notin performed
      /\ tx[c].own.meaning = tx[c].meaning
      /\ row = NoRow \/ tx[c].purged
  BY <1>1 DEF Strong, Inv, OwnIsFresh, Owned
<1>3. Contract!Free
  BY <1>1, <1>2 DEF Strong, Inv, PurgedIsExpired, Expired, Contract!Free, Contract!Over
<1>4. tx[c].meaning \in Meanings
  BY <1>1 DEF Transactions
<1>5. Contract!Perform(tx[c].meaning)
  BY <1>2, <1>3 DEF Commit, Contract!Perform
<1>6. QED
  BY <1>4, <1>5

LEMMA FindAnswers ==
    ASSUME Strong, NEW c \in Clients, Find(c) \/ Replay(c)
    PROVE  (\E meaning \in Meanings : Contract!Answer(meaning))
             \/ UNCHANGED <<now, row, performed, told>>
<1>1. tx[c] \in Transactions /\ tx[c].meaning \in Meanings /\ UNCHANGED <<now, row, performed>>
  BY DEF Find, Replay, At, Strong, Inv, TypeOK, Transactions
<1>2. CASE told' = told
  BY <1>1, <1>2
<1>3. CASE row # NoRow /\ row.meaning = tx[c].meaning /\ told' = told \union {<<tx[c].meaning, row.op>>}
  BY <1>1, <1>3 DEF Contract!Answer
<1>4. CASE Find(c)
  BY <1>2, <1>3, <1>4 DEF Find
<1>5. CASE Replay(c)
  <2>1. row # NoRow /\ row.op = tx[c].found => row.meaning = tx[c].meaning
    BY <1>5 DEF Replay, At, Strong, FoundIsOriginal, Originates
  <2>2. QED
    BY <1>2, <1>3, <1>5, <2>1 DEF Replay
<1>6. QED
  BY <1>4, <1>5

LEMMA EveryStepKeepsTheContract ==
    Strong /\ [Next]_vars => [Contract!ContractNext]_<<now, row, performed, told>>
<1> SUFFICES ASSUME Strong, [Next]_vars
             PROVE  [Contract!ContractNext]_<<now, row, performed, told>>
  OBVIOUS
<1>1. ASSUME NEW c \in Clients, Begin(c) \/ Purge(c) \/ Insert(c) \/ Complete(c) \/ Rollback(c)
      PROVE  UNCHANGED <<now, row, performed, told>>
  BY <1>1 DEF Begin, Purge, KeptUntilCommit, Insert, Complete, Rollback
<1>2. ASSUME NEW c \in Clients, Commit(c) PROVE Contract!ContractNext
  BY <1>2, CommitPerforms DEF Contract!ContractNext
<1>3. ASSUME NEW c \in Clients, Find(c) \/ Replay(c)
      PROVE  Contract!ContractNext \/ UNCHANGED <<now, row, performed, told>>
  BY <1>3, FindAnswers DEF Contract!ContractNext
<1>4. ASSUME SettleJob PROVE Contract!ContractNext
  BY <1>4 DEF SettleJob, Contract!ContractNext, Contract!Close
<1>5. ASSUME Tick PROVE Contract!ContractNext
  BY <1>5 DEF Tick, Contract!ContractNext, Contract!Pass
<1>6. ASSUME UNCHANGED vars PROVE UNCHANGED <<now, row, performed, told>>
  BY <1>6 DEF vars
<1>7. QED
  BY <1>1, <1>2, <1>3, <1>4, <1>5, <1>6 DEF Next, Step

\* A key's transactions keep what ReplayContract promises a client: nothing is
\* performed while an outcome is kept, and an answer names that outcome.
THEOREM ReservationsImplementContract == Spec => ImplementsContract
<1>1. Init => Contract!ContractInit
  BY DEF Init, Contract!ContractInit
<1>2. Strong /\ [Next]_vars => [Contract!ContractNext]_Contract!contractVars
  BY EveryStepKeepsTheContract DEF Contract!contractVars
<1>3. QED
  BY <1>1, <1>2, Reachable, PTL DEF Spec, ImplementsContract, Contract!ContractSpec
-----------------------------------------------------------------------------
(* What the contract means for a client, whatever keeps it.                   *)

\* Answers that name one operation were given to requests for one thing.
OneMeaning == \A a, b \in told : a[2] = b[2] => a[1] = b[1]

\* An answer names work that was done, and the outcome kept is what its own
\* operation was asked for.
Honest ==
    /\ OneMeaning
    /\ \A a \in told : a[2] \in performed
    /\ row # NoRow =>
           /\ row.op \in performed
           /\ \A a \in told : a[2] = row.op => a[1] = row.meaning

\* The contract's own steps keep its answers honest.
LEMMA ContractIsHonest ==
    ASSUME Honest, TypeOK, Contract!ContractNext PROVE Honest'
<1>1. ASSUME NEW meaning \in Meanings, Contract!Perform(meaning) PROVE Honest'
  BY <1>1 DEF Contract!Perform, Honest, OneMeaning
<1>2. ASSUME NEW meaning \in Meanings, Contract!Answer(meaning) PROVE Honest'
  BY <1>2 DEF Contract!Answer, Honest, OneMeaning
<1>3. ASSUME Contract!Close PROVE Honest'
  <2>1. row \in Rows
    BY <1>3 DEF Contract!Close, TypeOK
  <2>2. row'.op = row.op /\ row'.meaning = row.meaning /\ UNCHANGED <<performed, told>>
    BY <1>3, <2>1 DEF Contract!Close, Rows
  <2>3. QED
    BY <1>3, <2>2 DEF Contract!Close, Honest, OneMeaning
<1>4. ASSUME Contract!Forget \/ Contract!Pass PROVE Honest'
  BY <1>4 DEF Contract!Forget, Contract!Pass, Honest, OneMeaning
<1>5. QED
  BY <1>1, <1>2, <1>3, <1>4 DEF Contract!ContractNext

\* No operation is ever given as the answer to two different requests, however
\* often the key is retried, expires and is used again (IdempotencyKeyReusedError),
\* and an answer is never about work that was rolled back.
THEOREM AnswersAreHonest == Spec => []Honest
<1>1. Init => Honest
  BY DEF Init, Honest, OneMeaning
<1>2. Strong /\ Honest /\ [Next]_vars => Honest'
  <2> SUFFICES ASSUME Strong, Honest, [Next]_vars PROVE Honest'
    OBVIOUS
  <2>1. CASE UNCHANGED <<now, row, performed, told>>
    BY <2>1 DEF Honest, OneMeaning
  <2>2. TypeOK
    BY DEF Strong, Inv
  <2>3. QED
    BY <2>1, <2>2, ContractIsHonest, EveryStepKeepsTheContract
<1>3. QED
  BY <1>1, <1>2, Reachable, PTL DEF Spec
=============================================================================
