---------------------- MODULE OrganizationAccessProofs ----------------------
(***************************************************************************)
(* Proofs about Organization access for any humans, actions, operations,   *)
(* calls and maxima.  The argument: a call that has decided holds every    *)
(* lock its kind needs; a human that was not linked when the call passed   *)
(* the Organization lock stays so, because linking him needs his identity  *)
(* lock, which the call holds; so whatever another call commits meanwhile  *)
(* is not among the facts the decision was made on.                        *)
(***************************************************************************)
EXTENDS OrganizationAccess, TLAPS

Last(kind) == IF kind = "bootstrap" THEN 3 ELSE IF kind = "grant" THEN 1 ELSE 2

\* How far a call has come says which locks it holds.
RowOrdered(row) ==
    /\ row.kind = "grant" =>
           \/ row.taken = 0 /\ row.held = {}
           \/ row.taken = 1 /\ row.held = {"organization"}
    /\ row.kind = "bootstrap" =>
           \/ row.taken = 0 /\ row.held = {}
           \/ row.taken = 1 /\ row.held = {"identity"}
           \/ row.taken = 2 /\ row.held = {"identity", "installation"}
           \/ row.taken = 3 /\ {"identity", "installation"} \subseteq row.held
    /\ row.kind \in {"admit", "recover", "release"} =>
           \/ row.taken = 0 /\ row.held = {}
           \/ row.taken = 1 /\ row.held = {"identity"}
           \/ row.taken = 2 /\ "identity" \in row.held /\ "installation" \notin row.held
    /\ row.stage = "decided" => row.taken = Last(row.kind)

LocksInOrder == \A c \in Calls : Active(c) => RowOrdered(call[c])

\* Whoever passed the Organization lock without taking it still does not need it.
OrganizationTaken ==
    \A c \in Calls : Active(c) /\ call[c].taken = Last(call[c].kind) =>
        "organization" \in call[c].held \/ ~Needs(c, "organization")

LocksExclude ==
    \A c, d \in Calls : \A lock \in Locks :
        c # d /\ Active(c) /\ Active(d) /\ lock \in call[c].held /\ lock \in call[d].held =>
            lock = "identity" /\ call[c].subject # call[d].subject

LockInv == TypeOK /\ LocksInOrder /\ OrganizationTaken /\ LocksExclude

-----------------------------------------------------------------------------
(* Rows and locks. *)

\* The order of the locks, place by place.
LEMMA OrderFacts ==
    ASSUME NEW kind \in Kinds
    PROVE  /\ Len(Order(kind)) = Last(kind)
           /\ kind = "grant" => Order(kind)[1] = "organization"
           /\ kind # "grant" => Order(kind)[1] = "identity"
           /\ kind = "bootstrap" => Order(kind)[2] = "installation" /\ Order(kind)[3] = "organization"
           /\ kind \in {"admit", "recover", "release"} => Order(kind)[2] = "organization"
<1>1. CASE kind = "bootstrap"
  BY <1>1 DEF Order, Last
<1>2. CASE kind = "grant"
  BY <1>2 DEF Order, Last
<1>3. CASE kind \in {"admit", "recover", "release"}
  BY <1>3 DEF Order, Last
<1> QED
  BY <1>1, <1>2, <1>3 DEF Kinds

\* What the type says of one active call.
LEMMA RowFacts ==
    ASSUME TypeOK, NEW c \in Calls, Active(c)
    PROVE  call[c] \in Row
BY DEF TypeOK, Active, Idle

\* The next lock of a call that waits for one.
LEMMA NextFacts ==
    ASSUME TypeOK, LocksInOrder, NEW c \in Calls, Active(c), Waits(c)
    PROVE  /\ NextLock(c) \in Locks \ call[c].held
           /\ call[c].taken < Last(call[c].kind)
           /\ NextLock(c) = "organization" <=> call[c].taken + 1 = Last(call[c].kind)
           /\ NextLock(c) = "identity" <=> call[c].taken = 0 /\ call[c].kind # "grant"
           /\ NextLock(c) = "installation" <=> call[c].taken = 1 /\ call[c].kind = "bootstrap"
<1>1. call[c] \in Row /\ RowOrdered(call[c])
  BY RowFacts DEF LocksInOrder
<1>2. call[c].kind \in Kinds /\ call[c].taken \in Nat
  BY <1>1 DEF Row
<1>3. call[c].taken < Last(call[c].kind)
  BY <1>2, OrderFacts DEF Waits
<1>4. CASE call[c].kind = "grant"
  <2>1. call[c].taken = 0 /\ call[c].held = {}
    BY <1>1, <1>3, <1>4 DEF RowOrdered, Last
  <2> QED
    BY <1>2, <1>4, <2>1, OrderFacts DEF NextLock, Locks, Last
<1>5. CASE call[c].kind = "bootstrap"
  <2>1. \/ call[c].taken = 0 /\ call[c].held = {}
        \/ call[c].taken = 1 /\ call[c].held = {"identity"}
        \/ call[c].taken = 2 /\ call[c].held = {"identity", "installation"}
    BY <1>1, <1>3, <1>5 DEF RowOrdered, Last
  <2> QED
    BY <1>2, <1>5, <2>1, OrderFacts DEF NextLock, Locks, Last
<1>6. CASE call[c].kind \in {"admit", "recover", "release"}
  <2>1. \/ call[c].taken = 0 /\ call[c].held = {}
        \/ call[c].taken = 1 /\ call[c].held = {"identity"}
    BY <1>1, <1>3, <1>6 DEF RowOrdered, Last
  <2> QED
    BY <1>2, <1>6, <2>1, OrderFacts DEF NextLock, Locks, Last
<1> QED
  BY <1>2, <1>3, <1>4, <1>5, <1>6 DEF Kinds

-----------------------------------------------------------------------------
(* What each step does to the calls. *)

\* A beginning: one more call, waiting, without locks; the facts stay.
Enters(c) ==
    /\ call[c] = Idle
    /\ UNCHANGED <<Facts, answers>>
    /\ \E row \in Row :
           /\ row.stage = "waiting" /\ row.taken = 0 /\ row.held = {}
           /\ call' = [call EXCEPT ![c] = row]

LEMMA BlankIsRow ==
    ASSUME NEW kind \in Kinds, NEW actor \in Humans, NEW subject \in Humans
    PROVE  /\ Blank(kind, actor, subject) \in Row
           /\ Blank(kind, actor, subject).stage = "waiting"
           /\ Blank(kind, actor, subject).taken = 0
           /\ Blank(kind, actor, subject).held = {}
<1> DEFINE default == CHOOSE o \in Operations : TRUE
<1>1. default \in Operations
  BY OperationsAssumption
<1> HIDE DEF default
<1>2. Blank(kind, actor, subject) =
        [stage |-> "waiting", kind |-> kind, actor |-> actor, subject |-> subject,
         token |-> 0, action |-> AdmitUsers, level |-> "none", seen |-> 0,
         operation |-> default, taken |-> 0, held |-> {}]
  BY DEF Blank, default
<1> QED
  BY <1>1, <1>2, AdmitUsersAssumption DEF Row, Levels

LEMMA BeginEnters ==
    ASSUME TypeOK, NEW c \in Calls, Begin(c)
    PROVE  Enters(c)
<1>1. CASE BeginBootstrap(c)
  <2>1. PICK h \in Humans, o \in Operations :
            Enter(c, [Blank("bootstrap", h, h) EXCEPT !.token = version[h], !.operation = o])
    BY <1>1 DEF BeginBootstrap
  <2>2. version[h] \in Nat
    BY DEF TypeOK
  <2>3. PICK b \in Row : /\ b = Blank("bootstrap", h, h)
                         /\ b.stage = "waiting" /\ b.taken = 0 /\ b.held = {}
    BY BlankIsRow DEF Kinds
  <2>4. PICK row : row = [b EXCEPT !.token = version[h], !.operation = o]
    OBVIOUS
  <2>5. row \in Row /\ row.stage = "waiting" /\ row.taken = 0 /\ row.held = {}
    BY <2>2, <2>3, <2>4 DEF Row
  <2>6. Enter(c, row)
    BY <2>1, <2>3, <2>4
  <2> QED
    BY <2>5, <2>6 DEF Enter, Enters
<1>2. CASE BeginAdmission(c)
  <2>1. PICK actor \in Humans, subject \in Humans :
            Enter(c, [Blank("admit", actor, subject) EXCEPT !.token = version[actor], !.seen = revision])
    BY <1>2 DEF BeginAdmission
  <2>2. version[actor] \in Nat /\ revision \in Nat
    BY DEF TypeOK
  <2>3. PICK b \in Row : /\ b = Blank("admit", actor, subject)
                         /\ b.stage = "waiting" /\ b.taken = 0 /\ b.held = {}
    BY BlankIsRow DEF Kinds
  <2>4. PICK row : row = [b EXCEPT !.token = version[actor], !.seen = revision]
    OBVIOUS
  <2>5. row \in Row /\ row.stage = "waiting" /\ row.taken = 0 /\ row.held = {}
    BY <2>2, <2>3, <2>4 DEF Row
  <2>6. Enter(c, row)
    BY <2>1, <2>3, <2>4
  <2> QED
    BY <2>5, <2>6 DEF Enter, Enters
<1>3. CASE BeginGrant(c)
  <2>1. PICK actor \in Humans, subject \in Humans, action \in Actions, level \in Levels :
            Enter(c, [Blank("grant", actor, subject) EXCEPT
                         !.token = version[actor], !.seen = revision,
                         !.action = action, !.level = level])
    BY <1>3 DEF BeginGrant
  <2>2. version[actor] \in Nat /\ revision \in Nat
    BY DEF TypeOK
  <2>3. PICK b \in Row : /\ b = Blank("grant", actor, subject)
                         /\ b.stage = "waiting" /\ b.taken = 0 /\ b.held = {}
    BY BlankIsRow DEF Kinds
  <2>4. PICK row : row = [b EXCEPT !.token = version[actor], !.seen = revision,
                                   !.action = action, !.level = level]
    OBVIOUS
  <2>5. row \in Row /\ row.stage = "waiting" /\ row.taken = 0 /\ row.held = {}
    BY <2>2, <2>3, <2>4 DEF Row
  <2>6. Enter(c, row)
    BY <2>1, <2>3, <2>4
  <2> QED
    BY <2>5, <2>6 DEF Enter, Enters
<1>4. CASE BeginRecovery(c)
  BY <1>4, BlankIsRow DEF BeginRecovery, Enter, Enters, Kinds
<1>5. CASE BeginRelease(c)
  BY <1>5, BlankIsRow DEF BeginRelease, Enter, Enters, Kinds, TypeOK
<1> QED
  BY <1>1, <1>2, <1>3, <1>4, <1>5 DEF Begin

\* A lock taken or passed by: nothing else changes.
Passes(c, row) ==
    /\ Active(c) /\ Waits(c)
    /\ call' = [call EXCEPT ![c] = row]
    /\ row \in Row
    /\ row.stage = "waiting"
    /\ row.kind = call[c].kind /\ row.subject = call[c].subject
    /\ row.taken = call[c].taken + 1
    /\ \/ row.held = call[c].held \union {NextLock(c)} /\ \A d \in Calls \ {c} : ~Excludes(d, c, NextLock(c))
       \/ row.held = call[c].held /\ ~Needs(c, NextLock(c))

LEMMA TakeLocks ==
    ASSUME TypeOK, LocksInOrder, NEW c \in Calls, Take(c)
    PROVE  \E row : Passes(c, row)
<1>1. Active(c) /\ Waits(c) /\ call[c].stage = "waiting"
  BY DEF Take, Waits, Active
<1>2. call[c] \in Row /\ NextLock(c) \in Locks
  BY <1>1, RowFacts, NextFacts
<1>3. CASE Needs(c, NextLock(c)) /\ Granted(c, NextLock(c))
  <2>1. PICK row : row = [call[c] EXCEPT !.taken = call[c].taken + 1, !.held = call[c].held \union {NextLock(c)}]
    OBVIOUS
  <2>2. call' = [call EXCEPT ![c] = row]
    BY <1>3, <2>1 DEF Granted, TypeOK
  <2>3. /\ row.stage = "waiting"
        /\ row.kind = call[c].kind /\ row.subject = call[c].subject
        /\ row.taken = call[c].taken + 1 /\ row.held = call[c].held \union {NextLock(c)}
    BY <1>1, <1>2, <2>1 DEF Row
  <2>4. row \in Row
    <3>1. call[c].taken + 1 \in Nat /\ call[c].held \union {NextLock(c)} \in SUBSET Locks
      BY <1>2 DEF Row
    <3> QED
      BY <1>2, <2>1, <3>1 DEF Row
  <2> QED
    BY <1>1, <1>3, <2>2, <2>3, <2>4 DEF Passes, Granted
<1>4. CASE ~Needs(c, NextLock(c)) /\ Skipped(c)
  <2>1. PICK row : row = [call[c] EXCEPT !.taken = call[c].taken + 1]
    OBVIOUS
  <2>2. call' = [call EXCEPT ![c] = row]
    BY <1>4, <2>1 DEF Skipped, TypeOK
  <2>3. /\ row \in Row /\ row.stage = "waiting"
        /\ row.kind = call[c].kind /\ row.subject = call[c].subject
        /\ row.taken = call[c].taken + 1 /\ row.held = call[c].held
    BY <1>1, <1>2, <2>1 DEF Row
  <2> QED
    BY <1>1, <1>4, <2>2, <2>3 DEF Passes
<1> QED
  BY <1>3, <1>4 DEF Take

\* A decision changes the stage of one call.
Settles(c, row) ==
    /\ call' = [call EXCEPT ![c] = row]
    /\ row \in Row
    /\ row = [call[c] EXCEPT !.stage = "decided"]
    /\ row.stage = "decided"
    /\ \A f \in {"kind", "actor", "subject", "token", "action", "level", "seen", "operation", "taken", "held"} :
           row[f] = call[c][f]

LEMMA DecideSettles ==
    ASSUME TypeOK, NEW c \in Calls, Decide(c)
    PROVE  \E row : Settles(c, row)
<1>1. call[c] \in Row
  BY RowFacts DEF Decide, Ready, Active
<1>2. PICK row : row = [call[c] EXCEPT !.stage = "decided"]
  OBVIOUS
<1>3. row \in Row /\ row.stage = "decided"
  BY <1>1, <1>2 DEF Row
<1>4. \A f \in {"kind", "actor", "subject", "token", "action", "level", "seen", "operation", "taken", "held"} :
        row[f] = call[c][f]
  BY <1>1, <1>2 DEF Row
<1>5. call' = [call EXCEPT ![c] = row]
  BY <1>2 DEF Decide, TypeOK
<1> QED
  BY <1>2, <1>3, <1>4, <1>5 DEF Settles

-----------------------------------------------------------------------------
(* Types. *)

FactsTyped ==
    /\ claim \subseteq Receipt
    /\ linked \subseteq Humans
    /\ grant \in [Actions -> [Humans -> Levels]]
    /\ revision \in Nat
    /\ version \in [Humans -> Nat]
    /\ pending \subseteq Humans
AnswersTyped == \A x \in answers : x.asker \in Humans /\ x.recipient \in Humans

LEMMA TypeParts ==
    TypeOK <=> FactsTyped /\ AnswersTyped /\ call \in [Calls -> Row \union {Idle}]
BY DEF TypeOK, FactsTyped, AnswersTyped

LEMMA CommitTyped ==
    ASSUME TypeOK, NEW c \in Calls, Commit(c)
    PROVE  FactsTyped' /\ AnswersTyped'
<1>1. call[c] \in Row
  BY RowFacts DEF Commit, Active
<1>2. /\ call[c].subject \in Humans /\ call[c].action \in Actions
      /\ call[c].level \in Levels /\ call[c].operation \in Operations
  BY <1>1 DEF Row
<1>3. CASE Claim(c)
  <2>1. PICK receipt : receipt = [operation |-> call[c].operation, recipient |-> call[c].subject]
    OBVIOUS
  <2>2. receipt \in Receipt /\ receipt.recipient \in Humans
    BY <1>2, <2>1 DEF Receipt
  <2>3. /\ claim' = {receipt} /\ linked' = {call[c].subject}
        /\ grant' = [a \in Actions |-> [grant[a] EXCEPT ![call[c].subject] = "delegate"]]
        /\ revision' = 1 /\ Answer(c, receipt) /\ UNCHANGED <<version, pending>>
    BY <1>3, <2>1 DEF Claim
  <2>4. grant' \in [Actions -> [Humans -> Levels]]
    BY <1>2, <2>3 DEF TypeOK, Levels
  <2>5. AnswersTyped'
    BY <1>2, <2>2, <2>3 DEF Answer, AnswersTyped, TypeOK
  <2> QED
    BY <1>2, <2>2, <2>3, <2>4, <2>5 DEF FactsTyped, TypeOK
<1>4. CASE Admit(c)
  <2>1. version' \in [Humans -> Nat]
    BY <1>2, <1>4 DEF Admit, AtLeastOne, TypeOK
  <2> QED
    BY <1>2, <1>4, <2>1 DEF Admit, FactsTyped, AnswersTyped, TypeOK
<1>5. CASE Change(c)
  <2>1. grant' \in [Actions -> [Humans -> Levels]]
    BY <1>2, <1>5 DEF Change, TypeOK
  <2>2. revision' \in Nat
    BY <1>5 DEF Change, TypeOK
  <2> QED
    BY <1>5, <2>1, <2>2 DEF Change, FactsTyped, AnswersTyped, TypeOK
<1>6. CASE Recover(c)
  <2>1. version' \in [Humans -> Nat] /\ pending' \subseteq Humans
    BY <1>2, <1>6 DEF Recover, AtLeastOne, TypeOK
  <2> QED
    BY <1>6, <2>1 DEF Recover, FactsTyped, AnswersTyped, TypeOK
<1>7. CASE Release(c)
  BY <1>7 DEF Release, FactsTyped, AnswersTyped, TypeOK
<1> QED
  BY <1>3, <1>4, <1>5, <1>6, <1>7 DEF Commit

LEMMA ReplayTyped ==
    ASSUME TypeOK, NEW c \in Calls, Replay(c)
    PROVE  AnswersTyped'
<1>1. call[c].subject \in Humans
  BY RowFacts DEF Replay, Ready, Active, Row
<1>2. PICK receipt \in Recorded(c) : Answer(c, receipt)
  BY DEF Replay
<1>3. receipt.recipient \in Humans
  BY <1>2 DEF Recorded, TypeOK, Receipt
<1> QED
  BY <1>1, <1>2, <1>3 DEF Answer, AnswersTyped, TypeOK

\* Every step is one of five kinds, by what it does to the calls.
Locking(c) == (\E row : Passes(c, row)) /\ UNCHANGED <<Facts, answers>>
Settling(c) == (\E row : Settles(c, row)) /\ MayProceed(c) /\ Ready(c) /\ UNCHANGED <<Facts, answers>>
Quitting(c) == End(c) /\ Active(c) /\ UNCHANGED Facts /\ (Replay(c) \/ UNCHANGED answers)

LEMMA StepKinds ==
    ASSUME TypeOK, LocksInOrder, NEW c \in Calls, Begin(c) \/ Take(c) \/ Proceed(c) \/ Abandon(c)
    PROVE  Enters(c) \/ Locking(c) \/ Settling(c) \/ Quitting(c) \/ Commit(c)
<1>1. CASE Begin(c)
  BY <1>1, BeginEnters
<1>2. CASE Take(c)
  BY <1>2, TakeLocks DEF Locking, Take
<1>3. CASE Decide(c)
  BY <1>3, DecideSettles DEF Settling, Decide
<1>4. CASE Refuse(c) \/ Replay(c) \/ Abandon(c)
  BY <1>4 DEF Quitting, Refuse, Replay, Abandon, Ready, Active
<1> QED
  BY <1>1, <1>2, <1>3, <1>4 DEF Proceed

LEMMA TypeStep ==
    ASSUME TypeOK, LocksInOrder, NEW c \in Calls, Begin(c) \/ Take(c) \/ Proceed(c) \/ Abandon(c)
    PROVE  TypeOK'
<1>1. CASE Enters(c)
  BY <1>1 DEF Enters, Facts, TypeOK
<1>2. CASE Locking(c)
  BY <1>2 DEF Locking, Passes, Facts, TypeOK
<1>3. CASE Settling(c)
  BY <1>3 DEF Settling, Settles, Facts, TypeOK
<1>4. CASE Quitting(c)
  <2>1. FactsTyped' /\ call' \in [Calls -> Row \union {Idle}]
    BY <1>4 DEF Quitting, End, Facts, FactsTyped, TypeOK
  <2>2. AnswersTyped'
    BY <1>4, ReplayTyped DEF Quitting, AnswersTyped, TypeOK
  <2> QED
    BY <2>1, <2>2 DEF TypeOK, FactsTyped, AnswersTyped
<1>5. CASE Commit(c)
  <2>1. call' \in [Calls -> Row \union {Idle}]
    BY <1>5 DEF Commit, End, TypeOK
  <2> QED
    BY <1>5, <2>1, CommitTyped DEF TypeOK, FactsTyped, AnswersTyped
<1> QED
  BY <1>1, <1>2, <1>3, <1>4, <1>5, StepKinds

-----------------------------------------------------------------------------
(* Locks. *)

\* A call that has decided holds the locks of its kind.
LEMMA DecidedHolds ==
    ASSUME LockInv, NEW c \in Calls, call[c].stage = "decided"
    PROVE  /\ call[c] \in Row /\ Active(c)
           /\ call[c].kind # "grant" => "identity" \in call[c].held
           /\ call[c].kind = "bootstrap" => "installation" \in call[c].held
           /\ call[c].kind \in {"admit", "grant"} => "organization" \in call[c].held
           /\ "organization" \in call[c].held \/ call[c].subject \notin linked
<1>1. call[c] \in Row /\ Active(c) /\ RowOrdered(call[c])
  BY RowFacts DEF LockInv, LocksInOrder, Active
<1>2. call[c].taken = Last(call[c].kind) /\ call[c].kind \in Kinds
  BY <1>1 DEF RowOrdered, Row
<1>3. "organization" \in call[c].held \/ ~Needs(c, "organization")
  BY <1>1, <1>2 DEF LockInv, OrganizationTaken
<1>4. call[c].kind # "grant" => "identity" \in call[c].held
  BY <1>1, <1>2 DEF RowOrdered, Last, Kinds
<1>5. call[c].kind = "bootstrap" => "installation" \in call[c].held
  BY <1>1, <1>2 DEF RowOrdered, Last
<1> QED
  BY <1>1, <1>3, <1>4, <1>5 DEF Needs

\* Two calls that have decided, or passed their last lock, share no lock.
LEMMA IdentityExcludes ==
    ASSUME LockInv, NEW c \in Calls, NEW d \in Calls, c # d, Active(c), Active(d)
    PROVE  /\ "identity" \in call[c].held /\ "identity" \in call[d].held =>
                  call[c].subject # call[d].subject
           /\ ~("organization" \in call[c].held /\ "organization" \in call[d].held)
           /\ ~("installation" \in call[c].held /\ "installation" \in call[d].held)
BY DEF LockInv, LocksExclude, Locks

LEMMA OrderStep ==
    ASSUME LockInv, NEW c \in Calls,
           Enters(c) \/ Locking(c) \/ Settling(c) \/ Quitting(c) \/ Commit(c)
    PROVE  LocksInOrder'
<1> USE DEF LockInv, TypeOK
<1>1. CASE Enters(c)
  <2>1. PICK row \in Row : /\ row.stage = "waiting" /\ row.taken = 0 /\ row.held = {}
                           /\ call' = [call EXCEPT ![c] = row]
    BY <1>1 DEF Enters
  <2>2. RowOrdered(row)
    BY <2>1 DEF RowOrdered, Row, Kinds
  <2> QED
    BY <2>1, <2>2 DEF LocksInOrder, Active
<1>2. CASE Locking(c)
  <2>1. PICK row : Passes(c, row)
    BY <1>2 DEF Locking
  <2>2. Active(c) /\ Waits(c)
    BY <2>1 DEF Passes
  <2>3. RowOrdered(row)
    <3>1. call[c] \in Row /\ RowOrdered(call[c])
      BY <2>2, RowFacts DEF LocksInOrder
    <3>2. /\ call[c].taken < Last(call[c].kind)
          /\ NextLock(c) = "organization" <=> call[c].taken + 1 = Last(call[c].kind)
          /\ NextLock(c) = "identity" <=> call[c].taken = 0 /\ call[c].kind # "grant"
          /\ NextLock(c) = "installation" <=> call[c].taken = 1 /\ call[c].kind = "bootstrap"
      BY <2>2, NextFacts
    <3>3. /\ row.kind = call[c].kind /\ row.taken = call[c].taken + 1 /\ row.stage = "waiting"
          /\ \/ row.held = call[c].held \union {NextLock(c)}
             \/ row.held = call[c].held /\ NextLock(c) = "organization" /\ call[c].kind \notin {"admit", "grant"}
      BY <2>1 DEF Passes, Needs
    <3>4. CASE call[c].kind = "grant"
      BY <3>1, <3>2, <3>3, <3>4 DEF RowOrdered, Last
    <3>5. CASE call[c].kind = "bootstrap"
      BY <3>1, <3>2, <3>3, <3>5 DEF RowOrdered, Last
    <3>6. CASE call[c].kind \in {"admit", "recover", "release"}
      BY <3>1, <3>2, <3>3, <3>6 DEF RowOrdered, Last
    <3> QED
      BY <3>1, <3>4, <3>5, <3>6 DEF Row, Kinds
  <2> QED
    BY <2>1, <2>3 DEF LocksInOrder, Active, Passes, Locking
<1>3. CASE Settling(c)
  <2>1. PICK row : Settles(c, row)
    BY <1>3 DEF Settling
  <2>2. Active(c) /\ call[c] \in Row /\ RowOrdered(call[c])
    BY <1>3, RowFacts DEF Settling, Ready, Active, LocksInOrder
  <2>3. /\ row.kind = call[c].kind /\ row.taken = call[c].taken /\ row.held = call[c].held
    BY <2>1 DEF Settles
  <2>4. row.taken = Last(row.kind)
    <3>1. call[c].kind \in Kinds /\ call[c].taken \in Nat /\ ~(call[c].taken < Last(call[c].kind))
      BY <1>3, <2>2, OrderFacts DEF Settling, Ready, Waits, Row
    <3> QED
      BY <2>2, <2>3, <3>1 DEF RowOrdered, Last, Kinds
  <2>5. RowOrdered(row)
    BY <2>2, <2>3, <2>4 DEF RowOrdered
  <2> QED
    BY <2>1, <2>5 DEF Settles, LocksInOrder, Active
<1>4. CASE Quitting(c) \/ Commit(c)
  BY <1>4 DEF Quitting, Commit, End, LocksInOrder, Active, Idle
<1> QED
  BY <1>1, <1>2, <1>3, <1>4

\* A lock is taken only when no other call holds it.
LEMMA ExclusionStep ==
    ASSUME LockInv, NEW c \in Calls,
           Enters(c) \/ Locking(c) \/ Settling(c) \/ Quitting(c) \/ Commit(c)
    PROVE  LocksExclude'
<1> USE DEF LockInv, TypeOK
<1>1. CASE Enters(c)
  <2>1. PICK row \in Row : row.held = {} /\ call' = [call EXCEPT ![c] = row]
    BY <1>1 DEF Enters
  <2> QED
    BY <2>1 DEF LocksExclude, Active
<1>2. CASE Locking(c)
  <2>1. PICK row : Passes(c, row)
    BY <1>2 DEF Locking
  <2>2. call' = [call EXCEPT ![c] = row] /\ row.subject = call[c].subject /\ Active(c)
    BY <2>1 DEF Passes
  <2>3. \A d \in Calls \ {c} : \A lock \in Locks :
          Active(d) /\ lock \in row.held /\ lock \in call[d].held =>
              lock = "identity" /\ row.subject # call[d].subject
    <3> SUFFICES ASSUME NEW d \in Calls \ {c}, NEW lock \in Locks,
                        Active(d), lock \in row.held, lock \in call[d].held
                 PROVE  lock = "identity" /\ row.subject # call[d].subject
      OBVIOUS
    <3>1. CASE lock \in call[c].held
      BY <2>2, <3>1 DEF LocksExclude
    <3>2. CASE lock \notin call[c].held
      <4>1. lock = NextLock(c) /\ ~Excludes(d, c, NextLock(c))
        BY <2>1, <3>2 DEF Passes
      <4> QED
        BY <2>2, <4>1 DEF Excludes
    <3> QED
      BY <3>1, <3>2
  <2> QED
    BY <2>2, <2>3 DEF LocksExclude, Active
<1>3. CASE Settling(c)
  <2>1. PICK row : Settles(c, row)
    BY <1>3 DEF Settling
  <2>2. /\ call' = [call EXCEPT ![c] = row] /\ Active(c)
        /\ row.subject = call[c].subject /\ row.held = call[c].held
    BY <1>3, <2>1 DEF Settles, Settling, Ready, Active
  <2> QED
    BY <2>2 DEF LocksExclude, Active
<1>4. CASE Quitting(c) \/ Commit(c)
  BY <1>4 DEF Quitting, Commit, End, LocksExclude, Active, Idle
<1> QED
  BY <1>1, <1>2, <1>3, <1>4

\* Linking a human needs his identity lock.
LEMMA LinkingStep ==
    ASSUME LockInv, NEW d \in Calls, Commit(d)
    PROVE  linked' \subseteq linked \union
               (IF call[d].kind \in {"bootstrap", "admit"} THEN {call[d].subject} ELSE {})
BY DEF Commit, Claim, Admit, Change, Recover, Release, Is

LEMMA TakenStep ==
    ASSUME LockInv, NEW c \in Calls,
           Enters(c) \/ Locking(c) \/ Settling(c) \/ Quitting(c) \/ Commit(c)
    PROVE  OrganizationTaken'
<1> USE DEF LockInv, TypeOK
<1>1. CASE Enters(c)
  <2>1. PICK row \in Row : row.taken = 0 /\ call' = [call EXCEPT ![c] = row]
    BY <1>1 DEF Enters
  <2>2. Last(row.kind) # 0 /\ linked' = linked
    BY <1>1 DEF Last, Enters, Facts
  <2> QED
    BY <2>1, <2>2 DEF OrganizationTaken, Active, Needs
<1>2. CASE Locking(c)
  <2>1. PICK row : Passes(c, row)
    BY <1>2 DEF Locking
  <2>2. linked' = linked
    BY <1>2 DEF Locking, Facts
  <2>3. /\ call' = [call EXCEPT ![c] = row]
        /\ row.kind = call[c].kind /\ row.subject = call[c].subject
        /\ row.taken = call[c].taken + 1
        /\ NextLock(c) \in row.held \/ ~Needs(c, NextLock(c))
        /\ NextLock(c) = "organization" <=> call[c].taken + 1 = Last(call[c].kind)
    BY <2>1, NextFacts DEF Passes
  <2>4. row.taken = Last(row.kind) =>
          "organization" \in row.held \/ (row.kind \notin {"admit", "grant"} /\ row.subject \notin linked)
    BY <2>3 DEF Needs
  <2> QED
    BY <2>2, <2>3, <2>4 DEF OrganizationTaken, Active, Needs
<1>3. CASE Settling(c)
  <2>1. PICK row : Settles(c, row)
    BY <1>3 DEF Settling
  <2>2. /\ call' = [call EXCEPT ![c] = row] /\ Active(c) /\ linked' = linked
        /\ row.subject = call[c].subject /\ row.held = call[c].held
        /\ row.kind = call[c].kind /\ row.taken = call[c].taken
    BY <1>3, <2>1 DEF Settles, Settling, Ready, Active, Facts
  <2> QED
    BY <2>2 DEF OrganizationTaken, Active, Needs
<1>4. CASE Quitting(c)
  BY <1>4 DEF Quitting, End, OrganizationTaken, Active, Idle, Needs, Facts
<1>5. CASE Commit(c)
  <2>1. call' = [call EXCEPT ![c] = Idle]
    BY <1>5 DEF Commit, End
  <2> SUFFICES ASSUME NEW d \in Calls, Active(d)', call'[d].taken = Last(call'[d].kind),
                      "organization" \notin call'[d].held
               PROVE  ~Needs(d, "organization")'
    BY DEF OrganizationTaken
  <2>2. d # c /\ call'[d] = call[d] /\ Active(d)
    BY <2>1 DEF Active, Idle
  <2>3. ~Needs(d, "organization")
    BY <2>2 DEF OrganizationTaken
  <2>4. call[d].kind \notin {"admit", "grant"} /\ call[d].subject \notin linked
    BY <2>3 DEF Needs
  <2>5. call[d].taken = Last(call[d].kind) /\ RowOrdered(call[d]) /\ call[d] \in Row
    BY <2>2, RowFacts DEF LocksInOrder
  <2>6. "identity" \in call[d].held
    BY <2>4, <2>5 DEF RowOrdered, Last, Row, Kinds
  <2>7. call[c].kind \in {"bootstrap", "admit"} => call[c].subject # call[d].subject
    <3>1. call[c].stage = "decided" /\ Active(c)
      BY <1>5 DEF Commit, Active
    <3> QED
      BY <2>2, <2>6, <3>1, DecidedHolds, IdentityExcludes
  <2>8. call[d].subject \notin linked'
    BY <1>5, <2>4, <2>7, LinkingStep
  <2> QED
    BY <2>2, <2>4, <2>8 DEF Needs
<1> QED
  BY <1>1, <1>2, <1>3, <1>4, <1>5

LEMMA LockStep ==
    ASSUME LockInv, [Next]_vars
    PROVE  LockInv'
<1>1. CASE UNCHANGED vars
  BY <1>1 DEF vars, LockInv, TypeOK, LocksInOrder, OrganizationTaken, LocksExclude, Active, Needs
<1>2. CASE Next
  <2>1. PICK c \in Calls : Begin(c) \/ Take(c) \/ Proceed(c) \/ Abandon(c)
    BY <1>2 DEF Next
  <2>2. TypeOK' /\ (Enters(c) \/ Locking(c) \/ Settling(c) \/ Quitting(c) \/ Commit(c))
    BY <2>1, TypeStep, StepKinds DEF LockInv
  <2> QED
    BY <2>2, OrderStep, ExclusionStep, TakenStep DEF LockInv
<1> QED
  BY <1>1, <1>2

LEMMA LockInit == Init => LockInv
<1> SUFFICES ASSUME Init PROVE LockInv
  OBVIOUS
<1>1. \A c \in Calls : ~Active(c)
  BY DEF Init, Active, Idle
<1>2. TypeOK
  BY DEF Init, TypeOK, Levels
<1> QED
  BY <1>1, <1>2 DEF LockInv, LocksInOrder, OrganizationTaken, LocksExclude

\* Type correctness, and the locks the calls hold.
THEOREM LocksAreHeld == Spec => []LockInv
BY LockInit, LockStep, PTL DEF Spec

-----------------------------------------------------------------------------
(* Waiting. *)

\* Of calls that wait, the one blocked at the highest lock is blocked by a call
\* that can go on: it waits for a lock that comes later, or for none.
LEMMA SomeoneGoesOn == LockInv => NoCircularWait
<1> SUFFICES ASSUME LockInv, NEW group \in SUBSET {c \in Calls : Active(c)}, group # {},
                    \A c \in group : \E d \in group \ {c} : Blocks(d, c)
             PROVE  FALSE
  BY DEF NoCircularWait
<1>1. \A c \in group : /\ c \in Calls /\ Active(c) /\ Waits(c)
                       /\ RowOrdered(call[c]) /\ call[c] \in Row
  BY RowFacts DEF Blocks, LockInv, LocksInOrder
<1>2. \A c \in group : /\ call[c].taken < Last(call[c].kind)
                       /\ NextLock(c) \in Locks
                       /\ NextLock(c) = "organization" <=> call[c].taken + 1 = Last(call[c].kind)
                       /\ NextLock(c) = "identity" <=> call[c].taken = 0 /\ call[c].kind # "grant"
  BY <1>1, NextFacts DEF LockInv
<1>3. \A c \in group : \E d \in group : NextLock(c) \in call[d].held
  BY DEF Blocks, Excludes
<1>4. \A d \in group : "organization" \notin call[d].held
  <2> SUFFICES ASSUME NEW d \in group, "organization" \in call[d].held PROVE FALSE
    OBVIOUS
  <2>1. call[d].kind \in Kinds /\ call[d].taken \in Nat /\ RowOrdered(call[d])
    BY <1>1 DEF Row
  <2>2. call[d].taken = Last(call[d].kind)
    BY <2>1 DEF RowOrdered, Last, Kinds
  <2> QED
    BY <1>2, <2>1, <2>2 DEF Last
<1>5. \A c \in group : NextLock(c) # "organization"
  BY <1>3, <1>4
<1>6. \A d \in group : "installation" \notin call[d].held
  <2> SUFFICES ASSUME NEW d \in group, "installation" \in call[d].held PROVE FALSE
    OBVIOUS
  <2>1. call[d].kind \in Kinds /\ call[d].taken \in Nat /\ RowOrdered(call[d])
    BY <1>1 DEF Row
  <2>2. call[d].kind = "bootstrap" /\ call[d].taken \in {2, 3}
    BY <2>1 DEF RowOrdered, Last, Kinds
  <2> QED
    BY <1>2, <1>5, <2>2 DEF Last
<1>7. \A c \in group : NextLock(c) = "identity"
  BY <1>2, <1>3, <1>5, <1>6 DEF Locks
<1>8. \A d \in group : call[d].held = {}
  <2> SUFFICES ASSUME NEW d \in group PROVE call[d].held = {}
    OBVIOUS
  <2>1. call[d].taken = 0 /\ call[d].kind # "grant" /\ call[d].kind \in Kinds /\ RowOrdered(call[d])
    BY <1>1, <1>2, <1>7 DEF Row
  <2> QED
    BY <2>1 DEF RowOrdered, Kinds
<1> QED
  BY <1>3, <1>8

\* No calls ever wait for one another in a circle: every kind of call takes the
\* identity lock before the installation's and both before the Organization's.
THEOREM NoDeadlock == Spec => []NoCircularWait
BY LocksAreHeld, SomeoneGoesOn, PTL

-----------------------------------------------------------------------------
(* Decisions. *)

Bid(c) == <<call[c].kind, call[c].actor, call[c].subject, call[c].token,
            call[c].action, call[c].level, call[c].seen>>

\* A decision depends on the facts and on what was asked, and on nothing else.
LEMMA SameDecision ==
    ASSUME NEW c \in Calls, MayProceed(c), UNCHANGED Facts, Active(c)', Bid(c)' = Bid(c)
    PROVE  MayProceed(c)'
<1>1. /\ claim' = claim /\ linked' = linked /\ grant' = grant /\ revision' = revision
      /\ version' = version /\ pending' = pending
  BY DEF Facts
<1>2. /\ call'[c].kind = call[c].kind /\ call'[c].actor = call[c].actor
      /\ call'[c].subject = call[c].subject /\ call'[c].token = call[c].token
      /\ call'[c].action = call[c].action /\ call'[c].level = call[c].level
      /\ call'[c].seen = call[c].seen
  BY DEF Bid
<1>3. CASE Is(c, "bootstrap") /\ MayClaim(c)
  BY <1>1, <1>2, <1>3 DEF MayProceed, Is, Active, MayClaim, Recognized
<1>4. CASE Is(c, "admit") /\ MayAdmit(c)
  BY <1>1, <1>2, <1>4 DEF MayProceed, Is, Active, MayAdmit, MayAuthorize, MayUse
<1>5. CASE Is(c, "grant") /\ MayChange(c)
  BY <1>1, <1>2, <1>5
    DEF MayProceed, Is, Active, MayChange, MayManage, MayUse, Eligible, OthersDelegate
<1>6. CASE Is(c, "recover") /\ version[call[c].subject] < MaxVersion
  BY <1>1, <1>2, <1>6 DEF MayProceed, Is, Active
<1>7. CASE Is(c, "release") /\ call[c].subject \in pending
  BY <1>1, <1>2, <1>7 DEF MayProceed, Is, Active
<1> QED
  BY <1>3, <1>4, <1>5, <1>6, <1>7 DEF MayProceed

\* What another call commits meanwhile does not touch a decision.
LEMMA OthersLeaveDecision ==
    ASSUME LockInv, DecisionsStand, NEW c \in Calls, NEW d \in Calls, c # d,
           call[c].stage = "decided", Commit(d)
    PROVE  MayProceed(c)'
<1>1. call[d].stage = "decided" /\ call' = [call EXCEPT ![d] = Idle]
  BY DEF Commit, End
<1>2. call'[c] = call[c] /\ Active(c) /\ Active(d) /\ Active(c)'
  BY <1>1 DEF LockInv, TypeOK, Active
<1>3. MayProceed(c) /\ MayProceed(d)
  BY <1>1 DEF DecisionsStand
<1>4. call[c] \in Row /\ call[d] \in Row
  BY <1>2, RowFacts DEF LockInv
<1>5. /\ call[c].kind # "grant" /\ call[d].kind # "grant" => call[c].subject # call[d].subject
      /\ ~(call[c].kind = "bootstrap" /\ call[d].kind = "bootstrap")
      /\ call[c].kind \in {"admit", "grant"} =>
             /\ call[d].kind \notin {"admit", "grant"}
             /\ call[d].subject \notin linked
  BY <1>1, <1>2, DecidedHolds, IdentityExcludes
<1>6. CASE Is(c, "bootstrap") /\ MayClaim(c)
  <2>1. call[c].kind = "bootstrap" /\ Recognized(c) /\ claim = {} /\ linked = {}
    BY <1>6 DEF Is, MayClaim
  <2>2. call[d].kind \in {"recover", "release"}
    BY <1>3, <1>5, <2>1 DEF MayProceed, Is, MayAdmit, MayAuthorize, MayChange, MayManage, MayUse
  <2>3. claim' = {} /\ linked' = {}
    BY <2>1, <2>2 DEF Commit, Claim, Admit, Change, Recover, Release, Is
  <2>4. call[c].subject # call[d].subject
    BY <1>5, <2>1, <2>2
  <2>5. /\ version'[call[c].subject] = version[call[c].subject]
        /\ call[c].subject \notin pending'
    <3>1. CASE Recover(d)
      BY <1>4, <2>1, <2>4, <3>1 DEF Recover, Recognized, LockInv, TypeOK, Row
    <3>2. CASE Release(d)
      BY <2>1, <3>2 DEF Release, Recognized
    <3> QED
      BY <2>2, <3>1, <3>2 DEF Commit, Claim, Admit, Change, Is
  <2> QED
    BY <1>2, <2>1, <2>3, <2>5 DEF MayProceed, Is, MayClaim, Recognized
<1>7. CASE Is(c, "admit") /\ MayAdmit(c)
  <2>1. call[c].kind = "admit"
    BY <1>7 DEF Is
  <2>2. call[c].actor \in linked
    BY <1>7 DEF MayAdmit, MayAuthorize, MayUse
  <2>3. call[d].kind \in {"recover", "release"}
    BY <1>3, <1>5, <2>1, <2>2 DEF MayProceed, Is, MayClaim
  <2>4. UNCHANGED <<linked, grant, revision>>
    BY <2>3 DEF Commit, Claim, Admit, Change, Recover, Release, Is
  <2>5. call[d].subject # call[c].actor /\ call[d].subject # call[c].subject
    BY <1>5, <2>1, <2>2, <2>3
  <2>6. /\ version'[call[c].actor] = version[call[c].actor]
        /\ call[c].actor \notin pending' /\ call[c].subject \notin pending'
    <3>1. CASE Recover(d)
      BY <1>4, <1>7, <2>5, <3>1
        DEF Recover, MayAdmit, MayAuthorize, MayUse, LockInv, TypeOK, Row
    <3>2. CASE Release(d)
      BY <1>7, <3>2 DEF Release, MayAdmit, MayAuthorize, MayUse
    <3> QED
      BY <2>3, <3>1, <3>2 DEF Commit, Claim, Admit, Change, Is
  <2>7. MayAdmit(c)'
    BY <1>2, <1>7, <2>4, <2>6 DEF MayAdmit, MayAuthorize, MayUse
  <2> QED
    BY <1>2, <2>1, <2>7 DEF MayProceed, Is
<1>8. CASE Is(c, "grant") /\ MayChange(c)
  <2>1. call[c].kind = "grant"
    BY <1>8 DEF Is
  <2>2. call[c].actor \in linked
    BY <1>8 DEF MayChange, MayManage, MayUse
  <2>3. call[d].kind \in {"recover", "release"}
    BY <1>3, <1>5, <2>1, <2>2 DEF MayProceed, Is, MayClaim
  <2>4. UNCHANGED <<linked, grant, revision>>
    BY <2>3 DEF Commit, Claim, Admit, Change, Recover, Release, Is
  <2>5. \A h \in linked : version'[h] = version[h] /\ (h \notin pending => h \notin pending')
    <3>1. CASE Recover(d)
      BY <1>5, <2>1, <3>1 DEF Recover, LockInv, TypeOK
    <3>2. CASE Release(d)
      BY <3>2 DEF Release
    <3> QED
      BY <2>3, <3>1, <3>2 DEF Commit, Claim, Admit, Change, Is
  <2>6. \A h \in Humans : Eligible(h) => Eligible(h)'
    BY <2>4, <2>5 DEF Eligible
  <2>7. MayUse(call[c].actor, call[c].token)'
    BY <1>2, <1>8, <2>4, <2>5 DEF MayChange, MayManage, MayUse
  <2>8. OthersDelegate(c) => OthersDelegate(c)'
    BY <1>2, <2>4, <2>6 DEF OthersDelegate
  <2>9. call[c].subject \in Humans
    BY <1>4 DEF Row
  <2>10. MayChange(c)'
    BY <1>2, <1>8, <2>4, <2>6, <2>7, <2>8, <2>9 DEF MayChange, MayManage
  <2> QED
    BY <1>2, <2>1, <2>10 DEF MayProceed, Is
<1>9. CASE Is(c, "recover") /\ version[call[c].subject] < MaxVersion
  <2>1. call[c].kind = "recover"
    BY <1>9 DEF Is
  <2>2. version'[call[c].subject] = version[call[c].subject]
    <3>1. CASE Admit(d) \/ Recover(d)
      <4>1. call[d].kind # "grant"
        BY <3>1 DEF Admit, Recover, Is
      <4> QED
        BY <1>4, <1>5, <2>1, <3>1, <4>1 DEF Admit, Recover, LockInv, TypeOK, Row
    <3> QED
      BY <3>1 DEF Commit, Claim, Change, Release
  <2> QED
    BY <1>2, <1>9, <2>1, <2>2 DEF MayProceed, Is
<1>10. CASE Is(c, "release") /\ call[c].subject \in pending
  <2>1. call[c].kind = "release"
    BY <1>10 DEF Is
  <2>2. call[c].subject \in pending'
    <3>1. CASE Release(d)
      <4>1. call[d].kind = "release"
        BY <3>1 DEF Release, Is
      <4> QED
        BY <1>5, <1>10, <2>1, <3>1, <4>1 DEF Release
    <3> QED
      BY <1>10, <3>1 DEF Commit, Claim, Admit, Change, Recover
  <2> QED
    BY <1>2, <2>1, <2>2 DEF MayProceed, Is
<1> QED
  BY <1>3, <1>6, <1>7, <1>8, <1>9, <1>10 DEF MayProceed

LEMMA DecisionStep ==
    ASSUME LockInv, DecisionsStand, NEW d \in Calls,
           Enters(d) \/ Locking(d) \/ Settling(d) \/ Quitting(d) \/ Commit(d)
    PROVE  DecisionsStand'
<1> SUFFICES ASSUME NEW c \in Calls, call'[c].stage = "decided"
             PROVE  MayProceed(c)'
  BY DEF DecisionsStand
<1>1. call \in [Calls -> Row \union {Idle}]
  BY DEF LockInv, TypeOK
<1>2. CASE Enters(d) \/ Locking(d)
  <2>1. PICK row : row.stage = "waiting" /\ call' = [call EXCEPT ![d] = row]
    BY <1>2 DEF Enters, Locking, Passes
  <2>2. c # d /\ call'[c] = call[c]
    BY <1>1, <2>1
  <2>3. MayProceed(c) /\ UNCHANGED Facts /\ Active(c)'
    BY <1>2, <2>2 DEF DecisionsStand, Enters, Locking, Active
  <2> QED
    BY <2>2, <2>3, SameDecision DEF Bid
<1>3. CASE Settling(d)
  <2>1. PICK row : Settles(d, row)
    BY <1>3 DEF Settling
  <2>2. Bid(c)' = Bid(c) /\ MayProceed(c)
    <3>1. CASE c = d
      <4>1. call'[c] = row
        BY <1>1, <2>1, <3>1 DEF Settles
      <4>2. /\ row.kind = call[c].kind /\ row.actor = call[c].actor
            /\ row.subject = call[c].subject /\ row.token = call[c].token
            /\ row.action = call[c].action /\ row.level = call[c].level
            /\ row.seen = call[c].seen
        BY <2>1, <3>1 DEF Settles
      <4> QED
        BY <1>3, <3>1, <4>1, <4>2 DEF Bid, Settling
    <3>2. CASE c # d
      BY <1>1, <2>1, <3>2 DEF Settles, Bid, DecisionsStand
    <3> QED
      BY <3>1, <3>2
  <2>3. UNCHANGED Facts /\ Active(c)'
    BY <1>3 DEF Settling, Active
  <2> QED
    BY <2>2, <2>3, SameDecision
<1>4. CASE Quitting(d)
  <2>1. c # d /\ call'[c] = call[c]
    BY <1>1, <1>4 DEF Quitting, End, Idle
  <2>2. MayProceed(c) /\ UNCHANGED Facts /\ Active(c)'
    BY <1>4, <2>1 DEF DecisionsStand, Quitting, Active
  <2> QED
    BY <2>1, <2>2, SameDecision DEF Bid
<1>5. CASE Commit(d)
  <2>1. c # d /\ call'[c] = call[c]
    BY <1>1, <1>5 DEF Commit, End, Idle
  <2> QED
    BY <1>5, <2>1, OthersLeaveDecision
<1> QED
  BY <1>2, <1>3, <1>4, <1>5

\* The answers are those of the one receipt.
AnswersRecorded ==
    /\ \A r, s \in claim : r = s
    /\ \A x \in answers : \E r \in claim :
           x = [operation |-> r.operation, asker |-> r.recipient, recipient |-> r.recipient]

DecisionInv == LockInv /\ DecisionsStand /\ AnswersRecorded

LEMMA AnswerStep ==
    ASSUME DecisionInv, NEW c \in Calls,
           Enters(c) \/ Locking(c) \/ Settling(c) \/ Quitting(c) \/ Commit(c)
    PROVE  AnswersRecorded'
<1>1. CASE UNCHANGED <<claim, answers>>
  BY <1>1 DEF DecisionInv, AnswersRecorded
<1>2. CASE Replay(c)
  <2>1. PICK receipt \in Recorded(c) : Repeats(c, receipt) /\ Answer(c, receipt)
    BY <1>2 DEF Replay
  <2>2. /\ receipt \in claim /\ receipt.operation = call[c].operation
        /\ receipt.recipient = call[c].subject
    BY <2>1 DEF Recorded, Repeats, SameCommand
  <2>3. answers' = answers \union
          {[operation |-> receipt.operation, asker |-> receipt.recipient, recipient |-> receipt.recipient]}
    BY <2>1, <2>2 DEF Answer
  <2>4. claim' = claim
    BY <1>2 DEF Replay, Facts
  <2> QED
    BY <2>2, <2>3, <2>4 DEF DecisionInv, AnswersRecorded
<1>3. CASE Commit(c) /\ Claim(c)
  <2>1. call[c].kind = "bootstrap" /\ MayProceed(c)
    BY <1>3 DEF Commit, Claim, Is, DecisionInv, DecisionsStand
  <2>2. claim = {}
    BY <2>1 DEF MayProceed, Is, MayClaim
  <2>3. answers = {}
    BY <2>2 DEF DecisionInv, AnswersRecorded
  <2>4. PICK receipt : receipt = [operation |-> call[c].operation, recipient |-> call[c].subject]
    OBVIOUS
  <2>5. claim' = {receipt} /\ Answer(c, receipt)
    BY <1>3, <2>4 DEF Claim
  <2>6. receipt.operation = call[c].operation /\ receipt.recipient = call[c].subject
    BY <2>4
  <2>7. answers' = {[operation |-> receipt.operation, asker |-> receipt.recipient,
                     recipient |-> receipt.recipient]}
    BY <2>3, <2>5, <2>6 DEF Answer
  <2> QED
    BY <2>5, <2>7 DEF AnswersRecorded
<1>4. CASE Commit(c) /\ ~Claim(c)
  <2>1. UNCHANGED <<claim, answers>>
    BY <1>4 DEF Commit, Admit, Change, Recover, Release
  <2> QED
    BY <1>1, <2>1
<1>5. CASE Quitting(c) /\ ~Replay(c)
  <2>1. UNCHANGED <<claim, answers>>
    BY <1>5 DEF Quitting, Facts
  <2> QED
    BY <1>1, <2>1
<1> QED
  BY <1>1, <1>2, <1>3, <1>4, <1>5 DEF Enters, Locking, Settling, Facts

LEMMA DecisionInvStep ==
    ASSUME DecisionInv, [Next]_vars
    PROVE  DecisionInv'
<1>1. CASE UNCHANGED vars
  <2>1. LockInv'
    BY LockStep DEF DecisionInv
  <2>2. UNCHANGED Facts /\ call' = call /\ answers' = answers
    BY <1>1 DEF vars, Facts
  <2>3. DecisionsStand'
    BY <2>2, SameDecision DEF DecisionInv, DecisionsStand, Bid, Active
  <2>4. AnswersRecorded'
    BY <2>2 DEF Facts, DecisionInv, AnswersRecorded
  <2> QED
    BY <2>1, <2>3, <2>4 DEF DecisionInv
<1>2. CASE Next
  <2>1. PICK c \in Calls : Begin(c) \/ Take(c) \/ Proceed(c) \/ Abandon(c)
    BY <1>2 DEF Next
  <2>2. Enters(c) \/ Locking(c) \/ Settling(c) \/ Quitting(c) \/ Commit(c)
    BY <2>1, StepKinds DEF DecisionInv, LockInv
  <2> QED
    BY <2>2, LockStep, DecisionStep, AnswerStep DEF DecisionInv
<1> QED
  BY <1>1, <1>2

LEMMA DecisionsAlways == Spec => []DecisionInv
<1>1. Init => DecisionInv
  BY LockInit DEF Init, DecisionInv, DecisionsStand, AnswersRecorded, Idle
<1> QED
  BY <1>1, DecisionInvStep, PTL DEF Spec

\* What was decided under the locks is right when it is committed, whatever the
\* other calls did in between.
THEOREM DecisionsHold == Spec => []DecisionsStand
<1>1. DecisionInv => DecisionsStand
  BY DEF DecisionInv
<1> QED
  BY <1>1, DecisionsAlways, PTL

\* Only one human is ever told that he is the first administrator.
THEOREM OnlyOneBootstrap == Spec => []OneFirstAdministrator
<1>1. DecisionInv => OneFirstAdministrator
  BY DEF DecisionInv, AnswersRecorded, OneFirstAdministrator
<1> QED
  BY <1>1, DecisionsAlways, PTL

=============================================================================
