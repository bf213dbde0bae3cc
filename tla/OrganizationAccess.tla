------------------------- MODULE OrganizationAccess -------------------------
(* Who may act for the Organization: the first administrator, bootstrapped on *)
(* the host, the humans admitted after that, their Organization grants, and   *)
(* the recoveries of identities that take authority away meanwhile. A call is *)
(* one transaction. It takes its locks one by one, reads every fact it        *)
(* decides on after the last of them, and writes and commits in a later step. *)
EXTENDS Naturals, Sequences

CONSTANTS
    Humans,         \* verified identities; the principal of each, once admitted
    Actions,        \* Organization actions
    AdmitUsers,     \* the action that lets its holder admit humans
    Operations,     \* operation ids of bootstrap commands
    Calls,          \* calls that may be under way at once
    MaxRevision,    \* RevisionValidation.MAX_VALUE
    MaxVersion      \* the largest credential version

ASSUME AdmitUsersAssumption == AdmitUsers \in Actions
ASSUME MaximaAssumption == MaxRevision \in Nat \ {0} /\ MaxVersion \in Nat \ {0}

ASSUME OperationsAssumption == Operations # {}

VARIABLES
    claim,          \* the bootstrap receipt: at most one
    linked,         \* humans admitted to the Organization
    grant,          \* grant[a][h]: the assignment of an action to a human
    revision,       \* access revision of the Organization
    version,        \* credential version of each identity; 0: no row yet
    pending,        \* identities with a recovery that is not released
    call,           \* what each call does and how far it has come
    answers         \* history: the bootstrap answers given

vars == <<claim, linked, grant, revision, version, pending, call, answers>>

Levels == {"none", "use", "delegate"}
Kinds == {"bootstrap", "admit", "grant", "recover", "release"}
Locks == {"identity", "installation", "organization"}
Receipt == [operation : Operations, recipient : Humans]
Row ==
    [stage : {"waiting", "decided"}, kind : Kinds, actor : Humans, subject : Humans,
     token : Nat, action : Actions, level : Levels, seen : Nat,
     operation : Operations, taken : Nat, held : SUBSET Locks]
Idle == [stage |-> "idle"]

\* Wrong: an admission locks the Organization before the identity.
AdmissionReversed(kind) ==
    CASE kind = "bootstrap" -> <<"identity", "installation", "organization">>
      [] kind = "grant"     -> <<"organization">>
      [] kind = "admit"     -> <<"organization", "identity">>
      [] OTHER              -> <<"identity", "organization">>
\* The locks each kind of call takes, in this order.
Order(kind) ==
    CASE kind = "bootstrap" -> <<"identity", "installation", "organization">>
      [] kind = "grant"     -> <<"organization">>
      [] OTHER              -> <<"identity", "organization">>

Init ==
    /\ claim = {} /\ linked = {} /\ pending = {} /\ answers = {}
    /\ grant = [a \in Actions |-> [h \in Humans |-> "none"]]
    /\ revision = 0
    /\ version \in [Humans -> {0, 1}]
    /\ call = [c \in Calls |-> Idle]
-----------------------------------------------------------------------------
(* What the decisions read. *)

Active(c) == call[c].stage # "idle"
Is(c, kind) == Active(c) /\ call[c].kind = kind

\* An admitted human who may use the product, with the token's version.
MayUse(h, token) == h \in linked /\ h \notin pending /\ token = version[h]
Eligible(h) == h \in linked /\ h \notin pending

MayAuthorize(h, token) == MayUse(h, token) /\ grant[AdmitUsers][h] # "none"

\* Bootstrap: the proof is still current and no recovery of it is open.
Recognized(c) ==
    /\ call[c].token = version[call[c].subject]
    /\ call[c].subject \notin pending
Recorded(c) == {r \in claim : r.operation = call[c].operation}

MayClaim(c) == Recognized(c) /\ claim = {} /\ linked = {}

MayAdmit(c) ==
    /\ MayAuthorize(call[c].actor, call[c].token)
    /\ call[c].subject \notin pending
    /\ call[c].seen = revision
    /\ call[c].subject \in linked \/ revision < MaxRevision

MayManage(c) ==
    /\ MayUse(call[c].actor, call[c].token)
    /\ grant[call[c].action][call[c].actor] = "delegate"
OthersDelegate(c) ==
    \E h \in Humans \ {call[c].subject} : grant[call[c].action][h] = "delegate" /\ Eligible(h)
MayChange(c) ==
    LET before == grant[call[c].action][call[c].subject] IN
    /\ MayManage(c)
    /\ call[c].seen = revision
    /\ call[c].subject \in linked
    /\ call[c].level # "none" => Eligible(call[c].subject)
    /\ before = "delegate" /\ call[c].level # "delegate" => OthersDelegate(c)
    /\ before = call[c].level \/ revision < MaxRevision

MayProceed(c) ==
    \/ Is(c, "bootstrap") /\ MayClaim(c)
    \/ Is(c, "admit") /\ MayAdmit(c)
    \/ Is(c, "grant") /\ MayChange(c)
    \/ Is(c, "recover") /\ version[call[c].subject] < MaxVersion
    \/ Is(c, "release") /\ call[c].subject \in pending
-----------------------------------------------------------------------------
(* Beginnings: what is known before the transaction. *)

Facts == <<claim, linked, grant, revision, version, pending>>

Enter(c, row) ==
    /\ call[c] = Idle
    /\ call' = [call EXCEPT ![c] = row]
    /\ UNCHANGED <<Facts, answers>>

\* A row with what its kind of call does not use left at a default.
Blank(kind, actor, subject) ==
    [stage |-> "waiting", kind |-> kind, actor |-> actor, subject |-> subject,
     token |-> 0, action |-> AdmitUsers, level |-> "none", seen |-> 0,
     operation |-> CHOOSE o \in Operations : TRUE, taken |-> 0, held |-> {}]

\* The providers have verified the token and the identity.
BeginBootstrap(c) ==
    \E h \in Humans, o \in Operations :
        /\ version[h] > 0
        /\ Enter(c, [Blank("bootstrap", h, h) EXCEPT !.token = version[h], !.operation = o])

\* A first transaction found the actor authorized; Kratos then knew the human.
BeginAdmission(c) ==
    \E actor, subject \in Humans :
        /\ MayAuthorize(actor, version[actor])
        /\ Enter(c, [Blank("admit", actor, subject) EXCEPT
                         !.token = version[actor], !.seen = revision])

\* The actor's token was good when the request came in.
BeginGrant(c) ==
    \E actor, subject \in Humans, action \in Actions, level \in Levels :
        /\ MayUse(actor, version[actor])
        /\ Enter(c, [Blank("grant", actor, subject) EXCEPT
                         !.token = version[actor], !.seen = revision,
                         !.action = action, !.level = level])

\* A notice of the identity provider; a finished cleanup.
BeginRecovery(c) == \E h \in Humans : Enter(c, Blank("recover", h, h))
BeginRelease(c) == \E h \in pending : Enter(c, Blank("release", h, h))

Begin(c) ==
    BeginBootstrap(c) \/ BeginAdmission(c) \/ BeginGrant(c) \/ BeginRecovery(c) \/ BeginRelease(c)
-----------------------------------------------------------------------------
(* Locks. *)

\* Wrong: a recovery keeps to the identity's turn.
OnlyAccessChangesNeed(c, lock) ==
    lock = "organization" => call[c].kind \in {"admit", "grant", "bootstrap"}
\* An identity that is not linked has no Organization to lock.
Needs(c, lock) ==
    lock = "organization" => call[c].kind \in {"admit", "grant"} \/ call[c].subject \in linked

Excludes(d, c, lock) ==
    /\ Active(d)
    /\ lock \in call[d].held
    /\ lock = "identity" => call[d].subject = call[c].subject

Granted(c, lock) ==
    /\ \A d \in Calls \ {c} : ~Excludes(d, c, lock)
    /\ call' = [call EXCEPT ![c] =
           [call[c] EXCEPT !.taken = call[c].taken + 1, !.held = call[c].held \union {lock}]]
Skipped(c) == call' = [call EXCEPT ![c] = [call[c] EXCEPT !.taken = call[c].taken + 1]]

Waits(c) == call[c].stage = "waiting" /\ call[c].taken < Len(Order(call[c].kind))
Ready(c) == call[c].stage = "waiting" /\ ~Waits(c)

NextLock(c) == Order(call[c].kind)[call[c].taken + 1]
Blocks(d, c) == Waits(c) /\ Needs(c, NextLock(c)) /\ Excludes(d, c, NextLock(c))

Take(c) ==
    /\ Waits(c)
    /\ \/ Needs(c, NextLock(c)) /\ Granted(c, NextLock(c))
       \/ ~Needs(c, NextLock(c)) /\ Skipped(c)
    /\ UNCHANGED <<Facts, answers>>
-----------------------------------------------------------------------------
(* Decisions and commits. *)

End(c) == call' = [call EXCEPT ![c] = Idle]

Decide(c) ==
    /\ Ready(c) /\ MayProceed(c)
    /\ call' = [call EXCEPT ![c] = [call[c] EXCEPT !.stage = "decided"]]
    /\ UNCHANGED <<Facts, answers>>

Answer(c, receipt) ==
    answers' = answers \union
        {[operation |-> call[c].operation, asker |-> call[c].subject, recipient |-> receipt.recipient]}

\* Wrong: the operation id alone says that it is the same command.
AnyCommand(c, receipt) == TRUE
\* A repeated command gets the recorded result, if it is the same command.
SameCommand(c, receipt) == receipt.recipient = call[c].subject
Repeats(c, receipt) == Is(c, "bootstrap") /\ Recognized(c) /\ SameCommand(c, receipt)

Replay(c) ==
    /\ Ready(c)
    /\ \E receipt \in Recorded(c) : Repeats(c, receipt) /\ Answer(c, receipt)
    /\ End(c)
    /\ UNCHANGED Facts

Refuse(c) ==
    /\ Ready(c) /\ ~MayProceed(c)
    /\ \A receipt \in Recorded(c) : ~Repeats(c, receipt)
    /\ End(c)
    /\ UNCHANGED <<Facts, answers>>

Claim(c) ==
    LET receipt == [operation |-> call[c].operation, recipient |-> call[c].subject] IN
    /\ Is(c, "bootstrap")
    /\ claim' = {receipt}
    /\ linked' = {call[c].subject}
    /\ grant' = [a \in Actions |-> [grant[a] EXCEPT ![call[c].subject] = "delegate"]]
    /\ revision' = 1
    /\ Answer(c, receipt)
    /\ UNCHANGED <<version, pending>>

AtLeastOne(h) == IF version[h] = 0 THEN 1 ELSE version[h]

Admit(c) ==
    LET h == call[c].subject IN
    /\ Is(c, "admit")
    /\ \/ h \in linked /\ UNCHANGED <<linked, version, revision>>
       \/ /\ h \notin linked
          /\ linked' = linked \union {h}
          /\ version' = [version EXCEPT ![h] = AtLeastOne(h)]
          /\ revision' = revision + 1
    /\ UNCHANGED <<claim, grant, pending, answers>>

Change(c) ==
    LET a == call[c].action IN
    /\ Is(c, "grant")
    /\ grant' = [grant EXCEPT ![a] = [@ EXCEPT ![call[c].subject] = call[c].level]]
    /\ revision' = IF grant' = grant THEN revision ELSE revision + 1
    /\ UNCHANGED <<claim, linked, version, pending, answers>>

\* A notice already recorded changes nothing.
Recover(c) ==
    LET h == call[c].subject IN
    /\ Is(c, "recover")
    /\ \/ /\ pending' = pending \union {h}
          /\ version' = [version EXCEPT ![h] = AtLeastOne(h) + 1]
       \/ UNCHANGED <<pending, version>>
    /\ UNCHANGED <<claim, linked, grant, revision, answers>>

Release(c) ==
    /\ Is(c, "release")
    /\ pending' = pending \ {call[c].subject}
    /\ UNCHANGED <<claim, linked, grant, revision, version, answers>>

Commit(c) ==
    /\ call[c].stage = "decided"
    /\ Claim(c) \/ Admit(c) \/ Change(c) \/ Recover(c) \/ Release(c)
    /\ End(c)

\* A deadline, a lost connection, a dead process: nothing is committed.
Abandon(c) ==
    /\ Active(c)
    /\ End(c)
    /\ UNCHANGED <<Facts, answers>>

Proceed(c) == Decide(c) \/ Refuse(c) \/ Replay(c) \/ Commit(c)
Next == \E c \in Calls : Begin(c) \/ Take(c) \/ Proceed(c) \/ Abandon(c)

Spec == Init /\ [][Next]_vars
-----------------------------------------------------------------------------
TypeOK ==
    /\ claim \subseteq Receipt
    /\ linked \subseteq Humans
    /\ grant \in [Actions -> [Humans -> Levels]]
    /\ revision \in Nat
    /\ version \in [Humans -> Nat]
    /\ pending \subseteq Humans
    /\ call \in [Calls -> Row \union {Idle}]
    /\ \A x \in answers : x.asker \in Humans /\ x.recipient \in Humans

\* What a call decided under its locks is still right when it commits: its
\* author still has the authority, the human it admits or grants to is not
\* under recovery, and another eligible human can still delegate an action
\* whose delegation it takes away.
DecisionsStand == \A c \in Calls : call[c].stage = "decided" => MayProceed(c)

\* However many hosts bootstrap and repeat it after lost replies, one human is
\* ever told that he is the first administrator, always of the same command.
OneFirstAdministrator ==
    \A x, y \in answers : x = y /\ x.asker = x.recipient

\* No calls wait for one another in a circle: of any that are under way, one is
\* not kept waiting by the others, so none needs its deadline to get on.
NoCircularWait ==
    \A group \in SUBSET {c \in Calls : Active(c)} :
        group # {} => \E c \in group : \A d \in group \ {c} : ~Blocks(d, c)
=============================================================================
