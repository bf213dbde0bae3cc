---------------------------- MODULE ProjectAccess ----------------------------
(* Who may do and delegate what in one Project: its members, the grants on the *)
(* Project, on its access groups and on its application accounts, and the      *)
(* management of the groups.  Every change is a transaction that locks the     *)
(* organization's row for sharing and the Project's row for itself, reads its  *)
(* facts, decides, and writes under the revision it read.  Identity recovery,  *)
(* which blocks an account and frees it again, locks the organization's row    *)
(* for itself.                                                                 *)
EXTENDS Naturals, FiniteSets

CONSTANTS
    Humans,             \* the admitted humans of the organization
    Groups,             \* identities of access groups, each used once
    Applications,       \* identities of application accounts, each used once
    Project,            \* the Project as a target of grants
    ProjectActions, GroupActions, ApplicationActions,
    ManageMembers, CreateGroups, CreateApplications,    \* the three that change access
    MaxRevision,        \* RevisionValidation.MAX_VALUE
    Idle                \* no transaction

ASSUME AccessAssumption ==
    /\ MaxRevision \in Nat \ {0}
    /\ {ManageMembers, CreateGroups, CreateApplications} \subseteq ProjectActions
    /\ Project \notin Groups \union Applications
    /\ Groups \intersect Applications = {}

Rights == ({Project} \X ProjectActions) \union (Groups \X GroupActions)
              \union (Applications \X ApplicationActions)

VARIABLES
    members,        \* humans with a row of project_memberships
    holders,        \* of each right: the humans with a grant row
    grantors,       \* of each right: those whose row says can_grant
    groups,         \* of each group: "absent", "live" or "deleted"
    groupMembers,   \* of each group: rows of group_memberships
    managers,       \* of each group: rows of group_managers
    accounts,       \* application accounts that exist
    revision,       \* projects.access_revision
    eligible,       \* humans whose account is active and has no pending recovery
    looked,         \* of each human: the revision its client last saw, 0 for none
    tx              \* of each human: the transaction that serves its request

relations == <<members, holders, grantors, groups, groupMembers, managers, accounts>>
vars == <<relations, revision, eligible, looked, tx>>

Requests ==
    [op : {"add_member", "remove_member"}, who : Humans]
        \union [op : {"set_use", "set_grant", "remove_grant"}, right : Rights, who : Humans]
        \union [op : {"add_group_member", "remove_group_member", "appoint_manager", "remove_manager"},
                group : Groups, who : Humans]
        \union [op : {"create_group", "delete_group"}, group : Groups]
        \union [op : {"create_account"}, account : Applications]

Transactions == [request : Requests, read : 0 .. MaxRevision]

TypeOK ==
    /\ members \subseteq Humans
    /\ holders \in [Rights -> SUBSET Humans]
    /\ grantors \in [Rights -> SUBSET Humans]
    /\ groups \in [Groups -> {"absent", "live", "deleted"}]
    /\ groupMembers \in [Groups -> SUBSET Humans]
    /\ managers \in [Groups -> SUBSET Humans]
    /\ accounts \subseteq Applications
    /\ revision \in 0 .. MaxRevision
    /\ eligible \subseteq Humans
    /\ looked \in [Humans -> 0 .. MaxRevision]
    /\ tx \in [Humans -> Transactions \union {Idle}]

-----------------------------------------------------------------------------
(* Responsibilities *)

Live(target) == \/ target = Project
                \/ target \in Groups /\ groups[target] = "live"
                \/ target \in accounts

Managing(target) == IF target \in Groups THEN managers[target] \intersect groupMembers[target] ELSE {}

(* Who can pass a right on: those told so and, for documents, the group's managers. *)
Answerable(right) == grantors[right] \union Managing(right[1])

(* Candidates of ProjectDeparturePolicy. *)
AnyMember == members
Able == members \intersect eligible

MayLeaveManagement(group, who) ==
    who \in managers[group] => (Managing(group) \ {who}) \intersect Able # {}

LoseToSelf(right, who) == Answerable(right) \intersect Able # {}
MayLoseGrant(right, who) ==
    who \in grantors[right] =>
        ((grantors[right] \ {who}) \union Managing(right[1])) \intersect Able # {}

MayDepart(who) ==
    /\ \A right \in Rights :
           who \in grantors[right] => (Answerable(right) \ {who}) \intersect Able # {}
    /\ \A group \in Groups : MayLeaveManagement(group, who)

-----------------------------------------------------------------------------
(* What the services accept, on the facts read under the lock *)

Uses(actor, action) == actor \in Able \intersect holders[<<Project, action>>]
Manages(actor, group) == actor \in Able \intersect managers[group]

AcceptMembership(actor, q) ==
    /\ q.op \in {"add_member", "remove_member"}
    /\ Uses(actor, ManageMembers)
    /\ \/ q.op = "add_member" /\ q.who \in eligible \ members
       \/ q.op = "remove_member" /\ q.who \in members /\ MayDepart(q.who)

AcceptGrant(actor, q) ==
    /\ q.op \in {"set_use", "set_grant", "remove_grant"}
    /\ Live(q.right[1])
    /\ actor \in Able \intersect Answerable(q.right)
    /\ \/ /\ q.op = "set_grant"
          /\ q.who \in Able \ grantors[q.right]
       \/ /\ q.op = "set_use"
          /\ q.who \in Able
          /\ q.who \notin holders[q.right] \/ q.who \in grantors[q.right]
          /\ MayLoseGrant(q.right, q.who)
       \/ /\ q.op = "remove_grant"
          /\ q.who \in holders[q.right]
          /\ MayLoseGrant(q.right, q.who)

AcceptRelationship(actor, q) ==
    /\ q.op \in {"add_group_member", "remove_group_member", "appoint_manager", "remove_manager"}
    /\ groups[q.group] = "live"
    /\ Manages(actor, q.group)
    /\ \/ /\ q.op = "add_group_member"
          /\ q.who \in Able \ groupMembers[q.group]
       \/ /\ q.op = "appoint_manager"
          /\ q.who \in Able \ Managing(q.group)
       \/ /\ q.op = "remove_group_member"
          /\ q.who \in groupMembers[q.group] \union managers[q.group]
          /\ MayLeaveManagement(q.group, q.who)
       \/ /\ q.op = "remove_manager"
          /\ q.who \in managers[q.group]
          /\ MayLeaveManagement(q.group, q.who)

AcceptTarget(actor, q) ==
    \/ /\ q.op = "create_group"
       /\ Uses(actor, CreateGroups)
       /\ groups[q.group] = "absent"
    \/ /\ q.op = "delete_group"
       /\ groups[q.group] = "live"
       /\ Manages(actor, q.group)
    \/ /\ q.op = "create_account"
       /\ Uses(actor, CreateApplications)
       /\ q.account \notin accounts

Accepted(actor, q) ==
    \/ AcceptMembership(actor, q) \/ AcceptGrant(actor, q)
    \/ AcceptRelationship(actor, q) \/ AcceptTarget(actor, q)

-----------------------------------------------------------------------------
(* project_creation_service: the founder holds and delegates every action *)
Init ==
    /\ \E founder \in Humans :
           /\ members = {founder}
           /\ holders = [right \in Rights |-> IF right[1] = Project THEN {founder} ELSE {}]
    /\ grantors = holders
    /\ groups = [g \in Groups |-> "absent"]
    /\ groupMembers = [g \in Groups |-> {}]
    /\ managers = [g \in Groups |-> {}]
    /\ accounts = {}
    /\ revision = 1
    /\ eligible = Humans
    /\ looked = [h \in Humans |-> 0]
    /\ tx = [h \in Humans |-> Idle]

(* The client looks at the Project, and will name the revision it saw. *)
Look(h) ==
    /\ tx[h] = Idle
    /\ looked' = [looked EXCEPT ![h] = revision]
    /\ UNCHANGED <<relations, revision, eligible, tx>>

(* The first half of every service: lock, read, authorize, compare revisions, *)
(* decide.  A refused request, and one that asks for what is already so,      *)
(* changes nothing and is not a step.                                         *)
Unlocked == \A h \in Humans : tx[h] = Idle

Current(h) == looked[h] = revision

MayAdvance == revision < MaxRevision

Begin(h) ==
    /\ Unlocked
    /\ Current(h)
    /\ MayAdvance
    /\ \E q \in Requests :
           /\ Accepted(h, q)
           /\ tx' = [tx EXCEPT ![h] = [request |-> q, read |-> revision]]
    /\ UNCHANGED <<relations, revision, eligible, looked>>

(* The second half: the writers move the revision from the value read to the  *)
(* next, or roll everything back.                                             *)
Save(h) ==
    /\ tx[h] # Idle
    /\ tx[h].read = revision
    /\ revision' = revision + 1
    /\ tx' = [tx EXCEPT ![h] = Idle]
    /\ UNCHANGED <<eligible, looked>>

Without(who, of) == [right \in Rights |-> of[right] \ {who}]

SaveMembership(h) ==
    /\ Save(h)
    /\ LET q == tx[h].request
       IN \/ /\ q.op = "add_member"
             /\ members' = members \union {q.who}
             /\ UNCHANGED <<holders, grantors, groupMembers, managers>>
          \/ /\ q.op = "remove_member"
             /\ members' = members \ {q.who}
             /\ holders' = Without(q.who, holders)
             /\ grantors' = Without(q.who, grantors)
             /\ managers' = [g \in Groups |-> managers[g] \ {q.who}]
             /\ groupMembers' = [g \in Groups |-> groupMembers[g] \ {q.who}]
    /\ UNCHANGED <<groups, accounts>>

SaveGrant(h) ==
    /\ Save(h)
    /\ LET q == tx[h].request
       IN /\ q.op \in {"set_use", "set_grant", "remove_grant"}
          /\ holders' = [holders EXCEPT ![q.right] =
                 IF q.op = "remove_grant" THEN @ \ {q.who} ELSE @ \union {q.who}]
          /\ grantors' = [grantors EXCEPT ![q.right] =
                 IF q.op = "set_grant" THEN @ \union {q.who} ELSE @ \ {q.who}]
    /\ UNCHANGED <<members, groups, groupMembers, managers, accounts>>

SaveRelationship(h) ==
    /\ Save(h)
    /\ LET q == tx[h].request
       IN \/ /\ q.op = "add_group_member"
             /\ groupMembers' = [groupMembers EXCEPT ![q.group] = @ \union {q.who}]
             /\ UNCHANGED managers
          \/ /\ q.op = "remove_group_member"
             /\ groupMembers' = [groupMembers EXCEPT ![q.group] = @ \ {q.who}]
             /\ managers' = [managers EXCEPT ![q.group] = @ \ {q.who}]
          \/ /\ q.op = "appoint_manager"
             /\ groupMembers' = [groupMembers EXCEPT ![q.group] = @ \union {q.who}]
             /\ managers' = [managers EXCEPT ![q.group] = @ \union {q.who}]
          \/ /\ q.op = "remove_manager"
             /\ managers' = [managers EXCEPT ![q.group] = @ \ {q.who}]
             /\ UNCHANGED groupMembers
    /\ UNCHANGED <<members, holders, grantors, groups, accounts>>

CreateGroup(h) ==
    /\ Save(h)
    /\ LET q == tx[h].request
       IN /\ q.op = "create_group"
          /\ groups' = [groups EXCEPT ![q.group] = "live"]
          /\ groupMembers' = [groupMembers EXCEPT ![q.group] = {h}]
          /\ managers' = [managers EXCEPT ![q.group] = {h}]
    /\ UNCHANGED <<members, holders, grantors, accounts>>

DeleteGroup(h) ==
    /\ Save(h)
    /\ LET q == tx[h].request
           cleared(of) == [right \in Rights |-> IF right[1] = q.group THEN {} ELSE of[right]]
       IN /\ q.op = "delete_group"
          /\ groups' = [groups EXCEPT ![q.group] = "deleted"]
          /\ groupMembers' = [groupMembers EXCEPT ![q.group] = {}]
          /\ managers' = [managers EXCEPT ![q.group] = {}]
          /\ holders' = cleared(holders)
          /\ grantors' = cleared(grantors)
    /\ UNCHANGED <<members, accounts>>

CreateAccount(h) ==
    /\ Save(h)
    /\ LET q == tx[h].request
           given(of) == [right \in Rights |-> IF right[1] = q.account THEN {h} ELSE of[right]]
       IN /\ q.op = "create_account"
          /\ accounts' = accounts \union {q.account}
          /\ holders' = given(holders)
          /\ grantors' = given(grantors)
    /\ UNCHANGED <<members, groups, groupMembers, managers>>

(* A time limit, a lost connection, a name already taken: all rolled back. *)
Abandon(h) ==
    /\ tx[h] # Idle
    /\ tx' = [tx EXCEPT ![h] = Idle]
    /\ UNCHANGED <<relations, revision, eligible, looked>>

(* A recovery of the human's identity is admitted, or completed.  It does not  *)
(* take the Project's lock, but waits for every transaction that shares the    *)
(* organization's row.                                                         *)
AnyOrganization == TRUE
OrganizationFree == \A h \in Humans : tx[h] = Idle

Turn(h) ==
    /\ OrganizationFree
    /\ eligible' = IF h \in eligible THEN eligible \ {h} ELSE eligible \union {h}
    /\ UNCHANGED <<relations, revision, looked, tx>>

Next ==
    \E h \in Humans :
        \/ Look(h) \/ Begin(h) \/ Abandon(h) \/ Turn(h)
        \/ SaveMembership(h) \/ SaveGrant(h) \/ SaveRelationship(h)
        \/ CreateGroup(h) \/ DeleteGroup(h) \/ CreateAccount(h)

Spec == Init /\ [][Next]_vars

-----------------------------------------------------------------------------
(* Properties *)

(* Nothing is orphaned: whatever races, each right on an existing target can   *)
(* still be passed on by some member, and each group has a manager who is one  *)
(* (the handover of departures, grant changes and group changes together).     *)
NothingOrphaned ==
    /\ \A right \in Rights : Live(right[1]) => Answerable(right) \intersect members # {}
    /\ \A group \in Groups : groups[group] = "live" => Managing(group) \intersect members # {}

(* Leaving the Project leaves nothing behind, and nothing survives its target: *)
(* only members hold grants or group relations, only of targets that exist.    *)
AccessNeedsMembership ==
    /\ \A right \in Rights : /\ grantors[right] \subseteq holders[right]
                             /\ holders[right] \subseteq members
                             /\ holders[right] # {} => Live(right[1])
    /\ \A group \in Groups : /\ managers[group] \subseteq groupMembers[group]
                             /\ groupMembers[group] \subseteq members
                             /\ groupMembers[group] # {} => groups[group] = "live"

(* What a transaction decided is still right when it writes, whatever others    *)
(* and recoveries do meanwhile: the locks last from the reading to the commit.  *)
DecisionsStayTrue ==
    \A h \in Humans : tx[h] # Idle => Accepted(h, tx[h].request)

(* Whenever somebody stops being answerable for a right on a target that stays, *)
(* an eligible member is answerable after it: two departures cannot each rely   *)
(* on the other, nor a departure on an account that recovery has just blocked.  *)
HandoverFindsSomeone ==
    [][\A right \in Rights :
          Live(right[1])' /\ ~(Answerable(right) \subseteq Answerable(right)') =>
              (Answerable(right) \intersect members \intersect eligible)' # {}]_vars

(* A change of access is one that its author asked for on exactly this revision *)
(* of it, and it uses the revision up: of two changes asked for on the same     *)
(* view, one at most happens.                                                   *)
OneChangePerLook ==
    [][relations' # relations =>
          /\ revision' = revision + 1
          /\ \E h \in Humans : tx[h] # Idle /\ tx'[h] = Idle /\ looked[h] = revision]_vars
=============================================================================
