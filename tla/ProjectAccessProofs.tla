------------------------- MODULE ProjectAccessProofs -------------------------
(* The safety of ProjectAccess for any number of humans, groups, accounts and *)
(* actions: nobody leaves a right or a group without somebody answerable.     *)
EXTENDS ProjectAccess, TLAPS

(* The Project's row is locked by one transaction at a time, *)
OneAtATime == \A h, k \in Humans : tx[h] # Idle /\ tx[k] # Idle => h = k

(* which began on the revision its client saw, and leaves room for the next. *)
AsSeen == \A h \in Humans :
    tx[h] # Idle => /\ tx[h].read = revision
                    /\ looked[h] = revision
                    /\ revision < MaxRevision

Inv ==
    /\ TypeOK
    /\ NothingOrphaned
    /\ AccessNeedsMembership
    /\ DecisionsStayTrue
    /\ OneAtATime
    /\ AsSeen

(* The action inside HandoverFindsSomeone. *)
Handover ==
    \A right \in Rights :
        Live(right[1])' /\ ~(Answerable(right) \subseteq Answerable(right)') =>
            (Answerable(right) \intersect members \intersect eligible)' # {}

(* The part of TypeOK that speaks of the relations. *)
RelationTypes ==
    /\ members \subseteq Humans
    /\ holders \in [Rights -> SUBSET Humans]
    /\ grantors \in [Rights -> SUBSET Humans]
    /\ groups \in [Groups -> {"absent", "live", "deleted"}]
    /\ groupMembers \in [Groups -> SUBSET Humans]
    /\ managers \in [Groups -> SUBSET Humans]
    /\ accounts \subseteq Applications

(* What a change of the relations must keep. *)
Kept == RelationTypes' /\ NothingOrphaned' /\ AccessNeedsMembership' /\ Handover

-----------------------------------------------------------------------------
(* Requests and transactions *)

LEMMA Fields ==
    ASSUME NEW q \in Requests
    PROVE  /\ q.op \in {"add_member", "remove_member"} => q.who \in Humans
           /\ q.op \in {"set_use", "set_grant", "remove_grant"} => q.right \in Rights /\ q.who \in Humans
           /\ q.op \in {"add_group_member", "remove_group_member", "appoint_manager", "remove_manager"} =>
                  q.group \in Groups /\ q.who \in Humans
           /\ q.op \in {"create_group", "delete_group"} => q.group \in Groups
           /\ q.op = "create_account" => q.account \in Applications
  BY DEF Requests

(* The transaction that writes is the accepted one, on the revision it read. *)
LEMMA SaveFacts ==
    ASSUME Inv, NEW h \in Humans, Save(h)
    PROVE  /\ tx[h] \in Transactions
           /\ tx[h].request \in Requests
           /\ Accepted(h, tx[h].request)
           /\ tx[h] # Idle /\ tx'[h] = Idle
           /\ eligible' = eligible
  <1>1. tx[h] # Idle /\ tx[h] \in Transactions \union {Idle}
    BY DEF Inv, TypeOK, Save
  <1>2. tx[h] \in Transactions
    BY <1>1
  <1>3. tx[h].request \in Requests
    BY <1>2 DEF Transactions
  <1>4. Accepted(h, tx[h].request)
    BY <1>1 DEF Inv, DecisionsStayTrue
  <1>5. tx'[h] = Idle /\ eligible' = eligible
    BY DEF Save, Inv, TypeOK
  <1> QED
    BY <1>1, <1>2, <1>3, <1>4, <1>5

(* After it no transaction is under way. *)
LEMMA SaveSettles ==
    ASSUME Inv, NEW h \in Humans, Save(h), Kept
    PROVE  Inv'
  <1> USE DEF Save
  <1>1. \A k \in Humans : tx'[k] = Idle
    BY DEF Inv, OneAtATime, TypeOK
  <1>2. tx[h].read = revision /\ revision < MaxRevision
    BY DEF Inv, AsSeen
  <1>3. revision' \in 0 .. MaxRevision
    BY <1>2, AccessAssumption DEF Inv, TypeOK
  <1>4. tx' \in [Humans -> Transactions \union {Idle}]
    BY DEF Inv, TypeOK
  <1>5. TypeOK'
    BY <1>3, <1>4 DEF Inv, TypeOK, Kept, RelationTypes
  <1>6. DecisionsStayTrue' /\ OneAtATime' /\ AsSeen'
    BY <1>1 DEF DecisionsStayTrue, OneAtATime, AsSeen
  <1> QED
    BY <1>5, <1>6 DEF Inv, Kept

-----------------------------------------------------------------------------
(* Each change keeps everything answerable *)

(* Rights of another target, and groups another change is about, are untouched. *)
LEMMA AddMemberKeeps ==
    ASSUME Inv, NEW h \in Humans, SaveMembership(h), tx[h].request.op = "add_member"
    PROVE  Kept
  <1> DEFINE q == tx[h].request
  <1>1. q.who \in Humans
    BY SaveFacts, Fields DEF SaveMembership
  <1>2. /\ members' = members \union {q.who}
        /\ UNCHANGED <<holders, grantors, groups, groupMembers, managers, accounts>>
    BY DEF SaveMembership
  <1> HIDE DEF q
  <1>3. RelationTypes'
    BY <1>1, <1>2 DEF Inv, TypeOK, RelationTypes
  <1>4. NothingOrphaned'
    BY <1>2 DEF Inv, NothingOrphaned, Live, Answerable, Managing
  <1>5. AccessNeedsMembership'
    BY <1>2 DEF Inv, AccessNeedsMembership, Live
  <1>6. \A right \in Rights : Answerable(right)' = Answerable(right)
    BY <1>2 DEF Answerable, Managing
  <1> QED
    BY <1>3, <1>4, <1>5, <1>6 DEF Kept, Handover

LEMMA RemoveMemberKeeps ==
    ASSUME Inv, NEW h \in Humans, SaveMembership(h), tx[h].request.op = "remove_member"
    PROVE  Kept
  <1> DEFINE who == tx[h].request.who
  <1>1. who \in Humans
    BY SaveFacts, Fields DEF SaveMembership
  <1>2. MayDepart(who)
    BY SaveFacts DEF SaveMembership, Accepted, AcceptMembership, AcceptGrant,
                     AcceptRelationship, AcceptTarget
  <1>3. /\ members' = members \ {who}
        /\ holders' = [right \in Rights |-> holders[right] \ {who}]
        /\ grantors' = [right \in Rights |-> grantors[right] \ {who}]
        /\ managers' = [g \in Groups |-> managers[g] \ {who}]
        /\ groupMembers' = [g \in Groups |-> groupMembers[g] \ {who}]
        /\ UNCHANGED <<groups, accounts>>
    BY DEF SaveMembership, Without
  <1>4. eligible' = eligible
    BY SaveFacts DEF SaveMembership
  <1> HIDE DEF who
  <1>5. RelationTypes'
    BY <1>1, <1>3 DEF Inv, TypeOK, RelationTypes
  <1>6. \A right \in Rights : Answerable(right)' = Answerable(right) \ {who}
    BY <1>3 DEF Answerable, Managing, Inv, TypeOK
  <1>7. \A group \in Groups : /\ Managing(group)' = Managing(group) \ {who}
                              /\ Managing(group) = managers[group] \intersect groupMembers[group]
    BY <1>3 DEF Managing, Inv, TypeOK
  <1>8. ASSUME NEW group \in Groups, who \in managers[group]
        PROVE  Managing(group)' \intersect members' \intersect eligible # {}
    BY <1>2, <1>3, <1>7, <1>8 DEF MayDepart, MayLeaveManagement, Able
  <1>9. ASSUME NEW right \in Rights, who \in Answerable(right)
        PROVE  Answerable(right)' \intersect members' \intersect eligible # {}
    <2>1. CASE who \in grantors[right]
      BY <1>2, <1>3, <1>6, <2>1 DEF MayDepart, Able
    <2>2. CASE who \notin grantors[right]
      <3>1. right[1] \in Groups /\ who \in managers[right[1]]
        BY <1>9, <2>2 DEF Answerable, Managing
      <3>2. Managing(right[1])' \subseteq Answerable(right)'
        BY DEF Answerable
      <3> QED
        BY <1>8, <3>1, <3>2
    <2> QED
      BY <2>1, <2>2
  <1>10. NothingOrphaned'
    <2>1. ASSUME NEW right \in Rights, Live(right[1])'
          PROVE  Answerable(right)' \intersect members' # {}
      <3>1. Live(right[1])
        BY <1>3, <2>1 DEF Live
      <3> QED
        BY <1>3, <1>6, <1>9, <3>1 DEF Inv, NothingOrphaned
    <2>2. ASSUME NEW group \in Groups, groups'[group] = "live"
          PROVE  Managing(group)' \intersect members' # {}
      BY <1>3, <1>7, <1>8, <2>2 DEF Inv, NothingOrphaned
    <2> QED
      BY <2>1, <2>2 DEF NothingOrphaned
  <1>11. AccessNeedsMembership'
    BY <1>3 DEF Inv, TypeOK, AccessNeedsMembership, Live
  <1>12. Handover
    BY <1>4, <1>6, <1>9 DEF Handover
  <1> QED
    BY <1>5, <1>10, <1>11, <1>12 DEF Kept

LEMMA GrantKeeps ==
    ASSUME Inv, NEW h \in Humans, SaveGrant(h)
    PROVE  Kept
  <1> DEFINE who == tx[h].request.who
             changed == tx[h].request.right
             op == tx[h].request.op
  <1>1. /\ op \in {"set_use", "set_grant", "remove_grant"}
        /\ changed \in Rights /\ who \in Humans
        /\ eligible' = eligible
    BY SaveFacts, Fields DEF SaveGrant
  <1>2. AcceptGrant(h, tx[h].request)
    BY SaveFacts DEF SaveGrant, Accepted, AcceptMembership, AcceptRelationship, AcceptTarget
  <1>3. /\ Live(changed[1])
        /\ op \in {"set_use", "set_grant"} => who \in members
        /\ op = "remove_grant" => who \in holders[changed]
        /\ op # "set_grant" => MayLoseGrant(changed, who)
    BY <1>1, <1>2 DEF AcceptGrant, Able
  <1>4. /\ holders' = [holders EXCEPT ![changed] =
               IF op = "remove_grant" THEN @ \ {who} ELSE @ \union {who}]
        /\ grantors' = [grantors EXCEPT ![changed] =
               IF op = "set_grant" THEN @ \union {who} ELSE @ \ {who}]
        /\ UNCHANGED <<members, groups, groupMembers, managers, accounts>>
    BY DEF SaveGrant
  <1> HIDE DEF who, changed, op
  <1>5. /\ holders'[changed] = IF op = "remove_grant" THEN holders[changed] \ {who}
                               ELSE holders[changed] \union {who}
        /\ grantors'[changed] = IF op = "set_grant" THEN grantors[changed] \union {who}
                                ELSE grantors[changed] \ {who}
        /\ \A right \in Rights \ {changed} : /\ holders'[right] = holders[right]
                                             /\ grantors'[right] = grantors[right]
    BY <1>1, <1>4 DEF Inv, TypeOK
  <1>6. RelationTypes'
    BY <1>1, <1>4 DEF Inv, TypeOK, RelationTypes
  <1>7. \A target : Managing(target)' = Managing(target) /\ (Live(target)' <=> Live(target))
    BY <1>4 DEF Managing, Live
  <1>8. ASSUME NEW right \in Rights, ~(Answerable(right) \subseteq Answerable(right)')
        PROVE  Answerable(right)' \intersect members' \intersect eligible # {}
    <2>1. right = changed /\ op # "set_grant" /\ who \in grantors[changed]
      BY <1>5, <1>7, <1>8 DEF Answerable
    <2>2. PICK other \in ((grantors[changed] \ {who}) \union Managing(changed[1])) \intersect Able : TRUE
      BY <1>3, <2>1 DEF MayLoseGrant
    <2>3. other \in Answerable(right)'
      BY <1>5, <1>7, <2>1, <2>2 DEF Answerable
    <2> QED
      BY <1>4, <2>2, <2>3 DEF Able
  <1>9. NothingOrphaned'
    <2>1. ASSUME NEW right \in Rights, Live(right[1])'
          PROVE  Answerable(right)' \intersect members' # {}
      BY <1>4, <1>7, <1>8, <2>1 DEF Inv, NothingOrphaned
    <2>2. \A group \in Groups : groups'[group] = "live" => Managing(group)' \intersect members' # {}
      BY <1>4, <1>7 DEF Inv, NothingOrphaned
    <2> QED
      BY <2>1, <2>2 DEF NothingOrphaned
  <1>10. AccessNeedsMembership'
    <2>1. ASSUME NEW right \in Rights
          PROVE  /\ grantors'[right] \subseteq holders'[right]
                 /\ holders'[right] \subseteq members'
                 /\ holders'[right] # {} => Live(right[1])'
      <3>1. CASE right = changed
        BY <1>1, <1>3, <1>4, <1>5, <1>7, <3>1 DEF Inv, AccessNeedsMembership
      <3>2. CASE right # changed
        BY <1>4, <1>5, <1>7, <3>2 DEF Inv, AccessNeedsMembership
      <3> QED
        BY <3>1, <3>2
    <2> QED
      BY <1>4, <2>1 DEF Inv, AccessNeedsMembership
  <1>11. Handover
    BY <1>1, <1>8 DEF Handover
  <1> QED
    BY <1>6, <1>9, <1>10, <1>11 DEF Kept

LEMMA RelationshipKeeps ==
    ASSUME Inv, NEW h \in Humans, SaveRelationship(h)
    PROVE  Kept
  <1>0. PICK who, changed, op : /\ who = tx[h].request.who
                                      /\ changed = tx[h].request.group
                                      /\ op = tx[h].request.op
    OBVIOUS
  <1>1. eligible' = eligible
    BY SaveFacts DEF SaveRelationship
  <1>2. op \in {"add_group_member", "remove_group_member", "appoint_manager", "remove_manager"}
    BY <1>0 DEF SaveRelationship
  <1>3. changed \in Groups /\ who \in Humans
    BY SaveFacts, Fields, <1>0, <1>2 DEF SaveRelationship
  <1>4. AcceptRelationship(h, tx[h].request)
    BY SaveFacts, <1>0, <1>2 DEF SaveRelationship, Accepted, AcceptMembership, AcceptGrant, AcceptTarget
  <1>5. /\ groups[changed] = "live"
        /\ op \in {"add_group_member", "appoint_manager"} => who \in members
        /\ op \in {"remove_group_member", "remove_manager"} => MayLeaveManagement(changed, who)
    BY <1>0, <1>2, <1>4 DEF AcceptRelationship, Able
  <1>6. /\ \/ /\ op = "add_group_member"
              /\ groupMembers' = [groupMembers EXCEPT ![changed] = @ \union {who}]
              /\ managers' = managers
           \/ /\ op = "remove_group_member"
              /\ groupMembers' = [groupMembers EXCEPT ![changed] = @ \ {who}]
              /\ managers' = [managers EXCEPT ![changed] = @ \ {who}]
           \/ /\ op = "appoint_manager"
              /\ groupMembers' = [groupMembers EXCEPT ![changed] = @ \union {who}]
              /\ managers' = [managers EXCEPT ![changed] = @ \union {who}]
           \/ /\ op = "remove_manager"
              /\ managers' = [managers EXCEPT ![changed] = @ \ {who}]
              /\ groupMembers' = groupMembers
        /\ UNCHANGED <<members, holders, grantors, groups, accounts>>
    BY <1>0 DEF SaveRelationship
  <1>7. /\ groupMembers' \in [Groups -> SUBSET Humans]
        /\ managers' \in [Groups -> SUBSET Humans]
        /\ \A group \in Groups \ {changed} : /\ groupMembers'[group] = groupMembers[group]
                                             /\ managers'[group] = managers[group]
        /\ managers'[changed] \subseteq groupMembers'[changed]
        /\ groupMembers'[changed] \subseteq members
    BY <1>3, <1>5, <1>6 DEF Inv, TypeOK, AccessNeedsMembership
  <1>8. /\ Managing(changed) = managers[changed] \intersect groupMembers[changed]
        /\ Managing(changed)' = managers'[changed] \intersect groupMembers'[changed]
    BY <1>3 DEF Managing
  <1>a. op \in {"remove_group_member", "remove_manager"}
            \/ Managing(changed) \subseteq Managing(changed)'
    BY <1>3, <1>6, <1>8 DEF Inv, TypeOK
  <1>b. Managing(changed) \ {who} \subseteq Managing(changed)'
    BY <1>3, <1>6, <1>8 DEF Inv, TypeOK
  <1>c. ASSUME NEW target, target # changed
        PROVE  Managing(target)' = Managing(target)
    <2>1. CASE target \in Groups
      BY <1>7, <1>c, <2>1 DEF Managing
    <2>2. CASE target \notin Groups
      BY <2>2 DEF Managing
    <2> QED
      BY <2>1, <2>2
  <1>9. ASSUME ~(Managing(changed) \subseteq Managing(changed)')
        PROVE  Managing(changed)' \intersect members' \intersect eligible # {}
    <2>1. who \in managers[changed] /\ MayLeaveManagement(changed, who)
      BY <1>5, <1>8, <1>9, <1>a, <1>b
    <2>2. PICK other \in (Managing(changed) \ {who}) \intersect Able : TRUE
      BY <2>1 DEF MayLeaveManagement
    <2> QED
      BY <1>6, <1>b, <2>2 DEF Able
  <1>10. ASSUME NEW right \in Rights, ~(Answerable(right) \subseteq Answerable(right)')
         PROVE  Answerable(right)' \intersect members' \intersect eligible # {}
    <2>1. right[1] = changed /\ ~(Managing(changed) \subseteq Managing(changed)')
      <3>1. Managing(right[1]) \subseteq Managing(right[1])' => Answerable(right) \subseteq Answerable(right)'
        BY <1>6 DEF Answerable
      <3> QED
        BY <1>10, <1>c, <3>1
    <2>2. Managing(changed)' \subseteq Answerable(right)'
      BY <2>1 DEF Answerable
    <2> QED
      BY <1>9, <2>1, <2>2
  <1>11. \A target : Live(target)' <=> Live(target)
    BY <1>6 DEF Live
  <1>12. NothingOrphaned'
    <2>1. ASSUME NEW right \in Rights, Live(right[1])'
          PROVE  Answerable(right)' \intersect members' # {}
      BY <1>6, <1>10, <1>11, <2>1 DEF Inv, NothingOrphaned
    <2>2. ASSUME NEW group \in Groups, groups'[group] = "live"
          PROVE  Managing(group)' \intersect members' # {}
      <3>1. Managing(group) \intersect members # {}
        BY <1>6, <2>2 DEF Inv, NothingOrphaned
      <3>2. CASE group = changed
        BY <1>6, <1>9, <3>1, <3>2
      <3>3. CASE group # changed
        BY <1>6, <1>c, <3>1, <3>3
      <3> QED
        BY <3>2, <3>3
    <2> QED
      BY <2>1, <2>2 DEF NothingOrphaned
  <1>13. AccessNeedsMembership'
    BY <1>5, <1>6, <1>7, <1>11 DEF Inv, AccessNeedsMembership
  <1>14. RelationTypes'
    BY <1>6, <1>7 DEF Inv, TypeOK, RelationTypes
  <1>15. Handover
    BY <1>1, <1>10 DEF Handover
  <1> QED
    BY <1>12, <1>13, <1>14, <1>15 DEF Kept

LEMMA CreateGroupKeeps ==
    ASSUME Inv, NEW h \in Humans, CreateGroup(h)
    PROVE  Kept
  <1>0. PICK new : new = tx[h].request.group
    OBVIOUS
  <1>1. new \in Groups /\ tx[h].request.op = "create_group"
    BY SaveFacts, Fields, <1>0 DEF CreateGroup
  <1>2. h \in members /\ groups[new] = "absent"
    BY SaveFacts, <1>0, <1>1 DEF CreateGroup, Accepted, AcceptMembership, AcceptGrant,
                                 AcceptRelationship, AcceptTarget, Uses, Able
  <1>3. /\ groups' = [groups EXCEPT ![new] = "live"]
        /\ groupMembers' = [groupMembers EXCEPT ![new] = {h}]
        /\ managers' = [managers EXCEPT ![new] = {h}]
        /\ UNCHANGED <<members, holders, grantors, accounts>>
    BY <1>0 DEF CreateGroup
  <1>4. Managing(new) = {} /\ Managing(new)' = {h}
    BY <1>1, <1>2, <1>3 DEF Inv, TypeOK, AccessNeedsMembership, Managing
  <1>5. ASSUME NEW target, target # new
        PROVE  Managing(target)' = Managing(target) /\ (Live(target)' <=> Live(target))
    <2>1. CASE target \in Groups
      BY <1>1, <1>3, <1>5, <2>1 DEF Managing, Live, Inv, TypeOK
    <2>2. CASE target \notin Groups
      BY <1>3, <2>2 DEF Managing, Live
    <2> QED
      BY <2>1, <2>2
  <1>6. RelationTypes'
    BY <1>1, <1>3 DEF Inv, TypeOK, RelationTypes
  <1>7. \A right \in Rights : Answerable(right) \subseteq Answerable(right)'
    BY <1>3, <1>4, <1>5 DEF Answerable
  <1>8. NothingOrphaned'
    <2>1. ASSUME NEW right \in Rights, Live(right[1])'
          PROVE  Answerable(right)' \intersect members' # {}
      <3>1. CASE right[1] = new
        BY <1>2, <1>3, <1>4, <3>1 DEF Answerable
      <3>2. CASE right[1] # new
        BY <1>3, <1>5, <1>7, <2>1, <3>2 DEF Inv, NothingOrphaned
      <3> QED
        BY <3>1, <3>2
    <2>2. ASSUME NEW group \in Groups, groups'[group] = "live"
          PROVE  Managing(group)' \intersect members' # {}
      <3>1. CASE group = new
        BY <1>2, <1>3, <1>4, <3>1
      <3>2. CASE group # new
        BY <1>1, <1>3, <1>5, <2>2, <3>2 DEF Inv, TypeOK, NothingOrphaned
      <3> QED
        BY <3>1, <3>2
    <2> QED
      BY <2>1, <2>2 DEF NothingOrphaned
  <1>9. AccessNeedsMembership'
    <2>1. ASSUME NEW right \in Rights, holders'[right] # {}
          PROVE  Live(right[1])'
      <3>1. Live(right[1])
        BY <1>3, <2>1 DEF Inv, AccessNeedsMembership
      <3>2. right[1] # new
        BY <1>1, <1>2, <3>1, AccessAssumption DEF Live, Inv, TypeOK
      <3> QED
        BY <1>5, <3>1, <3>2
    <2>2. ASSUME NEW group \in Groups
          PROVE  /\ managers'[group] \subseteq groupMembers'[group]
                 /\ groupMembers'[group] \subseteq members'
                 /\ groupMembers'[group] # {} => groups'[group] = "live"
      <3>1. CASE group = new
        BY <1>1, <1>2, <1>3, <3>1 DEF Inv, TypeOK
      <3>2. CASE group # new
        BY <1>1, <1>3, <3>2 DEF Inv, TypeOK, AccessNeedsMembership
      <3> QED
        BY <3>1, <3>2
    <2> QED
      BY <1>3, <2>1, <2>2 DEF Inv, AccessNeedsMembership
  <1> QED
    BY <1>6, <1>7, <1>8, <1>9 DEF Kept, Handover

LEMMA DeleteGroupKeeps ==
    ASSUME Inv, NEW h \in Humans, DeleteGroup(h)
    PROVE  Kept
  <1>0. PICK gone : gone = tx[h].request.group
    OBVIOUS
  <1>1. gone \in Groups
    BY SaveFacts, Fields, <1>0 DEF DeleteGroup
  <1>2. /\ groups' = [groups EXCEPT ![gone] = "deleted"]
        /\ groupMembers' = [groupMembers EXCEPT ![gone] = {}]
        /\ managers' = [managers EXCEPT ![gone] = {}]
        /\ holders' = [right \in Rights |-> IF right[1] = gone THEN {} ELSE holders[right]]
        /\ grantors' = [right \in Rights |-> IF right[1] = gone THEN {} ELSE grantors[right]]
        /\ UNCHANGED <<members, accounts>>
    BY <1>0 DEF DeleteGroup
  <1>3. RelationTypes'
    BY <1>1, <1>2 DEF Inv, TypeOK, RelationTypes
  <1>4. ASSUME NEW target, target # gone
        PROVE  Managing(target)' = Managing(target) /\ (Live(target)' <=> Live(target))
    <2>1. CASE target \in Groups
      BY <1>1, <1>2, <1>4, <2>1 DEF Managing, Live, Inv, TypeOK
    <2>2. CASE target \notin Groups
      BY <1>2, <2>2 DEF Managing, Live
    <2> QED
      BY <2>1, <2>2
  <1>5. ~Live(gone)'
    BY <1>1, <1>2, AccessAssumption DEF Live, Inv, TypeOK
  <1>6. \A right \in Rights : right[1] # gone => Answerable(right)' = Answerable(right)
    BY <1>2, <1>4 DEF Answerable
  <1>7. NothingOrphaned'
    <2>1. ASSUME NEW right \in Rights, Live(right[1])'
          PROVE  Answerable(right)' \intersect members' # {}
      BY <1>2, <1>4, <1>5, <1>6, <2>1 DEF Inv, NothingOrphaned
    <2>2. ASSUME NEW group \in Groups, groups'[group] = "live"
          PROVE  Managing(group)' \intersect members' # {}
      <3>1. group # gone /\ groups[group] = "live"
        BY <1>1, <1>2, <2>2 DEF Inv, TypeOK
      <3> QED
        BY <1>2, <1>4, <3>1 DEF Inv, NothingOrphaned
    <2> QED
      BY <2>1, <2>2 DEF NothingOrphaned
  <1>8. AccessNeedsMembership'
    <2>1. ASSUME NEW right \in Rights
          PROVE  /\ grantors'[right] \subseteq holders'[right]
                 /\ holders'[right] \subseteq members'
                 /\ holders'[right] # {} => Live(right[1])'
      BY <1>2, <1>4 DEF Inv, AccessNeedsMembership
    <2>2. ASSUME NEW group \in Groups
          PROVE  /\ managers'[group] \subseteq groupMembers'[group]
                 /\ groupMembers'[group] \subseteq members'
                 /\ groupMembers'[group] # {} => groups'[group] = "live"
      BY <1>1, <1>2 DEF Inv, TypeOK, AccessNeedsMembership
    <2> QED
      BY <2>1, <2>2 DEF AccessNeedsMembership
  <1>9. Handover
    BY <1>5, <1>6 DEF Handover
  <1> QED
    BY <1>3, <1>7, <1>8, <1>9 DEF Kept

LEMMA CreateAccountKeeps ==
    ASSUME Inv, NEW h \in Humans, CreateAccount(h)
    PROVE  Kept
  <1>0. PICK new : new = tx[h].request.account
    OBVIOUS
  <1>1. new \in Applications /\ tx[h].request.op = "create_account"
    BY SaveFacts, Fields, <1>0 DEF CreateAccount
  <1>2. h \in members /\ new \notin accounts
    BY SaveFacts, <1>0, <1>1 DEF CreateAccount, Accepted, AcceptMembership, AcceptGrant,
                                 AcceptRelationship, AcceptTarget, Uses, Able
  <1>3. /\ accounts' = accounts \union {new}
        /\ holders' = [right \in Rights |-> IF right[1] = new THEN {h} ELSE holders[right]]
        /\ grantors' = [right \in Rights |-> IF right[1] = new THEN {h} ELSE grantors[right]]
        /\ UNCHANGED <<members, groups, groupMembers, managers>>
    BY <1>0 DEF CreateAccount
  <1>4. RelationTypes'
    BY <1>1, <1>3 DEF Inv, TypeOK, RelationTypes
  <1>5. \A target : Managing(target)' = Managing(target)
    BY <1>3 DEF Managing
  <1>6. /\ Live(new)' /\ ~Live(new) /\ Managing(new) = {}
        /\ \A target : target # new => (Live(target)' <=> Live(target))
    BY <1>1, <1>2, <1>3, AccessAssumption DEF Live, Managing
  <1>7. ASSUME NEW right \in Rights
        PROVE  /\ right[1] = new => Answerable(right) = {} /\ Answerable(right)' = {h}
               /\ right[1] # new => Answerable(right)' = Answerable(right)
    <2>1. CASE right[1] = new
      <3>1. grantors[right] = {}
        BY <1>6, <2>1 DEF Inv, AccessNeedsMembership
      <3> QED
        BY <1>3, <1>5, <1>6, <2>1, <3>1 DEF Answerable
    <2>2. CASE right[1] # new
      BY <1>3, <1>5, <2>2 DEF Answerable
    <2> QED
      BY <2>1, <2>2
  <1>8. NothingOrphaned'
    BY <1>2, <1>3, <1>5, <1>6, <1>7 DEF Inv, NothingOrphaned
  <1>9. AccessNeedsMembership'
    BY <1>2, <1>3, <1>6 DEF Inv, AccessNeedsMembership
  <1>10. Handover
    BY <1>7 DEF Handover
  <1> QED
    BY <1>4, <1>8, <1>9, <1>10 DEF Kept

-----------------------------------------------------------------------------
(* The invariant *)

LEMMA InitInv == Init => Inv
  <1> SUFFICES ASSUME Init PROVE Inv
    OBVIOUS
  <1>1. PICK founder \in Humans :
            /\ members = {founder}
            /\ holders = [right \in Rights |-> IF right[1] = Project THEN {founder} ELSE {}]
    BY DEF Init
  <1>2. grantors = holders
    BY DEF Init
  <1>3. TypeOK
    BY <1>1, <1>2, AccessAssumption DEF Init, TypeOK
  <1>4. \A target : Live(target) <=> target = Project
    BY DEF Init, Live
  <1>5. NothingOrphaned
    BY <1>1, <1>2, <1>4 DEF Init, NothingOrphaned, Answerable
  <1>6. AccessNeedsMembership
    BY <1>1, <1>2, <1>4 DEF Init, AccessNeedsMembership
  <1>7. DecisionsStayTrue /\ OneAtATime /\ AsSeen
    BY DEF Init, DecisionsStayTrue, OneAtATime, AsSeen
  <1> QED
    BY <1>3, <1>5, <1>6, <1>7 DEF Inv

(* Facts about the relations alone carry over a step that leaves them alone. *)
LEMMA Unmoved ==
    ASSUME UNCHANGED relations
    PROVE  /\ NothingOrphaned' <=> NothingOrphaned
           /\ AccessNeedsMembership' <=> AccessNeedsMembership
           /\ \A right : Answerable(right)' = Answerable(right)
           /\ eligible' = eligible => \A h, q : Accepted(h, q)' <=> Accepted(h, q)
  <1>1. /\ members' = members /\ holders' = holders /\ grantors' = grantors
        /\ groups' = groups /\ groupMembers' = groupMembers /\ managers' = managers
        /\ accounts' = accounts
    BY DEF relations
  <1>2. /\ \A target : Managing(target)' = Managing(target) /\ (Live(target)' <=> Live(target))
        /\ (eligible' = eligible => Able' = Able)
    BY <1>1 DEF Managing, Live, Able
  <1>3. \A right : Answerable(right)' = Answerable(right)
    BY <1>1, <1>2 DEF Answerable
  <1>4. NothingOrphaned' <=> NothingOrphaned
    BY <1>1, <1>2, <1>3 DEF NothingOrphaned
  <1>5. AccessNeedsMembership' <=> AccessNeedsMembership
    BY <1>1, <1>2 DEF AccessNeedsMembership
  <1>6. ASSUME NEW h, NEW q, eligible' = eligible
        PROVE  Accepted(h, q)' <=> Accepted(h, q)
    <2>0. eligible' = eligible /\ Able' = Able
      BY <1>2, <1>6
    <2>1. AcceptTarget(h, q)' <=> AcceptTarget(h, q)
      BY <1>1, <1>2, <2>0 DEF AcceptTarget, Uses, Manages
    <2>2. \A group, who : MayLeaveManagement(group, who)' <=> MayLeaveManagement(group, who)
      BY <1>1, <1>2, <2>0 DEF MayLeaveManagement
    <2>3. MayDepart(q.who)' <=> MayDepart(q.who)
      BY <1>1, <1>2, <2>0, <1>3, <2>2 DEF MayDepart
    <2>4. MayLoseGrant(q.right, q.who)' <=> MayLoseGrant(q.right, q.who)
      BY <1>1, <1>2, <2>0 DEF MayLoseGrant
    <2>5. AcceptMembership(h, q)' <=> AcceptMembership(h, q)
      BY <1>1, <1>2, <2>0, <2>3 DEF AcceptMembership, Uses
    <2>6. AcceptGrant(h, q)' <=> AcceptGrant(h, q)
      BY <1>1, <1>2, <2>0, <1>3, <2>4 DEF AcceptGrant
    <2>7. AcceptRelationship(h, q)' <=> AcceptRelationship(h, q)
      BY <1>1, <1>2, <2>0, <2>2 DEF AcceptRelationship, Manages
    <2> QED
      BY <2>1, <2>5, <2>6, <2>7 DEF Accepted
  <1> QED
    BY <1>3, <1>4, <1>5, <1>6

LEMMA WaitingKeeps ==
    ASSUME Inv, NEW h \in Humans, Look(h) \/ Abandon(h) \/ Turn(h)
    PROVE  Inv' /\ UNCHANGED relations
  <1>1. UNCHANGED relations /\ revision' = revision
    BY DEF Look, Abandon, Turn
  <1>2. TypeOK'
    BY <1>1 DEF Inv, TypeOK, relations, Look, Abandon, Turn
  <1>3. \A k \in Humans : tx'[k] # Idle => tx'[k] = tx[k] /\ looked'[k] = looked[k]
    BY DEF Inv, TypeOK, Look, Abandon, Turn
  <1>4. DecisionsStayTrue'
    <2>1. CASE Look(h) \/ Abandon(h)
      <3>1. eligible' = eligible
        BY <2>1 DEF Look, Abandon
      <3> QED
        BY <1>1, <1>3, <3>1, Unmoved DEF Inv, DecisionsStayTrue
    <2>2. CASE Turn(h)
      BY <2>2, <1>3 DEF Turn, OrganizationFree, DecisionsStayTrue
    <2> QED
      BY <2>1, <2>2
  <1>5. OneAtATime'
    BY <1>3 DEF Inv, OneAtATime
  <1>6. AsSeen'
    BY <1>1, <1>3 DEF Inv, AsSeen
  <1> QED
    BY <1>1, <1>2, <1>4, <1>5, <1>6, Unmoved DEF Inv

LEMMA BeginKeeps ==
    ASSUME Inv, NEW h \in Humans, Begin(h)
    PROVE  Inv' /\ UNCHANGED relations
  <1>1. PICK q \in Requests :
            /\ Accepted(h, q)
            /\ tx' = [tx EXCEPT ![h] = [request |-> q, read |-> revision]]
    BY DEF Begin
  <1>2. UNCHANGED <<relations, revision, eligible, looked>>
    BY DEF Begin
  <1>3. \A k \in Humans : k # h => tx'[k] = Idle
    BY <1>1 DEF Begin, Unlocked, Inv, TypeOK
  <1>4. tx'[h] = [request |-> q, read |-> revision]
    BY <1>1 DEF Inv, TypeOK
  <1>5. tx'[h] \in Transactions
    BY <1>4 DEF Inv, TypeOK, Transactions
  <1>6. TypeOK'
    <2>1. tx' \in [Humans -> Transactions \union {Idle}]
      BY <1>1, <1>4, <1>5 DEF Inv, TypeOK
    <2> QED
      BY <1>2, <2>1 DEF Inv, TypeOK, relations
  <1>7. DecisionsStayTrue'
    BY <1>1, <1>2, <1>3, <1>4, Unmoved DEF DecisionsStayTrue
  <1>8. OneAtATime'
    BY <1>3 DEF OneAtATime
  <1>9. AsSeen'
    BY <1>2, <1>3, <1>4 DEF Begin, Current, MayAdvance, Inv, TypeOK, AsSeen
  <1> QED
    BY <1>2, <1>6, <1>7, <1>8, <1>9, Unmoved DEF Inv

(* Every step either leaves the relations alone or is one of the six changes. *)
LEMMA StepFacts ==
    ASSUME Inv, [Next]_vars
    PROVE  /\ Inv'
           /\ \/ UNCHANGED relations
              \/ Handover /\ \E h \in Humans : Save(h)
  <1>1. CASE UNCHANGED vars
    <2>1. UNCHANGED <<relations, revision, eligible, looked, tx>>
      BY <1>1 DEF vars
    <2>2. TypeOK' /\ OneAtATime' /\ AsSeen' /\ DecisionsStayTrue'
      BY <2>1, Unmoved DEF Inv, TypeOK, relations, OneAtATime, AsSeen, DecisionsStayTrue
    <2> QED
      BY <2>1, <2>2, Unmoved DEF Inv
  <1>2. ASSUME NEW h \in Humans, Look(h) \/ Abandon(h) \/ Turn(h) \/ Begin(h)
        PROVE  Inv' /\ UNCHANGED relations
    BY <1>2, WaitingKeeps, BeginKeeps
  <1>3. ASSUME NEW h \in Humans,
               \/ SaveMembership(h) \/ SaveGrant(h) \/ SaveRelationship(h)
               \/ CreateGroup(h) \/ DeleteGroup(h) \/ CreateAccount(h)
        PROVE  Inv' /\ Handover /\ Save(h)
    <2>1. Save(h)
      BY <1>3 DEF SaveMembership, SaveGrant, SaveRelationship, CreateGroup, DeleteGroup, CreateAccount
    <2>2. SaveMembership(h) => tx[h].request.op \in {"add_member", "remove_member"}
      BY DEF SaveMembership
    <2>3. Kept
      BY <1>3, <2>2, AddMemberKeeps, RemoveMemberKeeps, GrantKeeps, RelationshipKeeps,
         CreateGroupKeeps, DeleteGroupKeeps, CreateAccountKeeps
    <2> QED
      BY <2>1, <2>3, SaveSettles DEF Kept
  <1> QED
    BY <1>1, <1>2, <1>3 DEF Next, vars

(* Rows are well-formed, and the revision stays within its limit. *)
THEOREM AccessTypes == Spec => []TypeOK
  <1>1. Init => Inv
    BY InitInv
  <1>2. Inv /\ [Next]_vars => Inv'
    BY StepFacts
  <1>3. Inv => TypeOK
    BY DEF Inv
  <1> QED
    BY <1>1, <1>2, <1>3, PTL DEF Spec

(* No right and no group is ever left without a member answerable for it. *)
THEOREM NothingIsOrphaned == Spec => []NothingOrphaned
  <1>1. Init => Inv
    BY InitInv
  <1>2. Inv /\ [Next]_vars => Inv'
    BY StepFacts
  <1>3. Inv => NothingOrphaned
    BY DEF Inv
  <1> QED
    BY <1>1, <1>2, <1>3, PTL DEF Spec

(* Grants and group relations belong to members, and to targets that exist. *)
THEOREM AccessFollowsMembership == Spec => []AccessNeedsMembership
  <1>1. Init => Inv
    BY InitInv
  <1>2. Inv /\ [Next]_vars => Inv'
    BY StepFacts
  <1>3. Inv => AccessNeedsMembership
    BY DEF Inv
  <1> QED
    BY <1>1, <1>2, <1>3, PTL DEF Spec

(* What a transaction decided under the lock still holds when it writes. *)
THEOREM DecisionsHold == Spec => []DecisionsStayTrue
  <1>1. Init => Inv
    BY InitInv
  <1>2. Inv /\ [Next]_vars => Inv'
    BY StepFacts
  <1>3. Inv => DecisionsStayTrue
    BY DEF Inv
  <1> QED
    BY <1>1, <1>2, <1>3, PTL DEF Spec

(* Whoever stops being answerable leaves an eligible member who is. *)
THEOREM HandoverIsReal == Spec => HandoverFindsSomeone
  <1>1. Init => Inv
    BY InitInv
  <1>2. Inv /\ [Next]_vars => Inv'
    BY StepFacts
  <1>3. Inv /\ [Next]_vars => [Handover]_vars
    BY StepFacts, Unmoved DEF Handover
  <1> QED
    BY <1>1, <1>2, <1>3, PTL DEF Spec, HandoverFindsSomeone, Handover

(* Of two changes asked for on the same view of the Project, one at most happens. *)
THEOREM ViewsAreUsedOnce == Spec => OneChangePerLook
  <1> DEFINE Used == relations' # relations =>
                 /\ revision' = revision + 1
                 /\ \E h \in Humans : tx[h] # Idle /\ tx'[h] = Idle /\ looked[h] = revision
  <1>1. Init => Inv
    BY InitInv
  <1>2. Inv /\ [Next]_vars => Inv'
    BY StepFacts
  <1>3. ASSUME Inv, [Next]_vars PROVE Used
    <2> SUFFICES ASSUME NEW h \in Humans, Save(h) PROVE Used
      BY <1>3, StepFacts
    <2>1. tx[h] # Idle /\ tx'[h] = Idle
      BY <1>3, SaveFacts
    <2>2. looked[h] = revision
      BY <1>3, <2>1 DEF Inv, AsSeen
    <2> QED
      BY <2>1, <2>2 DEF Save
  <1>4. Inv /\ [Next]_vars => [Used]_vars
    BY <1>3
  <1> QED
    BY <1>1, <1>2, <1>4, PTL DEF Spec, OneChangePerLook
=============================================================================
