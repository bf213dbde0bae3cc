----------------------- MODULE HumanCredentialsProofs -----------------------
(***************************************************************************)
(* Proofs about access tokens and recovery, for every number of            *)
(* recoveries, consents under way and calls.  The argument: the version    *)
(* counts the recoveries, so a consent that found its version unchanged    *)
(* was prepared between two recoveries; all those before it were released, *)
(* hence no session older than them could still be shown.                  *)
(***************************************************************************)
EXTENDS HumanCredentials, TLAPS

\* Recoveries are numbered in their order, and the version counts them.
VersionCounts ==
    \E n \in 0 .. MaxRecoveries :
        admitted = 1 .. n /\ (version = n + 1 \/ (version = 0 /\ n = 0))

\* A released recovery leaves nothing usable from before it.
ReleasedIsClosed == \A r \in released : \A s \in Surfaces : r \notin exposed[s]

\* A token was signed in for after every recovery its version counts.
Fresh(token) == token.version # 0 /\ \A r \in Nat : r # 0 /\ r < token.version => r <= token.born

\* A consent begun when nothing was pending rests on releases up to its version.
Grounded(row) ==
    /\ row.stage # "none" => row.token.version # 0
    /\ row.stage # "none" /\ row.clear =>
           \A r \in Nat : r # 0 /\ r < row.token.version => r \in released
    /\ row.stage = "verified" /\ row.clear => Fresh(row.token)
    /\ row.stage = "sent" => Fresh(row.token)

ConsentsGrounded == \A c \in Consents : Grounded(consent[c])
TokensFresh == \A token \in tokens : Fresh(token)
CallsFresh == \A k \in Calls : call[k].stage # "none" => Fresh(call[k].token)

IInv ==
    /\ TypeOK
    /\ VersionCounts
    /\ ReleasedIsClosed
    /\ ConsentsGrounded
    /\ TokensFresh
    /\ CallsFresh
    /\ NothingOldIsServed

-----------------------------------------------------------------------------
(* Recovery. *)

\* Initially nothing has happened.
LEMMA InitHolds == Init => IInv
<1> SUFFICES ASSUME Init PROVE IInv
  OBVIOUS
<1> USE ContractAssumption DEF Init, ContractInit
<1>1. TypeOK
  BY DEF TypeOK, ConsentRow, CallRow, NoConsent, NoCall, NoToken, Token, Born
<1>2. VersionCounts
  <2>1. 0 \in 0 .. MaxRecoveries /\ admitted = 1 .. 0
    OBVIOUS
  <2> QED
    BY <2>1 DEF VersionCounts
<1> QED
  BY <1>1, <1>2 DEF IInv, ReleasedIsClosed, ConsentsGrounded, Grounded, NoConsent,
     TokensFresh, CallsFresh, NoCall, NothingOldIsServed

\* A new notice blocks, counts once more and touches nothing issued; a repeated
\* one changes nothing.
LEMMA NotifyKeeps ==
    ASSUME IInv, NEW r \in 1 .. MaxRecoveries, Notify(r)
    PROVE  IInv'
<1>1. CASE UNCHANGED vars
  <2>1. /\ UNCHANGED <<admitted, released, exposed>>
        /\ UNCHANGED <<version, consent, tokens, call, served>>
    BY <1>1 DEF vars, contractVars, ownVars
  <2> QED
    BY <2>1 DEF IInv, TypeOK, VersionCounts, ReleasedIsClosed, ConsentsGrounded, Grounded,
       TokensFresh, CallsFresh, NothingOldIsServed, Fresh
<1>2. CASE ~UNCHANGED vars
  <2>1. /\ Block(r)
        /\ version' = AtLeastOne + 1
        /\ UNCHANGED <<consent, tokens, call, served>>
    BY <1>2 DEF Notify, Repeated
  <2>2. PICK n \in 0 .. MaxRecoveries :
          admitted = 1 .. n /\ (version = n + 1 \/ (version = 0 /\ n = 0))
    BY DEF IInv, VersionCounts
  <2>3. r = n + 1 /\ r \in Nat /\ n \in Nat
    <3>1. r \notin 1 .. n /\ 1 .. r - 1 \subseteq 1 .. n
      BY <2>1, <2>2 DEF Block
    <3>2. r >= n + 1
      BY <3>1, ContractAssumption
    <3>3. CASE r > n + 1
      <4>1. n + 1 \in 1 .. r - 1 /\ n + 1 \notin 1 .. n
        BY <3>3, ContractAssumption
      <4> QED
        BY <3>1, <4>1
    <3> QED
      BY <3>2, <3>3, ContractAssumption
  <2>4. admitted' = 1 .. r /\ version' = r + 1
    BY <2>1, <2>2, <2>3, ContractAssumption DEF Block, AtLeastOne
  <2>5. VersionCounts'
    <3>1. r \in 0 .. MaxRecoveries
      BY ContractAssumption
    <3>3. \E m \in 0 .. MaxRecoveries :
             admitted' = 1 .. m /\ (version' = m + 1 \/ (version' = 0 /\ m = 0))
      <4> WITNESS r \in 0 .. MaxRecoveries
      <4> QED
        BY <2>4
    <3> QED
      BY <3>3 DEF VersionCounts
  <2>6. exposed' \in [Surfaces -> SUBSET (1 .. MaxRecoveries)]
    BY <2>1 DEF Block, IInv, TypeOK
  <2>7. admitted' \subseteq 1 .. MaxRecoveries /\ released' \subseteq admitted' /\ version' \in Nat
    BY <2>1, <2>3, <2>4 DEF Block, IInv, TypeOK
  <2>8. TypeOK'
    BY <2>1, <2>6, <2>7 DEF IInv, TypeOK
  <2>9. ReleasedIsClosed'
    BY <2>1 DEF Block, IInv, TypeOK, ReleasedIsClosed
  <2>10. ConsentsGrounded' /\ TokensFresh' /\ CallsFresh' /\ NothingOldIsServed'
    BY <2>1 DEF Block, IInv, ConsentsGrounded, Grounded, TokensFresh, CallsFresh, Fresh,
       NothingOldIsServed
  <2> QED
    BY <2>5, <2>8, <2>9, <2>10 DEF IInv
<1> QED
  BY <1>1, <1>2

\* Cleanup only closes what is exposed and releases what is closed.
LEMMA CleanupKeeps ==
    ASSUME IInv, Cleanup
    PROVE  IInv'
<1>1. UNCHANGED <<version, consent, tokens, call, served>>
  BY DEF Cleanup, ownVars
<1>2. /\ admitted' = admitted
      /\ released \subseteq released'
  BY DEF Cleanup, Revoke, Release
<1>3. /\ released' \subseteq admitted
      /\ exposed' \in [Surfaces -> SUBSET (1 .. MaxRecoveries)]
      /\ ReleasedIsClosed'
  <2>1. ASSUME NEW s \in Surfaces, Revoke(s)
        PROVE  <1>3!1 /\ <1>3!2 /\ <1>3!3
    BY <2>1 DEF Revoke, IInv, TypeOK, ReleasedIsClosed
  <2>2. ASSUME NEW r \in admitted, Release(r)
        PROVE  <1>3!1 /\ <1>3!2 /\ <1>3!3
    BY <2>2 DEF Release, IInv, TypeOK, ReleasedIsClosed
  <2> QED
    BY <2>1, <2>2 DEF Cleanup
<1>4. TypeOK' /\ VersionCounts'
  BY <1>1, <1>2, <1>3 DEF IInv, TypeOK, VersionCounts
<1>5. ConsentsGrounded'
  BY <1>1, <1>2 DEF IInv, ConsentsGrounded, Grounded, Fresh
<1>6. TokensFresh' /\ CallsFresh' /\ NothingOldIsServed'
  BY <1>1, <1>2 DEF IInv, TokensFresh, CallsFresh, Fresh, NothingOldIsServed
<1> QED
  BY <1>3, <1>4, <1>5, <1>6 DEF IInv

-----------------------------------------------------------------------------
(* Consents. *)

\* A step that changes one consent, and perhaps writes the first version, keeps
\* the invariant if that consent stays grounded.
LEMMA ConsentStep ==
    ASSUME IInv, NEW c \in Consents, NEW row \in ConsentRow,
           consent' = [consent EXCEPT ![c] = row],
           version' \in {version, AtLeastOne},
           UNCHANGED <<contractVars, call, served>>,
           tokens' \subseteq Token, TokensFresh', Grounded(row)
    PROVE  IInv'
<1>1. UNCHANGED <<admitted, released, exposed>> /\ UNCHANGED <<call, served>>
  BY DEF contractVars
<1>2. VersionCounts' /\ version' \in Nat
  BY <1>1, ContractAssumption DEF IInv, TypeOK, VersionCounts, AtLeastOne
<1>3. TypeOK'
  BY <1>1, <1>2 DEF IInv, TypeOK
<1>4. ConsentsGrounded'
  BY <1>1 DEF IInv, TypeOK, ConsentsGrounded, Grounded, Fresh
<1>5. ReleasedIsClosed' /\ CallsFresh' /\ NothingOldIsServed'
  BY <1>1 DEF IInv, ReleasedIsClosed, CallsFresh, Fresh, NothingOldIsServed
<1> QED
  BY <1>2, <1>3, <1>4, <1>5 DEF IInv

\* Consents keep the invariant, from their first read to Hydra's answer.
LEMMA ConsentKeeps ==
    ASSUME IInv, NEW c \in Consents,
           Initialize(c) \/ Verify(c) \/ Approve(c) \/ Allow(c) \/ Abandon(c)
    PROVE  IInv'
<1> DEFINE old == consent[c]
<1>0. /\ old \in ConsentRow
      /\ old.token \in Token
      /\ Grounded(old)
      /\ old = [stage |-> old.stage, clear |-> old.clear, token |-> old.token]
      /\ old.token = [version |-> old.token.version, born |-> old.token.born]
  BY DEF IInv, TypeOK, ConsentsGrounded, ConsentRow, Token
<1>1. tokens' = tokens => tokens' \subseteq Token /\ TokensFresh'
  BY DEF IInv, TypeOK, TokensFresh, Fresh
<1>2. CASE Initialize(c)
  <2> DEFINE row == [stage |-> "initialized", clear |-> Clear,
                     token |-> [version |-> AtLeastOne, born |-> 0]]
  <2>1. AtLeastOne \in Nat /\ AtLeastOne # 0
    BY DEF IInv, TypeOK, AtLeastOne
  <2>2. Clear \in BOOLEAN
    BY DEF Clear
  <2>3. row \in ConsentRow
    BY <2>1, <2>2, ContractAssumption DEF ConsentRow, Token, Born
  <2>4. ASSUME Clear, NEW r \in Nat, r # 0, r < AtLeastOne
        PROVE  r \in released
    <3>1. PICK n \in 0 .. MaxRecoveries :
              admitted = 1 .. n /\ (version = n + 1 \/ (version = 0 /\ n = 0))
      BY DEF IInv, VersionCounts
    <3>2. r \in 1 .. n
      BY <3>1, <2>4, ContractAssumption DEF AtLeastOne
    <3> QED
      BY <3>1, <3>2, <2>4 DEF Clear
  <2>5. Grounded(row)
    BY <2>1, <2>4 DEF Grounded
  <2>6. consent' = [consent EXCEPT ![c] = row] /\ version' = AtLeastOne /\ tokens' = tokens
        /\ UNCHANGED <<contractVars, call, served>>
    BY <1>2 DEF Initialize
  <2> HIDE DEF row
  <2> QED
    BY <2>3, <2>5, <2>6, <1>1, ConsentStep
<1>3. CASE Verify(c)
  <2>1. PICK born \in Born :
            /\ Works(born)
            /\ consent' = [consent EXCEPT ![c] =
                   [stage |-> "verified", clear |-> @.clear,
                    token |-> [version |-> @.token.version, born |-> born]]]
    BY <1>3 DEF Verify
  <2> DEFINE row == [stage |-> "verified", clear |-> old.clear,
                     token |-> [version |-> old.token.version, born |-> born]]
  <2>2. row \in ConsentRow
    BY <1>0 DEF ConsentRow, Token
  <2>3. consent' = [consent EXCEPT ![c] = row]
    BY <2>1
  <2>4. ASSUME old.clear, NEW r \in Nat, r # 0, r < old.token.version
        PROVE  r <= born
    <3>1. old.stage # "none"
      BY <1>3 DEF Verify
    <3>2. r \in released
      BY <1>0, <2>4, <3>1 DEF Grounded
    <3>3. r \in admitted /\ r \notin exposed["sessions"]
      BY <3>2, SurfacesAssumption DEF IInv, TypeOK, ReleasedIsClosed
    <3> QED
      BY <2>1, <3>3 DEF Works, Born
  <2>5. Grounded(row)
    BY <1>0, <1>3, <2>4 DEF Grounded, Fresh, Verify
  <2>6. version' = version /\ tokens' = tokens /\ UNCHANGED <<contractVars, call, served>>
    BY <1>3 DEF Verify
  <2> HIDE DEF row
  <2> QED
    BY <2>2, <2>3, <2>5, <2>6, <1>1, ConsentStep
<1>4. CASE Approve(c)
  <2> DEFINE row == [stage |-> "sent", clear |-> old.clear, token |-> old.token]
  <2>1. row \in ConsentRow
    BY <1>0 DEF ConsentRow
  <2>2. consent' = [consent EXCEPT ![c] = row]
    <3>1. [old EXCEPT !.stage = "sent"] = row
      BY <1>0 DEF ConsentRow
    <3>2. consent' = [consent EXCEPT ![c] = [old EXCEPT !.stage = "sent"]]
      BY <1>4 DEF Approve
    <3> HIDE DEF row, old
    <3> QED
      BY <3>1, <3>2
  <2>3. Grounded(row)
    BY <1>0, <1>4 DEF Grounded, Approve, MayApprove, Fresh
  <2>4. version' = version /\ tokens' = tokens /\ UNCHANGED <<contractVars, call, served>>
    BY <1>4 DEF Approve
  <2> HIDE DEF row
  <2> QED
    BY <2>1, <2>2, <2>3, <2>4, <1>1, ConsentStep
<1>5. NoConsent \in ConsentRow /\ Grounded(NoConsent)
  BY ContractAssumption DEF NoConsent, ConsentRow, NoToken, Token, Born, Grounded
<1>6. CASE Allow(c)
  <2>1. Fresh(old.token)
    BY <1>0, <1>6 DEF Allow, Grounded
  <2>2. tokens' = tokens \union {old.token}
    BY <1>6 DEF Allow
  <2>3. tokens' \subseteq Token /\ TokensFresh'
    BY <1>0, <2>1, <2>2 DEF IInv, TypeOK, TokensFresh, Fresh
  <2>4. consent' = [consent EXCEPT ![c] = NoConsent] /\ version' = version
        /\ UNCHANGED <<contractVars, call, served>>
    BY <1>6 DEF Allow
  <2> QED
    BY <1>5, <2>3, <2>4, ConsentStep
<1>7. CASE Abandon(c)
  <2>1. consent' = [consent EXCEPT ![c] = NoConsent] /\ version' = version /\ tokens' = tokens
        /\ UNCHANGED <<contractVars, call, served>>
    BY <1>7 DEF Abandon
  <2> QED
    BY <1>1, <1>5, <2>1, ConsentStep
<1> QED
  BY <1>2, <1>3, <1>4, <1>6, <1>7

-----------------------------------------------------------------------------
(* Calls. *)

\* A call is only ever made with a token that was fresh, and served only while
\* that token's version is the current one.
LEMMA CallKeeps ==
    ASSUME IInv, NEW k \in Calls,
           Authenticate(k) \/ Serve(k) \/ Continue(k) \/ Leave(k)
    PROVE  IInv'
<1>1. /\ UNCHANGED <<admitted, released, exposed>>
      /\ UNCHANGED <<version, consent, tokens>>
  BY DEF Authenticate, Serve, Continue, Leave, contractVars
<1>2. call' \in [Calls -> CallRow] /\ CallsFresh'
  <2>1. CASE Authenticate(k)
    BY <2>1 DEF Authenticate, IInv, TypeOK, CallRow, TokensFresh, CallsFresh, Fresh
  <2>2. CASE Serve(k)
    <3>1. NoCall \in CallRow /\ call[k] \in CallRow
      BY ContractAssumption DEF NoCall, CallRow, NoToken, Token, Born, IInv, TypeOK
    <3>2. [call[k] EXCEPT !.stage = "working"] \in CallRow
      BY <3>1 DEF CallRow
    <3>3. PICK row \in CallRow :
              /\ call' = [call EXCEPT ![k] = row]
              /\ row.stage # "none" => row.token = call[k].token
      BY <2>2, <3>1, <3>2 DEF Serve, CallRow, NoCall
    <3>4. call[k].stage # "none"
      BY <2>2 DEF Serve
    <3> QED
      BY <3>3, <3>4 DEF IInv, TypeOK, CallsFresh, Fresh
  <2>3. CASE Continue(k)
    BY <2>3 DEF Continue, IInv, TypeOK, CallsFresh, Fresh
  <2>4. CASE Leave(k)
    BY <2>4, ContractAssumption DEF Leave, IInv, TypeOK, CallRow, NoCall, NoToken, Token, Born,
       CallsFresh, Fresh
  <2> QED
    BY <2>1, <2>2, <2>3, <2>4
<1>3. /\ \A s \in served' : s.born \in Born /\ s.recoveries \subseteq 1 .. MaxRecoveries
      /\ NothingOldIsServed'
  <2>1. CASE served' = served
    BY <2>1 DEF IInv, TypeOK, NothingOldIsServed
  <2>2. CASE served' # served
    <3>1. /\ Serves(k)
          /\ call[k].stage # "none"
          /\ call[k].token.version = version
      BY <2>2 DEF Authenticate, Serve, Continue, Leave, MayUse, IsCurrent
    <3>2. call[k].token.born \in Born
      BY DEF IInv, TypeOK, CallRow, Token
    <3>3. PICK n \in 0 .. MaxRecoveries :
              admitted = 1 .. n /\ (version = n + 1 \/ (version = 0 /\ n = 0))
      BY DEF IInv, VersionCounts
    <3>4. ASSUME NEW r \in admitted PROVE r <= call[k].token.born
      BY <3>1, <3>3, ContractAssumption DEF IInv, CallsFresh, Fresh
    <3>0. PICK new : new = [born |-> call[k].token.born, recoveries |-> admitted]
      OBVIOUS
    <3>5. new.born = call[k].token.born /\ new.recoveries = admitted
      BY <3>0
    <3>6. served' = served \union {new}
      BY <3>0, <3>1 DEF Serves
    <3>7. \A s \in served' : \/ s \in served
                            \/ (s.born = call[k].token.born /\ s.recoveries = admitted)
      BY <3>5, <3>6, Zenon
    <3> QED
      BY <3>2, <3>4, <3>7 DEF IInv, TypeOK, NothingOldIsServed
  <2> QED
    BY <2>1, <2>2
<1>4. TypeOK' /\ VersionCounts' /\ ReleasedIsClosed'
  BY <1>1, <1>2, <1>3 DEF IInv, TypeOK, VersionCounts, ReleasedIsClosed
<1>5. ConsentsGrounded' /\ TokensFresh'
  BY <1>1 DEF IInv, ConsentsGrounded, Grounded, TokensFresh, Fresh
<1> QED
  BY <1>2, <1>3, <1>4, <1>5 DEF IInv

-----------------------------------------------------------------------------
\* Every reachable state satisfies the invariant.
THEOREM CredentialInvariant == Spec => []IInv
<1>1. IInv /\ [Next]_vars => IInv'
  <2> SUFFICES ASSUME IInv, [Next]_vars PROVE IInv'
    OBVIOUS
  <2>1. CASE Next
    <3>1. ASSUME NEW r \in 1 .. MaxRecoveries, Notify(r) PROVE IInv'
      BY <3>1, NotifyKeeps
    <3>2. CASE Cleanup
      BY <3>2, CleanupKeeps
    <3>3. ASSUME NEW c \in Consents,
                 Initialize(c) \/ Verify(c) \/ Approve(c) \/ Allow(c) \/ Abandon(c)
          PROVE  IInv'
      BY <3>3, ConsentKeeps
    <3>4. ASSUME NEW k \in Calls, Authenticate(k) \/ Serve(k) \/ Continue(k) \/ Leave(k)
          PROVE  IInv'
      BY <3>4, CallKeeps
    <3> QED
      BY <2>1, <3>1, <3>2, <3>3, <3>4 DEF Next
  <2>2. CASE UNCHANGED vars
    <3>1. UNCHANGED <<admitted, released, exposed>>
          /\ UNCHANGED <<version, consent, tokens, call, served>>
      BY <2>2 DEF vars, contractVars, ownVars
    <3> QED
      BY <3>1 DEF IInv, TypeOK, VersionCounts, ReleasedIsClosed, ConsentsGrounded, Grounded,
         TokensFresh, CallsFresh, NothingOldIsServed, Fresh
  <2> QED
    BY <2>1, <2>2
<1> QED
  BY <1>1, InitHolds, PTL DEF Spec

\* The rows of credentials, consents and calls are well-formed, for any number
\* of recoveries.
THEOREM CredentialTypes == Spec => []TypeOK
<1>1. IInv => TypeOK
  BY DEF IInv
<1> QED
  BY <1>1, CredentialInvariant, PTL

\* No token obtained with a sign-in older than a recovery is served after that
\* recovery is admitted, even if nobody ever revokes it.
THEOREM OldTokensAreUseless == Spec => []NothingOldIsServed
<1>1. IInv => NothingOldIsServed
  BY DEF IInv
<1> QED
  BY <1>1, CredentialInvariant, PTL

\* Only a newly admitted recovery makes a current token stop counting.
THEOREM SignOutIsRecovery == Spec => OnlyRecoverySignsOut
<1>1. IInv /\ [Next]_vars =>
        [\A token \in tokens :
            token.version = version /\ token.version # version' => admitted' # admitted]_vars
  <2> SUFFICES ASSUME IInv, [Next]_vars, NEW token \in tokens,
                      token.version = version, token.version # version'
               PROVE  admitted' # admitted
    OBVIOUS
  <2>1. Next
    BY DEF vars, ownVars
  <2>2. version # 0
    BY DEF IInv, TokensFresh, Fresh
  <2>3. \A c \in Consents : ~Initialize(c)
    BY <2>2 DEF Initialize, AtLeastOne
  <2>4. ~Cleanup
    BY DEF Cleanup, ownVars
  <2>5. PICK r \in 1 .. MaxRecoveries : Notify(r)
    BY <2>1, <2>3, <2>4 DEF Next, Verify, Approve, Allow, Abandon, Authenticate, Serve, Continue, Leave
  <2>6. Block(r)
    BY <2>5 DEF Notify, Repeated, vars, ownVars
  <2> QED
    BY <2>6 DEF Block
<1> QED
  BY <1>1, CredentialInvariant, PTL DEF Spec, OnlyRecoverySignsOut
=============================================================================
