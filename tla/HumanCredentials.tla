-------------------------- MODULE HumanCredentials --------------------------
(* Which access tokens of one human still count. A token carries the version  *)
(* of the identity's credentials that stood when its consent was prepared;    *)
(* every recovery advances the version and blocks the identity until it is    *)
(* released. Consents are prepared in several steps, some at the database and *)
(* some at the providers, while recoveries come and go. Nothing here revokes  *)
(* a token: the version alone must keep the old ones out.                     *)
EXTENDS RecoveryContract

CONSTANTS
    Consents,       \* consent decisions that may be under way at once
    Calls           \* product calls and the work they admit

ASSUME SurfacesAssumption == "sessions" \in Surfaces

VARIABLES
    version,        \* of the identity's credentials; 0: no row yet
    consent,        \* consent[c]: what one decision has read so far
    tokens,         \* what Hydra has issued, with the sign-in behind it
    call,           \* call[k]: how far one product call has come
    served          \* history: each admitted step, and the recoveries before it

ownVars == <<version, consent, tokens, call, served>>
vars == <<contractVars, ownVars>>

\* A sign-in is dated by the recoveries admitted before it.
Born == 0 .. MaxRecoveries
Token == [version : Nat, born : Born]
NoToken == [version |-> 0, born |-> 0]
ConsentRow ==
    [stage : {"none", "initialized", "verified", "sent"}, clear : BOOLEAN, token : Token]
NoConsent == [stage |-> "none", clear |-> FALSE, token |-> NoToken]
CallRow == [stage : {"none", "authenticated", "working"}, token : Token]
NoCall == [stage |-> "none", token |-> NoToken]

Init ==
    /\ ContractInit
    /\ version = 0
    /\ consent = [c \in Consents |-> NoConsent]
    /\ tokens = {}
    /\ call = [k \in Calls |-> NoCall]
    /\ served = {}

Clear == admitted \subseteq released
\* A session works until a recovery after it has revoked the sessions before it.
Works(born) ==
    /\ \A r \in 1 .. born : r \in admitted
    /\ \A r \in admitted : r > born => r \in exposed["sessions"]
-----------------------------------------------------------------------------
(* Recovery: one delivery of a notice from the identity provider. *)

AtLeastOne == IF version = 0 THEN 1 ELSE version

\* Wrong: every delivery advances the version.
RepeatedAdvances ==
    /\ version' = version + 1
    /\ UNCHANGED <<contractVars, consent, tokens, call, served>>
\* The provider delivers a notice it has delivered before.
Repeated == UNCHANGED vars

Notify(r) ==
    \/ /\ Block(r)
       /\ version' = AtLeastOne + 1
       /\ UNCHANGED <<consent, tokens, call, served>>
    \/ r \in admitted /\ Repeated

Cleanup ==
    /\ \/ \E s \in Surfaces : Revoke(s)
       \/ \E r \in admitted : Release(r)
    /\ UNCHANGED ownVars
-----------------------------------------------------------------------------
(* Approval of a consent request. *)

Initialize(c) ==
    /\ consent[c].stage = "none"
    /\ version' = AtLeastOne
    /\ consent' = [consent EXCEPT ![c] =
           [stage |-> "initialized", clear |-> Clear, token |-> [version |-> AtLeastOne, born |-> 0]]]
    /\ UNCHANGED <<contractVars, tokens, call, served>>

\* Kratos confirms the session the browser presents.
Verify(c) ==
    /\ consent[c].stage = "initialized"
    /\ \E born \in Born :
           /\ Works(born)
           /\ consent' = [consent EXCEPT ![c] =
                  [stage |-> "verified", clear |-> @.clear,
                   token |-> [version |-> @.token.version, born |-> born]]]
    /\ UNCHANGED <<contractVars, version, tokens, call, served>>

\* Wrong: only the last reading counts.
NowClear(row) == Clear
MayApprove(row) == row.clear /\ Clear

Approve(c) ==
    /\ consent[c].stage = "verified"
    /\ consent[c].token.version = version
    /\ MayApprove(consent[c])
    /\ consent' = [consent EXCEPT ![c].stage = "sent"]
    /\ UNCHANGED <<contractVars, version, tokens, call, served>>

\* Hydra acts on the decision, however late.
Allow(c) ==
    /\ consent[c].stage = "sent"
    /\ tokens' = tokens \union {consent[c].token}
    /\ consent' = [consent EXCEPT ![c] = NoConsent]
    /\ UNCHANGED <<contractVars, version, call, served>>

\* A refusal, a deadline, a call that never arrived.
Abandon(c) ==
    /\ consent[c].stage # "none"
    /\ consent' = [consent EXCEPT ![c] = NoConsent]
    /\ UNCHANGED <<contractVars, version, tokens, call, served>>
-----------------------------------------------------------------------------
(* Use of a token. *)

IsCurrent(token) == token.version = version
MayUse(token) == IsCurrent(token) /\ Clear

Authenticate(k) ==
    /\ call[k].stage = "none"
    /\ \E token \in tokens :
           /\ MayUse(token)
           /\ call' = [call EXCEPT ![k] = [stage |-> "authenticated", token |-> token]]
    /\ UNCHANGED <<contractVars, version, consent, tokens, served>>

Serves(k) == served' = served \union {[born |-> call[k].token.born, recoveries |-> admitted]}

\* The product's transaction checks again; it may leave work to be done later.
Serve(k) ==
    /\ call[k].stage = "authenticated"
    /\ MayUse(call[k].token)
    /\ Serves(k)
    /\ \/ call' = [call EXCEPT ![k].stage = "working"]
       \/ call' = [call EXCEPT ![k] = NoCall]
    /\ UNCHANGED <<contractVars, version, consent, tokens>>

\* The worker checks the admitted work's own binding before each effect.
Continue(k) ==
    /\ call[k].stage = "working"
    /\ MayUse(call[k].token)
    /\ Serves(k)
    /\ UNCHANGED <<contractVars, version, consent, tokens, call>>

\* Refused, finished or given up.
Leave(k) ==
    /\ call[k].stage # "none"
    /\ call' = [call EXCEPT ![k] = NoCall]
    /\ UNCHANGED <<contractVars, version, consent, tokens, served>>

Next ==
    \/ \E r \in 1 .. MaxRecoveries : Notify(r)
    \/ Cleanup
    \/ \E c \in Consents :
           Initialize(c) \/ Verify(c) \/ Approve(c) \/ Allow(c) \/ Abandon(c)
    \/ \E k \in Calls : Authenticate(k) \/ Serve(k) \/ Continue(k) \/ Leave(k)

Spec == Init /\ [][Next]_vars
-----------------------------------------------------------------------------
TypeOK ==
    /\ admitted \subseteq 1 .. MaxRecoveries
    /\ released \subseteq admitted
    /\ exposed \in [Surfaces -> SUBSET (1 .. MaxRecoveries)]
    /\ version \in Nat
    /\ consent \in [Consents -> ConsentRow]
    /\ tokens \subseteq Token
    /\ call \in [Calls -> CallRow]
    /\ \A s \in served : s.born \in Born /\ s.recoveries \subseteq 1 .. MaxRecoveries

\* Whoever is served, at once or by work admitted earlier, had signed in after
\* every recovery admitted by then, although a consent is prepared across
\* several reads and its token outlives the cleanup.
NothingOldIsServed ==
    \A s \in served : \A r \in s.recoveries : r <= s.born

\* A token that counts stops counting only when a recovery is admitted: a
\* repeated notice or another consent signs nobody out.
OnlyRecoverySignsOut ==
    [][\A token \in tokens :
           token.version = version /\ token.version # version' => admitted' # admitted]_vars
=============================================================================
