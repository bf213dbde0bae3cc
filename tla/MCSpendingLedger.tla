--------------------------- MODULE MCSpendingLedger ---------------------------
\* An instance of SpendingLedger: the calls belong to one operation.
EXTENDS SpendingLedger, TLC
CONSTANTS operation
OneOperation == [c \in Calls |-> operation]

\* Calls and evidence are interchangeable.
Interchangeable == Permutations(Calls) \cup Permutations(Evidence)

KnownOf(c) == {e \in Evidence : evidence[c][e].known}

\* Two questions share the run.  Calls that share the limits have a piece of
\* evidence each, which agrees with the bill.  A call alone has all of them,
\* contradictory ones too, but one month and no limits.
TogetherOrAlone ==
    \/ Truthful(Calls) /\ \A c \in Calls : Cardinality(KnownOf(c)) <= 1
    \/ /\ Cardinality(Recorded) <= 1
       /\ month = 1 /\ limit = None /\ \A o \in Operations : opLimit[o] \in {Unset, None}
===============================================================================
