------------------------- MODULE MCHumanCredentials -------------------------
\* Instances of HumanCredentials: decisions and calls are interchangeable.
EXTENDS HumanCredentials, TLC
Interchangeable == Permutations(Consents) \cup Permutations(Calls)
=============================================================================
