-------------------------- MODULE MCArtifactCapacity --------------------------
\* Instances of ArtifactCapacity.
EXTENDS ArtifactCapacity, TLC
\* Callers and the names they choose are interchangeable.
Interchangeable ==
    Permutations(Clients) \cup Permutations(Reservations) \cup Permutations(Attempts)
        \cup Permutations(Obligations)
===============================================================================
