-------------------------- MODULE MCTargetRegistry --------------------------
\* An instance of TargetRegistry: calls and bindings are interchangeable.
EXTENDS TargetRegistry, TLC
Interchangeable == Permutations(Calls) \cup Permutations(Bindings) \cup Permutations(Labels)
=============================================================================
