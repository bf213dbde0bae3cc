------------------------ MODULE MCOrganizationAccess ------------------------
\* Instances of OrganizationAccess: humans and calls are interchangeable. The
\* operations are not: a default of the rows picks one of them.
EXTENDS OrganizationAccess, TLC
Interchangeable == Permutations(Humans) \union Permutations(Calls)
=============================================================================
