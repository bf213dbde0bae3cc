-------------------------- MODULE MCRecoveryCleanup --------------------------
\* Instances of RecoveryCleanup: two recoveries of one identity, and one
\* recovery that a host operator may resume.
EXTENDS RecoveryCleanup
==============================================================================
