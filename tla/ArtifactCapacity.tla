--------------------------- MODULE ArtifactCapacity ---------------------------
(***************************************************************************)
(* Allocation of staging space for private bytes.  Physical capacity is    *)
(* read before the transaction; the transaction, serialized by the rows of *)
(* the Project and of the shared queue, charges the installation's byte    *)
(* ledger and creates the reservation, the obligation to clean its attempt *)
(* up, and the queued cleanup job, or nothing at all.  Bytes are written   *)
(* and erased outside the database.                                        *)
(***************************************************************************)
EXTENDS Integers, FiniteSets, Functions

CONSTANTS
    Clients,         \* concurrent calls of allocate
    Reservations,    \* names the caller chooses, and repeats on a retry
    Attempts,
    Obligations,
    BusinessOperations,  \* those that stage bytes
    Unadmitted,      \* the origin of a source staged before any operation
    ByteLimits,      \* byte limits a caller may ask for
    FullAllowance,   \* what unadmitted staging must ask for: 25 MiB
    OperationLimit,  \* 256 MiB
    SpoolLimit,      \* 2 GiB
    ProtectedLimit,  \* 100 GiB
    Usable,          \* usable bytes of the disk
    Foreign,         \* what others occupy of it at the start
    Backups,         \* values a reading may give for space reserved for backups
    QueueCapacity    \* at most 8 queued or running jobs

Origins == BusinessOperations \cup {Unadmitted}

ASSUME CapacityAssumption ==
    /\ IsFiniteSet(Reservations) /\ IsFiniteSet(Obligations)
    /\ "none" \notin Attempts
    /\ Unadmitted \notin BusinessOperations
    /\ ByteLimits \subseteq Nat \ {0}
    /\ Backups \subseteq Nat
    /\ FullAllowance \in ByteLimits
    /\ {OperationLimit, SpoolLimit, ProtectedLimit, QueueCapacity} \subseteq Nat
    /\ Usable \in Nat \ {0} /\ Foreign \in 0 .. Usable
    /\ \A l \in ByteLimits : l <= OperationLimit

VARIABLES
    ledger,      \* artifact_storage_capacity
    staging,     \* artifact_staging_reservations, with their attempts
    obligation,  \* artifact_cleanup_obligations, with their targets
    job,         \* status of the obligation's cleanup job
    active,      \* the Project accepts new bytes
    reading,     \* what a call has read and not yet used
    copies,      \* copies of an attempt's bytes on the disk: spool and store
    foreign      \* bytes of others on the disk

allocationVars == <<ledger, staging, obligation, job, active, reading, copies, foreign>>

Ledger == [spool : Nat, protected : Nat, occupied : Nat]
Reservation == [attempt : Attempts, limit : ByteLimits]
NoReservation == [attempt |-> "none", limit |-> 0]
Obligation == [target : Attempts, origin : Origins]
NoObligation == [target |-> "none", origin |-> "none"]
Reading == [free : 0 .. Usable, backup : Backups]
NoReading == [free |-> 0, backup |-> -1]

Reserved == {s \in Reservations : staging[s] # NoReservation}
Staged == {staging[s].attempt : s \in Reserved}
\* Product jobs compete for the same places; a smaller QueueCapacity stands for
\* them.
Backlog == {o \in Obligations : job[o] = "live"}

\* The space an attempt is allowed, in either copy.
Sizes == [s \in Reservations |-> staging[s].limit]
LimitOf(a) == SumFunctionOnSet(Sizes, {s \in Reserved : staging[s].attempt = a})
OnDisk == SumFunctionOnSet([a \in Attempts |-> copies[a] * LimitOf(a)], Staged)

AllocationInit ==
    /\ ledger = [spool |-> 0, protected |-> 0, occupied |-> 0]
    /\ staging = [s \in Reservations |-> NoReservation]
    /\ obligation = [o \in Obligations |-> NoObligation]
    /\ job = [o \in Obligations |-> "absent"]
    /\ active = TRUE
    /\ reading = [c \in Clients |-> NoReading]
    /\ copies = [a \in Attempts |-> 0]
    /\ foreign = Foreign

-----------------------------------------------------------------------------
(* A call of ArtifactAllocationService.allocate.                           *)

\* The capacity is read before the transaction begins: what others and the
\* bytes written so far leave free.
ReadCapacity(c) ==
    /\ reading[c] = NoReading
    /\ \E free \in 0 .. Usable - foreign, b \in Backups :
           /\ free + OnDisk = Usable - foreign
           /\ reading' = [reading EXCEPT ![c] = [free |-> free, backup |-> b]]
    /\ UNCHANGED <<ledger, staging, obligation, job, active, copies, foreign>>

\* Mutant: the reading is trusted to show every byte that was reserved.
UnchargedMutant(seen, limit) ==
    LET projected == ledger.protected + 2 * limit
        backup == IF seen.backup > projected THEN seen.backup ELSE projected
    IN  seen.free - 2 * limit - backup

\* Free bytes once all that is reserved is written, and a backup made of it.
ProjectedFree(seen, limit) ==
    LET projected == ledger.protected + 2 * limit
        backup == IF seen.backup > projected THEN seen.backup ELSE projected
    IN  seen.free - (ledger.protected - ledger.occupied) - 2 * limit - backup

\* Mutant: the spool's ceiling is checked before the new bytes are added.
LateCeilingMutant(seen, limit) ==
    /\ ledger.spool <= SpoolLimit
    /\ ledger.protected + 2 * limit <= ProtectedLimit
    /\ ProjectedFree(seen, limit) * 5 >= Usable

Fits(seen, limit) ==
    /\ ledger.spool + limit <= SpoolLimit
    /\ ledger.protected + 2 * limit <= ProtectedLimit
    /\ ProjectedFree(seen, limit) * 5 >= Usable

\* A retry names the original reservation with its original meaning.
Repeats(s, a, limit) == staging[s] = [attempt |-> a, limit |-> limit]

NewReservation(seen, s, a, limit) ==
    /\ staging[s] = NoReservation
    /\ a \notin Staged
    /\ active
    /\ Fits(seen, limit)

\* What an operation has staged already.
OriginalBytes(op) ==
    SumFunctionOnSet([o \in Obligations |-> LimitOf(obligation[o].target)],
                     {o \in Obligations : obligation[o].origin = op})

\* Mutant: an allocation may be given a second obligation.
SharedMutant(o, a, origin, limit) ==
    /\ obligation[o] = NoObligation
    /\ origin \in BusinessOperations => OriginalBytes(origin) + limit <= OperationLimit

\* Mutant: the new bytes alone are held against the operation's allowance.
AloneMutant(o, a, origin, limit) ==
    /\ obligation[o] = NoObligation
    /\ \A other \in Obligations : obligation[other].target # a
    /\ origin \in BusinessOperations => limit <= OperationLimit

NewObligation(o, a, origin, limit) ==
    /\ obligation[o] = NoObligation
    /\ \A other \in Obligations : obligation[other].target # a
    /\ origin \in BusinessOperations => OriginalBytes(origin) + limit <= OperationLimit

SameObligation(o, a, origin) == obligation[o] = [target |-> a, origin |-> origin]

Permitted(seen, s, a, o, origin, limit) ==
    /\ origin = Unadmitted => limit = FullAllowance
    /\ Repeats(s, a, limit) \/ NewReservation(seen, s, a, limit)
    /\ SameObligation(o, a, origin) \/ NewObligation(o, a, origin, limit)
    /\ job[o] # "absent" \/ Cardinality(Backlog) < QueueCapacity

\* Nothing ever gives bytes back, and nothing counts them as occupied.
Charged(s, limit) ==
    IF s \in Reserved THEN ledger
    ELSE [ledger EXCEPT !.spool = @ + limit, !.protected = @ + 2 * limit]

Allocate(c, s, a, o, origin, limit) ==
    /\ reading[c] # NoReading
    /\ Permitted(reading[c], s, a, o, origin, limit)
    /\ ledger' = Charged(s, limit)
    /\ staging' = [staging EXCEPT ![s] = [attempt |-> a, limit |-> limit]]
    /\ obligation' = [obligation EXCEPT ![o] = [target |-> a, origin |-> origin]]
    /\ job' = [job EXCEPT ![o] = IF @ = "absent" THEN "live" ELSE @]
    /\ reading' = [reading EXCEPT ![c] = NoReading]
    /\ UNCHANGED <<active, copies, foreign>>

\* The transaction is rolled back, whichever of its parts was refused.
Reject(c, s, a, o, origin, limit) ==
    /\ reading[c] # NoReading
    /\ ~Permitted(reading[c], s, a, o, origin, limit)
    /\ reading' = [reading EXCEPT ![c] = NoReading]
    /\ UNCHANGED <<ledger, staging, obligation, job, active, copies, foreign>>

-----------------------------------------------------------------------------
(* The disk, the queue's workers and the Project.                          *)

\* An attempt is staged in the spool or put in the store, to its limit.
Write(a) ==
    /\ a \in Staged
    /\ copies[a] < 2
    /\ copies' = [copies EXCEPT ![a] = @ + 1]
    /\ UNCHANGED <<ledger, staging, obligation, job, active, reading, foreign>>

Erase(a) ==
    /\ copies[a] > 0
    /\ copies' = [copies EXCEPT ![a] = @ - 1]
    /\ UNCHANGED <<ledger, staging, obligation, job, active, reading, foreign>>

EndJob(o) ==
    /\ job[o] = "live"
    /\ job' = [job EXCEPT ![o] = "ended"]
    /\ UNCHANGED <<ledger, staging, obligation, active, reading, copies, foreign>>

Deactivate ==
    /\ active
    /\ active' = FALSE
    /\ UNCHANGED <<ledger, staging, obligation, job, reading, copies, foreign>>

\* Others may free space of theirs.  Were they to take more, no reading could
\* promise anything.
Shrink ==
    /\ foreign' \in 0 .. foreign - 1
    /\ UNCHANGED <<ledger, staging, obligation, job, active, reading, copies>>

AllocationNext ==
    \/ \E c \in Clients : ReadCapacity(c)
    \/ \E c \in Clients, s \in Reservations, a \in Attempts, o \in Obligations,
          origin \in Origins, limit \in ByteLimits :
           \/ Allocate(c, s, a, o, origin, limit)
           \/ Reject(c, s, a, o, origin, limit)
    \/ \E a \in Attempts : Write(a) \/ Erase(a)
    \/ \E o \in Obligations : EndJob(o)
    \/ Deactivate
    \/ Shrink

AllocationSpec == AllocationInit /\ [][AllocationNext]_allocationVars

-----------------------------------------------------------------------------
(* Properties.                                                             *)

\* Every table holds rows of its kind, and the ledger only counts reservations.
AllocationTypeOK ==
    /\ ledger \in Ledger
    /\ staging \in [Reservations -> Reservation \cup {NoReservation}]
    /\ obligation \in [Obligations -> Obligation \cup {NoObligation}]
    /\ job \in [Obligations -> {"absent", "live", "ended"}]
    /\ active \in BOOLEAN
    /\ reading \in [Clients -> Reading \cup {NoReading}]
    /\ copies \in [Attempts -> 0 .. 2]
    /\ foreign \in 0 .. Usable

\* Once bytes are reserved, a fifth of the disk stays free even when every
\* reserved byte is written and a full backup made of them, although the
\* capacity was read before other calls reserved and wrote theirs
\* (PostgresArtifactAttemptRepository.reserve).
FloorKept ==
    Reserved # {} => (Usable - foreign - 2 * ledger.protected) * 5 >= Usable

\* The ledger stays within its ceilings and charges exactly what is reserved,
\* so that the bytes on the disk never exceed what it protects.
LedgerCoversBytes ==
    /\ ledger.spool = SumFunctionOnSet(Sizes, Reserved)
    /\ ledger.spool <= SpoolLimit
    /\ ledger.protected <= ProtectedLimit
    /\ OnDisk <= ledger.protected

\* Every reserved attempt, and so every byte written, has exactly one obligation
\* to clean it up, whose job was admitted with it; an obligation has its
\* reservation (ArtifactAllocationService.allocate).
BytesAreOwned ==
    /\ \A s \in Reserved : \E o \in Obligations :
           /\ obligation[o].target = staging[s].attempt
           /\ job[o] # "absent"
    /\ \A o, other \in Obligations :
           obligation[o] # NoObligation /\ obligation[o].target = obligation[other].target
               => o = other
    /\ \A o \in Obligations : obligation[o] # NoObligation => obligation[o].target \in Staged
    /\ \A a \in Attempts : copies[a] > 0 => a \in Staged

\* The reservations of one operation stay within its allowance, however many
\* calls staged them (create_staging).
OperationWithinAllowance ==
    \A op \in BusinessOperations : OriginalBytes(op) <= OperationLimit

\* A reservation and its obligation never change, and the ledger moves only
\* with a new reservation, by that reservation's bytes: retries are free.
AllocationsAreFinal ==
    [][/\ \A s \in Reserved : staging'[s] = staging[s]
       /\ \A o \in Obligations : obligation[o] # NoObligation => obligation'[o] = obligation[o]
       /\ ledger' # ledger =>
              \E s \in Reservations \ Reserved :
                  /\ staging' = [staging EXCEPT ![s] = staging'[s]]
                  /\ ledger'.spool = ledger.spool + staging'[s].limit
                  /\ ledger'.protected = ledger.protected + 2 * staging'[s].limit]_allocationVars
===============================================================================
