--------------------------- MODULE TargetRegistry ---------------------------
(***************************************************************************)
(* The command line client's registry of targets: `target add` and         *)
(* `target use` of several processes on one file, whose writers exclude    *)
(* one another by a kernel lock and publish by an atomic replacement.      *)
(*                                                                         *)
(* `file` is the registry as processes see it, `disk` what a loss of power *)
(* leaves of it: a replacement reaches the disk when the directory is      *)
(* synchronized, or at any moment before.  Signals set a flag that the     *)
(* call looks at in a few places only; a second interrupt, and any other   *)
(* way to die, ends the process between any two steps.                     *)
(***************************************************************************)
EXTENDS Naturals

CONSTANTS
    Calls,      \* invocations of the client that change the registry
    Labels,     \* names for targets
    Bindings,   \* installation, API, issuer and transport of a target
    Nobody,     \* the lock is free
    None        \* no binding, no selection

ASSUME RegistryAssumption == Nobody \notin Calls /\ None \notin Labels \cup Bindings

VARIABLES
    file,       \* the registry that is read
    disk,       \* the registry that survives a loss of power
    lock,       \* who holds targets.lock
    call

registryVars == <<file, disk, lock, call>>

\* `writes` counts the publications a registry contains; the code has no such field.
Registry == [targets: [Labels -> Bindings \cup {None}], selected: Labels \cup {None}, writes: Nat]
EmptyRegistry == [targets |-> [l \in Labels |-> None], selected |-> None, writes |-> 0]

Inside == {"locked", "loaded", "writing", "replaced"}
Underway == {"discovering", "waiting"} \cup Inside
Answers == {"saved", "unchanged", "unconfirmed", "refused", "failed", "busy", "interrupted"}

CallRow ==
    [stage: Underway \cup {"idle", "ended"}, op: {"add", "use"}, label: Labels \cup {None},
     binding: Bindings \cup {None}, stop: BOOLEAN, seen: Registry, wrote: Nat,
     answer: Answers \cup {"none"}]
IdleCall ==
    [stage |-> "idle", op |-> "use", label |-> None, binding |-> None, stop |-> FALSE,
     seen |-> EmptyRegistry, wrote |-> 0, answer |-> "none"]

RegistryTypeOK ==
    /\ file \in Registry /\ disk \in Registry
    /\ lock \in Calls \cup {Nobody}
    /\ call \in [Calls -> CallRow]
    /\ \A c \in Calls : call[c].stage \in Inside <=> lock = c

RegistryInit ==
    /\ file = EmptyRegistry
    /\ disk = EmptyRegistry
    /\ lock = Nobody
    /\ call = [c \in Calls |-> IdleCall]

-----------------------------------------------------------------------------
(* What an update makes of the registry it loaded.                         *)

\* The requested entry is bound otherwise, or the target to select is unknown.
Refused(c) ==
    LET bound == call[c].seen.targets[call[c].label]
    IN  IF call[c].op = "add" THEN bound \notin {None, call[c].binding} ELSE bound = None

Unchanged(c) ==
    IF call[c].op = "add" THEN call[c].seen.targets[call[c].label] = call[c].binding
    ELSE call[c].seen.selected = call[c].label

Updated(c) ==
    IF call[c].op = "add"
    THEN [call[c].seen EXCEPT !.targets[call[c].label] = call[c].binding, !.writes = @ + 1]
    ELSE [call[c].seen EXCEPT !.selected = call[c].label, !.writes = @ + 1]

-----------------------------------------------------------------------------
(* The steps of a call.                                                    *)

\* Mutant: an interruption hides what the call has done.
HidingMutant(c, answer) == IF call[c].stop THEN "interrupted" ELSE answer

\* Report.observe_stop: a signal noticed after the operation changes the status
\* of the process, and keeps what is known of the change.
Reported(c, answer) == answer

\* The process is gone, and what it had loaded with it.
Forgotten(c) == [call[c] EXCEPT !.stage = "ended", !.seen = EmptyRegistry]

\* The call returns: what it held is released with it.
Ends(c, answer) ==
    /\ call' = [call EXCEPT ![c] = [Forgotten(c) EXCEPT !.answer = Reported(c, answer)]]
    /\ lock' = IF lock = c THEN Nobody ELSE lock

\* `use` goes straight to the update, `add` discovers the installation first.
Start(c, op, label) ==
    /\ call[c].stage = "idle"
    /\ call' = [call EXCEPT ![c].stage = IF op = "add" THEN "discovering" ELSE "waiting",
                            ![c].op = op, ![c].label = label]
    /\ UNCHANGED <<file, disk, lock>>

\* The first INT or TERM.
Signal(c) ==
    /\ call[c].stage \in Underway
    /\ ~call[c].stop
    /\ call' = [call EXCEPT ![c].stop = TRUE]
    /\ UNCHANGED <<file, disk, lock>>

\* discover: the installation's own answer is what will be registered.
Discover(c, binding) ==
    /\ call[c].stage = "discovering"
    /\ call' = [call EXCEPT ![c].stage = "waiting", ![c].binding = binding]
    /\ UNCHANGED <<file, disk, lock>>

\* The operation waits, for the network or the lock, and is dropped; or it is
\* about to publish and looks at the flag.
Interrupt(c) ==
    /\ call[c].stop
    /\ \/ call[c].stage \in {"discovering", "waiting"}
       \/ call[c].stage = "loaded" /\ ~Refused(c)
    /\ Ends(c, "interrupted")
    /\ UNCHANGED <<file, disk>>

\* Discovery fails, a file cannot be opened, read, or written beside the registry.
Fail(c) ==
    /\ call[c].stage \in {"discovering", "waiting", "locked", "writing"}
    /\ Ends(c, "failed")
    /\ UNCHANGED <<file, disk>>

\* Mutant: the presence of another writer is not looked at.
Unlocked(c) == call[c].stage = "waiting" /\ ~call[c].stop

\* try_lock succeeds.
LockIsFree(c) == call[c].stage = "waiting" /\ ~call[c].stop /\ lock = Nobody

Acquire(c) ==
    /\ LockIsFree(c)
    /\ lock' = c
    /\ call' = [call EXCEPT ![c].stage = "locked"]
    /\ UNCHANGED <<file, disk>>

\* Two seconds have passed.
GiveUp(c) ==
    /\ call[c].stage = "waiting" /\ ~call[c].stop
    /\ lock # Nobody
    /\ Ends(c, "busy")
    /\ UNCHANGED <<file, disk>>

\* load, under the lock.
Load(c) ==
    /\ call[c].stage = "locked"
    /\ call' = [call EXCEPT ![c].stage = "loaded", ![c].seen = file]
    /\ UNCHANGED <<file, disk, lock>>

Refuse(c) ==
    /\ call[c].stage = "loaded" /\ Refused(c)
    /\ Ends(c, "refused")
    /\ UNCHANGED <<file, disk>>

\* Nothing is written, nor anything made durable.
Keep(c) ==
    /\ call[c].stage = "loaded" /\ ~Refused(c) /\ ~call[c].stop /\ Unchanged(c)
    /\ Ends(c, "unchanged")
    /\ UNCHANGED <<file, disk>>

\* publish begins: no await follows, so a first signal no longer stops the call.
Write(c) ==
    /\ call[c].stage = "loaded" /\ ~Refused(c) /\ ~call[c].stop /\ ~Unchanged(c)
    /\ call' = [call EXCEPT ![c].stage = "writing"]
    /\ UNCHANGED <<file, disk, lock>>

\* persist: the synchronized temporary file takes the registry's name.
Replace(c) ==
    /\ call[c].stage = "writing"
    /\ file' = Updated(c)
    /\ call' = [call EXCEPT ![c].stage = "replaced", ![c].wrote = file'.writes]
    /\ UNCHANGED <<disk, lock>>

\* persist reports an error.
ReplaceFails(c) ==
    /\ call[c].stage = "writing"
    /\ Ends(c, "unconfirmed")
    /\ UNCHANGED <<file, disk>>

\* sync_parent succeeds.
Sync(c) ==
    /\ call[c].stage = "replaced"
    /\ disk' = file
    /\ Ends(c, "saved")
    /\ UNCHANGED file

\* Mutant: the answer does not wait for the directory.
Presumed == "saved"

\* What a call answers whose directory could not be synchronized.
AfterLostSync == "unconfirmed"

SyncFails(c) ==
    /\ call[c].stage = "replaced"
    /\ Ends(c, AfterLostSync)
    /\ UNCHANGED <<file, disk>>

-----------------------------------------------------------------------------
(* The machine.                                                            *)

\* The file system writes the directory back by itself.
WriteBack ==
    /\ disk # file
    /\ disk' = file
    /\ UNCHANGED <<file, lock, call>>

\* A second INT, a signal while the result is printed, or SIGKILL; the kernel
\* releases the lock.
Kill(c) ==
    /\ call[c].stage \in Underway
    /\ call' = [call EXCEPT ![c] = Forgotten(c)]
    /\ lock' = IF lock = c THEN Nobody ELSE lock
    /\ UNCHANGED <<file, disk>>

PowerLoss ==
    /\ file' = disk
    /\ lock' = Nobody
    /\ call' = [c \in Calls |->
                  IF call[c].stage \in Underway THEN Forgotten(c) ELSE call[c]]
    /\ UNCHANGED disk

RegistryNext ==
    \/ \E c \in Calls :
          \/ \E op \in {"add", "use"}, label \in Labels : Start(c, op, label)
          \/ \E binding \in Bindings : Discover(c, binding)
          \/ Signal(c) \/ Interrupt(c) \/ Fail(c) \/ Kill(c)
          \/ Acquire(c) \/ GiveUp(c) \/ Load(c) \/ Refuse(c) \/ Keep(c) \/ Write(c)
          \/ Replace(c) \/ ReplaceFails(c) \/ Sync(c) \/ SyncFails(c)
    \/ WriteBack
    \/ PowerLoss

RegistrySpec == RegistryInit /\ [][RegistryNext]_registryVars

-----------------------------------------------------------------------------
(* Properties.                                                             *)

\* A change answered as saved is there for good, whoever writes at the same time
\* and whenever power is lost: the registration in both registries, and for a
\* preference, which others may replace, its publication (publish, update).
SavedSurvives ==
    \A c \in Calls :
       call[c].answer = "saved" =>
          /\ call[c].wrote \in 1 .. disk.writes
          /\ call[c].op = "add" =>
                \A registry \in {file, disk} :
                   registry.targets[call[c].label] = call[c].binding

\* A call that ends with any other answer than "saved" or "unconfirmed" has
\* published nothing, however it was refused, interrupted or made to wait
\* (TargetError, Report).
NoSilentChange ==
    \A c \in Calls :
       call[c].answer \notin {"none", "saved", "unconfirmed"} => call[c].wrote = 0

\* A publication adds one target under a label that had none, or moves the
\* preference to a registered target, and leaves everything else as it is; the
\* preference it reports as replaced is the one it replaces (update, Refused).
OthersAreKept ==
    [][file'.writes > file.writes =>
         /\ \/ /\ file'.selected = file.selected
               /\ \E l \in Labels :
                     /\ file.targets[l] = None
                     /\ \A k \in Labels \ {l} : file'.targets[k] = file.targets[k]
            \/ /\ file'.targets = file.targets
               /\ file.targets[file'.selected] # None
         /\ \E c \in Calls :
               /\ call[c].stage = "writing" /\ call'[c].stage = "replaced"
               /\ call[c].seen.selected = file.selected]_registryVars
=============================================================================
