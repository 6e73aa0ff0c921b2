------------------------------ MODULE AppendLock ------------------------------
(***************************************************************************)
(* The cross-process lock file of packages/openlogs/src/writer.ts:         *)
(* withAppendLock and reclaimStaleLock, one action per file-system call.   *)
(*                                                                         *)
(* A caller is one use of the lock: an append at the head of its process's *)
(* queue, a verify or an assertReady.  Several callers may belong to one   *)
(* process.  A caller has a fresh random token per use; as it never owns   *)
(* two lock files at once the token is represented by the caller.          *)
(*                                                                         *)
(* Simplifications: the readFile, stat, age test and kill(pid, 0) of       *)
(* reclaimStaleLock are one step (the rename that follows is another), the *)
(* tombstone's unlink is part of the rename, process ids are not reused,   *)
(* and time is two facts: the lock file at the path has reached            *)
(* lockStaleMs (aged), a caller has reached its lockWaitMs (late).         *)
(***************************************************************************)
EXTENDS Integers, FiniteSets

CONSTANTS
    Callers,        \* uses of the lock that compete
    Procs,          \* operating-system processes
    ProcOf,         \* the process of a caller
    HostOf,         \* the machine of a process
    CanCrash,       \* the processes that may die at any point
    Reclaimers,     \* the callers whose lockStaleMs a lock's age can reach
    Patient,        \* the callers whose lockWaitMs never passes
    PromptWrites,   \* TRUE: a live owner fills its lock file within lockStaleMs
    IoFaults,       \* TRUE: writing, reading or renaming the lock file may fail
    MaxCalls,       \* bound: uses of the lock in a behaviour
    NoOne           \* there is no lock file

ASSUME AppendLockAssumption ==
    /\ ProcOf \in [Callers -> Procs]
    /\ CanCrash \subseteq Procs
    /\ Reclaimers \subseteq Callers
    /\ Patient \subseteq Callers
    /\ PromptWrites \in BOOLEAN
    /\ IoFaults \in BOOLEAN
    /\ MaxCalls \in Nat
    /\ NoOne \notin Callers

VARIABLES
    lockFile,   \* whose token the file at ${path}.lock holds, or NoOne
    written,    \* its JSON is in the file
    aged,       \* its age has reached lockStaleMs
    alive,      \* the processes that run
    pc,         \* where each caller is
    late,       \* the callers past their deadline
    calls       \* uses of the lock so far

vars == <<lockFile, written, aged, alive, pc, late, calls>>

States == {"idle", "open", "write", "held", "closing", "unlink",
           "inspect", "rename", "wait", "failed", "dead"}

Init ==
    /\ lockFile = NoOne
    /\ written = FALSE
    /\ aged = FALSE
    /\ alive = Procs
    /\ pc = [c \in Callers |-> "idle"]
    /\ late = {}
    /\ calls = 0

Goto(c, s) == pc' = [pc EXCEPT ![c] = s]

\* A lock file appears at, or disappears from, the path.
PutLock(c) == lockFile' = c /\ written' = FALSE /\ aged' = FALSE
DropLock   == lockFile' = NoOne /\ written' = FALSE /\ aged' = FALSE
KeepLock   == UNCHANGED <<lockFile, written, aged>>

\* A caller enters withAppendLock: new token, new deadline.
Start(c) ==
    /\ pc[c] \in {"idle", "failed"}
    /\ calls < MaxCalls
    /\ calls' = calls + 1
    /\ late' = late \ {c}
    /\ Goto(c, "open")
    /\ KeepLock /\ UNCHANGED alive

\* Mistake: opened with "w", an existing lock is overwritten.
OpenNew_Overwrites(c) ==
    /\ pc[c] = "open"
    /\ PutLock(c)
    /\ Goto(c, "write")
    /\ UNCHANGED <<alive, late, calls>>

\* open(lockPath, "wx") creates the file.
OpenNew(c) ==
    /\ pc[c] = "open"
    /\ lockFile = NoOne
    /\ PutLock(c)
    /\ Goto(c, "write")
    /\ UNCHANGED <<alive, late, calls>>

\* open(lockPath, "wx") fails with EEXIST.
OpenExists(c) ==
    /\ pc[c] = "open"
    /\ lockFile # NoOne
    /\ Goto(c, "inspect")
    /\ KeepLock /\ UNCHANGED <<alive, late, calls>>

\* The owner's JSON reaches the file it opened, wherever that file now is.
WriteLock(c) ==
    /\ pc[c] = "write"
    /\ written' = IF lockFile = c THEN TRUE ELSE written
    /\ Goto(c, "held")
    /\ UNCHANGED <<lockFile, aged, alive, late, calls>>

\* Writing it fails: the path is unlinked and the error goes to the caller.
WriteFails(c) ==
    /\ IoFaults
    /\ pc[c] = "write"
    /\ DropLock
    /\ Goto(c, "failed")
    /\ UNCHANGED <<alive, late, calls>>

\* Mistake: the liveness probe is lost, or never says that a process is gone.
OwnerKnownAlive_Never(c)  == FALSE
OwnerKnownAlive_Always(c) == TRUE

\* reclaimStaleLock's test of the file it read: old, and its owner not known
\* to run on this machine.
OwnerKnownAlive(c) ==
    /\ written
    /\ HostOf[ProcOf[lockFile]] = HostOf[ProcOf[c]]
    /\ ProcOf[lockFile] \in alive

\* Mistake: the age is not compared with lockStaleMs.
Inspect_AnyAge(c) ==
    /\ pc[c] = "inspect"
    /\ \/ lockFile = NoOne /\ Goto(c, "open")
       \/ /\ lockFile # NoOne
          /\ c \in Reclaimers /\ ~OwnerKnownAlive(c)
          /\ Goto(c, "rename")
    /\ KeepLock /\ UNCHANGED <<alive, late, calls>>

Inspect(c) ==
    /\ pc[c] = "inspect"
    /\ \/ lockFile = NoOne /\ Goto(c, "open")
       \/ /\ lockFile # NoOne
          /\ aged /\ c \in Reclaimers /\ ~OwnerKnownAlive(c)
          /\ Goto(c, "rename")
       \/ /\ lockFile # NoOne
          /\ ~(aged /\ c \in Reclaimers /\ ~OwnerKnownAlive(c))
          /\ Goto(c, "wait")
    /\ KeepLock /\ UNCHANGED <<alive, late, calls>>

\* rename(lockPath, tombstone) takes whatever file is at the path by now.
Rename(c) ==
    /\ pc[c] = "rename"
    /\ DropLock
    /\ Goto(c, "open")
    /\ UNCHANGED <<alive, late, calls>>

\* Reading the lock file fails other than by its absence: the error goes to the
\* caller.  Renaming it fails: it counts as held.
ReclaimFails(c) ==
    /\ IoFaults
    /\ \/ pc[c] = "inspect" /\ Goto(c, "failed")
       \/ pc[c] = "rename" /\ Goto(c, "wait")
    /\ KeepLock /\ UNCHANGED <<alive, late, calls>>

\* Mistake: the deadline is not tested before the pause.
Retry_NoDeadline(c) ==
    /\ pc[c] = "wait"
    /\ Goto(c, "open")
    /\ KeepLock /\ UNCHANGED <<alive, late, calls>>

\* The deadline test, then the pause of 25 ms.
Retry(c) ==
    /\ pc[c] = "wait"
    /\ c \notin late
    /\ Goto(c, "open")
    /\ KeepLock /\ UNCHANGED <<alive, late, calls>>

TimeOut(c) ==
    /\ pc[c] = "wait"
    /\ c \in late
    /\ Goto(c, "failed")
    /\ KeepLock /\ UNCHANGED <<alive, late, calls>>

\* The body returns or throws.
EndBody(c) ==
    /\ pc[c] = "held"
    /\ Goto(c, "closing")
    /\ KeepLock /\ UNCHANGED <<alive, late, calls>>

\* The finally block re-reads the file and compares the token ...
CheckToken(c) ==
    /\ pc[c] = "closing"
    /\ \/ lockFile = c /\ Goto(c, "unlink")
       \/ (lockFile # c \/ IoFaults) /\ Goto(c, "idle")
    /\ KeepLock /\ UNCHANGED <<alive, late, calls>>

\* ... and unlinks the path.
Unlink(c) ==
    /\ pc[c] = "unlink"
    /\ DropLock
    /\ Goto(c, "idle")
    /\ UNCHANGED <<alive, late, calls>>

\* A process dies; its lock file stays.
Crash(p) ==
    /\ p \in alive \cap CanCrash
    /\ alive' = alive \ {p}
    /\ pc' = [c \in Callers |-> IF ProcOf[c] = p THEN "dead" ELSE pc[c]]
    /\ KeepLock /\ UNCHANGED <<late, calls>>

\* lockStaleMs passes since the file at the path was created.
Age ==
    /\ lockFile # NoOne
    /\ ~aged
    /\ PromptWrites => (written \/ ProcOf[lockFile] \notin alive)
    /\ aged' = TRUE
    /\ UNCHANGED <<lockFile, written, alive, pc, late, calls>>

\* lockWaitMs passes since the caller entered.
Deadline(c) ==
    /\ pc[c] \in {"open", "inspect", "rename", "wait"}
    /\ c \notin late \cup Patient
    /\ late' = late \cup {c}
    /\ KeepLock /\ UNCHANGED <<alive, pc, calls>>

\* The steps the code itself takes.
Step(c) ==
    \/ OpenNew(c) \/ OpenExists(c) \/ WriteLock(c) \/ Inspect(c) \/ Rename(c)
    \/ Retry(c) \/ TimeOut(c) \/ EndBody(c) \/ CheckToken(c) \/ Unlink(c)

Next ==
    \/ \E c \in Callers : Start(c) \/ Step(c) \/ WriteFails(c) \/ ReclaimFails(c) \/ Deadline(c)
    \/ \E p \in Procs : Crash(p)
    \/ Age

Spec == Init /\ [][Next]_vars

\* A live process runs its pending step, time passes, and the file system does
\* not refuse the same rename for ever.
FairSpec ==
    /\ Spec
    /\ \A c \in Callers : WF_vars(Step(c)) /\ WF_vars(Deadline(c))
    /\ \A c \in Reclaimers : SF_vars(Rename(c))
    /\ WF_vars(Age)

-----------------------------------------------------------------------------
TypeOK ==
    /\ lockFile \in Callers \cup {NoOne}
    /\ written \in BOOLEAN
    /\ aged \in BOOLEAN
    /\ alive \subseteq Procs
    /\ pc \in [Callers -> States]
    /\ late \subseteq Callers
    /\ calls \in 0 .. MaxCalls

\* The deployments the lock is made for: one machine, whose processes can be probed, and
\* lock files that are complete long before they are old.
Orderly ==
    /\ \A p, q \in Procs : HostOf[p] = HostOf[q]
    /\ PromptWrites

\* No two callers are between their test of an old lock file and its rename.
OneReclaimAtATime ==
    \A c, d \in Callers : pc[c] = "rename" /\ pc[d] = "rename" => c = d

Inside == {c \in Callers : pc[c] = "held"}

\* At most one caller runs the body it gave to withAppendLock, in any process:
\* the lock file serializes appends between processes.
MutualExclusion == \A c, d \in Inside : c = d

\* From the creation of its lock file to the unlink, the file at the path is the
\* caller's own.
OwnersKeepTheirFile ==
    \A c \in Callers :
        pc[c] \in {"write", "held", "closing", "unlink"} => lockFile = c

\* Only a caller past the write is known to have a complete lock file.
HeldIsWritten ==
    \A c \in Callers : pc[c] \in {"held", "closing", "unlink"} => written

\* A caller about to rename the lock away still faces the lock it condemned:
\* the one of a process that is gone.
CondemnedIsDead ==
    \A c \in Callers :
        pc[c] = "rename" => /\ c \in Reclaimers
                            /\ lockFile \in Callers
                            /\ ProcOf[lockFile] \notin alive

\* An old lock file without its JSON was left by a process that died writing it.
AgedIsComplete ==
    lockFile # NoOne /\ aged /\ ~written => ProcOf[lockFile] \notin alive

\* A dead process has no caller left, and only a dead process has dead callers.
DeadAreDead ==
    \A c \in Callers : pc[c] = "dead" <=> ProcOf[c] \notin alive

\* What the protocol maintains, and why nobody enters beside a holder: nothing
\* removes a live owner's lock file but its owner.
LockInv ==
    /\ TypeOK
    /\ OwnersKeepTheirFile
    /\ HeldIsWritten
    /\ CondemnedIsDead
    /\ AgedIsComplete
    /\ DeadAreDead

\* Every step of the lock file is a step of the abstract lock, or none of it.
Lock == INSTANCE Mutex WITH inside <- Inside
MutexSpec == Lock!Spec

\* reclaimStaleLock takes away only the lock of a process that is gone.
ReclaimsOnlyTheDead ==
    [][\A c \in Callers :
          pc[c] = "rename" /\ pc'[c] = "open" /\ lockFile # NoOne
             => ProcOf[lockFile] \notin alive]_vars

\* With finitely many calls every call with a deadline leaves withAppendLock: it
\* returned, it timed out or its process died.  No chain of reclaims and retries
\* keeps it.
EveryCallSettles ==
    \A c \in Callers \ Patient :
        pc[c] = "open" ~> pc[c] \in {"idle", "failed", "dead"}

\* The lock of a dead process does not block the log for good: while a caller
\* that can reclaim it waits, and can read it, it goes.
DeadLockReclaimed ==
    \A d \in Callers, r \in Reclaimers \cap Patient :
        (lockFile = d /\ pc[d] = "dead" /\ pc[r] = "wait")
            ~> (lockFile # d \/ pc[r] \in {"dead", "failed"})
=============================================================================
