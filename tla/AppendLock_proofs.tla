-------------------------- MODULE AppendLock_proofs --------------------------
(***************************************************************************)
(* The lock file excludes, for any number of callers, processes and        *)
(* callers that reclaim, in the deployments Orderly describes: all that    *)
(* can break it is two reclaims that overlap.  The theorems are about the  *)
(* behaviours in which none do, []OneReclaimAtATime.                       *)
(***************************************************************************)
EXTENDS AppendLock, TLAPS

USE DEF Goto, KeepLock, DropLock, PutLock, States

\* At the start there is no lock file and no call, so nothing is in danger.
LEMMA LockInit == Init => LockInv
<1> SUFFICES ASSUME Init PROVE LockInv
  OBVIOUS
<1> USE AppendLockAssumption DEF AppendLockAssumption, Init
<1>1. TypeOK
  <2>1. pc \in [Callers -> States]
    OBVIOUS
  <2>2. calls \in 0 .. MaxCalls
    OBVIOUS
  <2>3. QED
    BY <2>1, <2>2 DEF TypeOK
<1>2. OwnersKeepTheirFile /\ HeldIsWritten /\ CondemnedIsDead
  BY DEF OwnersKeepTheirFile, HeldIsWritten, CondemnedIsDead
<1>3. AgedIsComplete /\ DeadAreDead
  BY DEF AgedIsComplete, DeadAreDead
<1>4. QED
  BY <1>1, <1>2, <1>3 DEF LockInv

\* The types of the variables are kept by every step.
LEMMA TypeStep == TypeOK /\ [Next]_vars => TypeOK'
<1> SUFFICES ASSUME TypeOK, [Next]_vars PROVE TypeOK'
  OBVIOUS
<1> USE AppendLockAssumption DEF AppendLockAssumption, TypeOK
<1>1. ASSUME NEW c \in Callers, Start(c) PROVE TypeOK'
  BY <1>1 DEF Start
<1>7. ASSUME NEW c \in Callers, OpenNew(c) \/ OpenExists(c) \/ WriteLock(c) PROVE TypeOK'
  BY <1>7 DEF OpenNew, OpenExists, WriteLock
<1>8. ASSUME NEW c \in Callers, Inspect(c) \/ Rename(c) \/ Retry(c) PROVE TypeOK'
  BY <1>8 DEF Inspect, Rename, Retry
<1>9. ASSUME NEW c \in Callers, TimeOut(c) \/ EndBody(c) \/ CheckToken(c) \/ Unlink(c)
      PROVE  TypeOK'
  BY <1>9 DEF TimeOut, EndBody, CheckToken, Unlink
<1>2. ASSUME NEW c \in Callers, WriteFails(c) \/ ReclaimFails(c) \/ Deadline(c)
      PROVE  TypeOK'
  BY <1>2 DEF WriteFails, ReclaimFails, Deadline
<1>3. ASSUME NEW p \in Procs, Crash(p) PROVE TypeOK'
  BY <1>3 DEF Crash
<1>4. CASE Age
  BY <1>4 DEF Age
<1>5. CASE UNCHANGED vars
  BY <1>5 DEF vars
<1>6. QED
  BY <1>1, <1>2, <1>3, <1>4, <1>5, <1>7, <1>8, <1>9 DEF Next, Step

\* While the deployment is orderly every step from a state in which at most one caller
\* is reclaiming keeps the lock's invariant.
LEMMA LockStep ==
    ASSUME Orderly
    PROVE  LockInv /\ OneReclaimAtATime /\ [Next]_vars => LockInv'
<1> SUFFICES ASSUME LockInv, OneReclaimAtATime, [Next]_vars PROVE LockInv'
  OBVIOUS
<1>0. TypeOK /\ TypeOK'
  BY TypeStep DEF LockInv
<1> USE <1>0, AppendLockAssumption
    DEF AppendLockAssumption, LockInv, TypeOK, OwnersKeepTheirFile,
        HeldIsWritten, CondemnedIsDead, AgedIsComplete, DeadAreDead
<1>1. ASSUME NEW c \in Callers, Start(c) PROVE LockInv'
  BY <1>1 DEF Start
<1>2. ASSUME NEW c \in Callers, OpenNew(c) PROVE LockInv'
  BY <1>2 DEF OpenNew
<1>3. ASSUME NEW c \in Callers, OpenExists(c) PROVE LockInv'
  BY <1>3 DEF OpenExists
<1>4. ASSUME NEW c \in Callers, WriteLock(c) PROVE LockInv'
  BY <1>4 DEF WriteLock
<1>5. ASSUME NEW c \in Callers, WriteFails(c) PROVE LockInv'
  BY <1>5 DEF WriteFails
\* The condemned lock is old; complete, its owner was seen to be gone; incomplete,
\* it was left by a process that died writing it.
<1>6. ASSUME NEW c \in Callers, Inspect(c) PROVE LockInv'
  <2>1. CASE lockFile = NoOne
    BY <1>6, <2>1 DEF Inspect
  <2>2. CASE lockFile # NoOne /\ aged /\ c \in Reclaimers /\ ~OwnerKnownAlive(c)
    <3>1. lockFile \in Callers /\ ProcOf[lockFile] \notin alive
      BY <2>2 DEF OwnerKnownAlive, Orderly
    <3>2. QED
      BY <1>6, <2>2, <3>1 DEF Inspect
  <2>3. CASE lockFile # NoOne /\ ~(aged /\ c \in Reclaimers /\ ~OwnerKnownAlive(c))
    BY <1>6, <2>3 DEF Inspect
  <2>4. QED
    BY <2>1, <2>2, <2>3
\* The file renamed away belongs to no live caller, and nobody else condemned it.
<1>7. ASSUME NEW c \in Callers, Rename(c) PROVE LockInv'
  <2>1. \A d \in Callers : pc[d] = "rename" => d = c
    BY <1>7 DEF Rename, OneReclaimAtATime
  <2>2. \A d \in Callers : pc[d] \notin {"write", "held", "closing", "unlink"}
    BY <1>7 DEF Rename
  <2>3. QED
    BY <1>7, <2>1, <2>2 DEF Rename
<1>8. ASSUME NEW c \in Callers, Retry(c) \/ TimeOut(c) \/ Deadline(c) \/ ReclaimFails(c)
      PROVE  LockInv'
  BY <1>8 DEF Retry, TimeOut, Deadline, ReclaimFails
<1>9. ASSUME NEW c \in Callers, EndBody(c) PROVE LockInv'
  BY <1>9 DEF EndBody
<1>10. ASSUME NEW c \in Callers, CheckToken(c) PROVE LockInv'
  BY <1>10 DEF CheckToken
<1>11. ASSUME NEW c \in Callers, Unlink(c) PROVE LockInv'
  BY <1>11 DEF Unlink
<1>12. ASSUME NEW p \in Procs, Crash(p) PROVE LockInv'
  BY <1>12 DEF Crash
<1>13. CASE Age
  BY <1>13 DEF Age, Orderly
<1>14. CASE UNCHANGED vars
  BY <1>14 DEF vars
<1>15. QED
  BY <1>1, <1>2, <1>3, <1>4, <1>5, <1>6, <1>7, <1>8, <1>9, <1>10, <1>11, <1>12,
     <1>13, <1>14 DEF Next, Step

\* Nothing but its owner removes a live owner's lock file, as long as no two reclaims
\* overlap, however many callers may reclaim (withAppendLock, reclaimStaleLock).
THEOREM LockInvariant ==
    ASSUME Orderly
    PROVE  Spec /\ []OneReclaimAtATime => []LockInv
<1>1. Init => LockInv
  BY LockInit
<1>2. LockInv /\ OneReclaimAtATime /\ [Next]_vars => LockInv'
  BY LockStep
<1>3. QED
  BY <1>1, <1>2, PTL DEF Spec

\* Two bodies run side by side only after two reclaims have overlapped: both callers would
\* own the one lock file (withAppendLock).
THEOREM Exclusion ==
    ASSUME Orderly
    PROVE  Spec /\ []OneReclaimAtATime => []MutualExclusion
<1>1. LockInv => MutualExclusion
  BY DEF LockInv, OwnersKeepTheirFile, MutualExclusion, Inside
<1>2. QED
  BY <1>1, LockInvariant, PTL

\* A lock file is reclaimed only from a process that is gone, as long as no two reclaims
\* overlap: what the test of the lock file found still holds at the rename
\* (reclaimStaleLock).
THEOREM ReclaimSound ==
    ASSUME Orderly
    PROVE  Spec /\ []OneReclaimAtATime => ReclaimsOnlyTheDead
<1>1. LockInv /\ [Next]_vars =>
        [\A c \in Callers : pc[c] = "rename" /\ pc'[c] = "open" /\ lockFile # NoOne
            => ProcOf[lockFile] \notin alive]_vars
  BY DEF LockInv, CondemnedIsDead
<1>2. QED
  BY <1>1, LockInvariant, PTL DEF Spec, ReclaimsOnlyTheDead

\* The lock file protocol implements the abstract lock in every behaviour in which no two
\* reclaims overlap (withAppendLock).
THEOREM ImplementsMutex ==
    ASSUME Orderly
    PROVE  Spec /\ []OneReclaimAtATime => MutexSpec
<1>1. Init => Lock!Init
  BY DEF Init, Lock!Init, Inside
<1>2. LockInv /\ [Next]_vars => [Lock!Next]_Inside
  <2> SUFFICES ASSUME LockInv, [Next]_vars PROVE Lock!Next \/ Inside' = Inside
    OBVIOUS
  <2> USE DEF LockInv, TypeOK, OwnersKeepTheirFile, Inside
  <2>1. ASSUME NEW c \in Callers, WriteLock(c) PROVE Lock!Next
    <3>1. Inside = {}
      BY <2>1 DEF WriteLock
    <3>2. Inside' = {c}
      BY <2>1, <3>1 DEF WriteLock
    <3>3. QED
      BY <3>1, <3>2 DEF Lock!Next, Lock!Enter
  <2>2. ASSUME NEW c \in Callers, EndBody(c) PROVE Lock!Next
    <3>1. c \in Inside /\ Inside' = Inside \ {c}
      BY <2>2 DEF EndBody
    <3>2. QED
      BY <3>1 DEF Lock!Next, Lock!Leave
  \* At most one of a dying process's callers was inside.
  <2>3. ASSUME NEW p \in Procs, Crash(p) PROVE Lock!Next \/ Inside' = Inside
    <3>1. CASE \E c \in Inside : ProcOf[c] = p
      <4>1. PICK c \in Inside : ProcOf[c] = p
        BY <3>1
      <4>2. Inside = {c}
        BY <4>1
      <4>3. Inside' = {}
        BY <2>3, <4>1, <4>2 DEF Crash
      <4>4. QED
        BY <4>1, <4>2, <4>3 DEF Lock!Next, Lock!Leave
    <3>2. CASE \A c \in Inside : ProcOf[c] # p
      BY <2>3, <3>2 DEF Crash
    <3>3. QED
      BY <3>1, <3>2
  <2>4. ASSUME NEW c \in Callers,
               \/ Start(c) \/ WriteFails(c) \/ ReclaimFails(c) \/ Deadline(c)
               \/ OpenNew(c) \/ OpenExists(c) \/ Inspect(c) \/ Rename(c)
               \/ Retry(c) \/ TimeOut(c) \/ CheckToken(c) \/ Unlink(c)
        PROVE  Inside' = Inside
    BY <2>4 DEF Start, WriteFails, ReclaimFails, Deadline, OpenNew, OpenExists, Inspect, Rename,
       Retry, TimeOut, CheckToken, Unlink
  <2>5. CASE Age \/ UNCHANGED vars
    BY <2>5 DEF Age, vars
  <2>6. QED
    BY <2>1, <2>2, <2>3, <2>4, <2>5 DEF Next, Step
<1>3. QED
  BY <1>1, <1>2, LockInvariant, PTL DEF Spec, MutexSpec, Lock!Spec
=============================================================================
