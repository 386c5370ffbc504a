--------------------------- MODULE FileLockProofs ---------------------------
(***************************************************************************)
(* Mutual exclusion of FileLock, for any number of processes and deaths,   *)
(* until a live process's sentinel has been moved away: one process at a   *)
(* time is recovering, the lock it has read as stale stays where it is     *)
(* until it is renamed, and a live owner's file is never touched.          *)
(***************************************************************************)
EXTENDS FileLock, TLAPS

\* p owns the sentinel, or is about to give it up.
InRecovery(p) ==
  \/ at[p] \in {"create", "recreate", "leave", "unseize"}
  \/ at[p] \in {"observe", "recheck", "rename"} /\ arg[p] = Main

\* The dead do nothing, and own nothing but what they have left behind.
TheDeadRest == \A p \in dead : at[p] = "idle" /\ p \notin holds

\* recoverStaleLock works on the main lock inside the sentinel only, and what it
\* has read of the main lock was its dead owner.
RecoveryIsSound ==
  \A p \in Proc :
    /\ at[p] \in {"create", "recreate", "leave", "unseize"} => arg[p] = Main
    /\ at[p] \in {"recheck", "rename"} /\ arg[p] = Main => seen[p] \in dead

\* Whoever is recovering owns the sentinel.
SentinelIsOwned == \A p \in Proc : InRecovery(p) => file[Sentinel] = p

\* What is about to be renamed is still the dead owner's lock.
RenamesTheStale ==
  \A p \in Proc : at[p] = "rename" /\ arg[p] = Main => file[Main] = seen[p]

\* The main lock is at its path as long as its owner believes to own it.
HoldersOwnTheFile == \A p \in holds : file[Main] = p

\* Only an owner unlinks, and only while it is running.
UnlinkersHold == \A p \in Proc : at[p] \in {"critical", "release", "unlink"} => p \in holds

IInv ==
  /\ TypeOK
  /\ TheDeadRest
  /\ RecoveryIsSound
  /\ UnlinkersHold
  /\ ~robbed => SentinelIsOwned /\ RenamesTheStale /\ HoldersOwnTheFile
-----------------------------------------------------------------------------
\* A process that starts up finds files that no living process has published.
LEMMA InitIInv == ASSUME Init PROVE IInv
  BY PathsAreDistinct, OwnersAreDistinct
  DEF Init, IInv, TypeOK, TheDeadRest, RecoveryIsSound, SentinelIsOwned, RenamesTheStale,
      HoldersOwnTheFile, UnlinkersHold, InRecovery, Path, Owner, Stage

USE DEF Path, Owner, Stage, Goto, Publish, Remove, UnchangedFiles, InRecovery, Forget

\* Every system call of the protocol, and every death, preserves it.
LEMMA StepIInv == ASSUME IInv, [Next]_vars PROVE IInv'
<1> USE PathsAreDistinct, OwnersAreDistinct
    DEF IInv, TypeOK, TheDeadRest, RecoveryIsSound, SentinelIsOwned, RenamesTheStale,
        HoldersOwnTheFile, UnlinkersHold
<1>1. ASSUME NEW p \in Proc, p \notin dead, Call(p) PROVE IInv'
  BY <1>1 DEF Call
<1>2. ASSUME NEW p \in Proc, p \notin dead, Look(p) PROVE IInv'
  BY <1>2 DEF Look
<1>3. ASSUME NEW p \in Proc, p \notin dead, PublishMain(p) PROVE IInv'
  BY <1>3 DEF PublishMain
<1>4. ASSUME NEW p \in Proc, p \notin dead, Assess(p) PROVE IInv'
  BY <1>4 DEF Assess
<1>5. ASSUME NEW p \in Proc, p \notin dead, Seize(p) PROVE IInv'
  BY <1>5 DEF Seize
<1>6. ASSUME NEW p \in Proc, p \notin dead, Deadline(p) PROVE IInv'
  BY <1>6 DEF Deadline
<1>7. ASSUME NEW p \in Proc, p \notin dead, Observe(p) PROVE IInv'
  BY <1>7 DEF Observe, Recovered, NotRecovered, Reclaimable, Stale
<1>8. ASSUME NEW p \in Proc, p \notin dead, Recheck(p) PROVE IInv'
  BY <1>8 DEF Recheck, Recovered, NotRecovered
<1>9. ASSUME NEW p \in Proc, p \notin dead, Rename(p) PROVE IInv'
  <2> USE <1>9 DEF Rename, Recovered
  <2>1. TypeOK' /\ TheDeadRest' /\ RecoveryIsSound' /\ UnlinkersHold'
    OBVIOUS
  <2>2. CASE arg[p] = Main
    <3>1. ~robbed => \A q \in Proc : InRecovery(q) => q = p
      BY <2>2
    <3>2. ~robbed => file[Main] \in dead
      BY <2>2
    <3>3. ~robbed' => SentinelIsOwned' /\ HoldersOwnTheFile'
      BY <2>2, <3>2
    <3>4. ~robbed' => RenamesTheStale'
      BY <2>2, <3>1
    <3>5. QED
      BY <2>1, <3>3, <3>4
  <2>3. CASE arg[p] = Sentinel
    <3>1. ~robbed' => ~robbed /\ \A q \in Proc : ~InRecovery(q)
      BY <2>3
    <3>2. ~robbed' => SentinelIsOwned' /\ RenamesTheStale' /\ HoldersOwnTheFile'
      BY <2>3, <3>1
    <3>3. QED
      BY <2>1, <3>2
  <2>4. QED
    BY <2>2, <2>3
<1>10. ASSUME NEW p \in Proc, p \notin dead, Create(p) PROVE IInv'
  BY <1>10 DEF Create, CreateInRecovery
<1>11. ASSUME NEW p \in Proc, p \notin dead, Recreate(p) PROVE IInv'
  BY <1>11 DEF Recreate, CreateInRecovery
<1>12. ASSUME NEW p \in Proc, p \notin dead, Leave(p) PROVE IInv'
  BY <1>12 DEF Leave, AfterRecovery
<1>13. ASSUME NEW p \in Proc, p \notin dead, Unseize(p) PROVE IInv'
  BY <1>13 DEF Unseize, AfterRecovery
<1>14. ASSUME NEW p \in Proc, p \notin dead, Finish(p) PROVE IInv'
  BY <1>14 DEF Finish
<1>15. ASSUME NEW p \in Proc, p \notin dead, Release(p) PROVE IInv'
  BY <1>15 DEF Release
<1>16. ASSUME NEW p \in Proc, p \notin dead, Unlink(p) PROVE IInv'
  BY <1>16 DEF Unlink
<1>17. ASSUME NEW p \in Proc, p \notin dead, Die(p) PROVE IInv'
  BY <1>17 DEF Die
<1>18. ASSUME NEW l \in Path, Age(l) PROVE IInv'
  BY <1>18 DEF Age
<1>19. CASE UNCHANGED vars
  BY <1>19 DEF vars
<1>20. QED
  BY <1>1, <1>2, <1>3, <1>4, <1>5, <1>6, <1>7, <1>8, <1>9, <1>10, <1>11,
     <1>12, <1>13, <1>14, <1>15, <1>16, <1>17, <1>18, <1>19 DEF Next, Step

\* The invariant holds for every number of processes that call withFileLockSync
\* and die anywhere in it.
THEOREM InvariantHolds == Spec => []IInv
  BY InitIInv, StepIInv, PTL DEF Spec

-----------------------------------------------------------------------------
\* The state of every process and of both files stays well-typed.
THEOREM TypeCorrect == Spec => []TypeOK
  BY InvariantHolds, PTL DEF IInv

\* withFileLockSync runs its operation in one live process at a time, through
\* deaths of owners and of recoverers, until a live sentinel is moved away: two
\* owners would both have their file at the one path.
THEOREM MutuallyExclusive == Spec => []GuardedExclusion
<1>1. IInv => GuardedExclusion
  BY DEF IInv, HoldersOwnTheFile, GuardedExclusion, MutualExclusion, TypeOK
<1>2. QED
  BY <1>1, InvariantHolds, PTL

\* A step that takes the main lock away moved a dead owner's file in recovery,
\* or was its owner's unlink.
LEMMA StepEvictsDead == ASSUME IInv, Next PROVE EvictsOnlyTheDead
<1> USE PathsAreDistinct, OwnersAreDistinct
    DEF IInv, TypeOK, RecoveryIsSound, RenamesTheStale, HoldersOwnTheFile, UnlinkersHold,
        EvictsOnlyTheDead
<1>1. ASSUME NEW p \in Proc, p \notin dead, Rename(p) PROVE EvictsOnlyTheDead
  BY <1>1 DEF Rename
<1>2. ASSUME NEW p \in Proc, p \notin dead, Unlink(p) PROVE EvictsOnlyTheDead
  BY <1>2 DEF Unlink
<1>3. ASSUME NEW p \in Proc, p \notin dead, Call(p) \/ Step(p) \/ Die(p),
             file[Main] # NoFile, file'[Main] # file[Main]
      PROVE  Rename(p) \/ Unlink(p)
  BY <1>3 DEF Step, Call, Look, PublishMain, Assess, Seize, Deadline, Observe,
              Recheck, Create, Recreate, CreateInRecovery, Leave, Unseize,
              Finish, Release, Die
<1>4. ASSUME NEW l \in Path, Age(l) PROVE EvictsOnlyTheDead
  BY <1>4 DEF Age
<1>5. QED
  BY <1>1, <1>2, <1>3, <1>4 DEF Next

\* "A live owner is never eligible for stale recovery" (withFileLockSync): its
\* lock is not evicted by any interleaving of recoverers, whoever of them dies,
\* until a live sentinel is moved away.
THEOREM LiveOwnersKeepTheLock == Spec => OnlyDeadOwnersAreEvicted
<1>1. ASSUME IInv, [Next]_vars PROVE [EvictsOnlyTheDead]_vars
  BY <1>1, StepEvictsDead
<1>2. QED
  BY <1>1, InvariantHolds, PTL DEF Spec, OnlyDeadOwnersAreEvicted
=============================================================================
