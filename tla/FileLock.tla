------------------------------ MODULE FileLock ------------------------------
(***************************************************************************)
(* src/src/services/file-lock.ts: the advisory lock that serializes Orion  *)
(* processes.  A lock is a file published by an atomic no-replace link and *)
(* removed by its owner's token; a lock whose owner has died and that has  *)
(* aged beyond staleMs is moved away, under a second lock, the recovery    *)
(* sentinel.                                                               *)
(*                                                                         *)
(* A process is one run of the program: it dies at most once, and the      *)
(* token of a lock is identified with the process that published it (a     *)
(* dead process publishes no second token, and only the token of a dead    *)
(* process is ever compared with a later reading).  The candidate file and *)
(* the removal of the renamed stale file are private to one process and    *)
(* left out.  One action is one system call on a shared path.              *)
(***************************************************************************)
EXTENDS Naturals, FiniteSets

CONSTANTS
  Proc,             \* runs of the program
  Main, Sentinel,   \* the lock file and its ".recovery" companion
  NoFile,           \* no file at the path
  Unreadable,       \* a file without a readable owner record
  MaxDeaths         \* bound: deaths of processes in one behaviour

Path == {Main, Sentinel}

ASSUME PathsAreDistinct == Main # Sentinel
ASSUME OwnersAreDistinct ==
  NoFile \notin Proc /\ Unreadable \notin Proc /\ NoFile # Unreadable
ASSUME MaxDeathsIsNat == MaxDeaths \in Nat

VARIABLES
  file,   \* file[l]: who published the file at l
  aged,   \* the paths whose file is older than staleMs
  dead,   \* the processes that have died
  at,     \* at[p]: the call p makes next
  arg,    \* arg[p]: the path recoverStaleLock works on
  seen,   \* seen[p]: the owner recoverStaleLock read first
  holds,  \* the live processes that believe to own the main lock
  robbed  \* history: a live process's sentinel has been moved away

vars == <<file, aged, dead, at, arg, seen, holds, robbed>>

Owner == Proc \union {NoFile, Unreadable}

Stage == {"idle", "look", "publish", "assess", "seize", "create", "observe",
          "recheck", "rename", "recreate", "leave", "unseize", "deadline",
          "critical", "release", "unlink", "timedout"}

TypeOK ==
  /\ file \in [Path -> Owner]
  /\ aged \in SUBSET Path
  /\ dead \in SUBSET Proc
  /\ at \in [Proc -> Stage]
  /\ arg \in [Proc -> Path]
  /\ seen \in [Proc -> Owner]
  /\ holds \in SUBSET Proc
  /\ robbed \in BOOLEAN

\* Old programs may have left files without an owner record, sentinels included.
Init ==
  /\ file \in [Path -> {NoFile, Unreadable}]
  /\ aged = {}
  /\ dead = {}
  /\ at = [p \in Proc |-> "idle"]
  /\ arg = [p \in Proc |-> Main]
  /\ seen = [p \in Proc |-> NoFile]
  /\ holds = {}
  /\ robbed = FALSE

-----------------------------------------------------------------------------
(* The file system.                                                        *)

Goto(p, stage) == at' = [at EXCEPT ![p] = stage]

\* Link a complete candidate to l: fails when a file is there.
Publish(p, l) ==
  /\ file[l] = NoFile
  /\ file' = [file EXCEPT ![l] = p]
  /\ aged' = aged \ {l}
  /\ UNCHANGED robbed

\* Take away whatever is at l.
Remove(l) ==
  /\ file' = [file EXCEPT ![l] = NoFile]
  /\ aged' = aged \ {l}

UnchangedFiles == UNCHANGED <<file, aged, robbed>>

\* Mutant: it is not asked whether the owner lives.
StaleByAgeOnly(l) == file[l] \in Proc /\ l \in aged

\* The owner of the file at l is dead, and the file is older than staleMs.
Stale(l) == file[l] \in dead /\ l \in aged

\* What recoverStaleLock reclaims: a stale lock; of the files without a
\* readable owner only an old sentinel.
Reclaimable(l) ==
  \/ Stale(l)
  \/ l = Sentinel /\ file[l] = Unreadable /\ l \in aged

-----------------------------------------------------------------------------
(* acquireLock.                                                            *)

Call(p) ==
  /\ at[p] = "idle"
  /\ Goto(p, "look")
  /\ arg' = [arg EXCEPT ![p] = Main]
  /\ UNCHANGED <<dead, seen, holds>> /\ UnchangedFiles

\* A published sentinel is honored: the process queues behind it.
Look(p) ==
  /\ at[p] = "look"
  /\ Goto(p, IF file[Sentinel] = NoFile THEN "publish" ELSE "seize")
  /\ UNCHANGED <<dead, arg, seen, holds>> /\ UnchangedFiles

PublishMain(p) ==
  /\ at[p] = "publish"
  /\ \/ /\ Publish(p, Main)
        /\ holds' = holds \union {p}
        /\ Goto(p, "critical")
     \/ /\ file[Main] # NoFile
        /\ Goto(p, "assess")
        /\ UNCHANGED holds /\ UnchangedFiles
  /\ UNCHANGED <<dead, arg, seen>>

\* Mutant: a stale lock is waited for, like any other.
AssessPatiently(p) ==
  /\ at[p] = "assess"
  /\ Goto(p, "deadline")
  /\ UNCHANGED <<dead, arg, seen, holds>> /\ UnchangedFiles

Assess(p) ==
  /\ at[p] = "assess"
  /\ Goto(p, IF Stale(Main) THEN "seize" ELSE "deadline")
  /\ UNCHANGED <<dead, arg, seen, holds>> /\ UnchangedFiles

\* Mutant: recovery takes no sentinel.
SeizeNothing(p) ==
  /\ at[p] = "seize"
  /\ Goto(p, "create")
  /\ arg' = [arg EXCEPT ![p] = Main]
  /\ UNCHANGED <<dead, seen, holds>> /\ UnchangedFiles

\* acquirePrimitiveLock: the sentinel itself is recovered without a guard.
Seize(p) ==
  /\ at[p] = "seize"
  /\ \/ /\ Publish(p, Sentinel)
        /\ Goto(p, "create")
        /\ arg' = [arg EXCEPT ![p] = Main]
     \/ /\ file[Sentinel] # NoFile
        /\ Goto(p, "observe")
        /\ arg' = [arg EXCEPT ![p] = Sentinel]
        /\ UnchangedFiles
  /\ UNCHANGED <<dead, seen, holds>>

\* Out of time: the call throws.  Otherwise the loop it is in starts over.
Deadline(p) ==
  /\ at[p] = "deadline"
  /\ \/ Goto(p, "timedout") /\ arg' = [arg EXCEPT ![p] = Main]
     \/ Goto(p, IF arg[p] = Main THEN "look" ELSE "seize") /\ UNCHANGED arg
  /\ UNCHANGED <<dead, seen, holds>> /\ UnchangedFiles

-----------------------------------------------------------------------------
(* recoverStaleLock(arg[p]), and where its two results lead.               *)

Recovered(p) == Goto(p, IF arg[p] = Main THEN "recreate" ELSE "seize")
NotRecovered(p) == Goto(p, IF arg[p] = Main THEN "leave" ELSE "deadline")

Forget(p) == seen' = [seen EXCEPT ![p] = NoFile]

Observe(p) ==
  /\ at[p] = "observe"
  /\ \/ file[arg[p]] = NoFile /\ Recovered(p) /\ UNCHANGED seen
     \/ /\ Reclaimable(arg[p])
        /\ seen' = [seen EXCEPT ![p] = file[arg[p]]]
        /\ Goto(p, "recheck")
     \/ /\ file[arg[p]] # NoFile /\ ~Reclaimable(arg[p])
        /\ NotRecovered(p)
        /\ UNCHANGED seen
  /\ UNCHANGED <<dead, arg, holds>> /\ UnchangedFiles

Recheck(p) ==
  /\ at[p] = "recheck"
  /\ \/ file[arg[p]] = NoFile /\ Recovered(p) /\ Forget(p)
     \/ file[arg[p]] = seen[p] /\ Goto(p, "rename") /\ UNCHANGED seen
     \/ file[arg[p]] \notin {NoFile, seen[p]} /\ NotRecovered(p) /\ Forget(p)
  /\ UNCHANGED <<dead, arg, holds>> /\ UnchangedFiles

\* The rename moves whatever file is at the path by now, or finds none.
Rename(p) ==
  /\ at[p] = "rename"
  /\ Remove(arg[p])
  /\ robbed' = (robbed \/ (arg[p] = Sentinel /\ file[Sentinel] \in Proc \ dead))
  /\ Recovered(p)
  /\ Forget(p)
  /\ UNCHANGED <<dead, arg, holds>>

-----------------------------------------------------------------------------
(* The operation of withRecoverySentinel, and its release.                 *)

CreateInRecovery(p, next) ==
  \/ Publish(p, Main) /\ holds' = holds \union {p} /\ Goto(p, "leave")
  \/ file[Main] # NoFile /\ Goto(p, next) /\ UNCHANGED holds /\ UnchangedFiles

Create(p) ==
  /\ at[p] = "create"
  /\ CreateInRecovery(p, "observe")
  /\ UNCHANGED <<dead, arg, seen>>

Recreate(p) ==
  /\ at[p] = "recreate"
  /\ CreateInRecovery(p, "leave")
  /\ UNCHANGED <<dead, arg, seen>>

AfterRecovery(p) == Goto(p, IF p \in holds THEN "critical" ELSE "deadline")

\* releaseOwnedLock reads the token, then unlinks the path.
Leave(p) ==
  /\ at[p] = "leave"
  /\ \/ file[Sentinel] = p /\ Goto(p, "unseize")
     \/ file[Sentinel] # p /\ AfterRecovery(p)
  /\ UNCHANGED <<dead, arg, seen, holds>> /\ UnchangedFiles

Unseize(p) ==
  /\ at[p] = "unseize"
  /\ Remove(Sentinel)
  /\ AfterRecovery(p)
  /\ UNCHANGED <<dead, arg, seen, holds, robbed>>

-----------------------------------------------------------------------------
(* withFileLockSync: the operation returns or throws, the lock is released *)

Finish(p) ==
  /\ at[p] = "critical"
  /\ Goto(p, "release")
  /\ UNCHANGED <<dead, arg, seen, holds>> /\ UnchangedFiles

Release(p) ==
  /\ at[p] = "release"
  /\ \/ file[Main] = p /\ Goto(p, "unlink") /\ UNCHANGED holds
     \/ file[Main] # p /\ Goto(p, "idle") /\ holds' = holds \ {p}
  /\ UNCHANGED <<dead, arg, seen>> /\ UnchangedFiles

Unlink(p) ==
  /\ at[p] = "unlink"
  /\ Remove(Main)
  /\ holds' = holds \ {p}
  /\ Goto(p, "idle")
  /\ UNCHANGED <<dead, arg, seen, robbed>>

-----------------------------------------------------------------------------
(* The environment: time passes, processes die.                            *)

Age(l) ==
  /\ file[l] # NoFile /\ l \notin aged
  /\ aged' = aged \union {l}
  /\ UNCHANGED <<file, dead, at, arg, seen, holds, robbed>>

\* A process that dies leaves its files behind.
Die(p) ==
  /\ at[p] \notin {"idle", "timedout"}
  /\ Cardinality(dead) < MaxDeaths
  /\ dead' = dead \union {p}
  /\ holds' = holds \ {p}
  /\ Goto(p, "idle")
  /\ arg' = [arg EXCEPT ![p] = Main]
  /\ Forget(p)
  /\ UnchangedFiles

\* One step of the code p runs.
Step(p) ==
  \/ Look(p) \/ PublishMain(p) \/ Assess(p) \/ Seize(p) \/ Deadline(p)
  \/ Observe(p) \/ Recheck(p) \/ Rename(p)
  \/ Create(p) \/ Recreate(p) \/ Leave(p) \/ Unseize(p)
  \/ Finish(p) \/ Release(p) \/ Unlink(p)

Next ==
  \/ \E p \in Proc \ dead : Call(p) \/ Step(p) \/ Die(p)
  \/ \E l \in Path : Age(l)

Spec == Init /\ [][Next]_vars

\* A process that runs keeps running unless it dies; time passes.
Fairness ==
  /\ \A p \in Proc : WF_vars(p \notin dead /\ Step(p))
  /\ \A l \in Path : WF_vars(Age(l))

FairSpec == Spec /\ Fairness

-----------------------------------------------------------------------------
\* withFileLockSync "serializes a synchronous read-modify-write operation
\* across Orion processes": no two live processes both believe to own the main
\* lock, whatever recovery of a dead owner's lock ran in between.
MutualExclusion == \A p, q \in holds : p = q

\* It holds through every death, of an owner of the main lock, of a process that
\* recovers it, or of both, until a contender for the sentinel moves away the one
\* a live process has published (recoverStaleLock called without a guard).
GuardedExclusion == ~robbed => MutualExclusion

\* "A live owner is never eligible for stale recovery", and an unreadable main
\* lock "is never safe to reclaim automatically": the file of the main lock
\* goes away only by its owner's unlink or after its owner's death, as long as no
\* live process's sentinel has been moved away.
EvictsOnlyTheDead ==
  ~robbed /\ file[Main] # NoFile /\ file'[Main] # file[Main]
    => \/ file[Main] \in dead
       \/ file[Main] \in Proc /\ at[file[Main]] = "unlink"
OnlyDeadOwnersAreEvicted == [][EvictsOnlyTheDead]_vars

\* A lock abandoned by a dead owner does not block the others for ever: while
\* some process keeps trying, it is taken over, even when the process that was
\* recovering it died as well.
Waiting == {p \in Proc \ dead : at[p] \notin {"idle", "timedout"}}
AbandonedLockIsRecovered ==
  \A p \in Proc : file[Main] = p /\ p \in dead ~> file[Main] # p \/ Waiting = {}
=============================================================================
