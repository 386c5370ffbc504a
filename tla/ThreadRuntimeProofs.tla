-------------------------- MODULE ThreadRuntimeProofs --------------------------
(***************************************************************************)
(* What holds of ThreadRuntime whatever fails and whenever commands        *)
(* arrive: the durable facts of a turn are consistent and only move        *)
(* forward; and, in the second half, the log, admission and the runner     *)
(* agree on the active turn and on the queue, about every turn whose start *)
(* or place in the queue has not thrown.                                   *)
(***************************************************************************)
EXTENDS ThreadRuntime, TLAPS

Begun == {"started"} \union Terminal

\* Identities that have not been given out carry no facts, and the queue holds
\* only durable entries.
IdentitiesAreFresh ==
  /\ \A t \in Turn : t >= next => status[t] = "unknown"
  /\ \A t \in queue : status[t] = "queued"
  /\ \A t \in Turn : commit[t] # "none" => status[t] \in Begun

\* Where activeRun is, and which turn it has; when its terminal event has been
\* handled no turn is durably active.
PhaseAgrees ==
  /\ phase = "idle" => run = None
  /\ phase # "idle" => alive /\ run # None
  /\ phase \in {"running", "finalize", "promote"} => run = active
  /\ phase \in {"finalize", "promote"} => outcome \in Terminal
  /\ phase = "promote" => \A t \in Turn : status[t] # "started"

\* At most one turn is durably active, and it is admission's, if it has one and
\* a run is on.
ActiveAgrees ==
  /\ \A t, u \in Turn : status[t] = "started" /\ status[u] = "started" => t = u
  /\ active # None /\ phase # "idle" => \A t \in Turn : status[t] = "started" => t = active

DurableInv ==
  /\ TypeOK
  /\ IdentitiesAreFresh
  /\ PhaseAgrees
  /\ ActiveAgrees
  /\ CommitDecides
  /\ EndedTurnsAreClosed

-----------------------------------------------------------------------------
USE MaxTurnsIsNat, MaxFaultsIsNat
USE DEF Turn, TurnOrNone, None, Status, Terminal, Phase, Started, Queued, Retained,
        SetStatus, Begun, durable, admission, runtime, environment
USE DEF DurableInv, TypeOK, LogTypeOK, AdmissionTypeOK, RunTypeOK, EnvironmentTypeOK,
        IdentitiesAreFresh, PhaseAgrees, ActiveAgrees, CommitDecides, EndedTurnsAreClosed

\* A new Thread, before its process opens it, has no turn at all.
LEMMA DurableInit == ASSUME Init PROVE DurableInv
<1> USE DEF Init
<1>1. LogTypeOK
  OBVIOUS
<1>2. AdmissionTypeOK
  OBVIOUS
<1>3. RunTypeOK
  OBVIOUS
<1>4. EnvironmentTypeOK
  <2>1. next \in 1 .. MaxTurns + 1 /\ faults \in 0 .. MaxFaults
    OBVIOUS
  <2>2. QED
    BY <2>1
<1>5. IdentitiesAreFresh /\ PhaseAgrees /\ ActiveAgrees
  OBVIOUS
<1>6. CommitDecides /\ EndedTurnsAreClosed
  OBVIOUS
<1>7. QED
  BY <1>1, <1>2, <1>3, <1>4, <1>5, <1>6

\* A turn that starts when none is started is the only one, and the active one
\* when there is one.
LEMMA OnlyOneStarts ==
  ASSUME DurableInv, NEW x \in Turn, Started = {}, SetStatus(x, "started"),
         active' \in {x, None}
  PROVE  ActiveAgrees'
<1>1. status \in [Turn -> Status] /\ \A t \in Turn : status[t] # "started"
  OBVIOUS
<1>2. status' = [status EXCEPT ![x] = "started"]
  OBVIOUS
<1> HIDE DEF DurableInv
<1>3. \A t \in Turn : status'[t] = "started" => t = x
  BY <1>1, <1>2
<1>4. QED
  BY <1>3

\* Every handler, the crash and the restart preserve it, also when an append
\* throws or a command arrives while a turn settles.
LEMMA DurableStep == ASSUME DurableInv, [Next]_vars PROVE DurableInv'
<1>1. ASSUME NEW k \in {"regular", "maintenance"}, NEW c \in BOOLEAN, StartIdle(k, c)
      PROVE  DurableInv'
  <2>1. LogTypeOK'
    BY <1>1 DEF StartIdle, Allocate, Schedule, Listening
  <2>2. AdmissionTypeOK'
    BY <1>1 DEF StartIdle, Allocate, Schedule, Listening
  <2>3. RunTypeOK'
    BY <1>1 DEF StartIdle, Allocate, Schedule, Listening
  <2>4. EnvironmentTypeOK'
    BY <1>1 DEF StartIdle, Allocate, Schedule, Listening
  <2>5. IdentitiesAreFresh'
    BY <1>1 DEF StartIdle, Allocate, Schedule, Listening
  <2>6. PhaseAgrees'
    BY <1>1 DEF StartIdle, Allocate, Schedule, Listening
  <2>7. ActiveAgrees'
    <3>1. Started = {} /\ SetStatus(next, "started") /\ active' = next /\ next \in Turn
      BY <1>1 DEF StartIdle, Allocate
    <3> HIDE DEF DurableInv
    <3>2. QED
      BY <3>1, OnlyOneStarts
  <2>8. CommitDecides'
    BY <1>1 DEF StartIdle, Allocate, Schedule, Listening
  <2>9. EndedTurnsAreClosed'
    BY <1>1 DEF StartIdle, Allocate, Schedule, Listening
  <2>10. QED
    BY <2>1, <2>2, <2>3, <2>4, <2>5, <2>6, <2>7, <2>8, <2>9
<1>2. ASSUME NEW k \in {"regular", "maintenance"}, NEW c \in BOOLEAN, Enqueue(k, c)
      PROVE  DurableInv'
  BY <1>2 DEF Enqueue, Allocate, Listening
<1>3. ASSUME NEW k \in {"regular", "maintenance"}, StartSettling(k)
      PROVE  DurableInv'
  <2>1. TypeOK'
    BY <1>3 DEF StartSettling, Allocate, Listening
  <2>2. IdentitiesAreFresh'
    BY <1>3 DEF StartSettling, Allocate, Listening
  <2>3. PhaseAgrees'
    BY <1>3 DEF StartSettling, Allocate, Listening
  <2>4. ActiveAgrees'
    <3>1. Started = {} /\ SetStatus(next, "started") /\ active' = None /\ next \in Turn
      BY <1>3 DEF StartSettling, Allocate
    <3> HIDE DEF DurableInv
    <3>2. QED
      BY <3>1, OnlyOneStarts
  <2>5. CommitDecides'
    BY <1>3 DEF StartSettling, Allocate, Listening
  <2>6. EndedTurnsAreClosed'
    BY <1>3 DEF StartSettling, Allocate, Listening
  <2>7. QED
    BY <2>1, <2>2, <2>3, <2>4, <2>5, <2>6
<1>4. ASSUME NEW k \in {"regular", "maintenance"}, RequestFails(k)
      PROVE  DurableInv'
  <2>1. CASE SetStatus(next, "started") /\ active = None /\ Started = {}
    <3>1. TypeOK'
      BY <1>4, <2>1 DEF RequestFails, Allocate, Listening, Fault
    <3>2. IdentitiesAreFresh'
      BY <1>4, <2>1 DEF RequestFails, Allocate, Listening, Fault
    <3>3. PhaseAgrees'
      BY <1>4, <2>1 DEF RequestFails, Allocate, Listening, Fault
    <3>4. ActiveAgrees'
      <4>1. next \in Turn /\ active' = None
        BY <1>4, <2>1 DEF RequestFails, Allocate
      <4> HIDE DEF DurableInv
      <4>2. QED
        BY <2>1, <4>1, OnlyOneStarts
    <3>5. CommitDecides'
      BY <1>4, <2>1 DEF RequestFails, Allocate, Listening, Fault
    <3>6. EndedTurnsAreClosed'
      BY <1>4, <2>1 DEF RequestFails, Allocate, Listening, Fault
    <3>7. QED
      BY <3>1, <3>2, <3>3, <3>4, <3>5, <3>6
  <2>2. CASE SetStatus(next, "queued") /\ active # None
    BY <1>4, <2>2 DEF RequestFails, Allocate, Listening, Fault
  <2> HIDE DEF DurableInv
  <2>3. QED
    BY <1>4, <2>1, <2>2 DEF RequestFails
<1>5. ASSUME Interrupt PROVE DurableInv'
  BY <1>5 DEF Interrupt, Abort, Listening
<1>22. ASSUME InterruptFails PROVE DurableInv'
  BY <1>22 DEF InterruptFails, Fault, Listening
<1>6. ASSUME Look PROVE DurableInv'
  BY <1>6 DEF Look, Listening
<1>7. ASSUME Close PROVE DurableInv'
  <2>1. TypeOK'
    BY <1>7 DEF Close, Abort
  <2>2. IdentitiesAreFresh' /\ PhaseAgrees' /\ ActiveAgrees'
    BY <1>7 DEF Close, Abort
  <2>3. CommitDecides' /\ EndedTurnsAreClosed'
    BY <1>7 DEF Close, Abort
  <2>4. QED
    BY <2>1, <2>2, <2>3
<1>8. ASSUME StartItem PROVE DurableInv'
  BY <1>8 DEF StartItem, Running
<1>9. ASSUME FinishItem PROVE DurableInv'
  BY <1>9 DEF FinishItem, Running
<1>10. ASSUME NEW s \in Terminal, Commit(s) PROVE DurableInv'
  BY <1>10 DEF Commit, Running
<1>11. ASSUME NEW s \in Terminal, Return(s) PROVE DurableInv'
  BY <1>11 DEF Return, Running
<1>12. ASSUME Finalize PROVE DurableInv'
  <2>1. CASE PublishTerminal
    BY <1>12, <2>1 DEF Finalize, PublishTerminal, MayPublish, NeedsCommit
  <2>2. CASE RecoverInstead
    BY <1>12, <2>2 DEF Finalize, RecoverInstead, RecoverIncomplete, RecoveredStatus
  <2>3. CASE PublishFails /\ RecoverIncomplete
    <3>1. LogTypeOK'
      BY <1>12, <2>3
      DEF Finalize, PublishFails, RecoverIncomplete, RecoveredStatus, Fault
    <3>2. AdmissionTypeOK'
      BY <1>12, <2>3
      DEF Finalize, PublishFails, RecoverIncomplete, RecoveredStatus, Fault
    <3>3. RunTypeOK'
      BY <1>12, <2>3
      DEF Finalize, PublishFails, RecoverIncomplete, RecoveredStatus, Fault
    <3>4. EnvironmentTypeOK'
      BY <1>12, <2>3
      DEF Finalize, PublishFails, RecoverIncomplete, RecoveredStatus, Fault
    <3>5. IdentitiesAreFresh'
      BY <1>12, <2>3
      DEF Finalize, PublishFails, RecoverIncomplete, RecoveredStatus, Fault
    <3>6. PhaseAgrees'
      BY <1>12, <2>3
      DEF Finalize, PublishFails, RecoverIncomplete, RecoveredStatus, Fault
    <3>7. ActiveAgrees'
      BY <1>12, <2>3
      DEF Finalize, PublishFails, RecoverIncomplete, RecoveredStatus, Fault
    <3>8. CommitDecides'
      BY <1>12, <2>3
      DEF Finalize, PublishFails, RecoverIncomplete, RecoveredStatus, Fault
    <3>9. EndedTurnsAreClosed'
      BY <1>12, <2>3
      DEF Finalize, PublishFails, RecoverIncomplete, RecoveredStatus, Fault
    <3>10. QED
      BY <3>1, <3>2, <3>3, <3>4, <3>5, <3>6, <3>7, <3>8, <3>9
  <2>4. CASE PublishFails /\ SetStatus(run, outcome) /\ UNCHANGED open
    <3>1. LogTypeOK'
      BY <1>12, <2>4 DEF Finalize, PublishFails, MayPublish, NeedsCommit, Fault
    <3>2. AdmissionTypeOK'
      BY <1>12, <2>4 DEF Finalize, PublishFails, MayPublish, NeedsCommit, Fault
    <3>3. RunTypeOK'
      BY <1>12, <2>4 DEF Finalize, PublishFails, MayPublish, NeedsCommit, Fault
    <3>4. EnvironmentTypeOK'
      BY <1>12, <2>4 DEF Finalize, PublishFails, MayPublish, NeedsCommit, Fault
    <3>5. IdentitiesAreFresh'
      BY <1>12, <2>4 DEF Finalize, PublishFails, MayPublish, NeedsCommit, Fault
    <3>6. PhaseAgrees'
      BY <1>12, <2>4 DEF Finalize, PublishFails, MayPublish, NeedsCommit, Fault
    <3>7. ActiveAgrees'
      BY <1>12, <2>4 DEF Finalize, PublishFails, MayPublish, NeedsCommit, Fault
    <3>8. CommitDecides'
      BY <1>12, <2>4 DEF Finalize, PublishFails, MayPublish, NeedsCommit, Fault
    <3>9. EndedTurnsAreClosed'
      BY <1>12, <2>4 DEF Finalize, PublishFails, MayPublish, NeedsCommit, Fault
    <3>10. QED
      BY <3>1, <3>2, <3>3, <3>4, <3>5, <3>6, <3>7, <3>8, <3>9
  <2> HIDE DEF DurableInv
  <2>5. QED
    BY <1>12, <2>1, <2>2, <2>3, <2>4 DEF Finalize, PublishFails
<1>13. ASSUME Promote PROVE DurableInv'
  <2>1. ASSUME NEW m \in BOOLEAN, NEW c \in BOOLEAN, NEW t \in Turn,
               deferred' = Defers(m, c), BeginSuccessor(t, m, c),
               status' = WithExpired(Overdue, [status EXCEPT ![t] = "started"])
        PROVE  DurableInv'
    <3>1. LogTypeOK'
      BY <1>13, <2>1 DEF Promote, WithExpired, Overdue, Leave, Defers, BeginSuccessor, IsFirst
    <3>2. AdmissionTypeOK'
      BY <1>13, <2>1 DEF Promote, WithExpired, Overdue, Leave, Defers, BeginSuccessor, IsFirst
    <3>3. RunTypeOK'
      BY <1>13, <2>1 DEF Promote, WithExpired, Overdue, Leave, Defers, BeginSuccessor, IsFirst
    <3>4. EnvironmentTypeOK'
      BY <1>13, <2>1 DEF Promote, WithExpired, Overdue, Leave, Defers, BeginSuccessor, IsFirst
    <3>5. IdentitiesAreFresh'
      BY <1>13, <2>1 DEF Promote, WithExpired, Overdue, Leave, Defers, BeginSuccessor, IsFirst
    <3>6. PhaseAgrees'
      BY <1>13, <2>1 DEF Promote, WithExpired, Overdue, Leave, Defers, BeginSuccessor, IsFirst
    <3>7. ActiveAgrees'
      BY <1>13, <2>1 DEF Promote, WithExpired, Overdue, Leave, Defers, BeginSuccessor, IsFirst
    <3>8. CommitDecides'
      BY <1>13, <2>1 DEF Promote, WithExpired, Overdue, Leave, Defers, BeginSuccessor, IsFirst
    <3>9. EndedTurnsAreClosed'
      BY <1>13, <2>1 DEF Promote, WithExpired, Overdue, Leave, Defers, BeginSuccessor, IsFirst
    <3>10. QED
      BY <3>1, <3>2, <3>3, <3>4, <3>5, <3>6, <3>7, <3>8, <3>9
  <2>2. ASSUME NEW m \in BOOLEAN, NEW c \in BOOLEAN,
               deferred' = Defers(m, c), BeginNothing(m, c), status' = WithExpired(Overdue, status)
        PROVE  DurableInv'
    BY <1>13, <2>2 DEF Promote, WithExpired, Overdue, Leave, Defers, BeginNothing
  <2> HIDE DEF DurableInv
  <2>3. QED
    BY <1>13, <2>1, <2>2 DEF Promote
<1>14. ASSUME PromoteFails PROVE DurableInv'
  <2>1. ASSUME NEW m \in BOOLEAN, NEW c \in BOOLEAN, NEW t \in Turn,
               BeginSuccessor(t, m, c), StartFails(t), thrown' = thrown \union {t}
        PROVE  DurableInv'
    <3>1. LogTypeOK'
      BY <1>14, <2>1 DEF PromoteFails, StartFails, WithExpired, Overdue, Leave, Fault,
             BeginSuccessor, IsFirst
    <3>2. AdmissionTypeOK'
      BY <1>14, <2>1 DEF PromoteFails, StartFails, WithExpired, Overdue, Leave, Fault,
             BeginSuccessor, IsFirst
    <3>3. RunTypeOK'
      BY <1>14, <2>1 DEF PromoteFails, StartFails, WithExpired, Overdue, Leave, Fault,
             BeginSuccessor, IsFirst
    <3>4. EnvironmentTypeOK'
      BY <1>14, <2>1 DEF PromoteFails, StartFails, WithExpired, Overdue, Leave, Fault,
             BeginSuccessor, IsFirst
    <3>5. IdentitiesAreFresh'
      BY <1>14, <2>1 DEF PromoteFails, StartFails, WithExpired, Overdue, Leave, Fault,
             BeginSuccessor, IsFirst
    <3>6. PhaseAgrees'
      BY <1>14, <2>1 DEF PromoteFails, StartFails, WithExpired, Overdue, Leave, Fault,
             BeginSuccessor, IsFirst
    <3>7. ActiveAgrees'
      BY <1>14, <2>1 DEF PromoteFails, StartFails, WithExpired, Overdue, Leave, Fault,
             BeginSuccessor, IsFirst
    <3>8. CommitDecides'
      BY <1>14, <2>1 DEF PromoteFails, StartFails, WithExpired, Overdue, Leave, Fault,
             BeginSuccessor, IsFirst
    <3>9. EndedTurnsAreClosed'
      BY <1>14, <2>1 DEF PromoteFails, StartFails, WithExpired, Overdue, Leave, Fault,
             BeginSuccessor, IsFirst
    <3>10. QED
      BY <3>1, <3>2, <3>3, <3>4, <3>5, <3>6, <3>7, <3>8, <3>9
  <2>2. ASSUME NEW m \in BOOLEAN, NEW c \in BOOLEAN, BeginNothing(m, c),
               NEW E \in SUBSET Overdue, status' = WithExpired(E, status), UNCHANGED thrown
        PROVE  DurableInv'
    <3>1. LogTypeOK'
      BY <1>14, <2>2 DEF PromoteFails, WithExpired, Overdue, Leave, Fault, BeginNothing
    <3>2. AdmissionTypeOK'
      BY <1>14, <2>2 DEF PromoteFails, WithExpired, Overdue, Leave, Fault, BeginNothing
    <3>3. RunTypeOK'
      BY <1>14, <2>2 DEF PromoteFails, WithExpired, Overdue, Leave, Fault, BeginNothing
    <3>4. EnvironmentTypeOK'
      BY <1>14, <2>2 DEF PromoteFails, WithExpired, Overdue, Leave, Fault, BeginNothing
    <3>5. IdentitiesAreFresh'
      BY <1>14, <2>2 DEF PromoteFails, WithExpired, Overdue, Leave, Fault, BeginNothing
    <3>6. PhaseAgrees'
      BY <1>14, <2>2 DEF PromoteFails, WithExpired, Overdue, Leave, Fault, BeginNothing
    <3>7. ActiveAgrees'
      BY <1>14, <2>2 DEF PromoteFails, WithExpired, Overdue, Leave, Fault, BeginNothing
    <3>8. CommitDecides'
      BY <1>14, <2>2 DEF PromoteFails, WithExpired, Overdue, Leave, Fault, BeginNothing
    <3>9. EndedTurnsAreClosed'
      BY <1>14, <2>2 DEF PromoteFails, WithExpired, Overdue, Leave, Fault, BeginNothing
    <3>10. QED
      BY <3>1, <3>2, <3>3, <3>4, <3>5, <3>6, <3>7, <3>8, <3>9
  <2> HIDE DEF DurableInv
  <2>3. QED
    BY <1>14, <2>1, <2>2 DEF PromoteFails
<1>15. ASSUME Settle PROVE DurableInv'
  <2>1. CASE StartSuccessor
    <3>1. LogTypeOK'
      BY <1>15, <2>1 DEF Settle, StartSuccessor, Schedule
    <3>2. AdmissionTypeOK'
      BY <1>15, <2>1 DEF Settle, StartSuccessor, Schedule
    <3>3. RunTypeOK'
      BY <1>15, <2>1 DEF Settle, StartSuccessor, Schedule
    <3>4. EnvironmentTypeOK'
      BY <1>15, <2>1 DEF Settle, StartSuccessor, Schedule
    <3>5. IdentitiesAreFresh'
      BY <1>15, <2>1 DEF Settle, StartSuccessor, Schedule
    <3>6. PhaseAgrees'
      BY <1>15, <2>1 DEF Settle, StartSuccessor, Schedule
    <3>7. ActiveAgrees'
      BY <1>15, <2>1 DEF Settle, StartSuccessor, Schedule
    <3>8. CommitDecides'
      BY <1>15, <2>1 DEF Settle, StartSuccessor, Schedule
    <3>9. EndedTurnsAreClosed'
      BY <1>15, <2>1 DEF Settle, StartSuccessor, Schedule
    <3>10. QED
      BY <3>1, <3>2, <3>3, <3>4, <3>5, <3>6, <3>7, <3>8, <3>9
  <2>2. CASE DropSuccessor
    BY <1>15, <2>2 DEF Settle, DropSuccessor
  <2>3. CASE active = None /\ StayIdle
    <3>1. TypeOK'
      BY <1>15, <2>3 DEF Settle, StayIdle
    <3>2. IdentitiesAreFresh' /\ PhaseAgrees' /\ ActiveAgrees'
      BY <1>15, <2>3 DEF Settle, StayIdle
    <3>3. CommitDecides' /\ EndedTurnsAreClosed'
      BY <1>15, <2>3 DEF Settle, StayIdle
    <3>4. QED
      BY <3>1, <3>2, <3>3
  <2>4. ASSUME NEW t \in Turn, StartFirst(t)
        PROVE  DurableInv'
    <3>1. LogTypeOK'
      BY <1>15, <2>4 DEF Settle, StartFirst, Schedule, IsFirst
    <3>2. AdmissionTypeOK'
      BY <1>15, <2>4 DEF Settle, StartFirst, Schedule, IsFirst
    <3>3. RunTypeOK'
      BY <1>15, <2>4 DEF Settle, StartFirst, Schedule, IsFirst
    <3>4. EnvironmentTypeOK'
      BY <1>15, <2>4 DEF Settle, StartFirst, Schedule, IsFirst
    <3>5. IdentitiesAreFresh'
      BY <1>15, <2>4 DEF Settle, StartFirst, Schedule, IsFirst
    <3>6. PhaseAgrees'
      BY <1>15, <2>4 DEF Settle, StartFirst, Schedule, IsFirst
    <3>7. ActiveAgrees'
      <4>1. Started = {} /\ SetStatus(t, "started") /\ active' = t
        BY <2>4 DEF StartFirst
      <4> HIDE DEF DurableInv
      <4>2. QED
        BY <4>1, OnlyOneStarts
    <3>8. CommitDecides'
      BY <1>15, <2>4 DEF Settle, StartFirst, Schedule, IsFirst
    <3>9. EndedTurnsAreClosed'
      BY <1>15, <2>4 DEF Settle, StartFirst, Schedule, IsFirst
    <3>10. QED
      BY <3>1, <3>2, <3>3, <3>4, <3>5, <3>6, <3>7, <3>8, <3>9
  <2>5. ASSUME NEW t \in Turn, StartFirstFails(t)
        PROVE  DurableInv'
    <3>1. TypeOK'
      <4>1. LogTypeOK'
        BY <1>15, <2>5 DEF Settle, StartFirstFails, IsFirst, Fault
      <4>2. AdmissionTypeOK'
        BY <1>15, <2>5 DEF Settle, StartFirstFails, IsFirst, Fault
      <4>3. RunTypeOK'
        BY <1>15, <2>5 DEF Settle, StartFirstFails, IsFirst, Fault
      <4>4. EnvironmentTypeOK'
        BY <1>15, <2>5 DEF Settle, StartFirstFails, IsFirst, Fault
      <4>5. QED
        BY <4>1, <4>2, <4>3, <4>4
    <3>2. IdentitiesAreFresh'
      BY <1>15, <2>5 DEF Settle, StartFirstFails, IsFirst, Fault
    <3>3. PhaseAgrees'
      BY <1>15, <2>5 DEF Settle, StartFirstFails, IsFirst, Fault
    <3>4. ActiveAgrees'
      <4>1. CASE UNCHANGED status
        BY <1>15, <2>5, <4>1 DEF Settle, StartFirstFails, IsFirst, Fault
      <4>2. CASE Started = {} /\ SetStatus(t, "started")
        <5>1. active' = t
          BY <2>5 DEF StartFirstFails
        <5> HIDE DEF DurableInv
        <5>2. QED
          BY <4>2, <5>1, OnlyOneStarts
      <4>3. QED
        BY <2>5, <4>1, <4>2 DEF StartFirstFails
    <3>5. CommitDecides'
      BY <1>15, <2>5 DEF Settle, StartFirstFails, IsFirst, Fault
    <3>6. EndedTurnsAreClosed'
      BY <1>15, <2>5 DEF Settle, StartFirstFails, IsFirst, Fault
    <3>7. QED
      BY <3>1, <3>2, <3>3, <3>4, <3>5, <3>6
  <2> HIDE DEF DurableInv
  <2>6. QED
    BY <1>15, <2>1, <2>2, <2>3, <2>4, <2>5 DEF Settle, PromoteQueuedTurn
<1>16. ASSUME PromoteRestored PROVE DurableInv'
  <2>1. CASE phase = "idle" /\ StayIdle
    <3>1. LogTypeOK'
      BY <1>16, <2>1 DEF PromoteRestored, StayIdle
    <3>2. AdmissionTypeOK'
      BY <1>16, <2>1 DEF PromoteRestored, StayIdle
    <3>3. RunTypeOK'
      BY <1>16, <2>1 DEF PromoteRestored, StayIdle
    <3>4. EnvironmentTypeOK'
      BY <1>16, <2>1 DEF PromoteRestored, StayIdle
    <3>5. IdentitiesAreFresh'
      BY <1>16, <2>1 DEF PromoteRestored, StayIdle
    <3>6. PhaseAgrees'
      BY <1>16, <2>1 DEF PromoteRestored, StayIdle
    <3>7. ActiveAgrees'
      BY <1>16, <2>1 DEF PromoteRestored, StayIdle
    <3>8. CommitDecides'
      BY <1>16, <2>1 DEF PromoteRestored, StayIdle
    <3>9. EndedTurnsAreClosed'
      BY <1>16, <2>1 DEF PromoteRestored, StayIdle
    <3>10. QED
      BY <3>1, <3>2, <3>3, <3>4, <3>5, <3>6, <3>7, <3>8, <3>9
  <2>2. ASSUME phase = "idle", NEW t \in Turn, StartFirst(t)
        PROVE  DurableInv'
    <3>1. TypeOK'
      BY <1>16, <2>2 DEF PromoteRestored, StartFirst, Schedule, IsFirst
    <3>2. IdentitiesAreFresh'
      BY <1>16, <2>2 DEF PromoteRestored, StartFirst, Schedule, IsFirst
    <3>3. PhaseAgrees'
      BY <1>16, <2>2 DEF PromoteRestored, StartFirst, Schedule, IsFirst
    <3>4. ActiveAgrees'
      BY SMTT(30), <1>16, <2>2 DEF PromoteRestored, StartFirst, Schedule, IsFirst
    <3>5. CommitDecides'
      BY <1>16, <2>2 DEF PromoteRestored, StartFirst, Schedule, IsFirst
    <3>6. EndedTurnsAreClosed'
      BY <1>16, <2>2 DEF PromoteRestored, StartFirst, Schedule, IsFirst
    <3>7. QED
      BY <3>1, <3>2, <3>3, <3>4, <3>5, <3>6
  <2>3. CASE /\ phase # "idle"
             /\ UNCHANGED <<status, active, intent, queue, run, phase, aborted, ran,
                            faults, thrown>>
    <3>1. TypeOK'
      BY <1>16, <2>3 DEF PromoteRestored
    <3>2. IdentitiesAreFresh' /\ PhaseAgrees' /\ ActiveAgrees'
      BY <1>16, <2>3 DEF PromoteRestored
    <3>3. CommitDecides' /\ EndedTurnsAreClosed'
      BY <1>16, <2>3 DEF PromoteRestored
    <3>4. QED
      BY <3>1, <3>2, <3>3
  <2>4. ASSUME phase = "idle", NEW t \in Turn, StartFirstFails(t)
        PROVE  DurableInv'
    <3>1. TypeOK'
      <4>1. LogTypeOK'
        BY <1>16, <2>4 DEF PromoteRestored, StartFirstFails, IsFirst, Fault
      <4>2. AdmissionTypeOK'
        BY <1>16, <2>4 DEF PromoteRestored, StartFirstFails, IsFirst, Fault
      <4>3. RunTypeOK'
        BY <1>16, <2>4 DEF PromoteRestored, StartFirstFails, IsFirst, Fault
      <4>4. EnvironmentTypeOK'
        BY <1>16, <2>4 DEF PromoteRestored, StartFirstFails, IsFirst, Fault
      <4>5. QED
        BY <4>1, <4>2, <4>3, <4>4
    <3>2. IdentitiesAreFresh'
      BY <1>16, <2>4 DEF PromoteRestored, StartFirstFails, IsFirst, Fault
    <3>3. PhaseAgrees'
      BY <1>16, <2>4 DEF PromoteRestored, StartFirstFails, IsFirst, Fault
    <3>4. ActiveAgrees'
      <4>1. CASE UNCHANGED status
        BY <1>16, <2>4, <4>1 DEF PromoteRestored, StartFirstFails, IsFirst, Fault
      <4>2. CASE Started = {} /\ SetStatus(t, "started")
        <5>1. active' = t
          BY <2>4 DEF StartFirstFails
        <5> HIDE DEF DurableInv
        <5>2. QED
          BY <4>2, <5>1, OnlyOneStarts
      <4>3. QED
        BY <2>4, <4>1, <4>2 DEF StartFirstFails
    <3>5. CommitDecides'
      BY <1>16, <2>4 DEF PromoteRestored, StartFirstFails, IsFirst, Fault
    <3>6. EndedTurnsAreClosed'
      BY <1>16, <2>4 DEF PromoteRestored, StartFirstFails, IsFirst, Fault
    <3>7. QED
      BY <3>1, <3>2, <3>3, <3>4, <3>5, <3>6
  <2> HIDE DEF DurableInv
  <2>5. QED
    BY <1>16, <2>1, <2>2, <2>3, <2>4 DEF PromoteRestored, PromoteQueuedTurn
<1>17. ASSUME NEW t \in Turn, PassDeadline(t) PROVE DurableInv'
  BY <1>17 DEF PassDeadline
<1>18. ASSUME Crash PROVE DurableInv'
  <2>1. LogTypeOK'
    BY <1>18 DEF Crash
  <2>2. AdmissionTypeOK'
    BY <1>18 DEF Crash
  <2>3. RunTypeOK'
    BY <1>18 DEF Crash
  <2>4. EnvironmentTypeOK'
    BY <1>18 DEF Crash
  <2>5. IdentitiesAreFresh'
    BY <1>18 DEF Crash
  <2>6. PhaseAgrees'
    BY <1>18 DEF Crash
  <2>7. ActiveAgrees'
    BY <1>18 DEF Crash
  <2>8. CommitDecides'
    BY <1>18 DEF Crash
  <2>9. EndedTurnsAreClosed'
    BY <1>18 DEF Crash
  <2>10. QED
    BY <2>1, <2>2, <2>3, <2>4, <2>5, <2>6, <2>7, <2>8, <2>9
<1>19. ASSUME Open PROVE DurableInv'
  BY <1>19 DEF Open, RecoverIncomplete, RecoveredStatus
<1>23. ASSUME OpenFails PROVE DurableInv'
  BY <1>23 DEF OpenFails, RecoverIncomplete, RecoveredStatus
<1>20. CASE UNCHANGED vars
  BY <1>20 DEF vars
<1> HIDE DEF DurableInv
<1>21. QED
  BY <1>22, <1>23, <1>1, <1>2, <1>3, <1>4, <1>5, <1>6, <1>7, <1>8, <1>9, <1>10, <1>11, <1>12,
     <1>13, <1>14, <1>15, <1>16, <1>17, <1>18, <1>19, <1>20 DEF Next

HIDE DEF DurableInv, TypeOK, LogTypeOK, AdmissionTypeOK, RunTypeOK, EnvironmentTypeOK,
         IdentitiesAreFresh, PhaseAgrees, ActiveAgrees, CommitDecides, EndedTurnsAreClosed

\* DurableInv is an inductive invariant of a Thread.
THEOREM DurableInvariant == Spec => []DurableInv
  BY DurableInit, DurableStep, PTL DEF Spec

\* Every variable keeps its type, for any number of turns, queue entries and
\* failing appends.
THEOREM TypeCorrect == Spec => []TypeOK
<1>1. DurableInv => TypeOK
  BY DEF DurableInv
<1>2. QED
  BY <1>1, DurableInvariant, PTL

\* The durable TurnCommit of a turn decides its terminal, wherever the process
\* dies and whichever append throws (finalizeTurn, recoverIncomplete).
THEOREM CommitsDecide == Spec => []CommitDecides
<1>1. DurableInv => CommitDecides
  BY DEF DurableInv
<1>2. QED
  BY <1>1, DurableInvariant, PTL

\* No turn is published as ended with an open item, whatever fails.
THEOREM EndedTurnsStayClosed == Spec => []EndedTurnsAreClosed
<1>1. DurableInv => EndedTurnsAreClosed
  BY DEF DurableInv
<1>2. QED
  BY <1>1, DurableInvariant, PTL

\* At most one turn is active, in the log and in the log and the runtime together.
THEOREM AtMostOneActiveTurn == Spec => []OneActiveTurn
<1>1. DurableInv => OneActiveTurn
  BY DEF DurableInv, TypeOK, AdmissionTypeOK, RunTypeOK, PhaseAgrees, ActiveAgrees,
         OneActiveTurn, Running
<1>2. QED
  BY <1>1, DurableInvariant, PTL

\* No handler moves a fact about a turn backward.
LEMMA ForwardStep == ASSUME DurableInv, [Next]_vars PROVE MoveForward
<1> USE DEF MoveForward, Rank, LogTypeOK, AdmissionTypeOK, RunTypeOK, EnvironmentTypeOK,
        IdentitiesAreFresh, PhaseAgrees
<1>a. /\ LogTypeOK /\ AdmissionTypeOK /\ RunTypeOK /\ EnvironmentTypeOK
      /\ IdentitiesAreFresh /\ PhaseAgrees
  BY DEF DurableInv, TypeOK
<1>1. ASSUME NEW k \in {"regular", "maintenance"}, NEW c \in BOOLEAN,
             StartIdle(k, c) \/ Enqueue(k, c)
      PROVE  MoveForward
  BY <1>a, <1>1 DEF StartIdle, Enqueue, Allocate
<1>2. ASSUME NEW k \in {"regular", "maintenance"}, StartSettling(k) \/ RequestFails(k)
      PROVE  MoveForward
  BY <1>a, <1>2 DEF StartSettling, RequestFails, Allocate
<1>3. ASSUME Finalize PROVE MoveForward
  BY <1>a, <1>3 DEF Finalize, PublishTerminal, RecoverInstead, PublishFails, MayPublish,
                    RecoverIncomplete, RecoveredStatus
<1>4. ASSUME Promote PROVE MoveForward
  <2>1. ASSUME NEW m \in BOOLEAN, NEW c \in BOOLEAN, NEW t \in Turn,
               BeginSuccessor(t, m, c),
               status' = WithExpired(Overdue, [status EXCEPT ![t] = "started"])
        PROVE  MoveForward
    BY <1>a, <2>1 DEF BeginSuccessor, WithExpired, Overdue, IsFirst
  <2>2. CASE status' = WithExpired(Overdue, status)
    BY <1>a, <2>2 DEF WithExpired, Overdue
  <2> HIDE DEF MoveForward
  <2>3. QED
    BY <1>4, <2>1, <2>2 DEF Promote
<1>5. ASSUME PromoteFails PROVE MoveForward
  <2>1. ASSUME NEW m \in BOOLEAN, NEW c \in BOOLEAN, NEW t \in Turn,
               BeginSuccessor(t, m, c), StartFails(t)
        PROVE  MoveForward
    BY <1>a, <2>1 DEF BeginSuccessor, StartFails, WithExpired, Overdue, IsFirst
  <2>2. ASSUME NEW E \in SUBSET Overdue, status' = WithExpired(E, status)
        PROVE  MoveForward
    BY <1>a, <2>2 DEF WithExpired, Overdue
  <2> HIDE DEF MoveForward
  <2>3. QED
    BY <1>5, <2>1, <2>2 DEF PromoteFails
<1>6. ASSUME Settle \/ PromoteRestored PROVE MoveForward
  <2>1. ASSUME NEW t \in Turn, StartFirst(t) \/ StartFirstFails(t) PROVE MoveForward
    BY <1>a, <2>1 DEF StartFirst, StartFirstFails, IsFirst
  <2>2. CASE UNCHANGED status
    BY <2>2
  <2> HIDE DEF MoveForward
  <2>3. QED
    BY <1>6, <2>1, <2>2 DEF Settle, PromoteRestored, PromoteQueuedTurn, StartSuccessor,
                            DropSuccessor, StayIdle
<1>7. ASSUME Open \/ OpenFails PROVE MoveForward
  BY SMTT(30), <1>a, <1>7 DEF Open, OpenFails, RecoverIncomplete, RecoveredStatus
<1>8. CASE UNCHANGED status
  BY <1>8
<1>9. ASSUME \/ Interrupt \/ InterruptFails \/ Look \/ Close \/ StartItem \/ FinishItem \/ Crash
             \/ \E s \in Terminal : Commit(s) \/ Return(s)
             \/ \E t \in Turn : PassDeadline(t)
             \/ UNCHANGED vars
      PROVE  UNCHANGED status
  BY <1>9 DEF Interrupt, InterruptFails, Look, Close, StartItem, FinishItem, Crash, Commit, Return,
              PassDeadline, vars
<1> HIDE DEF MoveForward
<1>10. QED
  BY <1>1, <1>2, <1>3, <1>4, <1>5, <1>6, <1>7, <1>8, <1>9 DEF Next

\* What the log says of a turn only moves forward, whatever fails.
THEOREM StatusNeverMovesBack == Spec => StatusMovesForward
<1>1. DurableInv /\ [Next]_vars => [MoveForward]_vars
  BY ForwardStep
<1>2. QED
  BY <1>1, DurableInvariant, PTL DEF Spec, StatusMovesForward

-----------------------------------------------------------------------------
(* The log, admission and the runner agree.                                *)

\* While a run is on, or its successor waits for it to settle, admission's
\* active turn is durably active; no turn stays admitted without either.
AdmissionIsDurable ==
  /\ phase \in {"running", "finalize"} => status[run] = "started" \/ run \in thrown
  /\ phase = "settling" /\ active # None => status[active] = "started" \/ active \in thrown

\* A turn that has not begun was not run, and a successor that waits is as new.
BegunOnly ==
  /\ \A t \in ran : status[t] \in Begun \/ t \in thrown
  /\ phase = "settling" /\ active # None => active \notin ran \/ active \in thrown

\* close() empties the queue, and only an open Thread is closed.
ClosedQueueIsEmpty == closed => alive /\ queue = {}

\* AcceptedTurnsAreAdmitted, in a closed Thread too where it stays true.
NothingWaitsForever == phase = "idle" /\ active # None => active \in thrown

Agreement ==
  /\ AdmissionIsDurable
  /\ BegunOnly
  /\ ClosedQueueIsEmpty
  /\ NothingWaitsForever
  /\ AcceptedTurnsAreAdmitted
  /\ QueueIsDurable

AgreementInv == DurableInv /\ Agreement

-----------------------------------------------------------------------------
HIDE MaxFaultsIsNat
HIDE DEF DurableInv, TypeOK, LogTypeOK, AdmissionTypeOK, RunTypeOK, EnvironmentTypeOK,
         IdentitiesAreFresh, PhaseAgrees, ActiveAgrees, CommitDecides, EndedTurnsAreClosed
USE DEF Agreement, AdmissionIsDurable, BegunOnly, ClosedQueueIsEmpty, NothingWaitsForever,
        AcceptedTurnsAreAdmitted, QueueIsDurable, Running

\* A new Thread has no turn and an empty queue.
LEMMA AgreementInit == ASSUME Init PROVE AgreementInv
<1>1. Agreement
  BY DEF Init
<1>2. QED
  BY <1>1, DurableInit DEF AgreementInv

\* Every handler, the crash and the restart preserve the agreement, also when an
\* append throws or a command arrives while a turn settles.
LEMMA AgreementStep ==
  ASSUME DurableInv, Agreement, [Next]_vars
  PROVE  Agreement'
<1>a. /\ LogTypeOK /\ AdmissionTypeOK /\ RunTypeOK /\ EnvironmentTypeOK
      /\ IdentitiesAreFresh /\ PhaseAgrees /\ ActiveAgrees
  BY DEF DurableInv, TypeOK
<1> USE <1>a DEF LogTypeOK, AdmissionTypeOK, RunTypeOK, EnvironmentTypeOK,
        IdentitiesAreFresh, PhaseAgrees, ActiveAgrees
<1>1. ASSUME NEW k \in {"regular", "maintenance"}, NEW c \in BOOLEAN, StartIdle(k, c)
      PROVE  Agreement'
  BY <1>1 DEF StartIdle, Allocate, Schedule, Listening
<1>2. ASSUME NEW k \in {"regular", "maintenance"}, NEW c \in BOOLEAN, Enqueue(k, c)
      PROVE  Agreement'
  BY <1>2 DEF Enqueue, Allocate, Listening
<1>3. ASSUME NEW k \in {"regular", "maintenance"}, StartSettling(k) PROVE Agreement'
  BY <1>3 DEF StartSettling, Allocate, Listening
<1>4. ASSUME NEW k \in {"regular", "maintenance"}, RequestFails(k) PROVE Agreement'
  BY <1>4 DEF RequestFails, Allocate, Listening
<1>5. ASSUME Interrupt \/ InterruptFails PROVE Agreement'
  <2>1. /\ queue' = Retained /\ ~closed
        /\ UNCHANGED <<status, active, closed, run, phase, alive, overdue, ran, thrown>>
    BY <1>5 DEF Interrupt, InterruptFails, Listening
  <2>2. QED
    BY <2>1
<1>6. ASSUME Look PROVE Agreement'
  BY <1>6 DEF Look, Listening
<1>7. ASSUME Close PROVE Agreement'
  BY <1>7 DEF Close, Abort
<1>8. ASSUME StartItem PROVE Agreement'
  BY <1>8 DEF StartItem, Running
<1>9. ASSUME FinishItem PROVE Agreement'
  BY <1>9 DEF FinishItem, Running
<1>10. ASSUME NEW s \in Terminal, Commit(s) \/ Return(s) PROVE Agreement'
  <2>1. CASE Commit(s)
    BY <2>1 DEF Commit
  <2>2. CASE Return(s)
    BY <2>2 DEF Return, Running
  <2>3. QED
    BY <1>10, <2>1, <2>2
<1>11. ASSUME Finalize PROVE Agreement'
  <2>1. CASE PublishTerminal
    BY <1>11, <2>1 DEF Finalize, PublishTerminal, MayPublish, NeedsCommit
  <2>2. CASE RecoverInstead
    BY <1>11, <2>2 DEF Finalize, RecoverInstead, RecoverIncomplete, RecoveredStatus
  <2>3. CASE PublishFails
    <3>1. CASE RecoverIncomplete
      BY <1>11, <2>3, <3>1 DEF Finalize, PublishFails, RecoverIncomplete, RecoveredStatus
    <3>2. CASE SetStatus(run, outcome)
      BY <1>11, <2>3, <3>2 DEF Finalize, PublishFails, MayPublish
    <3> HIDE DEF Agreement
    <3>3. QED
      BY <2>3, <3>1, <3>2 DEF PublishFails
  <2> HIDE DEF Agreement
  <2>4. QED
    BY <1>11, <2>1, <2>2, <2>3 DEF Finalize
<1>12. ASSUME Promote PROVE Agreement'
  <2>1. ASSUME NEW m \in BOOLEAN, NEW c \in BOOLEAN, NEW t \in Turn,
               deferred' = Defers(m, c), BeginSuccessor(t, m, c),
               status' = WithExpired(Overdue, [status EXCEPT ![t] = "started"])
        PROVE  Agreement'
    <3> USE <1>12, <2>1 DEF Promote, WithExpired, Overdue, BeginSuccessor, IsFirst
    <3>1. AdmissionIsDurable'
      OBVIOUS
    <3>2. BegunOnly'
      BY SMTT(30)
    <3>3. ClosedQueueIsEmpty' /\ NothingWaitsForever'
      OBVIOUS
    <3>4. AcceptedTurnsAreAdmitted'
      OBVIOUS
    <3>5. QueueIsDurable'
      OBVIOUS
    <3>6. QED
      BY <3>1, <3>2, <3>3, <3>4, <3>5
  <2>2. ASSUME NEW m \in BOOLEAN, NEW c \in BOOLEAN,
               deferred' = Defers(m, c), BeginNothing(m, c),
               status' = WithExpired(Overdue, status)
        PROVE  Agreement'
    BY <1>12, <2>2 DEF Promote, WithExpired, Overdue, BeginNothing
  <2> HIDE DEF Agreement
  <2>3. QED
    BY <1>12, <2>1, <2>2 DEF Promote
<1>13. ASSUME PromoteFails PROVE Agreement'
  <2>1. ASSUME NEW m \in BOOLEAN, NEW c \in BOOLEAN, NEW t \in Turn,
               BeginSuccessor(t, m, c), StartFails(t), thrown' = thrown \union {t}
        PROVE  Agreement'
    <3> USE <1>13, <2>1 DEF PromoteFails, StartFails, WithExpired, Overdue,
                            BeginSuccessor, IsFirst
    <3>1. AdmissionIsDurable'
      OBVIOUS
    <3>2. BegunOnly'
      BY SMTT(30)
    <3>3. ClosedQueueIsEmpty' /\ NothingWaitsForever'
      OBVIOUS
    <3>4. AcceptedTurnsAreAdmitted'
      OBVIOUS
    <3>5. QueueIsDurable'
      BY SMTT(30)
    <3>6. QED
      BY <3>1, <3>2, <3>3, <3>4, <3>5
  <2>2. ASSUME NEW m \in BOOLEAN, NEW c \in BOOLEAN, BeginNothing(m, c),
               NEW E \in SUBSET Overdue, status' = WithExpired(E, status), UNCHANGED thrown
        PROVE  Agreement'
    BY SMTT(30), <1>13, <2>2 DEF PromoteFails, WithExpired, Overdue, BeginNothing
  <2> HIDE DEF Agreement
  <2>3. QED
    BY <1>13, <2>1, <2>2 DEF PromoteFails
<1>14. ASSUME Settle PROVE Agreement'
  <2>1. CASE StartSuccessor
    BY <1>14, <2>1 DEF Settle, StartSuccessor, Schedule
  <2>2. CASE DropSuccessor
    BY <1>14, <2>2 DEF Settle, DropSuccessor
  <2>3. CASE active = None /\ StayIdle
    BY <1>14, <2>3 DEF Settle, StayIdle
  <2>4. ASSUME NEW t \in Turn, StartFirst(t)
        PROVE  Agreement'
    BY <1>14, <2>4 DEF Settle, StartFirst, Schedule, IsFirst
  <2>5. ASSUME NEW t \in Turn, StartFirstFails(t), active = None
        PROVE  Agreement'
    BY SMTT(30), <1>14, <2>5 DEF Settle, StartFirstFails, IsFirst
  <2> HIDE DEF Agreement
  <2>6. QED
    BY <1>14, <2>1, <2>2, <2>3, <2>4, <2>5 DEF Settle, PromoteQueuedTurn
<1>15. ASSUME PromoteRestored PROVE Agreement'
  <2>1. CASE phase = "idle" /\ StayIdle
    BY <1>15, <2>1 DEF PromoteRestored, StayIdle
  <2>2. ASSUME phase = "idle", NEW t \in Turn, StartFirst(t)
        PROVE  Agreement'
    BY <1>15, <2>2 DEF PromoteRestored, StartFirst, Schedule, IsFirst
  <2>3. ASSUME phase = "idle", NEW t \in Turn, StartFirstFails(t)
        PROVE  Agreement'
    BY SMTT(30), <1>15, <2>3 DEF PromoteRestored, StartFirstFails, IsFirst
  <2>4. CASE /\ phase # "idle"
             /\ UNCHANGED <<status, active, intent, queue, run, phase, aborted, ran,
                            faults, thrown>>
    BY <1>15, <2>4 DEF PromoteRestored
  <2> HIDE DEF Agreement
  <2>5. QED
    BY <1>15, <2>1, <2>2, <2>3, <2>4 DEF PromoteRestored, PromoteQueuedTurn
<1>16. ASSUME NEW t \in Turn, PassDeadline(t) PROVE Agreement'
  BY <1>16 DEF PassDeadline
<1>17. ASSUME Crash PROVE Agreement'
  BY <1>17 DEF Crash
<1>18. ASSUME Open PROVE Agreement'
  BY <1>18 DEF Open, RecoverIncomplete, RecoveredStatus
<1>19. ASSUME OpenFails PROVE Agreement'
  BY <1>19 DEF OpenFails, RecoverIncomplete, RecoveredStatus
<1>20. CASE UNCHANGED vars
  BY <1>20 DEF vars
<1> HIDE DEF Agreement
<1>21. QED
  BY <1>1, <1>2, <1>3, <1>4, <1>5, <1>6, <1>7, <1>8, <1>9, <1>10, <1>11, <1>12,
     <1>13, <1>14, <1>15, <1>16, <1>17, <1>18, <1>19, <1>20 DEF Next

HIDE DEF Agreement, AdmissionIsDurable, BegunOnly, ClosedQueueIsEmpty,
         NothingWaitsForever, AcceptedTurnsAreAdmitted, QueueIsDurable, Running

\* The log, admission and the runner agree in every reachable state.
THEOREM AgreementInvariant == Spec => []AgreementInv
<1>1. AgreementInv /\ [Next]_vars => AgreementInv'
  BY DurableStep, AgreementStep DEF AgreementInv
<1>2. QED
  BY <1>1, AgreementInit, PTL DEF Spec

\* A runner only ever works on the durably active turn, unless the append of its
\* start has thrown: whatever else fails, and whenever commands are served.
THEOREM RunsAreDurable == Spec => []RunIsDurable
<1>1. AgreementInv => RunIsDurable
  BY DEF AgreementInv, Agreement, AdmissionIsDurable, RunIsDurable, Running
<1>2. QED
  BY <1>1, AgreementInvariant, PTL

\* The log, admission and the runtime disagree on the active turn only about a
\* turn whose start has thrown, commands served while a turn settles included.
THEOREM AcceptedTurnsStayAdmitted == Spec => []AcceptedTurnsAreAdmitted
<1>1. AgreementInv => AcceptedTurnsAreAdmitted
  BY DEF AgreementInv, Agreement
<1>2. QED
  BY <1>1, AgreementInvariant, PTL

\* The queue of an open Thread is the durable queue, up to overdue entries and
\* those whose request or start has thrown.
THEOREM QueuesAreDurable == Spec => []QueueIsDurable
<1>1. AgreementInv => QueueIsDurable
  BY DEF AgreementInv, Agreement
<1>2. QED
  BY <1>1, AgreementInvariant, PTL

\* A handler that hands a turn to a runner takes one that has never run.
LEMMA RunNewStep == ASSUME AgreementInv, [Next]_vars PROVE RunNew
<1>a. /\ LogTypeOK /\ AdmissionTypeOK /\ RunTypeOK /\ EnvironmentTypeOK
      /\ IdentitiesAreFresh /\ PhaseAgrees /\ BegunOnly
  BY DEF AgreementInv, Agreement, DurableInv, TypeOK
<1> USE DEF RunNew, LogTypeOK, AdmissionTypeOK, RunTypeOK, EnvironmentTypeOK,
        IdentitiesAreFresh, PhaseAgrees, BegunOnly
<1>1. ASSUME NEW k \in {"regular", "maintenance"}, NEW c \in BOOLEAN, StartIdle(k, c)
      PROVE  RunNew
  BY SMTT(30), <1>a, <1>1 DEF StartIdle, Allocate, Schedule
<1>2. ASSUME Settle PROVE RunNew
  <2>1. CASE StartSuccessor
    BY <1>a, <1>2, <2>1 DEF Settle, StartSuccessor, Schedule
  <2>2. ASSUME NEW t \in Turn, StartFirst(t) PROVE RunNew
    BY <1>a, <2>2 DEF StartFirst, Schedule, IsFirst
  <2>3. QED
    BY <1>2, <2>1, <2>2
    DEF Settle, PromoteQueuedTurn, DropSuccessor, StayIdle, StartFirstFails
<1>3. ASSUME PromoteRestored PROVE RunNew
  <2>1. ASSUME NEW t \in Turn, StartFirst(t) PROVE RunNew
    BY <1>a, <2>1 DEF StartFirst, Schedule, IsFirst
  <2>2. QED
    BY <1>3, <2>1 DEF PromoteRestored, PromoteQueuedTurn, StayIdle, StartFirstFails
<1>4. ASSUME \/ \E k \in {"regular", "maintenance"}, c \in BOOLEAN : Enqueue(k, c)
             \/ \E k \in {"regular", "maintenance"} : StartSettling(k) \/ RequestFails(k)
             \/ Interrupt \/ InterruptFails \/ Look \/ Close \/ StartItem \/ FinishItem
             \/ \E s \in Terminal : Commit(s) \/ Return(s)
             \/ Finalize \/ Promote \/ PromoteFails \/ Crash \/ Open \/ OpenFails
             \/ \E t \in Turn : PassDeadline(t)
             \/ UNCHANGED vars
      PROVE  RunNew
  BY <1>4 DEF Enqueue, StartSettling, RequestFails, Interrupt, InterruptFails, Look, Close,
              StartItem, FinishItem, Commit, Return, Finalize, Promote, PromoteFails, Crash,
              Open, OpenFails, PassDeadline, vars
<1> HIDE DEF RunNew
<1>5. QED
  BY <1>1, <1>2, <1>3, <1>4 DEF Next

\* A handler that starts a queued turn starts the first one that is not overdue,
\* and one that continues a turn finds no other waiting.
LEMMA ServeInOrderStep == ASSUME AgreementInv, [Next]_vars PROVE ServeInOrder
<1>a. /\ LogTypeOK /\ AdmissionTypeOK /\ RunTypeOK /\ EnvironmentTypeOK
      /\ IdentitiesAreFresh /\ PhaseAgrees /\ ActiveAgrees /\ QueueIsDurable
      /\ ClosedQueueIsEmpty
  BY DEF AgreementInv, Agreement, DurableInv, TypeOK
<1> USE DEF ServeInOrder, TakesItsTurn, LogTypeOK, AdmissionTypeOK, RunTypeOK,
        EnvironmentTypeOK, IdentitiesAreFresh, PhaseAgrees, ActiveAgrees, QueueIsDurable,
        ClosedQueueIsEmpty
<1>1. ASSUME NEW k \in {"regular", "maintenance"}, NEW c \in BOOLEAN,
             StartIdle(k, c) \/ Enqueue(k, c)
      PROVE  ServeInOrder
  BY <1>a, <1>1 DEF StartIdle, Enqueue, Allocate, Listening
<1>2. ASSUME NEW k \in {"regular", "maintenance"}, StartSettling(k) \/ RequestFails(k)
      PROVE  ServeInOrder
  BY <1>a, <1>2 DEF StartSettling, RequestFails, Allocate, Listening
<1>3. ASSUME Finalize PROVE ServeInOrder
  BY <1>a, <1>3 DEF Finalize, PublishTerminal, RecoverInstead, PublishFails, MayPublish,
                    RecoverIncomplete, RecoveredStatus
<1>4. ASSUME NEW t \in Turn, StartFirst(t) \/ StartFirstFails(t), alive,
             phase \in {"idle", "settling"}
      PROVE  ServeInOrder
  BY <1>a, <1>4 DEF StartFirst, StartFirstFails, IsFirst
<1>5. ASSUME Promote PROVE ServeInOrder
  <2>1. ASSUME NEW m \in BOOLEAN, NEW c \in BOOLEAN, NEW t \in Turn,
               BeginSuccessor(t, m, c),
               status' = WithExpired(Overdue, [status EXCEPT ![t] = "started"])
        PROVE  ServeInOrder
    <3>1. SUFFICES ASSUME NEW u \in Queued, u < t, TakesItsTurn(t), u \notin overdue
                   PROVE  u \in thrown
      BY <1>a, <1>5, <2>1 DEF WithExpired, Overdue
    <3>2. CASE u \notin queue
      <4>1. ~closed
        BY <1>a, <2>1, <3>1 DEF BeginSuccessor, IsFirst, WithExpired, Overdue
      <4>2. QED
        BY <1>a, <1>5, <3>1, <3>2, <4>1 DEF Promote
    <3>3. CASE u \in queue
      BY <1>a, <2>1, <3>1, <3>3 DEF BeginSuccessor, IsFirst, WithExpired, Overdue
    <3>4. QED
      BY <3>2, <3>3
  <2>2. CASE status' = WithExpired(Overdue, status)
    BY <1>a, <2>2 DEF WithExpired, Overdue
  <2> HIDE DEF ServeInOrder
  <2>3. QED
    BY <1>5, <2>1, <2>2 DEF Promote
<1>6. ASSUME PromoteFails PROVE ServeInOrder
  <2>1. ASSUME NEW t \in Turn, StartFails(t) PROVE ServeInOrder
    BY <1>a, <2>1 DEF StartFails, WithExpired, Overdue
  <2>2. ASSUME NEW E \in SUBSET Overdue, status' = WithExpired(E, status)
        PROVE  ServeInOrder
    BY <1>a, <2>2 DEF WithExpired, Overdue
  <2> HIDE DEF ServeInOrder
  <2>3. QED
    BY <1>6, <2>1, <2>2 DEF PromoteFails
<1>7. CASE UNCHANGED status
  BY <1>a, <1>7
<1>8. ASSUME Settle \/ PromoteRestored PROVE ServeInOrder
  <2> HIDE DEF ServeInOrder
  <2>1. QED
    BY <1>4, <1>7, <1>8 DEF Settle, PromoteRestored, PromoteQueuedTurn, StartSuccessor,
                            DropSuccessor, StayIdle
<1>9. ASSUME Open \/ OpenFails PROVE ServeInOrder
  BY <1>a, <1>9 DEF Open, OpenFails, RecoverIncomplete, RecoveredStatus
<1>10. ASSUME \/ Interrupt \/ InterruptFails \/ Look \/ Close \/ StartItem \/ FinishItem
              \/ Crash
              \/ \E s \in Terminal : Commit(s) \/ Return(s)
              \/ \E t \in Turn : PassDeadline(t)
              \/ UNCHANGED vars
       PROVE  UNCHANGED status
  BY <1>10 DEF Interrupt, InterruptFails, Look, Close, StartItem, FinishItem, Crash, Commit,
               Return, PassDeadline, vars
<1> HIDE DEF ServeInOrder
<1>11. QED
  BY <1>1, <1>2, <1>3, <1>5, <1>6, <1>7, <1>8, <1>9, <1>10 DEF Next

\* A turn is handed to a runner at most once, across crashes and restarts, unless
\* the append of its start has thrown.
THEOREM TurnsRunOnce == Spec => RunsOnce
<1>1. AgreementInv /\ [Next]_vars => [RunNew]_vars
  BY RunNewStep
<1>2. QED
  BY <1>1, AgreementInvariant, PTL DEF Spec, RunsOnce

\* The queue is served in the order of its entries and before any continuation,
\* overdue entries and those whose request has thrown excepted.
THEOREM QueueIsServedInOrder == Spec => ServedInOrder
<1>1. AgreementInv /\ [Next]_vars => [ServeInOrder]_vars
  BY ServeInOrderStep
<1>2. QED
  BY <1>1, AgreementInvariant, PTL DEF Spec, ServedInOrder
=============================================================================
