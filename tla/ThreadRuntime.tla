---------------------------- MODULE ThreadRuntime ----------------------------
(***************************************************************************)
(* One Thread: src/src/runtime/thread-runtime.ts with the admission        *)
(* controller (thread-admission.ts) it owns and the durable turn facts it  *)
(* appends (thread-projection.ts, recoverIncomplete of                     *)
(* thread-event-store.ts).                                                 *)
(*                                                                         *)
(* Everything runs on one JavaScript thread, so a handler is atomic up to  *)
(* its next await.  finalizeTurn appends several events in a row; it is    *)
(* cut after the terminal event, because the process may die there, and no *)
(* command is served in between.  Between finalizeTurn and the end of      *)
(* onTurnSettled (phase "settling") the event loop serves commands.        *)
(*                                                                         *)
(* A turn and the queue entry it was promoted from share an identity, and  *)
(* identities grow in the order requests are accepted: the queue is a set, *)
(* its first element the smallest.  Inputs, byte accounting and steering   *)
(* (which only appends a closed item) are left out.                        *)
(***************************************************************************)
EXTENDS Integers, FiniteSets

CONSTANTS
  MaxTurns,    \* bound: turns of one behaviour
  MaxQueued,   \* maxQueuedItems
  MaxFaults    \* bound: appends that throw

ASSUME MaxTurnsIsNat == MaxTurns \in Nat
ASSUME MaxQueuedIsPositive == MaxQueued \in Nat \ {0}
ASSUME MaxFaultsIsNat == MaxFaults \in Nat

Turn == 1 .. MaxTurns
None == 0
TurnOrNone == Turn \union {None}

Terminal == {"completed", "failed", "interrupted"}
Status == {"unknown", "queued", "started", "expired"} \union Terminal
Phase == {"idle", "running", "finalize", "promote", "settling"}

VARIABLES
  \* The durable projection of the Thread's event log.
  status,    \* status[t]: the last fact about turn or queue entry t
  kind,      \* kind[t]: "regular" (goal turns included) or "maintenance"
  commit,    \* commit[t]: the terminal of the TurnCommit of t, or "none"
  asked,     \* the turns with a durable interrupt intent
  open,      \* the turns with an item that has no terminal event
  \* The admission controller.
  active,    \* activeTurn
  intent,    \* activeTurn.interruptIntentId is set
  queue,     \* the queue
  closed,    \* shutdown
  \* The runtime.
  run,       \* the turn of activeRun
  phase,     \* where activeRun is
  aborted,   \* activeAbort has fired
  outcome,   \* what the runner returned, normalized
  published, \* finalizeTurn appended the terminal event itself
  deferred,  \* deferredGoalContinuation is set
  controls,  \* goalControlTurns and queuedGoalControls
  promoting, \* the microtask of the constructor is pending
  \* The environment.
  alive,     \* the process runs
  overdue,   \* the queue entries whose deadline has passed
  next,      \* the next identity
  faults,    \* appends that have thrown
  ran,       \* history: the turns handed to a runner
  thrown     \* history: the turns whose start, or place in the queue, has thrown
             \* after admission or the log had taken it

durable == <<status, kind, commit, asked, open>>
admission == <<active, intent, queue, closed>>
runtime == <<run, phase, aborted, outcome, published, deferred, controls, promoting>>
environment == <<alive, overdue, next, faults, ran, thrown>>
vars == <<durable, admission, runtime, environment>>

LogTypeOK ==
  /\ status \in [Turn -> Status]
  /\ kind \in [Turn -> {"regular", "maintenance"}]
  /\ commit \in [Turn -> Terminal \union {"none"}]
  /\ asked \in SUBSET Turn
  /\ open \in SUBSET Turn

AdmissionTypeOK ==
  /\ active \in TurnOrNone
  /\ intent \in BOOLEAN
  /\ queue \in SUBSET Turn
  /\ closed \in BOOLEAN

RunTypeOK ==
  /\ run \in TurnOrNone
  /\ phase \in Phase
  /\ aborted \in BOOLEAN
  /\ outcome \in Terminal \union {"none"}
  /\ published \in BOOLEAN
  /\ deferred \in BOOLEAN
  /\ controls \in SUBSET Turn
  /\ promoting \in BOOLEAN

EnvironmentTypeOK ==
  /\ alive \in BOOLEAN
  /\ overdue \in SUBSET Turn
  /\ next \in 1 .. MaxTurns + 1
  /\ faults \in 0 .. MaxFaults
  /\ ran \in SUBSET Turn
  /\ thrown \in SUBSET Turn

TypeOK == LogTypeOK /\ AdmissionTypeOK /\ RunTypeOK /\ EnvironmentTypeOK

\* A new Thread whose process is about to open it.
Init ==
  /\ status = [t \in Turn |-> "unknown"]
  /\ kind = [t \in Turn |-> "regular"]
  /\ commit = [t \in Turn |-> "none"]
  /\ asked = {} /\ open = {}
  /\ active = None /\ intent = FALSE /\ queue = {} /\ closed = FALSE
  /\ run = None /\ phase = "idle" /\ aborted = FALSE
  /\ outcome = "none" /\ published = FALSE /\ deferred = FALSE
  /\ controls = {} /\ promoting = FALSE
  /\ alive = FALSE /\ overdue = {} /\ next = 1 /\ faults = 0
  /\ ran = {} /\ thrown = {}

-----------------------------------------------------------------------------
(* The projection and the queue.                                           *)

\* The projection's activeTurnId: startTurn refuses a second one.
Started == {t \in Turn : status[t] = "started"}
Queued == {t \in Turn : status[t] = "queued"}

\* dropExpired: every look at the admission state forgets overdue entries.
Retained == queue \ overdue

\* Mutant: the queue is a stack.
IsLast(t, q) == t \in q /\ \A u \in q : u <= t

IsFirst(t, q) == t \in q /\ \A u \in q : t <= u

SetStatus(t, s) == status' = [status EXCEPT ![t] = s]

\* Mutant: recovery forgets the commit.
InterruptAll == [t \in Turn |-> IF status[t] # "started" THEN status[t] ELSE "interrupted"]

\* recoverIncomplete: open items become indeterminate, the active turn ends as
\* its commit says, or as interrupted.
RecoveredStatus ==
  [t \in Turn |-> IF status[t] # "started" THEN status[t]
                  ELSE IF commit[t] = "none" THEN "interrupted" ELSE commit[t]]

\* Mutant: the constructor does not recover.
KeepIncomplete == UNCHANGED <<status, open>>
RecoverIncomplete == status' = RecoveredStatus /\ open' = {}

\* One more append throws.
Fault == faults < MaxFaults /\ faults' = faults + 1

\* scheduleTurn, from a state without activeRun.
Schedule(t) ==
  /\ run' = t
  /\ phase' = "running"
  /\ aborted' = FALSE
  /\ ran' = ran \union {t}

\* A command is served: never inside a synchronous handler.
Listening == alive /\ ~closed /\ phase \in {"idle", "running", "settling"}

-----------------------------------------------------------------------------
(* Requests for a turn: dispatch of turn.start and turn.follow_up,         *)
(* startMaintenance, startGoalControl, startGoalContinuation and, from an  *)
(* idle boundary, startCompactMaintenance.                                 *)

\* What the request is, once it has an identity.
Allocate(k, control) ==
  /\ next \in Turn
  /\ next' = next + 1
  /\ kind' = [kind EXCEPT ![next] = k]
  /\ control => k = "maintenance"
  /\ controls' = IF control THEN controls \union {next} ELSE controls

StartIdle(k, control) ==
  /\ Listening /\ phase = "idle" /\ active = None /\ Started = {}
  /\ Allocate(k, control)
  /\ SetStatus(next, "started")
  /\ active' = next /\ intent' = FALSE
  /\ queue' = Retained
  /\ Schedule(next)
  /\ UNCHANGED <<commit, asked, open, closed, outcome, published, deferred,
                 promoting, alive, overdue, faults, thrown>>

\* activeRun still settles: scheduleTurn throws after the start is durable, and
\* the admission state is restored.
StartSettling(k) ==
  /\ Listening /\ phase = "settling" /\ active = None /\ Started = {}
  /\ Allocate(k, FALSE)
  /\ SetStatus(next, "started")
  /\ queue' = Retained
  /\ thrown' = thrown \union {next}
  /\ UNCHANGED <<commit, asked, open, active, intent, closed, run, phase, aborted,
                 outcome, published, deferred, promoting, alive, overdue, faults, ran>>

Enqueue(k, control) ==
  /\ Listening /\ active # None
  /\ Cardinality(Retained) < MaxQueued
  /\ Allocate(k, control)
  /\ SetStatus(next, "queued")
  /\ queue' = Retained \union {next}
  /\ UNCHANGED <<commit, asked, open, active, intent, closed, run, phase, aborted,
                 outcome, published, deferred, promoting, alive, overdue, faults, ran,
                 thrown>>

\* The append throws after its event has become durable: the admission state is
\* restored, the fact stays.  (When it throws earlier nothing is left at all.)
RequestFails(k) ==
  /\ Listening
  /\ Allocate(k, FALSE)
  /\ \/ active = None /\ Started = {} /\ SetStatus(next, "started")
     \/ /\ active # None /\ Cardinality(Retained) < MaxQueued
        /\ SetStatus(next, "queued")
  /\ queue' = Retained
  /\ Fault
  /\ thrown' = thrown \union {next}
  /\ UNCHANGED <<commit, asked, open, active, intent, closed, run, phase, aborted,
                 outcome, published, deferred, promoting, alive, overdue, ran>>

-----------------------------------------------------------------------------
(* The other commands.                                                     *)

Abort == aborted' = (run # None)

\* The intent is durable first; then the controller of activeRun is aborted,
\* whichever turn it belongs to.  A repeated request changes nothing.
Interrupt ==
  /\ Listening /\ active # None /\ ~intent
  /\ status[active] = "started" /\ active \notin asked
  /\ intent' = TRUE
  /\ asked' = asked \union {active}
  /\ Abort
  /\ queue' = Retained
  /\ UNCHANGED <<status, kind, commit, open, active, closed, run, phase, outcome,
                 published, deferred, controls, promoting, environment>>

\* The append of the intent throws after it has become durable: admission is
\* restored and nothing is aborted.
InterruptFails ==
  /\ Listening /\ active # None /\ ~intent
  /\ status[active] = "started" /\ active \notin asked
  /\ asked' = asked \union {active}
  /\ Fault
  /\ queue' = Retained
  /\ UNCHANGED <<status, kind, commit, open, active, intent, closed, runtime,
                 alive, overdue, next, ran, thrown>>

\* getAdmissionSnapshot, waitForIdle, and every request that is refused.
Look ==
  /\ Listening
  /\ queue' = Retained /\ queue' # queue
  /\ UNCHANGED <<durable, active, intent, closed, runtime, environment>>

Close ==
  /\ alive /\ ~closed /\ phase \in {"idle", "running", "settling"}
  /\ closed' = TRUE
  /\ queue' = {}
  /\ deferred' = FALSE
  /\ controls' = {}
  /\ Abort
  /\ UNCHANGED <<durable, active, intent, run, phase, outcome, published, promoting,
                 environment>>

-----------------------------------------------------------------------------
(* The runner of the active turn (external: any legal use of its context). *)

Running == alive /\ phase = "running"

StartItem ==
  /\ Running /\ status[run] = "started"
  /\ open' = open \union {run}
  /\ UNCHANGED <<status, kind, commit, asked, admission, runtime, environment>>

FinishItem ==
  /\ Running /\ run \in open
  /\ open' = open \ {run}
  /\ UNCHANGED <<status, kind, commit, asked, admission, runtime, environment>>

\* TurnCommitJournal: one commit per active turn, after its items.
Commit(s) ==
  /\ Running /\ status[run] = "started"
  /\ commit[run] = "none" /\ run \notin open
  /\ commit' = [commit EXCEPT ![run] = s]
  /\ UNCHANGED <<status, kind, asked, open, admission, runtime, environment>>

\* The runner returns or throws; an aborted run is interrupted.
Return(s) ==
  /\ Running
  /\ outcome' = IF aborted THEN "interrupted" ELSE s
  /\ phase' = "finalize"
  /\ UNCHANGED <<durable, admission, run, aborted, published, deferred, controls,
                 promoting, environment>>

-----------------------------------------------------------------------------
(* finalizeTurn.                                                           *)

\* requireTurnCommit holds for model turns and goal controls.
NeedsCommit(t) == kind[t] = "regular" \/ t \in controls

\* Mutant: the items of the turn need not be closed.
MayPublishOpenItems ==
  /\ status[run] = "started"
  /\ NeedsCommit(run) \/ commit[run] # "none" => commit[run] = outcome

MayPublish ==
  /\ status[run] = "started" /\ run \notin open
  /\ NeedsCommit(run) \/ commit[run] # "none" => commit[run] = outcome

\* The turn ends as its runner returned.
PublishTerminal ==
  /\ MayPublish
  /\ SetStatus(run, outcome)
  /\ published' = TRUE
  /\ UNCHANGED <<open, faults>>

\* It cannot: open items, or a commit that is missing or says otherwise.
RecoverInstead ==
  /\ ~MayPublish
  /\ RecoverIncomplete
  /\ published' = FALSE
  /\ UNCHANGED faults

\* The append throws, before or after the event is durable.
PublishFails ==
  /\ MayPublish /\ Fault
  /\ \/ RecoverIncomplete
     \/ SetStatus(run, outcome) /\ UNCHANGED open
  /\ published' = FALSE

Finalize ==
  /\ alive /\ phase = "finalize"
  /\ phase' = "promote"
  /\ PublishTerminal \/ RecoverInstead \/ PublishFails
  /\ UNCHANGED <<kind, commit, asked, admission, run, aborted, outcome, deferred,
                 controls, promoting, alive, overdue, next, ran, thrown>>

\* Priority maintenance requested by the runner; continuation requested by
\* onTurnDurablyTerminal.
MaintenanceAllowed == published /\ kind[run] = "regular" /\ outcome = "completed"
ContinuationAllowed == published /\ ~closed

Requested(m, c) == (m => MaintenanceAllowed) /\ (c => ContinuationAllowed)

\* A continuation waits for the maintenance turn that was requested with it.
Defers(m, c) ==
  IF kind[run] = "regular" THEN m /\ c ELSE deferred /\ run \in controls
Continues(m, c) ==
  IF kind[run] = "regular" THEN c /\ ~m
  ELSE IF run \in controls THEN c ELSE outcome = "completed" /\ deferred

\* Admission makes t the active turn: maintenance first, then the queue, then a
\* continuation.  The identity of a turn that was never queued is new.
BeginSuccessor(t, m, c) ==
  /\ \/ m /\ t = next
     \/ ~m /\ IsFirst(t, Retained)
     \/ ~m /\ Retained = {} /\ Continues(m, c) /\ ~closed /\ t = next
  /\ active' = t /\ intent' = FALSE
  /\ queue' = Retained \ {t}
  /\ kind' = IF t # next THEN kind
             ELSE [kind EXCEPT ![t] = IF m THEN "maintenance" ELSE "regular"]
  /\ next' = IF t = next THEN next + 1 ELSE next

\* Nothing succeeds; the bound on identities also ends the succession.
BeginNothing(m, c) ==
  /\ ~m /\ Retained = {}
  /\ Continues(m, c) => closed \/ next \notin Turn
  /\ active' = None /\ intent' = FALSE /\ queue' = {}
  /\ UNCHANGED <<kind, next>>

\* turn.queue_expired is appended for the entries of E.
WithExpired(E, s) == [t \in Turn |-> IF t \in E THEN "expired" ELSE s[t]]
Overdue == queue \ Retained

\* outcome and published are locals of finalizeTurn.
Leave == outcome' = "none" /\ published' = FALSE

Promote ==
  /\ alive /\ phase = "promote"
  /\ phase' = "settling" /\ Leave
  /\ \E m, c \in BOOLEAN :
       /\ Requested(m, c)
       /\ deferred' = Defers(m, c)
       /\ \/ \E t \in Turn :
               /\ BeginSuccessor(t, m, c)
               /\ status' = WithExpired(Overdue, [status EXCEPT ![t] = "started"])
          \/ BeginNothing(m, c) /\ status' = WithExpired(Overdue, status)
  /\ UNCHANGED <<commit, asked, open, closed, run, aborted,
                 controls, promoting, alive, overdue, faults, ran, thrown>>

\* An append after admission moved on throws, durable or not: after some of the
\* expiries, or, after all of them, the start of t.  The catch handler calls
\* finalizeTurn again, which finds the turn already terminal, recovers whatever
\* is durably active, and throws because admission has moved on.
StartFails(t) ==
  \/ \E E \in SUBSET Overdue : status' = WithExpired(E, status)
  \/ status' = WithExpired(Overdue, [status EXCEPT ![t] = "interrupted"])

PromoteFails ==
  /\ alive /\ phase = "promote"
  /\ phase' = "settling" /\ Leave
  /\ Fault
  /\ deferred' = (deferred /\ run \in controls)
  /\ \E m, c \in BOOLEAN :
       /\ Requested(m, c)
       /\ \/ \E t \in Turn :
               /\ BeginSuccessor(t, m, c)
               /\ StartFails(t)
               /\ thrown' = thrown \union {t}
          \/ /\ BeginNothing(m, c)
             /\ Overdue # {}
             /\ \E E \in SUBSET Overdue : status' = WithExpired(E, status)
             /\ UNCHANGED thrown
  /\ UNCHANGED <<commit, asked, open, closed, run, aborted,
                 controls, promoting, alive, overdue, ran>>

-----------------------------------------------------------------------------
(* The end of a run, and the promotion of a restored queue.                *)

\* Mutants: the start is not refused beside another active turn; the entry stays
\* in the queue.
StartBeside(t) ==
  /\ ~closed /\ active = None /\ IsFirst(t, Retained)
  /\ SetStatus(t, "started")
  /\ active' = t /\ intent' = FALSE
  /\ queue' = Retained \ {t}
  /\ Schedule(t)
  /\ UNCHANGED <<faults, thrown>>
StartAndKeep(t) ==
  /\ ~closed /\ active = None /\ IsFirst(t, Retained)
  /\ Started = {}
  /\ SetStatus(t, "started")
  /\ active' = t /\ intent' = FALSE
  /\ queue' = Retained
  /\ Schedule(t)
  /\ UNCHANGED <<faults, thrown>>

\* promoteQueuedTurn from an idle runtime.  Its guard has dropped overdue entries;
\* the two readings of the clock that follow each other are taken as one.
StartFirst(t) ==
  /\ ~closed /\ active = None /\ IsFirst(t, Retained)
  /\ Started = {}
  /\ SetStatus(t, "started")
  /\ active' = t /\ intent' = FALSE
  /\ queue' = Retained \ {t}
  /\ Schedule(t)
  /\ UNCHANGED <<faults, thrown>>

\* Admission has moved on when the append throws, durable or not, or because
\* another turn is durably active: nobody will run the active turn.
StartFirstFails(t) ==
  /\ ~closed /\ active = None /\ IsFirst(t, Retained)
  /\ \/ Started # {} /\ UNCHANGED <<status, faults>>
     \/ Started = {} /\ Fault /\ (UNCHANGED status \/ SetStatus(t, "started"))
  /\ active' = t /\ intent' = FALSE
  /\ queue' = Retained \ {t}
  /\ run' = None /\ phase' = "idle" /\ aborted' = FALSE
  /\ thrown' = thrown \union {t}
  /\ UNCHANGED ran

StayIdle ==
  /\ closed \/ active # None \/ Retained = {}
  /\ queue' = Retained
  /\ run' = None /\ phase' = "idle" /\ aborted' = FALSE
  /\ UNCHANGED <<status, active, intent, ran, faults, thrown>>

PromoteQueuedTurn == StayIdle \/ \E t \in Turn : StartFirst(t) \/ StartFirstFails(t)

\* Mutant: the turn that has begun is not scheduled.
ForgetSuccessor ==
  /\ active # None /\ ~closed
  /\ run' = None /\ phase' = "idle" /\ aborted' = FALSE
  /\ queue' = Retained
  /\ UNCHANGED <<status, active, intent, ran, faults, thrown>>

\* Mutant: the turn that has ended is scheduled.
StartAgain ==
  /\ active # None /\ ~closed
  /\ Schedule(run)
  /\ queue' = Retained
  /\ UNCHANGED <<status, active, intent, faults, thrown>>

\* The turn finalizeTurn has begun is scheduled, or given up after close().
StartSuccessor ==
  /\ active # None /\ ~closed
  /\ Schedule(active)
  /\ queue' = Retained
  /\ UNCHANGED <<status, active, intent, faults, thrown>>

DropSuccessor ==
  /\ active # None /\ closed
  /\ active' = None /\ intent' = FALSE /\ queue' = {}
  /\ run' = None /\ phase' = "idle" /\ aborted' = FALSE
  /\ UNCHANGED <<status, ran, faults, thrown>>

\* onTurnSettled has returned: the finally handler starts the next run.
Settle ==
  /\ alive /\ phase = "settling"
  /\ controls' = controls \ {run}
  /\ \/ StartSuccessor
     \/ DropSuccessor
     \/ active = None /\ PromoteQueuedTurn
  /\ UNCHANGED <<kind, commit, asked, open, closed, outcome, published, deferred,
                 promoting, alive, overdue, next>>

PromoteRestored ==
  /\ alive /\ promoting
  /\ promoting' = FALSE
  /\ \/ phase = "idle" /\ PromoteQueuedTurn
     \/ /\ phase # "idle"
        /\ UNCHANGED <<status, active, intent, queue, run, phase, aborted, ran, faults,
                       thrown>>
  /\ UNCHANGED <<kind, commit, asked, open, closed, outcome, published, deferred,
                 controls, alive, overdue, next>>

-----------------------------------------------------------------------------
(* The environment.                                                        *)

PassDeadline(t) ==
  /\ status[t] = "queued" /\ t \notin overdue
  /\ overdue' = overdue \union {t}
  /\ UNCHANGED <<durable, admission, runtime, alive, next, faults, ran, thrown>>

\* The process ends, between any two appends.
Crash ==
  /\ alive
  /\ alive' = FALSE
  /\ active' = None /\ intent' = FALSE /\ queue' = {} /\ closed' = FALSE
  /\ run' = None /\ phase' = "idle" /\ aborted' = FALSE /\ outcome' = "none"
  /\ published' = FALSE /\ deferred' = FALSE /\ controls' = {} /\ promoting' = FALSE
  /\ UNCHANGED <<durable, overdue, next, faults, ran, thrown>>

\* The constructor recovers what the last process left and restores its queue.
Open ==
  /\ ~alive
  /\ RecoverIncomplete
  /\ Cardinality(Queued) <= MaxQueued
  /\ alive' = TRUE
  /\ queue' = Queued
  /\ promoting' = (Queued # {})
  /\ UNCHANGED <<kind, commit, asked, active, intent, closed, run, phase, aborted,
                 outcome, published, deferred, controls, overdue, next, faults, ran,
                 thrown>>

\* admission.restore throws over its limit, after the recovery: the Thread cannot
\* be opened.
OpenFails ==
  /\ ~alive
  /\ RecoverIncomplete
  /\ Cardinality(Queued) > MaxQueued
  /\ UNCHANGED <<kind, commit, asked, admission, runtime, environment>>

Next ==
  \/ \E k \in {"regular", "maintenance"}, control \in BOOLEAN :
       StartIdle(k, control) \/ Enqueue(k, control)
  \/ \E k \in {"regular", "maintenance"} : StartSettling(k) \/ RequestFails(k)
  \/ Interrupt \/ InterruptFails \/ Look \/ Close
  \/ StartItem \/ FinishItem
  \/ \E s \in Terminal : Commit(s) \/ Return(s)
  \/ Finalize \/ Promote \/ PromoteFails \/ Settle \/ PromoteRestored
  \/ \E t \in Turn : PassDeadline(t)
  \/ Crash \/ Open \/ OpenFails

Spec == Init /\ [][Next]_vars

\* The event loop runs what is pending and every runner returns; nothing makes
\* a user send a command, or open a Thread again.
Fairness ==
  /\ WF_vars(\E s \in Terminal : Return(s))
  /\ WF_vars(Finalize \/ Promote \/ Settle)
  /\ WF_vars(PromoteRestored)

FairSpec == Spec /\ Fairness

-----------------------------------------------------------------------------
(* Properties.                                                             *)

\* "Callers must durably record a started turn before running it"
\* (ThreadAdmissionControllerV1): whatever a runner is working on, and could
\* change outside the log, is the durably active turn, unless the append of its
\* start has thrown.
RunIsDurable == Running => status[run] = "started" \/ run \in thrown

\* The same without the exception, as the comment has it.
RunIsRecorded == Running => status[run] = "started"

\* "A durable turn.start cannot be rolled back" (persistTurnStart) and "the single
\* admission authority for a Thread": a turn that is durably active is the active
\* turn of admission, so that it can be interrupted and will end.
StartedIsAdmitted ==
  alive /\ ~closed => \A t \in Started : active = t

\* What the code keeps of it: after every crash, restart, failed append, promotion
\* and continuation the log, admission and the runtime disagree on the active turn
\* only about a turn whose start has thrown; admission never waits for a run
\* nobody will start, and no durably active turn is out of its reach.
AcceptedTurnsAreAdmitted ==
  alive /\ ~closed =>
    /\ \A t \in Started : active = t \/ t \in thrown
    /\ phase = "idle" /\ active # None => active \in thrown

\* "At most one active turn per Thread": in the log, and in the log and the
\* runtime together.
OneActiveTurn ==
  /\ \A t, u \in Started : t = u
  /\ Running => Started \subseteq {run}

\* "The durable intent is flushed before AbortSignal is propagated" (dispatch):
\* a turn is never running with a durable interrupt intent its runner does not
\* know of; a repeated interrupt would not tell it either.
InterruptIsDelivered == Running /\ run \in asked => aborted

\* A durable TurnCommit decides how the turn ends, whatever the runner returned
\* and wherever the process died; without one a model turn never completes.
CommitDecides ==
  \A t \in Turn :
    /\ status[t] \in Terminal /\ commit[t] # "none" => status[t] = commit[t]
    /\ status[t] = "completed" /\ kind[t] = "regular" => commit[t] = "completed"

\* No turn is published as ended while one of its items has no terminal event:
\* "A runner that exits with open Items cannot publish a false turn terminal".
EndedTurnsAreClosed == \A t \in open : status[t] = "started"

\* The queue a user sees is the durable one, up to entries that are overdue or
\* whose request has thrown, in a Thread that could be opened.
QueueIsDurable ==
  alive /\ ~closed =>
    queue \subseteq Queued /\ Queued \ queue \subseteq overdue \union thrown

\* "Restore" (the constructor): what a process leaves behind, the next one can
\* open.
ThreadCanBeReopened == ~alive => Cardinality(Queued) <= MaxQueued

\* The facts about a turn only move forward, across crashes and failed appends
\* too: an ended turn stays as it ended, and only a waiting one expires.
Rank(s) == CASE s = "unknown" -> 0 [] s = "queued" -> 1 [] s = "started" -> 2 [] OTHER -> 3
MoveForward ==
  \A t \in Turn :
    status'[t] # status[t] =>
      /\ Rank(status[t]) < Rank(status'[t])
      /\ status'[t] = "expired" => status[t] = "queued"
StatusMovesForward == [][MoveForward]_vars

\* A turn is handed to a runner at most once, across crashes and restarts too,
\* unless the append of its start has thrown: its effects are not repeated.
RunNew == phase' = "running" /\ phase # "running" => run' \notin ran \/ run' \in thrown
RunsOnce == [][RunNew]_vars

\* The queue is served in order, before any continuation: a queue entry starts,
\* and a turn is continued, only when no earlier entry waits that has neither
\* passed its deadline nor thrown.
TakesItsTurn(t) ==
  /\ status'[t] = "started"
  /\ \/ status[t] = "queued"
     \/ status[t] = "unknown" /\ phase = "promote" /\ kind'[t] = "regular"
ServeInOrder ==
  \A t \in Turn, u \in Queued : u < t /\ TakesItsTurn(t) => u \in overdue \union thrown
ServedInOrder == [][ServeInOrder]_vars

\* An idle runtime with an active turn whose start has thrown: no call will run
\* that turn, or end it.
Stuck == phase = "idle" /\ ({active} \union Started) \intersect thrown # {}

\* A started turn ends, and a waiting one is served before its deadline, as long
\* as the process runs, the Thread is not closed, and no start that has thrown
\* has left it stuck.
StartedTurnsEnd ==
  \A t \in Turn : status[t] = "started" ~> status[t] # "started" \/ ~alive \/ closed \/ Stuck
QueuedTurnsAreServed ==
  \A t \in Turn :
    alive /\ status[t] = "queued" ~> \/ status[t] # "queued" \/ t \in overdue \union thrown
                                    \/ ~alive \/ closed \/ Stuck
TurnsAreServed == StartedTurnsEnd /\ QueuedTurnsAreServed
=============================================================================
