---------------------------- MODULE SessionRegistry ----------------------------
(***************************************************************************)
(* The pool of Session actors of the Web host (src/src/web/                *)
(* session-runtime-registry.ts).                                           *)
(*                                                                         *)
(* An actor is created before the first turn of its Session, at most       *)
(* MaxResident of them exist, and at most MaxRunning turns run; the others *)
(* wait in a queue.  Calls that create or close actors are serialised by   *)
(* capacityQueue, a chain of promises: ops is that chain, and its head is  *)
(* cut at every await, where turns end, queued turns are cancelled,        *)
(* approvals arrive and the registry is shut down.                         *)
(*                                                                         *)
(* A revision is left out: a call whose revision is outdated is refused at *)
(* its beginning.  So is the order in which actors were last used: any     *)
(* evictable actor may be the one that is evicted.                         *)
(***************************************************************************)
EXTENDS Integers, Sequences, FiniteSets

CONSTANTS
  Session,
  MaxRunning,    \* maxRunningSessions
  MaxResident,   \* maxResidentSessionActors
  MaxCalls       \* bound: calls that wait in the chain at a time

ASSUME LimitsAreNat ==
  /\ MaxRunning \in Nat \ {0} /\ MaxResident \in Nat /\ MaxRunning <= MaxResident
  /\ MaxCalls \in Nat
ASSUME SessionsAreFinite == IsFiniteSet(Session)

Phase == {"cold", "starting", "idle", "queued", "running", "waiting_approval",
          "stopping", "interrupted", "failed"}
Kind == {"ensure", "with", "admit", "evict", "shutdown"}
Await == {"begin", "retry", "reserve", "evicting", "creating", "discard", "resident",
          "acting", "started", "closing"}
Op == [kind : Kind, session : Session, at : Await, victim : Session,
       left : SUBSET Session, were : SUBSET Session]

VARIABLES
  phase,     \* phase[s]
  actor,     \* actor[s]: "none", "ready", or "broken" while it is not (actorReady)
  run,       \* run[s]: "none", or whether its start has returned (activeRun)
  pending,   \* pending[s]: pendingApprovalCount
  ticket,    \* ticket[s]: it has a queueId
  position,  \* position[s]: queuePosition, 0 for none
  queue,     \* the Sessions whose turn waits
  running,   \* runningCountValue
  closed,    \* shutdown was called
  ops,       \* capacityQueue
  live       \* history: live[s] is how many actors of s exist

record == <<phase, actor, run, pending, ticket, position>>
vars == <<record, queue, running, closed, ops, live>>

TypeOK ==
  /\ phase \in [Session -> Phase]
  /\ actor \in [Session -> {"none", "ready", "broken"}]
  /\ run \in [Session -> {"none", "starting", "running"}]
  /\ pending \in [Session -> 0 .. 1]
  /\ ticket \in [Session -> BOOLEAN]
  /\ position \in [Session -> 0 .. Cardinality(Session)]
  /\ queue \in Seq(Session)
  /\ running \in Nat /\ closed \in BOOLEAN
  /\ ops \in Seq(Op) /\ Len(ops) <= MaxCalls
  /\ live \in [Session -> Nat]

Init ==
  /\ phase = [s \in Session |-> "cold"] /\ actor = [s \in Session |-> "none"]
  /\ run = [s \in Session |-> "none"] /\ pending = [s \in Session |-> 0]
  /\ ticket = [s \in Session |-> FALSE] /\ position = [s \in Session |-> 0]
  /\ queue = <<>> /\ running = 0 /\ closed = FALSE /\ ops = <<>>
  /\ live = [s \in Session |-> 0]

Resident == {s \in Session : actor[s] # "none"}
Active(s) == run[s] # "none"

Evictable(s) ==
  /\ actor[s] # "none" /\ ~Active(s) /\ ~ticket[s] /\ pending[s] = 0
  /\ phase[s] \in {"idle", "failed", "interrupted"}

-----------------------------------------------------------------------------
(* The chain of operations: withCapacityLock.                              *)

At(at) == ops # <<>> /\ ops[1].at = at
Subject == ops[1].session

Enter(kind, s) ==
  /\ Len(ops) < MaxCalls
  /\ ops' = Append(ops, [kind |-> kind, session |-> s, at |-> "begin", victim |-> s,
                         left |-> {}, were |-> {}])

Call(kind, s) ==
  /\ kind \in {"ensure", "with", "admit", "evict"}
  /\ kind = "evict" => ~closed
  /\ Enter(kind, s)
  /\ UNCHANGED <<record, queue, running, closed, live>>

Goto(at) == ops' = [ops EXCEPT ![1].at = at]
Return == ops' = Tail(ops)

-----------------------------------------------------------------------------
(* ensureResidentLocked, makeCapacityLocked, closeResidentLocked.          *)

\* A closing actor is not ready; what closeActor answers comes later.
Stop(s) ==
  /\ actor' = [actor EXCEPT ![s] = "broken"]
  /\ phase' = [phase EXCEPT ![s] = "stopping"]

\* An idle actor makes room, or there is none and the call fails.
Reserve ==
  \/ /\ Cardinality(Resident) < MaxResident
     /\ phase' = [phase EXCEPT ![Subject] = "starting"]
     /\ Goto("creating") /\ UNCHANGED actor
  \/ /\ Cardinality(Resident) >= MaxResident
     /\ \E v \in Session \ {Subject} :
          /\ Evictable(v) /\ Stop(v)
          /\ ops' = [ops EXCEPT ![1].at = "evicting", ![1].victim = v]
  \/ /\ Cardinality(Resident) >= MaxResident
     /\ \A v \in Session \ {Subject} : ~Evictable(v)
     /\ Return /\ UNCHANGED <<phase, actor>>

\* assertOpen and assertRevision may refuse the call, a turn that is active or
\* queued refuses another one.
Refuse ==
  /\ At("begin") /\ ops[1].kind \in {"ensure", "with", "admit"}
  /\ Return
  /\ UNCHANGED <<record, queue, running, closed, live>>

Begin ==
  /\ At("begin") /\ ops[1].kind \in {"ensure", "with", "admit"}
  /\ ~closed
  /\ ops[1].kind = "admit" => ~Active(Subject) /\ ~ticket[Subject]
  /\ \/ actor[Subject] = "ready" /\ Goto("resident") /\ UNCHANGED <<phase, actor>>
     \/ actor[Subject] = "broken" /\ Stop(Subject) /\ Goto("retry")
     \/ actor[Subject] = "none" /\ Reserve
  /\ UNCHANGED <<run, pending, ticket, position, queue, running, closed, live>>

\* closeActor answers: the actor is gone, or it stays and the call fails.
Closed(s, to) ==
  /\ actor' = [actor EXCEPT ![s] = "none"]
  /\ live' = [live EXCEPT ![s] = @ - 1]
  /\ phase' = to
NotClosed(s) ==
  /\ phase' = [phase EXCEPT ![s] = "failed"]
  /\ Return /\ UNCHANGED <<actor, live>>

Retry ==
  /\ At("retry")
  /\ \/ Closed(Subject, [phase EXCEPT ![Subject] = "cold"]) /\ Goto("reserve")
     \/ NotClosed(Subject)
  /\ UNCHANGED <<run, pending, ticket, position, queue, running, closed>>

ReserveAgain ==
  /\ At("reserve") /\ Reserve
  /\ UNCHANGED <<run, pending, ticket, position, queue, running, closed, live>>

Evicted ==
  /\ At("evicting")
  /\ LET v == ops[1].victim IN
       \/ /\ Closed(v, [phase EXCEPT ![v] = "cold", ![Subject] = "starting"])
          /\ Goto("creating")
       \/ NotClosed(v)
  /\ UNCHANGED <<run, pending, ticket, position, queue, running, closed>>

\* createActor and initializeActor answer.
Created ==
  /\ At("creating")
  /\ \/ /\ phase' = [phase EXCEPT ![Subject] = "failed"]
        /\ Return /\ UNCHANGED <<actor, live>>
     \/ /\ ~closed
        /\ actor' = [actor EXCEPT ![Subject] = "ready"]
        /\ phase' = [phase EXCEPT ![Subject] = "idle"]
        /\ live' = [live EXCEPT ![Subject] = @ + 1]
        /\ Goto("resident")
     \/ /\ live' = [live EXCEPT ![Subject] = @ + 1]
        /\ Goto("discard") /\ UNCHANGED <<phase, actor>>
  /\ UNCHANGED <<run, pending, ticket, position, queue, running, closed>>

\* Mutant: when closeActor fails, the record does not keep the actor.
DiscardLosesActor ==
  /\ At("discard")
  /\ \/ live' = [live EXCEPT ![Subject] = @ - 1]
     \/ UNCHANGED live
  /\ phase' = [phase EXCEPT ![Subject] = "failed"]
  /\ Return
  /\ UNCHANGED <<actor, run, pending, ticket, position, queue, running, closed>>

\* An actor that was not initialised is closed, or kept in quarantine.
Discard ==
  /\ At("discard")
  /\ \/ live' = [live EXCEPT ![Subject] = @ - 1] /\ UNCHANGED actor
     \/ actor' = [actor EXCEPT ![Subject] = "broken"] /\ UNCHANGED live
  /\ phase' = [phase EXCEPT ![Subject] = "failed"]
  /\ Return
  /\ UNCHANGED <<run, pending, ticket, position, queue, running, closed>>

-----------------------------------------------------------------------------
(* Turns.                                                                  *)

\* What is left to do once the actor is resident: return it, use it, or start
\* the turn unless all slots are taken.
UseActor ==
  /\ At("resident") /\ ops[1].kind \in {"ensure", "with"}
  /\ IF ops[1].kind = "with" THEN Goto("acting") ELSE Return
  /\ UNCHANGED <<record, queue, running, closed, live>>

Acted ==
  /\ At("acting") /\ Return
  /\ UNCHANGED <<record, queue, running, closed, live>>

\* Mutant: the turn is put at the front of the queue.
QueueInFront ==
  /\ At("resident") /\ ops[1].kind = "admit" /\ running >= MaxRunning
  /\ queue' = <<Subject>> \o queue
  /\ ticket' = [ticket EXCEPT ![Subject] = TRUE]
  /\ position' = [x \in Session |->
       IF x = Subject THEN 1 ELSE IF ticket[x] THEN position[x] + 1 ELSE position[x]]
  /\ phase' = [phase EXCEPT ![Subject] = "queued"]
  /\ Return
  /\ UNCHANGED <<actor, run, pending, running, closed, live>>

Queue ==
  /\ At("resident") /\ ops[1].kind = "admit" /\ running >= MaxRunning
  /\ queue' = Append(queue, Subject)
  /\ ticket' = [ticket EXCEPT ![Subject] = TRUE]
  /\ position' = [position EXCEPT ![Subject] = Len(queue) + 1]
  /\ phase' = [phase EXCEPT ![Subject] = "queued"]
  /\ Return
  /\ UNCHANGED <<actor, run, pending, running, closed, live>>

StartTurn ==
  /\ At("resident") /\ ops[1].kind = "admit" /\ running < MaxRunning
  /\ run' = [run EXCEPT ![Subject] = "starting"]
  /\ ticket' = [ticket EXCEPT ![Subject] = FALSE]
  /\ pending' = [pending EXCEPT ![Subject] = 0]
  /\ running' = running + 1
  /\ phase' = [phase EXCEPT ![Subject] = "running"]
  /\ Goto("started")
  /\ UNCHANGED <<actor, position, queue, closed, live>>

Started ==
  /\ At("started")
  /\ run' = [run EXCEPT ![Subject] = "running"]
  /\ Return
  /\ UNCHANGED <<phase, actor, pending, ticket, position, queue, running, closed, live>>

\* drainQueue takes queued turns until the slots are full; a Session without an
\* actor takes none.
Held(q, k) == Cardinality({i \in 1 .. k : actor[q[i]] # "none"})
Taken(q, free) ==
  IF closed \/ free <= 0 THEN 0
  ELSE CHOOSE k \in 0 .. Len(q) :
         /\ Held(q, k) <= free
         /\ k = Len(q) \/ Held(q, k) = free
         /\ \A j \in 0 .. k - 1 : Held(q, j) < free

\* Mutant: the queue is drained only after a turn that succeeded.
FinishDrainsOnSuccess(s, to) ==
  LET k == IF to = "failed" THEN 0 ELSE Taken(queue, MaxRunning - (running - 1))
      taken == {queue[i] : i \in 1 .. k}
      rest == SubSeq(queue, k + 1, Len(queue))
  IN
  /\ queue' = rest
  /\ running' = running - 1 + k
  /\ run' = [x \in Session |-> IF x \in taken THEN "running" ELSE IF x = s THEN "none" ELSE run[x]]
  /\ pending' = [x \in Session |-> IF x \in taken \union {s} THEN 0 ELSE pending[x]]
  /\ phase' = [x \in Session |-> IF x \in taken THEN "running" ELSE IF x = s THEN to ELSE phase[x]]
  /\ ticket' = [x \in Session |-> x \notin taken /\ ticket[x]]
  /\ position' = [x \in Session |->
       IF \E i \in 1 .. Len(rest) : rest[i] = x
         THEN CHOOSE i \in 1 .. Len(rest) : rest[i] = x
         ELSE IF x \in taken THEN 0 ELSE position[x]]
  /\ UNCHANGED <<actor, closed, live>>

\* The turn of s ends: finishTurn, with the drainQueue at its end.
Finish(s, to) ==
  LET k == Taken(queue, MaxRunning - (running - 1))
      taken == {queue[i] : i \in 1 .. k}
      started == {x \in taken : actor[x] # "none"}
      rest == SubSeq(queue, k + 1, Len(queue))
  IN
  /\ queue' = rest
  /\ running' = running - 1 + Cardinality(started)
  /\ run' = [x \in Session |-> IF x \in started THEN "running"
                               ELSE IF x = s THEN "none" ELSE run[x]]
  /\ pending' = [x \in Session |-> IF x \in started \union {s} THEN 0 ELSE pending[x]]
  /\ phase' = [x \in Session |-> IF x \in started THEN "running"
                                 ELSE IF x \in taken THEN "failed"
                                 ELSE IF x = s THEN to ELSE phase[x]]
  /\ ticket' = [x \in Session |-> x \notin taken /\ ticket[x]]
  /\ position' = [x \in Session |->
       IF x \in taken THEN 0
       ELSE IF \E i \in 1 .. Len(rest) : rest[i] = x
         THEN CHOOSE i \in 1 .. Len(rest) : rest[i] = x
         ELSE position[x]]
  /\ UNCHANGED <<actor, closed, live>>

\* A turn that runs settles; a start that fails ends it as well.
FinishTurn(s) ==
  /\ run[s] = "running"
  /\ \E to \in {"idle", "failed"} : Finish(s, to)
  /\ UNCHANGED ops

\* Mutant: the slot of a turn that could not start is not given back.
StartFailsKeepsSlot ==
  /\ At("started")
  /\ run' = [run EXCEPT ![Subject] = "none"]
  /\ phase' = [phase EXCEPT ![Subject] = "failed"]
  /\ Return
  /\ UNCHANGED <<actor, pending, ticket, position, queue, running, closed, live>>

StartFails ==
  /\ At("started")
  /\ Finish(Subject, "failed")
  /\ Return

-----------------------------------------------------------------------------
(* What happens between two steps of the chain.                            *)

CancelQueued(s) ==
  /\ ~closed /\ ticket[s]
  /\ \E i \in 1 .. Len(queue) :
       LET rest == SubSeq(queue, 1, i - 1) \o SubSeq(queue, i + 1, Len(queue)) IN
       /\ queue[i] = s
       /\ queue' = rest
       /\ position' = [x \in Session |->
            IF x = s THEN 0
            ELSE IF \E j \in 1 .. Len(rest) : rest[j] = x
              THEN CHOOSE j \in 1 .. Len(rest) : rest[j] = x
              ELSE position[x]]
  /\ ticket' = [ticket EXCEPT ![s] = FALSE]
  /\ phase' = [phase EXCEPT ![s] = "idle"]
  /\ UNCHANGED <<actor, run, pending, running, closed, ops, live>>

SetPendingApprovalCount(s, count) ==
  /\ ~closed /\ pending[s] # count
  /\ pending' = [pending EXCEPT ![s] = count]
  /\ phase' = IF Active(s)
       THEN [phase EXCEPT ![s] = IF count > 0 THEN "waiting_approval" ELSE "running"]
       ELSE phase
  /\ UNCHANGED <<actor, run, ticket, position, queue, running, closed, ops, live>>

\* Queued turns are interrupted at once; the actors are closed when the chain
\* comes to it.
Shutdown ==
  /\ \E s \in Session : Enter("shutdown", s)
  /\ closed' = TRUE
  /\ LET waiting == {queue[i] : i \in 1 .. Len(queue)} IN
       /\ ticket' = [x \in Session |-> x \notin waiting /\ ticket[x]]
       /\ position' = [x \in Session |-> IF x \in waiting THEN 0 ELSE position[x]]
       /\ phase' = [x \in Session |-> IF x \in waiting THEN "interrupted" ELSE phase[x]]
  /\ queue' = <<>>
  /\ UNCHANGED <<actor, run, pending, running, live>>

-----------------------------------------------------------------------------
(* evict and shutdown at the head of the chain.                            *)

\* Mutant: whether the actor is busy was checked when evict was called, not
\* when the chain comes to it.
BeginEvictUnchecked ==
  /\ At("begin") /\ ops[1].kind = "evict"
  /\ IF actor[Subject] # "none" THEN Stop(Subject) /\ Goto("closing")
     ELSE Return /\ UNCHANGED <<actor, phase>>
  /\ UNCHANGED <<run, pending, ticket, position, queue, running, closed, live>>

BeginEvict ==
  /\ At("begin") /\ ops[1].kind = "evict"
  /\ IF Evictable(Subject) THEN Stop(Subject) /\ Goto("closing")
     ELSE Return /\ UNCHANGED <<actor, phase>>
  /\ UNCHANGED <<run, pending, ticket, position, queue, running, closed, live>>

EvictClosed ==
  /\ At("closing") /\ ops[1].kind = "evict"
  /\ \/ Closed(Subject, [phase EXCEPT ![Subject] = "cold"]) /\ Return
     \/ NotClosed(Subject)
  /\ UNCHANGED <<run, pending, ticket, position, queue, running, closed>>

\* Every resident actor is closed, a running turn is cut short.
BeginShutdown ==
  /\ At("begin") /\ ops[1].kind = "shutdown"
  /\ LET were == {s \in Resident : Active(s)} IN
       /\ running' = running - Cardinality(were)
       /\ ops' = [ops EXCEPT ![1].at = "closing", ![1].left = Resident, ![1].were = were]
  /\ run' = [s \in Session |-> IF s \in Resident THEN "none" ELSE run[s]]
  /\ pending' = [s \in Session |-> IF s \in Resident THEN 0 ELSE pending[s]]
  /\ actor' = [s \in Session |-> IF s \in Resident THEN "broken" ELSE actor[s]]
  /\ phase' = [s \in Session |-> IF s \in Resident THEN "stopping" ELSE phase[s]]
  /\ UNCHANGED <<ticket, position, queue, closed, live>>

ShutdownCloses(s) ==
  /\ At("closing") /\ ops[1].kind = "shutdown" /\ s \in ops[1].left
  /\ \/ Closed(s, [phase EXCEPT ![s] = IF s \in ops[1].were THEN "interrupted" ELSE "cold"])
     \/ phase' = [phase EXCEPT ![s] = "failed"] /\ UNCHANGED <<actor, live>>
  /\ ops' = [ops EXCEPT ![1].left = @ \ {s}]
  /\ UNCHANGED <<run, pending, ticket, position, queue, running, closed>>

EndShutdown ==
  /\ At("closing") /\ ops[1].kind = "shutdown" /\ ops[1].left = {}
  /\ Return
  /\ UNCHANGED <<record, queue, running, closed, live>>

Chain ==
  \/ Refuse \/ Begin \/ Retry \/ ReserveAgain \/ Evicted \/ Created \/ Discard
  \/ UseActor \/ Acted \/ Queue \/ StartTurn \/ Started \/ StartFails
  \/ BeginEvict \/ EvictClosed \/ BeginShutdown \/ EndShutdown
  \/ \E s \in Session : ShutdownCloses(s)

Next ==
  \/ Chain
  \/ Shutdown
  \/ \E s \in Session :
       \/ \E kind \in Kind : Call(kind, s)
       \/ FinishTurn(s) \/ CancelQueued(s)
       \/ \E count \in 0 .. 1 : SetPendingApprovalCount(s, count)

Spec == Init /\ [][Next]_vars

-----------------------------------------------------------------------------
(* Properties.                                                             *)

\* What the records of the Sessions and the counters tell is the same: the count
\* that admits turns is the number of turns and stays within its limit, and who
\* waits, and where, is what the queue says; whatever fails, is cancelled or shut
\* down while turns start.
RunningIsCounted ==
  /\ running = Cardinality({s \in Session : Active(s)})
  /\ running <= MaxRunning
QueueIsRecorded ==
  /\ \A s \in Session : ticket[s] <=> \E i \in 1 .. Len(queue) : queue[i] = s
  /\ \A i \in 1 .. Len(queue) : position[queue[i]] = i /\ ~Active(queue[i])
CountsAreTrue == RunningIsCounted /\ QueueIsRecorded

\* No more actors exist than are allowed, those in quarantine and the one that
\* is being created included, and each is in the hands of its record or of the
\* call that creates it: none is lost without having been closed.
InCreation(s) == At("discard") /\ Subject = s
ActorsAreOwned ==
  /\ \A s \in Session :
       live[s] = (IF actor[s] # "none" THEN 1 ELSE 0) + (IF InCreation(s) THEN 1 ELSE 0)
  /\ Cardinality({s \in Session : live[s] > 0}) <= MaxResident

\* An actor is never closed under a turn that runs or waits, although the queue
\* is drained while another call is choosing whom to evict.
TurnsKeepTheirActor ==
  ~closed => \A s \in Session : Active(s) \/ ticket[s] => actor[s] = "ready"

\* No slot is idle while a turn waits.
SlotsAreUsed == ~closed /\ queue # <<>> => running = MaxRunning

\* The pool hands its slots over in the order of the requests.
Pool == INSTANCE SlotPool WITH
  slots <- {s \in Session : Active(s)}, waiting <- queue, open <- ~closed, Max <- MaxRunning
ImplementsSlotPool == Pool!Spec
=============================================================================
