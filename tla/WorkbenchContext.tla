--------------------------- MODULE WorkbenchContext ---------------------------
(***************************************************************************)
(* The mutations of the Web Host and the Workspace Context they are made   *)
(* in (WebWorkbenchController, src/src/web/workbench-controller.ts): the   *)
(* idempotency ledger of executeMutation, the reservations that keep the   *)
(* transitions of the Context and all other mutations apart, and           *)
(* activateContext, which replaces the control plane (the Runtime of the   *)
(* active Workspace) and goes back to the previous one when a step fails.  *)
(*                                                                         *)
(* A mutation is an edit, admitted for the Context the browser names, or   *)
(* the activation of a Workspace.  What an edit does is left out, and so   *)
(* are the Sessions' actors, which a transition does not touch             *)
(* (SessionRegistry).  An action here is the code between two awaits.      *)
(***************************************************************************)
EXTENDS Integers, Sequences, FiniteSets

CONSTANTS
    RequestId,   \* bound: the ids the browsers use
    Workspace,   \* the Workspaces of the registry
    First,       \* the one the Host is started in
    MaxResults,  \* MAX_MUTATION_RESULTS
    MaxFaults    \* bound: how many steps of transitions fail

None == "none"

ASSUME WorkspacesAssumption == First \in Workspace
ASSUME IdsAssumption == None \notin RequestId
ASSUME LimitsAssumption == MaxResults \in Nat \ {0} /\ MaxFaults \in Nat

VARIABLES
    host,      \* the controller's fields
    runtimes,  \* the control planes that were made: their Workspace, and
               \* whether they still run, and run unknown to the Host
    published, \* the Workspace that each revision of the Context was
               \* published with; its length is the current revision
    ledger,    \* mutationResults: what was asked under an id, and its result
    at,        \* where the mutation of an id is
    faults,    \* how many steps may still fail
    begun,     \* history: how often the action of an id was begun
    outcomes   \* history: the outcomes of an id

vars == <<host, runtimes, published, ledger, at, faults, begun, outcomes>>

Revision == 1 .. Len(published)
Current == Len(published)
(* What is asked under an id: for which Context, and which Workspace is to *)
(* become active.                                                          *)
Body ==
    [kind : {"edit"}, context : Revision, target : {First}]
    \cup [kind : {"activate"}, context : Revision, target : Workspace]
NoBody == [kind |-> "none", context |-> 0, target |-> First]
Live == {i \in DOMAIN runtimes : runtimes[i].state = "runs"}
Forgotten == {i \in DOMAIN runtimes : runtimes[i].state = "forgotten"}

(* The steps of a transition, and where a mutation is. *)
Step == {"detach", "install", "stopPrevious", "register", "rollback", "reinstall", "restore",
         "lost"}
Place == {"none", "admitted", "editing", "done"} \cup Step

Host == [workspace : Workspace, runtime : DOMAIN runtimes, transition : RequestId \cup {None},
         reserved : BOOLEAN, active : Nat, previous : DOMAIN runtimes,
         phase : {"open", "closing", "closed"}, recovery : BOOLEAN]

TypeOK ==
    /\ host \in Host
    /\ runtimes \in Seq([workspace : Workspace, state : {"runs", "stopped", "forgotten"}])
    /\ published \in Seq(Workspace) /\ published # << >>
    /\ ledger \in [RequestId -> [kind : {"none", "edit", "activate"}, context : Nat,
                                 target : Workspace]]
    /\ at \in [RequestId -> Place]
    /\ faults \in Nat
    /\ begun \in [RequestId -> Nat]
    /\ outcomes \in [RequestId -> SUBSET {"refused", "ok", "failed"}]

Init ==
    /\ host = [workspace |-> First, runtime |-> 1, transition |-> None, reserved |-> FALSE,
               active |-> 0, previous |-> 1, phase |-> "open", recovery |-> FALSE]
    /\ runtimes = << [workspace |-> First, state |-> "runs"] >>
    /\ published = << First >>
    /\ ledger = [id \in RequestId |-> NoBody]
    /\ at = [id \in RequestId |-> "none"]
    /\ faults = MaxFaults
    /\ begun = [id \in RequestId |-> 0]
    /\ outcomes = [id \in RequestId |-> {}]
-----------------------------------------------------------------------------
(* assertMutationAdmission *)
Admitting == host.phase = "open" /\ host.transition = None
(* reserveMutation, and whether it throws. *)
Reservable(kind) ==
    /\ Admitting
    /\ ~ host.reserved
    /\ kind = "activate" => host.active = 0

(* Mutant: an edit is not counted. *)
ReservedForTransitions(h, kind) == IF kind = "activate" THEN [h EXCEPT !.reserved = TRUE] ELSE h

Reserved(h, kind) ==
    IF kind = "activate" THEN [h EXCEPT !.reserved = TRUE] ELSE [h EXCEPT !.active = @ + 1]
Released(h, kind) ==
    IF kind = "activate" THEN [h EXCEPT !.reserved = FALSE] ELSE [h EXCEPT !.active = @ - 1]

(* Mutant: a result that is no success is not kept. *)
SettleForgetting(id, outcome, h) ==
    /\ at' = [at EXCEPT ![id] = IF outcome = "ok" THEN "done" ELSE "none"]
    /\ ledger' = [ledger EXCEPT ![id] = IF outcome = "ok" THEN @ ELSE NoBody]
    /\ outcomes' = [outcomes EXCEPT ![id] = @ \cup {outcome}]
    /\ host' = Released(h, ledger[id].kind)

(* Mutant: what fails keeps its reservation. *)
SettleHolding(id, outcome, h) ==
    /\ at' = [at EXCEPT ![id] = "done"]
    /\ outcomes' = [outcomes EXCEPT ![id] = @ \cup {outcome}]
    /\ host' = IF outcome = "ok" THEN Released(h, ledger[id].kind) ELSE h
    /\ UNCHANGED ledger

(* The promise of a mutation is settled, and its reservation is released. *)
Settle(id, outcome, h) ==
    /\ at' = [at EXCEPT ![id] = "done"]
    /\ outcomes' = [outcomes EXCEPT ![id] = @ \cup {outcome}]
    /\ host' = Released(h, ledger[id].kind)
    /\ UNCHANGED ledger

(* executeMutation: a new id is recorded with its body, whether or not the *)
(* mutation is admitted.  An id that is in the ledger changes nothing: the *)
(* same body shares the result, another one is a conflict.                 *)
Post(id, body) ==
    /\ ledger[id] = NoBody
    /\ Cardinality({i \in RequestId : ledger[i] # NoBody}) < MaxResults
    /\ ledger' = [ledger EXCEPT ![id] = body]
    /\ \/ /\ Reservable(body.kind)
          /\ host' = Reserved(host, body.kind)
          /\ at' = [at EXCEPT ![id] = "admitted"]
          /\ UNCHANGED outcomes
       \/ /\ ~ Reservable(body.kind)
          /\ at' = [at EXCEPT ![id] = "done"]
          /\ outcomes' = [outcomes EXCEPT ![id] = @ \cup {"refused"}]
          /\ UNCHANGED host
    /\ UNCHANGED <<runtimes, published, faults, begun>>

(* assertContextGuard *)
Guarded(body) == body.context = Current /\ published[body.context] = host.workspace

(* The action of a mutation begins, in a microtask: it looks again whether *)
(* the Host admits it, and for the Context it was meant for.               *)
Begin(id) ==
    LET body == ledger[id] IN
    /\ at[id] = "admitted"
    /\ begun' = IF Admitting THEN [begun EXCEPT ![id] = @ + 1] ELSE begun
    /\ UNCHANGED <<runtimes, published, faults>>
    /\ IF ~ Admitting THEN Settle(id, "refused", host)
       ELSE IF body.kind = "edit"
       THEN IF Guarded(body)
            THEN at' = [at EXCEPT ![id] = "editing"] /\ UNCHANGED <<host, ledger, outcomes>>
            ELSE Settle(id, "refused", host)
       ELSE IF body.context # Current THEN Settle(id, "refused", host)
       ELSE IF body.target = host.workspace THEN Settle(id, "ok", host)
       ELSE IF host.active > 0 THEN Settle(id, "refused", host)
       ELSE /\ host' = [host EXCEPT !.transition = id, !.previous = host.runtime]
            /\ at' = [at EXCEPT ![id] = "detach"]
            /\ UNCHANGED <<ledger, outcomes>>

FinishEdit(id) ==
    /\ at[id] = "editing"
    /\ \E outcome \in {"ok", "failed"} : Settle(id, outcome, host)
    /\ UNCHANGED <<runtimes, published, faults, begun>>
-----------------------------------------------------------------------------
(* activateContext, once it is admitted.  A step succeeds, or fails and    *)
(* the rollback begins.                                                    *)
Goto(id, step) == at' = [at EXCEPT ![id] = step]
Fault == faults > 0 /\ faults' = faults - 1
Rollback(id) == Fault /\ Goto(id, "rollback")

(* installRuntime makes a Runtime and puts it in the place of the other. *)
Install(w) ==
    /\ runtimes' = Append(runtimes, [workspace |-> w, state |-> "runs"])
    /\ host' = [host EXCEPT !.workspace = w, !.runtime = Len(runtimes) + 1]
Stop(i) == runtimes' = [runtimes EXCEPT ![i].state = "stopped"]

(* The turn of the control plane is stopped and its Session is detached. *)
Detach(id) ==
    /\ at[id] = "detach"
    /\ \/ Goto(id, "install") /\ UNCHANGED faults
       \/ Rollback(id)
    /\ UNCHANGED <<host, runtimes, published, ledger, begun, outcomes>>

InstallTarget(id) ==
    /\ at[id] = "install"
    /\ \/ Install(ledger[id].target) /\ Goto(id, "stopPrevious") /\ UNCHANGED faults
       \/ Rollback(id) /\ UNCHANGED <<host, runtimes>>
    /\ UNCHANGED <<published, ledger, begun, outcomes>>

(* installRuntime throws behind the assignment of runtimeValue: the target *)
(* is installed, and is what the rollback shuts down.  Nothing shuts down  *)
(* the previous Runtime, which the rollback replaces.                      *)
InstallHalf(id) ==
    /\ at[id] = "install"
    /\ runtimes' = Append([runtimes EXCEPT ![host.previous].state =
                               IF @ = "runs" THEN "forgotten" ELSE @],
                          [workspace |-> ledger[id].target, state |-> "runs"])
    /\ host' = [host EXCEPT !.workspace = ledger[id].target, !.runtime = Len(runtimes) + 1]
    /\ Rollback(id)
    /\ UNCHANGED <<published, ledger, begun, outcomes>>

(* shutdown of a Runtime releases what it holds, also when it throws. *)
StopPrevious(id) ==
    /\ at[id] = "stopPrevious"
    /\ Stop(host.previous)
    /\ \/ Goto(id, "register") /\ UNCHANGED faults
       \/ Rollback(id)
    /\ UNCHANGED <<host, published, ledger, begun, outcomes>>

(* The registry notes the activation, and the new Context is published     *)
(* under a new revision.  What is announced after that may throw: then the *)
(* browser is told of a failure, and the target stays the Context.         *)
Complete(id) ==
    /\ at[id] = "register"
    /\ \/ /\ published' = Append(published, host.workspace)
          /\ \E outcome \in {"ok", "failed"} :
                /\ Settle(id, outcome, [host EXCEPT !.transition = None, !.recovery = FALSE])
                /\ IF outcome = "ok" THEN UNCHANGED faults ELSE Fault
       \/ Rollback(id) /\ UNCHANGED <<host, published, ledger, outcomes>>
    /\ UNCHANGED <<runtimes, begun>>

(* Mutant: the Runtime of the target is left running. *)
StopTargetNever(id) ==
    /\ at[id] = "rollback" /\ host.runtime # host.previous
    /\ Goto(id, "reinstall")
    /\ UNCHANGED <<host, runtimes, published, ledger, faults, begun, outcomes>>

(* The rollback: the Runtime of the target is shut down if it was          *)
(* installed, the previous Workspace gets a Runtime again, and the         *)
(* revision stays.  Another failure leaves what is installed.              *)
StopTarget(id) ==
    /\ at[id] = "rollback" /\ host.runtime # host.previous
    /\ Stop(host.runtime)
    /\ \/ Goto(id, "reinstall") /\ UNCHANGED faults
       \/ Fault /\ Goto(id, "lost")
    /\ UNCHANGED <<host, published, ledger, begun, outcomes>>

Reinstall(id) ==
    /\ at[id] = "reinstall"
    /\ \/ /\ Install(runtimes[host.previous].workspace)
          /\ \/ Goto(id, "restore") /\ UNCHANGED faults
             \/ Fault /\ Goto(id, "lost")
       \/ Fault /\ Goto(id, "lost") /\ UNCHANGED <<host, runtimes>>
    /\ UNCHANGED <<published, ledger, begun, outcomes>>

(* The Session of the control plane is selected again, and the rollback *)
(* ends with the Context before, or with one that is to be recovered.   *)
Restore(id) ==
    /\ \/ at[id] = "restore"
       \/ at[id] = "rollback" /\ host.runtime = host.previous
    /\ \/ /\ Settle(id, "failed", [host EXCEPT !.transition = None])
          /\ UNCHANGED faults
       \/ Fault /\ Goto(id, "lost") /\ UNCHANGED <<host, ledger, outcomes>>
    /\ UNCHANGED <<runtimes, published, begun>>

Lost(id) ==
    /\ at[id] = "lost"
    /\ Settle(id, "failed", [host EXCEPT !.transition = None, !.recovery = TRUE])
    /\ UNCHANGED <<runtimes, published, faults, begun>>

Transition(id) ==
    \/ Detach(id) \/ InstallTarget(id) \/ InstallHalf(id) \/ StopPrevious(id)
    \/ Complete(id)
    \/ StopTarget(id) \/ Reinstall(id) \/ Restore(id) \/ Lost(id)
-----------------------------------------------------------------------------
(* shutdown: the Host admits nothing any more, and later shuts down the    *)
(* Runtime that is installed by then.                                      *)
Close ==
    /\ host.phase = "open"
    /\ host' = [host EXCEPT !.phase = "closing"]
    /\ UNCHANGED <<runtimes, published, ledger, at, faults, begun, outcomes>>

CloseRuntime ==
    /\ host.phase = "closing"
    /\ host' = [host EXCEPT !.phase = "closed"]
    /\ Stop(host.runtime)
    /\ UNCHANGED <<published, ledger, at, faults, begun, outcomes>>

Next ==
    \/ \E id \in RequestId, body \in Body : Post(id, body)
    \/ \E id \in RequestId : Begin(id) \/ FinishEdit(id) \/ Transition(id)
    \/ Close
    \/ CloseRuntime

Spec == Init /\ [][Next]_vars

(* What is begun goes on: the calls of a transition return or throw. *)
Fairness == \A id \in RequestId : WF_vars(Begin(id) \/ FinishEdit(id) \/ Transition(id))
FairSpec == Spec /\ Fairness
-----------------------------------------------------------------------------
(* "A retry of the same requestId cannot observe a different outcome"      *)
(* (workbench-controller.ts:2465): the action of an id is begun once, and  *)
(* whoever asks under that id is told the same.                            *)
MutationsRunOnce ==
    \A id \in RequestId : begun[id] <= 1 /\ Cardinality(outcomes[id]) <= 1

(* "must not cross Contexts" (tests/web-context-transition.test.ts): while *)
(* an edit is under way the Context it was admitted for stays, and no      *)
(* transition is on its way.                                               *)
ContextHoldsStill ==
    \A id \in RequestId : at[id] = "editing" =>
        /\ ledger[id].context = Current
        /\ host.workspace = published[Current]
        /\ host.transition = None

(* "Restores the previous Context without advancing its revision when      *)
(* target startup fails" (the same tests): when no transition is on its    *)
(* way, and none ended with context_recovery_required, the Runtime that is *)
(* installed is the only one that the Host knows to run, and it is one of  *)
(* the Workspace that the current revision was published with.             *)
ContextIsWhole ==
    host.phase = "open" /\ host.transition = None /\ ~ host.recovery =>
        /\ Live = {host.runtime}
        /\ runtimes[host.runtime].workspace = host.workspace
        /\ host.workspace = published[Current]

(* "Install the target control plane first, then release the previous      *)
(* one's mutable state" (workbench-controller.ts:1986-1987): none is       *)
(* replaced and left running.  Not so when the installation throws half    *)
(* way: see WorkbenchContextForgotten.cfg.                                 *)
NoRuntimeIsForgotten == Forgotten = {}

(* No mutation blocks the others for ever: time and again no reservation   *)
(* is held, and what was asked for is answered.                            *)
ReservationsEnd ==
    /\ []<>(host.active = 0 /\ ~ host.reserved)
    /\ \A id \in RequestId : ledger[id] # NoBody ~> at[id] = "done"
=============================================================================
