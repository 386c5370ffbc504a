------------------------------ MODULE WebProofs ------------------------------
(***************************************************************************)
(* What is proved of the Web host and its browser.                         *)
(*                                                                         *)
(* First the mutations of the Workbench (WorkbenchContext): they run once  *)
(* and in one Context, and a failed activation leaves one control plane,   *)
(* for any number of ids, Workspaces and failing steps.  Who is admitted   *)
(* excludes who is not: an activation that is reserved is the only one,    *)
(* and no edit is under way beside it; and each step of an activation      *)
(* knows which control planes can still run.                               *)
(*                                                                         *)
(* Then the path of an event from the Thread to the page (EventDelivery):  *)
(* the buffer loses no fact, the page shows the Thread's own text, and     *)
(* what the page misses is repaired by a snapshot or replayed, for any     *)
(* number of messages and chunks and any limits of buffer and history.     *)
(***************************************************************************)
EXTENDS WorkbenchContext, EventDelivery, FiniteSetTheorems, SequenceTheorems,
        WellFoundedInduction, TLAPS

(* An id that is recorded has a body; its action is begun when it passes   *)
(* the guards, and its outcome is there when it is done.                   *)
IdsAreRecorded ==
    \A id \in RequestId :
        /\ at[id] # "none" => ledger[id].kind \in {"edit", "activate"}
        /\ at[id] = "editing" => ledger[id].kind = "edit"
        /\ at[id] \in Step => ledger[id].kind = "activate"
        /\ at[id] \in {"none", "admitted"} => begun[id] = 0
        /\ begun[id] <= 1
        /\ at[id] # "done" => outcomes[id] = {}
        /\ at[id] = "done" => \E o \in {"refused", "ok", "failed"} : outcomes[id] = {o}

(* The edits that hold a reservation, and the activations. *)
Editors == {id \in RequestId : ledger[id].kind = "edit" /\ at[id] \in {"admitted", "editing"}}
Activating(id) == ledger[id].kind = "activate" /\ at[id] \in {"admitted"} \cup Step

EditsAreCounted ==
    /\ IsFiniteSet(Editors)
    /\ host.active = Cardinality(Editors)

TransitionsAreAlone ==
    /\ host.reserved => Editors = {}
    /\ \A id \in RequestId : Activating(id) => host.reserved
    /\ \A id, other \in RequestId : Activating(id) /\ Activating(other) => id = other

TransitionIsKnown ==
    /\ \A id \in RequestId : at[id] \in Step => host.transition = id
    /\ host.transition # None => host.transition \in RequestId /\ at[host.transition] \in Step

EditsAreGuarded ==
    \A id \in RequestId : at[id] = "editing" =>
        ledger[id].context = Current /\ host.workspace = published[Current]

(* Which control planes run at each step of an activation ... *)
RuntimesAreKnown ==
    /\ host.workspace = runtimes[host.runtime].workspace
    /\ host.phase # "closed" =>
          /\ Live \subseteq {host.runtime, host.previous}
          /\ (\A id \in RequestId : at[id] # "stopPrevious") => Live \subseteq {host.runtime}
          /\ \A id \in RequestId :
                /\ at[id] \in {"detach", "install"} => host.runtime = host.previous
                /\ at[id] \in {"stopPrevious", "register"} => host.runtime # host.previous
                /\ at[id] \in {"stopPrevious", "register", "restore"} => host.runtime \in Live
                /\ at[id] = "reinstall" => Live = {}

(* ... and of which Workspace, unless the Context is to be recovered. *)
ContextIsKept ==
    host.phase # "closed" /\ ~ host.recovery =>
        /\ host.transition = None =>
              host.runtime \in Live /\ host.workspace = published[Current]
        /\ \A id \in RequestId :
              /\ at[id] \in Step => runtimes[host.previous].workspace = published[Current]
              /\ at[id] \in {"detach", "install"} => host.runtime \in Live
              /\ at[id] = "rollback" /\ host.runtime = host.previous => host.runtime \in Live
              /\ at[id] = "restore" => host.workspace = published[Current]

ContextInvariant ==
    /\ TypeOK
    /\ IdsAreRecorded
    /\ EditsAreCounted
    /\ TransitionsAreAlone
    /\ TransitionIsKnown
    /\ EditsAreGuarded
    /\ RuntimesAreKnown
    /\ ContextIsKept
-----------------------------------------------------------------------------
USE DEF Place, Step, None

LEMMA InitInvariant == ASSUME Init PROVE ContextInvariant
  <1>1. Editors = {}
    BY DEF Init, Editors
  <1>2. Live = {1}
    BY DEF Init, Live
  <1> QED
    BY <1>1, <1>2, FS_EmptySet, WorkspacesAssumption, IdsAssumption, LimitsAssumption
    DEF Init, ContextInvariant, TypeOK, Host, IdsAreRecorded, EditsAreCounted, TransitionsAreAlone,
        TransitionIsKnown, EditsAreGuarded, RuntimesAreKnown, ContextIsKept, Activating, NoBody,
        Current

(* What installing and stopping do to the control planes. *)
LEMMA InstallMakesOne ==
  ASSUME TypeOK, NEW w \in Workspace, Install(w)
  PROVE  /\ runtimes' \in Seq([workspace : Workspace, state : {"runs", "stopped", "forgotten"}])
         /\ DOMAIN runtimes \subseteq DOMAIN runtimes'
         /\ host'.runtime \in DOMAIN runtimes' \ DOMAIN runtimes
         /\ \A i \in DOMAIN runtimes : runtimes'[i] = runtimes[i]
         /\ runtimes'[host'.runtime].workspace = w
         /\ Live' = Live \cup {host'.runtime}
  <1> DEFINE n == Len(runtimes) + 1
  <1>1. /\ DOMAIN runtimes = 1 .. Len(runtimes) /\ Len(runtimes) \in Nat
        /\ DOMAIN runtimes' = 1 .. n
        /\ runtimes' \in Seq([workspace : Workspace, state : {"runs", "stopped", "forgotten"}])
        /\ \A i \in DOMAIN runtimes : runtimes'[i] = runtimes[i]
        /\ runtimes'[n] = [workspace |-> w, state |-> "runs"]
        /\ host'.runtime = n
    BY DEF TypeOK, Install
  <1> QED
    BY <1>1 DEF Live

LEMMA StopEndsOne ==
  ASSUME TypeOK, NEW i \in DOMAIN runtimes, Stop(i)
  PROVE  /\ runtimes' \in Seq([workspace : Workspace, state : {"runs", "stopped", "forgotten"}])
         /\ DOMAIN runtimes' = DOMAIN runtimes
         /\ \A j \in DOMAIN runtimes : runtimes'[j].workspace = runtimes[j].workspace
         /\ Live' = Live \ {i}
  <1> DEFINE e == [runtimes[i] EXCEPT !.state = "stopped"]
  <1>. DEFINE Runtime == [workspace : Workspace, state : {"runs", "stopped", "forgotten"}]
  <1>a. runtimes \in Seq(Runtime)
    BY DEF TypeOK
  <1>0. /\ runtimes \in Seq(Runtime)
        /\ i \in 1 .. Len(runtimes)
        /\ runtimes[i] \in Runtime
    <2> HIDE DEF Runtime
    <2> QED BY <1>a, LenProperties, ElementOfSeq
  <1>1. /\ e \in [workspace : Workspace, state : {"runs", "stopped", "forgotten"}]
        /\ e.workspace = runtimes[i].workspace /\ e.state = "stopped"
    BY <1>0
  <1>2. runtimes' = [runtimes EXCEPT ![i] = e]
    BY DEF Stop
  <1> HIDE DEF e
  <1>3. /\ runtimes' \in Seq([workspace : Workspace, state : {"runs", "stopped", "forgotten"}])
        /\ Len(runtimes') = Len(runtimes)
        /\ \A j \in 1 .. Len(runtimes) : runtimes'[j] = IF j = i THEN e ELSE runtimes[j]
    BY <1>0, <1>1, <1>2, ExceptSeq
  <1>4. DOMAIN runtimes' = DOMAIN runtimes /\ DOMAIN runtimes = 1 .. Len(runtimes)
    BY <1>0, <1>3
  <1> QED
    BY <1>0, <1>1, <1>3, <1>4 DEF Live

(* A settled mutation gives back what it holds. *)
LEMMA SettleReleases ==
  ASSUME ContextInvariant, NEW id \in RequestId, NEW outcome \in {"refused", "ok", "failed"}, NEW h,
         at[id] \notin {"none", "done"}, Settle(id, outcome, h),
         h.active = host.active, h.reserved = host.reserved
  PROVE  /\ IsFiniteSet(Editors') /\ Editors' = Editors \ {id}
         /\ Released(h, ledger[id].kind).active = Cardinality(Editors')
  <1> USE DEF ContextInvariant
  <1>1. at'[id] = "done" /\ ledger' = ledger
        /\ \A x \in RequestId \ {id} : at'[x] = at[x]
    BY DEF Settle, TypeOK
  <1>2. Editors' = Editors \ {id}
    BY <1>1 DEF Editors
  <1>3. IsFiniteSet(Editors') /\ Cardinality(Editors) \in Nat
        /\ Cardinality(Editors') = IF id \in Editors THEN Cardinality(Editors) - 1 ELSE Cardinality(Editors)
    BY <1>2, FS_RemoveElement, FS_CardinalityType DEF EditsAreCounted
  <1>4. id \in Editors <=> ledger[id].kind = "edit"
    BY DEF Editors, IdsAreRecorded, TypeOK
  <1> QED
    BY <1>2, <1>3, <1>4 DEF EditsAreCounted, IdsAreRecorded, Released

(* Beside a transition no other mutation is under way. *)
LEMMA TransitionStandsAlone ==
  ASSUME ContextInvariant, NEW id \in RequestId, at[id] \in Step
  PROVE  /\ host.transition = id /\ host.reserved
         /\ \A other \in RequestId \ {id} : at[other] \in {"none", "done"}
  <1> USE DEF ContextInvariant
  <1>1. Activating(id) /\ host.transition = id
    BY DEF IdsAreRecorded, TransitionIsKnown, Activating
  <1>2. host.reserved /\ Editors = {} /\ \A other \in RequestId \ {id} : ~ Activating(other)
    BY <1>1 DEF TransitionsAreAlone
  <1>3. ASSUME NEW other \in RequestId \ {id}, at[other] \notin {"none", "done"} PROVE FALSE
    <2>1. at[other] \in {"admitted", "editing"} \cup Step /\ ledger[other].kind \in {"edit", "activate"}
      BY <1>3 DEF TypeOK, IdsAreRecorded
    <2>2. at[other] = "editing" => ledger[other].kind = "edit"
      BY DEF IdsAreRecorded
    <2>3. at[other] \in Step => ledger[other].kind = "activate"
      BY DEF IdsAreRecorded
    <2> QED
      BY <1>2, <2>1, <2>2, <2>3 DEF Editors, Activating
  <1> QED
    BY <1>1, <1>2, <1>3

LEMMA PostKeeps ==
  ASSUME ContextInvariant, NEW id \in RequestId, NEW body \in Body, Post(id, body)
  PROVE  ContextInvariant'
  <1> USE DEF ContextInvariant
  <1>1. /\ at[id] = "none" /\ body.kind \in {"edit", "activate"}
        /\ body \in [kind : {"none", "edit", "activate"}, context : Nat, target : Workspace]
    <2>1. ledger[id] = NoBody /\ at[id] \in Place
      BY DEF Post, TypeOK
    <2>2. at[id] = "none"
      BY <2>1 DEF IdsAreRecorded, NoBody
    <2> QED
      BY <2>2, WorkspacesAssumption DEF Body, Revision
  <1>2. /\ ledger' = [ledger EXCEPT ![id] = body]
        /\ runtimes' = runtimes /\ published' = published /\ faults' = faults /\ begun' = begun
    BY DEF Post
  <1>3. \/ /\ Reservable(body.kind) /\ host' = Reserved(host, body.kind)
           /\ at' = [at EXCEPT ![id] = "admitted"] /\ outcomes' = outcomes
        \/ /\ host' = host /\ at' = [at EXCEPT ![id] = "done"]
           /\ outcomes' = [outcomes EXCEPT ![id] = @ \cup {"refused"}]
    BY DEF Post
  <1>4. TypeOK'
    <2>1. host' \in Host
      <3>0. host \in Host /\ host.active + 1 \in Nat
        BY DEF TypeOK, Host
      <3>1. host' = host \/ host' = [host EXCEPT !.reserved = TRUE]
            \/ host' = [host EXCEPT !.active = @ + 1]
        BY <1>3 DEF Reserved
      <3>2. CASE host' = host
        BY <3>0, <3>2
      <3>3. CASE host' = [host EXCEPT !.reserved = TRUE]
        BY <3>0, <3>3 DEF Host
      <3>4. CASE host' = [host EXCEPT !.active = @ + 1]
        BY <3>0, <3>4 DEF Host
      <3> QED
        BY <3>1, <3>2, <3>3, <3>4
    <2>2. at' \in [RequestId -> Place]
      BY <1>3 DEF TypeOK
    <2>3. outcomes' \in [RequestId -> SUBSET {"refused", "ok", "failed"}]
      <3>1. CASE outcomes' = outcomes
        BY <3>1 DEF TypeOK
      <3>2. CASE outcomes' = [outcomes EXCEPT ![id] = @ \cup {"refused"}]
        BY <3>2 DEF TypeOK
      <3> QED
        BY <1>3, <3>1, <3>2
    <2>4. ledger' \in [RequestId -> [kind : {"none", "edit", "activate"}, context : Nat,
                                     target : Workspace]]
      BY <1>1, <1>2 DEF TypeOK
    <2> QED
      BY <1>2, <2>1, <2>2, <2>3, <2>4 DEF TypeOK, Host
  <1>5. IdsAreRecorded'
    <2>1. \A x \in RequestId \ {id} : at'[x] = at[x] /\ ledger'[x] = ledger[x] /\ outcomes'[x] = outcomes[x]
      BY <1>2, <1>3 DEF TypeOK
    <2>2. ledger'[id] = body /\ begun[id] = 0 /\ outcomes[id] = {}
      BY <1>1, <1>2 DEF TypeOK, IdsAreRecorded
    <2>3. \/ at'[id] = "admitted" /\ outcomes'[id] = {}
          \/ at'[id] = "done" /\ outcomes'[id] = {"refused"}
      BY <1>3, <2>2 DEF TypeOK
    <2>4. begun' = begun /\ body.kind \in {"edit", "activate"}
      BY <1>1, <1>2
    <2> QED
      BY <2>1, <2>2, <2>3, <2>4 DEF IdsAreRecorded
  <1>6. Editors' = IF body.kind = "edit" /\ at'[id] = "admitted" THEN Editors \cup {id} ELSE Editors
    BY <1>1, <1>2, <1>3 DEF TypeOK, Editors
  <1>7. EditsAreCounted'
    <2>1. id \notin Editors
      BY <1>1 DEF Editors
    <2>2. host'.active = IF body.kind = "edit" /\ at'[id] = "admitted" THEN host.active + 1 ELSE host.active
      BY <1>1, <1>3 DEF Reserved, TypeOK, Host
    <2> QED
      BY <1>6, <2>1, <2>2, FS_AddElement DEF EditsAreCounted
  <1>8. TransitionsAreAlone' /\ TransitionIsKnown'
    <2>1. at'[id] = "admitted" /\ body.kind = "activate" =>
            /\ Editors = {} /\ host'.reserved /\ \A other \in RequestId : ~ Activating(other)
      <3>1. host.active = 0 /\ IsFiniteSet(Editors) => Editors = {}
        BY FS_EmptySet DEF EditsAreCounted
      <3> QED
        BY <1>1, <1>3, <3>1 DEF Reservable, Reserved, TypeOK, Host, EditsAreCounted, TransitionsAreAlone
    <2>2. at'[id] = "admitted" /\ body.kind = "edit" => ~ host'.reserved /\ ~ host.reserved
      BY <1>1, <1>3 DEF Reservable, Reserved, TypeOK, Host
    <2>3. TransitionsAreAlone'
      BY <1>1, <1>2, <1>3, <1>6, <2>1, <2>2 DEF Reserved, TypeOK, Host, TransitionsAreAlone, Activating
    <2>4. TransitionIsKnown'
      BY <1>1, <1>3 DEF Reserved, TypeOK, Host, TransitionIsKnown
    <2> QED
      BY <2>3, <2>4
  <1>9. /\ host'.workspace = host.workspace /\ host'.runtime = host.runtime
        /\ host'.previous = host.previous /\ host'.phase = host.phase
        /\ host'.recovery = host.recovery /\ host'.transition = host.transition
        /\ Live' = Live /\ Current' = Current
    BY <1>2, <1>3 DEF Reserved, TypeOK, Host, Live, Current
  <1>10. /\ \A x \in RequestId \ {id} : at'[x] = at[x] /\ ledger'[x] = ledger[x]
         /\ at'[id] \in {"admitted", "done"}
    BY <1>2, <1>3 DEF TypeOK
  <1>11. EditsAreGuarded'
    BY <1>2, <1>9, <1>10 DEF EditsAreGuarded
  <1>12. RuntimesAreKnown'
    BY <1>1, <1>2, <1>9, <1>10 DEF RuntimesAreKnown
  <1>13. ContextIsKept'
    BY <1>1, <1>2, <1>9, <1>10 DEF ContextIsKept
  <1> QED
    BY <1>4, <1>5, <1>7, <1>8, <1>11, <1>12, <1>13

(* What is settled leaves the reservations and the records in order. *)
LEMMA SettleKeepsRecords ==
  ASSUME ContextInvariant, NEW id \in RequestId, NEW outcome \in {"refused", "ok", "failed"},
         at[id] \notin {"none", "done"},
         NEW h \in Host', Settle(id, outcome, h),
         h.active = host.active, h.reserved = host.reserved,
         h.transition = IF at[id] \in Step THEN None ELSE host.transition,
         \/ begun' = begun
         \/ begun' = [begun EXCEPT ![id] = @ + 1] /\ at[id] = "admitted"
  PROVE  /\ host' \in Host' /\ at' \in [RequestId -> Place] /\ begun' \in [RequestId -> Nat]
         /\ outcomes' \in [RequestId -> SUBSET {"refused", "ok", "failed"}]
         /\ IdsAreRecorded' /\ EditsAreCounted' /\ TransitionsAreAlone' /\ TransitionIsKnown'
  <1> USE DEF ContextInvariant
  <1>1. /\ at'[id] = "done" /\ ledger' = ledger /\ host' = Released(h, ledger[id].kind)
        /\ at' \in [RequestId -> Place]
        /\ \A x \in RequestId \ {id} : at'[x] = at[x]
    BY DEF Settle, TypeOK
  <1>2. /\ outcomes[id] = {} /\ outcomes'[id] = {outcome}
        /\ \A x \in RequestId \ {id} : outcomes'[x] = outcomes[x]
        /\ outcomes' \in [RequestId -> SUBSET {"refused", "ok", "failed"}]
    <2>1. outcomes[id] = {}
      BY DEF IdsAreRecorded
    <2> QED
      BY <2>1 DEF Settle, TypeOK
  <1>3. /\ begun' \in [RequestId -> Nat] /\ begun'[id] <= 1
        /\ \A x \in RequestId \ {id} : begun'[x] = begun[x]
    <2>1. /\ begun \in [RequestId -> Nat] /\ begun[id] <= 1
          /\ at[id] = "admitted" => begun[id] = 0
      BY DEF TypeOK, IdsAreRecorded
    <2>2. begun' = begun \/ (begun' = [begun EXCEPT ![id] = @ + 1] /\ at[id] = "admitted")
      OBVIOUS
    <2> QED
      BY <2>1, <2>2
  <1>4. IdsAreRecorded'
    BY <1>1, <1>2, <1>3 DEF IdsAreRecorded
  <1>5. /\ IsFiniteSet(Editors') /\ Editors' = Editors \ {id}
        /\ host'.active = Cardinality(Editors')
    BY <1>1, SettleReleases
  <1>6. host' \in Host' /\ host'.transition = h.transition
        /\ host'.reserved = IF ledger[id].kind = "activate" THEN FALSE ELSE host.reserved
    <2>1. host'.active \in Nat
      BY <1>5, FS_CardinalityType
    <2> QED
      BY <1>1, <2>1 DEF Released, Host
  <1>7. EditsAreCounted'
    BY <1>5 DEF EditsAreCounted
  <1>8. TransitionsAreAlone'
    <2>1. ledger[id].kind = "activate" => Activating(id)
      BY DEF IdsAreRecorded, Activating, TypeOK
    <2> QED
      BY <1>1, <1>5, <1>6, <2>1 DEF TransitionsAreAlone, Activating
  <1>9. TransitionIsKnown'
    BY <1>1, <1>6 DEF TransitionIsKnown
  <1> QED
    BY <1>1, <1>2, <1>3, <1>4, <1>6, <1>7, <1>8, <1>9

(* So does a mutation that goes on: its action begins, or the transition   *)
(* takes its next step.                                                    *)
LEMMA MoveKeepsRecords ==
  ASSUME ContextInvariant, NEW id \in RequestId, NEW x \in {"editing"} \cup Step,
         at' = [at EXCEPT ![id] = x], ledger' = ledger, outcomes' = outcomes,
         host'.active = host.active, host'.reserved = host.reserved,
         host'.transition = IF x \in Step THEN id ELSE host.transition,
         \/ at[id] \in Step /\ x \in Step /\ begun' = begun
         \/ /\ at[id] = "admitted" /\ begun' = [begun EXCEPT ![id] = @ + 1]
            /\ x = "editing" => ledger[id].kind = "edit"
            /\ x \in Step => ledger[id].kind = "activate" /\ host.transition = None
  PROVE  /\ at' \in [RequestId -> Place] /\ begun' \in [RequestId -> Nat]
         /\ IdsAreRecorded' /\ EditsAreCounted' /\ TransitionsAreAlone' /\ TransitionIsKnown'
  <1> USE DEF ContextInvariant
  <1>1. /\ at' \in [RequestId -> Place] /\ at'[id] = x
        /\ \A other \in RequestId \ {id} : at'[other] = at[other]
    BY DEF TypeOK
  <1>2. /\ begun' \in [RequestId -> Nat] /\ begun'[id] <= 1
        /\ \A other \in RequestId \ {id} : begun'[other] = begun[other]
    <2>1. /\ begun \in [RequestId -> Nat] /\ begun[id] <= 1
          /\ at[id] = "admitted" => begun[id] = 0
      BY DEF TypeOK, IdsAreRecorded
    <2>2. begun' = begun \/ (begun' = [begun EXCEPT ![id] = @ + 1] /\ at[id] = "admitted")
      OBVIOUS
    <2> QED
      BY <2>1, <2>2
  <1>3. ledger[id].kind = IF x = "editing" THEN "edit" ELSE "activate"
    BY DEF IdsAreRecorded
  <1>4. IdsAreRecorded'
    BY <1>1, <1>2, <1>3 DEF IdsAreRecorded
  <1>5. Editors' = Editors
    BY <1>1, <1>3 DEF Editors
  <1>6. EditsAreCounted'
    BY <1>5 DEF EditsAreCounted
  <1>7. \A other \in RequestId : Activating(other)' <=> Activating(other)
    BY <1>1, <1>3 DEF Activating
  <1>8. TransitionsAreAlone'
    BY <1>5, <1>7 DEF TransitionsAreAlone
  <1>9. TransitionIsKnown'
    BY <1>1, IdsAssumption DEF TransitionIsKnown
  <1> QED
    BY <1>1, <1>2, <1>4, <1>6, <1>8, <1>9

(* A mutation that is not a transition, or did not become one, ends.       *)
LEMMA QuietEndKeeps ==
  ASSUME ContextInvariant, NEW id \in RequestId, NEW outcome \in {"refused", "ok", "failed"},
         at[id] \in {"admitted", "editing"}, Settle(id, outcome, host),
         UNCHANGED <<runtimes, published, faults>>,
         \/ begun' = begun
         \/ begun' = [begun EXCEPT ![id] = @ + 1] /\ at[id] = "admitted"
  PROVE  ContextInvariant'
  <1> USE DEF ContextInvariant
  <1>1. host \in Host /\ host \in Host' /\ Live' = Live /\ Current' = Current
    BY DEF TypeOK, Host, Live, Current
  <1>2. /\ host' \in Host' /\ at' \in [RequestId -> Place] /\ begun' \in [RequestId -> Nat]
        /\ outcomes' \in [RequestId -> SUBSET {"refused", "ok", "failed"}]
        /\ IdsAreRecorded' /\ EditsAreCounted' /\ TransitionsAreAlone' /\ TransitionIsKnown'
    BY <1>1, SettleKeepsRecords
  <1>3. TypeOK'
    BY <1>2 DEF TypeOK, Settle
  <1>4. /\ host'.workspace = host.workspace /\ host'.runtime = host.runtime
        /\ host'.previous = host.previous /\ host'.phase = host.phase
        /\ host'.recovery = host.recovery /\ host'.transition = host.transition
    BY <1>1 DEF Settle, Released, Host
  <1>5. /\ at'[id] = "done" /\ \A x \in RequestId \ {id} : at'[x] = at[x]
        /\ ledger' = ledger
    BY DEF Settle, TypeOK
  <1>6. EditsAreGuarded'
    BY <1>1, <1>4, <1>5 DEF EditsAreGuarded
  <1>7. RuntimesAreKnown'
    BY <1>1, <1>4, <1>5 DEF RuntimesAreKnown
  <1>8. ContextIsKept'
    BY <1>1, <1>4, <1>5 DEF ContextIsKept
  <1> QED
    BY <1>2, <1>3, <1>6, <1>7, <1>8

LEMMA BeginKeeps ==
  ASSUME ContextInvariant, NEW id \in RequestId, Begin(id)
  PROVE  ContextInvariant'
  <1>1. /\ at[id] = "admitted"
        /\ UNCHANGED <<runtimes, published, faults>>
        /\ begun' = begun \/ begun' = [begun EXCEPT ![id] = @ + 1]
    BY DEF Begin
  <1>2. CASE \E outcome \in {"refused", "ok"} : Settle(id, outcome, host)
    BY <1>1, <1>2, QuietEndKeeps
  <1> USE DEF ContextInvariant
  <1>3. CASE /\ Admitting /\ ledger[id].kind = "edit" /\ Guarded(ledger[id])
             /\ at' = [at EXCEPT ![id] = "editing"] /\ UNCHANGED <<host, ledger, outcomes>>
             /\ begun' = [begun EXCEPT ![id] = @ + 1]
    <2>1. /\ at' \in [RequestId -> Place] /\ begun' \in [RequestId -> Nat]
          /\ IdsAreRecorded' /\ EditsAreCounted' /\ TransitionsAreAlone' /\ TransitionIsKnown'
      BY <1>1, <1>3, MoveKeepsRecords
    <2>2. TypeOK'
      BY <1>1, <1>3, <2>1 DEF TypeOK, Host
    <2>3. Live' = Live /\ Current' = Current /\ published' = published /\ runtimes' = runtimes
      BY <1>1 DEF Live, Current
    <2>4. /\ at'[id] = "editing" /\ host' = host /\ ledger' = ledger
          /\ \A x \in RequestId \ {id} : at'[x] = at[x]
      BY <1>3 DEF TypeOK
    <2>5. EditsAreGuarded'
      BY <1>3, <2>3, <2>4 DEF EditsAreGuarded, Guarded
    <2>6. RuntimesAreKnown'
      BY <1>1, <2>3, <2>4 DEF RuntimesAreKnown
    <2>7. ContextIsKept'
      BY <2>3, <2>4 DEF ContextIsKept
    <2> QED
      BY <2>1, <2>2, <2>5, <2>6, <2>7
  <1>4. CASE /\ Admitting /\ ledger[id].kind = "activate"
             /\ host' = [host EXCEPT !.transition = id, !.previous = host.runtime]
             /\ at' = [at EXCEPT ![id] = "detach"] /\ UNCHANGED <<ledger, outcomes>>
             /\ begun' = [begun EXCEPT ![id] = @ + 1]
    <2>1. host \in Host /\ host.transition = None
      BY <1>4 DEF TypeOK, Admitting
    <2>2. /\ host' \in Host /\ host'.transition = id /\ host'.previous = host.runtime
          /\ host'.workspace = host.workspace /\ host'.runtime = host.runtime
          /\ host'.phase = host.phase /\ host'.recovery = host.recovery
          /\ host'.active = host.active /\ host'.reserved = host.reserved
      BY <1>4, <2>1 DEF Host
    <2>3. /\ at' \in [RequestId -> Place] /\ begun' \in [RequestId -> Nat]
          /\ IdsAreRecorded' /\ EditsAreCounted' /\ TransitionsAreAlone' /\ TransitionIsKnown'
      BY <1>1, <1>4, <2>1, <2>2, MoveKeepsRecords
    <2>4. TypeOK'
      BY <1>1, <1>4, <2>2, <2>3 DEF TypeOK, Host
    <2>5. Live' = Live /\ Current' = Current /\ published' = published /\ runtimes' = runtimes
      BY <1>1 DEF Live, Current
    <2>6. /\ at'[id] = "detach" /\ ledger' = ledger
          /\ \A x \in RequestId \ {id} : at'[x] = at[x] /\ at[x] \notin Step
          /\ \A x \in RequestId : at[x] # "stopPrevious"
      BY <1>1, <1>4, <2>1, IdsAssumption DEF TypeOK, TransitionIsKnown
    <2>7. EditsAreGuarded'
      BY <2>2, <2>5, <2>6 DEF EditsAreGuarded
    <2>8. RuntimesAreKnown'
      BY <2>2, <2>5, <2>6 DEF RuntimesAreKnown
    <2>9. ContextIsKept'
      BY <2>1, <2>2, <2>5, <2>6, IdsAssumption DEF ContextIsKept, RuntimesAreKnown
    <2> QED
      BY <2>3, <2>4, <2>7, <2>8, <2>9
  <1>5. ledger[id].kind \in {"edit", "activate"}
    BY <1>1 DEF IdsAreRecorded
  <1> HIDE DEF ContextInvariant
  <1> QED
    BY <1>2, <1>3, <1>4, <1>5 DEF Begin

LEMMA FinishEditKeeps ==
  ASSUME ContextInvariant, NEW id \in RequestId, FinishEdit(id)
  PROVE  ContextInvariant'
  BY QuietEndKeeps DEF FinishEdit
-----------------------------------------------------------------------------
(* A step of a transition that goes on, and one that ends it: nothing else *)
(* is under way, so only its own place matters.                            *)
LEMMA OnlyTheTransitionMoves ==
  ASSUME ContextInvariant, NEW id \in RequestId, at[id] \in Step, NEW x \in Step \cup {"done"},
         at' = [at EXCEPT ![id] = x]
  PROVE  /\ at'[id] = x /\ \A other \in RequestId \ {id} : at'[other] \in {"none", "done"}
         /\ \A other \in RequestId : at'[other] # "editing"
         /\ EditsAreGuarded'
  BY TransitionStandsAlone DEF ContextInvariant, TypeOK, EditsAreGuarded

LEMMA DetachKeeps ==
  ASSUME ContextInvariant, NEW id \in RequestId, Detach(id)
  PROVE  ContextInvariant'
  <1>1. PICK x \in {"install", "rollback"} :
           /\ at[id] = "detach" /\ at' = [at EXCEPT ![id] = x] /\ faults' \in Nat
           /\ UNCHANGED <<host, runtimes, published, ledger, begun, outcomes>>
    BY DEF Detach, Goto, Rollback, Fault, ContextInvariant, TypeOK
  <1>2. /\ at'[id] = x /\ EditsAreGuarded'
        /\ \A other \in RequestId \ {id} : at'[other] \in {"none", "done"}
    BY <1>1, OnlyTheTransitionMoves
  <1>3. host.transition = id
    BY <1>1, TransitionStandsAlone
  <1>4. /\ at' \in [RequestId -> Place]
        /\ IdsAreRecorded' /\ EditsAreCounted' /\ TransitionsAreAlone' /\ TransitionIsKnown'
    BY <1>1, <1>3, MoveKeepsRecords
  <1> USE DEF ContextInvariant
  <1>5. TypeOK'
    BY <1>1, <1>4 DEF TypeOK, Host
  <1>6. Live' = Live /\ Current' = Current /\ published' = published /\ runtimes' = runtimes
        /\ host' = host
    BY <1>1 DEF Live, Current
  <1>7. \A other \in RequestId : at[other] # "stopPrevious"
    BY <1>1, TransitionStandsAlone
  <1>8. RuntimesAreKnown'
    BY <1>1, <1>2, <1>6, <1>7 DEF RuntimesAreKnown
  <1>9. ContextIsKept'
    BY <1>1, <1>2, <1>3, <1>6, IdsAssumption DEF ContextIsKept
  <1> QED
    BY <1>2, <1>4, <1>5, <1>8, <1>9

LEMMA InstallTargetKeeps ==
  ASSUME ContextInvariant, NEW id \in RequestId, InstallTarget(id)
  PROVE  ContextInvariant'
  <1>1. /\ at[id] = "install" /\ UNCHANGED <<published, ledger, begun, outcomes>>
        /\ host.transition = id /\ Current' = Current
        /\ \A other \in RequestId : at[other] # "stopPrevious"
    BY TransitionStandsAlone DEF InstallTarget, Current
  <1>2. CASE Install(ledger[id].target) /\ at' = [at EXCEPT ![id] = "stopPrevious"] /\ faults' = faults
    <2> DEFINE w == ledger[id].target
    <2>1. TypeOK /\ host \in Host /\ w \in Workspace
      BY DEF ContextInvariant, TypeOK
    <2>2. Install(w)
      BY <1>2
    <2> HIDE DEF w
    <2>3. /\ runtimes' \in Seq([workspace : Workspace, state : {"runs", "stopped", "forgotten"}])
          /\ DOMAIN runtimes \subseteq DOMAIN runtimes'
          /\ host'.runtime \in DOMAIN runtimes' \ DOMAIN runtimes
          /\ \A i \in DOMAIN runtimes : runtimes'[i] = runtimes[i]
          /\ runtimes'[host'.runtime].workspace = w
          /\ Live' = Live \cup {host'.runtime}
      BY <2>1, <2>2, InstallMakesOne
    <2>4. /\ host' \in Host' /\ host'.workspace = w
          /\ host'.previous = host.previous /\ host'.phase = host.phase
          /\ host'.recovery = host.recovery /\ host'.transition = host.transition
          /\ host'.active = host.active /\ host'.reserved = host.reserved
      <3>1. PICK r : r = host'.runtime /\ r \in DOMAIN runtimes'
        BY <2>3
      <3>2. host' = [host EXCEPT !.workspace = w, !.runtime = r]
        BY <2>1, <2>2, <3>1 DEF Install, Host
      <3> QED
        BY <2>1, <2>3, <3>1, <3>2 DEF Host
    <2>5. /\ at'[id] = "stopPrevious" /\ EditsAreGuarded'
          /\ \A other \in RequestId \ {id} : at'[other] \in {"none", "done"}
      BY <1>1, <1>2, OnlyTheTransitionMoves
    <2>6. /\ at' \in [RequestId -> Place]
          /\ IdsAreRecorded' /\ EditsAreCounted' /\ TransitionsAreAlone' /\ TransitionIsKnown'
      BY <1>1, <1>2, <2>4, MoveKeepsRecords
    <2> USE DEF ContextInvariant
    <2>7. TypeOK'
      BY <1>1, <1>2, <2>3, <2>4, <2>6 DEF TypeOK
    <2>8. RuntimesAreKnown'
      BY <1>1, <2>1, <2>3, <2>4, <2>5 DEF RuntimesAreKnown, Host
    <2>9. ContextIsKept'
      BY <1>1, <2>1, <2>3, <2>4, <2>5, IdsAssumption DEF ContextIsKept, Host
    <2> QED
      BY <2>5, <2>6, <2>7, <2>8, <2>9
  <1>3. CASE Rollback(id) /\ UNCHANGED <<host, runtimes>>
    <2>1. at' = [at EXCEPT ![id] = "rollback"] /\ faults' \in Nat
      BY <1>3 DEF Rollback, Goto, Fault, ContextInvariant, TypeOK
    <2>2. /\ at'[id] = "rollback" /\ EditsAreGuarded'
          /\ \A other \in RequestId \ {id} : at'[other] \in {"none", "done"}
      BY <1>1, <2>1, OnlyTheTransitionMoves
    <2>3. /\ at' \in [RequestId -> Place]
          /\ IdsAreRecorded' /\ EditsAreCounted' /\ TransitionsAreAlone' /\ TransitionIsKnown'
      BY <1>1, <1>3, <2>1, MoveKeepsRecords
    <2>4. Live' = Live /\ published' = published /\ runtimes' = runtimes /\ host' = host
      BY <1>1, <1>3 DEF Live
    <2> USE DEF ContextInvariant
    <2>5. TypeOK'
      BY <1>1, <2>1, <2>3, <2>4 DEF TypeOK, Host
    <2>6. RuntimesAreKnown'
      BY <1>1, <2>2, <2>4 DEF RuntimesAreKnown
    <2>7. ContextIsKept'
      BY <1>1, <2>2, <2>4, IdsAssumption DEF ContextIsKept
    <2> QED
      BY <2>2, <2>3, <2>5, <2>6, <2>7
  <1> QED
    BY <1>2, <1>3 DEF InstallTarget, Goto

(* A target that is installed half way runs, and the Host forgets the      *)
(* Runtime before it.                                                      *)
LEMMA InstallHalfKeeps ==
  ASSUME ContextInvariant, NEW id \in RequestId, InstallHalf(id)
  PROVE  ContextInvariant'
  <1> DEFINE w == ledger[id].target
             p == host.previous
             e == [runtimes[p] EXCEPT !.state = IF @ = "runs" THEN "forgotten" ELSE @]
             t == [workspace |-> w, state |-> "runs"]
             before == [runtimes EXCEPT ![p] = e]
             Runtime == [workspace : Workspace, state : {"runs", "stopped", "forgotten"}]
  <1>1. /\ at[id] = "install" /\ UNCHANGED <<published, ledger, begun, outcomes>>
        /\ host.transition = id /\ Current' = Current
        /\ \A other \in RequestId : at[other] # "stopPrevious"
    BY TransitionStandsAlone DEF InstallHalf, Current
  <1>2. TypeOK /\ host \in Host /\ w \in Workspace /\ p \in DOMAIN runtimes
        /\ host.runtime \in DOMAIN runtimes
    BY DEF ContextInvariant, TypeOK, Host
  <1>3. runtimes \in Seq(Runtime)
    BY <1>2 DEF TypeOK
  <1>4. p \in 1 .. Len(runtimes) /\ runtimes[p] \in Runtime
    <2> HIDE DEF Runtime, p
    <2> QED
      BY <1>2, <1>3, LenProperties, ElementOfSeq
  <1>5. /\ e \in Runtime /\ e.workspace = runtimes[p].workspace /\ e.state # "runs"
        /\ t \in Runtime /\ t.workspace = w /\ t.state = "runs"
    BY <1>2, <1>4
  <1>6. /\ runtimes' = Append(before, t)
        /\ host' = [host EXCEPT !.workspace = w, !.runtime = Len(runtimes) + 1]
        /\ at' = [at EXCEPT ![id] = "rollback"] /\ faults' \in Nat
    BY <1>2 DEF InstallHalf, Rollback, Goto, Fault, TypeOK
  <1> HIDE DEF e, t, w, Runtime
  <1>7. /\ before \in Seq(Runtime) /\ Len(before) = Len(runtimes)
        /\ \A j \in 1 .. Len(runtimes) : before[j] = IF j = p THEN e ELSE runtimes[j]
    BY <1>3, <1>4, <1>5, ExceptSeq
  <1> HIDE DEF before
  <1> DEFINE n == Len(runtimes) + 1
  <1>8. /\ runtimes' \in Seq(Runtime) /\ DOMAIN runtimes = 1 .. Len(runtimes)
        /\ Len(runtimes) \in Nat /\ DOMAIN runtimes' = 1 .. n
        /\ runtimes'[n] = t
        /\ \A j \in 1 .. Len(runtimes) : runtimes'[j] = IF j = p THEN e ELSE runtimes[j]
    BY <1>3, <1>5, <1>6, <1>7
  <1>9. /\ Live' = (Live \ {p}) \cup {n}
        /\ \A j \in DOMAIN runtimes : runtimes'[j].workspace = runtimes[j].workspace
        /\ runtimes'[n].workspace = w
    BY <1>5, <1>8 DEF Live
  <1>10. /\ host' \in Host' /\ host'.workspace = w /\ host'.runtime = n
         /\ host'.previous = p /\ host'.phase = host.phase
         /\ host'.recovery = host.recovery /\ host'.transition = host.transition
         /\ host'.active = host.active /\ host'.reserved = host.reserved
    <2>1. PICK r : r = n /\ r \in DOMAIN runtimes'
      BY <1>8
    <2>2. host' = [host EXCEPT !.workspace = w, !.runtime = r]
      BY <1>6, <2>1
    <2>3. p = host.previous /\ DOMAIN runtimes \subseteq DOMAIN runtimes'
      BY <1>8, <2>1
    <2> HIDE DEF p, n
    <2> QED
      BY <1>2, <2>1, <2>2, <2>3 DEF Host
  <1>11. /\ at'[id] = "rollback" /\ EditsAreGuarded'
         /\ \A other \in RequestId \ {id} : at'[other] \in {"none", "done"}
    BY <1>1, <1>6, OnlyTheTransitionMoves
  <1>12. /\ at' \in [RequestId -> Place]
         /\ IdsAreRecorded' /\ EditsAreCounted' /\ TransitionsAreAlone' /\ TransitionIsKnown'
    BY <1>1, <1>6, <1>10, MoveKeepsRecords
  <1>13. host.phase # "closed" => host.runtime = p /\ Live \subseteq {host.runtime}
    BY <1>1 DEF ContextInvariant, RuntimesAreKnown
  <1>14. n # p
    BY <1>4, <1>8
  <1> USE DEF ContextInvariant
  <1>15. TypeOK'
    BY <1>1, <1>6, <1>8, <1>10, <1>12 DEF TypeOK, Runtime
  <1>16. RuntimesAreKnown'
    BY <1>9, <1>10, <1>11, <1>13 DEF RuntimesAreKnown
  <1>17. ContextIsKept'
    BY <1>1, <1>2, <1>9, <1>10, <1>11, <1>14, IdsAssumption DEF ContextIsKept
  <1> QED
    BY <1>11, <1>12, <1>15, <1>16, <1>17

LEMMA StopPreviousKeeps ==
  ASSUME ContextInvariant, NEW id \in RequestId, StopPrevious(id)
  PROVE  ContextInvariant'
  <1>1. PICK x \in {"register", "rollback"} :
           /\ at[id] = "stopPrevious" /\ at' = [at EXCEPT ![id] = x] /\ faults' \in Nat
           /\ Stop(host.previous)
           /\ UNCHANGED <<host, published, ledger, begun, outcomes>>
    BY DEF StopPrevious, Goto, Rollback, Fault, ContextInvariant, TypeOK
  <1>2. /\ at'[id] = x /\ EditsAreGuarded'
        /\ \A other \in RequestId \ {id} : at'[other] \in {"none", "done"}
    BY <1>1, OnlyTheTransitionMoves
  <1>3. host.transition = id
    BY <1>1, TransitionStandsAlone
  <1>4. /\ at' \in [RequestId -> Place]
        /\ IdsAreRecorded' /\ EditsAreCounted' /\ TransitionsAreAlone' /\ TransitionIsKnown'
    BY <1>1, <1>3, MoveKeepsRecords
  <1>5. TypeOK /\ host \in Host
    BY DEF ContextInvariant, TypeOK
  <1>6. host.runtime \in DOMAIN runtimes /\ host.previous \in DOMAIN runtimes
    BY <1>5 DEF Host
  <1>7. /\ runtimes' \in Seq([workspace : Workspace, state : {"runs", "stopped", "forgotten"}])
        /\ DOMAIN runtimes' = DOMAIN runtimes
        /\ \A j \in DOMAIN runtimes : runtimes'[j].workspace = runtimes[j].workspace
        /\ Live' = Live \ {host.previous}
    BY <1>1, <1>5, <1>6, StopEndsOne
  <1>8. host' = host /\ published' = published /\ Current' = Current
    BY <1>1 DEF Current
  <1> USE DEF ContextInvariant
  <1>9. TypeOK'
    BY <1>1, <1>4, <1>5, <1>7, <1>8 DEF TypeOK, Host
  <1>10. RuntimesAreKnown'
    BY <1>1, <1>2, <1>6, <1>7, <1>8 DEF RuntimesAreKnown
  <1>11. host.phase # "closed" => host.runtime # host.previous
    BY <1>1 DEF RuntimesAreKnown
  <1>12. ContextIsKept'
    BY <1>1, <1>2, <1>3, <1>6, <1>7, <1>8, <1>11, IdsAssumption DEF ContextIsKept
  <1> QED
    BY <1>2, <1>4, <1>9, <1>10, <1>12

LEMMA StopTargetKeeps ==
  ASSUME ContextInvariant, NEW id \in RequestId, StopTarget(id)
  PROVE  ContextInvariant'
  <1>1. PICK x \in {"reinstall", "lost"} :
           /\ at[id] = "rollback" /\ at' = [at EXCEPT ![id] = x] /\ faults' \in Nat
           /\ Stop(host.runtime) /\ host.runtime # host.previous
           /\ UNCHANGED <<host, published, ledger, begun, outcomes>>
    BY DEF StopTarget, Goto, Fault, ContextInvariant, TypeOK
  <1>2. /\ at'[id] = x /\ EditsAreGuarded'
        /\ \A other \in RequestId \ {id} : at'[other] \in {"none", "done"}
    BY <1>1, OnlyTheTransitionMoves
  <1>3. /\ host.transition = id
        /\ \A other \in RequestId : at[other] # "stopPrevious"
    BY <1>1, TransitionStandsAlone
  <1>4. /\ at' \in [RequestId -> Place]
        /\ IdsAreRecorded' /\ EditsAreCounted' /\ TransitionsAreAlone' /\ TransitionIsKnown'
    BY <1>1, <1>3, MoveKeepsRecords
  <1>5. TypeOK /\ host \in Host
    BY DEF ContextInvariant, TypeOK
  <1>6. host.runtime \in DOMAIN runtimes /\ host.previous \in DOMAIN runtimes
    BY <1>5 DEF Host
  <1>7. /\ runtimes' \in Seq([workspace : Workspace, state : {"runs", "stopped", "forgotten"}])
        /\ DOMAIN runtimes' = DOMAIN runtimes
        /\ \A j \in DOMAIN runtimes : runtimes'[j].workspace = runtimes[j].workspace
        /\ Live' = Live \ {host.runtime}
    BY <1>1, <1>5, <1>6, StopEndsOne
  <1>8. host' = host /\ published' = published /\ Current' = Current
    BY <1>1 DEF Current
  <1> USE DEF ContextInvariant
  <1>9. TypeOK'
    BY <1>1, <1>4, <1>5, <1>7, <1>8 DEF TypeOK, Host
  <1>10. RuntimesAreKnown'
    BY <1>1, <1>2, <1>3, <1>6, <1>7, <1>8 DEF RuntimesAreKnown
  <1>11. ContextIsKept'
    BY <1>1, <1>2, <1>3, <1>6, <1>7, <1>8, IdsAssumption DEF ContextIsKept
  <1> QED
    BY <1>2, <1>4, <1>9, <1>10, <1>11

LEMMA ReinstallKeeps ==
  ASSUME ContextInvariant, NEW id \in RequestId, Reinstall(id)
  PROVE  ContextInvariant'
  <1>1. /\ at[id] = "reinstall" /\ UNCHANGED <<published, ledger, begun, outcomes>>
        /\ host.transition = id /\ Current' = Current
        /\ \A other \in RequestId : at[other] # "stopPrevious"
    BY TransitionStandsAlone DEF Reinstall, Current
  <1>2. ASSUME NEW x \in {"restore", "lost"}, faults' \in Nat,
               Install(runtimes[host.previous].workspace), at' = [at EXCEPT ![id] = x]
        PROVE  ContextInvariant'
    <2> DEFINE w == runtimes[host.previous].workspace
    <2>1. TypeOK /\ host \in Host /\ host.previous \in DOMAIN runtimes /\ w \in Workspace
      <3>1. TypeOK /\ host \in Host
        BY DEF ContextInvariant, TypeOK
      <3>2. host.previous \in DOMAIN runtimes
        BY <3>1 DEF Host
      <3> DEFINE Runtime == [workspace : Workspace, state : {"runs", "stopped", "forgotten"}]
      <3>3. runtimes[host.previous] \in Runtime
        <4>1. runtimes \in Seq(Runtime)
          BY <3>1 DEF TypeOK
        <4> HIDE DEF Runtime
        <4> QED
          BY <3>2, <4>1, LenProperties, ElementOfSeq
      <3> QED
        BY <3>1, <3>2, <3>3
    <2>2. Install(w)
      BY <1>2
    <2>3. w = runtimes[host.previous].workspace
      OBVIOUS
    <2> HIDE DEF w
    <2>4. /\ runtimes' \in Seq([workspace : Workspace, state : {"runs", "stopped", "forgotten"}])
          /\ DOMAIN runtimes \subseteq DOMAIN runtimes'
          /\ host'.runtime \in DOMAIN runtimes' \ DOMAIN runtimes
          /\ \A i \in DOMAIN runtimes : runtimes'[i] = runtimes[i]
          /\ runtimes'[host'.runtime].workspace = w
          /\ Live' = Live \cup {host'.runtime}
      BY <2>1, <2>2, InstallMakesOne
    <2>5. /\ host' \in Host' /\ host'.workspace = w
          /\ host'.previous = host.previous /\ host'.phase = host.phase
          /\ host'.recovery = host.recovery /\ host'.transition = host.transition
          /\ host'.active = host.active /\ host'.reserved = host.reserved
      <3>1. PICK r : r = host'.runtime /\ r \in DOMAIN runtimes'
        BY <2>4
      <3>2. host' = [host EXCEPT !.workspace = w, !.runtime = r]
        BY <2>1, <2>2, <3>1 DEF Install, Host
      <3> QED
        BY <2>1, <2>4, <3>1, <3>2 DEF Host
    <2>6. /\ at'[id] = x /\ EditsAreGuarded'
          /\ \A other \in RequestId \ {id} : at'[other] \in {"none", "done"}
      BY <1>1, <1>2, OnlyTheTransitionMoves
    <2>7. /\ at' \in [RequestId -> Place]
          /\ IdsAreRecorded' /\ EditsAreCounted' /\ TransitionsAreAlone' /\ TransitionIsKnown'
      BY <1>1, <1>2, <2>5, MoveKeepsRecords
    <2> USE DEF ContextInvariant
    <2>8. TypeOK'
      BY <1>1, <1>2, <2>4, <2>5, <2>7 DEF TypeOK
    <2>9. RuntimesAreKnown'
      BY <1>1, <2>1, <2>4, <2>5, <2>6 DEF RuntimesAreKnown
    <2>10. ContextIsKept'
      BY <1>1, <2>1, <2>3, <2>4, <2>5, <2>6, IdsAssumption DEF ContextIsKept
    <2> QED
      BY <2>6, <2>7, <2>8, <2>9, <2>10
  <1>3. CASE Fault /\ Goto(id, "lost") /\ UNCHANGED <<host, runtimes>>
    <2>1. at' = [at EXCEPT ![id] = "lost"] /\ faults' \in Nat
      BY <1>3 DEF Goto, Fault, ContextInvariant, TypeOK
    <2>2. /\ at'[id] = "lost" /\ EditsAreGuarded'
          /\ \A other \in RequestId \ {id} : at'[other] \in {"none", "done"}
      BY <1>1, <2>1, OnlyTheTransitionMoves
    <2>3. /\ at' \in [RequestId -> Place]
          /\ IdsAreRecorded' /\ EditsAreCounted' /\ TransitionsAreAlone' /\ TransitionIsKnown'
      BY <1>1, <1>3, <2>1, MoveKeepsRecords
    <2>4. Live' = Live /\ published' = published /\ runtimes' = runtimes /\ host' = host
      BY <1>1, <1>3 DEF Live
    <2> USE DEF ContextInvariant
    <2>5. TypeOK'
      BY <1>1, <2>1, <2>3, <2>4 DEF TypeOK, Host
    <2>6. RuntimesAreKnown'
      BY <1>1, <2>2, <2>4 DEF RuntimesAreKnown
    <2>7. ContextIsKept'
      BY <1>1, <2>2, <2>4, IdsAssumption DEF ContextIsKept
    <2> QED
      BY <2>2, <2>3, <2>5, <2>6, <2>7
  <1>4. faults \in Nat
    BY DEF ContextInvariant, TypeOK
  <1> QED
    BY <1>2, <1>3, <1>4 DEF Reinstall, Goto, Fault

(* The end of a transition, with a Context that is to be recovered or one  *)
(* that is whole again.                                                    *)
LEMMA TransitionEndKeeps ==
  ASSUME ContextInvariant, NEW id \in RequestId, at[id] \in Step \ {"stopPrevious"},
         NEW outcome \in {"ok", "failed"}, NEW recovery \in BOOLEAN,
         Settle(id, outcome, [host EXCEPT !.transition = None, !.recovery = recovery]),
         published' \in Seq(Workspace) /\ published' # << >>, faults' \in Nat,
         UNCHANGED <<runtimes, begun>>,
         host.phase # "closed" /\ ~ recovery =>
            host.runtime \in Live /\ host.workspace = published'[Current']
  PROVE  ContextInvariant'
  <1> DEFINE h == [host EXCEPT !.transition = None, !.recovery = recovery]
  <1>1. host \in Host
    BY DEF ContextInvariant, TypeOK
  <1>2. /\ h \in Host' /\ h.active = host.active /\ h.reserved = host.reserved
        /\ h.transition = None /\ h.recovery = recovery /\ h.phase = host.phase
        /\ h.workspace = host.workspace /\ h.runtime = host.runtime /\ h.previous = host.previous
    BY <1>1 DEF Host
  <1>3. Settle(id, outcome, h)
    OBVIOUS
  <1> HIDE DEF h
  <1>4. /\ host' \in Host' /\ at' \in [RequestId -> Place] /\ begun' \in [RequestId -> Nat]
        /\ outcomes' \in [RequestId -> SUBSET {"refused", "ok", "failed"}]
        /\ IdsAreRecorded' /\ EditsAreCounted' /\ TransitionsAreAlone' /\ TransitionIsKnown'
    BY <1>2, <1>3, SettleKeepsRecords
  <1>5. /\ host'.workspace = host.workspace /\ host'.runtime = host.runtime
        /\ host'.previous = host.previous /\ host'.phase = host.phase
        /\ host'.recovery = recovery
    BY <1>2, <1>3 DEF Settle, Released, Host
  <1>6. at' = [at EXCEPT ![id] = "done"] /\ ledger' = ledger
    BY <1>3 DEF Settle
  <1>7. /\ EditsAreGuarded'
        /\ \A other \in RequestId : at'[other] \in {"none", "done"}
    BY <1>6, OnlyTheTransitionMoves
  <1>8. \A other \in RequestId : at[other] # "stopPrevious"
    BY TransitionStandsAlone
  <1>9. Live' = Live /\ runtimes' = runtimes
    BY DEF Live
  <1> USE DEF ContextInvariant
  <1>10. TypeOK'
    BY <1>4, <1>6 DEF TypeOK
  <1>11. RuntimesAreKnown'
    BY <1>5, <1>7, <1>8, <1>9 DEF RuntimesAreKnown
  <1>12. ContextIsKept'
    BY <1>5, <1>7, <1>9 DEF ContextIsKept
  <1> QED
    BY <1>4, <1>7, <1>10, <1>11, <1>12

LEMMA CompleteKeeps ==
  ASSUME ContextInvariant, NEW id \in RequestId, Complete(id)
  PROVE  ContextInvariant'
  <1>1. at[id] = "register" /\ UNCHANGED <<runtimes, begun>>
    BY DEF Complete
  <1>2. /\ host \in Host /\ host.workspace \in Workspace /\ faults \in Nat
        /\ published \in Seq(Workspace)
    BY DEF ContextInvariant, TypeOK, Host
  <1>3. ASSUME NEW outcome \in {"ok", "failed"}, faults' \in Nat,
               published' = Append(published, host.workspace),
               Settle(id, outcome, [host EXCEPT !.transition = None, !.recovery = FALSE])
        PROVE  ContextInvariant'
    <2>1. /\ published' \in Seq(Workspace) /\ published' # << >>
          /\ published'[Current'] = host.workspace
      BY <1>2, <1>3 DEF Current
    <2>2. host.phase # "closed" => host.runtime \in Live
      BY <1>1 DEF ContextInvariant, RuntimesAreKnown
    <2> QED
      BY <1>1, <1>2, <1>3, <2>1, <2>2, TransitionEndKeeps
  <1>4. CASE Rollback(id) /\ UNCHANGED <<host, published, ledger, outcomes>>
    <2>1. at' = [at EXCEPT ![id] = "rollback"] /\ faults' \in Nat
      BY <1>2, <1>4 DEF Rollback, Goto, Fault
    <2>2. /\ at'[id] = "rollback" /\ EditsAreGuarded'
          /\ \A other \in RequestId \ {id} : at'[other] \in {"none", "done"}
      BY <1>1, <2>1, OnlyTheTransitionMoves
    <2>3. host.transition = id /\ \A other \in RequestId : at[other] # "stopPrevious"
      BY <1>1, TransitionStandsAlone
    <2>4. /\ at' \in [RequestId -> Place]
          /\ IdsAreRecorded' /\ EditsAreCounted' /\ TransitionsAreAlone' /\ TransitionIsKnown'
      BY <1>1, <1>4, <2>1, <2>3, MoveKeepsRecords
    <2>5. /\ Live' = Live /\ published' = published /\ runtimes' = runtimes /\ host' = host
          /\ Current' = Current
      BY <1>1, <1>4 DEF Live, Current
    <2> USE DEF ContextInvariant
    <2>6. TypeOK'
      BY <1>1, <1>4, <2>1, <2>4 DEF TypeOK, Host
    <2>7. RuntimesAreKnown'
      BY <1>1, <2>2, <2>3, <2>5 DEF RuntimesAreKnown
    <2>8. host.phase # "closed" => host.runtime # host.previous
      BY <1>1 DEF RuntimesAreKnown
    <2>9. ContextIsKept'
      BY <1>1, <2>2, <2>3, <2>5, <2>8, IdsAssumption DEF ContextIsKept
    <2> QED
      BY <2>2, <2>4, <2>6, <2>7, <2>9
  <1> QED
    BY <1>2, <1>3, <1>4 DEF Complete, Fault

LEMMA RestoreKeeps ==
  ASSUME ContextInvariant, NEW id \in RequestId, Restore(id)
  PROVE  ContextInvariant'
  <1>1. /\ at[id] = "restore" \/ (at[id] = "rollback" /\ host.runtime = host.previous)
        /\ runtimes' = runtimes /\ published' = published /\ begun' = begun
    <2>1. at[id] = "restore" \/ (at[id] = "rollback" /\ host.runtime = host.previous)
      BY DEF Restore
    <2>2. UNCHANGED <<runtimes, published, begun>>
      BY DEF Restore
    <2> QED
      BY <2>1, <2>2
  <1>2. /\ host \in Host /\ host.recovery \in BOOLEAN /\ faults \in Nat
        /\ published \in Seq(Workspace) /\ published # << >>
    BY DEF ContextInvariant, TypeOK, Host
  <1>3. /\ host.transition = id /\ Current' = Current
        /\ \A other \in RequestId : at[other] # "stopPrevious"
    BY <1>1, TransitionStandsAlone DEF Current
  <1>4. CASE Settle(id, "failed", [host EXCEPT !.transition = None]) /\ faults' = faults
    <2>1. [host EXCEPT !.transition = None]
            = [host EXCEPT !.transition = None, !.recovery = host.recovery]
      BY <1>2 DEF Host
    <2>2. host.phase # "closed" /\ ~ host.recovery =>
             host.runtime \in Live /\ host.workspace = published[Current]
      BY <1>1 DEF ContextInvariant, RuntimesAreKnown, ContextIsKept
    <2> QED
      BY <1>1, <1>2, <1>3, <1>4, <2>1, <2>2, TransitionEndKeeps
  <1>5. CASE Fault /\ Goto(id, "lost") /\ UNCHANGED <<host, ledger, outcomes>>
    <2>1. at' = [at EXCEPT ![id] = "lost"] /\ faults' \in Nat
      BY <1>2, <1>5 DEF Goto, Fault
    <2>2. /\ at'[id] = "lost" /\ EditsAreGuarded'
          /\ \A other \in RequestId \ {id} : at'[other] \in {"none", "done"}
      BY <1>1, <2>1, OnlyTheTransitionMoves
    <2>3. /\ at' \in [RequestId -> Place]
          /\ IdsAreRecorded' /\ EditsAreCounted' /\ TransitionsAreAlone' /\ TransitionIsKnown'
      BY <1>1, <1>3, <1>5, <2>1, MoveKeepsRecords
    <2>4. Live' = Live /\ published' = published /\ runtimes' = runtimes /\ host' = host
      BY <1>1, <1>5 DEF Live
    <2> USE DEF ContextInvariant
    <2>5. TypeOK'
      BY <1>1, <1>5, <2>1, <2>3 DEF TypeOK, Host
    <2>6. RuntimesAreKnown'
      BY <1>1, <1>3, <2>2, <2>4 DEF RuntimesAreKnown
    <2>7. ContextIsKept'
      BY <1>1, <1>3, <2>2, <2>4, IdsAssumption DEF ContextIsKept
    <2> QED
      BY <2>2, <2>3, <2>5, <2>6, <2>7
  <1> QED
    BY <1>4, <1>5 DEF Restore

LEMMA LostKeeps ==
  ASSUME ContextInvariant, NEW id \in RequestId, Lost(id)
  PROVE  ContextInvariant'
  <1>1. /\ published \in Seq(Workspace) /\ published # << >> /\ faults \in Nat
    BY DEF ContextInvariant, TypeOK
  <1> QED
    BY <1>1, TransitionEndKeeps DEF Lost
-----------------------------------------------------------------------------
LEMMA CloseKeeps ==
  ASSUME ContextInvariant, Close
  PROVE  ContextInvariant'
  <1> USE DEF ContextInvariant
  <1>1. host \in Host
    BY DEF TypeOK
  <1>2. /\ host' \in Host /\ host'.phase = "closing" /\ host.phase = "open"
        /\ host'.workspace = host.workspace /\ host'.runtime = host.runtime
        /\ host'.previous = host.previous /\ host'.recovery = host.recovery
        /\ host'.transition = host.transition
        /\ host'.active = host.active /\ host'.reserved = host.reserved
    BY <1>1 DEF Close, Host
  <1>3. UNCHANGED <<runtimes, published, ledger, at, faults, begun, outcomes>>
    BY DEF Close
  <1>4. TypeOK'
    BY <1>2, <1>3 DEF TypeOK, Host
  <1>5. Live' = Live /\ Current' = Current /\ Editors' = Editors
    BY <1>3 DEF Live, Current, Editors
  <1>6. IdsAreRecorded' /\ EditsAreCounted'
    BY <1>2, <1>3, <1>5 DEF IdsAreRecorded, EditsAreCounted
  <1>7. TransitionsAreAlone' /\ TransitionIsKnown' /\ EditsAreGuarded'
    BY <1>2, <1>3, <1>5 DEF TransitionsAreAlone, TransitionIsKnown, EditsAreGuarded, Activating
  <1>8. RuntimesAreKnown' /\ ContextIsKept'
    BY <1>2, <1>3, <1>5 DEF RuntimesAreKnown, ContextIsKept
  <1> QED
    BY <1>4, <1>6, <1>7, <1>8

LEMMA CloseRuntimeKeeps ==
  ASSUME ContextInvariant, CloseRuntime
  PROVE  ContextInvariant'
  <1>1. TypeOK /\ host \in Host
    BY DEF ContextInvariant, TypeOK
  <1>2. /\ host' \in Host /\ host'.phase = "closed"
        /\ host'.workspace = host.workspace /\ host'.runtime = host.runtime
        /\ host'.transition = host.transition
        /\ host'.active = host.active /\ host'.reserved = host.reserved
    BY <1>1 DEF CloseRuntime, Host
  <1>3. UNCHANGED <<published, ledger, at, faults, begun, outcomes>>
    BY DEF CloseRuntime
  <1>4. /\ runtimes' \in Seq([workspace : Workspace, state : {"runs", "stopped", "forgotten"}])
        /\ DOMAIN runtimes' = DOMAIN runtimes
        /\ \A j \in DOMAIN runtimes : runtimes'[j].workspace = runtimes[j].workspace
        /\ host.runtime \in DOMAIN runtimes
    <2>1. host.runtime \in DOMAIN runtimes
      BY <1>1 DEF Host
    <2> QED
      BY <1>1, <2>1, StopEndsOne DEF CloseRuntime
  <1> USE DEF ContextInvariant
  <1>5. TypeOK'
    BY <1>1, <1>2, <1>3, <1>4 DEF TypeOK, Host
  <1>6. Current' = Current /\ Editors' = Editors
    BY <1>3 DEF Current, Editors
  <1>7. IdsAreRecorded' /\ EditsAreCounted'
    BY <1>2, <1>3, <1>6 DEF IdsAreRecorded, EditsAreCounted
  <1>8. TransitionsAreAlone' /\ TransitionIsKnown' /\ EditsAreGuarded'
    BY <1>2, <1>3, <1>6 DEF TransitionsAreAlone, TransitionIsKnown, EditsAreGuarded, Activating
  <1>9. RuntimesAreKnown' /\ ContextIsKept'
    BY <1>2, <1>4 DEF RuntimesAreKnown, ContextIsKept
  <1> QED
    BY <1>5, <1>7, <1>8, <1>9

LEMMA StepInvariant ==
  ASSUME ContextInvariant, [Next]_vars
  PROVE  ContextInvariant'
  <1>1. ASSUME NEW id \in RequestId, NEW body \in Body, Post(id, body)
        PROVE  ContextInvariant'
    BY <1>1, PostKeeps
  <1>2. ASSUME NEW id \in RequestId, Begin(id) \/ FinishEdit(id)
        PROVE  ContextInvariant'
    BY <1>2, BeginKeeps, FinishEditKeeps
  <1>3. ASSUME NEW id \in RequestId, Transition(id)
        PROVE  ContextInvariant'
    BY <1>3, DetachKeeps, InstallTargetKeeps, InstallHalfKeeps, StopPreviousKeeps,
       CompleteKeeps, StopTargetKeeps,
       ReinstallKeeps, RestoreKeeps, LostKeeps DEF Transition
  <1>4. CASE Close \/ CloseRuntime
    BY <1>4, CloseKeeps, CloseRuntimeKeeps
  <1>5. CASE UNCHANGED vars
    <2> USE DEF ContextInvariant
    <2>1. UNCHANGED <<host, runtimes, published, ledger, at, faults, begun, outcomes>>
      BY <1>5 DEF vars
    <2>2. Live' = Live /\ Current' = Current /\ Editors' = Editors
      BY <2>1 DEF Live, Current, Editors
    <2>3. TypeOK'
      BY <2>1 DEF TypeOK, Host
    <2>4. IdsAreRecorded' /\ EditsAreCounted'
      BY <2>1, <2>2 DEF IdsAreRecorded, EditsAreCounted
    <2>5. TransitionsAreAlone' /\ TransitionIsKnown' /\ EditsAreGuarded'
      BY <2>1, <2>2 DEF TransitionsAreAlone, TransitionIsKnown, EditsAreGuarded, Activating
    <2>6. RuntimesAreKnown' /\ ContextIsKept'
      BY <2>1, <2>2 DEF RuntimesAreKnown, ContextIsKept
    <2> QED
      BY <2>3, <2>4, <2>5, <2>6
  <1> QED
    BY <1>1, <1>2, <1>3, <1>4, <1>5 DEF Next

LEMMA AlwaysInvariant == Spec => []ContextInvariant
  <1>1. Init => ContextInvariant
    BY InitInvariant
  <1>2. ContextInvariant /\ [Next]_vars => ContextInvariant'
    BY StepInvariant
  <1> QED
    BY <1>1, <1>2, PTL DEF Spec
-----------------------------------------------------------------------------
(* The fields of the controller and its ledger keep their types (the       *)
(* declarations at the head of WebWorkbenchController).                    *)
THEOREM TypeCorrect == Spec => []TypeOK
  <1>1. ContextInvariant => TypeOK
    BY DEF ContextInvariant
  <1> QED
    BY <1>1, AlwaysInvariant, PTL

(* executeMutation begins the action of an id once, and gives one outcome  *)
(* to all who ask under it.                                                *)
THEOREM RunOnce == Spec => []MutationsRunOnce
  <1>1. ContextInvariant => MutationsRunOnce
    <2> SUFFICES ASSUME ContextInvariant, NEW id \in RequestId
                 PROVE  begun[id] <= 1 /\ Cardinality(outcomes[id]) <= 1
      BY DEF MutationsRunOnce
    <2>1. begun[id] <= 1
      BY DEF ContextInvariant, IdsAreRecorded
    <2>2. outcomes[id] = {} \/ \E o \in {"refused", "ok", "failed"} : outcomes[id] = {o}
      BY DEF ContextInvariant, IdsAreRecorded
    <2>3. Cardinality({}) = 0
      BY FS_EmptySet
    <2>4. \A o \in {"refused", "ok", "failed"} : Cardinality({o}) = 1
      BY FS_Singleton
    <2> QED
      BY <2>1, <2>2, <2>3, <2>4
  <1> QED
    BY <1>1, AlwaysInvariant, PTL

(* Between the guards of an edit and its end no transition begins, and the *)
(* Context stays (beginWorkspaceTransition and the reservations).          *)
THEOREM EditsKeepTheirContext == Spec => []ContextHoldsStill
  <1>1. ContextInvariant => ContextHoldsStill
    <2> SUFFICES ASSUME ContextInvariant, NEW id \in RequestId, at[id] = "editing"
                 PROVE  /\ ledger[id].context = Current
                        /\ host.workspace = published[Current]
                        /\ host.transition = None
      BY DEF ContextHoldsStill
    <2>1. ledger[id].context = Current /\ host.workspace = published[Current]
      BY DEF ContextInvariant, EditsAreGuarded
    <2>2. ASSUME NEW other \in RequestId, at[other] \in Step PROVE FALSE
      BY <2>2, TransitionStandsAlone
    <2> QED
      BY <2>1, <2>2 DEF ContextInvariant, TransitionIsKnown
  <1> QED
    BY <1>1, AlwaysInvariant, PTL

(* Whatever step of activateContext fails, and whenever the Host closes:   *)
(* the Context that is published is the one that runs, or the Host says    *)
(* that it is to be recovered.                                             *)
THEOREM ContextsAreWhole == Spec => []ContextIsWhole
  <1>1. ContextInvariant => ContextIsWhole
    <2> SUFFICES ASSUME ContextInvariant, host.phase = "open", host.transition = None, ~ host.recovery
                 PROVE  /\ Live = {host.runtime}
                        /\ runtimes[host.runtime].workspace = host.workspace
                        /\ host.workspace = published[Current]
      BY DEF ContextIsWhole
    <2>1. \A id \in RequestId : at[id] # "stopPrevious"
      BY IdsAssumption DEF ContextInvariant, TransitionIsKnown
    <2>2. Live \subseteq {host.runtime} /\ runtimes[host.runtime].workspace = host.workspace
      BY <2>1 DEF ContextInvariant, RuntimesAreKnown
    <2>3. host.runtime \in Live /\ host.workspace = published[Current]
      BY DEF ContextInvariant, ContextIsKept
    <2> QED
      BY <2>2, <2>3
  <1> QED
    BY <1>1, AlwaysInvariant, PTL

HIDE DEF Place, Step, None
-----------------------------------------------------------------------------
(* What the parts are made of.                                             *)
Text == Seq(Nat)
Event == [seq : Nat, delta : Text]
Kind == {"thread", "append", "update", "finalize", "reset"}
EnvelopeType == [type : Kind, entry : Nat, text : Text, start : Nat \cup {Replaces},
                 cursor : Nat, message : Nat]
EntryType == [id : Nat, message : Message, text : Text, live : BOOLEAN]
SnapshotType == [messages : Nat, cursor : Nat \cup {-1}, processing : BOOLEAN]

ThreadType == [seq : 0 .. LastSeq, chunks : [Message -> Nat]]
BufferType == [items : Seq(Event), acked : Nat, latest : Nat, replay : Nat]
AdapterType == [cursor : Nat, text : [Message -> Text], entry : [Message -> Nat]]
HubType == [next : Nat, retained : Seq(EnvelopeType), discarded : Nat, sentText : Text,
            durable : SUBSET Nat]
WireType == [queue : Seq(EnvelopeType), attached : BOOLEAN]
SourceType == [phase : Phase, cursor : Nat]
ViewType == [connection : Connection, lastCursor : Nat, transcript : Seq(EntryType),
             loaded : BOOLEAN, status : Status, request : Nat, dirty : BOOLEAN,
             lastEvent : Nat, snapshotAt : Nat, settled : BOOLEAN]
RequestType == [state : {"asked", "served", "answered"}, snapshot : SnapshotType]

-----------------------------------------------------------------------------
(* The invariant.  The adapter a, the hub h and the response w are its     *)
(* parameters, because a flush changes them event by event.                *)

\* The text part is what comes after the first n chunks of the text whole.
Continues(part, n, whole) ==
  /\ n + Len(part) <= Len(whole)
  /\ \A i \in 1 .. Len(part) : part[i] = whole[n + i]

\* A delta in the buffer belongs to a message that has been started.
BufferFits ==
  /\ buffer.replay > 0 => buffer.items = << >>
  /\ buffer.replay = 0 => buffer.latest = thread.seq
  /\ \A i \in DOMAIN buffer.items :
        IsDelta(buffer.items[i]) => \E k \in Message : buffer.items[i].seq = Started(k)

\* The adapter has not passed the Thread, and knows the entries of the messages
\* that it has seen the start of.
AdapterFits(a) ==
  /\ a \in AdapterType
  /\ a.cursor <= thread.seq
  /\ \A k \in Message : a.entry[k] # NoEntry <=> Started(k) <= a.cursor

\* Entries are named apart, by cursors below n.
EntriesFit(a, n) ==
  /\ \A k \in Message : a.entry[k] < n
  /\ \A j, k \in Message : a.entry[j] = a.entry[k] /\ a.entry[k] # NoEntry => j = k

\* What an envelope tells is true of the message it is about.
About(a, env, k) == k \in Message /\ env.entry = a.entry[k] /\ env.entry # NoEntry
Tells(a, env) ==
  /\ env.type = "append" =>
        About(a, env, env.message) /\ env.cursor = env.entry
  /\ env.type = "update" =>
        \E k \in Message :
           /\ About(a, env, k)
           /\ Continues(env.text, IF env.start = Replaces THEN 0 ELSE env.start, a.text[k])
  /\ env.type = "finalize" =>
        \E k \in Message :
           /\ About(a, env, k) /\ env.text = FullText(k) /\ Completed(k) <= a.cursor
           /\ \A r \in DOMAIN requests :
                requests[r].state = "served" /\ env.cursor <= requests[r].snapshot.cursor =>
                  k <= requests[r].snapshot.messages

\* The hub keeps every durable envelope after the last one that it discarded, in order.
HubFits(a, h) ==
  /\ h \in HubType
  /\ h.discarded < h.next
  /\ \A i \in DOMAIN h.retained :
       /\ h.discarded < h.retained[i].cursor /\ h.retained[i].cursor < h.next
       /\ h.retained[i].type \notin {"update", "reset"}
       /\ Tells(a, h.retained[i])
       /\ \A j \in DOMAIN h.retained : i < j => h.retained[i].cursor < h.retained[j].cursor
  /\ \A d \in h.durable :
       d < h.next /\ (h.discarded < d => \E i \in DOMAIN h.retained : h.retained[i].cursor = d)

\* The response carries every durable envelope after the cursor of the stream, in
\* order; no update of an entry follows its end; or it carries a reset.
CursorBefore(w, i) == IF i = 1 THEN source.cursor ELSE w.queue[i - 1].cursor
Resets(h, w) ==
  /\ Len(w.queue) = 1 /\ ~ w.attached
  /\ view.lastCursor <= w.queue[1].cursor /\ w.queue[1].cursor < h.next
WireFits(a, h, w) ==
  /\ w \in WireType
  /\ source.phase \notin {"connecting", "open"} => w = [queue |-> << >>, attached |-> FALSE]
  /\ \A i \in DOMAIN w.queue :
       IF w.queue[i].type = "reset" THEN Resets(h, w)
       ELSE /\ CursorBefore(w, i) < w.queue[i].cursor /\ w.queue[i].cursor < h.next
            /\ Tells(a, w.queue[i])
            /\ \A d \in h.durable : ~ (CursorBefore(w, i) < d /\ d < w.queue[i].cursor)
            /\ \A j \in DOMAIN w.queue :
                 i < j /\ w.queue[i].type = "finalize" /\ w.queue[j].type = "update" =>
                   w.queue[i].entry # w.queue[j].entry
  /\ w.attached => \A d \in h.durable : d <= CursorBefore(w, Len(w.queue) + 1)

\* An entry of the view is one of the Thread's, under the name the adapter gave it.
EntryFits(a, w, e) ==
  /\ e.id # NoId => e.id = a.entry[e.message] /\ e.id <= view.lastCursor
  /\ e.live => e.id # NoId /\ Continues(e.text, 0, a.text[e.message])
  /\ ~ e.live => e.text = FullText(e.message) /\ Completed(e.message) <= thread.seq
  /\ ~ e.live /\ e.id # NoId =>
       /\ Completed(e.message) <= a.cursor
       /\ \A i \in DOMAIN w.queue : w.queue[i].type = "update" => w.queue[i].entry # e.id

\* No entry of the stream is shown twice.
Apart(transcript) ==
  \A i, j \in DOMAIN transcript :
     transcript[i].id = transcript[j].id /\ transcript[i].id # NoId => i = j

TranscriptFits(a, w) ==
  /\ \A i \in DOMAIN view.transcript : EntryFits(a, w, view.transcript[i])
  /\ Apart(view.transcript)

\* The stream is where the view is, unless the view must be recovered; a view that is
\* settled shows the whole turn, and every event that is under way is behind it.
ViewFits(a, h) ==
  /\ view.lastCursor < h.next /\ view.lastEvent <= view.lastCursor
  /\ source.cursor < h.next
  /\ view.connection # "replay-required" /\ source.phase # "paused" =>
       source.cursor = view.lastCursor
  /\ view.status = "ready" /\ ~ view.dirty /\ view.settled =>
       /\ a.cursor = LastSeq
       /\ view.transcript = [k \in Message |-> SnapshotEntry(k)]
       /\ view.snapshotAt = h.next - 1

\* A snapshot that was taken was true; and the one that is asked for contains what the
\* view shows as final, or is older than an event that the view has had.
SnapshotFits(a, h, r) ==
  LET snapshot == requests[r].snapshot IN
  requests[r].state = "served" =>
    /\ snapshot.cursor \in 0 .. h.next - 1
    /\ snapshot.messages \in 0 .. N
    /\ \A k \in 1 .. snapshot.messages : Completed(k) <= thread.seq
    /\ ~ snapshot.processing =>
         a.cursor = LastSeq /\ snapshot.messages = N /\ snapshot.cursor = h.next - 1
    /\ r = view.request =>
         \/ Final(view) \subseteq 1 .. snapshot.messages
         \/ /\ snapshot.cursor < view.lastCursor
            /\ view.lastEvent = 0 \/ snapshot.cursor < view.lastEvent

Agree(a, h, w) ==
  /\ HubFits(a, h)
  /\ WireFits(a, h, w)
  /\ TranscriptFits(a, w)
  /\ ViewFits(a, h)
  /\ \A r \in DOMAIN requests : SnapshotFits(a, h, r)

DeliveryTypeOK ==
  /\ thread \in ThreadType /\ buffer \in BufferType
  /\ source \in SourceType /\ view \in ViewType
  /\ requests \in Seq(RequestType)
  /\ budget \in Scenario

DeliveryInvariant ==
  /\ DeliveryTypeOK
  /\ BufferFits
  /\ NoFactIsDropped
  /\ AdapterFits(adapter)
  /\ EntriesFit(adapter, hub.next)
  /\ 1 <= hub.next
  /\ Agree(adapter, hub, wire)
-----------------------------------------------------------------------------
(* Texts.                                                                  *)

\* A part of a text is a part of a text that it begins.
LEMMA LongerTexts ==
  ASSUME NEW whole \in Text, NEW longer \in Text, Continues(whole, 0, longer),
         NEW part \in Text, NEW n \in Nat, Continues(part, n, whole)
  PROVE  Continues(part, n, longer)
  <1>1. Len(part) \in Nat /\ Len(whole) \in Nat /\ Len(longer) \in Nat
    BY LenProperties DEF Text
  <1>2. n + Len(part) <= Len(whole) /\ \A i \in 1 .. Len(part) : part[i] = whole[n + i]
    BY DEF Continues
  <1>3. 0 + Len(whole) <= Len(longer) /\ \A i \in 1 .. Len(whole) : whole[i] = longer[0 + i]
    BY DEF Continues
  <1>4. ASSUME NEW i \in 1 .. Len(part)
        PROVE  part[i] = longer[n + i]
    <2>1. n + i \in 1 .. Len(whole) /\ 0 + (n + i) = n + i
      BY <1>1, <1>2
    <2> QED
      BY <1>2, <1>3, <2>1
  <1>5. n + Len(part) <= Len(longer)
    BY <1>1, <1>2, <1>3
  <1> QED
    BY <1>4, <1>5 DEF Continues

\* A text begins itself, and itself with more behind it.
LEMMA TextsBegin ==
  ASSUME NEW text \in Text, NEW more \in Text
  PROVE  /\ Continues(text, 0, text)
         /\ text \o more \in Text /\ Continues(text, 0, text \o more)
  <1>1. /\ text \o more \in Seq(Nat) /\ Len(text \o more) = Len(text) + Len(more)
        /\ \A i \in 1 .. Len(text) + Len(more) :
             (text \o more)[i] = IF i <= Len(text) THEN text[i] ELSE more[i - Len(text)]
    BY ConcatProperties DEF Text
  <1>2. Len(text) \in Nat /\ Len(more) \in Nat
    BY LenProperties DEF Text
  <1>3. ASSUME NEW i \in 1 .. Len(text)
        PROVE  text[i] = (text \o more)[0 + i] /\ text[i] = text[0 + i]
    <2>1. i \in 1 .. Len(text) + Len(more) /\ i <= Len(text) /\ 0 + i = i
      BY <1>2
    <2> QED
      BY <1>1, <2>1
  <1> QED
    BY <1>1, <1>2, <1>3 DEF Continues, Text

\* A beginning and what comes after it are a beginning.
LEMMA JoinedTexts ==
  ASSUME NEW whole \in Text, NEW p \in Text, NEW q \in Text,
         Continues(p, 0, whole), Continues(q, Len(p), whole)
  PROVE  Continues(p \o q, 0, whole)
  <1>1. /\ Len(p \o q) = Len(p) + Len(q)
        /\ \A i \in 1 .. Len(p) + Len(q) : (p \o q)[i] = IF i <= Len(p) THEN p[i] ELSE q[i - Len(p)]
    BY ConcatProperties DEF Text
  <1>2. Len(p) \in Nat /\ Len(q) \in Nat /\ Len(whole) \in Nat
    BY LenProperties DEF Text
  <1>3. ASSUME NEW i \in 1 .. Len(p) + Len(q)
        PROVE  (p \o q)[i] = whole[i]
    <2>1. CASE i <= Len(p)
      <3>1. i \in 1 .. Len(p)
        BY <1>2, <2>1
      <3>2. p[i] = whole[0 + i]
        BY <3>1 DEF Continues
      <3> QED
        BY <1>1, <1>2, <2>1, <3>2
    <2>2. CASE i > Len(p)
      <3>1. i - Len(p) \in 1 .. Len(q) /\ Len(p) + (i - Len(p)) = i
        BY <1>2, <2>2
      <3>2. q[i - Len(p)] = whole[Len(p) + (i - Len(p))]
        BY <3>1 DEF Continues
      <3> QED
        BY <1>1, <1>2, <2>2, <3>1, <3>2
    <2> QED
      BY <1>2, <2>1, <2>2
  <1> QED
    BY <1>1, <1>2, <1>3 DEF Continues

\* The rest of a text.
LEMMA RestOfText ==
  ASSUME NEW text \in Text, NEW n \in 0 .. Len(text)
  PROVE  /\ SubSeq(text, n + 1, Len(text)) \in Text
         /\ Continues(SubSeq(text, n + 1, Len(text)), n, text)
  <1>1. Len(text) \in Nat
    BY LenProperties DEF Text
  <1>2. /\ SubSeq(text, n + 1, Len(text)) \in Seq(Nat)
        /\ Len(SubSeq(text, n + 1, Len(text))) = Len(text) - n
        /\ \A i \in 1 .. Len(text) - n : SubSeq(text, n + 1, Len(text))[i] = text[n + i]
    BY <1>1, SubSeqProperties DEF Text
  <1> QED
    BY <1>1, <1>2 DEF Continues, Text

\* Beginnings of texts are prefixes.
LEMMA BeginningsArePrefixes ==
  ASSUME NEW p \in Text, NEW text \in Text
  PROVE  Continues(p, 0, text) <=> IsPrefix(p, text)
  <1>1. Len(text) \in Nat /\ Len(p) \in Nat
    BY LenProperties DEF Text
  <1>2. SubSeq(p, 1, Len(p)) = p
    BY SubSeqFull DEF Text
  <1>3. ASSUME Len(p) <= Len(text)
        PROVE  /\ SubSeq(text, 1, Len(p)) \in Seq(Nat)
               /\ Len(SubSeq(text, 1, Len(p))) = Len(p)
               /\ \A i \in 1 .. Len(p) : SubSeq(text, 1, Len(p))[i] = text[i]
    BY <1>1, <1>3, SubSeqProperties DEF Text
  <1>4. ASSUME Continues(p, 0, text) PROVE IsPrefix(p, text)
    <2>1. Len(p) <= Len(text) /\ \A i \in 1 .. Len(p) : p[i] = text[i]
      BY <1>1, <1>4 DEF Continues
    <2>2. SubSeq(text, 1, Len(p)) = p
      BY <1>3, <2>1, SeqEqual DEF Text
    <2> QED
      BY <1>2, <2>1, <2>2 DEF IsPrefix
  <1>5. ASSUME IsPrefix(p, text) PROVE Continues(p, 0, text)
    BY <1>1, <1>2, <1>3, <1>5 DEF Continues, IsPrefix
  <1> QED
    BY <1>4, <1>5

\* A message's whole text.
LEMMA FullTexts ==
  ASSUME thread \in ThreadType, NEW k \in Message
  PROVE  FullText(k) \in Text
  <1>1. thread.chunks[k] \in Nat
    BY DEF ThreadType
  <1>2. ASSUME NEW n \in Nat PROVE [i \in 1 .. n |-> i] \in Seq(Nat)
    OBVIOUS
  <1> QED
    BY <1>1, <1>2 DEF FullText, Text

\* A set of natural numbers has a least element, which Min names.
LEMMA LeastNumber ==
  ASSUME NEW S \in SUBSET Nat, S # {}
  PROVE  Min(S) \in S /\ \A n \in S : Min(S) <= n
  <1> DEFINE Less == OpToRel(<, Nat)
  <1>1. \A x, y \in Nat : x < y => <<x, y>> \in Less
    BY DEF OpToRel
  <1>2. IsWellFoundedOn(Less, Nat)
    BY NatLessThanWellFounded
  <1> HIDE DEF Less
  <1>3. PICK x \in S : \A y \in S : ~(<<y, x>> \in Less)
    BY <1>2, WFMin
  <1>4. \A y \in S : x <= y
    <2> SUFFICES ASSUME NEW y \in S, ~(x <= y)
                 PROVE  FALSE
      OBVIOUS
    <2>1. x \in Nat /\ y \in Nat /\ y < x
      OBVIOUS
    <2> QED
      BY <1>1, <1>3, <2>1
  <1> QED
    BY <1>4 DEF Min

\* What holds of 0, and of i + 1 if it holds of i, holds of the numbers up to n.
LEMMA FirstNumbers ==
  ASSUME NEW S, 0 \in S, NEW n \in Nat, \A i \in 0 .. n - 1 : i \in S => i + 1 \in S
  PROVE  \A i \in 0 .. n : i \in S
  <1> DEFINE Bad == (0 .. n) \ S
  <1>1. SUFFICES ASSUME Bad # {} PROVE FALSE
    OBVIOUS
  <1>2. Min(Bad) \in Bad /\ \A m \in Bad : Min(Bad) <= m
    BY <1>1, LeastNumber
  <1> DEFINE m == Min(Bad) - 1
  <1>3. Min(Bad) \in 0 .. n /\ Min(Bad) # 0
    BY <1>2
  <1>4. m \in 0 .. n - 1 /\ m + 1 = Min(Bad) /\ ~ (Min(Bad) <= m)
    BY <1>3
  <1>5. m \in S
    BY <1>2, <1>4
  <1> QED
    BY <1>2, <1>4, <1>5

\* The empty sequence has no places.
LEMMA NothingIn == DOMAIN << >> = {} /\ Len(<< >>) = 0
  <1>1. << >> \in Seq({}) /\ Len(<< >>) = 0
    BY EmptySeq
  <1> QED
    BY <1>1, LenProperties

-----------------------------------------------------------------------------
(* Folds: what FoldLeft computes is the last of a run of states, each of   *)
(* which comes of the one before.                                          *)

\* The largest of the first numbers.
LEMMA LargestOfFirst ==
  ASSUME NEW m \in Nat, NEW S \in SUBSET (1 .. m), m \in S
  PROVE  Max(S) = m
  <1>1. \A y \in S : y \in Nat /\ m >= y
    OBVIOUS
  <1>2. \A x \in S : (\A y \in S : x >= y) => x = m
    BY <1>1
  <1> QED
    BY <1>1, <1>2 DEF Max

\* What the adapter projects.
LEMMA ProjectRuns ==
  ASSUME NEW s, NEW events, NEW n \in Nat, DOMAIN events = 1 .. n
  PROVE  \E run : /\ run[0] = s
                  /\ \A i \in 1 .. n : run[i] = Project(run[i - 1], events[i])
                  /\ ProjectAll(s, events) = run[n]
  <1> DEFINE Fits(g, m) ==
        g = [S \in SUBSET (1 .. m) |->
               IF S = {} THEN s ELSE LET x == Max(S) IN Project(g[S \ {x}], events[x])]
  <1>1. \E g : Fits(g, 0)
    <2> WITNESS [S \in SUBSET (1 .. 0) |-> s]
    <2>1. \A S \in SUBSET (1 .. 0) : S = {}
      OBVIOUS
    <2> QED
      BY <2>1
  <1>2. ASSUME NEW m \in Nat, NEW g, Fits(g, m)
        PROVE  \E f : Fits(f, m + 1)
    <2> DEFINE f == [S \in SUBSET (1 .. m + 1) |->
                       IF m + 1 \in S THEN Project(g[S \ {m + 1}], events[m + 1]) ELSE g[S]]
               next(S) == IF S = {} THEN s ELSE LET x == Max(S) IN Project(f[S \ {x}], events[x])
    <2>1. ASSUME NEW S \in SUBSET (1 .. m + 1)
          PROVE  f[S] = next(S)
      <3>1. CASE m + 1 \in S
        <4>1. Max(S) = m + 1
          BY <3>1, LargestOfFirst
        <4>2. S \ {m + 1} \in SUBSET (1 .. m + 1) /\ m + 1 \notin S \ {m + 1}
          OBVIOUS
        <4>3. f[S \ {m + 1}] = g[S \ {m + 1}]
          BY <4>2
        <4>4. f[S] = Project(g[S \ {m + 1}], events[m + 1])
          BY <3>1
        <4>5. next(S) = Project(f[S \ {m + 1}], events[m + 1])
          BY <3>1, <4>1
        <4> QED
          BY <4>3, <4>4, <4>5
      <3>2. CASE m + 1 \notin S
        <4>1. S \in SUBSET (1 .. m)
          <5> SUFFICES ASSUME NEW x \in S PROVE x \in 1 .. m
            OBVIOUS
          <5>1. x \in 1 .. m + 1 /\ x # m + 1
            BY <3>2
          <5> QED
            BY <5>1
        <4>2. f[S] = g[S]
          BY <3>2
        <4>3. g[S] = IF S = {} THEN s ELSE LET x == Max(S) IN Project(g[S \ {x}], events[x])
          BY <1>2, <4>1
        <4>4. \A x : f[S \ {x}] = g[S \ {x}]
          BY <3>2
        <4> QED
          BY <4>2, <4>3, <4>4
      <3> QED
        BY <3>1, <3>2
    <2>2. f = [S \in SUBSET (1 .. m + 1) |-> f[S]]
      OBVIOUS
    <2> HIDE DEF f
    <2>3. f = [S \in SUBSET (1 .. m + 1) |-> next(S)]
      BY <2>1, <2>2
    <2> QED
      BY <2>3
  <1>3. \E g : Fits(g, n)
    <2> DEFINE S == {m \in Nat : \E g : Fits(g, m)}
    <2> HIDE DEF Fits
    <2>1. 0 \in S
      BY <1>1
    <2>2. \A m \in 0 .. n - 1 : m \in S => m + 1 \in S
      BY <1>2
    <2> HIDE DEF S
    <2>3. n \in S
      <3>1. n \in 0 .. n
        OBVIOUS
      <3> QED
        BY <2>1, <2>2, <3>1, FirstNumbers
    <2> QED
      BY <2>3 DEF S
  <1> DEFINE iter == CHOOSE g : Fits(g, n)
  <1>4. Fits(iter, n)
    BY <1>3
  <1>5. ProjectAll(s, events) = iter[1 .. n]
    BY DEF ProjectAll, FoldLeft, MapThenFoldSet
  <1> HIDE DEF iter
  <1> DEFINE run == [i \in 0 .. n |-> iter[1 .. i]]
  <1>6. run[0] = s
    <2>1. 1 .. 0 = {} /\ 1 .. 0 \in SUBSET (1 .. n) /\ 0 \in 0 .. n
      OBVIOUS
    <2>2. iter[1 .. 0] = s
      BY <1>4, <2>1
    <2> QED
      BY <2>1, <2>2
  <1>7. ASSUME NEW i \in 1 .. n
        PROVE  run[i] = Project(run[i - 1], events[i])
    <2>1. 1 .. i \in SUBSET (1 .. n) /\ i - 1 \in 0 .. n /\ i \in 0 .. n /\ i \in Nat /\ i \in 1 .. i
      OBVIOUS
    <2>2. Max(1 .. i) = i
      BY <2>1, LargestOfFirst
    <2>3. (1 .. i) \ {i} = 1 .. i - 1
      OBVIOUS
    <2>4. iter[1 .. i] = Project(iter[(1 .. i) \ {i}], events[i])
      BY <1>4, <2>1, <2>2
    <2> QED
      BY <2>1, <2>3, <2>4
  <1>8. ProjectAll(s, events) = run[n]
    BY <1>5
  <1> QED
    BY <1>6, <1>7, <1>8

\* What the filter of the live entries keeps: the same for KeepLive.
LEMMA KeepRuns ==
  ASSUME NEW transcript, NEW n \in Nat, DOMAIN transcript = 1 .. n
  PROVE  \E run : /\ run[0] = << >>
                  /\ \A i \in 1 .. n : run[i] = KeepLive(run[i - 1], transcript[i])
                  /\ FoldLeft(KeepLive, << >>, transcript) = run[n]
  <1> DEFINE Fits(g, m) ==
        g = [S \in SUBSET (1 .. m) |->
               IF S = {} THEN << >> ELSE LET x == Max(S) IN KeepLive(g[S \ {x}], transcript[x])]
  <1>1. \E g : Fits(g, 0)
    <2> WITNESS [S \in SUBSET (1 .. 0) |-> << >>]
    <2>1. \A S \in SUBSET (1 .. 0) : S = {}
      OBVIOUS
    <2> QED
      BY <2>1
  <1>2. ASSUME NEW m \in Nat, NEW g, Fits(g, m)
        PROVE  \E f : Fits(f, m + 1)
    <2> DEFINE f == [S \in SUBSET (1 .. m + 1) |->
                       IF m + 1 \in S THEN KeepLive(g[S \ {m + 1}], transcript[m + 1]) ELSE g[S]]
               next(S) == IF S = {} THEN << >> ELSE LET x == Max(S) IN KeepLive(f[S \ {x}], transcript[x])
    <2>1. ASSUME NEW S \in SUBSET (1 .. m + 1)
          PROVE  f[S] = next(S)
      <3>1. CASE m + 1 \in S
        <4>1. Max(S) = m + 1
          BY <3>1, LargestOfFirst
        <4>2. S \ {m + 1} \in SUBSET (1 .. m + 1) /\ m + 1 \notin S \ {m + 1}
          OBVIOUS
        <4>3. f[S \ {m + 1}] = g[S \ {m + 1}]
          BY <4>2
        <4>4. f[S] = KeepLive(g[S \ {m + 1}], transcript[m + 1])
          BY <3>1
        <4>5. next(S) = KeepLive(f[S \ {m + 1}], transcript[m + 1])
          BY <3>1, <4>1
        <4> QED
          BY <4>3, <4>4, <4>5
      <3>2. CASE m + 1 \notin S
        <4>1. S \in SUBSET (1 .. m)
          <5> SUFFICES ASSUME NEW x \in S PROVE x \in 1 .. m
            OBVIOUS
          <5>1. x \in 1 .. m + 1 /\ x # m + 1
            BY <3>2
          <5> QED
            BY <5>1
        <4>2. f[S] = g[S]
          BY <3>2
        <4>3. g[S] = IF S = {} THEN << >> ELSE LET x == Max(S) IN KeepLive(g[S \ {x}], transcript[x])
          BY <1>2, <4>1
        <4>4. \A x : f[S \ {x}] = g[S \ {x}]
          BY <3>2
        <4> QED
          BY <4>2, <4>3, <4>4
      <3> QED
        BY <3>1, <3>2
    <2>2. f = [S \in SUBSET (1 .. m + 1) |-> f[S]]
      OBVIOUS
    <2> HIDE DEF f
    <2>3. f = [S \in SUBSET (1 .. m + 1) |-> next(S)]
      BY <2>1, <2>2
    <2> QED
      BY <2>3
  <1>3. \E g : Fits(g, n)
    <2> DEFINE S == {m \in Nat : \E g : Fits(g, m)}
    <2> HIDE DEF Fits
    <2>1. 0 \in S
      BY <1>1
    <2>2. \A m \in 0 .. n - 1 : m \in S => m + 1 \in S
      BY <1>2
    <2> HIDE DEF S
    <2>3. n \in S
      <3>1. n \in 0 .. n
        OBVIOUS
      <3> QED
        BY <2>1, <2>2, <3>1, FirstNumbers
    <2> QED
      BY <2>3 DEF S
  <1> DEFINE iter == CHOOSE g : Fits(g, n)
  <1>4. Fits(iter, n)
    BY <1>3
  <1>5. FoldLeft(KeepLive, << >>, transcript) = iter[1 .. n]
    BY DEF FoldLeft, MapThenFoldSet
  <1> HIDE DEF iter
  <1> DEFINE run == [i \in 0 .. n |-> iter[1 .. i]]
  <1>6. run[0] = << >>
    <2>1. 1 .. 0 = {} /\ 1 .. 0 \in SUBSET (1 .. n) /\ 0 \in 0 .. n
      OBVIOUS
    <2>2. iter[1 .. 0] = << >>
      BY <1>4, <2>1
    <2> QED
      BY <2>1, <2>2
  <1>7. ASSUME NEW i \in 1 .. n
        PROVE  run[i] = KeepLive(run[i - 1], transcript[i])
    <2>1. 1 .. i \in SUBSET (1 .. n) /\ i - 1 \in 0 .. n /\ i \in 0 .. n /\ i \in Nat /\ i \in 1 .. i
      OBVIOUS
    <2>2. Max(1 .. i) = i
      BY <2>1, LargestOfFirst
    <2>3. (1 .. i) \ {i} = 1 .. i - 1
      OBVIOUS
    <2>4. iter[1 .. i] = KeepLive(iter[(1 .. i) \ {i}], transcript[i])
      BY <1>4, <2>1, <2>2
    <2> QED
      BY <2>1, <2>3, <2>4
  <1>8. FoldLeft(KeepLive, << >>, transcript) = run[n]
    BY <1>5
  <1> QED
    BY <1>6, <1>7, <1>8

\* The filter keeps live entries of the transcript, each once.
LEMMA LiveEntriesAreKept ==
  ASSUME NEW transcript \in Seq(EntryType), Apart(transcript)
  PROVE  LET kept == FoldLeft(KeepLive, << >>, transcript)
         IN  /\ kept \in Seq(EntryType) /\ Apart(kept)
             /\ \A i \in DOMAIN kept :
                   kept[i].live /\ \E j \in DOMAIN transcript : kept[i] = transcript[j]
  <1> DEFINE n == Len(transcript)
             Good(t, m) == /\ t \in Seq(EntryType) /\ Apart(t)
                           /\ \A i \in DOMAIN t :
                                 t[i].live /\ \E j \in 1 .. m : t[i] = transcript[j]
  <1>1. n \in Nat /\ DOMAIN transcript = 1 .. n
    BY LenProperties
  <1>2. PICK run : /\ run[0] = << >>
                   /\ \A i \in 1 .. n : run[i] = KeepLive(run[i - 1], transcript[i])
                   /\ FoldLeft(KeepLive, << >>, transcript) = run[n]
    BY <1>1, KeepRuns
  <1>3. Good(run[0], 0)
    <2>1. << >> \in Seq(EntryType) /\ DOMAIN << >> = {}
      OBVIOUS
    <2> QED
      BY <1>2, <2>1 DEF Apart
  <1>4. ASSUME NEW m \in 0 .. n - 1, Good(run[m], m)
        PROVE  Good(run[m + 1], m + 1)
    <2> DEFINE e == transcript[m + 1]
               t == run[m]
    <2>1. m + 1 \in 1 .. n /\ (m + 1) - 1 = m /\ m \in Nat
      BY <1>1
    <2>2. run[m + 1] = KeepLive(t, e) /\ e \in EntryType
      BY <1>1, <1>2, <2>1
    <2>3. \A j \in 1 .. m : j \in 1 .. m + 1 /\ j \in 1 .. n /\ j # m + 1
      BY <1>1
    <2>4. CASE ~ e.live
      BY <1>4, <2>2, <2>3, <2>4 DEF KeepLive
    <2>5. CASE e.live
      <3>1. run[m + 1] = Append(t, e)
        BY <2>2, <2>5 DEF KeepLive
      <3>2. /\ Append(t, e) \in Seq(EntryType) /\ Len(t) \in Nat /\ DOMAIN t = 1 .. Len(t)
            /\ DOMAIN Append(t, e) = 1 .. Len(t) + 1
            /\ \A i \in 1 .. Len(t) : Append(t, e)[i] = t[i]
            /\ Append(t, e)[Len(t) + 1] = e
        BY <1>4, <2>2, AppendProperties, LenProperties
      <3>3. \A i \in DOMAIN t : t[i].id = e.id => e.id = NoId
        BY <1>1, <1>4, <2>1, <2>3 DEF Apart
      <3>4. Apart(Append(t, e))
        <4> SUFFICES ASSUME NEW i \in 1 .. Len(t) + 1, NEW j \in 1 .. Len(t) + 1,
                            Append(t, e)[i].id = Append(t, e)[j].id, Append(t, e)[i].id # NoId
                     PROVE  i = j
          BY <3>2 DEF Apart
        <4>1. CASE i \in 1 .. Len(t) /\ j \in 1 .. Len(t)
          <5>1. Apart(t) /\ t[i].id = t[j].id /\ t[i].id # NoId
            BY <1>4, <3>2, <4>1
          <5> QED
            BY <3>2, <4>1, <5>1 DEF Apart
        <4>2. CASE i = Len(t) + 1 /\ j \in 1 .. Len(t)
          BY <3>2, <3>3, <4>2
        <4>3. CASE j = Len(t) + 1 /\ i \in 1 .. Len(t)
          BY <3>2, <3>3, <4>3
        <4> QED
          BY <3>2, <4>1, <4>2, <4>3
      <3>5. ASSUME NEW i \in 1 .. Len(t) + 1
            PROVE  /\ Append(t, e)[i].live
                   /\ \E j \in 1 .. m + 1 : Append(t, e)[i] = transcript[j]
        <4>1. CASE i \in 1 .. Len(t)
          BY <1>4, <2>3, <3>2, <4>1
        <4>2. CASE i = Len(t) + 1
          BY <2>1, <2>5, <3>2, <4>2
        <4> QED
          BY <3>2, <4>1, <4>2
      <3> QED
        BY <3>1, <3>2, <3>4, <3>5
    <2> QED
      BY <2>4, <2>5
  <1> DEFINE S == {m \in 0 .. n : Good(run[m], m)}
  <1> HIDE DEF Good
  <1>5. 0 \in S /\ \A m \in 0 .. n - 1 : m \in S => m + 1 \in S
    BY <1>1, <1>3, <1>4
  <1> HIDE DEF S
  <1>6. n \in S
    <2>1. n \in 0 .. n
      BY <1>1
    <2> QED
      BY <1>1, <1>5, <2>1, FirstNumbers
  <1>7. Good(run[n], n)
    BY <1>6 DEF S
  <1> QED
    BY <1>1, <1>2, <1>7 DEF Good
-----------------------------------------------------------------------------
(* The buffer of the consumer.                                             *)

\* Events that follow a cursor, up to another one.
Buffered(c, items, last) ==
  /\ items \in Seq(Event)
  /\ Follow(c, items)
  /\ CursorAt(c, items, Len(items) + 1) = last
  /\ \A i \in DOMAIN items : IsDelta(items[i]) => \E k \in Message : items[i].seq = Started(k)

\* An event that follows the last one can be appended.
LEMMA AppendFollows ==
  ASSUME NEW c \in Nat, NEW last \in Nat, NEW items, Buffered(c, items, last),
         NEW e \in Event, e.seq = last + (IF IsDelta(e) THEN 0 ELSE 1),
         IsDelta(e) => \E k \in Message : e.seq = Started(k)
  PROVE  Buffered(c, Append(items, e), e.seq)
  <1>1. /\ Append(items, e) \in Seq(Event) /\ Len(items) \in Nat /\ DOMAIN items = 1 .. Len(items)
        /\ Len(Append(items, e)) = Len(items) + 1
        /\ DOMAIN Append(items, e) = 1 .. Len(items) + 1
        /\ \A i \in 1 .. Len(items) : Append(items, e)[i] = items[i]
        /\ Append(items, e)[Len(items) + 1] = e
    BY AppendProperties, LenProperties DEF Buffered
  <1>2. \A i \in 1 .. Len(items) + 1 :
           CursorAt(c, Append(items, e), i) = CursorAt(c, items, i)
    <2> SUFFICES ASSUME NEW i \in 1 .. Len(items) + 1, i # 1
                 PROVE  Append(items, e)[i - 1] = items[i - 1]
      BY DEF CursorAt
    <2>1. i - 1 \in 1 .. Len(items)
      BY <1>1
    <2> QED
      BY <1>1, <2>1
  <1>3. Follow(c, Append(items, e))
    <2> SUFFICES ASSUME NEW i \in 1 .. Len(items) + 1
                 PROVE  Append(items, e)[i].seq = CursorAt(c, items, i)
                                  + (IF IsDelta(Append(items, e)[i]) THEN 0 ELSE 1)
      BY <1>1, <1>2 DEF Follow
    <2>1. CASE i \in 1 .. Len(items)
      BY <1>1, <2>1 DEF Buffered, Follow
    <2>2. CASE i = Len(items) + 1
      BY <1>1, <2>2 DEF Buffered
    <2> QED
      BY <1>1, <2>1, <2>2
  <1>4. CursorAt(c, Append(items, e), Len(items) + 1 + 1) = e.seq
    BY <1>1 DEF CursorAt
  <1>5. ASSUME NEW i \in 1 .. Len(items) + 1, IsDelta(Append(items, e)[i])
        PROVE  \E k \in Message : Append(items, e)[i].seq = Started(k)
    <2>1. CASE i \in 1 .. Len(items)
      BY <1>1, <1>5, <2>1 DEF Buffered
    <2>2. CASE i = Len(items) + 1
      BY <1>1, <1>5, <2>2
    <2> QED
      BY <1>1, <2>1, <2>2
  <1> QED
    BY <1>1, <1>3, <1>4, <1>5 DEF Buffered

\* What is evicted is a delta, and the rest follows as before.
LEMMA EvictedIsDelta ==
  ASSUME NEW c \in Nat, NEW last \in Nat, NEW items, Buffered(c, items, last)
  PROVE  Buffered(c, Evict(items), last)
  <1> DEFINE n == Len(items)
             deltas == {i \in 1 .. n : IsDelta(items[i])}
             d == Min(deltas)
             rest == SubSeq(items, 1, d - 1) \o SubSeq(items, d + 1, n)
  <1>1. items \in Seq(Event) /\ n \in Nat /\ DOMAIN items = 1 .. n
    BY LenProperties DEF Buffered
  <1>4. \A i \in 1 .. n : items[i].seq \in Nat
    <2> SUFFICES ASSUME NEW i \in 1 .. n PROVE items[i].seq \in Nat
      OBVIOUS
    <2>1. items[i] \in Event
      BY <1>1, ElementOfSeq
    <2> QED
      BY <2>1 DEF Event
  <1>5. \A i \in 1 .. n : items[i].seq = CursorAt(c, items, i) + (IF IsDelta(items[i]) THEN 0 ELSE 1)
    BY <1>1 DEF Buffered, Follow
  <1>2. CASE deltas = {}
    BY <1>2 DEF Evict, SelectInSeq
  <1>3. ASSUME deltas # {}
        PROVE  Buffered(c, rest, last) /\ (Evict(items) = items \/ Evict(items) = rest)
    <2>1. d \in 1 .. n /\ IsDelta(items[d])
      <3>1. deltas \in SUBSET Nat
        BY <1>1
      <3>2. d \in deltas
        BY <1>3, <3>1, LeastNumber
      <3> QED
        BY <3>2
    <2>2. Evict(items) = items \/ Evict(items) = rest
      BY <1>3 DEF Evict, SelectInSeq, RemoveAt
    <2> HIDE DEF d
    <2>3. /\ SubSeq(items, 1, d - 1) \in Seq(Event) /\ Len(SubSeq(items, 1, d - 1)) = d - 1
          /\ \A i \in 1 .. d - 1 : SubSeq(items, 1, d - 1)[i] = items[i]
      <3>1. 1 \in 1 .. n + 1 /\ d - 1 \in 1 - 1 .. n
        BY <1>1, <2>1
      <3>2. /\ SubSeq(items, 1, d - 1) \in Seq(Event)
            /\ Len(SubSeq(items, 1, d - 1)) = IF 1 <= d - 1 THEN (d - 1) - 1 + 1 ELSE 0
            /\ \A i \in 1 .. (d - 1) - 1 + 1 : SubSeq(items, 1, d - 1)[i] = items[1 + i - 1]
        BY <1>1, <3>1, SubSeqProperties
      <3> QED
        BY <1>1, <2>1, <3>2
    <2>4. /\ SubSeq(items, d + 1, n) \in Seq(Event) /\ Len(SubSeq(items, d + 1, n)) = n - d
          /\ \A i \in 1 .. n - d : SubSeq(items, d + 1, n)[i] = items[d + i]
      <3>1. d + 1 \in 1 .. n + 1 /\ n \in (d + 1) - 1 .. n
        BY <1>1, <2>1
      <3>2. /\ SubSeq(items, d + 1, n) \in Seq(Event)
            /\ Len(SubSeq(items, d + 1, n)) = IF d + 1 <= n THEN n - (d + 1) + 1 ELSE 0
            /\ \A i \in 1 .. n - (d + 1) + 1 : SubSeq(items, d + 1, n)[i] = items[(d + 1) + i - 1]
        BY <1>1, <3>1, SubSeqProperties
      <3>3. d \in 1 .. n /\ n \in Nat
        BY <1>1, <2>1
      <3> HIDE DEF n
      <3>4. n - (d + 1) + 1 = n - d
        BY <3>3
      <3>5. d + 1 <= n \/ n - d = 0
        BY <3>3
      <3>6. \A i \in 1 .. n - d : (d + 1) + i - 1 = d + i
        BY <3>3
      <3> QED
        BY <3>2, <3>4, <3>5, <3>6
    <2>5. /\ rest \in Seq(Event) /\ Len(rest) = n - 1 /\ DOMAIN rest = 1 .. n - 1
          /\ \A i \in 1 .. n - 1 : rest[i] = IF i < d THEN items[i] ELSE items[i + 1]
      <3>1. /\ rest \in Seq(Event) /\ Len(rest) = (d - 1) + (n - d)
            /\ \A i \in 1 .. (d - 1) + (n - d) :
                 rest[i] = IF i <= d - 1 THEN SubSeq(items, 1, d - 1)[i]
                           ELSE SubSeq(items, d + 1, n)[i - (d - 1)]
        BY <2>3, <2>4, ConcatProperties
      <3>2. (d - 1) + (n - d) = n - 1 /\ n - 1 \in Nat
        BY <1>1, <2>1
      <3>3. ASSUME NEW i \in 1 .. n - 1
            PROVE  rest[i] = IF i < d THEN items[i] ELSE items[i + 1]
        <4>1. CASE i < d
          <5>1. i \in 1 .. d - 1 /\ i <= d - 1 /\ i \in 1 .. (d - 1) + (n - d)
            BY <1>1, <2>1, <4>1
          <5> QED
            BY <2>3, <3>1, <4>1, <5>1
        <4>2. CASE ~ (i < d)
          <5>1. i - (d - 1) \in 1 .. n - d /\ d + (i - (d - 1)) = i + 1 /\ ~ (i <= d - 1)
            BY <1>1, <2>1, <4>2
          <5>2. i \in 1 .. (d - 1) + (n - d)
            BY <1>1, <2>1
          <5> QED
            BY <2>4, <3>1, <4>2, <5>1, <5>2
        <4> QED
          BY <4>1, <4>2
      <3> QED
        BY <3>1, <3>2, <3>3, LenProperties
    <2> HIDE DEF rest
    <2>6. items[d].seq = CursorAt(c, items, d)
      <3>1. items[d].seq = CursorAt(c, items, d) + 0
        BY <1>5, <2>1
      <3>2. CursorAt(c, items, d) \in Nat
        <4>1. d # 1 => d - 1 \in 1 .. n
          BY <1>1, <2>1
        <4> QED
          BY <1>4, <4>1 DEF CursorAt
      <3> QED
        BY <3>1, <3>2
    <2>7. \A i \in 1 .. n : CursorAt(c, rest, i) = CursorAt(c, items, IF i < d THEN i ELSE i + 1)
      <3> SUFFICES ASSUME NEW i \in 1 .. n
                   PROVE  CursorAt(c, rest, i) = CursorAt(c, items, IF i < d THEN i ELSE i + 1)
        OBVIOUS
      <3>1. CASE i = 1
        <4>1. CASE i < d
          BY <3>1, <4>1 DEF CursorAt
        <4>2. CASE ~ (i < d)
          <5>1. d = 1 /\ i + 1 # 1 /\ (i + 1) - 1 = d
            BY <2>1, <3>1, <4>2
          <5> QED
            BY <2>6, <3>1, <4>2, <5>1 DEF CursorAt
        <4> QED
          BY <4>1, <4>2
      <3>2. CASE i # 1
        <4>1. i - 1 \in 1 .. n - 1 /\ i + 1 # 1 /\ (i + 1) - 1 = i /\ (i - 1) + 1 = i
          BY <1>1, <3>2
        <4>2. CursorAt(c, rest, i) = IF i - 1 < d THEN items[i - 1].seq ELSE items[i].seq
          BY <2>5, <3>2, <4>1 DEF CursorAt
        <4>3. CASE i < d
          BY <1>1, <2>1, <3>2, <4>2, <4>3 DEF CursorAt
        <4>4. CASE i = d
          BY <1>1, <2>1, <2>6, <3>2, <4>1, <4>2, <4>4 DEF CursorAt
        <4>5. CASE i > d
          BY <1>1, <2>1, <3>2, <4>1, <4>2, <4>5 DEF CursorAt
        <4> QED
          BY <1>1, <2>1, <4>3, <4>4, <4>5
      <3> QED
        BY <3>1, <3>2
    <2>8. Follow(c, rest)
      <3> SUFFICES ASSUME NEW i \in 1 .. n - 1
                   PROVE  rest[i].seq = CursorAt(c, rest, i) + (IF IsDelta(rest[i]) THEN 0 ELSE 1)
        BY <2>5 DEF Follow
      <3>1. i \in 1 .. n /\ i + 1 \in 1 .. n
        BY <1>1
      <3> QED
        BY <1>1, <2>5, <2>7, <3>1 DEF Buffered, Follow
    <2>9. CursorAt(c, rest, n) = last
      <3>1. n \in 1 .. n /\ ~ (n < d)
        BY <1>1, <2>1
      <3> QED
        BY <2>7, <3>1 DEF Buffered
    <2>10. \A i \in 1 .. n - 1 : IsDelta(rest[i]) => \E k \in Message : rest[i].seq = Started(k)
      <3> SUFFICES ASSUME NEW i \in 1 .. n - 1, IsDelta(rest[i])
                   PROVE  \E k \in Message : rest[i].seq = Started(k)
        OBVIOUS
      <3>1. i \in 1 .. n /\ i + 1 \in 1 .. n
        BY <1>1
      <3> QED
        BY <1>1, <2>5, <3>1 DEF Buffered
    <2>11. (n - 1) + 1 = n
      BY <1>1
    <2> QED
      BY <2>2, <2>5, <2>8, <2>9, <2>10, <2>11 DEF Buffered
  <1> QED
    BY <1>2, <1>3

\* A delta behind a delta extends it.
LEMMA ExtendedFollows ==
  ASSUME NEW c \in Nat, NEW last \in Nat, NEW items, Buffered(c, items, last),
         items # << >>, IsDelta(Last(items)),
         NEW delta \in Text, delta # << >>
  PROVE  Buffered(c, ReplaceAt(items, Len(items),
                        [seq |-> last, delta |-> Last(items).delta \o delta]), last)
  <1> DEFINE n == Len(items)
             e == [seq |-> last, delta |-> Last(items).delta \o delta]
             longer == [items EXCEPT ![n] = e]
  <1>1. items \in Seq(Event) /\ n \in Nat \ {0} /\ DOMAIN items = 1 .. n /\ n \in 1 .. n
    BY LenProperties, EmptySeq DEF Buffered
  <1>2. Last(items) = items[n] /\ items[n] \in Event
    BY <1>1 DEF Last
  <1>3. items[n].seq = last
    BY <1>1 DEF Buffered, CursorAt
  <1>4. e \in Event /\ IsDelta(e)
    <2>1. Last(items).delta \in Seq(Nat) /\ delta \in Seq(Nat)
      BY <1>2 DEF Event, Text
    <2>2. /\ Last(items).delta \o delta \in Seq(Nat)
          /\ Len(Last(items).delta \o delta) = Len(Last(items).delta) + Len(delta)
      BY <2>1, ConcatProperties
    <2>3. Len(delta) # 0 /\ Len(delta) \in Nat /\ Len(Last(items).delta) \in Nat
      BY <2>1, LenProperties, EmptySeq
    <2>4. Last(items).delta \o delta # << >>
      BY <2>2, <2>3, EmptySeq
    <2> QED
      BY <2>2, <2>4 DEF Event, IsDelta, Text
  <1> HIDE DEF e
  <1>5. longer \in Seq(Event) /\ Len(longer) = n /\ DOMAIN longer = 1 .. n
    BY <1>1, <1>4, ExceptSeq, LenProperties
  <1>6. longer[n] = e /\ \A i \in 1 .. n : i # n => longer[i] = items[i]
    BY <1>1
  <1>7. e.seq = items[n].seq
    BY <1>3 DEF e
  <1>8. \A i \in 1 .. n : longer[i].seq = items[i].seq /\ (IsDelta(longer[i]) <=> IsDelta(items[i]))
    BY <1>2, <1>4, <1>6, <1>7
  <1>9. \A i \in 1 .. n + 1 : CursorAt(c, longer, i) = CursorAt(c, items, i)
    <2> SUFFICES ASSUME NEW i \in 1 .. n + 1, i # 1
                 PROVE  longer[i - 1].seq = items[i - 1].seq
      BY DEF CursorAt
    <2>1. i - 1 \in 1 .. n
      BY <1>1
    <2> QED
      BY <1>8, <2>1
  <1> HIDE DEF longer
  <1>10. Buffered(c, longer, last)
    <2>1. \A i \in 1 .. n : i \in 1 .. n + 1
      BY <1>1
    <2>2. Follow(c, longer)
      BY <1>1, <1>5, <1>8, <1>9, <2>1 DEF Buffered, Follow
    <2>3. CursorAt(c, longer, n + 1) = last
      BY <1>1, <1>9 DEF Buffered
    <2>4. \A i \in 1 .. n : IsDelta(longer[i]) => \E k \in Message : longer[i].seq = Started(k)
      BY <1>1, <1>8 DEF Buffered
    <2> QED
      BY <1>5, <2>2, <2>3, <2>4 DEF Buffered
  <1> QED
    BY <1>10 DEF ReplaceAt, longer, e

\* What is buffered follows the adapter, unless the buffer overflowed.
LEMMA ItemsFollow ==
  ASSUME DeliveryTypeOK, BufferFits, NoFactIsDropped, buffer.replay = 0
  PROVE  Buffered(buffer.acked, buffer.items, thread.seq)
  BY DEF Buffered, BufferFits, NoFactIsDropped, DeliveryTypeOK, BufferType

\* The buffer after an event was offered to it, when it is not to be replayed.
LEMMA ItemsOffered ==
  ASSUME NEW items, Buffered(buffer.acked, items, thread'.seq),
         buffer'.items = items, buffer'.acked = buffer.acked, buffer'.latest = thread'.seq,
         buffer'.replay = 0, adapter' = adapter, NoFactIsDropped
  PROVE  BufferFits' /\ NoFactIsDropped'
  BY DEF Buffered, BufferFits, NoFactIsDropped

\* A durable event comes behind what is buffered, or the buffer is to be replayed.
LEMMA CommitKeepsFacts ==
  ASSUME DeliveryTypeOK, BufferFits, NoFactIsDropped, Commit
  PROVE  buffer' \in BufferType /\ BufferFits' /\ NoFactIsDropped'
  <1> DEFINE seq == thread.seq + 1
  <1>1. /\ thread.seq \in Nat /\ seq \in Nat /\ seq > 0 /\ thread'.seq = seq
        /\ buffer' = OfferDurable(buffer, seq) /\ adapter' = adapter
        /\ buffer \in BufferType
    BY DEF Commit, DeliveryTypeOK, ThreadType, LastSeq
  <1> HIDE DEF seq
  <1>2. CASE buffer.replay > 0
    <2>1. buffer' = [buffer EXCEPT !.replay = seq]
      BY <1>1, <1>2 DEF OfferDurable
    <2> QED
      BY <1>1, <1>2, <2>1 DEF BufferType, BufferFits, NoFactIsDropped
  <1>3. CASE buffer.replay = 0
    <2>1. seq = buffer.latest + 1 /\ ~ (seq <= buffer.latest) /\ ~ (buffer.replay > 0)
      BY <1>1, <1>3 DEF BufferFits, seq
    <2>2. CASE Len(Evict(buffer.items)) >= MaxItems
      <3> DEFINE none == << >>
      <3>1. buffer' = RequireReplay(buffer, seq)
        BY <1>1, <2>1, <2>2 DEF OfferDurable
      <3>2. buffer' = [buffer EXCEPT !.items = none, !.replay = seq]
        BY <3>1 DEF RequireReplay
      <3>3. none \in Seq(Event)
        BY EmptySeq
      <3>4. DOMAIN none = {}
        BY NothingIn
      <3>5. none = << >>
        OBVIOUS
      <3> HIDE DEF none
      <3>6. /\ buffer' \in BufferType /\ buffer'.items = none /\ buffer'.acked = buffer.acked
            /\ buffer'.replay = seq
        BY <1>1, <3>2, <3>3 DEF BufferType
      <3> QED
        BY <1>1, <3>4, <3>5, <3>6 DEF BufferFits, NoFactIsDropped
    <2>3. CASE ~ (Len(Evict(buffer.items)) >= MaxItems)
      <3> DEFINE items == Append(Evict(buffer.items), Durable(seq))
      <3>1. buffer' = [buffer EXCEPT !.items = items, !.latest = seq]
        BY <1>1, <2>1, <2>3 DEF OfferDurable
      <3>2. Buffered(buffer.acked, Evict(buffer.items), thread.seq)
        <4>1. buffer.acked \in Nat
          BY <1>1 DEF BufferType
        <4>2. Buffered(buffer.acked, buffer.items, thread.seq)
          BY <1>3, ItemsFollow
        <4> QED
          BY <1>1, <4>1, <4>2, EvictedIsDelta
      <3>3. Durable(seq) \in Event /\ ~ IsDelta(Durable(seq)) /\ Durable(seq).seq = seq
        BY <1>1 DEF Durable, Event, IsDelta, Text
      <3>4. Buffered(buffer.acked, items, seq)
        <4>1. buffer.acked \in Nat /\ seq = thread.seq + 1
          BY <1>1 DEF BufferType, seq
        <4> QED
          BY <1>1, <3>2, <3>3, <4>1, AppendFollows
      <3>5. items \in Seq(Event)
        BY <3>4 DEF Buffered
      <3> HIDE DEF items
      <3>6. /\ buffer'.items = items /\ buffer'.acked = buffer.acked /\ buffer'.latest = seq
            /\ buffer'.replay = 0 /\ buffer' \in BufferType
        BY <1>1, <1>3, <3>1, <3>5 DEF BufferType
      <3> QED
        BY <1>1, <3>4, <3>6, ItemsOffered
    <2> QED
      BY <2>2, <2>3
  <1> QED
    BY <1>1, <1>2, <1>3 DEF BufferType

\* A delta extends what is buffered, or is dropped.
LEMMA StreamKeepsFacts ==
  ASSUME DeliveryTypeOK, BufferFits, NoFactIsDropped, Stream
  PROVE  buffer' \in BufferType /\ BufferFits' /\ NoFactIsDropped'
  <1>1. PICK k \in Streaming :
           /\ thread' = [thread EXCEPT !.chunks[k] = @ + 1]
           /\ buffer' = OfferDelta(buffer, [seq |-> thread.seq, delta |-> << thread.chunks[k] + 1 >>])
    BY DEF Stream
  <1> DEFINE delta == << thread.chunks[k] + 1 >>
             e == [seq |-> thread.seq, delta |-> delta]
  <1>2. /\ k \in Message /\ thread.seq = Started(k) /\ thread'.seq = thread.seq
        /\ thread.seq \in Nat /\ adapter' = adapter /\ buffer \in BufferType
        /\ thread.chunks[k] \in Nat
    BY <1>1 DEF Stream, Streaming, DeliveryTypeOK, ThreadType, LastSeq
  <1>3. delta \in Text /\ delta # << >>
    BY <1>2 DEF Text
  <1> HIDE DEF delta
  <1>4. e \in Event /\ IsDelta(e) /\ e.seq = thread.seq /\ e.delta = delta
    BY <1>2, <1>3 DEF Event, IsDelta
  <1>5. buffer' = OfferDelta(buffer, e)
    BY <1>1 DEF delta
  <1> HIDE DEF e
  <1>6. CASE buffer' = buffer
    BY <1>2, <1>6 DEF BufferFits, NoFactIsDropped
  <1>7. ASSUME buffer.replay = 0, NEW items, Buffered(buffer.acked, items, thread.seq),
               buffer' = [buffer EXCEPT !.items = items]
        PROVE  buffer' \in BufferType /\ BufferFits' /\ NoFactIsDropped'
    <2>1. items \in Seq(Event)
      BY <1>7 DEF Buffered
    <2>2. /\ buffer'.items = items /\ buffer'.acked = buffer.acked /\ buffer'.latest = thread.seq
          /\ buffer'.replay = 0 /\ buffer' \in BufferType
      BY <1>2, <1>7, <2>1 DEF BufferType, BufferFits
    <2> QED
      BY <1>2, <1>7, <2>2, ItemsOffered
  <1>8. ASSUME buffer' # buffer
        PROVE  /\ buffer.replay = 0
               /\ \/ /\ buffer.items # << >> /\ IsDelta(Last(buffer.items))
                     /\ buffer' = [buffer EXCEPT !.items = ReplaceAt(buffer.items, Len(buffer.items),
                          [seq |-> thread.seq, delta |-> Last(buffer.items).delta \o delta])]
                  \/ buffer' = [buffer EXCEPT !.items = Append(buffer.items, e)]
    BY <1>2, <1>4, <1>5, <1>8 DEF OfferDelta, BufferType
  <1>9. CASE buffer' # buffer
    <2>1. Buffered(buffer.acked, buffer.items, thread.seq) /\ buffer.acked \in Nat
      BY <1>2, <1>8, <1>9, ItemsFollow DEF BufferType
    <2>2. Buffered(buffer.acked, Append(buffer.items, e), thread.seq)
      BY <1>2, <1>4, <2>1, AppendFollows
    <2>3. ASSUME buffer.items # << >>, IsDelta(Last(buffer.items))
          PROVE  Buffered(buffer.acked, ReplaceAt(buffer.items, Len(buffer.items),
                     [seq |-> thread.seq, delta |-> Last(buffer.items).delta \o delta]), thread.seq)
      BY <1>2, <1>3, <2>1, <2>3, ExtendedFollows
    <2> QED
      BY <1>7, <1>8, <1>9, <2>2, <2>3
  <1> QED
    BY <1>2, <1>6, <1>9

\* What a flush projects follows the adapter, up to the Thread's last event.
LEMMA PendingFollows ==
  ASSUME DeliveryTypeOK, BufferFits, NoFactIsDropped, AdapterFits(adapter)
  PROVE  Buffered(adapter.cursor, Pending, thread.seq)
  <1>1. CASE ~ (buffer.replay > 0)
    <2>1. buffer.replay = 0 /\ buffer.acked = adapter.cursor
      BY <1>1 DEF DeliveryTypeOK, BufferType, NoFactIsDropped
    <2> QED
      BY <1>1, <2>1, ItemsFollow DEF Pending
  <1>2. CASE buffer.replay > 0
    <2> DEFINE c == adapter.cursor
               n == thread.seq - c
               events == [i \in 1 .. n |-> Durable(c + i)]
    <2>1. c \in Nat /\ n \in Nat /\ c + n = thread.seq
      BY DEF AdapterFits, AdapterType, DeliveryTypeOK, ThreadType, LastSeq
    <2>2. Pending = events
      BY <1>2 DEF Pending
    <2> HIDE DEF n, c
    <2>3. \A i \in 1 .. n : Durable(c + i) \in Event /\ ~ IsDelta(Durable(c + i)) /\ Durable(c + i).seq = c + i
      BY <2>1 DEF Durable, Event, IsDelta, Text
    <2>4. events \in Seq(Event) /\ Len(events) = n /\ DOMAIN events = 1 .. n
      BY <2>1, <2>3
    <2>5. ASSUME NEW i \in 1 .. n + 1
          PROVE  CursorAt(c, events, i) = c + i - 1
      <3>1. i # 1 => i - 1 \in 1 .. n
        BY <2>1
      <3>2. i # 1 => events[i - 1].seq = c + (i - 1)
        BY <2>3, <3>1
      <3> QED
        BY <2>1, <3>2 DEF CursorAt
    <2>6. ASSUME NEW i \in 1 .. n
          PROVE  ~ IsDelta(events[i]) /\ events[i].seq = CursorAt(c, events, i) + 1
      <3>1. events[i].seq = c + i /\ ~ IsDelta(events[i])
        BY <2>3
      <3>2. i \in 1 .. n + 1
        BY <2>1
      <3>3. CursorAt(c, events, i) = c + i - 1
        BY <2>5, <3>2
      <3> QED
        BY <2>1, <3>1, <3>3
    <2>7. CursorAt(c, events, n + 1) = thread.seq
      <3>1. n + 1 \in 1 .. n + 1
        BY <2>1
      <3> QED
        BY <2>1, <2>5, <3>1
    <2> HIDE DEF events
    <2>8. Buffered(c, events, thread.seq)
      BY <2>4, <2>6, <2>7 DEF Buffered, Follow
    <2> QED
      BY <2>2, <2>8 DEF c
  <1> QED
    BY <1>1, <1>2
-----------------------------------------------------------------------------
(* The adapter.                                                            *)

\* The adapter b is the adapter a some events later.
Grows(a, b) ==
  /\ a \in AdapterType /\ b \in AdapterType
  /\ a.cursor <= b.cursor
  /\ \A k \in Message : a.entry[k] # NoEntry => b.entry[k] = a.entry[k]
  /\ \A k \in Message : Continues(a.text[k], 0, b.text[k])

\* What an envelope tells stays true.
LEMMA GrowthTells ==
  ASSUME NEW a, NEW b, Grows(a, b), NEW env \in EnvelopeType, Tells(a, env)
  PROVE  Tells(b, env)
  <1>1. \A k \in Message : About(a, env, k) => About(b, env, k)
    BY DEF About, Grows
  <1>2. ASSUME env.type = "append"
        PROVE  About(b, env, env.message) /\ env.cursor = env.entry
    BY <1>1, <1>2 DEF Tells, About
  <1>3. ASSUME env.type = "update"
        PROVE  \E k \in Message :
           /\ About(b, env, k)
           /\ Continues(env.text, IF env.start = Replaces THEN 0 ELSE env.start, b.text[k])
    <2> DEFINE n == IF env.start = Replaces THEN 0 ELSE env.start
    <2>1. PICK k \in Message : About(a, env, k) /\ Continues(env.text, n, a.text[k])
      BY <1>3 DEF Tells
    <2>2. n \in Nat /\ env.text \in Text
      BY DEF EnvelopeType, Replaces
    <2>3. a.text[k] \in Text /\ b.text[k] \in Text /\ Continues(a.text[k], 0, b.text[k])
      BY DEF Grows, AdapterType
    <2>4. Continues(env.text, n, b.text[k])
      BY <2>1, <2>2, <2>3, LongerTexts
    <2> QED
      BY <1>1, <2>1, <2>4
  <1>4. ASSUME env.type = "finalize"
        PROVE  \E k \in Message :
           /\ About(b, env, k) /\ env.text = FullText(k) /\ Completed(k) <= b.cursor
           /\ \A r \in DOMAIN requests :
                requests[r].state = "served" /\ env.cursor <= requests[r].snapshot.cursor =>
                  k <= requests[r].snapshot.messages
    <2>1. PICK k \in Message :
           /\ About(a, env, k) /\ env.text = FullText(k) /\ Completed(k) <= a.cursor
           /\ \A r \in DOMAIN requests :
                requests[r].state = "served" /\ env.cursor <= requests[r].snapshot.cursor =>
                  k <= requests[r].snapshot.messages
      BY <1>4 DEF Tells
    <2>2. Completed(k) <= b.cursor
      BY <2>1, SizesAssumption DEF Grows, AdapterType, Completed, Message
    <2> QED
      BY <1>1, <2>1, <2>2
  <1> QED
    BY <1>2, <1>3, <1>4 DEF Tells

\* The hub, the response and the view agree with the adapter that has grown.
LEMMA GrowthAgrees ==
  ASSUME NEW a, NEW b, Grows(a, b), a.cursor # LastSeq, view \in ViewType,
         NEW h, NEW w, Agree(a, h, w)
  PROVE  Agree(b, h, w)
  <1>1. HubFits(b, h)
    <2>1. \A i \in DOMAIN h.retained : h.retained[i] \in EnvelopeType
      BY LenProperties, ElementOfSeq DEF Agree, HubFits, HubType
    <2>2. \A i \in DOMAIN h.retained : Tells(b, h.retained[i])
      BY <2>1, GrowthTells DEF Agree, HubFits
    <2> QED
      BY <2>2 DEF Agree, HubFits
  <1>2. WireFits(b, h, w)
    <2>1. \A i \in DOMAIN w.queue : w.queue[i] \in EnvelopeType
      BY LenProperties, ElementOfSeq DEF Agree, WireFits, WireType
    <2>2. \A i \in DOMAIN w.queue : Tells(a, w.queue[i]) => Tells(b, w.queue[i])
      BY <2>1, GrowthTells
    <2> QED
      BY <2>2 DEF Agree, WireFits
  <1>3. TranscriptFits(b, w)
    <2>1. ASSUME NEW i \in DOMAIN view.transcript
          PROVE  EntryFits(b, w, view.transcript[i])
      <3> DEFINE e == view.transcript[i]
      <3>1. e \in EntryType /\ EntryFits(a, w, e)
        BY LenProperties, ElementOfSeq DEF Agree, TranscriptFits, ViewType
      <3> HIDE DEF e
      <3>2. e.message \in Message /\ e.text \in Text
        BY <3>1 DEF EntryType
      <3>3. e.id # NoId => e.id = b.entry[e.message] /\ e.id <= view.lastCursor
        BY <3>1, <3>2 DEF EntryFits, Grows, NoId, NoEntry
      <3>4. e.live => Continues(e.text, 0, b.text[e.message])
        <4>1. a.text[e.message] \in Text /\ b.text[e.message] \in Text
              /\ Continues(a.text[e.message], 0, b.text[e.message])
          BY <3>2 DEF Grows, AdapterType
        <4>2. 0 \in Nat
          OBVIOUS
        <4> QED
          BY <3>1, <3>2, <4>1, <4>2, LongerTexts DEF EntryFits
      <3>5. Completed(e.message) <= a.cursor => Completed(e.message) <= b.cursor
        BY <3>2, SizesAssumption DEF Grows, AdapterType, Completed, Message
      <3> QED
        BY <3>1, <3>3, <3>4, <3>5 DEF EntryFits, e
    <2> QED
      BY <2>1 DEF Agree, TranscriptFits
  <1>4. ViewFits(b, h)
    BY DEF Agree, ViewFits
  <1>5. \A r \in DOMAIN requests : SnapshotFits(b, h, r)
    BY DEF Agree, SnapshotFits
  <1> QED
    BY <1>1, <1>2, <1>3, <1>4, <1>5 DEF Agree
-----------------------------------------------------------------------------
(* The hub.                                                                *)

\* An envelope with the next cursor is retained.
LEMMA AppendFits ==
  ASSUME NEW a, NEW h, HubFits(a, h), NEW sent \in EnvelopeType, sent.cursor = h.next,
         sent.type \notin {"update", "reset"}, Tells(a, sent)
  PROVE  HubFits(a, [h EXCEPT !.next = @ + 1, !.retained = Append(@, sent),
                              !.durable = @ \cup {sent.cursor}])
  <1> DEFINE longer == Append(h.retained, sent)
             n == Len(h.retained)
  <1>1. h \in HubType /\ h.discarded < h.next /\ h.next \in Nat /\ h.discarded \in Nat
    BY DEF HubFits, HubType
  <1>2. /\ longer \in Seq(EnvelopeType) /\ n \in Nat /\ DOMAIN h.retained = 1 .. n
        /\ DOMAIN longer = 1 .. n + 1
        /\ \A i \in 1 .. n : longer[i] = h.retained[i]
        /\ longer[n + 1] = sent
    <2>1. h.retained \in Seq(EnvelopeType)
      BY <1>1 DEF HubType
    <2> QED
      BY <2>1, AppendProperties, LenProperties
  <1>3. \A i \in 1 .. n : h.retained[i] \in EnvelopeType /\ h.retained[i].cursor \in Nat
    <2> SUFFICES ASSUME NEW i \in 1 .. n PROVE h.retained[i] \in EnvelopeType
      BY DEF EnvelopeType
    <2> QED
      BY <1>1, <1>2, ElementOfSeq DEF HubType
  <1> DEFINE durable == h.durable \cup {h.next}
             next == h.next + 1
             g == [h EXCEPT !.next = next, !.retained = longer, !.durable = durable]
  <1> HIDE DEF longer, n
  <1>9. durable \in SUBSET Nat /\ next \in Nat
    BY <1>1 DEF HubType
  <1> HIDE DEF durable, next
  <1>4. /\ g \in HubType /\ g.next = next /\ g.retained = longer
        /\ g.durable = durable /\ g.discarded = h.discarded
    BY <1>1, <1>2, <1>9 DEF HubType
  <1>5. ASSUME NEW i \in 1 .. n + 1
        PROVE  /\ h.discarded < longer[i].cursor /\ longer[i].cursor < h.next + 1
               /\ longer[i].type \notin {"update", "reset"} /\ Tells(a, longer[i])
               /\ \A j \in 1 .. n + 1 : i < j => longer[i].cursor < longer[j].cursor
    <2>1. CASE i = n + 1
      BY <1>1, <1>2, <2>1
    <2>2. CASE i \in 1 .. n
      <3>1. /\ h.discarded < h.retained[i].cursor /\ h.retained[i].cursor < h.next
            /\ h.retained[i].type \notin {"update", "reset"} /\ Tells(a, h.retained[i])
            /\ \A j \in 1 .. n : i < j => h.retained[i].cursor < h.retained[j].cursor
        BY <1>2, <2>2 DEF HubFits
      <3>2. h.retained[i].cursor < h.next + 1
        BY <1>1, <1>3, <2>2, <3>1
      <3>3. ASSUME NEW j \in 1 .. n + 1, i < j
            PROVE  longer[i].cursor < longer[j].cursor
        <4>1. CASE j = n + 1
          BY <1>2, <2>2, <3>1, <4>1
        <4>2. CASE j \in 1 .. n
          BY <1>2, <2>2, <3>1, <3>3, <4>2
        <4> QED
          BY <1>2, <4>1, <4>2
      <3> QED
        BY <1>2, <2>2, <3>1, <3>2, <3>3
    <2> QED
      BY <1>2, <2>1, <2>2
  <1>6. ASSUME NEW d \in h.durable \cup {h.next}
        PROVE  d < h.next + 1 /\ (h.discarded < d => \E i \in 1 .. n + 1 : longer[i].cursor = d)
    <2>1. CASE d = h.next
      BY <1>1, <1>2, <2>1
    <2>2. CASE d \in h.durable
      <3>1. d \in Nat
        BY <1>1, <2>2 DEF HubType
      <3>2. d < h.next /\ (h.discarded < d => \E i \in 1 .. n : h.retained[i].cursor = d)
        BY <1>2, <2>2 DEF HubFits
      <3>3. \A i \in 1 .. n : i \in 1 .. n + 1
        BY <1>2
      <3> QED
        BY <1>1, <1>2, <3>1, <3>2, <3>3
    <2> QED
      BY <2>1, <2>2
  <1>7. g.discarded < g.next
    BY <1>1, <1>4 DEF next
  <1> HIDE DEF g
  <1>8. HubFits(a, g)
    BY <1>2, <1>4, <1>5, <1>6, <1>7 DEF HubFits, durable, next
  <1> QED
    BY <1>8 DEF g, longer, durable, next

\* What is trimmed is discarded.
LEMMA TrimFits ==
  ASSUME NEW a, NEW h, HubFits(a, h)
  PROVE  HubFits(a, Trim(h)) /\ Trim(h).next = h.next /\ Trim(h).durable = h.durable
  <1>1. CASE Len(h.retained) <= MaxRetained
    BY <1>1 DEF Trim
  <1>2. CASE ~ (Len(h.retained) <= MaxRetained)
    <2> DEFINE n == Len(h.retained)
               rest == Tail(h.retained)
               g == [h EXCEPT !.retained = rest, !.discarded = Head(h.retained).cursor]
    <2>1. h \in HubType /\ h.retained \in Seq(EnvelopeType) /\ n \in Nat /\ DOMAIN h.retained = 1 .. n
      BY LenProperties DEF HubFits, HubType
    <2>2. n # 0 /\ h.retained # << >> /\ 1 \in 1 .. n
      BY <1>2, <2>1, SizesAssumption, NothingIn
    <2>3. /\ rest \in Seq(EnvelopeType) /\ Len(rest) = n - 1 /\ DOMAIN rest = 1 .. n - 1
          /\ \A i \in 1 .. n - 1 : rest[i] = h.retained[i + 1]
          /\ Head(h.retained) = h.retained[1]
      <3>1. Len(rest) = n - 1 /\ \A i \in 1 .. Len(rest) : rest[i] = h.retained[i + 1]
        BY <2>1, <2>2, HeadTailProperties
      <3> QED
        BY <2>1, <2>2, <3>1, HeadTailProperties, LenProperties
    <2>4. \A i \in 1 .. n : h.retained[i].cursor \in Nat
      <3> SUFFICES ASSUME NEW i \in 1 .. n PROVE h.retained[i] \in EnvelopeType
        BY DEF EnvelopeType
      <3> QED
        BY <2>1, ElementOfSeq
    <2>5. Trim(h) = g
      BY <1>2 DEF Trim
    <2> HIDE DEF n, rest
    <2>6. /\ g \in HubType /\ g.next = h.next /\ g.retained = rest /\ g.durable = h.durable
          /\ g.discarded = h.retained[1].cursor
      BY <2>1, <2>2, <2>3, <2>4 DEF HubType
    <2> HIDE DEF g
    <2>7. \A i \in 1 .. n - 1 : i \in 1 .. n /\ i + 1 \in 1 .. n /\ 1 < i + 1
      BY <2>1
    <2>8. ASSUME NEW i \in 1 .. n - 1
          PROVE  /\ h.retained[1].cursor < rest[i].cursor /\ rest[i].cursor < h.next
                 /\ rest[i].type \notin {"update", "reset"} /\ Tells(a, rest[i])
                 /\ \A j \in 1 .. n - 1 : i < j => rest[i].cursor < rest[j].cursor
      <3>1. /\ h.retained[1].cursor < h.retained[i + 1].cursor /\ h.retained[i + 1].cursor < h.next
            /\ h.retained[i + 1].type \notin {"update", "reset"} /\ Tells(a, h.retained[i + 1])
        BY <2>1, <2>2, <2>7 DEF HubFits
      <3>2. ASSUME NEW j \in 1 .. n - 1, i < j
            PROVE  h.retained[i + 1].cursor < h.retained[j + 1].cursor
        <4>1. i + 1 < j + 1
          BY <3>2
        <4> QED
          BY <2>1, <2>7, <4>1 DEF HubFits
      <3> QED
        BY <2>3, <3>1, <3>2
    <2>9. ASSUME NEW d \in h.durable, h.retained[1].cursor < d
          PROVE  \E i \in 1 .. n - 1 : rest[i].cursor = d
      <3>1. d \in Nat /\ h.discarded \in Nat /\ h.discarded < h.retained[1].cursor
        BY <2>1, <2>2, <2>9 DEF HubFits, HubType
      <3>2. h.discarded < d
        BY <2>2, <2>4, <2>9, <3>1
      <3>3. PICK i \in 1 .. n : h.retained[i].cursor = d
        BY <2>1, <2>9, <3>2 DEF HubFits
      <3>4. i # 1
        BY <2>2, <2>4, <2>9, <3>1, <3>3
      <3>5. i - 1 \in 1 .. n - 1 /\ (i - 1) + 1 = i
        BY <2>1, <3>4
      <3> QED
        BY <2>3, <3>3, <3>5
    <2>10. h.retained[1].cursor < h.next /\ \A d \in h.durable : d < h.next
      BY <2>1, <2>2 DEF HubFits
    <2>11. HubFits(a, g)
      BY <2>3, <2>6, <2>8, <2>9, <2>10 DEF HubFits
    <2> QED
      BY <2>5, <2>6, <2>11
  <1> QED
    BY <1>1, <1>2

\* What the hub does with an envelope that it sends.
LEMMA RetainFits ==
  ASSUME NEW a, NEW h, HubFits(a, h), NEW sent \in EnvelopeType, sent.cursor = h.next,
         sent.type # "reset", Tells(a, sent)
  PROVE  LET g == Retain([h EXCEPT !.next = @ + 1], sent)
         IN  /\ HubFits(a, g) /\ g.next = h.next + 1
             /\ g.durable \subseteq h.durable \cup {h.next}
  <1>1. h \in HubType /\ h.next \in Nat /\ h.discarded \in Nat
    BY DEF HubFits, HubType
  <1>2. CASE sent.type = "update"
    <2> DEFINE g == [h EXCEPT !.next = @ + 1]
    <2>1. Retain(g, sent) = g
      BY <1>2 DEF Retain
    <2>2. /\ g \in HubType /\ g.next = h.next + 1 /\ g.retained = h.retained
          /\ g.durable = h.durable /\ g.discarded = h.discarded
      BY <1>1 DEF HubType
    <2> HIDE DEF g
    <2>3. \A i \in DOMAIN h.retained : h.retained[i].cursor \in Nat
      <3> SUFFICES ASSUME NEW i \in DOMAIN h.retained PROVE h.retained[i] \in EnvelopeType
        BY DEF EnvelopeType
      <3> QED
        BY <1>1, ElementOfSeq, LenProperties DEF HubType
    <2>4. \A d \in h.durable : d \in Nat
      BY <1>1 DEF HubType
    <2>5. \A c \in Nat : c < h.next => c < h.next + 1
      BY <1>1
    <2>6. HubFits(a, g)
      BY <1>1, <2>2, <2>3, <2>4, <2>5 DEF HubFits
    <2> QED
      BY <2>1, <2>2, <2>6 DEF g
  <1>3. CASE sent.type # "update"
    <2> DEFINE g == [h EXCEPT !.next = @ + 1, !.retained = Append(@, sent),
                              !.durable = @ \cup {sent.cursor}]
    <2>1. HubFits(a, g)
      BY <1>3, AppendFits
    <2>2. g.next = h.next + 1 /\ g.durable = h.durable \cup {h.next}
      BY <1>1 DEF HubType
    <2>3. Retain([h EXCEPT !.next = @ + 1], sent) = Trim(g)
      BY <1>1, <1>3 DEF Retain, HubType
    <2> HIDE DEF g
    <2> QED
      BY <2>1, <2>2, <2>3, TrimFits
  <1> QED
    BY <1>2, <1>3
-----------------------------------------------------------------------------
(* What the hub sends.                                                     *)

\* An envelope that the hub can send next: an update is of a message that has not ended.
News(a, h, sent) ==
  /\ sent \in EnvelopeType /\ sent.cursor = h.next /\ sent.type # "reset"
  /\ Tells(a, sent)
  /\ sent.type = "update" =>
       \E k \in Message : About(a, sent, k) /\ a.cursor < Completed(k)

\* An update is not of an entry that has been finalized.
LEMMA UpdateIsEarlier ==
  ASSUME NEW a \in AdapterType, NEW n, EntriesFit(a, n), NEW h, NEW sent, News(a, h, sent),
         sent.type = "update", NEW k \in Message, Completed(k) <= a.cursor
  PROVE  sent.entry # a.entry[k]
  <1>1. PICK j \in Message : About(a, sent, j) /\ a.cursor < Completed(j)
    BY DEF News
  <1>2. j # k
    BY <1>1, SizesAssumption DEF AdapterType, Completed, Message
  <1> QED
    BY <1>1, <1>2 DEF About, EntriesFit

\* The response carries the envelope behind what it carries, if the hub has its client.
LEMMA WriteFits ==
  ASSUME NEW a \in AdapterType, NEW n, EntriesFit(a, n), NEW h, HubFits(a, h),
         NEW g, g.next = h.next + 1, g.durable \subseteq h.durable \cup {h.next},
         NEW w, WireFits(a, h, w), NEW sent, News(a, h, sent),
         source \in SourceType, source.cursor < h.next
  PROVE  WireFits(a, g, WriteClient(w, sent))
  <1> DEFINE m == Len(w.queue)
             longer == Append(w.queue, sent)
  <1>1. /\ h.next \in Nat /\ h.durable \in SUBSET Nat /\ (\A d \in h.durable : d < h.next)
        /\ source.cursor \in Nat
    BY DEF HubFits, HubType, SourceType
  <1>2. /\ w \in WireType /\ w.queue \in Seq(EnvelopeType) /\ m \in Nat /\ DOMAIN w.queue = 1 .. m
    BY LenProperties DEF WireFits, WireType
  <1>3. \A i \in 1 .. m : w.queue[i] \in EnvelopeType /\ w.queue[i].cursor \in Nat
    <2> SUFFICES ASSUME NEW i \in 1 .. m PROVE w.queue[i] \in EnvelopeType
      BY DEF EnvelopeType
    <2> QED
      BY <1>2, ElementOfSeq
  <1>4. \A d \in g.durable : d \in h.durable \/ d = h.next
    OBVIOUS
  <1>5. ASSUME NEW i \in 1 .. m, w.queue[i].type # "reset"
        PROVE  /\ CursorBefore(w, i) < w.queue[i].cursor /\ w.queue[i].cursor < h.next
               /\ w.queue[i].cursor < g.next /\ Tells(a, w.queue[i])
               /\ \A d \in g.durable : ~ (CursorBefore(w, i) < d /\ d < w.queue[i].cursor)
               /\ \A j \in 1 .. m :
                    i < j /\ w.queue[i].type = "finalize" /\ w.queue[j].type = "update" =>
                      w.queue[i].entry # w.queue[j].entry
    <2>1. /\ CursorBefore(w, i) < w.queue[i].cursor /\ w.queue[i].cursor < h.next
          /\ Tells(a, w.queue[i])
          /\ \A d \in h.durable : ~ (CursorBefore(w, i) < d /\ d < w.queue[i].cursor)
          /\ \A j \in 1 .. m :
               i < j /\ w.queue[i].type = "finalize" /\ w.queue[j].type = "update" =>
                 w.queue[i].entry # w.queue[j].entry
      BY <1>2, <1>5 DEF WireFits
    <2>2. w.queue[i].cursor < g.next /\ ~ (h.next < w.queue[i].cursor)
      BY <1>1, <1>3, <2>1
    <2> QED
      BY <1>4, <2>1, <2>2
  <1>6. CASE ~ w.attached
    <2>1. WriteClient(w, sent) = w
      BY <1>6 DEF WriteClient
    <2>2. ASSUME NEW i \in 1 .. m, w.queue[i].type = "reset"
          PROVE  Resets(g, w)
      <3>1. Resets(h, w)
        BY <1>2, <2>2 DEF WireFits
      <3>2. m = 1 /\ w.queue[1].cursor < h.next
        BY <3>1 DEF Resets
      <3>3. 1 \in 1 .. m
        BY <3>2
      <3>4. w.queue[1].cursor < g.next
        BY <1>1, <1>3, <3>2, <3>3
      <3> QED
        BY <3>1, <3>4 DEF Resets
    <2>3. source.phase \notin {"connecting", "open"} => w = [queue |-> << >>, attached |-> FALSE]
      BY DEF WireFits
    <2>4. ASSUME NEW i \in DOMAIN w.queue
          PROVE  IF w.queue[i].type = "reset" THEN Resets(g, w)
                 ELSE /\ CursorBefore(w, i) < w.queue[i].cursor /\ w.queue[i].cursor < g.next
                      /\ Tells(a, w.queue[i])
                      /\ \A d \in g.durable : ~ (CursorBefore(w, i) < d /\ d < w.queue[i].cursor)
                      /\ \A j \in DOMAIN w.queue :
                           i < j /\ w.queue[i].type = "finalize" /\ w.queue[j].type = "update" =>
                             w.queue[i].entry # w.queue[j].entry
      BY <1>2, <1>5, <2>2
    <2>5. WireFits(a, g, w)
      BY <1>2, <1>6, <2>3, <2>4 DEF WireFits
    <2> QED
      BY <2>1, <2>5
  <1>7. CASE w.attached
    <2> DEFINE attached == m + 1 < HighWater
               v == [queue |-> longer, attached |-> attached]
    <2>1. WriteClient(w, sent) = v
      BY <1>7 DEF WriteClient
    <2>2. /\ longer \in Seq(EnvelopeType) /\ Len(longer) = m + 1 /\ DOMAIN longer = 1 .. m + 1
          /\ (\A i \in 1 .. m : longer[i] = w.queue[i]) /\ longer[m + 1] = sent
      <3>1. sent \in EnvelopeType
        BY DEF News
      <3> QED
        BY <1>2, <3>1, AppendProperties, LenProperties
    <2>3. attached \in BOOLEAN
      OBVIOUS
    <2> HIDE DEF longer, attached
    <2>4. v \in WireType /\ v.queue = longer
      BY <2>2, <2>3 DEF WireType
    <2> HIDE DEF v
    <2>5. source.phase \in {"connecting", "open"}
      BY <1>7 DEF WireFits
    <2>6. \A i \in 1 .. m : w.queue[i].type # "reset"
      BY <1>2, <1>7 DEF WireFits, Resets
    <2>7. ASSUME NEW i \in 1 .. m + 1
          PROVE  CursorBefore(v, i) = CursorBefore(w, i)
      <3>1. i # 1 => i - 1 \in 1 .. m
        BY <1>2
      <3> QED
        BY <2>2, <2>4, <3>1 DEF CursorBefore
    <2>8. m + 1 \in 1 .. m + 1 /\ \A i \in 1 .. m : i \in 1 .. m + 1
      BY <1>2
    <2>9. CursorBefore(w, m + 1) < h.next
      <3>1. m # 0 => m \in 1 .. m /\ m + 1 # 1 /\ (m + 1) - 1 = m
        BY <1>2
      <3>2. m = 0 => m + 1 = 1
        OBVIOUS
      <3> QED
        BY <1>5, <2>6, <3>1, <3>2 DEF CursorBefore
    <2>10. \A d \in h.durable : d <= CursorBefore(w, m + 1)
      BY <1>7 DEF WireFits
    <2>11. CursorBefore(w, m + 1) \in Nat
      <3>1. m # 0 => m \in 1 .. m /\ m + 1 # 1 /\ (m + 1) - 1 = m
        BY <1>2
      <3>2. m = 0 => m + 1 = 1
        OBVIOUS
      <3> QED
        BY <1>1, <1>3, <3>1, <3>2 DEF CursorBefore
    <2>12. ASSUME NEW i \in 1 .. m, w.queue[i].type = "finalize", sent.type = "update"
           PROVE  w.queue[i].entry # sent.entry
      <3>1. PICK k \in Message : About(a, w.queue[i], k) /\ Completed(k) <= a.cursor
        BY <1>5, <2>6, <2>12 DEF Tells
      <3>2. sent.entry # a.entry[k]
        BY <2>12, <3>1, UpdateIsEarlier
      <3> QED
        BY <3>1, <3>2 DEF About
    <2>13. ASSUME NEW i \in 1 .. m + 1
           PROVE  IF longer[i].type = "reset" THEN Resets(g, v)
                  ELSE /\ CursorBefore(v, i) < longer[i].cursor /\ longer[i].cursor < g.next
                       /\ Tells(a, longer[i])
                       /\ \A d \in g.durable : ~ (CursorBefore(v, i) < d /\ d < longer[i].cursor)
                       /\ \A j \in 1 .. m + 1 :
                            i < j /\ longer[i].type = "finalize" /\ longer[j].type = "update" =>
                              longer[i].entry # longer[j].entry
      <3>1. CASE i = m + 1
        <4>1. longer[i] = sent /\ sent.cursor = h.next /\ sent.type # "reset" /\ Tells(a, sent)
          BY <2>2, <3>1 DEF News
        <4>2. CursorBefore(v, i) < h.next /\ h.next < g.next
          BY <1>1, <2>7, <2>9, <3>1
        <4>3. \A d \in g.durable : ~ (CursorBefore(v, i) < d /\ d < h.next)
          <5> SUFFICES ASSUME NEW d \in h.durable, CursorBefore(v, i) < d PROVE FALSE
            BY <1>1, <1>4
          <5>1. d \in Nat /\ d <= CursorBefore(w, m + 1) /\ CursorBefore(v, i) = CursorBefore(w, m + 1)
            BY <1>1, <2>7, <2>10, <3>1
          <5> QED
            BY <2>11, <5>1
        <4>4. \A j \in 1 .. m + 1 : ~ (i < j)
          BY <1>2, <3>1
        <4> QED
          BY <4>1, <4>2, <4>3, <4>4
      <3>2. CASE i \in 1 .. m
        <4>1. longer[i] = w.queue[i] /\ w.queue[i].type # "reset" /\ CursorBefore(v, i) = CursorBefore(w, i)
          BY <2>2, <2>6, <2>7, <3>2
        <4>2. ASSUME NEW j \in 1 .. m + 1, i < j, longer[i].type = "finalize", longer[j].type = "update"
              PROVE  longer[i].entry # longer[j].entry
          <5>1. CASE j = m + 1
            BY <2>2, <2>12, <3>2, <4>1, <4>2, <5>1
          <5>2. CASE j \in 1 .. m
            BY <1>5, <2>2, <3>2, <4>1, <4>2, <5>2
          <5> QED
            BY <1>2, <5>1, <5>2
        <4> QED
          BY <1>5, <3>2, <4>1, <4>2
      <3> QED
        BY <1>2, <3>1, <3>2
    <2>14. \A d \in g.durable : d <= CursorBefore(v, Len(v.queue) + 1)
      <3>1. CursorBefore(v, Len(v.queue) + 1) = h.next
        <4>1. m + 1 + 1 # 1 /\ (m + 1 + 1) - 1 = m + 1
          BY <1>2
        <4> QED
          BY <2>2, <2>4, <4>1 DEF CursorBefore, News
      <3>2. \A d \in h.durable : d <= h.next
        BY <1>1
      <3> QED
        BY <1>1, <1>4, <3>1, <3>2
    <2>15. WireFits(a, g, v)
      BY <2>2, <2>4, <2>5, <2>13, <2>14 DEF WireFits
    <2> QED
      BY <2>1, <2>15
  <1> QED
    BY <1>2, <1>6, <1>7 DEF WireType

\* The view agrees with the hub and the response when the hub has sent an envelope.
LEMMA SentAgrees ==
  ASSUME NEW a \in AdapterType, NEW n, EntriesFit(a, n), a.cursor # LastSeq,
         NEW h, NEW w, Agree(a, h, w), NEW sent, News(a, h, sent), DeliveryTypeOK
  PROVE  LET g == Retain([h EXCEPT !.next = @ + 1], sent)
         IN  Agree(a, g, WriteClient(w, sent)) /\ g.next = h.next + 1
  <1> DEFINE g == Retain([h EXCEPT !.next = @ + 1], sent)
             v == WriteClient(w, sent)
  <1>1. /\ h.next \in Nat /\ source \in SourceType /\ source.cursor < h.next
        /\ source.cursor \in Nat /\ view \in ViewType
        /\ HubFits(a, h) /\ WireFits(a, h, w) /\ TranscriptFits(a, w) /\ ViewFits(a, h)
        /\ \A r \in DOMAIN requests : SnapshotFits(a, h, r)
    BY DEF Agree, HubFits, HubType, ViewFits, DeliveryTypeOK, SourceType
  <1>2. HubFits(a, g) /\ g.next = h.next + 1 /\ g.durable \subseteq h.durable \cup {h.next}
    BY <1>1, RetainFits DEF News
  <1> HIDE DEF g
  <1>3. WireFits(a, g, v)
    BY <1>1, <1>2, WriteFits
  <1>4. ASSUME NEW i \in DOMAIN view.transcript
        PROVE  EntryFits(a, v, view.transcript[i])
    <2> DEFINE e == view.transcript[i]
    <2>1. e \in EntryType /\ EntryFits(a, w, e)
      BY <1>1, LenProperties, ElementOfSeq DEF TranscriptFits, ViewType
    <2> HIDE DEF e
    <2>2. ASSUME ~ e.live, e.id # NoId, NEW j \in DOMAIN v.queue, v.queue[j].type = "update"
          PROVE  v.queue[j].entry # e.id
      <3>1. /\ Completed(e.message) <= a.cursor /\ e.id = a.entry[e.message] /\ e.message \in Message
            /\ \A l \in DOMAIN w.queue : w.queue[l].type = "update" => w.queue[l].entry # e.id
        BY <2>1, <2>2 DEF EntryFits, EntryType
      <3>2. sent.type = "update" => sent.entry # e.id
        BY <3>1, UpdateIsEarlier
      <3>3. /\ w.queue \in Seq(EnvelopeType) /\ sent \in EnvelopeType /\ Len(w.queue) \in Nat
            /\ DOMAIN w.queue = 1 .. Len(w.queue)
        BY <1>1, LenProperties DEF WireFits, WireType, News
      <3>4. v.queue = w.queue \/ v.queue = Append(w.queue, sent)
        BY DEF WriteClient
      <3>5. CASE v.queue = w.queue
        BY <2>2, <3>1, <3>5
      <3>6. CASE v.queue = Append(w.queue, sent)
        <4> DEFINE longer == Append(w.queue, sent)
        <4>1. /\ DOMAIN longer = 1 .. Len(w.queue) + 1
              /\ \A l \in 1 .. Len(w.queue) : longer[l] = w.queue[l]
              /\ longer[Len(w.queue) + 1] = sent
          BY <3>3, AppendProperties, LenProperties
        <4> HIDE DEF longer
        <4>2. j \in 1 .. Len(w.queue) \/ j = Len(w.queue) + 1
          BY <2>2, <3>3, <3>6, <4>1 DEF longer
        <4> QED
          BY <2>2, <3>1, <3>2, <3>3, <3>6, <4>1, <4>2 DEF longer
      <3> QED
        BY <3>4, <3>5, <3>6
    <2> QED
      BY <2>1, <2>2 DEF EntryFits, e
  <1>5. TranscriptFits(a, v)
    BY <1>1, <1>4 DEF TranscriptFits
  <1>6. ViewFits(a, g)
    <2>1. view.lastCursor \in Nat
      BY <1>1 DEF ViewType
    <2> QED
      BY <1>1, <1>2, <2>1 DEF ViewFits
  <1>7. ASSUME NEW r \in DOMAIN requests
        PROVE  SnapshotFits(a, g, r)
    <2>1. requests[r].snapshot.cursor \in 0 .. h.next - 1 => requests[r].snapshot.cursor \in 0 .. g.next - 1
      BY <1>1, <1>2
    <2> QED
      BY <1>1, <2>1 DEF SnapshotFits
  <1> HIDE DEF v
  <1>8. Agree(a, g, v) /\ g.next = h.next + 1
    BY <1>2, <1>3, <1>5, <1>6, <1>7 DEF Agree
  <1> QED
    BY <1>8 DEF g, v

\* The state of the feed while the adapter drains its buffer.
Feed(a, h, w) == [adapter |-> a, hub |-> h, wire |-> w]
FeedState == [adapter : AdapterType, hub : HubType, wire : WireType]
FeedFits(s) ==
  /\ s \in FeedState
  /\ AdapterFits(s.adapter) /\ EntriesFit(s.adapter, s.hub.next)
  /\ 1 <= s.hub.next
  /\ Agree(s.adapter, s.hub, s.wire)

\* An envelope as it is sent.
Sent(env, c) == [env EXCEPT !.cursor = c]
LEMMA SentEnvelope ==
  ASSUME NEW type \in Kind, NEW entry \in Nat, NEW text \in Text, NEW start \in Nat \cup {Replaces},
         NEW c \in Nat
  PROVE  LET sent == Sent(Envelope(type, entry, text, start), c)
         IN  /\ sent \in EnvelopeType
             /\ sent.type = type /\ sent.entry = entry /\ sent.text = text /\ sent.start = start
             /\ sent.cursor = c
  BY DEF Envelope, EnvelopeType, Sent

\* What emit leaves.
LEMMA EmitFits ==
  ASSUME NEW b \in AdapterType, b.cursor # LastSeq, NEW h, NEW w, Agree(b, h, w),
         AdapterFits(b), h.next \in Nat, NEW n, EntriesFit(b, n), n = h.next + 1,
         NEW env, News(b, h, Sent(env, h.next)), DeliveryTypeOK
  PROVE  FeedFits(Emit(Feed(b, h, w), env)) /\ Emit(Feed(b, h, w), env).adapter = b
  <1> DEFINE s == Feed(b, h, w)
             sent == Sent(env, h.next)
             g == Retain([h EXCEPT !.next = @ + 1], sent)
             v == WriteClient(w, sent)
  <1>1. s.adapter = b /\ s.hub = h /\ s.wire = w /\ s = [adapter |-> b, hub |-> h, wire |-> w]
    BY DEF Feed
  <1> HIDE DEF s
  <1>2. Emit(s, env) = [adapter |-> b, hub |-> g, wire |-> v]
    <2> DEFINE G(hub1, sent1) == Retain([hub1 EXCEPT !.next = hub1.next + 1], sent1)
    <2>1. Emit(s, env) = [s EXCEPT !.hub = G(s.hub, Sent(env, s.hub.next)),
                                   !.wire = WriteClient(s.wire, Sent(env, s.hub.next))]
      BY DEF Emit, Sent
    <2>2. G(s.hub, Sent(env, s.hub.next)) = g
      BY <1>1
    <2>3. WriteClient(s.wire, Sent(env, s.hub.next)) = v
      BY <1>1
    <2> HIDE DEF G, g, v
    <2>4. Emit(s, env) = [s EXCEPT !.hub = g, !.wire = v]
      BY <2>1, <2>2, <2>3
    <2> QED
      BY <1>1, <2>4
  <1>3. Agree(b, g, v) /\ g.next = h.next + 1
    BY SentAgrees
  <1> HIDE DEF g, v
  <1>4. g \in HubType /\ v \in WireType
    BY <1>3 DEF Agree, HubFits, WireFits
  <1>5. EntriesFit(b, g.next) /\ 1 <= g.next
    BY <1>3
  <1> QED
    BY <1>2, <1>3, <1>4, <1>5 DEF FeedFits, FeedState, s

\* The text that was sent last is nothing the browser sees.
LEMMA SentTextAgrees ==
  ASSUME NEW a, NEW h, NEW w, Agree(a, h, w), NEW text \in Text
  PROVE  LET g == [h EXCEPT !.sentText = text]
         IN  Agree(a, g, w) /\ g \in HubType /\ g.next = h.next /\ g.sentText = text
  <1> DEFINE g == [h EXCEPT !.sentText = text]
  <1>1. h \in HubType
    BY DEF Agree, HubFits
  <1>2. /\ g \in HubType /\ g.next = h.next /\ g.retained = h.retained
        /\ g.discarded = h.discarded /\ g.durable = h.durable /\ g.sentText = text
    BY <1>1 DEF HubType
  <1> HIDE DEF g
  <1>3. HubFits(a, g)
    BY <1>2 DEF Agree, HubFits
  <1>4. WireFits(a, g, w)
    BY <1>2 DEF Agree, WireFits, Resets
  <1>5. ViewFits(a, g) /\ \A r \in DOMAIN requests : SnapshotFits(a, g, r)
    BY <1>2 DEF Agree, ViewFits, SnapshotFits
  <1>6. Agree(a, g, w)
    BY <1>3, <1>4, <1>5 DEF Agree
  <1> QED
    BY <1>2, <1>6 DEF g

\* The message of an event.
LEMMA MessageOf ==
  ASSUME NEW seq \in 1 .. 2 * N
  PROVE  /\ MessageAt(seq) \in Message
         /\ seq = Started(MessageAt(seq)) \/ seq = Completed(MessageAt(seq))
  BY SizesAssumption DEF MessageAt, Message, Started, Completed

\* A message is known by its start.
LEMMA MessageStarted ==
  ASSUME NEW k \in Message
  PROVE  /\ MessageAt(Started(k)) = k /\ Started(k) \in 1 .. 2 * N - 1 /\ Completed(k) \in 2 .. 2 * N
         /\ Started(k) < Completed(k)
         /\ \A j \in Message : Started(j) = Started(k) => j = k
         /\ \A j \in Message : Started(j) # Completed(k)
  BY SizesAssumption DEF MessageAt, Message, Started, Completed

\* A streamed delta is sent as an update.
LEMMA DeltaFits ==
  ASSUME DeliveryTypeOK, NEW s, FeedFits(s), NEW e \in Event, IsDelta(e), e.seq = s.adapter.cursor,
         NEW k \in Message, e.seq = Started(k)
  PROVE  FeedFits(Project(s, e)) /\ Project(s, e).adapter.cursor = e.seq
  <1> DEFINE a == s.adapter
             h == s.hub
             w == s.wire
             text == a.text[k] \o e.delta
             b == [a EXCEPT !.text[k] = text]
             g == [h EXCEPT !.sentText = text]
             entry == a.entry[k]
             env == IF h.sentText # NoText /\ IsPrefix(h.sentText, text)
                    THEN Envelope("update", entry, SubSeq(text, Len(h.sentText) + 1, Len(text)), Len(h.sentText))
                    ELSE Envelope("update", entry, text, Replaces)
             t == Feed(b, g, w)
  <1>1. /\ s = [adapter |-> a, hub |-> h, wire |-> w] /\ a \in AdapterType /\ h \in HubType
        /\ AdapterFits(a) /\ EntriesFit(a, h.next) /\ 1 <= h.next /\ Agree(a, h, w)
        /\ h.next \in Nat /\ h.sentText \in Text
    BY DEF FeedFits, FeedState, HubType
  <1>2. a.text[k] \in Text /\ e.delta \in Text /\ entry \in Nat
    BY <1>1 DEF AdapterType, Event
  <1>3. text \in Text /\ Continues(a.text[k], 0, text) /\ Continues(text, 0, text)
    BY <1>2, TextsBegin
  <1> HIDE DEF text
  <1>4. /\ b \in AdapterType /\ b.cursor = a.cursor /\ b.entry = a.entry /\ b.text[k] = text
        /\ \A j \in Message : j # k => b.text[j] = a.text[j]
    BY <1>1, <1>3 DEF AdapterType
  <1>5. g \in HubType /\ g.next = h.next
    BY <1>1, <1>3 DEF HubType
  <1>6. k = MessageAt(e.seq) /\ a.cursor # LastSeq /\ a.cursor \in Nat /\ a.cursor < Completed(k)
        /\ entry # NoEntry
    <2>1. e.seq \in 1 .. 2 * N - 1 /\ e.seq < Completed(k) /\ MessageAt(e.seq) = k
      BY MessageStarted
    <2>2. Started(k) <= a.cursor
      BY <2>1, SizesAssumption
    <2> QED
      BY <1>1, <2>1, <2>2, SizesAssumption DEF LastSeq, AdapterFits
  <1>7. Project(s, e) = Emit(t, env)
    <2>1. Project(s, e) = EmitUpdate([s EXCEPT !.adapter.text[k] = text], entry, text)
      BY <1>6 DEF Project, text
    <2>2. [s EXCEPT !.adapter.text[k] = text] = [adapter |-> b, hub |-> h, wire |-> w]
      BY <1>1
    <2> DEFINE u == Feed(b, h, w)
    <2>3. u.hub = h /\ [u EXCEPT !.hub.sentText = text] = t
      BY <1>1 DEF Feed
    <2> HIDE DEF b, g, t, u
    <2>4. EmitUpdate(u, entry, text) = Emit(t, env)
      BY <2>3 DEF EmitUpdate
    <2> QED
      BY <2>1, <2>2, <2>4 DEF u, Feed
  <1>8. Grows(a, b)
    <2>1. ASSUME NEW j \in Message PROVE Continues(a.text[j], 0, b.text[j])
      <3>1. CASE j = k
        BY <1>3, <1>4, <3>1
      <3>2. CASE j # k
        <4>1. a.text[j] \in Text
          BY <1>1 DEF AdapterType
        <4> QED
          BY <1>4, <3>2, <4>1, TextsBegin
      <3> QED
        BY <3>1, <3>2
    <2> QED
      BY <1>1, <1>4, <1>6, <2>1 DEF Grows
  <1> HIDE DEF b, g
  <1>9. Agree(b, h, w)
    BY <1>1, <1>6, <1>8, GrowthAgrees DEF DeliveryTypeOK
  <1>10. Agree(b, g, w)
    BY <1>3, <1>9, SentTextAgrees DEF g
  <1>11. AdapterFits(b) /\ EntriesFit(b, g.next + 1)
    <2>1. \A j \in Message : a.entry[j] \in Nat
      BY <1>1 DEF AdapterType
    <2>2. \A j \in Message : a.entry[j] < g.next + 1
      BY <1>1, <1>5, <2>1 DEF EntriesFit
    <2> QED
      BY <1>1, <1>4, <2>2 DEF AdapterFits, EntriesFit
  <1>12. News(b, g, Sent(env, g.next))
    <2> DEFINE m == Len(h.sentText)
               rest == SubSeq(text, m + 1, Len(text))
               sent == Sent(env, g.next)
    <2>1. /\ sent \in EnvelopeType /\ sent.type = "update" /\ sent.entry = entry
          /\ sent.cursor = g.next
          /\ Continues(sent.text, IF sent.start = Replaces THEN 0 ELSE sent.start, text)
      <3>1. CASE h.sentText # NoText /\ IsPrefix(h.sentText, text)
        <4>1. Continues(h.sentText, 0, text)
          BY <1>1, <1>3, <3>1, BeginningsArePrefixes
        <4>2. m \in Nat /\ Len(text) \in Nat
          BY <1>1, <1>3, LenProperties DEF Text
        <4>3. m \in 0 .. Len(text)
          BY <4>1, <4>2 DEF Continues
        <4>4. rest \in Text /\ Continues(rest, m, text)
          BY <1>3, <4>3, RestOfText
        <4>5. env = Envelope("update", entry, rest, m)
          BY <3>1
        <4> HIDE DEF rest, m, env
        <4>6. /\ sent \in EnvelopeType /\ sent.type = "update" /\ sent.entry = entry
              /\ sent.cursor = g.next /\ sent.text = rest /\ sent.start = m
          <5>1. /\ "update" \in Kind /\ entry \in Nat /\ rest \in Text /\ m \in Nat \cup {Replaces}
                /\ g.next \in Nat
            BY <1>1, <1>2, <1>5, <4>2, <4>4 DEF Kind
          <5> QED
            BY <4>5, <5>1, SentEnvelope
        <4>7. m # Replaces
          BY <4>2 DEF Replaces
        <4> QED
          BY <4>4, <4>6, <4>7
      <3>2. CASE ~ (h.sentText # NoText /\ IsPrefix(h.sentText, text))
        <4>0. PICK start \in Nat \cup {Replaces} : start = Replaces
          OBVIOUS
        <4>1. env = Envelope("update", entry, text, start)
          BY <3>2, <4>0
        <4> HIDE DEF env
        <4>2. /\ sent \in EnvelopeType /\ sent.type = "update" /\ sent.entry = entry
              /\ sent.cursor = g.next /\ sent.text = text /\ sent.start = start
          <5>1. /\ "update" \in Kind /\ entry \in Nat /\ text \in Text
                /\ start \in Nat \cup {Replaces} /\ g.next \in Nat
            BY <1>1, <1>2, <1>3, <1>5, <4>0 DEF Kind
          <5> QED
            BY <4>1, <5>1, SentEnvelope
        <4> QED
          BY <1>3, <4>0, <4>2
      <3> QED
        BY <3>1, <3>2
    <2> HIDE DEF sent, env
    <2>2. About(b, sent, k)
      BY <1>4, <1>6, <2>1 DEF About
    <2> QED
      BY <1>4, <1>6, <2>1, <2>2 DEF News, Tells, sent
  <1> HIDE DEF t, env
  <1>13. FeedFits(Emit(t, env)) /\ Emit(t, env).adapter = b
    <2>1. b \in AdapterType /\ b.cursor # LastSeq /\ g.next \in Nat
      BY <1>1, <1>4, <1>5, <1>6
    <2> DEFINE n == g.next + 1
    <2>2. EntriesFit(b, n) /\ n = g.next + 1
      BY <1>11
    <2> HIDE DEF n
    <2> QED
      BY <1>10, <1>11, <1>12, <2>1, <2>2, EmitFits DEF t
  <1> QED
    BY <1>4, <1>7, <1>13

\* The end of the turn is projected.
LEMMA TurnEndFits ==
  ASSUME DeliveryTypeOK, NEW s, FeedFits(s), NEW e \in Event, ~ IsDelta(e),
         e.seq = s.adapter.cursor + 1, e.seq = LastSeq, e.seq <= thread.seq
  PROVE  FeedFits(Project(s, e)) /\ Project(s, e).adapter.cursor = e.seq
  <1> DEFINE a == s.adapter
             b == [a EXCEPT !.cursor = e.seq]
  <1>1. /\ s = Feed(a, s.hub, s.wire) /\ a \in AdapterType /\ s.hub \in HubType /\ s.wire \in WireType
        /\ AdapterFits(a) /\ EntriesFit(a, s.hub.next) /\ 1 <= s.hub.next /\ Agree(a, s.hub, s.wire)
        /\ a.cursor \in Nat /\ e.seq \in Nat
    BY DEF FeedFits, FeedState, Feed, AdapterType, Event
  <1>2. /\ b \in AdapterType /\ b.cursor = e.seq /\ b.entry = a.entry /\ b.text = a.text
    BY <1>1 DEF AdapterType
  <1>3. Project(s, e) = Feed(b, s.hub, s.wire)
    <2>1. Project(s, e) = [s EXCEPT !.adapter.cursor = e.seq]
      BY DEF Project
    <2> QED
      BY <1>1, <2>1 DEF Feed
  <1>4. a.cursor # LastSeq /\ a.cursor <= e.seq
    BY <1>1
  <1>5. \A j \in Message : a.text[j] \in Text
    BY <1>1 DEF AdapterType
  <1>6. \A j \in Message : Continues(a.text[j], 0, a.text[j])
    BY <1>5, TextsBegin
  <1>7. Grows(a, b)
    BY <1>1, <1>2, <1>4, <1>6 DEF Grows
  <1> HIDE DEF b
  <1>8. Agree(b, s.hub, s.wire)
    BY <1>1, <1>4, <1>7, GrowthAgrees DEF DeliveryTypeOK
  <1>9. AdapterFits(b)
    <2>1. ASSUME NEW j \in Message PROVE Started(j) <= a.cursor /\ Started(j) <= b.cursor
      <3>1. Started(j) \in 1 .. 2 * N - 1
        BY MessageStarted
      <3> QED
        BY <1>1, <1>2, <3>1, SizesAssumption DEF LastSeq
    <2> QED
      BY <1>1, <1>2, <2>1 DEF AdapterFits
  <1>10. EntriesFit(b, s.hub.next)
    BY <1>1, <1>2 DEF EntriesFit
  <1>11. Feed(b, s.hub, s.wire) \in FeedState
    BY <1>1, <1>2 DEF Feed, FeedState
  <1> DEFINE t == Feed(b, s.hub, s.wire)
  <1>12. t.adapter = b /\ t.hub = s.hub /\ t.wire = s.wire
    BY DEF Feed
  <1> QED
    BY <1>1, <1>2, <1>3, <1>8, <1>9, <1>10, <1>11, <1>12 DEF FeedFits

\* The start of a message is sent as an entry of the transcript.
LEMMA StartFits ==
  ASSUME DeliveryTypeOK, NEW s, FeedFits(s), NEW e \in Event, ~ IsDelta(e),
         e.seq = s.adapter.cursor + 1, e.seq <= thread.seq,
         NEW k \in Message, k = MessageAt(e.seq), e.seq = Started(k)
  PROVE  FeedFits(Project(s, e)) /\ Project(s, e).adapter.cursor = e.seq
  <1> DEFINE a == s.adapter
             h == s.hub
             c == e.seq
             next == h.next
             b == [a EXCEPT !.cursor = c, !.entry[k] = next]
             env == [Envelope("append", next, << >>, Replaces) EXCEPT !.message = k]
             sent == Sent(env, next)
  <1>1. /\ s = Feed(a, h, s.wire) /\ a \in AdapterType /\ h \in HubType
        /\ AdapterFits(a) /\ EntriesFit(a, next) /\ 1 <= next /\ Agree(a, h, s.wire)
        /\ a.cursor \in Nat /\ c \in Nat /\ next \in Nat /\ next # NoEntry
    BY DEF FeedFits, FeedState, Feed, AdapterType, Event, HubType, NoEntry
  <1>2. /\ c \in 1 .. 2 * N - 1 /\ c # LastSeq /\ a.cursor # LastSeq /\ a.cursor <= c
        /\ k \in Nat
    <2>1. c \in 1 .. 2 * N - 1
      BY MessageStarted
    <2> QED
      BY <1>1, <2>1, SizesAssumption DEF LastSeq, Message
  <1>3. Project(s, e) = Emit(Feed(b, h, s.wire), env)
    <2>1. Project(s, e) = Emit([s EXCEPT !.adapter.cursor = c, !.adapter.entry[k] = next], env)
      BY <1>2 DEF Project
    <2>2. [s EXCEPT !.adapter.cursor = c, !.adapter.entry[k] = next] = Feed(b, h, s.wire)
      <3>1. [s EXCEPT !.adapter.cursor = c] = Feed([a EXCEPT !.cursor = c], h, s.wire)
        BY <1>1 DEF Feed
      <3> DEFINE d == [a EXCEPT !.cursor = c]
                 t == Feed(d, h, s.wire)
      <3>2. b = [d EXCEPT !.entry[k] = next]
        OBVIOUS
      <3> HIDE DEF d
      <3>3. [t EXCEPT !.adapter.entry[k] = next] = Feed([d EXCEPT !.entry[k] = next], h, s.wire)
        BY DEF Feed
      <3> QED
        BY <3>1, <3>2, <3>3 DEF d
    <2> QED
      BY <2>1, <2>2
  <1>4. /\ b \in AdapterType /\ b.cursor = c /\ b.text = a.text /\ b.entry[k] = next
        /\ \A j \in Message : j # k => b.entry[j] = a.entry[j]
    <2> HIDE DEF next, c
    <2> QED
      BY <1>1 DEF AdapterType
  <1> HIDE DEF b
  <1>5. a.entry[k] = NoEntry
    <2>1. ~ (Started(k) <= a.cursor)
      BY <1>1
    <2> QED
      BY <1>1, <2>1 DEF AdapterFits
  <1>6. Grows(a, b)
    <2>1. \A j \in Message : a.text[j] \in Text
      BY <1>1 DEF AdapterType
    <2>2. \A j \in Message : Continues(a.text[j], 0, a.text[j])
      BY <2>1, TextsBegin
    <2> QED
      BY <1>1, <1>2, <1>4, <1>5, <2>2 DEF Grows
  <1>7. Agree(b, h, s.wire)
    BY <1>1, <1>2, <1>6, GrowthAgrees DEF DeliveryTypeOK
  <1>8. AdapterFits(b)
    <2>1. ASSUME NEW j \in Message PROVE b.entry[j] # NoEntry <=> Started(j) <= c
      <3>1. CASE j = k
        BY <1>1, <1>2, <1>4, <3>1
      <3>2. CASE j # k
        <4>1. Started(j) # Started(k) /\ Started(j) \in Nat
          BY <3>2, MessageStarted, SizesAssumption
        <4>2. Started(j) <= c <=> Started(j) <= a.cursor
          BY <1>1, <4>1
        <4> QED
          BY <1>1, <1>4, <3>2, <4>2 DEF AdapterFits
      <3> QED
        BY <3>1, <3>2
    <2> QED
      BY <1>4, <2>1 DEF AdapterFits
  <1> DEFINE n == next + 1
  <1>9. EntriesFit(b, n)
    <2>1. \A j \in Message : a.entry[j] \in Nat /\ a.entry[j] < next
      BY <1>1 DEF AdapterType, EntriesFit
    <2>2. \A j \in Message : b.entry[j] < n
      BY <1>1, <1>4, <2>1
    <2>3. \A j \in Message : j # k => b.entry[j] # next
      BY <1>1, <1>4, <2>1
    <2> QED
      BY <1>1, <1>4, <2>2, <2>3 DEF EntriesFit
  <1>10. News(b, h, sent)
    <2>1. /\ sent \in EnvelopeType /\ sent.type = "append" /\ sent.entry = next
          /\ sent.cursor = next /\ sent.message = k
      <3> DEFINE none == << >>
      <3>1. none \in Text
        BY EmptySeq DEF Text
      <3>2. env = [Envelope("append", next, none, Replaces) EXCEPT !.message = k]
        OBVIOUS
      <3> HIDE DEF none, env, next
      <3> QED
        BY <1>1, <1>2, <3>1, <3>2 DEF Envelope, EnvelopeType, Sent, Kind
    <2> HIDE DEF sent
    <2> QED
      BY <1>1, <1>4, <2>1 DEF News, Tells, About
  <1> HIDE DEF env, n
  <1>11. FeedFits(Emit(Feed(b, h, s.wire), env)) /\ Emit(Feed(b, h, s.wire), env).adapter = b
    <2>1. b \in AdapterType /\ b.cursor # LastSeq /\ h.next \in Nat /\ n = h.next + 1
      BY <1>1, <1>2, <1>4 DEF n
    <2> QED
      BY <1>7, <1>8, <1>9, <1>10, <2>1, EmitFits
  <1> QED
    BY <1>3, <1>4, <1>11

\* The end of a message is sent as the end of its entry.
LEMMA FinishFits ==
  ASSUME DeliveryTypeOK, NEW s, FeedFits(s), NEW e \in Event, ~ IsDelta(e),
         e.seq = s.adapter.cursor + 1, e.seq <= thread.seq,
         NEW k \in Message, k = MessageAt(e.seq), e.seq = Completed(k)
  PROVE  FeedFits(Project(s, e)) /\ Project(s, e).adapter.cursor = e.seq
  <1> DEFINE a == s.adapter
             h == s.hub
             c == e.seq
             entry == a.entry[k]
             text == FullText(k)
             b == [a EXCEPT !.cursor = c]
             g == [h EXCEPT !.sentText = NoText]
             env == Envelope("finalize", entry, text, Replaces)
             sent == Sent(env, g.next)
  <1>1. /\ s = Feed(a, h, s.wire) /\ a \in AdapterType /\ h \in HubType
        /\ AdapterFits(a) /\ EntriesFit(a, h.next) /\ 1 <= h.next /\ Agree(a, h, s.wire)
        /\ a.cursor \in Nat /\ c \in Nat /\ h.next \in Nat /\ entry \in Nat
    BY DEF FeedFits, FeedState, Feed, AdapterType, Event, HubType, NoEntry
  <1>2. /\ c \in 2 .. 2 * N /\ c # LastSeq /\ a.cursor # LastSeq /\ a.cursor <= c
        /\ c # Started(k) /\ Started(k) <= a.cursor
    <2>1. c \in 2 .. 2 * N /\ Started(k) < c /\ Started(k) \in Nat
      BY MessageStarted, SizesAssumption
    <2> QED
      BY <1>1, <2>1, SizesAssumption DEF LastSeq
  <1>3. text \in Text /\ NoText \in Text
    BY FullTexts DEF DeliveryTypeOK, NoText, Text
  <1> HIDE DEF text
  <1>4. Project(s, e) = Emit(Feed(b, g, s.wire), env)
    <2>1. Project(s, e) = EmitFinalize([s EXCEPT !.adapter.cursor = c], entry, text)
      BY <1>2 DEF Project, text
    <2> DEFINE t == Feed(b, h, s.wire)
    <2>2. [s EXCEPT !.adapter.cursor = c] = t
      BY <1>1 DEF Feed
    <2>3. [t EXCEPT !.hub.sentText = NoText] = Feed(b, g, s.wire)
      BY DEF Feed
    <2> HIDE DEF t, g
    <2>4. EmitFinalize(t, entry, text) = Emit(Feed(b, g, s.wire), env)
      BY <2>3 DEF EmitFinalize
    <2> QED
      BY <2>1, <2>2, <2>4
  <1>5. b \in AdapterType /\ b.cursor = c /\ b.text = a.text /\ b.entry = a.entry
    <2> HIDE DEF c
    <2> QED
      BY <1>1 DEF AdapterType
  <1> HIDE DEF b
  <1>6. Grows(a, b)
    <2>1. \A j \in Message : a.text[j] \in Text
      BY <1>1 DEF AdapterType
    <2>2. \A j \in Message : Continues(a.text[j], 0, a.text[j])
      BY <2>1, TextsBegin
    <2> QED
      BY <1>1, <1>2, <1>5, <2>2 DEF Grows
  <1>7. Agree(b, g, s.wire) /\ g.next = h.next
    <2>1. Agree(b, h, s.wire)
      BY <1>1, <1>2, <1>6, GrowthAgrees DEF DeliveryTypeOK
    <2> QED
      BY <1>3, <2>1, SentTextAgrees
  <1> HIDE DEF g
  <1>8. AdapterFits(b)
    <2>1. ASSUME NEW j \in Message PROVE Started(j) <= c <=> Started(j) <= a.cursor
      <3>1. Started(j) # c /\ Started(j) \in Nat
        BY MessageStarted, SizesAssumption
      <3> QED
        BY <1>1, <3>1
    <2> QED
      BY <1>1, <1>5, <2>1 DEF AdapterFits
  <1> DEFINE n == g.next + 1
  <1>9. EntriesFit(b, n)
    <2>1. \A j \in Message : a.entry[j] \in Nat /\ a.entry[j] < h.next
      BY <1>1 DEF AdapterType, EntriesFit
    <2>2. \A j \in Message : b.entry[j] < n
      BY <1>1, <1>5, <1>7, <2>1
    <2> QED
      BY <1>1, <1>5, <2>2 DEF EntriesFit
  <1>10. News(b, g, sent)
    <2>1. /\ sent \in EnvelopeType /\ sent.type = "finalize" /\ sent.entry = entry
          /\ sent.cursor = g.next /\ sent.text = text
      <3>1. /\ "finalize" \in Kind /\ Replaces \in Nat \cup {Replaces} /\ g.next \in Nat
            /\ entry \in Nat /\ text \in Text
        BY <1>1, <1>3, <1>7 DEF Kind
      <3>2. env = Envelope("finalize", entry, text, Replaces)
        OBVIOUS
      <3> HIDE DEF entry, env
      <3>3. /\ sent \in EnvelopeType /\ sent.type = "finalize" /\ sent.entry = entry
            /\ sent.cursor = g.next /\ sent.text = text /\ sent.start = Replaces
        BY <3>1, <3>2 DEF Envelope, EnvelopeType, Sent
      <3> QED
        BY <3>3
    <2> HIDE DEF sent
    <2>2. About(b, sent, k)
      BY <1>1, <1>2, <1>5, <2>1 DEF About, AdapterFits
    <2>3. ASSUME NEW r \in DOMAIN requests, requests[r].state = "served"
          PROVE  ~ (sent.cursor <= requests[r].snapshot.cursor)
      <3>1. requests[r].snapshot.cursor \in 0 .. g.next - 1
        BY <1>7, <2>3 DEF Agree, SnapshotFits
      <3> QED
        BY <1>1, <1>7, <2>1, <3>1
    <2>4. Completed(k) <= b.cursor
      BY <1>1, <1>5
    <2> QED
      BY <2>1, <2>2, <2>3, <2>4 DEF News, Tells, text
  <1> HIDE DEF env, n
  <1>11. FeedFits(Emit(Feed(b, g, s.wire), env)) /\ Emit(Feed(b, g, s.wire), env).adapter = b
    <2>1. b \in AdapterType /\ b.cursor # LastSeq /\ g.next \in Nat /\ n = g.next + 1
      BY <1>1, <1>2, <1>5, <1>7 DEF n
    <2> QED
      BY <1>7, <1>8, <1>9, <1>10, <2>1, EmitFits
  <1> QED
    BY <1>4, <1>5, <1>11

\* The adapter projects an event that follows its cursor.
LEMMA ProjectFits ==
  ASSUME DeliveryTypeOK, NEW s, FeedFits(s), NEW e \in Event,
         e.seq = s.adapter.cursor + (IF IsDelta(e) THEN 0 ELSE 1), e.seq <= thread.seq,
         IsDelta(e) => \E k \in Message : e.seq = Started(k)
  PROVE  FeedFits(Project(s, e)) /\ Project(s, e).adapter.cursor = e.seq
  <1>1. s.adapter.cursor \in Nat /\ e.seq \in Nat /\ thread.seq \in 0 .. LastSeq
    BY DEF FeedFits, FeedState, AdapterType, Event, DeliveryTypeOK, ThreadType
  <1>2. CASE IsDelta(e)
    <2>1. PICK k \in Message : e.seq = Started(k)
      BY <1>2
    <2>2. e.seq = s.adapter.cursor
      BY <1>1, <1>2
    <2> QED
      BY <1>2, <2>1, <2>2, DeltaFits
  <1>3. CASE ~ IsDelta(e) /\ e.seq = LastSeq
    <2>1. e.seq = s.adapter.cursor + 1
      BY <1>3
    <2> QED
      BY <1>3, <2>1, TurnEndFits
  <1>4. CASE ~ IsDelta(e) /\ e.seq # LastSeq
    <2>1. e.seq = s.adapter.cursor + 1
      BY <1>4
    <2>2. e.seq \in 1 .. 2 * N
      BY <1>1, <1>4, <2>1, SizesAssumption DEF LastSeq
    <2> DEFINE k == MessageAt(e.seq)
    <2>3. k \in Message /\ (e.seq = Started(k) \/ e.seq = Completed(k))
      BY <2>2, MessageOf
    <2> QED
      BY <1>4, <2>1, <2>3, StartFits, FinishFits
  <1> QED
    BY <1>2, <1>3, <1>4

\* The adapter projects what follows its cursor, event by event.
LEMMA ProjectAllFits ==
  ASSUME DeliveryTypeOK, NEW s, FeedFits(s), NEW events, Buffered(s.adapter.cursor, events, thread.seq)
  PROVE  FeedFits(ProjectAll(s, events)) /\ ProjectAll(s, events).adapter.cursor = thread.seq
  <1> DEFINE c == s.adapter.cursor
             n == Len(events)
             At(i) == CursorAt(c, events, i + 1)
  <1>1. /\ events \in Seq(Event) /\ n \in Nat /\ DOMAIN events = 1 .. n
        /\ thread.seq \in Nat /\ c \in Nat
    BY LenProperties DEF Buffered, DeliveryTypeOK, ThreadType, LastSeq, FeedFits, FeedState, AdapterType
  <1>2. PICK run : /\ run[0] = s
                   /\ \A i \in 1 .. n : run[i] = Project(run[i - 1], events[i])
                   /\ ProjectAll(s, events) = run[n]
    <2>1. n \in Nat /\ DOMAIN events = 1 .. n
      BY <1>1
    <2> HIDE DEF n
    <2> QED
      BY <2>1, ProjectRuns
  <1>3. \A i \in 1 .. n : events[i] \in Event /\ events[i].seq \in Nat
    <2> SUFFICES ASSUME NEW i \in 1 .. n PROVE events[i] \in Event
      BY DEF Event
    <2> QED
      BY <1>1, ElementOfSeq
  <1>4. At(0) = c /\ At(n) = thread.seq /\ \A i \in 1 .. n : At(i) = events[i].seq
    <2>1. \A i \in 1 .. n : i + 1 # 1 /\ (i + 1) - 1 = i
      OBVIOUS
    <2>2. 0 + 1 = 1
      OBVIOUS
    <2> QED
      BY <1>1, <2>1, <2>2 DEF CursorAt, Buffered
  <1>5. \A i \in 1 .. n : events[i].seq = At(i - 1) + (IF IsDelta(events[i]) THEN 0 ELSE 1)
    <2>1. \A i \in 1 .. n : (i - 1) + 1 = i
      OBVIOUS
    <2> QED
      BY <1>1, <2>1 DEF Buffered, Follow
  <1> HIDE DEF At
  <1>6. \A i \in 0 .. n : At(i) \in Nat
    <2> SUFFICES ASSUME NEW i \in 0 .. n PROVE At(i) \in Nat
      OBVIOUS
    <2>1. i = 0 \/ i \in 1 .. n
      BY <1>1
    <2> QED
      BY <1>1, <1>3, <1>4, <2>1
  <1>7. \A i \in 0 .. n : At(i) <= thread.seq
    <2> DEFINE S == {i \in 0 .. n : At(n - i) <= thread.seq}
    <2>1. 0 \in S
      <3>1. n - 0 = n /\ 0 \in 0 .. n
        BY <1>1
      <3> QED
        BY <1>1, <1>4, <3>1
    <2>2. ASSUME NEW i \in 0 .. n - 1, i \in S
          PROVE  i + 1 \in S
      <3>1. n - i \in 1 .. n /\ (n - i) - 1 = n - (i + 1) /\ i + 1 \in 0 .. n /\ n - (i + 1) \in 0 .. n
        BY <1>1
      <3>2. events[n - i].seq = At(n - (i + 1)) + (IF IsDelta(events[n - i]) THEN 0 ELSE 1)
        BY <1>5, <3>1
      <3>3. At(n - i) = events[n - i].seq /\ At(n - i) <= thread.seq
        BY <1>4, <2>2, <3>1
      <3>4. At(n - (i + 1)) <= thread.seq
        BY <1>1, <1>3, <1>6, <3>1, <3>2, <3>3
      <3> QED
        BY <3>1, <3>4
    <2> HIDE DEF S
    <2>3. \A i \in 0 .. n : i \in S
      BY <1>1, <2>1, <2>2, FirstNumbers
    <2> SUFFICES ASSUME NEW i \in 0 .. n PROVE At(i) <= thread.seq
      OBVIOUS
    <2>4. n - i \in 0 .. n /\ n - (n - i) = i
      BY <1>1
    <2> QED
      BY <2>3, <2>4 DEF S
  <1> DEFINE Good(i) == FeedFits(run[i]) /\ run[i].adapter.cursor = At(i)
             S == {i \in 0 .. n : Good(i)}
  <1>8. 0 \in S
    BY <1>1, <1>2, <1>4
  <1>9. ASSUME NEW i \in 0 .. n - 1, i \in S
        PROVE  i + 1 \in S
    <2>1. i + 1 \in 1 .. n /\ i + 1 \in 0 .. n /\ (i + 1) - 1 = i
      BY <1>1
    <2> DEFINE e == events[i + 1]
    <2>2. e \in Event /\ e.seq = At(i) + (IF IsDelta(e) THEN 0 ELSE 1) /\ e.seq = At(i + 1)
      BY <1>3, <1>4, <1>5, <2>1
    <2>3. IsDelta(e) => \E k \in Message : e.seq = Started(k)
      BY <1>1, <2>1 DEF Buffered
    <2>4. FeedFits(run[i]) /\ run[i].adapter.cursor = At(i)
      BY <1>9
    <2>5. run[i + 1] = Project(run[i], e)
      BY <1>2, <2>1
    <2>6. e.seq <= thread.seq
      BY <1>7, <2>1, <2>2
    <2> HIDE DEF e
    <2>7. FeedFits(Project(run[i], e)) /\ Project(run[i], e).adapter.cursor = e.seq
      <3>1. e.seq = run[i].adapter.cursor + (IF IsDelta(e) THEN 0 ELSE 1)
        BY <2>2, <2>4
      <3> QED
        BY <2>2, <2>3, <2>4, <2>6, <3>1, ProjectFits
    <2> QED
      BY <2>1, <2>2, <2>5, <2>7
  <1> HIDE DEF S
  <1>10. n \in S
    <2>1. n \in 0 .. n
      BY <1>1
    <2> QED
      BY <1>1, <1>8, <1>9, <2>1, FirstNumbers
  <1> QED
    BY <1>2, <1>4, <1>10 DEF S
-----------------------------------------------------------------------------
(* The steps of the feed keep the invariant.                               *)

\* The Thread goes on: the text of a message that has ended stays.
ThreadGrows ==
  /\ thread.seq \in 0 .. LastSeq /\ thread'.seq \in 0 .. LastSeq /\ thread.seq <= thread'.seq
  /\ \A k \in Message : Completed(k) <= thread.seq => FullText(k)' = FullText(k)

\* What an envelope tells stays true.
LEMMA TellsStill ==
  ASSUME ThreadGrows, UNCHANGED requests, NEW a \in AdapterType, a.cursor <= thread.seq,
         NEW env, Tells(a, env)
  PROVE  Tells(a, env)'
  <1>1. requests' = requests
    OBVIOUS
  <1>2. \A k \in Message : Completed(k) <= a.cursor => FullText(k)' = FullText(k)
    BY SizesAssumption DEF ThreadGrows, AdapterType, Completed, Message
  <1> QED
    BY <1>1, <1>2 DEF Tells, About

\* The browser agrees with the feed while it does nothing and the Thread goes on.
LEMMA AgreeStill ==
  ASSUME ThreadGrows, UNCHANGED browserVars, NEW a \in AdapterType, a.cursor <= thread.seq,
         view \in ViewType, NEW h, NEW w, Agree(a, h, w)
  PROVE  Agree(a, h, w)'
  <1>1. source' = source /\ view' = view /\ requests' = requests
    BY DEF browserVars
  <1>2. HubFits(a, h)'
    BY <1>1, TellsStill DEF Agree, HubFits
  <1>3. WireFits(a, h, w)'
    BY <1>1, TellsStill DEF Agree, WireFits, Resets, CursorBefore
  <1>4. TranscriptFits(a, w)'
    <2>1. ASSUME NEW i \in DOMAIN view.transcript
          PROVE  EntryFits(a, w, view.transcript[i])'
      <3>0. PICK e : e = view.transcript[i]
        OBVIOUS
      <3>1. e \in EntryType /\ EntryFits(a, w, e)
        BY <3>0, LenProperties, ElementOfSeq DEF Agree, TranscriptFits, ViewType
      <3>2. e.message \in Message
        BY <3>1 DEF EntryType
      <3>3. Completed(e.message) <= thread.seq => Completed(e.message) <= thread'.seq
        BY <3>2, SizesAssumption DEF ThreadGrows, Completed, Message
      <3>4. EntryFits(a, w, e)'
        BY <1>1, <3>1, <3>2, <3>3 DEF EntryFits, ThreadGrows
      <3> QED
        BY <1>1, <3>0, <3>4
    <2> QED
      BY <1>1, <2>1 DEF Agree, TranscriptFits
  <1>5. ViewFits(a, h)'
    <2>1. ASSUME a.cursor = LastSeq, NEW k \in Message PROVE SnapshotEntry(k)' = SnapshotEntry(k)
      <3>1. Completed(k) <= thread.seq
        BY <2>1, SizesAssumption DEF ThreadGrows, LastSeq, Completed, Message
      <3> QED
        BY <3>1 DEF ThreadGrows, SnapshotEntry
    <2> QED
      BY <1>1, <2>1 DEF Agree, ViewFits
  <1>6. \A r \in DOMAIN requests : SnapshotFits(a, h, r)'
    <2>1. \A k \in Message : Completed(k) <= thread.seq => Completed(k) <= thread'.seq
      BY SizesAssumption DEF ThreadGrows, Completed, Message
    <2>2. ASSUME NEW n \in 0 .. N PROVE \A k \in 1 .. n : k \in Message
      BY <2>2, SizesAssumption DEF Message
    <2> QED
      BY <1>1, <2>1, <2>2 DEF Agree, SnapshotFits, Final
  <1> QED
    BY <1>1, <1>2, <1>3, <1>4, <1>5, <1>6 DEF Agree

\* A flush projects what is pending.
LEMMA FlushKeeps ==
  ASSUME DeliveryInvariant, Flush, UNCHANGED browserVars
  PROVE  DeliveryInvariant'
  <1> DEFINE s == Feed(adapter, hub, wire)
             t == ProjectAll(s, Pending)
  <1>1. /\ adapter' = t.adapter /\ hub' = t.hub /\ wire' = t.wire /\ thread' = thread
        /\ buffer' = [items |-> << >>, acked |-> t.adapter.cursor, latest |-> t.adapter.cursor,
                      replay |-> 0]
    BY DEF Flush, Feed
  <1>2. FeedFits(s) /\ s.adapter = adapter
    <2>1. hub \in HubType /\ wire \in WireType /\ adapter \in AdapterType
      BY DEF DeliveryInvariant, Agree, HubFits, WireFits, AdapterFits
    <2> QED
      BY <2>1 DEF DeliveryInvariant, FeedFits, FeedState, Feed
  <1>3. Buffered(adapter.cursor, Pending, thread.seq)
    BY PendingFollows DEF DeliveryInvariant
  <1> HIDE DEF s
  <1>4. FeedFits(t) /\ t.adapter.cursor = thread.seq
    BY <1>2, <1>3, ProjectAllFits DEF DeliveryInvariant
  <1> HIDE DEF t
  <1>5. /\ AdapterFits(adapter') /\ EntriesFit(adapter', hub'.next) /\ 1 <= hub'.next
        /\ Agree(adapter', hub', wire')
    BY <1>1, <1>4 DEF FeedFits
  <1>6. Agree(adapter, hub, wire)'
    <2>1. thread.seq \in 0 .. LastSeq /\ thread.seq <= thread.seq
      BY SizesAssumption DEF DeliveryInvariant, DeliveryTypeOK, ThreadType, LastSeq
    <2>2. ThreadGrows
      BY <1>1, <2>1 DEF ThreadGrows, FullText
    <2>3. adapter' \in AdapterType /\ adapter'.cursor <= thread.seq
      BY <1>5 DEF AdapterFits
    <2>4. view \in ViewType
      BY DEF DeliveryInvariant, DeliveryTypeOK
    <2> QED
      BY <1>5, <2>2, <2>3, <2>4, AgreeStill
  <1>7. AdapterFits(adapter)' /\ EntriesFit(adapter, hub.next)' /\ (1 <= hub.next)'
    BY <1>1, <1>5 DEF AdapterFits, EntriesFit
  <1>8. thread.seq \in Nat
    BY DEF DeliveryInvariant, DeliveryTypeOK, ThreadType, LastSeq
  <1>9. /\ buffer' \in BufferType /\ DOMAIN buffer'.items = {} /\ Len(buffer'.items) = 0
        /\ buffer'.items = << >> /\ buffer'.acked = thread.seq /\ buffer'.latest = thread.seq
        /\ buffer'.replay = 0
    <2> DEFINE none == << >>
    <2>1. none \in Seq(Event) /\ DOMAIN none = {} /\ Len(none) = 0 /\ none = << >>
      BY EmptySeq, NothingIn
    <2>2. buffer' = [items |-> none, acked |-> thread.seq, latest |-> thread.seq, replay |-> 0]
      BY <1>1, <1>4
    <2> HIDE DEF none
    <2> QED
      BY <1>8, <2>1, <2>2 DEF BufferType
  <1>10. BufferFits'
    BY <1>1, <1>9 DEF BufferFits
  <1>11. NoFactIsDropped'
    <2>1. buffer'.acked = adapter'.cursor
      BY <1>1, <1>4, <1>9
    <2>2. 0 + 1 = 1
      OBVIOUS
    <2> QED
      BY <1>1, <1>9, <2>1, <2>2 DEF NoFactIsDropped, Follow, CursorAt
  <1>12. DeliveryTypeOK'
    BY <1>1, <1>9 DEF DeliveryInvariant, DeliveryTypeOK, browserVars
  <1> QED
    BY <1>6, <1>7, <1>10, <1>11, <1>12 DEF DeliveryInvariant

\* A commit appends an event to the Thread, and the hub sends it.
LEMMA CommitKeeps ==
  ASSUME DeliveryInvariant, Commit, UNCHANGED browserVars
  PROVE  DeliveryInvariant'
  <1> DEFINE s == [hub |-> hub, wire |-> wire]
             env == Envelope("thread", NoEntry, << >>, Replaces)
             sent == Sent(env, hub.next)
             g == Retain([hub EXCEPT !.next = @ + 1], sent)
             v == WriteClient(wire, sent)
  <1>1. /\ thread.seq < LastSeq /\ thread' = [thread EXCEPT !.seq = @ + 1] /\ adapter' = adapter
        /\ hub' = Emit(s, env).hub /\ wire' = Emit(s, env).wire
    BY DEF Commit
  <1>2. /\ DeliveryTypeOK /\ adapter \in AdapterType /\ adapter.cursor <= thread.seq
        /\ thread \in ThreadType /\ thread.seq \in 0 .. LastSeq /\ adapter.cursor \in Nat
        /\ Agree(adapter, hub, wire) /\ hub.next \in Nat /\ view \in ViewType
        /\ EntriesFit(adapter, hub.next)
    BY DEF DeliveryInvariant, AdapterFits, AdapterType, DeliveryTypeOK, ThreadType, Agree, HubFits, HubType
  <1>3. hub' = g /\ wire' = v
    <2> DEFINE G(hub1, sent1) == Retain([hub1 EXCEPT !.next = hub1.next + 1], sent1)
    <2>1. Emit(s, env) = [s EXCEPT !.hub = G(s.hub, Sent(env, s.hub.next)),
                                   !.wire = WriteClient(s.wire, Sent(env, s.hub.next))]
      BY DEF Emit, Sent
    <2>2. s.hub = hub /\ s.wire = wire
      OBVIOUS
    <2>3. G(s.hub, Sent(env, s.hub.next)) = g /\ WriteClient(s.wire, Sent(env, s.hub.next)) = v
      BY <2>2
    <2> HIDE DEF G, g, v
    <2>4. Emit(s, env) = [s EXCEPT !.hub = g, !.wire = v]
      BY <2>1, <2>3
    <2> QED
      BY <1>1, <2>4
  <1>4. News(adapter, hub, sent)
    <2>1. sent \in EnvelopeType /\ sent.type = "thread" /\ sent.cursor = hub.next
      <3> DEFINE none == << >>
      <3>1. /\ "thread" \in Kind /\ Replaces \in Nat \cup {Replaces} /\ hub.next \in Nat
            /\ NoEntry \in Nat /\ none \in Text
        BY <1>2, EmptySeq DEF Kind, NoEntry, Text
      <3>2. env = Envelope("thread", NoEntry, none, Replaces)
        OBVIOUS
      <3> HIDE DEF env, none
      <3> QED
        BY <3>1, <3>2 DEF Envelope, EnvelopeType, Sent
    <2> HIDE DEF sent
    <2> QED
      BY <2>1 DEF News, Tells
  <1>5. adapter.cursor # LastSeq
    BY <1>1, <1>2
  <1>6. Agree(adapter, hub', wire') /\ hub'.next = hub.next + 1
    BY <1>2, <1>3, <1>4, <1>5, SentAgrees
  <1>7. /\ thread' \in ThreadType /\ thread'.seq = thread.seq + 1 /\ thread'.chunks = thread.chunks
        /\ thread'.seq \in 0 .. LastSeq
    <2> DEFINE seq == thread.seq + 1
    <2>1. seq \in 0 .. LastSeq
      BY <1>1, <1>2, SizesAssumption DEF LastSeq
    <2>2. thread' = [thread EXCEPT !.seq = seq]
      BY <1>1
    <2> HIDE DEF seq
    <2>3. thread' \in ThreadType /\ thread'.seq = seq /\ thread'.chunks = thread.chunks
      BY <1>2, <2>1, <2>2 DEF ThreadType
    <2> QED
      BY <2>1, <2>3 DEF seq
  <1>8. Agree(adapter, hub, wire)'
    <2>1. ThreadGrows
      BY <1>2, <1>7 DEF ThreadGrows, FullText
    <2> QED
      BY <1>1, <1>2, <1>6, <2>1, AgreeStill
  <1>9. AdapterFits(adapter)' /\ EntriesFit(adapter, hub.next)' /\ (1 <= hub.next)'
    <2>1. \A k \in Message : adapter.entry[k] \in Nat
      BY <1>2 DEF AdapterType
    <2>2. adapter.cursor <= thread'.seq /\ 1 <= hub'.next
      BY <1>2, <1>6, <1>7
    <2>3. \A k \in Message : adapter.entry[k] < hub'.next
      BY <1>2, <1>6, <2>1 DEF EntriesFit
    <2> QED
      BY <1>1, <1>2, <2>2, <2>3 DEF DeliveryInvariant, AdapterFits, EntriesFit
  <1>10. buffer' \in BufferType /\ BufferFits' /\ NoFactIsDropped'
    BY CommitKeepsFacts DEF DeliveryInvariant
  <1>11. DeliveryTypeOK'
    BY <1>2, <1>7, <1>10 DEF DeliveryTypeOK, browserVars
  <1> QED
    BY <1>8, <1>9, <1>10, <1>11 DEF DeliveryInvariant

\* A delta is streamed.
LEMMA StreamKeeps ==
  ASSUME DeliveryInvariant, Stream, UNCHANGED browserVars
  PROVE  DeliveryInvariant'
  <1>1. PICK k \in Streaming : thread' = [thread EXCEPT !.chunks[k] = @ + 1]
    BY DEF Stream
  <1>2. /\ adapter' = adapter /\ hub' = hub /\ wire' = wire
        /\ thread \in ThreadType /\ adapter \in AdapterType /\ adapter.cursor <= thread.seq
        /\ k \in Message /\ thread.seq = Started(k) /\ view \in ViewType /\ DeliveryTypeOK
    BY DEF Stream, Streaming, DeliveryInvariant, DeliveryTypeOK, AdapterFits
  <1>3. /\ thread' \in ThreadType /\ thread'.seq = thread.seq
        /\ \A j \in Message : j # k => thread'.chunks[j] = thread.chunks[j]
    BY <1>1, <1>2 DEF ThreadType
  <1>4. ThreadGrows
    <2>1. \A j \in Message : Completed(j) <= thread.seq => j # k
      BY <1>2, SizesAssumption DEF Started, Completed, Message
    <2>2. thread.seq \in 0 .. LastSeq /\ thread.seq <= thread.seq
      BY <1>2, SizesAssumption DEF ThreadType, LastSeq
    <2> QED
      BY <1>3, <2>1, <2>2 DEF ThreadGrows, FullText
  <1>5. Agree(adapter, hub, wire)'
    BY <1>2, <1>4, AgreeStill DEF DeliveryInvariant
  <1>6. AdapterFits(adapter)' /\ EntriesFit(adapter, hub.next)' /\ (1 <= hub.next)'
    BY <1>2, <1>3 DEF DeliveryInvariant, AdapterFits, EntriesFit
  <1>7. buffer' \in BufferType /\ BufferFits' /\ NoFactIsDropped'
    BY StreamKeepsFacts DEF DeliveryInvariant
  <1>8. DeliveryTypeOK'
    BY <1>2, <1>3, <1>7 DEF DeliveryTypeOK, browserVars
  <1> QED
    BY <1>5, <1>6, <1>7, <1>8 DEF DeliveryInvariant
-----------------------------------------------------------------------------
(* The steps of the browser.                                               *)

\* What two of the properties ask of a step.
Replays ==
  view'.lastCursor > view.lastCursor /\ view'.connection # "replay-required" =>
    hub.durable \cap view.lastCursor + 1 .. view'.lastCursor - 1 = {}
Stays ==
  ~ Forgetful(view) /\ budget'.reloads = budget.reloads => Final(view) \subseteq Final(view')
Kept == DeliveryInvariant' /\ Replays /\ Stays

\* The browser takes a step; the Thread, its adapter and the hub do not.
BrowserStep ==
  /\ UNCHANGED <<thread, buffer, adapter, hub>>
  /\ source' \in SourceType /\ view' \in ViewType /\ requests' \in Seq(RequestType)
  /\ budget' \in Scenario

\* No snapshot is taken.
NoneServed ==
  \A r \in DOMAIN requests' :
    requests'[r].state = "served" => r \in DOMAIN requests /\ requests'[r] = requests[r]

\* What is known when a step is taken.
LEMMA Before ==
  ASSUME DeliveryInvariant
  PROVE  /\ source \in SourceType /\ view \in ViewType /\ requests \in Seq(RequestType)
         /\ budget \in Scenario /\ thread \in ThreadType
         /\ adapter \in AdapterType /\ hub \in HubType /\ wire \in WireType
         /\ adapter.cursor <= thread.seq /\ 1 <= hub.next
         /\ AdapterFits(adapter) /\ EntriesFit(adapter, hub.next)
         /\ HubFits(adapter, hub) /\ WireFits(adapter, hub, wire) /\ TranscriptFits(adapter, wire)
         /\ ViewFits(adapter, hub) /\ \A r \in DOMAIN requests : SnapshotFits(adapter, hub, r)
         /\ view.transcript \in Seq(EntryType)
         /\ \A i \in DOMAIN view.transcript : view.transcript[i] \in EntryType
         /\ wire.queue \in Seq(EnvelopeType)
         /\ \A i \in DOMAIN wire.queue : wire.queue[i] \in EnvelopeType
  <1>1. /\ DeliveryTypeOK /\ AdapterFits(adapter) /\ EntriesFit(adapter, hub.next) /\ 1 <= hub.next
        /\ Agree(adapter, hub, wire)
    BY DEF DeliveryInvariant
  <1>2. /\ source \in SourceType /\ view \in ViewType /\ requests \in Seq(RequestType)
        /\ budget \in Scenario /\ thread \in ThreadType
    BY <1>1 DEF DeliveryTypeOK
  <1>3. /\ HubFits(adapter, hub) /\ WireFits(adapter, hub, wire) /\ TranscriptFits(adapter, wire)
        /\ ViewFits(adapter, hub) /\ \A r \in DOMAIN requests : SnapshotFits(adapter, hub, r)
    BY <1>1 DEF Agree
  <1>4. hub \in HubType /\ wire \in WireType /\ adapter \in AdapterType /\ adapter.cursor <= thread.seq
    BY <1>1, <1>3 DEF HubFits, WireFits, AdapterFits
  <1>5. view.transcript \in Seq(EntryType) /\ wire.queue \in Seq(EnvelopeType)
    BY <1>2, <1>4 DEF ViewType, WireType
  <1>6. \A i \in DOMAIN view.transcript : view.transcript[i] \in EntryType
    BY <1>5, LenProperties, ElementOfSeq
  <1>7. \A i \in DOMAIN wire.queue : wire.queue[i] \in EnvelopeType
    BY <1>5, LenProperties, ElementOfSeq
  <1> QED
    BY <1>1, <1>2, <1>3, <1>4, <1>5, <1>6, <1>7

\* What an envelope tells stays true while no snapshot is taken.
LEMMA TellsQuietly ==
  ASSUME BrowserStep, NoneServed
  PROVE  \A env : Tells(adapter, env) => Tells(adapter, env)'
  <1> SUFFICES ASSUME NEW env, Tells(adapter, env)
               PROVE  Tells(adapter, env)'
    OBVIOUS
  <1>1. thread' = thread /\ adapter' = adapter
    BY DEF BrowserStep
  <1>2. \A k \in Message : FullText(k)' = FullText(k) /\ (About(adapter, env, k)' <=> About(adapter, env, k))
    BY <1>1 DEF FullText, About
  <1>3. env.type = "append" => About(adapter, env, env.message)'
    BY <1>1 DEF Tells, About
  <1> QED
    BY <1>1, <1>2, <1>3 DEF Tells, NoneServed

\* A step of the browser keeps the invariant if the parts that it can disturb are kept.
LEMMA PartsKept ==
  ASSUME DeliveryInvariant, BrowserStep,
         \A env : Tells(adapter, env) => Tells(adapter, env)',
         WireFits(adapter, hub, wire)', TranscriptFits(adapter, wire)', ViewFits(adapter, hub)',
         \A r \in DOMAIN requests' : SnapshotFits(adapter, hub, r)'
  PROVE  DeliveryInvariant'
  <1>1. thread' = thread /\ buffer' = buffer /\ adapter' = adapter /\ hub' = hub
    BY DEF BrowserStep
  <1>2. HubFits(adapter, hub)'
    BY <1>1, Before DEF HubFits
  <1>3. Agree(adapter, hub, wire)'
    BY <1>1, <1>2 DEF Agree
  <1>4. DeliveryTypeOK'
    BY <1>1 DEF DeliveryInvariant, DeliveryTypeOK, BrowserStep
  <1>5. BufferFits' /\ NoFactIsDropped'
    BY <1>1 DEF DeliveryInvariant, BufferFits, NoFactIsDropped
  <1>6. AdapterFits(adapter)' /\ EntriesFit(adapter, hub.next)' /\ (1 <= hub.next)'
    BY <1>1 DEF DeliveryInvariant, AdapterFits, EntriesFit
  <1> QED
    BY <1>3, <1>4, <1>5, <1>6 DEF DeliveryInvariant

\* An entry fits the response while it carries no other updates.
LEMMA EntryKept ==
  ASSUME DeliveryInvariant, BrowserStep, NEW e \in EntryType, EntryFits(adapter, wire, e),
         view.lastCursor <= view'.lastCursor,
         \A j \in DOMAIN wire'.queue : wire'.queue[j].type = "update" =>
           \E i \in DOMAIN wire.queue : wire.queue[i] = wire'.queue[j]
  PROVE  EntryFits(adapter, wire, e)'
  <1>1. thread' = thread /\ adapter' = adapter
    BY DEF BrowserStep
  <1>2. e.id <= view.lastCursor => e.id <= view'.lastCursor
    <2>1. e.id \in Nat /\ view.lastCursor \in Nat /\ view'.lastCursor \in Nat
      BY Before DEF BrowserStep, ViewType, EntryType
    <2> QED
      BY <2>1
  <1> QED
    BY <1>1, <1>2 DEF EntryFits, FullText

\* The transcript fits while it stays, the cursor grows, and no other updates are carried.
LEMMA TranscriptKept ==
  ASSUME DeliveryInvariant, BrowserStep, view'.transcript = view.transcript,
         view.lastCursor <= view'.lastCursor,
         \A j \in DOMAIN wire'.queue : wire'.queue[j].type = "update" =>
           \E i \in DOMAIN wire.queue : wire.queue[i] = wire'.queue[j]
  PROVE  TranscriptFits(adapter, wire)'
  <1>1. ASSUME NEW i \in DOMAIN view.transcript
        PROVE  EntryFits(adapter, wire, view.transcript[i])'
    <2>1. PICK e : e = view.transcript[i]
      OBVIOUS
    <2>2. e \in EntryType /\ EntryFits(adapter, wire, e)
      BY <2>1, Before DEF TranscriptFits
    <2>3. EntryFits(adapter, wire, e)'
      BY <2>2, EntryKept
    <2> QED
      BY <2>1, <2>3
  <1> QED
    BY <1>1, Before DEF TranscriptFits

\* The response fits while nothing about it changes.
LEMMA WireKept ==
  ASSUME DeliveryInvariant, BrowserStep, wire' = wire, source'.cursor = source.cursor,
         view'.lastCursor = view.lastCursor,
         source'.phase \in {"connecting", "open"} \/ source'.phase = source.phase,
         \A env : Tells(adapter, env) => Tells(adapter, env)'
  PROVE  WireFits(adapter, hub, wire)'
  <1>1. hub' = hub
    BY DEF BrowserStep
  <1>2. \A i : CursorBefore(wire, i)' = CursorBefore(wire, i)
    BY DEF CursorBefore
  <1>3. Resets(hub, wire)' <=> Resets(hub, wire)
    BY <1>1 DEF Resets
  <1>4. source'.phase \notin {"connecting", "open"} => wire = [queue |-> << >>, attached |-> FALSE]
    BY Before DEF WireFits
  <1> QED
    BY <1>1, <1>2, <1>3, <1>4, Before DEF WireFits

\* A stream that is closed has no response.
LEMMA NoResponse ==
  ASSUME DeliveryInvariant, BrowserStep, wire' = [queue |-> << >>, attached |-> FALSE]
  PROVE  /\ WireFits(adapter, hub, wire)' /\ DOMAIN wire'.queue = {}
  <1> DEFINE none == << >>
  <1>1. none \in Seq(EnvelopeType) /\ DOMAIN none = {} /\ none = << >>
    BY EmptySeq, NothingIn
  <1>2. wire' = [queue |-> none, attached |-> FALSE]
    OBVIOUS
  <1> HIDE DEF none
  <1>3. wire' \in WireType /\ wire'.queue = none /\ ~ wire'.attached
    BY <1>1, <1>2 DEF WireType
  <1> QED
    BY <1>1, <1>3 DEF WireFits

\* A step that leaves the transcript and the cursor of the view alone.
LEMMA QuietStep ==
  ASSUME DeliveryInvariant, BrowserStep, NoneServed,
         view'.transcript = view.transcript, view'.lastCursor = view.lastCursor,
         view'.lastEvent \in {0, view.lastEvent},
         view'.request \in DOMAIN requests' /\ requests'[view'.request].state = "served" =>
           view'.request = view.request /\ view'.lastEvent = view.lastEvent,
         source'.cursor \in {source.cursor, view.lastCursor} \/ source'.cursor < hub.next,
         view'.connection # "replay-required" /\ source'.phase # "paused" =>
           source'.cursor = view.lastCursor,
         view'.status = "ready" /\ ~ view'.dirty /\ view'.settled =>
           view.status = "ready" /\ ~ view.dirty /\ view.settled /\ view'.snapshotAt = view.snapshotAt,
         WireFits(adapter, hub, wire)',
         \A j \in DOMAIN wire'.queue : wire'.queue[j].type = "update" =>
           \E i \in DOMAIN wire.queue : wire.queue[i] = wire'.queue[j]
  PROVE  Kept
  <1>1. thread' = thread /\ adapter' = adapter /\ hub' = hub
    BY DEF BrowserStep
  <1>2. view.lastCursor \in Nat /\ view.lastEvent \in Nat /\ view.lastCursor <= view.lastCursor
    BY Before DEF ViewType
  <1>3. \A env : Tells(adapter, env) => Tells(adapter, env)'
    BY TellsQuietly
  <1>4. TranscriptFits(adapter, wire)'
    BY <1>2, TranscriptKept
  <1>5. ViewFits(adapter, hub)'
    <2>1. \A k \in Message : SnapshotEntry(k)' = SnapshotEntry(k)
      BY <1>1 DEF SnapshotEntry, FullText
    <2> QED
      BY <1>1, <1>2, <2>1, Before DEF ViewFits
  <1>6. Final(view)' = Final(view)
    BY DEF Final
  <1>7. ASSUME NEW r \in DOMAIN requests' PROVE SnapshotFits(adapter, hub, r)'
    <2> SUFFICES ASSUME requests'[r].state = "served"
                 PROVE  SnapshotFits(adapter, hub, r)'
      BY DEF SnapshotFits
    <2>1. r \in DOMAIN requests /\ requests'[r] = requests[r]
      BY DEF NoneServed
    <2>2. SnapshotFits(adapter, hub, r)
      BY <2>1, Before
    <2> QED
      BY <1>1, <1>6, <2>1, <2>2 DEF SnapshotFits
  <1>8. DeliveryInvariant'
    BY <1>3, <1>4, <1>5, <1>7, PartsKept
  <1> QED
    BY <1>2, <1>6, <1>8 DEF Kept, Replays, Stays, Final

\* What a change of the connection does to the view.
LEMMA ConnectionChanges ==
  ASSUME view \in ViewType, NEW phase \in {"connecting", "live"}
  PROVE  LET v == ConnectionChanged(view, phase)
         IN  /\ v \in ViewType
             /\ v.transcript = view.transcript /\ v.lastCursor = view.lastCursor
             /\ v.lastEvent = view.lastEvent /\ v.request = view.request
             /\ v.snapshotAt = view.snapshotAt /\ v.settled = view.settled /\ v.status = view.status
             /\ view.connection = "replay-required" => v.connection = "replay-required"
             /\ v.dirty = FALSE => view.dirty = FALSE
  <1> DEFINE v == ConnectionChanged(view, phase)
  <1>1. CASE view.connection = "replay-required"
    BY <1>1 DEF ConnectionChanged
  <1>2. CASE view.connection # "replay-required"
    <2> DEFINE dirty == view.dirty \/ phase # "live"
    <2>1. v = [view EXCEPT !.connection = phase, !.dirty = dirty]
      BY <1>2 DEF ConnectionChanged
    <2>2. dirty \in BOOLEAN /\ (dirty = FALSE => view.dirty = FALSE)
      BY DEF ViewType
    <2> HIDE DEF dirty
    <2>3. phase \in Connection
      BY DEF Connection
    <2>4. /\ [view EXCEPT !.connection = phase, !.dirty = dirty] \in ViewType
          /\ [view EXCEPT !.connection = phase, !.dirty = dirty].dirty = dirty
      BY <2>2, <2>3 DEF ViewType
    <2> HIDE DEF v
    <2>5. /\ v.transcript = view.transcript /\ v.lastCursor = view.lastCursor
          /\ v.lastEvent = view.lastEvent /\ v.request = view.request
          /\ v.snapshotAt = view.snapshotAt /\ v.settled = view.settled /\ v.status = view.status
      BY <2>1 DEF ViewType
    <2> QED
      BY <1>2, <2>1, <2>2, <2>4, <2>5 DEF v
  <1> QED
    BY <1>1, <1>2

\* The requests are left alone.
LEMMA RequestsLeft ==
  ASSUME requests' = requests
  PROVE  NoneServed
  BY DEF NoneServed

\* The response is left alone.
LEMMA ResponseLeft ==
  ASSUME wire' = wire
  PROVE  \A j \in DOMAIN wire'.queue : wire'.queue[j].type = "update" =>
           \E i \in DOMAIN wire.queue : wire.queue[i] = wire'.queue[j]
  OBVIOUS

\* The response opens.
LEMMA OpenKeeps ==
  ASSUME DeliveryInvariant, Open
  PROVE  Kept
  <1>1. /\ source.phase = "connecting" /\ source' = [source EXCEPT !.phase = "open"]
        /\ view' = ConnectionChanged(view, "live")
        /\ thread' = thread /\ buffer' = buffer /\ adapter' = adapter /\ hub' = hub /\ wire' = wire
        /\ requests' = requests /\ budget' = budget
    BY DEF Open, feedVars
  <1>2. source \in SourceType /\ view \in ViewType /\ ViewFits(adapter, hub)
    BY Before
  <1>3. source' \in SourceType /\ source'.cursor = source.cursor /\ source'.phase = "open"
    BY <1>1, <1>2 DEF SourceType, Phase
  <1>4. /\ view' \in ViewType
        /\ view'.transcript = view.transcript /\ view'.lastCursor = view.lastCursor
        /\ view'.lastEvent = view.lastEvent /\ view'.request = view.request
        /\ view'.snapshotAt = view.snapshotAt /\ view'.settled = view.settled /\ view'.status = view.status
        /\ view.connection = "replay-required" => view'.connection = "replay-required"
        /\ view'.dirty = FALSE => view.dirty = FALSE
    BY <1>1, <1>2, ConnectionChanges
  <1>5. BrowserStep
    BY <1>1, <1>3, <1>4, Before DEF BrowserStep
  <1>6. NoneServed
    BY <1>1, RequestsLeft
  <1>7. WireFits(adapter, hub, wire)'
    BY <1>1, <1>3, <1>4, <1>5, <1>6, TellsQuietly, WireKept
  <1>8. view'.connection # "replay-required" => source'.cursor = view.lastCursor
    BY <1>1, <1>2, <1>3, <1>4 DEF ViewFits
  <1>9. view'.status = "ready" /\ ~ view'.dirty /\ view'.settled =>
           view.status = "ready" /\ ~ view.dirty /\ view.settled
    BY <1>2, <1>4 DEF ViewType
  <1>10. \A j \in DOMAIN wire'.queue : wire'.queue[j].type = "update" =>
           \E i \in DOMAIN wire.queue : wire.queue[i] = wire'.queue[j]
    BY <1>1, ResponseLeft
  <1> QED
    BY <1>3, <1>4, <1>5, <1>6, <1>7, <1>8, <1>9, <1>10, QuietStep

\* The stream ends or is lost.
LEMMA DisconnectKeeps ==
  ASSUME DeliveryInvariant, Disconnect, source.phase \in {"connecting", "open"}, budget' \in Scenario
  PROVE  Kept
  <1>1. /\ source' = [source EXCEPT !.phase = "closed"]
        /\ view' = ConnectionChanged(view, "connecting")
        /\ thread' = thread /\ buffer' = buffer /\ adapter' = adapter /\ hub' = hub
        /\ requests' = requests
    BY DEF Disconnect
  <1>2. source \in SourceType /\ view \in ViewType /\ ViewFits(adapter, hub)
    BY Before
  <1>3. source' \in SourceType /\ source'.cursor = source.cursor
    BY <1>1, <1>2 DEF SourceType, Phase
  <1>4. /\ view' \in ViewType
        /\ view'.transcript = view.transcript /\ view'.lastCursor = view.lastCursor
        /\ view'.lastEvent = view.lastEvent /\ view'.request = view.request
        /\ view'.snapshotAt = view.snapshotAt /\ view'.settled = view.settled /\ view'.status = view.status
        /\ view.connection = "replay-required" => view'.connection = "replay-required"
        /\ view'.dirty = FALSE => view.dirty = FALSE
    BY <1>1, <1>2, ConnectionChanges
  <1>5. BrowserStep
    BY <1>1, <1>3, <1>4, Before DEF BrowserStep
  <1>6. NoneServed
    BY <1>1, RequestsLeft
  <1>7. WireFits(adapter, hub, wire)' /\ DOMAIN wire'.queue = {}
    <2>1. wire' = [queue |-> << >>, attached |-> FALSE]
      BY DEF Disconnect
    <2> QED
      BY <1>5, <2>1, NoResponse
  <1>8. view'.connection # "replay-required" => source'.cursor = view.lastCursor
    BY <1>1, <1>2, <1>3, <1>4 DEF ViewFits
  <1>9. view'.status = "ready" /\ ~ view'.dirty /\ view'.settled =>
           view.status = "ready" /\ ~ view.dirty /\ view.settled
    BY <1>2, <1>4 DEF ViewType
  <1> QED
    BY <1>3, <1>4, <1>5, <1>6, <1>7, <1>8, <1>9, QuietStep

\* The Host ends the response.
LEMMA StreamEndsKeeps ==
  ASSUME DeliveryInvariant, StreamEnds
  PROVE  Kept
  BY DisconnectKeeps, Before DEF StreamEnds

\* The connection is lost.
LEMMA ConnectionLostKeeps ==
  ASSUME DeliveryInvariant, ConnectionLost
  PROVE  Kept
  <1>1. budget \in Scenario
    BY Before
  <1>2. budget' \in Scenario
    BY <1>1 DEF ConnectionLost, Scenario
  <1> QED
    BY <1>2, DisconnectKeeps DEF ConnectionLost

\* A request is answered, or another one is made: no snapshot is taken.
LEMMA RequestMade ==
  ASSUME requests \in Seq(RequestType), requests' = Append(requests, Request)
  PROVE  /\ requests' \in Seq(RequestType) /\ NoneServed
         /\ Len(requests) + 1 \in DOMAIN requests' /\ requests'[Len(requests) + 1] = Request
         /\ Request.state = "asked" /\ Len(requests) \in Nat
  <1>1. Request \in RequestType /\ Request.state = "asked"
    BY DEF Request, RequestType, NoSnapshot, SnapshotType
  <1>2. /\ requests' \in Seq(RequestType) /\ Len(requests) \in Nat
        /\ DOMAIN requests = 1 .. Len(requests) /\ DOMAIN requests' = 1 .. Len(requests) + 1
        /\ \A i \in 1 .. Len(requests) : requests'[i] = requests[i]
        /\ requests'[Len(requests) + 1] = Request
    BY <1>1, AppendProperties, LenProperties
  <1>3. NoneServed
    <2> SUFFICES ASSUME NEW r \in 1 .. Len(requests) + 1, requests'[r].state = "served"
                 PROVE  r \in 1 .. Len(requests) /\ requests'[r] = requests[r]
      BY <1>2 DEF NoneServed
    <2>1. r # Len(requests) + 1
      BY <1>1, <1>2
    <2> QED
      BY <1>2, <2>1
  <1> QED
    BY <1>1, <1>2, <1>3

\* An answered request is of no use any more; the others are as they were.
LEMMA RequestAnswered ==
  ASSUME requests \in Seq(RequestType), NEW r \in DOMAIN requests, Answered(r)
  PROVE  /\ requests' \in Seq(RequestType) /\ NoneServed
         /\ DOMAIN requests' = DOMAIN requests
         /\ requests'[r].state = "answered"
         /\ \A i \in DOMAIN requests : i # r => requests'[i] = requests[i]
  <1> DEFINE answer == [state |-> "answered", snapshot |-> NoSnapshot]
  <1>1. answer \in RequestType /\ answer.state = "answered"
    BY DEF RequestType, NoSnapshot, SnapshotType
  <1>2. r \in 1 .. Len(requests) /\ requests[r] \in RequestType /\ DOMAIN requests = 1 .. Len(requests)
    BY LenProperties, ElementOfSeq
  <1>4. requests' = [requests EXCEPT ![r] = answer]
    BY DEF Answered
  <1> HIDE DEF answer
  <1>5. requests' \in Seq(RequestType) /\ DOMAIN requests' = DOMAIN requests
    BY <1>1, <1>2, <1>4, ExceptSeq
  <1>6. requests'[r] = answer /\ \A i \in DOMAIN requests : i # r => requests'[i] = requests[i]
    BY <1>4
  <1> QED
    BY <1>1, <1>5, <1>6 DEF NoneServed

\* A request for a snapshot is made for a view that shows what the view shows.
LEMMA AskKeeps ==
  ASSUME DeliveryInvariant, NEW v \in ViewType, Ask(v),
         v.transcript = view.transcript, v.lastCursor = view.lastCursor,
         v.lastEvent \in {0, view.lastEvent},
         thread' = thread, buffer' = buffer, adapter' = adapter, hub' = hub, wire' = wire,
         budget' = budget, source' \in SourceType,
         source'.cursor \in {source.cursor, view.lastCursor},
         v.connection # "replay-required" /\ source'.phase # "paused" =>
           source'.cursor = view.lastCursor,
         source' = source \/ wire = [queue |-> << >>, attached |-> FALSE]
  PROVE  Kept
  <1> DEFINE r == Len(requests) + 1
             status == IF v.loaded THEN "refreshing" ELSE "loading"
  <1>1. requests \in Seq(RequestType)
    BY Before
  <1>2. requests' = Append(requests, Request) /\ view' = StartSnapshot(v, r)
    BY DEF Ask
  <1>3. /\ requests' \in Seq(RequestType) /\ NoneServed
        /\ r \in DOMAIN requests' /\ requests'[r].state = "asked" /\ r \in Nat
    BY <1>1, <1>2, RequestMade
  <1>4. view' = [v EXCEPT !.status = status, !.request = r, !.dirty = FALSE]
    BY <1>2 DEF StartSnapshot
  <1>5. status \in Status /\ status # "ready"
    BY DEF Status
  <1> HIDE DEF r, status
  <1>6. /\ view' \in ViewType /\ view'.status = status /\ view'.request = r
        /\ view'.transcript = view.transcript /\ view'.lastCursor = view.lastCursor
        /\ view'.lastEvent = v.lastEvent /\ view'.connection = v.connection
    BY <1>3, <1>4, <1>5 DEF ViewType
  <1>7. BrowserStep
    BY <1>3, <1>6, Before DEF BrowserStep
  <1>8. WireFits(adapter, hub, wire)'
    <2>1. CASE source' = source
      BY <1>3, <1>6, <1>7, <2>1, TellsQuietly, WireKept
    <2>2. CASE wire = [queue |-> << >>, attached |-> FALSE]
      BY <1>7, <2>2, NoResponse
    <2> QED
      BY <2>1, <2>2
  <1>9. \A j \in DOMAIN wire'.queue : wire'.queue[j].type = "update" =>
           \E i \in DOMAIN wire.queue : wire.queue[i] = wire'.queue[j]
    BY ResponseLeft
  <1> QED
    BY <1>3, <1>5, <1>6, <1>7, <1>8, <1>9, QuietStep

\* The browser asks for a snapshot.
LEMMA AskAnyKeeps ==
  ASSUME DeliveryInvariant, AskWhenDirty \/ AskAgain \/ Retry
  PROVE  Kept
  <1>1. /\ view \in ViewType /\ Ask(view) /\ source' = source /\ budget' = budget
        /\ thread' = thread /\ buffer' = buffer /\ adapter' = adapter /\ hub' = hub /\ wire' = wire
    BY Before DEF AskWhenDirty, AskAgain, Retry, feedVars
  <1>2. source \in SourceType /\ ViewFits(adapter, hub)
    BY Before
  <1> QED
    BY <1>1, <1>2, AskKeeps DEF ViewFits

\* A request fails.
LEMMA FailKeeps ==
  ASSUME DeliveryInvariant, NEW r \in DOMAIN requests, Fail(r)
  PROVE  Kept
  <1>1. /\ Answered(r) /\ source' = source /\ thread' = thread /\ buffer' = buffer
        /\ adapter' = adapter /\ hub' = hub /\ wire' = wire
        /\ view' = IF view.request # r THEN view ELSE [view EXCEPT !.status = "failed", !.dirty = FALSE]
    BY DEF Fail, feedVars
  <1>2. /\ source \in SourceType /\ view \in ViewType /\ ViewFits(adapter, hub)
        /\ requests \in Seq(RequestType) /\ budget \in Scenario
    BY Before
  <1>3. budget' \in Scenario
    BY <1>2 DEF Fail, Scenario
  <1>4. requests' \in Seq(RequestType) /\ NoneServed
    BY <1>1, <1>2, RequestAnswered
  <1>5. /\ view' \in ViewType /\ view'.transcript = view.transcript
        /\ view'.lastCursor = view.lastCursor /\ view'.lastEvent = view.lastEvent
        /\ view'.request = view.request /\ view'.connection = view.connection
        /\ view'.snapshotAt = view.snapshotAt
        /\ view' = view \/ view'.status = "failed"
    BY <1>1, <1>2 DEF ViewType, Status
  <1>6. BrowserStep
    BY <1>1, <1>2, <1>3, <1>4, <1>5 DEF BrowserStep
  <1>7. WireFits(adapter, hub, wire)'
    BY <1>1, <1>4, <1>5, <1>6, TellsQuietly, WireKept
  <1>8. \A j \in DOMAIN wire'.queue : wire'.queue[j].type = "update" =>
           \E i \in DOMAIN wire.queue : wire.queue[i] = wire'.queue[j]
    BY <1>1, ResponseLeft
  <1>9. view'.connection # "replay-required" /\ source'.phase # "paused" =>
           source'.cursor = view.lastCursor
    BY <1>1, <1>2, <1>5 DEF ViewFits
  <1>10. view'.status = "ready" /\ ~ view'.dirty /\ view'.settled =>
           view.status = "ready" /\ ~ view.dirty /\ view.settled
    BY <1>5
  <1> QED
    BY <1>1, <1>4, <1>5, <1>6, <1>7, <1>8, <1>9, <1>10, QuietStep

\* The user recovers the Session: the stream is closed.
LEMMA RecoverKeeps ==
  ASSUME DeliveryInvariant, Recover
  PROVE  Kept
  <1>1. /\ wire' = [queue |-> << >>, attached |-> FALSE]
        /\ source' = [source EXCEPT !.phase = "paused"]
        /\ view' = [view EXCEPT !.connection = "connecting"]
        /\ thread' = thread /\ buffer' = buffer /\ adapter' = adapter /\ hub' = hub
        /\ requests' = requests /\ budget' = budget
    BY DEF Recover
  <1>2. source \in SourceType /\ view \in ViewType /\ requests \in Seq(RequestType) /\ budget \in Scenario
    BY Before
  <1>3. source' \in SourceType /\ source'.cursor = source.cursor /\ source'.phase = "paused"
    BY <1>1, <1>2 DEF SourceType, Phase
  <1>4. /\ view' \in ViewType /\ view'.transcript = view.transcript
        /\ view'.lastCursor = view.lastCursor /\ view'.lastEvent = view.lastEvent
        /\ view'.request = view.request /\ view'.status = view.status /\ view'.dirty = view.dirty
        /\ view'.settled = view.settled /\ view'.snapshotAt = view.snapshotAt
    BY <1>1, <1>2 DEF ViewType, Connection
  <1>5. BrowserStep
    BY <1>1, <1>2, <1>3, <1>4 DEF BrowserStep
  <1>6. NoneServed
    BY <1>1, RequestsLeft
  <1>7. WireFits(adapter, hub, wire)' /\ DOMAIN wire'.queue = {}
    BY <1>1, <1>5, NoResponse
  <1> QED
    BY <1>3, <1>4, <1>5, <1>6, <1>7, QuietStep

\* The stream starts anew behind the last event, with the view as it is or with a baseline.
LEMMA ResumeKeeps ==
  ASSUME DeliveryInvariant, Resume
  PROVE  Kept
  <1> DEFINE status == IF view.loaded THEN "refreshing" ELSE "loading"
             v == [view EXCEPT !.status = status, !.request = NoId, !.dirty = FALSE,
                               !.lastEvent = 0, !.snapshotAt = 0]
  <1>1. /\ source.phase = "paused" /\ source' = [phase |-> "closed", cursor |-> view.lastCursor]
        /\ \/ view' = view /\ requests' = requests
           \/ view' = v /\ requests' = requests
           \/ Ask(v)
        /\ thread' = thread /\ buffer' = buffer /\ adapter' = adapter /\ hub' = hub /\ wire' = wire
        /\ budget' = budget
    BY DEF Resume, feedVars
  <1>2. /\ source \in SourceType /\ view \in ViewType /\ requests \in Seq(RequestType)
        /\ budget \in Scenario /\ WireFits(adapter, hub, wire)
    BY Before
  <1>3. source' \in SourceType /\ source'.cursor = view.lastCursor
    BY <1>1, <1>2 DEF SourceType, Phase, ViewType
  <1>4. status \in Status /\ status # "ready"
    BY DEF Status
  <1> HIDE DEF status
  <1>5. /\ v \in ViewType /\ v.transcript = view.transcript
        /\ v.lastCursor = view.lastCursor /\ v.lastEvent = 0
        /\ v.request = NoId /\ v.status = status
    BY <1>2, <1>4 DEF ViewType, NoId
  <1>6. wire = [queue |-> << >>, attached |-> FALSE]
    BY <1>1, <1>2 DEF WireFits
  <1> HIDE DEF v
  <1>7. ASSUME view' = view \/ view' = v, requests' = requests
        PROVE  Kept
    <2>1. BrowserStep
      BY <1>1, <1>2, <1>3, <1>5, <1>7 DEF BrowserStep
    <2>2. NoneServed
      BY <1>7, RequestsLeft
    <2>3. WireFits(adapter, hub, wire)' /\ DOMAIN wire'.queue = {}
      BY <1>1, <1>6, <2>1, NoResponse
    <2>4. NoId \notin DOMAIN requests'
      BY <1>2, <1>7, LenProperties DEF NoId
    <2>5. CASE view' = view
      BY <1>2, <1>3, <2>1, <2>2, <2>3, <2>5, QuietStep
    <2>6. CASE view' = v
      BY <1>3, <1>4, <1>5, <2>1, <2>2, <2>3, <2>4, <2>6, QuietStep
    <2> QED
      BY <1>7, <2>5, <2>6
  <1>8. CASE Ask(v)
    BY <1>1, <1>3, <1>5, <1>6, <1>8, AskKeeps
  <1> QED
    BY <1>1, <1>7, <1>8

\* What attach replays is what is retained after the cursor.
LEMMA RetainedAfter ==
  ASSUME DeliveryInvariant, NEW c \in Nat
  PROVE  LET n == Len(hub.retained)
         IN  \E m \in 1 .. n + 1 :
               /\ Replayed(c) \in Seq(EnvelopeType) /\ Len(Replayed(c)) = n - m + 1
               /\ \A i \in 1 .. n - m + 1 : Replayed(c)[i] = hub.retained[m + i - 1]
               /\ \A i \in 1 .. n : m <= i <=> c < hub.retained[i].cursor
  <1> DEFINE n == Len(hub.retained)
             later == {i \in 1 .. n : hub.retained[i].cursor > c}
             m == Min(later \cup {n + 1})
  <1>1. /\ HubFits(adapter, hub) /\ hub.retained \in Seq(EnvelopeType) /\ n \in Nat
        /\ DOMAIN hub.retained = 1 .. n
    BY Before, LenProperties DEF HubType
  <1>2. ASSUME NEW i \in 1 .. n
        PROVE  hub.retained[i].cursor \in Nat
    <2>1. hub.retained[i] \in EnvelopeType
      BY <1>1, ElementOfSeq
    <2> QED
      BY <2>1 DEF EnvelopeType
  <1>3. m \in later \cup {n + 1} /\ \A i \in later \cup {n + 1} : m <= i
    <2>1. later \cup {n + 1} \in SUBSET Nat /\ later \cup {n + 1} # {}
      BY <1>1
    <2> HIDE DEF later
    <2> QED
      BY <2>1, LeastNumber
  <1>4. Replayed(c) = SubSeq(hub.retained, m, n)
    BY <1>1 DEF Replayed
  <1> HIDE DEF m
  <1>5. m \in 1 .. n + 1
    BY <1>1, <1>3
  <1>6. /\ Replayed(c) \in Seq(EnvelopeType) /\ Len(Replayed(c)) = n - m + 1
        /\ \A i \in 1 .. n - m + 1 : Replayed(c)[i] = hub.retained[m + i - 1]
    <2>1. n \in m - 1 .. n
      BY <1>1, <1>5
    <2> HIDE DEF n
    <2>2. /\ SubSeq(hub.retained, m, n) \in Seq(EnvelopeType)
          /\ Len(SubSeq(hub.retained, m, n)) = IF m <= n THEN n - m + 1 ELSE 0
          /\ \A i \in 1 .. n - m + 1 : SubSeq(hub.retained, m, n)[i] = hub.retained[m + i - 1]
      BY <1>1, <1>5, <2>1, SubSeqProperties DEF n
    <2>3. ~ (m <= n) => n - m + 1 = 0
      BY <1>1, <1>5
    <2> QED
      BY <1>4, <2>2, <2>3
  <1>7. ASSUME NEW i \in 1 .. n
        PROVE  m <= i <=> c < hub.retained[i].cursor
    <2>1. ASSUME m <= i PROVE c < hub.retained[i].cursor
      <3>1. m \in later
        BY <1>1, <1>3, <1>5, <2>1
      <3>2. hub.retained[m].cursor \in Nat /\ c < hub.retained[m].cursor
        BY <1>2, <3>1
      <3>3. m = i \/ hub.retained[m].cursor < hub.retained[i].cursor
        <4>1. m = i \/ m < i
          BY <1>5, <2>1
        <4> QED
          BY <1>1, <3>1, <4>1 DEF HubFits
      <3> QED
        BY <1>2, <3>2, <3>3
    <2>2. ASSUME c < hub.retained[i].cursor PROVE m <= i
      <3>1. i \in later
        BY <1>2, <2>2
      <3> QED
        BY <1>3, <3>1
    <2> QED
      BY <2>1, <2>2
  <1> HIDE DEF n
  <1>8. \E x \in 1 .. n + 1 :
               /\ Replayed(c) \in Seq(EnvelopeType) /\ Len(Replayed(c)) = n - x + 1
               /\ \A i \in 1 .. n - x + 1 : Replayed(c)[i] = hub.retained[x + i - 1]
               /\ \A i \in 1 .. n : x <= i <=> c < hub.retained[i].cursor
    BY <1>5, <1>6, <1>7
  <1> QED
    BY <1>8 DEF n

\* What a response starts with: consecutive envelopes that are retained, behind the cursor.
LEMMA AttachedCarries ==
  ASSUME DeliveryInvariant, NEW c \in Nat, ~ Outside(c)
  PROVE  LET n == Len(hub.retained)
             w == Attached(c)
         IN  \E m \in 1 .. n + 1 :
               /\ w.queue \in Seq(EnvelopeType) /\ w.attached \in BOOLEAN
               /\ w = [queue |-> w.queue, attached |-> w.attached]
               /\ \A i \in DOMAIN w.queue : m + i - 1 \in 1 .. n /\ w.queue[i] = hub.retained[m + i - 1]
               /\ w.attached => Len(w.queue) = n - m + 1
               /\ \A i \in 1 .. n : m <= i <=> c < hub.retained[i].cursor
  <1> DEFINE n == Len(hub.retained)
             w == Attached(c)
             l == Min({HighWater, Len(Replayed(c))})
  <1>1. n \in Nat
    BY Before, LenProperties DEF HubType
  <1>2. PICK m \in 1 .. n + 1 :
               /\ Replayed(c) \in Seq(EnvelopeType) /\ Len(Replayed(c)) = n - m + 1
               /\ \A i \in 1 .. n - m + 1 : Replayed(c)[i] = hub.retained[m + i - 1]
               /\ \A i \in 1 .. n : m <= i <=> c < hub.retained[i].cursor
    BY RetainedAfter
  <1> DEFINE rest == SubSeq(Replayed(c), 1, l)
             attached == Len(Replayed(c)) < HighWater
  <1>3. w = [queue |-> rest, attached |-> attached]
    BY DEF Attached
  <1> HIDE DEF w
  <1>4. l \in 0 .. n - m + 1 /\ (attached => l = n - m + 1)
    <2>1. n - m + 1 \in Nat /\ HighWater \in Nat \ {0}
      BY <1>1, <1>2, SizesAssumption
    <2> DEFINE S == {HighWater, n - m + 1}
    <2>2. S \in SUBSET Nat /\ S # {}
      BY <2>1
    <2>3. Min(S) \in S /\ \A x \in S : Min(S) <= x
      BY <2>2, LeastNumber
    <2>4. l = Min(S)
      BY <1>2
    <2> HIDE DEF l
    <2> QED
      BY <1>2, <2>1, <2>3, <2>4
  <1> HIDE DEF l, n
  <1>5. /\ rest \in Seq(EnvelopeType) /\ Len(rest) = l /\ DOMAIN rest = 1 .. l
        /\ \A i \in 1 .. l : rest[i] = Replayed(c)[i]
    <2> DEFINE k == n - m + 1
    <2>1. k \in Nat /\ l \in 0 .. k /\ Len(Replayed(c)) = k
      BY <1>1, <1>2, <1>4
    <2> HIDE DEF k
    <2>2. 1 \in 1 .. k + 1 /\ l \in 1 - 1 .. k
      BY <2>1
    <2>3. /\ rest \in Seq(EnvelopeType)
          /\ Len(rest) = IF 1 <= l THEN l - 1 + 1 ELSE 0
          /\ \A i \in 1 .. l - 1 + 1 : rest[i] = Replayed(c)[1 + i - 1]
      BY <1>2, <2>1, <2>2, SubSeqProperties
    <2>4. l - 1 + 1 = l /\ (~ (1 <= l) => l = 0) /\ \A i \in 1 .. l : 1 + i - 1 = i
      BY <2>1
    <2>5. rest \in Seq(EnvelopeType) /\ Len(rest) = l
      BY <2>3, <2>4
    <2> QED
      BY <2>3, <2>4, <2>5, LenProperties
  <1> HIDE DEF rest
  <1>6. ASSUME NEW i \in 1 .. l
        PROVE  m + i - 1 \in 1 .. n /\ rest[i] = hub.retained[m + i - 1]
    <2>1. i \in 1 .. n - m + 1 /\ m + i - 1 \in 1 .. n
      BY <1>1, <1>2, <1>4
    <2> QED
      BY <1>2, <1>5, <2>1
  <1>7. attached \in BOOLEAN
    OBVIOUS
  <1> HIDE DEF attached
  <1>8. w.queue = rest /\ w.attached = attached
    BY <1>3
  <1>9. /\ w.queue \in Seq(EnvelopeType) /\ w.attached \in BOOLEAN
        /\ w = [queue |-> w.queue, attached |-> w.attached]
        /\ \A i \in DOMAIN w.queue : m + i - 1 \in 1 .. n /\ w.queue[i] = hub.retained[m + i - 1]
        /\ w.attached => Len(w.queue) = n - m + 1
        /\ \A i \in 1 .. n : m <= i <=> c < hub.retained[i].cursor
    BY <1>2, <1>3, <1>4, <1>5, <1>6, <1>7, <1>8
  <1> QED
    BY <1>2, <1>9 DEF n, w

\* What a response starts with fits: it carries what is retained after the cursor, or a reset.
LEMMA ResponseStarts ==
  ASSUME DeliveryInvariant, BrowserStep, wire' = Attached(source.cursor),
         source'.cursor = source.cursor, source'.phase = "connecting",
         view'.lastCursor = view.lastCursor,
         \A env : Tells(adapter, env) => Tells(adapter, env)'
  PROVE  /\ WireFits(adapter, hub, wire)'
         /\ \A i \in DOMAIN wire'.queue : wire'.queue[i].type # "update"
  <1> DEFINE c == source.cursor
  <1>1. /\ hub' = hub /\ adapter' = adapter /\ HubFits(adapter, hub) /\ hub \in HubType
        /\ c \in Nat /\ c < hub.next /\ hub.next \in Nat /\ hub.discarded \in Nat
        /\ hub.durable \in SUBSET Nat
        /\ view.lastCursor \in Nat /\ view.lastCursor < hub.next
    BY Before DEF BrowserStep, SourceType, HubType, ViewFits, ViewType
  <1>2. CASE Outside(c)
    <2> DEFINE last == hub.next - 1
               none == << >>
               env == ReplayReset(last)
               queue == << env >>
    <2>1. last \in Nat /\ view.lastCursor <= last /\ last < hub.next
      BY <1>1
    <2>2. wire' = [queue |-> queue, attached |-> FALSE]
      BY <1>2 DEF Attached
    <2> HIDE DEF last
    <2>3. env \in EnvelopeType /\ env.type = "reset" /\ env.cursor = last
      <3>1. none \in Text /\ "reset" \in Kind /\ Replaces \in Nat \cup {Replaces} /\ NoEntry \in Nat
        BY EmptySeq DEF Text, Kind, NoEntry
      <3>2. env = [Envelope("reset", NoEntry, none, Replaces) EXCEPT !.cursor = last]
        BY DEF ReplayReset
      <3> HIDE DEF env, none
      <3> QED
        BY <2>1, <3>1, <3>2 DEF Envelope, EnvelopeType
    <2> HIDE DEF env
    <2>4. queue \in Seq(EnvelopeType) /\ Len(queue) = 1 /\ DOMAIN queue = {1} /\ queue[1] = env
      BY <2>3
    <2> HIDE DEF queue
    <2>5. wire' \in WireType /\ wire'.queue = queue /\ wire'.attached = FALSE
      BY <2>2, <2>4 DEF WireType
    <2>6. Resets(hub, wire)'
      BY <1>1, <2>1, <2>3, <2>4, <2>5 DEF Resets
    <2> QED
      BY <2>3, <2>4, <2>5, <2>6 DEF WireFits
  <1>3. CASE ~ Outside(c)
    <2> DEFINE n == Len(hub.retained)
               w == Attached(c)
               cursorOf(i) == hub.retained[i].cursor
    <2>1. PICK m \in 1 .. n + 1 :
               /\ w.queue \in Seq(EnvelopeType) /\ w.attached \in BOOLEAN
               /\ w = [queue |-> w.queue, attached |-> w.attached]
               /\ \A i \in DOMAIN w.queue : m + i - 1 \in 1 .. n /\ w.queue[i] = hub.retained[m + i - 1]
               /\ w.attached => Len(w.queue) = n - m + 1
               /\ \A i \in 1 .. n : m <= i <=> c < hub.retained[i].cursor
      BY <1>1, <1>3, AttachedCarries
    <2>2. /\ n \in Nat /\ DOMAIN hub.retained = 1 .. n
          /\ hub.discarded <= c
      BY <1>1, <1>3, LenProperties DEF HubType, Outside
    <2>3. ASSUME NEW i \in 1 .. n
          PROVE  /\ cursorOf(i) \in Nat /\ cursorOf(i) < hub.next
                 /\ hub.retained[i].type \notin {"update", "reset"}
                 /\ Tells(adapter, hub.retained[i])
                 /\ \A j \in 1 .. n : i < j => cursorOf(i) < cursorOf(j)
      <3>1. hub.retained[i] \in EnvelopeType
        BY <1>1, <2>2, ElementOfSeq DEF HubType
      <3> QED
        BY <1>1, <2>2, <3>1 DEF HubFits, EnvelopeType
    <2>4. ASSUME NEW d \in hub.durable, c < d
          PROVE  \E j \in 1 .. n : cursorOf(j) = d /\ m <= j
      <3>1. d \in Nat /\ hub.discarded < d
        BY <1>1, <2>2, <2>4
      <3>2. PICK j \in 1 .. n : cursorOf(j) = d
        BY <1>1, <2>2, <3>1 DEF HubFits
      <3> QED
        BY <2>1, <2>4, <3>2
    <2> HIDE DEF n, w
    <2> DEFINE queue == w.queue
               before(i) == IF i = 1 THEN c ELSE queue[i - 1].cursor
    <2>5. /\ wire' = w /\ wire' \in WireType /\ wire'.queue = queue
          /\ Len(queue) \in Nat /\ DOMAIN queue = 1 .. Len(queue)
      BY <2>1, LenProperties DEF w, WireType
    <2>6. ASSUME NEW i \in 1 .. Len(queue)
          PROVE  /\ m + i - 1 \in 1 .. n /\ queue[i] = hub.retained[m + i - 1]
                 /\ i # 1 => m + i - 2 \in 1 .. n /\ queue[i - 1] = hub.retained[m + i - 2]
      <3>1. m + i - 1 \in 1 .. n /\ queue[i] = hub.retained[m + i - 1]
        BY <2>1, <2>5
      <3>2. ASSUME i # 1 PROVE m + i - 2 \in 1 .. n /\ queue[i - 1] = hub.retained[m + i - 2]
        <4>1. i - 1 \in 1 .. Len(queue) /\ m + (i - 1) - 1 = m + i - 2
          BY <2>5, <3>2
        <4> QED
          BY <2>1, <2>5, <4>1
      <3> QED
        BY <3>1, <3>2
    <2>7. ASSUME NEW i \in 1 .. Len(queue)
          PROVE  /\ before(i) < queue[i].cursor /\ queue[i].cursor < hub.next
                 /\ queue[i].type \notin {"update", "reset"}
                 /\ Tells(adapter, queue[i])
                 /\ \A d \in hub.durable : ~ (before(i) < d /\ d < queue[i].cursor)
      <3> DEFINE k == m + i - 1
      <3>1. k \in 1 .. n /\ queue[i] = hub.retained[k] /\ k \in Nat
        BY <2>2, <2>6
      <3>2. m <= k
        BY <2>1
      <3>3. before(i) < cursorOf(k) /\ before(i) \in Nat /\ c <= before(i)
        <4>1. CASE i = 1
          <5>1. c < cursorOf(k)
            BY <2>1, <3>1, <3>2
          <5> QED
            BY <1>1, <4>1, <5>1
        <4>2. CASE i # 1
          <5>1. m + i - 2 \in 1 .. n /\ queue[i - 1] = hub.retained[m + i - 2] /\ m + i - 2 < k /\ m <= m + i - 2
            BY <2>1, <2>6, <4>2
          <5>2. cursorOf(m + i - 2) < cursorOf(k) /\ cursorOf(m + i - 2) \in Nat /\ c < cursorOf(m + i - 2)
            BY <2>1, <2>3, <3>1, <5>1
          <5> QED
            BY <1>1, <4>2, <5>1, <5>2
        <4> QED
          BY <4>1, <4>2
      <3>4. ASSUME NEW d \in hub.durable, before(i) < d, d < cursorOf(k)
            PROVE  FALSE
        <4>1. d \in Nat /\ c < d
          BY <1>1, <3>3, <3>4
        <4>2. PICK j \in 1 .. n : cursorOf(j) = d /\ m <= j
          BY <2>4, <4>1
        <4>3. ~ (k <= j)
          <5>1. CASE k = j
            BY <2>3, <3>1, <3>4, <4>2, <5>1
          <5>2. CASE k < j
            BY <2>3, <3>1, <3>4, <4>2, <5>2
          <5> QED
            BY <3>1, <5>1, <5>2
        <4>4. i # 1
          BY <2>1, <4>2, <4>3
        <4>5. /\ m + i - 2 \in 1 .. n /\ queue[i - 1] = hub.retained[m + i - 2]
              /\ j <= m + i - 2 /\ before(i) = cursorOf(m + i - 2)
          BY <2>1, <2>6, <4>3, <4>4
        <4>6. cursorOf(j) <= cursorOf(m + i - 2)
          <5>1. CASE j = m + i - 2
            BY <2>3, <4>5, <5>1
          <5>2. CASE j < m + i - 2
            BY <2>3, <4>5, <5>2
          <5> QED
            BY <4>5, <5>1, <5>2
        <4>7. cursorOf(m + i - 2) \in Nat
          BY <2>3, <4>5
        <4> HIDE DEF cursorOf, before
        <4>8. before(i) < d /\ d \in Nat /\ d <= before(i) /\ before(i) \in Nat
          BY <3>4, <4>1, <4>2, <4>5, <4>6, <4>7
        <4> QED
          BY <4>8
      <3>5. /\ cursorOf(k) < hub.next /\ hub.retained[k].type \notin {"update", "reset"}
            /\ Tells(adapter, hub.retained[k])
        BY <2>3, <3>1
      <3> HIDE DEF k, before
      <3> QED
        BY <3>1, <3>3, <3>4, <3>5
    <2>8. ASSUME w.attached, NEW d \in hub.durable
          PROVE  d <= before(Len(queue) + 1)
      <3>1. Len(queue) = n - m + 1
        BY <2>1, <2>8
      <3>2. CASE n < m
        <4>1. Len(queue) + 1 = 1
          BY <2>1, <2>2, <2>5, <3>1, <3>2
        <4>2. ~ (c < d)
          BY <2>2, <2>4, <3>2
        <4> QED
          BY <1>1, <4>1, <4>2
      <3>3. CASE m <= n
        <4>1. Len(queue) \in 1 .. Len(queue) /\ Len(queue) + 1 # 1 /\ (Len(queue) + 1) - 1 = Len(queue)
          BY <2>1, <2>2, <2>5, <3>1, <3>3
        <4>2. m + Len(queue) - 1 = n /\ n \in 1 .. n
          BY <2>1, <2>2, <3>1, <3>3
        <4>3. queue[Len(queue)] = hub.retained[n]
          BY <2>6, <4>1, <4>2
        <4>4. before(Len(queue) + 1) = cursorOf(n)
          BY <4>1, <4>3
        <4>5. c < cursorOf(n) /\ cursorOf(n) \in Nat
          BY <2>1, <2>3, <3>3, <4>2
        <4>6. CASE c < d
          <5>1. PICK j \in 1 .. n : cursorOf(j) = d
            BY <2>4, <4>6
          <5>2. j = n \/ j < n
            BY <2>2
          <5>3. cursorOf(j) \in Nat /\ (j < n => cursorOf(j) < cursorOf(n))
            BY <2>3, <4>2
          <5>4. cursorOf(j) <= cursorOf(n)
            BY <4>5, <5>2, <5>3
          <5> QED
            BY <4>4, <5>1, <5>4
        <4>7. CASE ~ (c < d)
          BY <1>1, <4>4, <4>5, <4>7
        <4> QED
          BY <4>6, <4>7
      <3> QED
        BY <2>1, <2>2, <3>2, <3>3
    <2>9. \A i \in 1 .. Len(queue) + 1 : CursorBefore(wire, i)' = before(i)
      BY <2>5 DEF CursorBefore
    <2> HIDE DEF before, queue
    <2>10. Len(queue) + 1 \in 1 .. Len(queue) + 1 /\ \A i \in 1 .. Len(queue) : i \in 1 .. Len(queue) + 1
      BY <2>5
    <2>11. wire'.attached = w.attached
      BY <2>5
    <2> QED
      BY <1>1, <2>5, <2>7, <2>8, <2>9, <2>10, <2>11 DEF WireFits
  <1> QED
    BY <1>2, <1>3

\* The browser connects.
LEMMA ConnectKeeps ==
  ASSUME DeliveryInvariant, Connect
  PROVE  Kept
  <1>1. /\ source.phase = "closed" /\ source' = [source EXCEPT !.phase = "connecting"]
        /\ wire' = Attached(source.cursor) /\ view' = ConnectionChanged(view, "connecting")
        /\ thread' = thread /\ buffer' = buffer /\ adapter' = adapter /\ hub' = hub
        /\ requests' = requests /\ budget' = budget
    BY DEF Connect
  <1>2. source \in SourceType /\ view \in ViewType /\ ViewFits(adapter, hub)
    BY Before
  <1>3. source' \in SourceType /\ source'.cursor = source.cursor /\ source'.phase = "connecting"
    BY <1>1, <1>2 DEF SourceType, Phase
  <1>4. /\ view' \in ViewType
        /\ view'.transcript = view.transcript /\ view'.lastCursor = view.lastCursor
        /\ view'.lastEvent = view.lastEvent /\ view'.request = view.request
        /\ view'.snapshotAt = view.snapshotAt /\ view'.settled = view.settled /\ view'.status = view.status
        /\ view.connection = "replay-required" => view'.connection = "replay-required"
        /\ view'.dirty = FALSE => view.dirty = FALSE
    BY <1>1, <1>2, ConnectionChanges
  <1>5. BrowserStep
    BY <1>1, <1>3, <1>4, Before DEF BrowserStep
  <1>6. NoneServed
    BY <1>1, RequestsLeft
  <1>7. /\ WireFits(adapter, hub, wire)'
        /\ \A i \in DOMAIN wire'.queue : wire'.queue[i].type # "update"
    BY <1>1, <1>3, <1>4, <1>5, <1>6, TellsQuietly, ResponseStarts
  <1>8. view'.connection # "replay-required" => source'.cursor = view.lastCursor
    BY <1>1, <1>2, <1>3, <1>4 DEF ViewFits
  <1>9. view'.status = "ready" /\ ~ view'.dirty /\ view'.settled =>
           view.status = "ready" /\ ~ view.dirty /\ view.settled
    BY <1>2, <1>4 DEF ViewType
  <1> QED
    BY <1>3, <1>4, <1>5, <1>6, <1>7, <1>8, <1>9, QuietStep

\* The response after its first envelope was received.
LEMMA ResponseMoves ==
  ASSUME DeliveryInvariant, BrowserStep, wire.queue # << >>, Head(wire.queue).type # "reset",
         wire' = [wire EXCEPT !.queue = Tail(@)],
         source'.cursor = Head(wire.queue).cursor, source'.phase = "open",
         \A env : Tells(adapter, env) => Tells(adapter, env)'
  PROVE  /\ WireFits(adapter, hub, wire)'
         /\ \A j \in DOMAIN wire'.queue : \E i \in DOMAIN wire.queue : i # 1 /\ wire.queue[i] = wire'.queue[j]
  <1> DEFINE queue == wire.queue
  <1>0. PICK rest, n : rest = Tail(queue) /\ n = Len(queue)
    OBVIOUS
  <1>1. /\ wire \in WireType /\ queue \in Seq(EnvelopeType) /\ WireFits(adapter, hub, wire)
        /\ n \in Nat \ {0} /\ DOMAIN queue = 1 .. n /\ hub' = hub /\ adapter' = adapter
    BY <1>0, Before, LenProperties, EmptySeq DEF BrowserStep
  <1>2. /\ rest \in Seq(EnvelopeType) /\ Len(rest) = n - 1 /\ DOMAIN rest = 1 .. n - 1
        /\ \A i \in 1 .. n - 1 : rest[i] = queue[i + 1]
    BY <1>0, <1>1, HeadTailProperties, LenProperties
  <1>3. Head(queue) = queue[1]
    BY <1>1, HeadTailProperties
  <1>4. wire' = [wire EXCEPT !.queue = rest]
    BY <1>0
  <1>5. wire' \in WireType /\ wire'.queue = rest /\ wire'.attached = wire.attached
    BY <1>1, <1>2, <1>4 DEF WireType
  <1>6. \A i \in 1 .. n : CursorBefore(wire, i)' = CursorBefore(wire, i + 1)
    <2> SUFFICES ASSUME NEW i \in 1 .. n
                 PROVE  CursorBefore(wire, i)' = CursorBefore(wire, i + 1)
      OBVIOUS
    <2>1. i + 1 # 1 /\ (i + 1) - 1 = i
      OBVIOUS
    <2>2. CASE i = 1
      BY <1>3, <2>1, <2>2 DEF CursorBefore
    <2>3. CASE i # 1
      <3>1. i - 1 \in 1 .. n - 1 /\ (i - 1) + 1 = i
        BY <1>1, <2>3
      <3>2. rest[i - 1] = queue[i]
        BY <1>2, <3>1
      <3>3. CursorBefore(wire, i)' = rest[i - 1].cursor
        BY <1>5, <2>3 DEF CursorBefore
      <3>4. CursorBefore(wire, i + 1) = queue[i].cursor
        BY <2>1 DEF CursorBefore
      <3> QED
        BY <3>2, <3>3, <3>4
    <2> QED
      BY <2>2, <2>3
  <1>7. ASSUME NEW i \in 1 .. n
        PROVE  queue[i].type # "reset"
    <2> SUFFICES ASSUME queue[i].type = "reset"
                 PROVE  FALSE
      OBVIOUS
    <2>1. Len(queue) = 1
      BY <1>1 DEF WireFits, Resets
    <2>2. i = 1
      BY <1>0, <1>1, <2>1
    <2> QED
      BY <1>3, <2>2
  <1>8. ASSUME NEW i \in 1 .. n - 1
        PROVE  /\ rest[i].type # "reset"
               /\ CursorBefore(wire, i)' < rest[i].cursor /\ rest[i].cursor < hub.next
               /\ Tells(adapter, rest[i])
               /\ \A d \in hub.durable : ~ (CursorBefore(wire, i)' < d /\ d < rest[i].cursor)
               /\ \A j \in 1 .. n - 1 :
                    i < j /\ rest[i].type = "finalize" /\ rest[j].type = "update" =>
                      rest[i].entry # rest[j].entry
    <2>1. i + 1 \in 1 .. n /\ i \in 1 .. n /\ rest[i] = queue[i + 1]
      BY <1>1, <1>2
    <2>2. /\ CursorBefore(wire, i + 1) < rest[i].cursor /\ rest[i].cursor < hub.next
          /\ Tells(adapter, rest[i])
          /\ \A d \in hub.durable : ~ (CursorBefore(wire, i + 1) < d /\ d < rest[i].cursor)
          /\ rest[i].type # "reset"
          /\ \A j \in 1 .. n : i + 1 < j /\ rest[i].type = "finalize" /\ queue[j].type = "update" =>
               rest[i].entry # queue[j].entry
      BY <1>1, <1>7, <2>1 DEF WireFits
    <2>3. CursorBefore(wire, i)' = CursorBefore(wire, i + 1)
      BY <1>6, <2>1
    <2>4. ASSUME NEW j \in 1 .. n - 1, i < j, rest[i].type = "finalize", rest[j].type = "update"
          PROVE  rest[i].entry # rest[j].entry
      <3>1. j + 1 \in 1 .. n /\ i + 1 < j + 1 /\ rest[j] = queue[j + 1]
        BY <1>1, <1>2, <2>4
      <3> QED
        BY <2>2, <2>4, <3>1
    <2> QED
      BY <2>2, <2>3, <2>4
  <1>9. wire'.attached => \A d \in hub.durable : d <= CursorBefore(wire, Len(rest) + 1)'
    <2>1. Len(rest) + 1 = n /\ n \in 1 .. n
      BY <1>1, <1>2
    <2>2. wire.attached => \A d \in hub.durable : d <= CursorBefore(wire, n + 1)
      BY <1>0, <1>1 DEF WireFits
    <2> QED
      BY <1>5, <1>6, <2>1, <2>2
  <1>10. WireFits(adapter, hub, wire)'
    <2>1. \A i \in 1 .. n - 1 : Tells(adapter, rest[i])'
      BY <1>8
    <2>2. wire'.attached => \A d \in hub'.durable : d <= CursorBefore(wire, Len(wire.queue) + 1)'
      BY <1>1, <1>5, <1>9
    <2>3. ASSUME NEW i \in DOMAIN wire'.queue
          PROVE  /\ wire'.queue[i].type # "reset"
                 /\ CursorBefore(wire, i)' < wire'.queue[i].cursor /\ wire'.queue[i].cursor < hub'.next
                 /\ Tells(adapter, wire.queue[i])'
                 /\ \A d \in hub'.durable : ~ (CursorBefore(wire, i)' < d /\ d < wire'.queue[i].cursor)
                 /\ \A j \in DOMAIN wire'.queue :
                      i < j /\ wire'.queue[i].type = "finalize" /\ wire'.queue[j].type = "update" =>
                        wire'.queue[i].entry # wire'.queue[j].entry
      <3>1. i \in 1 .. n - 1 /\ wire'.queue[i] = rest[i] /\ DOMAIN wire'.queue = 1 .. n - 1
        BY <1>2, <1>5, <2>3
      <3>2. Tells(adapter, wire.queue[i])'
        BY <1>5, <2>1, <3>1
      <3>3. hub' = hub
        BY <1>1
      <3>4. /\ rest[i].type # "reset"
            /\ CursorBefore(wire, i)' < rest[i].cursor /\ rest[i].cursor < hub.next
            /\ \A d \in hub.durable : ~ (CursorBefore(wire, i)' < d /\ d < rest[i].cursor)
        BY <1>8, <3>1
      <3>5. ASSUME NEW j \in 1 .. n - 1, i < j, rest[i].type = "finalize", rest[j].type = "update"
            PROVE  rest[i].entry # rest[j].entry
        BY <1>8, <3>1, <3>5
      <3> QED
        BY <1>5, <3>1, <3>2, <3>3, <3>4, <3>5
    <2>4. source'.phase = "open" /\ wire' \in WireType
      BY <1>5
    <2> QED
      BY <2>2, <2>3, <2>4 DEF WireFits
  <1>11. ASSUME NEW j \in DOMAIN wire'.queue
         PROVE  \E i \in DOMAIN wire.queue : i # 1 /\ wire.queue[i] = wire'.queue[j]
    <2>1. j \in 1 .. n - 1
      BY <1>2, <1>5
    <2>2. j + 1 \in 1 .. n /\ j + 1 # 1 /\ wire'.queue[j] = queue[j + 1]
      BY <1>1, <1>2, <1>5, <2>1
    <2> QED
      BY <1>1, <2>2
  <1> QED
    BY <1>10, <1>11

\* The view shows another transcript, or requires a replay.
LEMMA ViewMoves ==
  ASSUME NEW v \in ViewType, NEW t \in Seq(EntryType),
         \/ view' = v
         \/ view' = [v EXCEPT !.transcript = t]
         \/ view' = [v EXCEPT !.connection = "replay-required"]
  PROVE  /\ view' \in ViewType /\ view'.lastCursor = v.lastCursor /\ view'.lastEvent = v.lastEvent
         /\ view'.request = v.request /\ view'.status = v.status /\ view'.dirty = v.dirty
         /\ view'.settled = v.settled /\ view'.snapshotAt = v.snapshotAt
         /\ view' = [v EXCEPT !.transcript = t] => view'.transcript = t
         /\ view' = v \/ view' = [v EXCEPT !.connection = "replay-required"] =>
              view'.transcript = v.transcript
  <1>1. "replay-required" \in Connection
    BY DEF Connection
  <1> QED
    BY <1>1 DEF ViewType

\* An envelope that is received keeps the invariant if the transcript it leaves fits.
LEMMA DeliveredKeeps ==
  ASSUME DeliveryInvariant, BrowserStep, requests' = requests, budget' = budget,
         NEW env \in EnvelopeType, source'.cursor = env.cursor,
         view.lastCursor < env.cursor, env.cursor < hub.next,
         \A d \in hub.durable : ~ (view.lastCursor < d /\ d < env.cursor),
         view'.lastCursor = env.cursor, view'.lastEvent = env.cursor,
         view'.request = view.request, view'.status = view.status, view'.dirty = view.dirty,
         view'.settled = view.settled, view'.snapshotAt = view.snapshotAt,
         view'.transcript = view.transcript \/ view.snapshotAt < env.cursor,
         WireFits(adapter, hub, wire)', TranscriptFits(adapter, wire)',
         Final(view) \subseteq Final(view'),
         \A k \in Final(view') :
            \/ k \in Final(view)
            \/ \A r \in DOMAIN requests :
                 requests[r].state = "served" /\ env.cursor <= requests[r].snapshot.cursor =>
                   k <= requests[r].snapshot.messages
  PROVE  Kept
  <1>1. thread' = thread /\ adapter' = adapter /\ hub' = hub
    BY DEF BrowserStep
  <1>2. /\ view.lastCursor \in Nat /\ view.lastEvent \in Nat /\ env.cursor \in Nat /\ hub.next \in Nat
        /\ view.snapshotAt \in Nat /\ ViewFits(adapter, hub) /\ hub.durable \in SUBSET Nat
        /\ requests \in Seq(RequestType)
    BY Before DEF ViewType, EnvelopeType, HubType
  <1>3. \A e : Tells(adapter, e) => Tells(adapter, e)'
    BY RequestsLeft, TellsQuietly
  <1>4. ViewFits(adapter, hub)'
    <2>1. \A k \in Message : SnapshotEntry(k)' = SnapshotEntry(k)
      BY <1>1 DEF SnapshotEntry, FullText
    <2>2. view.status = "ready" /\ ~ view.dirty /\ view.settled => ~ (view.snapshotAt < env.cursor)
      BY <1>2 DEF ViewFits
    <2> QED
      BY <1>1, <1>2, <2>1, <2>2 DEF ViewFits
  <1>5. ASSUME NEW r \in DOMAIN requests' PROVE SnapshotFits(adapter, hub, r)'
    <2> SUFFICES ASSUME requests[r].state = "served"
                 PROVE  SnapshotFits(adapter, hub, r)'
      BY DEF SnapshotFits
    <2> DEFINE cursor == requests[r].snapshot.cursor
               messages == requests[r].snapshot.messages
    <2>1. SnapshotFits(adapter, hub, r)
      BY Before
    <2>2. cursor \in Nat /\ messages \in Nat
      BY <1>2, <2>1, SizesAssumption DEF SnapshotFits
    <2>3. ASSUME r = view.request
          PROVE  \/ Final(view') \subseteq 1 .. messages
                 \/ cursor < env.cursor
      <3> SUFFICES ASSUME ~ (cursor < env.cursor)
                   PROVE  Final(view') \subseteq 1 .. messages
        OBVIOUS
      <3>1. env.cursor <= cursor /\ ~ (cursor < view.lastCursor)
        BY <1>2, <2>2
      <3>2. Final(view) \subseteq 1 .. messages
        BY <2>1, <2>3, <3>1 DEF SnapshotFits
      <3> SUFFICES ASSUME NEW k \in Final(view')
                   PROVE  k \in 1 .. messages
        OBVIOUS
      <3>3. k \in Message
        BY DEF Final
      <3>4. k \in Final(view) \/ k <= messages
        BY <3>1
      <3> QED
        BY <2>2, <3>2, <3>3, <3>4, SizesAssumption DEF Message
    <2> HIDE DEF cursor, messages
    <2>4. Final(view)' = Final(view')
      BY DEF Final
    <2> QED
      BY <1>1, <2>1, <2>3, <2>4 DEF SnapshotFits, cursor, messages
  <1>6. DeliveryInvariant'
    BY <1>3, <1>4, <1>5, PartsKept
  <1>7. Replays
    <2> SUFFICES ASSUME NEW d \in hub.durable, d \in view.lastCursor + 1 .. env.cursor - 1
                 PROVE  FALSE
      BY DEF Replays
    <2>1. d \in Nat /\ view.lastCursor < d /\ d < env.cursor
      BY <1>2
    <2> QED
      BY <2>1
  <1>8. Stays
    BY DEF Stays
  <1> QED
    BY <1>6, <1>7, <1>8 DEF Kept

\* The browser has received an envelope that is no reset, and its view has moved to it.
Received(env) ==
  /\ BrowserStep /\ requests' = requests /\ budget' = budget
  /\ env \in EnvelopeType /\ 1 \in DOMAIN wire.queue /\ env = wire.queue[1]
  /\ Tells(adapter, env)
  /\ view.lastCursor < env.cursor /\ env.cursor < hub.next /\ source'.cursor = env.cursor
  /\ \A d \in hub.durable : ~ (view.lastCursor < d /\ d < env.cursor)
  /\ WireFits(adapter, hub, wire)'
  /\ \A j \in DOMAIN wire'.queue : \E i \in DOMAIN wire.queue : i # 1 /\ wire.queue[i] = wire'.queue[j]
  /\ view'.lastCursor = env.cursor /\ view'.lastEvent = env.cursor
  /\ view'.request = view.request /\ view'.status = view.status /\ view'.dirty = view.dirty
  /\ view'.settled = view.settled /\ view'.snapshotAt = view.snapshotAt

\* What is known when an envelope has been received.
LEMMA AfterReceiving ==
  ASSUME DeliveryInvariant, NEW env, Received(env)
  PROVE  /\ view.lastCursor \in Nat /\ env.cursor \in Nat /\ view.lastCursor <= view'.lastCursor
         /\ thread' = thread /\ adapter' = adapter
         /\ \A j \in DOMAIN wire'.queue : wire'.queue[j].type = "update" =>
              \E i \in DOMAIN wire.queue : wire.queue[i] = wire'.queue[j]
         /\ \A i \in DOMAIN view.transcript :
              EntryFits(adapter, wire, view.transcript[i]) /\ view.transcript[i] \in EntryType
         /\ \A e \in EntryType : EntryFits(adapter, wire, e) => EntryFits(adapter, wire, e)'
  <1>1. view.lastCursor \in Nat /\ env.cursor \in Nat /\ view.lastCursor <= view'.lastCursor
    BY Before DEF Received, ViewType, EnvelopeType
  <1>2. \A j \in DOMAIN wire'.queue : wire'.queue[j].type = "update" =>
              \E i \in DOMAIN wire.queue : wire.queue[i] = wire'.queue[j]
    BY DEF Received
  <1>3. BrowserStep
    BY DEF Received
  <1>4. \A e \in EntryType : EntryFits(adapter, wire, e) => EntryFits(adapter, wire, e)'
    BY <1>1, <1>2, <1>3, EntryKept
  <1>5. \A i \in DOMAIN view.transcript :
          EntryFits(adapter, wire, view.transcript[i]) /\ view.transcript[i] \in EntryType
    BY Before DEF TranscriptFits
  <1> QED
    BY <1>1, <1>2, <1>3, <1>4, <1>5 DEF BrowserStep

\* It does not change the transcript.
LEMMA PassedOverKeeps ==
  ASSUME DeliveryInvariant, NEW env, Received(env), view'.transcript = view.transcript
  PROVE  Kept
  <1>1. TranscriptFits(adapter, wire)'
    BY AfterReceiving, TranscriptKept DEF Received
  <1>2. Final(view') = Final(view)
    BY DEF Final
  <1> QED
    BY <1>1, <1>2, DeliveredKeeps DEF Received

\* It appends an entry.
LEMMA AppendKeeps ==
  ASSUME DeliveryInvariant, NEW env, Received(env), env.type = "append",
         view.snapshotAt < env.cursor,
         view'.transcript = Append(view.transcript, LiveEntry(env.entry, env.message))
  PROVE  Kept
  <1>1. PICK old, e : old = view.transcript /\ e = LiveEntry(env.entry, env.message)
    OBVIOUS
  <1> DEFINE n == Len(old)
  <1>2. /\ env \in EnvelopeType /\ env.message \in Message /\ env.entry = adapter.entry[env.message]
        /\ env.entry # NoEntry /\ env.cursor = env.entry /\ env.entry \in Nat
    BY DEF Received, Tells, About, EnvelopeType
  <1>3. e \in EntryType /\ e.id = env.entry /\ e.message = env.message /\ e.live /\ e.text = << >>
    <2> DEFINE none == << >>
    <2>1. none \in Text
      BY EmptySeq DEF Text
    <2>2. e = [id |-> env.entry, message |-> env.message, text |-> none, live |-> TRUE]
      BY <1>1 DEF LiveEntry
    <2>3. none = << >>
      OBVIOUS
    <2> HIDE DEF none
    <2> QED
      BY <1>2, <2>1, <2>2, <2>3 DEF EntryType
  <1>4. old \in Seq(EntryType)
    BY <1>1, Before
  <1>5. /\ n \in Nat /\ DOMAIN old = 1 .. n /\ DOMAIN view'.transcript = 1 .. n + 1
        /\ \A i \in 1 .. n : view'.transcript[i] = old[i]
        /\ view'.transcript[n + 1] = e
    BY <1>1, <1>3, <1>4, AppendProperties, LenProperties
  <1>6. EntryFits(adapter, wire, e)'
    <2>1. Len(e.text) = 0 /\ adapter.text[env.message] \in Text
      BY <1>2, <1>3, NothingIn, Before DEF AdapterType
    <2>2. Continues(e.text, 0, adapter.text[env.message])
      <3>1. Len(adapter.text[env.message]) \in Nat
        BY <2>1, LenProperties DEF Text
      <3> QED
        BY <2>1, <3>1 DEF Continues
    <2>3. adapter' = adapter /\ view'.lastCursor = env.cursor
      BY AfterReceiving DEF Received
    <2> QED
      BY <1>2, <1>3, <2>2, <2>3 DEF EntryFits, NoId, NoEntry
  <1>7. ASSUME NEW i \in 1 .. n
        PROVE  EntryFits(adapter, wire, old[i])' /\ old[i] \in EntryType /\ old[i].id # e.id
    <2>1. EntryFits(adapter, wire, old[i]) /\ old[i] \in EntryType
      BY <1>1, <1>5, AfterReceiving
    <2>2. EntryFits(adapter, wire, old[i])'
      BY <2>1, AfterReceiving
    <2>3. old[i].id # e.id
      <3>1. old[i].id = 0 \/ old[i].id <= view.lastCursor
        BY <2>1 DEF EntryFits, NoId
      <3>2. old[i].id \in Nat /\ view.lastCursor \in Nat /\ view.lastCursor < env.cursor /\ env.cursor \in Nat
        BY <2>1, AfterReceiving DEF EntryType, Received
      <3> QED
        BY <1>2, <1>3, <3>1, <3>2
    <2> QED
      BY <2>1, <2>2, <2>3
  <1> HIDE DEF n
  <1>8. TranscriptFits(adapter, wire)'
    <2>1. ASSUME NEW i \in DOMAIN view'.transcript
          PROVE  EntryFits(adapter, wire, view.transcript[i])'
      <3>1. CASE i \in 1 .. n
        BY <1>5, <1>7, <3>1
      <3>2. CASE i = n + 1
        BY <1>5, <1>6, <3>2
      <3> QED
        BY <1>5, <2>1, <3>1, <3>2
    <2>2. Apart(old)
      BY <1>1, Before DEF TranscriptFits
    <2>3. ASSUME NEW i \in 1 .. n + 1, NEW j \in 1 .. n + 1,
                 view'.transcript[i].id = view'.transcript[j].id, view'.transcript[i].id # NoId
          PROVE  i = j
      <3>1. CASE i \in 1 .. n /\ j \in 1 .. n
        BY <1>5, <2>2, <2>3, <3>1 DEF Apart
      <3>2. CASE i = n + 1 /\ j \in 1 .. n
        BY <1>5, <1>7, <2>3, <3>2
      <3>3. CASE j = n + 1 /\ i \in 1 .. n
        BY <1>5, <1>7, <2>3, <3>3
      <3> QED
        BY <1>5, <2>3, <3>1, <3>2, <3>3
    <2>4. Apart(view.transcript)'
      BY <1>5, <2>3 DEF Apart
    <2> QED
      BY <2>1, <2>4 DEF TranscriptFits
  <1>9. Final(view') = Final(view)
    <2>1. ASSUME NEW k \in Message
          PROVE  (\E i \in 1 .. n : old[i].message = k /\ ~ old[i].live) <=>
                 (\E i \in 1 .. n + 1 : view'.transcript[i].message = k /\ ~ view'.transcript[i].live)
      <3>1. \A i \in 1 .. n : i \in 1 .. n + 1
        BY <1>5
      <3>2. \A i \in 1 .. n + 1 : i \in 1 .. n \/ i = n + 1
        BY <1>5
      <3> QED
        BY <1>3, <1>5, <3>1, <3>2
    <2> QED
      BY <1>1, <1>5, <2>1 DEF Final
  <1> QED
    BY <1>8, <1>9, DeliveredKeeps DEF Received

\* It revises entries: each stays the entry of its message, and one that becomes final is
\* in every snapshot that was taken after the envelope.
LEMMA RevisedKeeps ==
  ASSUME DeliveryInvariant, NEW env, Received(env), view.snapshotAt < env.cursor,
         DOMAIN view'.transcript = DOMAIN view.transcript,
         \A i \in DOMAIN view.transcript :
            /\ view'.transcript[i].id = view.transcript[i].id
            /\ view'.transcript[i].message = view.transcript[i].message
            /\ ~ view.transcript[i].live => ~ view'.transcript[i].live
            /\ EntryFits(adapter, wire, view.transcript[i])'
            /\ \/ view'.transcript[i].live = view.transcript[i].live
               \/ \A r \in DOMAIN requests :
                    requests[r].state = "served" /\ env.cursor <= requests[r].snapshot.cursor =>
                      view.transcript[i].message <= requests[r].snapshot.messages
  PROVE  Kept
  <1>1. PICK old, new : old = view.transcript /\ new = view'.transcript
    OBVIOUS
  <1>2. Apart(old)
    BY <1>1, Before DEF TranscriptFits
  <1>3. Apart(new)
    BY <1>1, <1>2 DEF Apart
  <1>4. TranscriptFits(adapter, wire)'
    <2>1. Apart(view.transcript)'
      BY <1>1, <1>3 DEF Apart
    <2> QED
      BY <2>1 DEF TranscriptFits
  <1>5. Final(view) \subseteq Final(view')
    BY DEF Final
  <1>6. ASSUME NEW k \in Final(view')
        PROVE  \/ k \in Final(view)
               \/ \A r \in DOMAIN requests :
                    requests[r].state = "served" /\ env.cursor <= requests[r].snapshot.cursor =>
                      k <= requests[r].snapshot.messages
    <2>1. k \in Message
      BY DEF Final
    <2>2. PICK i \in DOMAIN view.transcript : view'.transcript[i].message = k /\ ~ view'.transcript[i].live
      BY DEF Final
    <2>3. view.transcript[i].message = k
      BY <2>2
    <2>4. view.transcript[i].live \in BOOLEAN /\ view'.transcript[i].live \in BOOLEAN
      <3>1. view'.transcript \in Seq(EntryType)
        BY DEF Received, BrowserStep, ViewType
      <3>2. view'.transcript[i] \in EntryType
        BY <3>1, LenProperties, ElementOfSeq
      <3> QED
        BY <3>2, AfterReceiving DEF EntryType
    <2>5. CASE view'.transcript[i].live = view.transcript[i].live
      BY <2>1, <2>2, <2>3, <2>4, <2>5 DEF Final
    <2>6. CASE view'.transcript[i].live # view.transcript[i].live
      BY <2>3, <2>6
    <2> QED
      BY <2>5, <2>6
  <1> QED
    BY <1>4, <1>5, <1>6, DeliveredKeeps DEF Received

\* An entry that an envelope is about is the entry of its message.
LEMMA EntryOfMessage ==
  ASSUME DeliveryInvariant, NEW env, NEW k, About(adapter, env, k),
         NEW e \in EntryType, EntryFits(adapter, wire, e), e.id = env.entry
  PROVE  e.message = k /\ e.id # NoId
  <1>1. k \in Message /\ env.entry = adapter.entry[k] /\ env.entry # NoEntry /\ e.message \in Message
    BY DEF About, EntryType
  <1>2. e.id # NoId /\ adapter.entry[e.message] = adapter.entry[k]
    BY <1>1 DEF EntryFits, NoId, NoEntry
  <1> QED
    BY <1>1, <1>2, Before DEF EntriesFit

\* It updates an entry that is live: a text replaces the entry's, or continues it.
LEMMA UpdateKeeps ==
  ASSUME DeliveryInvariant, NEW env, Received(env), env.type = "update",
         view.snapshotAt < env.cursor,
         env.start = Replaces \/ \E i \in DOMAIN view.transcript : Fitting(env, view.transcript[i]),
         DOMAIN view'.transcript = DOMAIN view.transcript,
         \A i \in DOMAIN view.transcript : view'.transcript[i] = Updated(env, view.transcript[i])
  PROVE  Kept
  <1>1. PICK k \in Message :
           /\ About(adapter, env, k)
           /\ Continues(env.text, IF env.start = Replaces THEN 0 ELSE env.start, adapter.text[k])
    BY DEF Received, Tells
  <1>2. /\ env \in EnvelopeType /\ env.text \in Text /\ adapter.text[k] \in Text
        /\ 1 \in DOMAIN wire.queue /\ env = wire.queue[1]
    BY Before DEF Received, EnvelopeType, AdapterType
  <1>3. ASSUME NEW i \in DOMAIN view.transcript
        PROVE  /\ view'.transcript[i].id = view.transcript[i].id
               /\ view'.transcript[i].message = view.transcript[i].message
               /\ view'.transcript[i].live = view.transcript[i].live
               /\ EntryFits(adapter, wire, view.transcript[i])'
    <2>1. PICK e, new : e = view.transcript[i] /\ new = view'.transcript[i]
      OBVIOUS
    <2>2. e \in EntryType /\ EntryFits(adapter, wire, e) /\ EntryFits(adapter, wire, e)'
      BY <2>1, AfterReceiving
    <2>3. CASE e.id # env.entry
      BY <2>1, <2>2, <2>3 DEF Updated
    <2>4. CASE e.id = env.entry
      <3> DEFINE text == IF env.start = Replaces THEN env.text ELSE e.text \o env.text
      <3>1. new = [e EXCEPT !.text = text]
        BY <2>1, <2>4 DEF Updated
      <3>2. e.message = k /\ e.id # NoId
        BY <1>1, <2>2, <2>4, EntryOfMessage
      <3>3. e.live
        BY <1>2, <2>2, <2>4, <3>2 DEF EntryFits
      <3>4. e.text \in Text /\ Continues(e.text, 0, adapter.text[k])
        BY <2>2, <3>2, <3>3 DEF EntryFits, EntryType
      <3>5. text \in Text /\ Continues(text, 0, adapter.text[k])
        <4>1. CASE env.start = Replaces
          BY <1>1, <1>2, <4>1
        <4>2. CASE env.start # Replaces
          <5>1. PICK j \in DOMAIN view.transcript :
                  view.transcript[j].id = env.entry /\ Len(view.transcript[j].text) = env.start
            BY <4>2 DEF Fitting
          <5>2. j = i
            <6>1. Apart(view.transcript)
              BY Before DEF TranscriptFits
            <6> QED
              BY <2>1, <2>4, <3>2, <5>1, <6>1 DEF Apart
          <5>3. Len(e.text) = env.start
            BY <2>1, <5>1, <5>2
          <5>4. Continues(env.text, Len(e.text), adapter.text[k])
            BY <1>1, <4>2, <5>3
          <5>5. e.text \o env.text \in Text /\ Continues(e.text \o env.text, 0, adapter.text[k])
            BY <1>2, <3>4, <5>4, JoinedTexts, TextsBegin
          <5> QED
            BY <4>2, <5>5
        <4> QED
          BY <4>1, <4>2
      <3> HIDE DEF text
      <3>6. /\ new \in EntryType /\ new.id = e.id /\ new.message = e.message /\ new.live = e.live
            /\ new.text = text
        BY <2>2, <3>1, <3>5 DEF EntryType
      <3>7. EntryFits(adapter, wire, new)'
        <4>1. adapter' = adapter
          BY AfterReceiving
        <4> QED
          BY <2>2, <3>2, <3>3, <3>5, <3>6, <4>1 DEF EntryFits
      <3> QED
        BY <2>1, <3>6, <3>7
    <2> QED
      BY <2>3, <2>4
  <1> QED
    BY <1>3, RevisedKeeps

\* It finalizes an entry: the entry shows the whole message.
LEMMA FinalizeKeeps ==
  ASSUME DeliveryInvariant, NEW env, Received(env), env.type = "finalize",
         view.snapshotAt < env.cursor,
         DOMAIN view'.transcript = DOMAIN view.transcript,
         \A i \in DOMAIN view.transcript : view'.transcript[i] = Finalized(env, view.transcript[i])
  PROVE  Kept
  <1>1. PICK k \in Message :
           /\ About(adapter, env, k) /\ env.text = FullText(k) /\ Completed(k) <= adapter.cursor
           /\ \A r \in DOMAIN requests :
                requests[r].state = "served" /\ env.cursor <= requests[r].snapshot.cursor =>
                  k <= requests[r].snapshot.messages
    BY DEF Received, Tells
  <1>2. /\ env \in EnvelopeType /\ env.text \in Text
        /\ 1 \in DOMAIN wire.queue /\ env = wire.queue[1] /\ WireFits(adapter, hub, wire)
        /\ wire.queue \in Seq(EnvelopeType)
    BY Before DEF Received, EnvelopeType
  <1>3. ASSUME NEW j \in DOMAIN wire'.queue, wire'.queue[j].type = "update"
        PROVE  wire'.queue[j].entry # env.entry
    <2>1. PICK i \in DOMAIN wire.queue : i # 1 /\ wire.queue[i] = wire'.queue[j]
      BY DEF Received
    <2>2. Len(wire.queue) \in Nat /\ DOMAIN wire.queue = 1 .. Len(wire.queue)
      BY <1>2, LenProperties
    <2>3. 1 < i
      BY <2>1, <2>2
    <2>4. wire.queue[1].type = "finalize" /\ wire.queue[i].type = "update"
      BY <1>2, <1>3, <2>1
    <2>5. wire.queue[1].entry # wire.queue[i].entry
      BY <1>2, <2>1, <2>3, <2>4 DEF WireFits
    <2> QED
      BY <1>2, <2>1, <2>5
  <1>4. ASSUME NEW i \in DOMAIN view.transcript
        PROVE  /\ view'.transcript[i].id = view.transcript[i].id
               /\ view'.transcript[i].message = view.transcript[i].message
               /\ ~ view.transcript[i].live => ~ view'.transcript[i].live
               /\ EntryFits(adapter, wire, view.transcript[i])'
               /\ \/ view'.transcript[i].live = view.transcript[i].live
                  \/ \A r \in DOMAIN requests :
                       requests[r].state = "served" /\ env.cursor <= requests[r].snapshot.cursor =>
                         view.transcript[i].message <= requests[r].snapshot.messages
    <2>1. PICK e, new : e = view.transcript[i] /\ new = view'.transcript[i]
      OBVIOUS
    <2>2. e \in EntryType /\ EntryFits(adapter, wire, e) /\ EntryFits(adapter, wire, e)'
      BY <2>1, AfterReceiving
    <2>3. CASE e.id # env.entry
      BY <2>1, <2>2, <2>3 DEF Finalized
    <2>4. CASE e.id = env.entry
      <3>1. new = [e EXCEPT !.text = env.text, !.live = FALSE]
        BY <2>1, <2>4 DEF Finalized
      <3>2. e.message = k /\ e.id # NoId
        BY <1>1, <2>2, <2>4, EntryOfMessage
      <3>3. /\ new \in EntryType /\ new.id = e.id /\ new.message = e.message /\ new.live = FALSE
            /\ new.text = env.text
        BY <1>2, <2>2, <3>1 DEF EntryType
      <3>4. EntryFits(adapter, wire, new)'
        <4>1. adapter' = adapter /\ thread' = thread /\ FullText(k)' = FullText(k)
          BY AfterReceiving DEF FullText
        <4>2. Completed(k) <= thread.seq
          <5>1. k \in Nat /\ Completed(k) \in Nat
            BY <1>1 DEF About, Message, Completed
          <5>2. adapter.cursor \in Nat /\ thread.seq \in Nat /\ adapter.cursor <= thread.seq
            BY Before DEF AdapterType, ThreadType
          <5> QED
            BY <1>1, <5>1, <5>2
        <4>3. new.id = adapter'.entry[new.message] /\ new.id <= view'.lastCursor
          BY <2>2, <3>2, <3>3, <4>1 DEF EntryFits
        <4> QED
          BY <1>1, <1>3, <2>4, <3>2, <3>3, <4>1, <4>2, <4>3 DEF EntryFits
      <3> QED
        BY <1>1, <2>1, <3>2, <3>3, <3>4
    <2> QED
      BY <2>3, <2>4
  <1> QED
    BY <1>4, RevisedKeeps

\* A transcript whose entries are revised.
LEMMA RevisedTranscript ==
  ASSUME NEW t \in Seq(EntryType), NEW new, new = [i \in DOMAIN t |-> new[i]],
         \A i \in DOMAIN t : new[i] \in EntryType
  PROVE  new \in Seq(EntryType)
  <1>1. PICK n \in Nat : n = Len(t) /\ DOMAIN t = 1 .. n
    BY LenProperties
  <1> QED
    BY <1>1

\* The browser is told that what it misses cannot be replayed.
LEMMA ResetKeeps ==
  ASSUME DeliveryInvariant, Receive, Head(wire.queue).type = "reset"
  PROVE  Kept
  <1>1. PICK env : env = Head(wire.queue)
    OBVIOUS
  <1>2. /\ wire.queue # << >> /\ env.type = "reset"
        /\ source' = [phase |-> "suspended", cursor |-> env.cursor]
        /\ view' = ReduceReset(view, env)
        /\ wire' = [queue |-> << >>, attached |-> FALSE]
        /\ thread' = thread /\ buffer' = buffer /\ adapter' = adapter /\ hub' = hub
        /\ requests' = requests /\ budget' = budget
    BY <1>1 DEF Receive, ReduceEnvelope
  <1>3. env = wire.queue[1] /\ 1 \in DOMAIN wire.queue /\ env \in EnvelopeType
    <2>1. wire.queue \in Seq(EnvelopeType)
      BY Before
    <2>2. Head(wire.queue) = wire.queue[1] /\ 1 \in DOMAIN wire.queue
      BY <1>2, <2>1, EmptySeq, HeadTailProperties, LenProperties
    <2> QED
      BY <1>1, <2>1, <2>2, Before
  <1>4. view.lastCursor <= env.cursor /\ env.cursor < hub.next /\ env.cursor \in Nat
    BY <1>2, <1>3, Before DEF WireFits, Resets, EnvelopeType
  <1>5. /\ view \in ViewType /\ ViewFits(adapter, hub) /\ requests \in Seq(RequestType)
        /\ budget \in Scenario /\ view.lastCursor \in Nat
    BY Before DEF ViewType
  <1>6. /\ view' \in ViewType /\ view'.connection = "replay-required" /\ view'.lastCursor = env.cursor
        /\ view'.lastEvent = 0 /\ view'.dirty = TRUE /\ view'.transcript = view.transcript
        /\ view'.request = view.request
    <2> DEFINE c == env.cursor
    <2>1. /\ view' = [view EXCEPT !.connection = "replay-required", !.lastCursor = c,
                                  !.lastEvent = 0, !.snapshotAt = 0, !.dirty = TRUE]
          /\ c \in Nat /\ "replay-required" \in Connection
      BY <1>2, <1>4 DEF ReduceReset, Connection
    <2> HIDE DEF c
    <2>2. /\ view' \in ViewType /\ view'.connection = "replay-required" /\ view'.lastCursor = c
          /\ view'.lastEvent = 0 /\ view'.dirty = TRUE /\ view'.transcript = view.transcript
          /\ view'.request = view.request
      BY <1>5, <2>1 DEF ViewType
    <2> QED
      BY <2>2 DEF c
  <1>7. source' \in SourceType /\ source'.cursor = env.cursor /\ source'.phase = "suspended"
    BY <1>2, <1>4 DEF SourceType, Phase
  <1>8. BrowserStep
    BY <1>2, <1>5, <1>6, <1>7 DEF BrowserStep
  <1>9. WireFits(adapter, hub, wire)' /\ DOMAIN wire'.queue = {}
    BY <1>2, <1>8, NoResponse
  <1>10. \A e : Tells(adapter, e) => Tells(adapter, e)'
    BY <1>2, <1>8, RequestsLeft, TellsQuietly
  <1>11. view.lastCursor <= view'.lastCursor
    BY <1>4, <1>6
  <1>12. TranscriptFits(adapter, wire)'
    BY <1>6, <1>8, <1>9, <1>11, TranscriptKept
  <1>13. ViewFits(adapter, hub)'
    BY <1>2, <1>4, <1>6, <1>7 DEF ViewFits
  <1>14. Final(view)' = Final(view) /\ Final(view') = Final(view)
    BY <1>6 DEF Final
  <1>15. ASSUME NEW r \in DOMAIN requests' PROVE SnapshotFits(adapter, hub, r)'
    <2> SUFFICES ASSUME requests[r].state = "served"
                 PROVE  SnapshotFits(adapter, hub, r)'
      BY <1>2 DEF SnapshotFits
    <2>1. SnapshotFits(adapter, hub, r)
      BY <1>2, Before
    <2>2. requests[r].snapshot.cursor \in 0 .. hub.next - 1
      BY <2>1 DEF SnapshotFits
    <2>3. requests[r].snapshot.cursor < view.lastCursor => requests[r].snapshot.cursor < view'.lastCursor
      BY <1>4, <1>5, <1>6, <2>2
    <2> QED
      BY <1>2, <1>6, <1>14, <2>1, <2>3 DEF SnapshotFits
  <1>16. DeliveryInvariant'
    BY <1>2, <1>8, <1>9, <1>10, <1>12, <1>13, <1>15, PartsKept
  <1> QED
    BY <1>6, <1>14, <1>16 DEF Kept, Replays, Stays

\* The browser receives an envelope.
LEMMA ReceiveKeeps ==
  ASSUME DeliveryInvariant, Receive, Head(wire.queue).type # "reset"
  PROVE  Kept
  <1>1. PICK env : env = Head(wire.queue)
    OBVIOUS
  <1>2. /\ source.phase = "open" /\ wire.queue # << >> /\ env.type # "reset"
        /\ wire' = [wire EXCEPT !.queue = Tail(@)]
        /\ IF env.cursor <= source.cursor THEN source' = source /\ view' = view
           ELSE /\ source' = [source EXCEPT !.cursor = env.cursor]
                /\ view' = ReduceEnvelope(view, env)
        /\ thread' = thread /\ buffer' = buffer /\ adapter' = adapter /\ hub' = hub
        /\ requests' = requests /\ budget' = budget
    BY <1>1 DEF Receive
  <1>3. env = wire.queue[1] /\ 1 \in DOMAIN wire.queue /\ env \in EnvelopeType
    <2>1. wire.queue \in Seq(EnvelopeType)
      BY Before
    <2>2. Head(wire.queue) = wire.queue[1] /\ 1 \in DOMAIN wire.queue
      BY <1>2, <2>1, EmptySeq, HeadTailProperties, LenProperties
    <2> QED
      BY <1>1, <2>1, <2>2, Before
  <1>4. /\ source.cursor < env.cursor /\ env.cursor < hub.next /\ Tells(adapter, env)
        /\ \A d \in hub.durable : ~ (source.cursor < d /\ d < env.cursor)
        /\ env.cursor \in Nat
    <2>1. CursorBefore(wire, 1) = source.cursor
      BY DEF CursorBefore
    <2>2. env.cursor \in Nat
      BY <1>3 DEF EnvelopeType
    <2>3. WireFits(adapter, hub, wire)
      BY Before
    <2>4. /\ CursorBefore(wire, 1) < env.cursor /\ env.cursor < hub.next /\ Tells(adapter, env)
          /\ \A d \in hub.durable : ~ (CursorBefore(wire, 1) < d /\ d < env.cursor)
      BY <1>2, <1>3, <2>3 DEF WireFits
    <2> QED
      BY <2>1, <2>2, <2>4
  <1>5. /\ view \in ViewType /\ ViewFits(adapter, hub) /\ requests \in Seq(RequestType)
        /\ budget \in Scenario /\ source \in SourceType /\ view.lastCursor \in Nat /\ source.cursor \in Nat
        /\ view.transcript \in Seq(EntryType)
    BY Before DEF ViewType, SourceType
  <1>6. /\ source' = [source EXCEPT !.cursor = env.cursor] /\ view' = ReduceEnvelope(view, env)
    BY <1>2, <1>4, <1>5
  <1>7. source' \in SourceType /\ source'.cursor = env.cursor /\ source'.phase = "open"
    BY <1>2, <1>4, <1>5, <1>6 DEF SourceType
  <1>8. ASSUME view' \in ViewType
        PROVE  /\ BrowserStep /\ WireFits(adapter, hub, wire)'
               /\ \A j \in DOMAIN wire'.queue : \E i \in DOMAIN wire.queue : i # 1 /\ wire.queue[i] = wire'.queue[j]
    <2>1. BrowserStep
      BY <1>2, <1>5, <1>7, <1>8 DEF BrowserStep
    <2> QED
      BY <1>1, <1>2, <1>7, <2>1, RequestsLeft, TellsQuietly, ResponseMoves
  <1>9. CASE view.connection = "replay-required"
    <2>1. view' = view
      BY <1>2, <1>6, <1>9 DEF ReduceEnvelope
    <2>2. /\ BrowserStep /\ WireFits(adapter, hub, wire)'
          /\ \A j \in DOMAIN wire'.queue : \E i \in DOMAIN wire.queue : i # 1 /\ wire.queue[i] = wire'.queue[j]
      BY <1>5, <1>8, <2>1
    <2>3. NoneServed
      BY <1>2, RequestsLeft
    <2>4. view'.lastEvent = view.lastEvent /\ source'.cursor < hub.next
      BY <1>4, <1>7, <2>1
    <2> QED
      BY <1>9, <2>1, <2>2, <2>3, <2>4, QuietStep
  <1>10. CASE view.connection # "replay-required"
    <2>1. source.cursor = view.lastCursor
      BY <1>2, <1>5, <1>10 DEF ViewFits
    <2>2. PICK received : received = [view EXCEPT !.lastCursor = env.cursor, !.lastEvent = env.cursor]
      OBVIOUS
    <2>3. view' = IF env.cursor <= view.snapshotAt THEN received ELSE ReduceRuntimeEvent(received, env)
      BY <1>2, <1>4, <1>5, <1>6, <1>10, <2>1, <2>2 DEF ReduceEnvelope
    <2>4. received.transcript = view.transcript
      BY <1>5, <2>2 DEF ViewType
    <2>5. env.cursor <= view.snapshotAt \/ view.snapshotAt < env.cursor
      BY <1>4, <1>5 DEF ViewType
    <2>6. ASSUME NEW t \in Seq(EntryType),
                 \/ view' = received
                 \/ view' = [received EXCEPT !.transcript = t]
                 \/ view' = [received EXCEPT !.connection = "replay-required"]
          PROVE  /\ Received(env)
                 /\ view' = [received EXCEPT !.transcript = t] => view'.transcript = t
                 /\ view' = received \/ view' = [received EXCEPT !.connection = "replay-required"] =>
                      view'.transcript = view.transcript
      <3>1. /\ view' \in ViewType /\ view'.lastCursor = env.cursor /\ view'.lastEvent = env.cursor
            /\ view'.request = view.request /\ view'.status = view.status /\ view'.dirty = view.dirty
            /\ view'.settled = view.settled /\ view'.snapshotAt = view.snapshotAt
            /\ view' = [received EXCEPT !.transcript = t] => view'.transcript = t
            /\ view' = received \/ view' = [received EXCEPT !.connection = "replay-required"] =>
                      view'.transcript = view.transcript
        <4>1. PICK c : c = env.cursor
          OBVIOUS
        <4>2. c \in Nat /\ received = [view EXCEPT !.lastCursor = c, !.lastEvent = c]
          BY <1>4, <2>2, <4>1
        <4>3. /\ received \in ViewType /\ received.lastCursor = c /\ received.lastEvent = c
              /\ received.request = view.request /\ received.status = view.status
              /\ received.dirty = view.dirty /\ received.settled = view.settled
              /\ received.snapshotAt = view.snapshotAt /\ received.transcript = view.transcript
          BY <1>5, <4>2 DEF ViewType
        <4> QED
          BY <2>6, <4>1, <4>3, ViewMoves
      <3>2. Received(env)
        BY <1>2, <1>3, <1>4, <1>7, <1>8, <2>1, <3>1 DEF Received
      <3> QED
        BY <3>1, <3>2
    <2>7. ASSUME view' = received \/ view' = [received EXCEPT !.connection = "replay-required"]
          PROVE  Kept
      <3>1. Received(env) /\ view'.transcript = view.transcript
        BY <1>5, <2>6, <2>7
      <3> QED
        BY <3>1, PassedOverKeeps
    <2>8. CASE env.cursor <= view.snapshotAt \/ env.type = "thread"
      BY <2>3, <2>7, <2>8 DEF ReduceRuntimeEvent
    <2>9. CASE view.snapshotAt < env.cursor /\ env.type = "append"
      <3> DEFINE t == Append(view.transcript, LiveEntry(env.entry, env.message))
      <3>1. t \in Seq(EntryType)
        <4> DEFINE e == LiveEntry(env.entry, env.message)
                   none == << >>
        <4>1. env.message \in Message /\ env.entry \in Nat /\ none \in Text
          BY <1>3, <1>4, <2>9, EmptySeq DEF Tells, About, EnvelopeType, Text
        <4>2. e = [id |-> env.entry, message |-> env.message, text |-> none, live |-> TRUE]
          BY DEF LiveEntry
        <4> HIDE DEF none
        <4>3. e \in EntryType
          BY <4>1, <4>2 DEF EntryType
        <4> HIDE DEF e
        <4> QED
          BY <1>5, <4>3, AppendProperties DEF e
      <3>2. view' = [received EXCEPT !.transcript = t]
        <4>1. view' = ReduceRuntimeEvent(received, env)
          BY <1>4, <1>5, <2>3, <2>9 DEF ViewType
        <4> QED
          BY <2>4, <2>9, <4>1 DEF ReduceRuntimeEvent
      <3> HIDE DEF t
      <3>3. Received(env) /\ view'.transcript = t
        BY <2>6, <3>1, <3>2
      <3> QED
        BY <2>9, <3>3, AppendKeeps DEF t
    <2>10. CASE view.snapshotAt < env.cursor /\ env.type = "update"
      <3>1. view' = ReduceUpdate(received, env)
        <4>1. view' = ReduceRuntimeEvent(received, env)
          BY <1>4, <1>5, <2>3, <2>10 DEF ViewType
        <4> QED
          BY <2>10, <4>1 DEF ReduceRuntimeEvent
      <3> DEFINE t == [i \in DOMAIN view.transcript |-> Updated(env, view.transcript[i])]
                 Fits == \E i \in DOMAIN view.transcript : Fitting(env, view.transcript[i])
      <3>2. view' = IF env.start # Replaces /\ ~ Fits
                    THEN [received EXCEPT !.connection = "replay-required"]
                    ELSE [received EXCEPT !.transcript =
                            [i \in DOMAIN received.transcript |-> Updated(env, received.transcript[i])]]
        BY <2>4, <3>1 DEF ReduceUpdate
      <3>3. CASE env.start # Replaces /\ ~ Fits
        <4> HIDE DEF Fits
        <4> QED
          BY <2>7, <3>2, <3>3
      <3>4. CASE env.start = Replaces \/ Fits
        <4>1. t \in Seq(EntryType)
          <5>1. ASSUME NEW e \in EntryType PROVE Updated(env, e) \in EntryType
            <6> DEFINE text == IF env.start = Replaces THEN env.text ELSE e.text \o env.text
            <6>1. text \in Text
              <7>1. env.text \in Text /\ e.text \in Text
                BY <1>3 DEF EnvelopeType, EntryType
              <7> QED
                BY <7>1, TextsBegin
            <6>2. Updated(env, e) = IF e.id # env.entry THEN e ELSE [e EXCEPT !.text = text]
              BY DEF Updated
            <6> HIDE DEF text
            <6> QED
              BY <6>1, <6>2 DEF EntryType
          <5>2. t = [i \in DOMAIN view.transcript |-> t[i]]
            OBVIOUS
          <5>3. \A i \in DOMAIN view.transcript : t[i] \in EntryType
            BY <5>1, Before
          <5> HIDE DEF t
          <5> QED
            BY <1>5, <5>2, <5>3, RevisedTranscript
        <4>2. view' = [received EXCEPT !.transcript = t]
          BY <2>4, <3>2, <3>4
        <4>3. /\ DOMAIN t = DOMAIN view.transcript
              /\ \A i \in DOMAIN view.transcript : t[i] = Updated(env, view.transcript[i])
          OBVIOUS
        <4> HIDE DEF t
        <4>4. Received(env) /\ view'.transcript = t
          BY <2>6, <4>1, <4>2
        <4> QED
          BY <2>10, <3>4, <4>3, <4>4, UpdateKeeps
      <3> QED
        BY <3>3, <3>4
    <2>11. CASE view.snapshotAt < env.cursor /\ env.type = "finalize"
      <3>1. view' = ReduceFinalize(received, env)
        <4>1. view' = ReduceRuntimeEvent(received, env)
          BY <1>4, <1>5, <2>3, <2>11 DEF ViewType
        <4> QED
          BY <2>11, <4>1 DEF ReduceRuntimeEvent
      <3> DEFINE t == [i \in DOMAIN view.transcript |-> Finalized(env, view.transcript[i])]
      <3>2. view' = [received EXCEPT !.transcript = t]
        BY <2>4, <3>1 DEF ReduceFinalize
      <3>3. t \in Seq(EntryType)
        <4>1. ASSUME NEW e \in EntryType PROVE Finalized(env, e) \in EntryType
          <5>1. env.text \in Text
            BY <1>3 DEF EnvelopeType
          <5> QED
            BY <5>1 DEF Finalized, EntryType
        <4>2. t = [i \in DOMAIN view.transcript |-> t[i]]
          OBVIOUS
        <4>3. \A i \in DOMAIN view.transcript : t[i] \in EntryType
          BY <4>1, Before
        <4> HIDE DEF t
        <4> QED
          BY <1>5, <4>2, <4>3, RevisedTranscript
      <3>4. DOMAIN t = DOMAIN view.transcript
            /\ \A i \in DOMAIN view.transcript : t[i] = Finalized(env, view.transcript[i])
        OBVIOUS
      <3> HIDE DEF t
      <3>5. Received(env) /\ view'.transcript = t
        BY <2>6, <3>2, <3>3
      <3> QED
        BY <2>11, <3>4, <3>5, FinalizeKeeps
    <2>12. env.type \in {"thread", "append", "update", "finalize"}
      BY <1>2, <1>3 DEF EnvelopeType, Kind
    <2> QED
      BY <2>5, <2>8, <2>9, <2>10, <2>11, <2>12
  <1> QED
    BY <1>9, <1>10

\* The messages that have ended are the first ones.
LEMMA FirstMessages ==
  ASSUME thread \in ThreadType
  PROVE  /\ Cardinality(Done) \in 0 .. N
         /\ \A k \in Message : Completed(k) <= thread.seq <=> k <= Cardinality(Done)
         /\ thread.seq = LastSeq => Cardinality(Done) = N
  <1>1. PICK seq \in 0 .. 2 * N + 1 : seq = thread.seq
    BY SizesAssumption DEF ThreadType, LastSeq
  <1> DEFINE m == seq \div 2
  <1>2. m \in 0 .. N /\ 2 * m <= seq /\ seq < 2 * m + 2
    BY <1>1, SizesAssumption
  <1> HIDE DEF m
  <1>3. ASSUME NEW k \in Message
        PROVE  Completed(k) <= thread.seq <=> k <= m
    BY <1>1, <1>2, SizesAssumption DEF Completed, Message
  <1>4. Done = 1 .. m
    <2>1. \A k \in Message : k \in Done <=> k <= m
      BY <1>1, <1>3, SizesAssumption DEF Done, Completed, Message
    <2>2. Done \subseteq Message /\ 1 .. m \subseteq Message
      BY <1>2, SizesAssumption DEF Done, Message
    <2>3. \A k \in Message : k \in 1 .. m <=> k <= m
      BY <1>2, SizesAssumption DEF Message
    <2> QED
      BY <2>1, <2>2, <2>3
  <1>5. Cardinality(Done) = m
    BY <1>2, <1>4, FS_Interval
  <1>6. thread.seq = LastSeq => m = N
    BY <1>1, <1>2, SizesAssumption DEF LastSeq
  <1> QED
    BY <1>2, <1>3, <1>5, <1>6

\* The Host takes a snapshot.
LEMMA ServeKeeps ==
  ASSUME DeliveryInvariant, NEW r \in DOMAIN requests, Serve(r)
  PROVE  Kept
  <1>1. /\ requests[r].state = "asked" /\ view' = view /\ source' = source /\ wire' = wire
        /\ thread' = thread /\ buffer' = buffer /\ adapter' = adapter /\ hub' = hub
        /\ requests' = [requests EXCEPT ![r] = [state |-> "served", snapshot |-> Snapshot]]
        /\ budget' = budget
    BY DEF Serve, feedVars
  <1> DEFINE m == Cardinality(Done)
  <1>2. /\ m \in 0 .. N /\ \A k \in Message : Completed(k) <= thread.seq <=> k <= m
        /\ thread.seq = LastSeq => m = N
    BY Before, FirstMessages
  <1>3. /\ hub.next \in Nat /\ 1 <= hub.next /\ adapter.cursor \in Nat /\ thread.seq \in 0 .. LastSeq
        /\ adapter.cursor <= thread.seq /\ LastSeq \in Nat /\ N \in Nat
        /\ requests \in Seq(RequestType) /\ view \in ViewType /\ source \in SourceType
        /\ budget \in Scenario
    BY Before, SizesAssumption DEF HubType, AdapterType, ThreadType, LastSeq
  <1>4. Snapshot = [messages |-> m, cursor |-> hub.next - 1, processing |-> Processing]
    BY DEF Snapshot
  <1> HIDE DEF m
  <1>5. PICK snapshot : /\ snapshot = Snapshot
                        /\ snapshot.messages = m /\ snapshot.cursor = hub.next - 1
                        /\ snapshot.processing = Processing
                        /\ snapshot \in SnapshotType
    <2> DEFINE c == hub.next - 1
    <2>1. c \in Nat /\ m \in Nat /\ Processing \in BOOLEAN
      BY <1>2, <1>3 DEF Processing
    <2> HIDE DEF c
    <2>2. [messages |-> m, cursor |-> c, processing |-> Processing] \in SnapshotType
      BY <2>1 DEF SnapshotType
    <2> QED
      BY <1>4, <2>2 DEF c
  <1>6. /\ requests' \in Seq(RequestType) /\ DOMAIN requests' = DOMAIN requests
        /\ requests'[r].state = "served" /\ requests'[r].snapshot = snapshot
        /\ \A i \in DOMAIN requests : i # r => requests'[i] = requests[i]
    <2> DEFINE answer == [state |-> "served", snapshot |-> snapshot]
    <2>1. answer \in RequestType /\ answer.state = "served" /\ answer.snapshot = snapshot
      BY <1>5 DEF RequestType
    <2>2. r \in 1 .. Len(requests) /\ DOMAIN requests = 1 .. Len(requests)
      BY <1>3, LenProperties
    <2>3. requests' = [requests EXCEPT ![r] = answer]
      BY <1>1, <1>5
    <2> HIDE DEF answer
    <2>4. requests' \in Seq(RequestType) /\ DOMAIN requests' = DOMAIN requests
      BY <1>3, <2>1, <2>2, <2>3, ExceptSeq
    <2> QED
      BY <2>1, <2>3, <2>4
  <1>7. BrowserStep
    BY <1>1, <1>3, <1>6 DEF BrowserStep
  <1>8. ASSUME NEW k \in Message, Completed(k) <= adapter.cursor PROVE k <= m
    <2>1. Completed(k) \in Nat
      BY <1>3 DEF Completed, Message
    <2>2. Completed(k) <= thread.seq
      BY <1>3, <1>8, <2>1
    <2> QED
      BY <1>2, <2>2
  <1>9. ASSUME NEW env, Tells(adapter, env) PROVE Tells(adapter, env)'
    <2>1. \A k \in Message : FullText(k)' = FullText(k) /\ (About(adapter, env, k)' <=> About(adapter, env, k))
      BY <1>1 DEF FullText, About
    <2>2. env.type = "append" => About(adapter, env, env.message)'
      BY <1>1, <1>9 DEF Tells, About
    <2>3. ASSUME env.type = "finalize"
          PROVE  \E k \in Message :
                   /\ About(adapter, env, k) /\ env.text = FullText(k) /\ Completed(k) <= adapter.cursor
                   /\ \A i \in DOMAIN requests' :
                        requests'[i].state = "served" /\ env.cursor <= requests'[i].snapshot.cursor =>
                          k <= requests'[i].snapshot.messages
      <3>1. PICK k \in Message :
              /\ About(adapter, env, k) /\ env.text = FullText(k) /\ Completed(k) <= adapter.cursor
              /\ \A i \in DOMAIN requests :
                   requests[i].state = "served" /\ env.cursor <= requests[i].snapshot.cursor =>
                     k <= requests[i].snapshot.messages
        BY <1>9, <2>3 DEF Tells
      <3>2. ASSUME NEW i \in DOMAIN requests', requests'[i].state = "served",
                   env.cursor <= requests'[i].snapshot.cursor
            PROVE  k <= requests'[i].snapshot.messages
        <4>1. CASE i = r
          BY <1>5, <1>6, <1>8, <3>1, <4>1
        <4>2. CASE i # r
          BY <1>6, <3>1, <3>2, <4>2
        <4> QED
          BY <4>1, <4>2
      <3> QED
        BY <3>1, <3>2
    <2> QED
      BY <1>1, <1>9, <2>1, <2>2, <2>3 DEF Tells
  <1>10. WireFits(adapter, hub, wire)'
    BY <1>1, <1>7, <1>9, WireKept
  <1>11. TranscriptFits(adapter, wire)'
    <2>1. view.lastCursor <= view.lastCursor
      BY <1>3 DEF ViewType
    <2> QED
      BY <1>1, <1>7, <2>1, ResponseLeft, TranscriptKept
  <1>12. ViewFits(adapter, hub)'
    <2>1. \A k \in Message : SnapshotEntry(k)' = SnapshotEntry(k)
      BY <1>1 DEF SnapshotEntry, FullText
    <2> QED
      BY <1>1, <2>1, Before DEF ViewFits
  <1>13. Final(view)' = Final(view)
    BY <1>1 DEF Final
  <1>14. ASSUME NEW i \in DOMAIN requests' PROVE SnapshotFits(adapter, hub, i)'
    <2>1. CASE i # r
      BY <1>1, <1>6, <1>13, <2>1, Before DEF SnapshotFits
    <2>2. CASE i = r
      <3>1. \A k \in 1 .. m : Completed(k) <= thread.seq
        BY <1>2, <1>3 DEF Message
      <3>2. ~ Processing => adapter.cursor = LastSeq /\ m = N
        BY <1>2, <1>3 DEF Processing
      <3>3. Final(view) \subseteq 1 .. m
        <4> SUFFICES ASSUME NEW k \in Final(view)
                     PROVE  k \in 1 .. m
          OBVIOUS
        <4>1. PICK j \in DOMAIN view.transcript : view.transcript[j].message = k /\ ~ view.transcript[j].live
          BY DEF Final
        <4>2. EntryFits(adapter, wire, view.transcript[j]) /\ k \in Message
          BY Before DEF TranscriptFits, Final
        <4>3. Completed(k) <= thread.seq
          BY <4>1, <4>2 DEF EntryFits
        <4> QED
          BY <1>2, <1>3, <4>2, <4>3 DEF Message
      <3>4. hub.next - 1 \in 0 .. hub.next - 1
        BY <1>3
      <3> QED
        BY <1>1, <1>2, <1>5, <1>6, <1>13, <2>2, <3>1, <3>2, <3>3, <3>4 DEF SnapshotFits
    <2> QED
      BY <2>1, <2>2
  <1>15. DeliveryInvariant'
    BY <1>7, <1>9, <1>10, <1>11, <1>12, <1>14, PartsKept
  <1>16. view.lastCursor \in Nat
    BY <1>3 DEF ViewType
  <1> QED
    BY <1>1, <1>15, <1>16 DEF Kept, Replays, Stays

\* The transcript of a snapshot, with the entries that are still live behind it.
LEMMA SnapshotTranscript ==
  ASSUME DeliveryInvariant, NEW m \in 0 .. N, NEW pending \in Seq(EntryType), Apart(pending),
         \A i \in DOMAIN pending : pending[i].live
  PROVE  LET t == [k \in 1 .. m |-> SnapshotEntry(k)] \o pending
         IN  /\ t \in Seq(EntryType) /\ Apart(t)
             /\ \A i \in DOMAIN t : \/ \E k \in 1 .. m : t[i] = SnapshotEntry(k)
                                    \/ \E j \in DOMAIN pending : t[i] = pending[j]
             /\ \A k \in 1 .. m : k \in DOMAIN t /\ t[k] = SnapshotEntry(k)
             /\ Len(pending) = 0 => t = [k \in 1 .. m |-> SnapshotEntry(k)]
  <1>1. PICK shown : shown = [k \in 1 .. m |-> SnapshotEntry(k)]
    OBVIOUS
  <1>2. m \in Nat /\ \A k \in 1 .. m : k \in Message
    BY SizesAssumption DEF Message
  <1>3. ASSUME NEW k \in 1 .. m
        PROVE  SnapshotEntry(k) \in EntryType /\ SnapshotEntry(k).id = NoId /\ ~ SnapshotEntry(k).live
    <2>1. FullText(k) \in Text /\ k \in Message
      BY <1>2, Before, FullTexts
    <2> QED
      BY <2>1 DEF SnapshotEntry, EntryType, NoId
  <1>4. \A k \in 1 .. m : shown[k] \in EntryType
    BY <1>1, <1>3
  <1>5. shown \in Seq(EntryType) /\ Len(shown) = m /\ DOMAIN shown = 1 .. m
    <2>1. shown = [k \in 1 .. m |-> shown[k]]
      BY <1>1
    <2> QED
      BY <1>2, <1>4, <2>1
  <1>6. PICK t : t = shown \o pending
    OBVIOUS
  <1>7. PICK n \in Nat : n = Len(pending) /\ DOMAIN pending = 1 .. n
    BY LenProperties
  <1>8. /\ t \in Seq(EntryType) /\ DOMAIN t = 1 .. m + n /\ Len(t) = m + n
        /\ \A i \in 1 .. m + n : t[i] = IF i <= m THEN shown[i] ELSE pending[i - m]
    BY <1>5, <1>6, <1>7, ConcatProperties, LenProperties
  <1>9. ASSUME NEW i \in 1 .. m + n
        PROVE  \/ i \in 1 .. m /\ t[i] = SnapshotEntry(i)
               \/ i - m \in 1 .. n /\ m < i /\ t[i] = pending[i - m]
    <2>1. CASE i <= m
      <3>1. i \in 1 .. m /\ t[i] = shown[i]
        BY <1>2, <1>7, <1>8, <2>1
      <3> QED
        BY <1>1, <3>1
    <2>2. CASE ~ (i <= m)
      <3>1. i - m \in 1 .. n /\ m < i
        BY <1>2, <1>7, <2>2
      <3>2. t[i] = pending[i - m]
        BY <1>8, <2>2
      <3> QED
        BY <3>1, <3>2
    <2> QED
      BY <2>1, <2>2
  <1>10. Apart(t)
    <2> SUFFICES ASSUME NEW i \in 1 .. m + n, NEW j \in 1 .. m + n,
                        t[i].id = t[j].id, t[i].id # NoId
                 PROVE  i = j
      BY <1>8 DEF Apart
    <2>1. i - m \in 1 .. n /\ j - m \in 1 .. n /\ t[i] = pending[i - m] /\ t[j] = pending[j - m]
      BY <1>3, <1>9
    <2>2. i - m = j - m
      BY <1>7, <2>1 DEF Apart
    <2> QED
      BY <1>2, <1>7, <2>2
  <1>11. \A i \in DOMAIN t : \/ \E k \in 1 .. m : t[i] = SnapshotEntry(k)
                             \/ \E j \in DOMAIN pending : t[i] = pending[j]
    BY <1>7, <1>8, <1>9
  <1>12. \A k \in 1 .. m : k \in DOMAIN t /\ t[k] = SnapshotEntry(k)
    BY <1>1, <1>2, <1>7, <1>8
  <1>13. Len(pending) = 0 => t = shown
    <2> SUFFICES ASSUME n = 0
                 PROVE  t = shown
      BY <1>7
    <2>1. \A i \in 1 .. m : t[i] = shown[i]
      BY <1>2, <1>8
    <2> QED
      BY <1>2, <1>5, <1>8, <2>1, SeqEqual
  <1> QED
    BY <1>1, <1>6, <1>8, <1>10, <1>11, <1>12, <1>13

\* The answer to the latest request is shown.
LEMMA ApplyKeeps ==
  ASSUME DeliveryInvariant, NEW r \in DOMAIN requests, Load(r), view.request = r,
         ~ (view.lastEvent > requests[r].snapshot.cursor)
  PROVE  Kept
  <1>1. PICK snapshot : snapshot = requests[r].snapshot
    OBVIOUS
  <1>2. /\ requests[r].state = "served" /\ Answered(r) /\ view' = ApplySnapshot(view, snapshot)
        /\ source' = source /\ wire' = wire /\ thread' = thread /\ buffer' = buffer
        /\ adapter' = adapter /\ hub' = hub /\ budget' = budget
    BY <1>1 DEF Load, SnapshotLoaded, feedVars
  <1>3. /\ requests \in Seq(RequestType) /\ view \in ViewType /\ source \in SourceType
        /\ budget \in Scenario /\ view.transcript \in Seq(EntryType) /\ Apart(view.transcript)
        /\ view.lastCursor \in Nat /\ view.lastEvent \in Nat /\ N \in Nat /\ hub.next \in Nat
    BY Before, SizesAssumption DEF ViewType, TranscriptFits, HubType
  <1>4. /\ requests' \in Seq(RequestType) /\ NoneServed /\ DOMAIN requests' = DOMAIN requests
        /\ requests'[r].state = "answered"
        /\ \A i \in DOMAIN requests : i # r => requests'[i] = requests[i]
    BY <1>2, <1>3, RequestAnswered
  <1>5. SnapshotFits(adapter, hub, r)
    BY Before
  <1>6. PICK m \in 0 .. N : m = snapshot.messages
    BY <1>1, <1>2, <1>5 DEF SnapshotFits
  <1>7. /\ \A k \in 1 .. m : Completed(k) <= thread.seq /\ k \in Message
        /\ snapshot.cursor \in 0 .. hub.next - 1
        /\ ~ snapshot.processing =>
             adapter.cursor = LastSeq /\ m = N /\ snapshot.cursor = hub.next - 1
    <2>1. \A k \in 1 .. m : k \in Message
      BY <1>3, <1>6 DEF Message
    <2> QED
      BY <1>1, <1>2, <1>5, <1>6, <2>1 DEF SnapshotFits
  <1>8. PICK pending : pending = IF view.loaded /\ snapshot.processing
                                 THEN FoldLeft(KeepLive, << >>, view.transcript) ELSE << >>
    OBVIOUS
  <1>9. /\ pending \in Seq(EntryType) /\ Apart(pending)
        /\ \A i \in DOMAIN pending : pending[i].live /\ \E j \in DOMAIN view.transcript : pending[i] = view.transcript[j]
        /\ ~ snapshot.processing => Len(pending) = 0
    <2>1. CASE view.loaded /\ snapshot.processing
      BY <1>3, <1>8, <2>1, LiveEntriesAreKept
    <2>2. CASE ~ (view.loaded /\ snapshot.processing)
      <3>1. pending = << >>
        BY <1>8, <2>2
      <3>2. pending \in Seq(EntryType) /\ DOMAIN pending = {} /\ Len(pending) = 0
        BY <3>1, EmptySeq, NothingIn
      <3> QED
        BY <3>2 DEF Apart
    <2> QED
      BY <2>1, <2>2
  <1>10. PICK t : t = [k \in 1 .. m |-> SnapshotEntry(k)] \o pending
    OBVIOUS
  <1>11. /\ t \in Seq(EntryType) /\ Apart(t)
         /\ \A i \in DOMAIN t : \/ \E k \in 1 .. m : t[i] = SnapshotEntry(k)
                                \/ \E j \in DOMAIN pending : t[i] = pending[j]
         /\ \A k \in 1 .. m : k \in DOMAIN t /\ t[k] = SnapshotEntry(k)
         /\ Len(pending) = 0 => t = [k \in 1 .. m |-> SnapshotEntry(k)]
    BY <1>9, <1>10, SnapshotTranscript
  <1>12. /\ view' \in ViewType /\ view'.transcript = t /\ view'.settled = (~ snapshot.processing)
         /\ view'.snapshotAt = snapshot.cursor /\ view'.lastCursor = view.lastCursor
         /\ view'.lastEvent = view.lastEvent /\ view'.request = view.request
         /\ view'.connection = view.connection
    <2>1. PICK c \in Nat, settled \in BOOLEAN : c = snapshot.cursor /\ settled = (~ snapshot.processing)
      <3>1. snapshot.cursor \in Nat
        BY <1>3, <1>7
      <3>2. (~ snapshot.processing) \in BOOLEAN
        OBVIOUS
      <3> QED
        BY <3>1, <3>2
    <2>2. view' = [view EXCEPT !.transcript = t, !.loaded = TRUE, !.status = "ready", !.dirty = FALSE,
                               !.snapshotAt = c, !.settled = settled]
      BY <1>2, <1>6, <1>8, <1>10, <2>1 DEF ApplySnapshot
    <2>3. "ready" \in Status
      BY DEF Status
    <2> QED
      BY <1>3, <1>11, <2>1, <2>2, <2>3 DEF ViewType
  <1>13. BrowserStep
    BY <1>2, <1>3, <1>4, <1>12 DEF BrowserStep
  <1>14. \A env : Tells(adapter, env) => Tells(adapter, env)'
    BY <1>4, <1>13, TellsQuietly
  <1>15. WireFits(adapter, hub, wire)'
    BY <1>2, <1>12, <1>13, <1>14, WireKept
  <1>16. \A k \in Message : SnapshotEntry(k)' = SnapshotEntry(k) /\ FullText(k)' = FullText(k)
    BY <1>2 DEF SnapshotEntry, FullText
  <1>17. TranscriptFits(adapter, wire)'
    <2>1. ASSUME NEW i \in DOMAIN t
          PROVE  EntryFits(adapter, wire, t[i])'
      <3>1. PICK e : e = t[i]
        OBVIOUS
      <3>2. CASE \E k \in 1 .. m : t[i] = SnapshotEntry(k)
        <4>1. PICK k \in 1 .. m : e = SnapshotEntry(k)
          BY <3>1, <3>2
        <4>2. /\ k \in Message /\ Completed(k) <= thread.seq
              /\ e.id = NoId /\ ~ e.live /\ e.message = k /\ e.text = FullText(k)
          BY <1>7, <4>1 DEF SnapshotEntry
        <4>3. EntryFits(adapter, wire, e)'
          BY <1>2, <1>16, <4>2 DEF EntryFits
        <4> QED
          BY <3>1, <4>3
      <3>3. CASE \E j \in DOMAIN pending : t[i] = pending[j]
        <4>1. PICK j \in DOMAIN view.transcript : e = view.transcript[j]
          BY <1>9, <3>1, <3>3
        <4>2. e \in EntryType /\ EntryFits(adapter, wire, e)
          BY <4>1, Before DEF TranscriptFits
        <4>3. view.lastCursor <= view'.lastCursor
          BY <1>3, <1>12
        <4>4. EntryFits(adapter, wire, e)'
          BY <1>2, <1>13, <4>2, <4>3, ResponseLeft, EntryKept
        <4> QED
          BY <3>1, <4>4
      <3> QED
        BY <1>11, <3>2, <3>3
    <2>2. Apart(view.transcript)'
      BY <1>11, <1>12 DEF Apart
    <2> QED
      BY <1>12, <2>1, <2>2 DEF TranscriptFits
  <1>18. ViewFits(adapter, hub)'
    <2>1. ASSUME view'.settled
          PROVE  /\ adapter.cursor = LastSeq /\ view'.snapshotAt = hub.next - 1
                 /\ view'.transcript = [k \in Message |-> SnapshotEntry(k)]'
      <3>1. ~ snapshot.processing
        BY <1>12, <2>1
      <3>2. t = [k \in Message |-> SnapshotEntry(k)]
        BY <1>7, <1>9, <1>11, <3>1 DEF Message
      <3> QED
        BY <1>7, <1>12, <1>16, <3>1, <3>2
    <2> QED
      BY <1>2, <1>12, <2>1, Before DEF ViewFits
  <1>19. ASSUME NEW i \in DOMAIN requests' PROVE SnapshotFits(adapter, hub, i)'
    <2>1. CASE i = r
      BY <1>4, <2>1 DEF SnapshotFits
    <2>2. CASE i # r
      <3>1. SnapshotFits(adapter, hub, i) /\ requests'[i] = requests[i] /\ view'.request # i
        BY <1>4, <1>12, <2>2, Before
      <3> QED
        BY <1>2, <3>1 DEF SnapshotFits
    <2> QED
      BY <2>1, <2>2
  <1>20. DeliveryInvariant'
    BY <1>13, <1>14, <1>15, <1>17, <1>18, <1>19, PartsKept
  <1>21. Stays
    <2> SUFFICES ASSUME ~ Forgetful(view)
                 PROVE  Final(view) \subseteq Final(view')
      BY DEF Stays
    <2>1. Final(view) \subseteq 1 .. m
      <3>1. ~ (snapshot.cursor < view.lastCursor /\ (view.lastEvent = 0 \/ snapshot.cursor < view.lastEvent))
        BY <1>1, <1>3, <1>7 DEF Forgetful
      <3> QED
        BY <1>1, <1>2, <1>5, <1>6, <3>1 DEF SnapshotFits
    <2>2. ASSUME NEW k \in 1 .. m PROVE k \in Final(view')
      <3>1. k \in DOMAIN t /\ t[k] = SnapshotEntry(k) /\ k \in Message
        BY <1>7, <1>11
      <3>2. SnapshotEntry(k).message = k /\ ~ SnapshotEntry(k).live
        BY DEF SnapshotEntry
      <3>3. \E i \in DOMAIN view'.transcript : view'.transcript[i].message = k /\ ~ view'.transcript[i].live
        BY <1>12, <3>1, <3>2
      <3> QED
        BY <3>1, <3>3 DEF Final
    <2> QED
      BY <2>1, <2>2
  <1> QED
    BY <1>3, <1>12, <1>20, <1>21 DEF Kept, Replays

\* An answer arrives.
LEMMA LoadKeeps ==
  ASSUME DeliveryInvariant, NEW r \in DOMAIN requests, Load(r)
  PROVE  Kept
  <1>1. /\ Answered(r) /\ view' = SnapshotLoaded(view, r, requests[r].snapshot)
        /\ source' = source /\ wire' = wire /\ thread' = thread /\ buffer' = buffer
        /\ adapter' = adapter /\ hub' = hub /\ budget' = budget
    BY DEF Load, feedVars
  <1>2. /\ requests \in Seq(RequestType) /\ view \in ViewType /\ source \in SourceType
        /\ budget \in Scenario /\ ViewFits(adapter, hub)
    BY Before
  <1>3. requests' \in Seq(RequestType) /\ NoneServed
    BY <1>1, <1>2, RequestAnswered
  <1>4. CASE view.request # r \/ view.lastEvent > requests[r].snapshot.cursor
    <2>1. view' = view \/ view' = [view EXCEPT !.status = "refreshing", !.dirty = TRUE]
      BY <1>1, <1>4 DEF SnapshotLoaded
    <2>2. /\ view' \in ViewType /\ view'.transcript = view.transcript
          /\ view'.lastCursor = view.lastCursor /\ view'.lastEvent = view.lastEvent
          /\ view'.request = view.request /\ view'.connection = view.connection
          /\ view'.snapshotAt = view.snapshotAt
          /\ view' = view \/ view'.status = "refreshing"
      BY <1>2, <2>1 DEF ViewType, Status
    <2>3. BrowserStep
      BY <1>1, <1>2, <1>3, <2>2 DEF BrowserStep
    <2>4. WireFits(adapter, hub, wire)'
      BY <1>1, <1>3, <2>2, <2>3, TellsQuietly, WireKept
    <2>5. \A j \in DOMAIN wire'.queue : wire'.queue[j].type = "update" =>
             \E i \in DOMAIN wire.queue : wire.queue[i] = wire'.queue[j]
      BY <1>1, ResponseLeft
    <2>6. view'.connection # "replay-required" /\ source'.phase # "paused" =>
             source'.cursor = view.lastCursor
      BY <1>1, <1>2, <2>2 DEF ViewFits
    <2>7. view'.status = "ready" /\ ~ view'.dirty /\ view'.settled =>
             view.status = "ready" /\ ~ view.dirty /\ view.settled
      BY <2>2
    <2> QED
      BY <1>1, <1>3, <2>2, <2>3, <2>4, <2>5, <2>6, <2>7, QuietStep
  <1>5. CASE view.request = r /\ ~ (view.lastEvent > requests[r].snapshot.cursor)
    BY <1>5, ApplyKeeps
  <1> QED
    BY <1>4, <1>5

\* The first request.
LEMMA FirstRequest ==
  /\ << Request >> \in Seq(RequestType) /\ DOMAIN << Request >> = {1}
  /\ << Request >>[1].state = "asked"
  <1>1. Request \in RequestType /\ Request.state = "asked"
    BY DEF Request, RequestType, NoSnapshot, SnapshotType
  <1> HIDE DEF Request
  <1> QED
    BY <1>1

\* The view of a page that is loaded.
LEMMA FreshViews ==
  LET v == StartSnapshot(FreshView, 1)
  IN  /\ v \in ViewType /\ v.lastCursor = 0 /\ v.lastEvent = 0
      /\ v.status = "loading" /\ v.request = 1 /\ DOMAIN v.transcript = {}
  <1> DEFINE none == << >>
  <1>1. none \in Seq(EntryType) /\ DOMAIN none = {}
    BY EmptySeq, NothingIn
  <1>2. FreshView = [connection |-> "connecting", lastCursor |-> 0, transcript |-> none,
                     loaded |-> FALSE, status |-> "loading", request |-> NoId, dirty |-> FALSE,
                     lastEvent |-> 0, snapshotAt |-> 0, settled |-> FALSE]
    BY DEF FreshView
  <1> HIDE DEF none
  <1>3. FreshView \in ViewType /\ FreshView.transcript = none /\ FreshView.loaded = FALSE
        /\ FreshView.lastCursor = 0 /\ FreshView.lastEvent = 0
    BY <1>1, <1>2 DEF ViewType, Connection, Status, NoId
  <1>4. "loading" \in Status
    BY DEF Status
  <1> QED
    BY <1>1, <1>3, <1>4 DEF StartSnapshot, ViewType

\* The page is loaded again.
LEMMA ReloadKeeps ==
  ASSUME DeliveryInvariant, Reload
  PROVE  Kept
  <1>1. /\ budget.reloads > 0 /\ budget' = [budget EXCEPT !.reloads = @ - 1]
        /\ wire' = [queue |-> << >>, attached |-> FALSE]
        /\ source' = [phase |-> "closed", cursor |-> 0]
        /\ view' = StartSnapshot(FreshView, 1) /\ requests' = << Request >>
        /\ thread' = thread /\ buffer' = buffer /\ adapter' = adapter /\ hub' = hub
    BY DEF Reload
  <1>2. /\ budget \in Scenario /\ hub.next \in Nat /\ 1 <= hub.next /\ view.lastCursor \in Nat
    BY Before DEF HubType, ViewType
  <1>3. budget' \in Scenario /\ budget'.reloads # budget.reloads
    BY <1>1, <1>2 DEF Scenario
  <1>4. source' \in SourceType /\ source'.cursor = 0 /\ source'.phase = "closed"
    BY <1>1 DEF SourceType, Phase
  <1>5. requests' \in Seq(RequestType) /\ DOMAIN requests' = {1} /\ requests'[1].state = "asked"
    BY <1>1, FirstRequest
  <1>6. /\ view' \in ViewType /\ view'.lastCursor = 0 /\ view'.lastEvent = 0
        /\ view'.status = "loading" /\ view'.request = 1 /\ DOMAIN view'.transcript = {}
    BY <1>1, FreshViews
  <1>7. BrowserStep
    BY <1>1, <1>3, <1>4, <1>5, <1>6 DEF BrowserStep
  <1>8. NoneServed
    BY <1>5 DEF NoneServed
  <1>9. \A env : Tells(adapter, env) => Tells(adapter, env)'
    BY <1>7, <1>8, TellsQuietly
  <1>10. WireFits(adapter, hub, wire)'
    BY <1>1, <1>7, NoResponse
  <1>11. TranscriptFits(adapter, wire)'
    BY <1>6 DEF TranscriptFits, Apart
  <1>12. ViewFits(adapter, hub)'
    BY <1>1, <1>2, <1>4, <1>6 DEF ViewFits
  <1>13. ASSUME NEW i \in DOMAIN requests' PROVE SnapshotFits(adapter, hub, i)'
    BY <1>5, <1>13 DEF SnapshotFits
  <1>14. DeliveryInvariant'
    BY <1>7, <1>9, <1>10, <1>11, <1>12, <1>13, PartsKept
  <1> QED
    BY <1>2, <1>3, <1>6, <1>14 DEF Kept, Replays, Stays

\* Initially nothing has happened.
LEMMA DeliveryStarts ==
  ASSUME DeliveryInit
  PROVE  DeliveryInvariant
  <1> DEFINE none == << >>
  <1>1. /\ thread = [seq |-> 0, chunks |-> [k \in Message |-> 0]]
        /\ buffer = [items |-> none, acked |-> 0, latest |-> 0, replay |-> 0]
        /\ adapter = [cursor |-> 0, text |-> [k \in Message |-> none],
                      entry |-> [k \in Message |-> NoEntry]]
        /\ hub = [next |-> 1, retained |-> none, discarded |-> 0, sentText |-> NoText,
                  durable |-> {}]
        /\ wire = [queue |-> none, attached |-> FALSE]
        /\ source = [phase |-> "closed", cursor |-> 0]
        /\ view = StartSnapshot(FreshView, 1) /\ requests = << Request >>
        /\ budget \in Scenario
    BY ScenariosAssumption DEF DeliveryInit, FeedInit
  <1>2. \A S : none \in Seq(S)
    BY EmptySeq
  <1>3. DOMAIN none = {} /\ Len(none) = 0 /\ none = << >>
    BY NothingIn
  <1>4. NoText \in Text
    BY DEF NoText, Text
  <1> HIDE DEF none
  <1>5. thread \in ThreadType /\ thread.seq = 0
    <2>1. 0 \in 0 .. LastSeq
      BY SizesAssumption DEF LastSeq
    <2> QED
      BY <1>1, <2>1 DEF ThreadType
  <1>6. /\ buffer \in BufferType /\ buffer.items = none /\ buffer.acked = 0 /\ buffer.latest = 0
        /\ buffer.replay = 0
    BY <1>1, <1>2 DEF BufferType
  <1>7. /\ adapter \in AdapterType /\ adapter.cursor = 0
        /\ \A k \in Message : adapter.entry[k] = NoEntry
    BY <1>1, <1>2 DEF AdapterType, NoEntry, Text
  <1>8. /\ hub \in HubType /\ hub.next = 1 /\ hub.retained = none /\ hub.discarded = 0
        /\ hub.durable = {}
    BY <1>1, <1>2, <1>4 DEF HubType
  <1>9. wire \in WireType /\ wire.queue = none /\ ~ wire.attached
    BY <1>1, <1>2 DEF WireType
  <1>10. source \in SourceType /\ source.cursor = 0 /\ source.phase = "closed"
    BY <1>1 DEF SourceType, Phase
  <1>11. requests \in Seq(RequestType) /\ DOMAIN requests = {1} /\ requests[1].state = "asked"
    BY <1>1, FirstRequest
  <1>12. /\ view \in ViewType /\ view.lastCursor = 0 /\ view.lastEvent = 0
         /\ view.status = "loading" /\ DOMAIN view.transcript = {}
    BY <1>1, FreshViews
  <1>13. DeliveryTypeOK
    BY <1>1, <1>5, <1>6, <1>10, <1>11, <1>12 DEF DeliveryTypeOK
  <1>14. BufferFits
    BY <1>3, <1>5, <1>6 DEF BufferFits
  <1>15. NoFactIsDropped
    <2>1. 0 + 1 = 1
      OBVIOUS
    <2> QED
      BY <1>3, <1>5, <1>6, <1>7, <2>1 DEF NoFactIsDropped, Follow, CursorAt
  <1>16. AdapterFits(adapter)
    <2>1. \A k \in Message : ~ (Started(k) <= 0)
      BY SizesAssumption DEF Started, Message
    <2> QED
      BY <1>5, <1>7, <2>1 DEF AdapterFits
  <1>17. EntriesFit(adapter, hub.next)
    BY <1>7, <1>8 DEF EntriesFit, NoEntry
  <1>18. Agree(adapter, hub, wire)
    <2>1. HubFits(adapter, hub)
      BY <1>3, <1>8 DEF HubFits
    <2>2. WireFits(adapter, hub, wire)
      BY <1>1, <1>3, <1>9, <1>8 DEF WireFits
    <2>3. TranscriptFits(adapter, wire)
      BY <1>12 DEF TranscriptFits, Apart
    <2>4. ViewFits(adapter, hub)
      BY <1>8, <1>10, <1>12 DEF ViewFits
    <2>5. ASSUME NEW r \in DOMAIN requests PROVE SnapshotFits(adapter, hub, r)
      BY <1>11, <2>5 DEF SnapshotFits
    <2> QED
      BY <2>1, <2>2, <2>3, <2>4, <2>5 DEF Agree
  <1> QED
    BY <1>8, <1>13, <1>14, <1>15, <1>16, <1>17, <1>18 DEF DeliveryInvariant

\* Each step keeps the invariant, replays durable events and lets final entries stay.
LEMMA DeliverySteps ==
  ASSUME DeliveryInvariant, [DeliveryNext]_deliveryVars
  PROVE  Kept
  <1>1. view.lastCursor \in Nat
    BY Before DEF ViewType
  <1>2. CASE FeedNext /\ UNCHANGED browserVars
    <2>1. DeliveryInvariant'
      BY <1>2, FlushKeeps, CommitKeeps, StreamKeeps DEF FeedNext
    <2>2. view' = view
      BY <1>2 DEF browserVars
    <2> QED
      BY <1>1, <2>1, <2>2 DEF Kept, Replays, Stays
  <1>3. CASE UNCHANGED deliveryVars
    <2>1. /\ thread' = thread /\ buffer' = buffer /\ adapter' = adapter /\ hub' = hub /\ wire' = wire
          /\ source' = source /\ view' = view /\ requests' = requests /\ budget' = budget
      BY <1>3 DEF deliveryVars, feedVars, browserVars
    <2>2. BrowserStep
      BY <2>1, Before DEF BrowserStep
    <2>3. NoneServed
      BY <2>1, RequestsLeft
    <2>4. WireFits(adapter, hub, wire)'
      BY <2>1, <2>2, <2>3, TellsQuietly, WireKept
    <2>5. ViewFits(adapter, hub)
      BY Before
    <2> QED
      BY <2>1, <2>2, <2>3, <2>4, <2>5, ResponseLeft, QuietStep DEF ViewFits
  <1>4. CASE Connect
    BY <1>4, ConnectKeeps
  <1>5. CASE Open
    BY <1>5, OpenKeeps
  <1>6. CASE Receive
    BY <1>6, ResetKeeps, ReceiveKeeps
  <1>7. CASE StreamEnds
    BY <1>7, StreamEndsKeeps
  <1>8. CASE ConnectionLost
    BY <1>8, ConnectionLostKeeps
  <1>9. CASE AskWhenDirty \/ AskAgain \/ Retry
    BY <1>9, AskAnyKeeps
  <1>10. CASE \E r \in DOMAIN requests : Serve(r) \/ Load(r) \/ Fail(r)
    BY <1>10, ServeKeeps, LoadKeeps, FailKeeps
  <1>11. CASE Recover
    BY <1>11, RecoverKeeps
  <1>12. CASE Resume
    BY <1>12, ResumeKeeps
  <1>13. CASE Reload
    BY <1>13, ReloadKeeps
  <1> QED
    BY <1>2, <1>3, <1>4, <1>5, <1>6, <1>7, <1>8, <1>9, <1>10, <1>11, <1>12, <1>13 DEF DeliveryNext

-----------------------------------------------------------------------------
(* The invariant of the path holds: every part has its type, the hub keeps *)
(* every durable envelope after the last one it discarded, the response    *)
(* carries what follows the cursor it began at, and each entry of the page *)
(* is one of the Thread's (RuntimeEventBufferV1, ThreadRuntimeWebAdapter,  *)
(* WebEventHub and reduceRuntimeEvent).                                    *)
THEOREM DeliveryInvariantHolds == DeliverySpec => []DeliveryInvariant
  <1>1. DeliveryInit => DeliveryInvariant
    BY DeliveryStarts
  <1>2. DeliveryInvariant /\ [DeliveryNext]_deliveryVars => DeliveryInvariant'
    BY DeliverySteps DEF Kept
  <1> QED
    BY <1>1, <1>2, PTL DEF DeliverySpec

(* Whatever the limits of the buffer are: unless it is to be replayed, it  *)
(* holds every durable event that the adapter has not acknowledged         *)
(* (RuntimeEventBufferV1.offer: only deltas are merged or dropped, and an  *)
(* overflow with durable events alone requires a replay).                  *)
THEOREM FactsAreNotDropped == DeliverySpec => []NoFactIsDropped
  <1>1. DeliveryInvariant => NoFactIsDropped
    BY DEF DeliveryInvariant
  <1> QED
    BY <1>1, DeliveryInvariantHolds, PTL

(* What the page shows of a message is the message: a live entry shows a   *)
(* beginning of its text, without a gap or a repetition, and a final one   *)
(* shows all of it, through losses, replays and snapshots                  *)
(* (reduceRuntimeEvent and applySessionSnapshot).                          *)
THEOREM EntriesShowTheThread == DeliverySpec => []EntriesAreTrue
  <1>1. DeliveryInvariant => EntriesAreTrue
    <2> SUFFICES ASSUME DeliveryInvariant, NEW i \in DOMAIN view.transcript
                 PROVE  LET e == view.transcript[i]
                        IN  IF e.live THEN IsPrefix(e.text, adapter.text[e.message])
                            ELSE e.text = FullText(e.message)
      BY DEF EntriesAreTrue
    <2>1. PICK e : e = view.transcript[i]
      OBVIOUS
    <2>2. e \in EntryType /\ EntryFits(adapter, wire, e) /\ adapter \in AdapterType
      BY <2>1, Before DEF TranscriptFits
    <2>3. e.text \in Text /\ adapter.text[e.message] \in Text
      BY <2>2 DEF EntryType, AdapterType
    <2>4. e.live => IsPrefix(e.text, adapter.text[e.message])
      BY <2>2, <2>3, BeginningsArePrefixes DEF EntryFits
    <2>5. ~ e.live => e.text = FullText(e.message)
      BY <2>2 DEF EntryFits
    <2> QED
      BY <2>1, <2>4, <2>5
  <1> QED
    BY <1>1, DeliveryInvariantHolds, PTL

(* A page that is ready and settled, with nothing left to ask for, shows   *)
(* the whole turn: a snapshot that is applied repairs whatever was missed  *)
(* before (session_snapshot_loaded, applySessionSnapshot).                 *)
THEOREM SnapshotsRepairTheView == DeliverySpec => []SnapshotsRepair
  <1>1. DeliveryInvariant => SnapshotsRepair
    BY Before DEF SnapshotsRepair, ViewFits
  <1> QED
    BY <1>1, DeliveryInvariantHolds, PTL

(* The cursor of the page passes no durable event that the page did not    *)
(* receive, unless the page is told to recover: what a reconnect misses is *)
(* replayed or reset (WebEventHub.attach, the cursor of the event source). *)
THEOREM DurableEventsReachTheView == DeliverySpec => DurableEventsAreReplayed
  <1>1. DeliveryInvariant /\ [DeliveryNext]_deliveryVars =>
          [view'.lastCursor > view.lastCursor /\ view'.connection # "replay-required" =>
             hub.durable \cap view.lastCursor + 1 .. view'.lastCursor - 1 = {}]_deliveryVars
    BY DeliverySteps DEF Kept, Replays
  <1> QED
    BY <1>1, DeliveryInvariantHolds, PTL DEF DeliverySpec, DurableEventsAreReplayed

(* A message that the page has shown as final stays, whatever snapshot     *)
(* arrives late, unless the page was told that its history is gone or is   *)
(* loaded again (session_snapshot_loaded compares the snapshot's cursor    *)
(* with lastEventCursor).                                                  *)
THEOREM FinalEntriesAreKept == DeliverySpec => FinalEntriesStay
  <1>1. DeliveryInvariant /\ [DeliveryNext]_deliveryVars =>
          [~ Forgetful(view) /\ budget'.reloads = budget.reloads
             => Final(view) \subseteq Final(view')]_deliveryVars
    BY DeliverySteps DEF Kept, Stays
  <1> QED
    BY <1>1, DeliveryInvariantHolds, PTL DEF DeliverySpec, FinalEntriesStay
==============================================================================
