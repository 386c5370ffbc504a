------------------------- MODULE SessionRegistryProofs -------------------------
(***************************************************************************)
(* The pool of Session actors, for any number of Sessions, slots, resident *)
(* actors and calls that wait: its counts are true, its actors are owned,  *)
(* turns keep them, no slot is idle, and it implements the abstract pool.  *)
(* What the proofs rest on is the chain of operations: only its head is    *)
(* under way, and at each of its awaits the records of the Sessions it     *)
(* works on are as it left them, whatever happened meanwhile.              *)
(***************************************************************************)
EXTENDS SessionRegistry, FiniteSetTheorems, SequenceTheorems, TLAPS

\* Where the head of the chain is fits what it does.
Fits(op) ==
  /\ op.at \in {"retry", "reserve", "evicting", "creating", "discard", "resident"}
       => op.kind \in {"ensure", "with", "admit"}
  /\ op.at = "acting" => op.kind = "with"
  /\ op.at = "started" => op.kind = "admit"
  /\ op.at = "closing" => op.kind \in {"evict", "shutdown"}

\* Only the head of the chain is under way.
ChainIsSerial ==
  /\ \A i \in 1 .. Len(ops) :
       /\ i > 1 => ops[i].at = "begin"
       /\ ops[i].kind = "shutdown" => closed
  /\ ops # <<>> => Fits(ops[1])

\* What the head of the chain may count on when its await returns.
HeadIsSure ==
  /\ At("retry") => actor[Subject] = "broken"
  /\ At("reserve") \/ At("creating") \/ At("discard") => actor[Subject] = "none"
  /\ At("evicting") => /\ actor[Subject] = "none"
                       /\ ops[1].victim # Subject /\ actor[ops[1].victim] = "broken"
  /\ At("resident") =>
       /\ actor[Subject] = "ready"
       /\ ops[1].kind = "admit" => ~Active(Subject) /\ ~ticket[Subject]
  /\ At("started") => run[Subject] = "starting"
  /\ At("closing") => IF ops[1].kind = "evict" THEN actor[Subject] = "broken"
                      ELSE \A s \in ops[1].left : actor[s] = "broken"

\* There is room for the actors there are, and for the one that is created.
ActorsFit ==
  /\ Cardinality(Resident) <= MaxResident
  /\ At("creating") \/ At("discard") => Cardinality(Resident) < MaxResident

ActorsAreCounted ==
  \A s \in Session :
    live[s] = (IF actor[s] # "none" THEN 1 ELSE 0) + (IF InCreation(s) THEN 1 ELSE 0)

\* A turn runs on an actor that is ready, and only the head of the chain starts one.
TurnsHaveActors ==
  \A s \in Session :
    /\ Active(s) => actor[s] = "ready"
    /\ run[s] = "starting" => At("started") /\ Subject = s
    /\ ~closed /\ ticket[s] => actor[s] = "ready"

RegistryInvariant ==
  /\ TypeOK
  /\ ChainIsSerial
  /\ HeadIsSure
  /\ ActorsFit
  /\ ActorsAreCounted
  /\ TurnsHaveActors
  /\ RunningIsCounted
  /\ QueueIsRecorded
  /\ SlotsAreUsed
-----------------------------------------------------------------------------
(* The chain of operations.                                                *)

(* The first call of the chain goes on. *)
LEMMA HeadMoves ==
  ASSUME TypeOK, ChainIsSerial, ops # <<>>, NEW e \in Op, ops' = [ops EXCEPT ![1] = e],
         e.kind = ops[1].kind, Fits(e), closed => closed'
  PROVE  /\ ops' \in Seq(Op) /\ Len(ops') <= MaxCalls
         /\ ops' # <<>> /\ ops'[1] = e
         /\ ChainIsSerial'
  <1>1. ops \in Seq(Op) /\ 1 \in 1 .. Len(ops)
    <2> HIDE DEF Op
    <2> QED BY LenProperties, EmptySeq DEF TypeOK
  <1>2. /\ ops' \in Seq(Op) /\ Len(ops') = Len(ops)
        /\ \A j \in 1 .. Len(ops) : ops'[j] = IF j = 1 THEN e ELSE ops[j]
    <2> HIDE DEF Op
    <2> QED BY <1>1, ExceptSeq
  <1>3. ops' # <<>> /\ ops'[1] = e
    BY <1>1, <1>2
  <1>4. ChainIsSerial'
    BY <1>1, <1>2, <1>3 DEF ChainIsSerial, Fits
  <1> QED
    BY <1>2, <1>3, <1>4 DEF TypeOK

LEMMA HeadIsTyped ==
  ASSUME TypeOK, ops # <<>>
  PROVE  /\ ops[1] \in Op
         /\ ops[1].kind \in Kind /\ Subject \in Session /\ ops[1].at \in Await
         /\ ops[1].victim \in Session /\ ops[1].left \subseteq Session
  <1>1. ops[1] \in Op
    <2> HIDE DEF Op
    <2> QED BY LenProperties, EmptySeq, ElementOfSeq DEF TypeOK
  <1> QED
    BY <1>1 DEF Op, Subject

LEMMA HeadGoes ==
  ASSUME TypeOK, ChainIsSerial, ops # <<>>, NEW at \in Await, Goto(at),
         Fits([ops[1] EXCEPT !.at = at]), closed => closed'
  PROVE  /\ ops' \in Seq(Op) /\ Len(ops') <= MaxCalls
         /\ ops' # <<>> /\ ops'[1] = [ops[1] EXCEPT !.at = at]
         /\ ops'[1].at = at /\ ops'[1].kind = ops[1].kind /\ ops'[1].session = ops[1].session
         /\ ops'[1].victim = ops[1].victim
         /\ ChainIsSerial'
  <1> DEFINE e == [ops[1] EXCEPT !.at = at]
  <1>1. ops[1] \in Op
    BY HeadIsTyped
  <1>2. /\ e \in Op /\ e.at = at /\ e.kind = ops[1].kind /\ e.session = ops[1].session
        /\ e.victim = ops[1].victim
    BY <1>1 DEF Op
  <1>3. ops' = [ops EXCEPT ![1] = e] /\ Fits(e)
    BY DEF Goto
  <1> HIDE DEF e
  <1>4. ops' \in Seq(Op) /\ Len(ops') <= MaxCalls /\ ops' # <<>> /\ ops'[1] = e /\ ChainIsSerial'
    BY <1>2, <1>3, HeadMoves
  <1> QED
    BY <1>2, <1>4 DEF e

(* It returns: the next one has not begun. *)
LEMMA HeadReturns ==
  ASSUME TypeOK, ChainIsSerial, ops # <<>>, Return, closed => closed'
  PROVE  /\ ops' \in Seq(Op) /\ Len(ops') <= MaxCalls
         /\ ops' # <<>> => ops'[1].at = "begin"
         /\ ChainIsSerial' /\ HeadIsSure'
  <1>1. /\ ops' \in Seq(Op) /\ Len(ops') = Len(ops) - 1
        /\ \A i \in 1 .. Len(ops') : ops'[i] = ops[i + 1]
    <2> HIDE DEF Op
    <2> QED BY HeadTailProperties DEF TypeOK, Return
  <1>2. Len(ops) \in Nat /\ Len(ops') \in Nat /\ Len(ops') <= MaxCalls
    <2> HIDE DEF Op
    <2> QED BY <1>1, LenProperties, LimitsAreNat DEF TypeOK
  <1>3. \A i \in 1 .. Len(ops') : /\ ops'[i].at = "begin"
                                  /\ ops'[i].kind = "shutdown" => closed'
    BY <1>1, <1>2 DEF ChainIsSerial
  <1>4. ops' # <<>> => ops'[1].at = "begin"
    <2> HIDE DEF Op
    <2>1. ops' # <<>> => 1 \in 1 .. Len(ops')
      BY <1>1, EmptySeq
    <2> QED
      BY <2>1, <1>3
  <1>5. ChainIsSerial'
    BY <1>3, <1>4 DEF ChainIsSerial, Fits
  <1>6. HeadIsSure'
    BY <1>4 DEF HeadIsSure, At
  <1> QED
    BY <1>1, <1>2, <1>4, <1>5, <1>6

(* A call enters the chain: the one that is under way still is. *)
LEMMA ChainGrows ==
  ASSUME TypeOK, ChainIsSerial, NEW kind \in Kind, NEW s \in Session, Enter(kind, s),
         closed => closed', kind = "shutdown" => closed'
  PROVE  /\ ops' \in Seq(Op) /\ Len(ops') <= MaxCalls /\ ops' # <<>>
         /\ ops # <<>> => ops'[1] = ops[1]
         /\ ops = <<>> => ops'[1].at = "begin"
         /\ ChainIsSerial'
  <1> DEFINE e == [kind |-> kind, session |-> s, at |-> "begin", victim |-> s,
                   left |-> {}, were |-> {}]
  <1>1. e \in Op /\ e.at = "begin" /\ e.kind = kind
    BY DEF Op, Await
  <1>2. ops' = Append(ops, e) /\ Len(ops) < MaxCalls
    BY DEF Enter
  <1> HIDE DEF e
  <1>3. /\ ops' \in Seq(Op) /\ Len(ops') = Len(ops) + 1 /\ Len(ops) \in Nat
        /\ \A i \in 1 .. Len(ops) : ops'[i] = ops[i]
        /\ ops'[Len(ops) + 1] = e
    <2> HIDE DEF Op
    <2> QED BY <1>1, <1>2, AppendProperties, LenProperties DEF TypeOK
  <1>4. /\ ops' # <<>>
        /\ ops # <<>> => 1 \in 1 .. Len(ops)
        /\ ops = <<>> => Len(ops) = 0
    <2> HIDE DEF Op
    <2> QED BY <1>3, EmptySeq DEF TypeOK
  <1>5. ops # <<>> => ops'[1] = ops[1]
    BY <1>3, <1>4
  <1>6. ops = <<>> => ops'[1] = e
    BY <1>3, <1>4
  <1>7. \A i \in 1 .. Len(ops') : ops'[i] = IF i <= Len(ops) THEN ops[i] ELSE e
    BY <1>3
  <1>8. ChainIsSerial'
    <2>1. \A i \in 1 .. Len(ops') : /\ i > 1 => ops'[i].at = "begin"
                                    /\ ops'[i].kind = "shutdown" => closed'
      BY <1>1, <1>3, <1>7 DEF ChainIsSerial
    <2>2. Fits(ops'[1])
      BY <1>1, <1>5, <1>6 DEF ChainIsSerial, Fits
    <2> QED
      BY <2>1, <2>2 DEF ChainIsSerial, Fits
  <1> QED
    BY <1>1, <1>2, <1>3, <1>4, <1>5, <1>6, <1>8, LimitsAreNat
-----------------------------------------------------------------------------
(* What the actors are counted by, and what the turns are.                 *)

LEMMA ResidentIsFinite ==
  /\ IsFiniteSet(Session) /\ Cardinality(Session) \in Nat
  /\ IsFiniteSet(Resident) /\ Cardinality(Resident) \in Nat
  BY SessionsAreFinite, FS_Subset, FS_CardinalityType DEF Resident

(* A record loses its actor, gets one, or keeps what it has. *)
LEMMA ResidentLoses ==
  ASSUME TypeOK, NEW s \in Session, actor[s] # "none", actor' = [actor EXCEPT ![s] = "none"]
  PROVE  Cardinality(Resident') = Cardinality(Resident) - 1
  <1>1. Resident' = Resident \ {s} /\ s \in Resident
    BY DEF TypeOK, Resident
  <1> QED
    BY <1>1, ResidentIsFinite, FS_RemoveElement

LEMMA ResidentGains ==
  ASSUME TypeOK, NEW s \in Session, actor[s] = "none",
         NEW a \in {"ready", "broken"}, actor' = [actor EXCEPT ![s] = a]
  PROVE  Cardinality(Resident') = Cardinality(Resident) + 1
  <1>1. Resident' = Resident \cup {s} /\ s \notin Resident
    BY DEF TypeOK, Resident
  <1> QED
    BY <1>1, ResidentIsFinite, FS_AddElement

(* The actor of a Session without a turn is stopped, and stays until it is *)
(* closed.                                                                 *)
LEMMA StopIsSafe ==
  ASSUME TypeOK, TurnsHaveActors, NEW s \in Session, Stop(s),
         Evictable(s) \/ actor[s] = "broken",
         UNCHANGED <<run, ticket, closed>>
  PROVE  /\ actor' \in [Session -> {"none", "ready", "broken"}] /\ phase' \in [Session -> Phase]
         /\ actor'[s] = "broken" /\ Resident' = Resident
         /\ \A x \in Session : actor'[x] # "none" <=> actor[x] # "none"
         /\ \A x \in Session : x # s => actor'[x] = actor[x]
         /\ \A x \in Session : /\ Active(x)' => actor'[x] = "ready"
                               /\ ~closed' /\ ticket'[x] => actor'[x] = "ready"
  <1>1. /\ actor' \in [Session -> {"none", "ready", "broken"}] /\ phase' \in [Session -> Phase]
        /\ actor'[s] = "broken" /\ actor[s] # "none"
        /\ \A x \in Session : x # s => actor'[x] = actor[x]
    BY DEF Stop, TypeOK, Phase, Evictable
  <1>2. \A x \in Session : actor'[x] # "none" <=> actor[x] # "none"
    BY <1>1
  <1>3. Resident' = Resident
    BY <1>2 DEF Resident
  <1>4. \A x \in Session : /\ Active(x)' => actor'[x] = "ready"
                           /\ ~closed' /\ ticket'[x] => actor'[x] = "ready"
    BY <1>1 DEF TurnsHaveActors, Active, Evictable
  <1> QED
    BY <1>1, <1>2, <1>3, <1>4

(* A step that moves no turn keeps what is known of them. *)
LEMMA TurnsStand ==
  ASSUME RunningIsCounted, QueueIsRecorded, SlotsAreUsed,
         UNCHANGED <<run, ticket, position, queue, running, closed>>
  PROVE  RunningIsCounted' /\ QueueIsRecorded' /\ SlotsAreUsed'
  <1>1. \A s \in Session : Active(s)' <=> Active(s)
    BY DEF Active
  <1>2. {s \in Session : Active(s)}' = {s \in Session : Active(s)}
    BY <1>1
  <1>3. RunningIsCounted'
    BY <1>2 DEF RunningIsCounted
  <1>4. QueueIsRecorded'
    BY <1>1 DEF QueueIsRecorded, Active
  <1>5. SlotsAreUsed'
    BY DEF SlotsAreUsed
  <1> QED
    BY <1>3, <1>4, <1>5

(* The call that is refused, that ends, or that has used its actor, leaves *)
(* the records alone.                                                      *)
LEMMA ReturnKeeps ==
  ASSUME RegistryInvariant, ops # <<>>, Return,
         ops[1].at \notin {"discard", "started"},
         UNCHANGED <<run, ticket, position, queue, running, closed, actor, live>>,
         phase' \in [Session -> Phase], pending' \in [Session -> 0 .. 1]
  PROVE  RegistryInvariant'
  <1>1. TypeOK /\ ChainIsSerial
    BY DEF RegistryInvariant
  <1>2. /\ ops' \in Seq(Op) /\ Len(ops') <= MaxCalls
        /\ ops' # <<>> => ops'[1].at = "begin"
        /\ ChainIsSerial' /\ HeadIsSure'
    BY <1>1, HeadReturns
  <1>3. TypeOK'
    BY <1>1, <1>2 DEF TypeOK
  <1>4. ActorsFit'
    BY <1>2 DEF RegistryInvariant, ActorsFit, At, Resident
  <1>5. ActorsAreCounted'
    BY <1>2 DEF RegistryInvariant, ActorsAreCounted, InCreation, At
  <1>6. TurnsHaveActors'
    BY <1>2 DEF RegistryInvariant, TurnsHaveActors, Active, At
  <1>7. RunningIsCounted' /\ QueueIsRecorded' /\ SlotsAreUsed'
    BY TurnsStand DEF RegistryInvariant
  <1> QED
    BY <1>2, <1>3, <1>4, <1>5, <1>6, <1>7 DEF RegistryInvariant

(* closeActor failed: the actor is left as it was. *)
LEMMA NotClosedKeeps ==
  ASSUME RegistryInvariant, NEW s \in Session, ops # <<>>,
         ops[1].at \notin {"discard", "started"}, NotClosed(s),
         UNCHANGED <<run, pending, ticket, position, queue, running, closed>>
  PROVE  RegistryInvariant'
  <1>1. phase' \in [Session -> Phase] /\ pending' \in [Session -> 0 .. 1]
    BY DEF RegistryInvariant, TypeOK, NotClosed, Phase
  <1> QED
    BY <1>1, ReturnKeeps DEF NotClosed

LEMMA RefuseKeeps == ASSUME RegistryInvariant, Refuse PROVE RegistryInvariant'
  <1>1. phase' \in [Session -> Phase] /\ pending' \in [Session -> 0 .. 1]
    BY DEF RegistryInvariant, TypeOK, Refuse, record
  <1> QED
    BY <1>1, ReturnKeeps DEF Refuse, At, record

LEMMA ActedKeeps == ASSUME RegistryInvariant, Acted PROVE RegistryInvariant'
  <1>1. phase' \in [Session -> Phase] /\ pending' \in [Session -> 0 .. 1]
    BY DEF RegistryInvariant, TypeOK, Acted, record
  <1> QED
    BY <1>1, ReturnKeeps DEF Acted, At, record

LEMMA EndShutdownKeeps == ASSUME RegistryInvariant, EndShutdown PROVE RegistryInvariant'
  <1>1. phase' \in [Session -> Phase] /\ pending' \in [Session -> 0 .. 1]
    BY DEF RegistryInvariant, TypeOK, EndShutdown, record
  <1> QED
    BY <1>1, ReturnKeeps DEF EndShutdown, At, record

(* The call goes on without a change to the records. *)
LEMMA UseActorKeeps == ASSUME RegistryInvariant, UseActor PROVE RegistryInvariant'
  <1>1. /\ TypeOK /\ ChainIsSerial /\ ops # <<>> /\ ops[1].at = "resident"
        /\ UNCHANGED <<phase, actor, run, pending, ticket, position, queue, running, closed, live>>
    BY DEF RegistryInvariant, UseActor, At, record
  <1>2. CASE Return
    BY <1>1, <1>2, ReturnKeeps DEF TypeOK
  <1>3. CASE ops[1].kind = "with" /\ Goto("acting")
    <2>1. Fits([ops[1] EXCEPT !.at = "acting"])
      BY <1>1, <1>3, HeadIsTyped DEF Fits, Op
    <2>2. /\ ops' \in Seq(Op) /\ Len(ops') <= MaxCalls
          /\ ops' # <<>> /\ ops'[1].at = "acting" /\ ChainIsSerial'
      BY <1>1, <1>3, <2>1, HeadGoes DEF Await
    <2>3. TypeOK'
      BY <1>1, <2>2 DEF TypeOK
    <2>4. HeadIsSure'
      BY <2>2 DEF HeadIsSure, At
    <2>5. ActorsFit'
      BY <1>1, <2>2 DEF RegistryInvariant, ActorsFit, At, Resident
    <2>6. ActorsAreCounted'
      BY <1>1, <2>2 DEF RegistryInvariant, ActorsAreCounted, InCreation, At
    <2>7. TurnsHaveActors'
      BY <1>1, <2>2 DEF RegistryInvariant, TurnsHaveActors, Active, At
    <2>8. RunningIsCounted' /\ QueueIsRecorded' /\ SlotsAreUsed'
      BY <1>1, TurnsStand DEF RegistryInvariant
    <2> QED
      BY <2>2, <2>3, <2>4, <2>5, <2>6, <2>7, <2>8 DEF RegistryInvariant
  <1> QED
    BY <1>2, <1>3 DEF UseActor

(* A call at the head works on the actors, and moves no turn. *)
LEMMA WorkKeeps ==
  ASSUME RegistryInvariant, ops # <<>>, ops[1].at # "started",
         ops' \in Seq(Op), Len(ops') <= MaxCalls, ChainIsSerial', HeadIsSure',
         ActorsFit', ActorsAreCounted',
         actor' \in [Session -> {"none", "ready", "broken"}], phase' \in [Session -> Phase],
         live' \in [Session -> Nat],
         \A x \in Session : /\ Active(x) => actor'[x] = "ready"
                            /\ ~closed /\ ticket[x] => actor'[x] = "ready",
         UNCHANGED <<run, pending, ticket, position, queue, running, closed>>
  PROVE  RegistryInvariant'
  <1>1. TypeOK'
    BY DEF RegistryInvariant, TypeOK
  <1>2. TurnsHaveActors'
    BY DEF RegistryInvariant, TurnsHaveActors, Active, At
  <1>3. RunningIsCounted' /\ QueueIsRecorded' /\ SlotsAreUsed'
    BY TurnsStand DEF RegistryInvariant
  <1> QED
    BY <1>1, <1>2, <1>3 DEF RegistryInvariant

LEMMA CallKeeps ==
  ASSUME RegistryInvariant, NEW kind \in Kind, NEW s \in Session, Call(kind, s)
  PROVE  RegistryInvariant'
  <1>1. /\ TypeOK /\ ChainIsSerial /\ kind # "shutdown" /\ Enter(kind, s)
        /\ UNCHANGED <<phase, actor, run, pending, ticket, position, queue, running, closed, live>>
    BY DEF RegistryInvariant, Call, record
  <1>2. /\ ops' \in Seq(Op) /\ Len(ops') <= MaxCalls /\ ops' # <<>>
        /\ ops # <<>> => ops'[1] = ops[1]
        /\ ops = <<>> => ops'[1].at = "begin"
        /\ ChainIsSerial'
    BY <1>1, ChainGrows
  <1>3. TypeOK'
    BY <1>1, <1>2 DEF TypeOK
  <1>4. \A at \in Await : at # "begin" => (At(at)' <=> At(at))
    BY <1>2 DEF At
  <1>5. ops # <<>> => Subject' = Subject
    BY <1>2 DEF Subject
  <1>6. HeadIsSure'
    BY <1>1, <1>2 DEF RegistryInvariant, HeadIsSure, At, Subject, Active
  <1>7. ActorsFit'
    BY <1>1, <1>4 DEF RegistryInvariant, ActorsFit, Resident, Await
  <1>8. ActorsAreCounted'
    BY <1>1, <1>4, <1>5 DEF RegistryInvariant, ActorsAreCounted, InCreation, At, Await
  <1>9. TurnsHaveActors'
    BY <1>1, <1>4, <1>5 DEF RegistryInvariant, TurnsHaveActors, Active, At, Await
  <1>10. RunningIsCounted' /\ QueueIsRecorded' /\ SlotsAreUsed'
    BY <1>1, TurnsStand DEF RegistryInvariant
  <1> QED
    BY <1>2, <1>3, <1>6, <1>7, <1>8, <1>9, <1>10 DEF RegistryInvariant

(* Room is made: there is some, an idle actor is stopped, or the call fails. *)
LEMMA ReserveKeeps ==
  ASSUME RegistryInvariant, ops # <<>>, ops[1].at \in {"begin", "reserve"},
         ops[1].kind \in {"ensure", "with", "admit"}, actor[Subject] = "none", Reserve,
         UNCHANGED <<run, pending, ticket, position, queue, running, closed, live>>
  PROVE  RegistryInvariant'
  <1>1. TypeOK /\ ChainIsSerial /\ TurnsHaveActors /\ Subject \in Session /\ ops[1] \in Op
    BY HeadIsTyped DEF RegistryInvariant
  <1>2. CASE /\ Cardinality(Resident) < MaxResident
             /\ phase' = [phase EXCEPT ![Subject] = "starting"]
             /\ Goto("creating") /\ UNCHANGED actor
    <2>1. Fits([ops[1] EXCEPT !.at = "creating"])
      BY <1>1 DEF Fits, Op
    <2>2. /\ ops' \in Seq(Op) /\ Len(ops') <= MaxCalls
          /\ ops' # <<>> /\ ops'[1].at = "creating" /\ ops'[1].session = ops[1].session
          /\ ChainIsSerial'
      BY <1>1, <1>2, <2>1, HeadGoes DEF Await
    <2>3. HeadIsSure'
      BY <1>2, <2>2 DEF HeadIsSure, At, Subject
    <2>4. ActorsFit'
      BY <1>2, ResidentIsFinite, LimitsAreNat DEF ActorsFit, Resident
    <2>5. ActorsAreCounted'
      BY <1>2, <2>2 DEF RegistryInvariant, ActorsAreCounted, InCreation, At
    <2>6. phase' \in [Session -> Phase] /\ live' \in [Session -> Nat]
          /\ actor' \in [Session -> {"none", "ready", "broken"}]
      BY <1>1, <1>2 DEF TypeOK, Phase
    <2>7. \A x \in Session : /\ Active(x) => actor'[x] = "ready"
                             /\ ~closed /\ ticket[x] => actor'[x] = "ready"
      BY <1>1, <1>2 DEF TurnsHaveActors
    <2> QED
      BY <2>2, <2>3, <2>4, <2>5, <2>6, <2>7, WorkKeeps
  <1>3. ASSUME NEW v \in Session \ {Subject}, Evictable(v), Stop(v),
               ops' = [ops EXCEPT ![1].at = "evicting", ![1].victim = v]
        PROVE  RegistryInvariant'
    <2> DEFINE e == [ops[1] EXCEPT !.at = "evicting", !.victim = v]
    <2>1. /\ e \in Op /\ e.at = "evicting" /\ e.victim = v /\ e.kind = ops[1].kind
          /\ e.session = ops[1].session /\ Fits(e)
      BY <1>1 DEF Op, Await, Fits
    <2>2. ops' = [ops EXCEPT ![1] = e]
      BY <1>3
    <2> HIDE DEF e
    <2>3. /\ ops' \in Seq(Op) /\ Len(ops') <= MaxCalls /\ ops' # <<>> /\ ops'[1] = e
          /\ ChainIsSerial'
      BY <1>1, <2>1, <2>2, HeadMoves
    <2>4. /\ actor' \in [Session -> {"none", "ready", "broken"}] /\ phase' \in [Session -> Phase]
          /\ actor'[v] = "broken" /\ Resident' = Resident
          /\ \A x \in Session : actor'[x] # "none" <=> actor[x] # "none"
          /\ \A x \in Session : x # v => actor'[x] = actor[x]
          /\ \A x \in Session : /\ Active(x)' => actor'[x] = "ready"
                                /\ ~closed' /\ ticket'[x] => actor'[x] = "ready"
      BY <1>1, <1>3, StopIsSafe
    <2>5. HeadIsSure'
      BY <1>1, <1>3, <2>1, <2>3, <2>4 DEF HeadIsSure, At, Subject
    <2>6. ActorsFit'
      BY <2>1, <2>3, <2>4 DEF RegistryInvariant, ActorsFit, At
    <2>7. ActorsAreCounted'
      BY <2>1, <2>3, <2>4 DEF RegistryInvariant, ActorsAreCounted, InCreation, At
    <2>8. \A x \in Session : /\ Active(x) => actor'[x] = "ready"
                             /\ ~closed /\ ticket[x] => actor'[x] = "ready"
      BY <2>4 DEF Active
    <2>9. live' \in [Session -> Nat]
      BY <1>1 DEF TypeOK
    <2>10. ops[1].at # "started"
      OBVIOUS
    <2> QED
      BY <2>3, <2>4, <2>5, <2>6, <2>7, <2>8, <2>9, <2>10, WorkKeeps
  <1>4. CASE Return /\ UNCHANGED <<phase, actor>>
    BY <1>1, <1>4, ReturnKeeps DEF TypeOK
  <1> QED
    BY <1>2, <1>3, <1>4 DEF Reserve

LEMMA ReserveAgainKeeps == ASSUME RegistryInvariant, ReserveAgain PROVE RegistryInvariant'
  <1>1. /\ ops # <<>> /\ ops[1].at = "reserve" /\ ops[1].kind \in {"ensure", "with", "admit"}
        /\ actor[Subject] = "none" /\ Reserve
        /\ UNCHANGED <<run, pending, ticket, position, queue, running, closed, live>>
    BY DEF RegistryInvariant, ReserveAgain, At, ChainIsSerial, Fits, HeadIsSure
  <1> QED
    BY <1>1, ReserveKeeps

(* An actor that was stopped is closed. *)
LEMMA ClosedIsCounted ==
  ASSUME RegistryInvariant, NEW s \in Session, actor[s] = "broken",
         NEW to \in [Session -> Phase], Closed(s, to),
         ~At("discard"), ~At("discard")'
  PROVE  /\ ActorsFit' /\ ActorsAreCounted'
         /\ actor' \in [Session -> {"none", "ready", "broken"}] /\ phase' \in [Session -> Phase]
         /\ live' \in [Session -> Nat]
         /\ actor'[s] = "none" /\ \A x \in Session : x # s => actor'[x] = actor[x]
         /\ \A x \in Session : /\ Active(x) => actor'[x] = "ready"
                               /\ ~closed /\ ticket[x] => actor'[x] = "ready"
  <1> USE DEF RegistryInvariant
  <1>1. /\ actor' = [actor EXCEPT ![s] = "none"]
        /\ actor' \in [Session -> {"none", "ready", "broken"}] /\ phase' \in [Session -> Phase]
        /\ actor'[s] = "none" /\ \A x \in Session : x # s => actor'[x] = actor[x]
    BY DEF Closed, TypeOK
  <1>2. live[s] = 1 /\ live' = [live EXCEPT ![s] = live[s] - 1] /\ live \in [Session -> Nat]
    BY DEF ActorsAreCounted, InCreation, Closed, TypeOK
  <1>3. live' \in [Session -> Nat] /\ live'[s] = 0 /\ \A x \in Session : x # s => live'[x] = live[x]
    BY <1>2
  <1>4. ActorsAreCounted'
    BY <1>1, <1>3 DEF ActorsAreCounted, InCreation
  <1>5. Cardinality(Resident') = Cardinality(Resident) - 1
    BY <1>1, ResidentLoses
  <1>6. ActorsFit'
    BY <1>5, ResidentIsFinite, LimitsAreNat DEF ActorsFit
  <1>7. \A x \in Session : /\ Active(x) => actor'[x] = "ready"
                           /\ ~closed /\ ticket[x] => actor'[x] = "ready"
    BY <1>1 DEF TurnsHaveActors
  <1> QED
    BY <1>1, <1>3, <1>4, <1>6, <1>7

LEMMA BeginKeeps == ASSUME RegistryInvariant, Begin PROVE RegistryInvariant'
  <1>1. /\ ops # <<>> /\ ops[1].at = "begin" /\ ops[1].kind \in {"ensure", "with", "admit"}
        /\ ops[1].kind = "admit" => ~Active(Subject) /\ ~ticket[Subject]
        /\ UNCHANGED <<run, pending, ticket, position, queue, running, closed, live>>
    BY DEF Begin, At
  <1>2. /\ TypeOK /\ ChainIsSerial /\ TurnsHaveActors /\ Subject \in Session /\ ops[1] \in Op
    BY <1>1, HeadIsTyped DEF RegistryInvariant
  <1>3. CASE actor[Subject] = "ready" /\ Goto("resident") /\ UNCHANGED <<phase, actor>>
    <2>1. Fits([ops[1] EXCEPT !.at = "resident"])
      BY <1>1, <1>2 DEF Fits, Op
    <2>2. /\ ops' \in Seq(Op) /\ Len(ops') <= MaxCalls
          /\ ops' # <<>> /\ ops'[1].at = "resident" /\ ops'[1].session = ops[1].session
          /\ ops'[1].kind = ops[1].kind /\ ChainIsSerial'
      BY <1>1, <1>2, <1>3, <2>1, HeadGoes DEF Await
    <2>3. HeadIsSure'
      BY <1>1, <1>3, <2>2 DEF HeadIsSure, At, Subject, Active
    <2>4. ActorsFit' /\ ActorsAreCounted'
      BY <1>1, <1>3, <2>2 DEF RegistryInvariant, ActorsFit, ActorsAreCounted, InCreation, At, Resident
    <2>5. /\ phase' \in [Session -> Phase] /\ live' \in [Session -> Nat]
          /\ actor' \in [Session -> {"none", "ready", "broken"}]
          /\ \A x \in Session : /\ Active(x) => actor'[x] = "ready"
                                /\ ~closed /\ ticket[x] => actor'[x] = "ready"
      BY <1>1, <1>2, <1>3 DEF TypeOK, TurnsHaveActors
    <2> QED
      BY <1>1, <2>2, <2>3, <2>4, <2>5, WorkKeeps
  <1>4. CASE actor[Subject] = "broken" /\ Stop(Subject) /\ Goto("retry")
    <2>1. Fits([ops[1] EXCEPT !.at = "retry"])
      BY <1>1, <1>2 DEF Fits, Op
    <2>2. /\ ops' \in Seq(Op) /\ Len(ops') <= MaxCalls
          /\ ops' # <<>> /\ ops'[1].at = "retry" /\ ops'[1].session = ops[1].session
          /\ ChainIsSerial'
      BY <1>1, <1>2, <1>4, <2>1, HeadGoes DEF Await
    <2>3. /\ actor' \in [Session -> {"none", "ready", "broken"}] /\ phase' \in [Session -> Phase]
          /\ actor'[Subject] = "broken" /\ Resident' = Resident
          /\ \A x \in Session : actor'[x] # "none" <=> actor[x] # "none"
          /\ \A x \in Session : /\ Active(x)' => actor'[x] = "ready"
                                /\ ~closed' /\ ticket'[x] => actor'[x] = "ready"
      BY <1>1, <1>2, <1>4, StopIsSafe
    <2>4. HeadIsSure'
      BY <2>2, <2>3 DEF HeadIsSure, At, Subject
    <2>5. ActorsFit' /\ ActorsAreCounted'
      BY <1>1, <2>2, <2>3 DEF RegistryInvariant, ActorsFit, ActorsAreCounted, InCreation, At
    <2>6. /\ live' \in [Session -> Nat]
          /\ \A x \in Session : /\ Active(x) => actor'[x] = "ready"
                                /\ ~closed /\ ticket[x] => actor'[x] = "ready"
      BY <1>1, <1>2, <2>3 DEF TypeOK, Active
    <2> QED
      BY <1>1, <2>2, <2>3, <2>4, <2>5, <2>6, WorkKeeps
  <1>5. CASE actor[Subject] = "none" /\ Reserve
    BY <1>1, <1>5, ReserveKeeps
  <1> QED
    BY <1>3, <1>4, <1>5 DEF Begin

LEMMA RetryKeeps == ASSUME RegistryInvariant, Retry PROVE RegistryInvariant'
  <1>1. /\ ops # <<>> /\ ops[1].at = "retry" /\ ops[1].kind \in {"ensure", "with", "admit"}
        /\ actor[Subject] = "broken"
        /\ UNCHANGED <<run, pending, ticket, position, queue, running, closed>>
    BY DEF RegistryInvariant, Retry, At, ChainIsSerial, Fits, HeadIsSure
  <1>2. TypeOK /\ ChainIsSerial /\ Subject \in Session /\ ops[1] \in Op
    BY <1>1, HeadIsTyped DEF RegistryInvariant
  <1>3. CASE Closed(Subject, [phase EXCEPT ![Subject] = "cold"]) /\ Goto("reserve")
    <2>1. Fits([ops[1] EXCEPT !.at = "reserve"])
      BY <1>1, <1>2 DEF Fits, Op
    <2>2. /\ ops' \in Seq(Op) /\ Len(ops') <= MaxCalls
          /\ ops' # <<>> /\ ops'[1].at = "reserve" /\ ops'[1].session = ops[1].session
          /\ ChainIsSerial'
      BY <1>1, <1>2, <1>3, <2>1, HeadGoes DEF Await
    <2>3. [phase EXCEPT ![Subject] = "cold"] \in [Session -> Phase]
      BY <1>2 DEF TypeOK, Phase
    <2>4. ~At("discard") /\ ~At("discard")'
      BY <1>1, <2>2 DEF At
    <2>5. /\ ActorsFit' /\ ActorsAreCounted'
          /\ actor' \in [Session -> {"none", "ready", "broken"}] /\ phase' \in [Session -> Phase]
          /\ live' \in [Session -> Nat] /\ actor'[Subject] = "none"
          /\ \A x \in Session : /\ Active(x) => actor'[x] = "ready"
                                /\ ~closed /\ ticket[x] => actor'[x] = "ready"
      BY <1>1, <1>2, <1>3, <2>3, <2>4, ClosedIsCounted
    <2>6. HeadIsSure'
      BY <2>2, <2>5 DEF HeadIsSure, At, Subject
    <2> QED
      BY <1>1, <2>2, <2>5, <2>6, WorkKeeps
  <1>4. CASE NotClosed(Subject)
    BY <1>1, <1>2, <1>4, NotClosedKeeps
  <1> QED
    BY <1>3, <1>4 DEF Retry

LEMMA EvictedKeeps == ASSUME RegistryInvariant, Evicted PROVE RegistryInvariant'
  <1> DEFINE v == ops[1].victim
             to == [phase EXCEPT ![v] = "cold", ![Subject] = "starting"]
  <1>1. /\ ops # <<>> /\ ops[1].at = "evicting" /\ ops[1].kind \in {"ensure", "with", "admit"}
        /\ actor[Subject] = "none" /\ v # Subject /\ actor[v] = "broken"
        /\ UNCHANGED <<run, pending, ticket, position, queue, running, closed>>
    BY DEF RegistryInvariant, Evicted, At, ChainIsSerial, Fits, HeadIsSure
  <1>2. TypeOK /\ ChainIsSerial /\ Subject \in Session /\ v \in Session /\ ops[1] \in Op
    BY <1>1, HeadIsTyped DEF RegistryInvariant
  <1>3. CASE Closed(v, to) /\ Goto("creating")
    <2>1. Fits([ops[1] EXCEPT !.at = "creating"])
      BY <1>1, <1>2 DEF Fits, Op
    <2>2. /\ ops' \in Seq(Op) /\ Len(ops') <= MaxCalls
          /\ ops' # <<>> /\ ops'[1].at = "creating" /\ ops'[1].session = ops[1].session
          /\ ChainIsSerial'
      BY <1>1, <1>2, <1>3, <2>1, HeadGoes DEF Await
    <2>3. to \in [Session -> Phase]
      BY <1>2 DEF TypeOK, Phase
    <2>4. ~At("discard") /\ ~At("discard")'
      BY <1>1, <2>2 DEF At
    <2> HIDE DEF v, to
    <2>5. /\ ActorsFit' /\ ActorsAreCounted'
          /\ actor' \in [Session -> {"none", "ready", "broken"}] /\ phase' \in [Session -> Phase]
          /\ live' \in [Session -> Nat] /\ actor'[v] = "none"
          /\ \A x \in Session : x # v => actor'[x] = actor[x]
          /\ \A x \in Session : /\ Active(x) => actor'[x] = "ready"
                                /\ ~closed /\ ticket[x] => actor'[x] = "ready"
      BY <1>1, <1>2, <1>3, <2>3, <2>4, ClosedIsCounted
    <2>6. HeadIsSure'
      BY <1>1, <1>2, <2>2, <2>5 DEF HeadIsSure, At, Subject
    <2> QED
      BY <1>1, <2>2, <2>5, <2>6, WorkKeeps
  <1>4. CASE NotClosed(v)
    BY <1>1, <1>2, <1>4, NotClosedKeeps
  <1> QED
    BY <1>3, <1>4 DEF Evicted

LEMMA CreatedKeeps == ASSUME RegistryInvariant, Created PROVE RegistryInvariant'
  <1>1. /\ ops # <<>> /\ ops[1].at = "creating" /\ ops[1].kind \in {"ensure", "with", "admit"}
        /\ actor[Subject] = "none" /\ Cardinality(Resident) < MaxResident
        /\ UNCHANGED <<run, pending, ticket, position, queue, running, closed>>
    BY DEF RegistryInvariant, Created, At, ChainIsSerial, Fits, HeadIsSure, ActorsFit
  <1>2. TypeOK /\ ChainIsSerial /\ Subject \in Session /\ ops[1] \in Op
    BY <1>1, HeadIsTyped DEF RegistryInvariant
  <1>3. CASE /\ phase' = [phase EXCEPT ![Subject] = "failed"]
             /\ Return /\ UNCHANGED <<actor, live>>
    <2>1. phase' \in [Session -> Phase] /\ pending' \in [Session -> 0 .. 1]
      BY <1>1, <1>2, <1>3 DEF TypeOK, Phase
    <2> QED
      BY <1>1, <1>3, <2>1, ReturnKeeps
  <1>4. ASSUME live' = [live EXCEPT ![Subject] = @ + 1]
        PROVE  /\ live' \in [Session -> Nat]
               /\ live'[Subject] = 1
               /\ \A x \in Session : x # Subject => live'[x] = IF actor[x] # "none" THEN 1 ELSE 0
    <2>1. \A x \in Session : live[x] = IF actor[x] # "none" THEN 1 ELSE 0
      BY <1>1 DEF RegistryInvariant, ActorsAreCounted, InCreation, At
    <2> QED
      BY <1>1, <1>2, <1>4, <2>1 DEF TypeOK
  <1>5. ASSUME NEW at \in {"resident", "discard"}, Goto(at)
        PROVE  /\ ops' \in Seq(Op) /\ Len(ops') <= MaxCalls
               /\ ops' # <<>> /\ ops'[1].at = at /\ ops'[1].session = ops[1].session
               /\ ChainIsSerial'
    <2>1. Fits([ops[1] EXCEPT !.at = at])
      BY <1>1, <1>2 DEF Fits, Op
    <2> QED
      BY <1>1, <1>2, <1>5, <2>1, HeadGoes DEF Await
  <1>6. CASE /\ ~closed
             /\ actor' = [actor EXCEPT ![Subject] = "ready"]
             /\ phase' = [phase EXCEPT ![Subject] = "idle"]
             /\ live' = [live EXCEPT ![Subject] = @ + 1]
             /\ Goto("resident")
    <2>1. /\ actor' \in [Session -> {"none", "ready", "broken"}] /\ phase' \in [Session -> Phase]
          /\ actor'[Subject] = "ready" /\ \A x \in Session : x # Subject => actor'[x] = actor[x]
      BY <1>2, <1>6 DEF TypeOK, Phase
    <2>2. /\ ops' \in Seq(Op) /\ Len(ops') <= MaxCalls
          /\ ops' # <<>> /\ ops'[1].at = "resident" /\ ops'[1].session = ops[1].session
          /\ ChainIsSerial'
      BY <1>5, <1>6
    <2>3. ~Active(Subject) /\ ~ticket[Subject]
      BY <1>1, <1>2, <1>6 DEF RegistryInvariant, TurnsHaveActors
    <2>4. HeadIsSure'
      BY <1>1, <2>1, <2>2, <2>3 DEF HeadIsSure, At, Subject, Active
    <2>5. Cardinality(Resident') = Cardinality(Resident) + 1
      BY <1>1, <1>2, <1>6, ResidentGains
    <2>6. ActorsFit'
      BY <1>1, <2>2, <2>5, ResidentIsFinite, LimitsAreNat DEF ActorsFit, At
    <2>7. ActorsAreCounted' /\ live' \in [Session -> Nat]
      BY <1>1, <1>4, <1>6, <2>1, <2>2 DEF ActorsAreCounted, InCreation, At
    <2>8. \A x \in Session : /\ Active(x) => actor'[x] = "ready"
                             /\ ~closed /\ ticket[x] => actor'[x] = "ready"
      BY <2>1 DEF RegistryInvariant, TurnsHaveActors
    <2> QED
      BY <1>1, <2>1, <2>2, <2>4, <2>6, <2>7, <2>8, WorkKeeps
  <1>7. CASE /\ live' = [live EXCEPT ![Subject] = @ + 1]
             /\ Goto("discard") /\ UNCHANGED <<phase, actor>>
    <2>1. /\ actor' \in [Session -> {"none", "ready", "broken"}] /\ phase' \in [Session -> Phase]
      BY <1>2, <1>7 DEF TypeOK
    <2>2. /\ ops' \in Seq(Op) /\ Len(ops') <= MaxCalls
          /\ ops' # <<>> /\ ops'[1].at = "discard" /\ ops'[1].session = ops[1].session
          /\ ChainIsSerial'
      BY <1>5, <1>7
    <2>3. HeadIsSure'
      BY <1>1, <1>7, <2>2 DEF HeadIsSure, At, Subject
    <2>4. Resident' = Resident
      BY <1>7 DEF Resident
    <2>5. ActorsFit'
      BY <1>1, <2>4 DEF RegistryInvariant, ActorsFit
    <2>6. ActorsAreCounted' /\ live' \in [Session -> Nat]
      BY <1>1, <1>2, <1>4, <1>7, <2>2 DEF ActorsAreCounted, InCreation, At, Subject
    <2>7. \A x \in Session : /\ Active(x) => actor'[x] = "ready"
                             /\ ~closed /\ ticket[x] => actor'[x] = "ready"
      BY <1>7 DEF RegistryInvariant, TurnsHaveActors
    <2> QED
      BY <1>1, <2>1, <2>2, <2>3, <2>5, <2>6, <2>7, WorkKeeps
  <1> QED
    BY <1>3, <1>6, <1>7 DEF Created

(* The actor that could not be used is closed, or its record keeps it. *)
LEMMA DiscardKeeps == ASSUME RegistryInvariant, Discard PROVE RegistryInvariant'
  <1>1. /\ ops # <<>> /\ ops[1].at = "discard" /\ Return
        /\ phase' = [phase EXCEPT ![Subject] = "failed"]
        /\ UNCHANGED <<run, pending, ticket, position, queue, running, closed>>
        /\ actor[Subject] = "none" /\ Cardinality(Resident) < MaxResident
    BY DEF RegistryInvariant, Discard, At, HeadIsSure, ActorsFit
  <1>2. TypeOK /\ ChainIsSerial /\ Subject \in Session /\ ops[1] \in Op
    BY <1>1, HeadIsTyped DEF RegistryInvariant
  <1>3. /\ ops' \in Seq(Op) /\ Len(ops') <= MaxCalls
        /\ ops' # <<>> => ops'[1].at = "begin"
        /\ ChainIsSerial' /\ HeadIsSure'
    BY <1>1, <1>2, HeadReturns
  <1>4. /\ live[Subject] = 1
        /\ \A x \in Session : x # Subject => live[x] = IF actor[x] # "none" THEN 1 ELSE 0
    BY <1>1, <1>2 DEF RegistryInvariant, ActorsAreCounted, InCreation, At
  <1>5. phase' \in [Session -> Phase]
    BY <1>1, <1>2 DEF TypeOK, Phase
  <1>6. CASE live' = [live EXCEPT ![Subject] = @ - 1] /\ UNCHANGED actor
    <2>1. /\ live' \in [Session -> Nat] /\ actor' \in [Session -> {"none", "ready", "broken"}]
          /\ live'[Subject] = 0 /\ \A x \in Session : x # Subject => live'[x] = live[x]
      BY <1>2, <1>4, <1>6 DEF TypeOK
    <2>2. ActorsAreCounted'
      BY <1>1, <1>3, <1>4, <1>6, <2>1 DEF ActorsAreCounted, InCreation, At
    <2>3. ActorsFit'
      BY <1>3, <1>6 DEF RegistryInvariant, ActorsFit, At, Resident
    <2>4. \A x \in Session : /\ Active(x) => actor'[x] = "ready"
                             /\ ~closed /\ ticket[x] => actor'[x] = "ready"
      BY <1>6 DEF RegistryInvariant, TurnsHaveActors
    <2> QED
      BY <1>1, <1>3, <1>5, <2>1, <2>2, <2>3, <2>4, WorkKeeps
  <1>7. CASE actor' = [actor EXCEPT ![Subject] = "broken"] /\ UNCHANGED live
    <2>1. /\ live' \in [Session -> Nat] /\ actor' \in [Session -> {"none", "ready", "broken"}]
          /\ actor'[Subject] = "broken" /\ \A x \in Session : x # Subject => actor'[x] = actor[x]
      BY <1>2, <1>7 DEF TypeOK
    <2>2. ActorsAreCounted'
      BY <1>3, <1>4, <1>7, <2>1 DEF ActorsAreCounted, InCreation, At
    <2>3. Cardinality(Resident') = Cardinality(Resident) + 1
      BY <1>1, <1>2, <1>7, ResidentGains
    <2>4. ActorsFit'
      BY <1>1, <1>3, <2>3, ResidentIsFinite, LimitsAreNat DEF ActorsFit, At
    <2>5. \A x \in Session : /\ Active(x) => actor'[x] = "ready"
                             /\ ~closed /\ ticket[x] => actor'[x] = "ready"
      BY <1>1, <2>1 DEF RegistryInvariant, TurnsHaveActors
    <2> QED
      BY <1>1, <1>3, <1>5, <2>1, <2>2, <2>4, <2>5, WorkKeeps
  <1> QED
    BY <1>6, <1>7 DEF Discard

LEMMA BeginEvictKeeps == ASSUME RegistryInvariant, BeginEvict PROVE RegistryInvariant'
  <1>1. /\ ops # <<>> /\ ops[1].at = "begin" /\ ops[1].kind = "evict"
        /\ UNCHANGED <<run, pending, ticket, position, queue, running, closed, live>>
    BY DEF BeginEvict, At
  <1>2. TypeOK /\ ChainIsSerial /\ TurnsHaveActors /\ Subject \in Session /\ ops[1] \in Op
    BY <1>1, HeadIsTyped DEF RegistryInvariant
  <1>3. CASE Evictable(Subject) /\ Stop(Subject) /\ Goto("closing")
    <2>1. Fits([ops[1] EXCEPT !.at = "closing"])
      BY <1>1, <1>2 DEF Fits, Op
    <2>2. /\ ops' \in Seq(Op) /\ Len(ops') <= MaxCalls
          /\ ops' # <<>> /\ ops'[1].at = "closing" /\ ops'[1].session = ops[1].session
          /\ ops'[1].kind = ops[1].kind /\ ChainIsSerial'
      BY <1>1, <1>2, <1>3, <2>1, HeadGoes DEF Await
    <2>3. /\ actor' \in [Session -> {"none", "ready", "broken"}] /\ phase' \in [Session -> Phase]
          /\ actor'[Subject] = "broken" /\ Resident' = Resident
          /\ \A x \in Session : actor'[x] # "none" <=> actor[x] # "none"
          /\ \A x \in Session : /\ Active(x)' => actor'[x] = "ready"
                                /\ ~closed' /\ ticket'[x] => actor'[x] = "ready"
      BY <1>1, <1>2, <1>3, StopIsSafe
    <2>4. HeadIsSure'
      BY <1>1, <2>2, <2>3 DEF HeadIsSure, At, Subject
    <2>5. ActorsFit' /\ ActorsAreCounted'
      BY <1>1, <2>2, <2>3 DEF RegistryInvariant, ActorsFit, ActorsAreCounted, InCreation, At
    <2>6. /\ live' \in [Session -> Nat]
          /\ \A x \in Session : /\ Active(x) => actor'[x] = "ready"
                                /\ ~closed /\ ticket[x] => actor'[x] = "ready"
      BY <1>1, <1>2, <2>3 DEF TypeOK, Active
    <2> QED
      BY <1>1, <2>2, <2>3, <2>4, <2>5, <2>6, WorkKeeps
  <1>4. CASE Return /\ UNCHANGED <<actor, phase>>
    BY <1>1, <1>2, <1>4, ReturnKeeps DEF TypeOK
  <1> QED
    BY <1>3, <1>4 DEF BeginEvict

LEMMA EvictClosedKeeps == ASSUME RegistryInvariant, EvictClosed PROVE RegistryInvariant'
  <1>1. /\ ops # <<>> /\ ops[1].at = "closing" /\ ops[1].kind = "evict"
        /\ actor[Subject] = "broken"
        /\ UNCHANGED <<run, pending, ticket, position, queue, running, closed>>
    BY DEF RegistryInvariant, EvictClosed, At, HeadIsSure
  <1>2. TypeOK /\ ChainIsSerial /\ Subject \in Session
    BY <1>1, HeadIsTyped DEF RegistryInvariant
  <1>3. CASE Closed(Subject, [phase EXCEPT ![Subject] = "cold"]) /\ Return
    <2>1. /\ ops' \in Seq(Op) /\ Len(ops') <= MaxCalls
          /\ ops' # <<>> => ops'[1].at = "begin"
          /\ ChainIsSerial' /\ HeadIsSure'
      BY <1>1, <1>2, <1>3, HeadReturns
    <2>2. [phase EXCEPT ![Subject] = "cold"] \in [Session -> Phase]
      BY <1>2 DEF TypeOK, Phase
    <2>3. ~At("discard") /\ ~At("discard")'
      BY <1>1, <2>1 DEF At
    <2>4. /\ ActorsFit' /\ ActorsAreCounted'
          /\ actor' \in [Session -> {"none", "ready", "broken"}] /\ phase' \in [Session -> Phase]
          /\ live' \in [Session -> Nat]
          /\ \A x \in Session : /\ Active(x) => actor'[x] = "ready"
                                /\ ~closed /\ ticket[x] => actor'[x] = "ready"
      BY <1>1, <1>2, <1>3, <2>2, <2>3, ClosedIsCounted
    <2> QED
      BY <1>1, <2>1, <2>4, WorkKeeps
  <1>4. CASE NotClosed(Subject)
    BY <1>1, <1>2, <1>4, NotClosedKeeps
  <1> QED
    BY <1>3, <1>4 DEF EvictClosed

(* At shutdown every turn is cut short. *)
LEMMA BeginShutdownKeeps ==
  ASSUME RegistryInvariant, BeginShutdown
  PROVE  RegistryInvariant' /\ {s \in Session : Active(s)'} = {} /\ closed
  <1> DEFINE were == {s \in Resident : Active(s)}
             e == [ops[1] EXCEPT !.at = "closing", !.left = Resident, !.were = were]
  <1>1. /\ ops # <<>> /\ ops[1].at = "begin" /\ ops[1].kind = "shutdown"
        /\ running' = running - Cardinality(were)
        /\ ops' = [ops EXCEPT ![1] = e]
        /\ run' = [s \in Session |-> IF s \in Resident THEN "none" ELSE run[s]]
        /\ pending' = [s \in Session |-> IF s \in Resident THEN 0 ELSE pending[s]]
        /\ actor' = [s \in Session |-> IF s \in Resident THEN "broken" ELSE actor[s]]
        /\ phase' = [s \in Session |-> IF s \in Resident THEN "stopping" ELSE phase[s]]
        /\ UNCHANGED <<ticket, position, queue, closed, live>>
    BY DEF BeginShutdown, At
  <1>2. TypeOK /\ ChainIsSerial /\ ops[1] \in Op
    BY <1>1, HeadIsTyped DEF RegistryInvariant
  <1>3. closed
    <2>1. 1 \in 1 .. Len(ops)
      <3> HIDE DEF Op
      <3> QED BY <1>1, <1>2, LenProperties, EmptySeq DEF TypeOK
    <2> QED
      BY <1>1, <1>2, <2>1 DEF ChainIsSerial
  <1>4. /\ e \in Op /\ e.at = "closing" /\ e.left = Resident /\ e.kind = ops[1].kind
        /\ Fits(e)
    BY <1>1, <1>2 DEF Op, Await, Fits, Resident
  <1> HIDE DEF e
  <1>5. /\ ops' \in Seq(Op) /\ Len(ops') <= MaxCalls /\ ops' # <<>> /\ ops'[1] = e
        /\ ChainIsSerial'
    BY <1>1, <1>2, <1>4, HeadMoves
  <1>6. /\ run' \in [Session -> {"none", "starting", "running"}]
        /\ pending' \in [Session -> 0 .. 1] /\ phase' \in [Session -> Phase]
        /\ actor' \in [Session -> {"none", "ready", "broken"}]
    BY <1>1, <1>2 DEF TypeOK, Phase
  <1>7. \A s \in Session : ~Active(s)'
    BY <1>1 DEF RegistryInvariant, TurnsHaveActors, Active, Resident
  <1>8. running' = 0
    <2>1. were = {s \in Session : Active(s)}
      BY DEF RegistryInvariant, TurnsHaveActors, Resident
    <2>2. running = Cardinality(were) /\ running \in Nat
      BY <2>1 DEF RegistryInvariant, RunningIsCounted, TypeOK
    <2> QED
      BY <1>1, <2>2
  <1>9. TypeOK'
    BY <1>1, <1>2, <1>5, <1>6, <1>8 DEF TypeOK
  <1>10. Resident' = Resident
    BY <1>1 DEF Resident
  <1>11. HeadIsSure'
    BY <1>1, <1>4, <1>5 DEF HeadIsSure, At, Resident
  <1>12. ActorsFit' /\ ActorsAreCounted'
    BY <1>1, <1>4, <1>5, <1>10 DEF RegistryInvariant, ActorsFit, ActorsAreCounted, InCreation, At, Resident
  <1>13. TurnsHaveActors'
    BY <1>1, <1>3, <1>6, <1>7 DEF TurnsHaveActors, Active
  <1>14. {s \in Session : Active(s)'} = {}
    BY <1>7
  <1>15. RunningIsCounted'
    BY <1>8, <1>14, FS_EmptySet, LimitsAreNat DEF RunningIsCounted
  <1>16. QueueIsRecorded' /\ SlotsAreUsed'
    <2>1. \A i \in 1 .. Len(queue) : queue[i] \in Session
      BY <1>2, ElementOfSeq DEF TypeOK
    <2> QED
      BY <1>1, <1>3, <1>7, <2>1 DEF RegistryInvariant, QueueIsRecorded, SlotsAreUsed
  <1> QED
    BY <1>3, <1>5, <1>9, <1>11, <1>12, <1>13, <1>14, <1>15, <1>16 DEF RegistryInvariant

(* ... and the actors are closed in any order. *)
LEMMA ShutdownClosesKeeps ==
  ASSUME RegistryInvariant, NEW s \in Session, ShutdownCloses(s)
  PROVE  RegistryInvariant'
  <1> DEFINE e == [ops[1] EXCEPT !.left = @ \ {s}]
             to == [phase EXCEPT ![s] = IF s \in ops[1].were THEN "interrupted" ELSE "cold"]
  <1>1. /\ ops # <<>> /\ ops[1].at = "closing" /\ ops[1].kind = "shutdown" /\ s \in ops[1].left
        /\ \A x \in ops[1].left : actor[x] = "broken"
        /\ ops' = [ops EXCEPT ![1] = e]
        /\ UNCHANGED <<run, pending, ticket, position, queue, running, closed>>
    BY DEF RegistryInvariant, ShutdownCloses, At, HeadIsSure
  <1>2. TypeOK /\ ChainIsSerial /\ ops[1] \in Op
    BY <1>1, HeadIsTyped DEF RegistryInvariant
  <1>3. /\ e \in Op /\ e.at = "closing" /\ e.left = ops[1].left \ {s} /\ e.kind = "shutdown"
        /\ e.left \subseteq Session /\ Fits(e)
    BY <1>1, <1>2 DEF Op, Await, Fits
  <1> HIDE DEF e
  <1>4. /\ ops' \in Seq(Op) /\ Len(ops') <= MaxCalls /\ ops' # <<>> /\ ops'[1] = e
        /\ ChainIsSerial'
    BY <1>1, <1>2, <1>3, HeadMoves
  <1>5. CASE Closed(s, to)
    <2>1. to \in [Session -> Phase]
      BY <1>2 DEF TypeOK, Phase
    <2>2. ~At("discard") /\ ~At("discard")'
      BY <1>1, <1>3, <1>4 DEF At
    <2> HIDE DEF to
    <2>3. /\ ActorsFit' /\ ActorsAreCounted'
          /\ actor' \in [Session -> {"none", "ready", "broken"}] /\ phase' \in [Session -> Phase]
          /\ live' \in [Session -> Nat]
          /\ \A x \in Session : x # s => actor'[x] = actor[x]
          /\ \A x \in Session : /\ Active(x) => actor'[x] = "ready"
                                /\ ~closed /\ ticket[x] => actor'[x] = "ready"
      BY <1>1, <1>5, <2>1, <2>2, ClosedIsCounted
    <2>4. HeadIsSure'
      BY <1>1, <1>3, <1>4, <2>3 DEF HeadIsSure, At
    <2> QED
      BY <1>1, <1>4, <2>3, <2>4, WorkKeeps
  <1>6. CASE phase' = [phase EXCEPT ![s] = "failed"] /\ UNCHANGED <<actor, live>>
    <2>1. /\ actor' \in [Session -> {"none", "ready", "broken"}] /\ phase' \in [Session -> Phase]
          /\ live' \in [Session -> Nat]
      BY <1>2, <1>6 DEF TypeOK, Phase
    <2>2. HeadIsSure'
      BY <1>1, <1>3, <1>4, <1>6 DEF HeadIsSure, At
    <2>3. ActorsFit' /\ ActorsAreCounted'
      BY <1>1, <1>3, <1>4, <1>6 DEF RegistryInvariant, ActorsFit, ActorsAreCounted, InCreation, At, Resident
    <2>4. \A x \in Session : /\ Active(x) => actor'[x] = "ready"
                             /\ ~closed /\ ticket[x] => actor'[x] = "ready"
      BY <1>6 DEF RegistryInvariant, TurnsHaveActors
    <2> QED
      BY <1>1, <1>4, <2>1, <2>2, <2>3, <2>4, WorkKeeps
  <1> QED
    BY <1>5, <1>6 DEF ShutdownCloses

LEMMA SetPendingKeeps ==
  ASSUME RegistryInvariant, NEW s \in Session, NEW count \in 0 .. 1,
         SetPendingApprovalCount(s, count)
  PROVE  RegistryInvariant'
  <1>1. /\ pending' = [pending EXCEPT ![s] = count]
        /\ phase' = phase \/ \E p \in Phase : phase' = [phase EXCEPT ![s] = p]
        /\ UNCHANGED <<actor, run, ticket, position, queue, running, closed, ops, live>>
    BY DEF SetPendingApprovalCount, Phase
  <1>2. TypeOK'
    BY <1>1 DEF RegistryInvariant, TypeOK
  <1>3. ChainIsSerial' /\ HeadIsSure'
    BY <1>1 DEF RegistryInvariant, ChainIsSerial, HeadIsSure, At, Subject, Active
  <1>4. ActorsFit' /\ ActorsAreCounted' /\ TurnsHaveActors'
    BY <1>1 DEF RegistryInvariant, ActorsFit, ActorsAreCounted, TurnsHaveActors, InCreation, At,
      Subject, Active, Resident
  <1>5. RunningIsCounted' /\ QueueIsRecorded' /\ SlotsAreUsed'
    BY <1>1, TurnsStand DEF RegistryInvariant
  <1> QED
    BY <1>2, <1>3, <1>4, <1>5 DEF RegistryInvariant
-----------------------------------------------------------------------------
(* The queue and the slots.                                                *)

Turns == {s \in Session : Active(s)}

LEMMA TurnsAreFinite == IsFiniteSet(Turns) /\ Cardinality(Turns) \in Nat
  BY SessionsAreFinite, FS_Subset, FS_CardinalityType DEF Turns

LEMMA QueueIsTyped ==
  ASSUME TypeOK
  PROVE  /\ Len(queue) \in Nat /\ (queue = <<>> <=> Len(queue) = 0)
         /\ \A i \in 1 .. Len(queue) : queue[i] \in Session
  BY LenProperties, ElementOfSeq, EmptySeq DEF TypeOK

(* A Session waits at one place only, so that the queue is no longer than  *)
(* the Sessions are many.                                                  *)
LEMMA PlacesAreDistinct ==
  ASSUME QueueIsRecorded, NEW i \in 1 .. Len(queue), NEW j \in 1 .. Len(queue),
         queue[i] = queue[j]
  PROVE  i = j
  BY DEF QueueIsRecorded

LEMMA QueueFits ==
  ASSUME TypeOK, QueueIsRecorded
  PROVE  /\ Len(queue) <= Cardinality(Session)
         /\ \A s \in Session : ~ticket[s] => Len(queue) + 1 <= Cardinality(Session)
  <1> DEFINE f == [i \in 1 .. Len(queue) |-> queue[i]]
             Waiting == {s \in Session : ticket[s]}
  <1>1. Len(queue) \in Nat /\ \A i \in 1 .. Len(queue) : queue[i] \in Waiting
    BY QueueIsTyped DEF QueueIsRecorded
  <1>2. f \in Injection(1 .. Len(queue), Waiting)
    <2>1. f \in [1 .. Len(queue) -> Waiting]
      BY <1>1
    <2>2. \A i, j \in 1 .. Len(queue) : f[i] = f[j] => i = j
      BY PlacesAreDistinct
    <2> QED
      BY <2>1, <2>2 DEF Injection, IsInjective
  <1>3. IsFiniteSet(Waiting) /\ Cardinality(Waiting) \in Nat
        /\ Cardinality(Waiting) <= Cardinality(Session)
    BY ResidentIsFinite, FS_Subset, FS_CardinalityType
  <1> HIDE DEF f, Waiting
  <1>4. Cardinality(1 .. Len(queue)) <= Cardinality(Waiting)
    BY <1>2, <1>3, FS_Injection
  <1>5. Len(queue) <= Cardinality(Waiting)
    BY <1>1, <1>4, FS_Interval
  <1>6. ASSUME NEW s \in Session, ~ticket[s]
        PROVE  Cardinality(Waiting) + 1 <= Cardinality(Session)
    <2>1. IsFiniteSet(Session \ {s}) /\ Cardinality(Session \ {s}) = Cardinality(Session) - 1
      BY ResidentIsFinite, FS_RemoveElement
    <2>2. Waiting \in SUBSET (Session \ {s})
      BY <1>6 DEF Waiting
    <2>3. Cardinality(Waiting) <= Cardinality(Session \ {s})
      BY <2>1, <2>2, FS_Subset
    <2> QED
      BY <1>3, <2>1, <2>3, ResidentIsFinite
  <1> QED
    BY <1>1, <1>3, <1>5, <1>6, ResidentIsFinite

(* A turn is queued when all slots are taken. *)
LEMMA QueueKeeps ==
  ASSUME RegistryInvariant, Queue
  PROVE  /\ RegistryInvariant'
         /\ Subject \in Session /\ ~Active(Subject) /\ ~ticket[Subject] /\ running = MaxRunning
  <1>1. /\ ops # <<>> /\ ops[1].at = "resident" /\ ops[1].kind = "admit" /\ Return
        /\ running >= MaxRunning
        /\ queue' = Append(queue, Subject)
        /\ ticket' = [ticket EXCEPT ![Subject] = TRUE]
        /\ position' = [position EXCEPT ![Subject] = Len(queue) + 1]
        /\ phase' = [phase EXCEPT ![Subject] = "queued"]
        /\ UNCHANGED <<actor, run, pending, running, closed, live>>
        /\ actor[Subject] = "ready" /\ ~Active(Subject) /\ ~ticket[Subject]
    BY DEF RegistryInvariant, Queue, At, HeadIsSure
  <1>2. TypeOK /\ ChainIsSerial /\ Subject \in Session
    BY <1>1, HeadIsTyped DEF RegistryInvariant
  <1>3. /\ ops' \in Seq(Op) /\ Len(ops') <= MaxCalls
        /\ ops' # <<>> => ops'[1].at = "begin"
        /\ ChainIsSerial' /\ HeadIsSure'
    BY <1>1, <1>2, HeadReturns
  <1>4. /\ queue' \in Seq(Session) /\ Len(queue') = Len(queue) + 1 /\ Len(queue) \in Nat
        /\ \A i \in 1 .. Len(queue) : queue'[i] = queue[i]
        /\ queue'[Len(queue) + 1] = Subject
    BY <1>1, <1>2, AppendProperties, LenProperties DEF TypeOK
  <1>5. Len(queue) + 1 <= Cardinality(Session) /\ Cardinality(Session) \in Nat
    BY <1>1, <1>2, QueueFits, ResidentIsFinite DEF RegistryInvariant
  <1>6. /\ ticket' \in [Session -> BOOLEAN] /\ phase' \in [Session -> Phase]
        /\ position' \in [Session -> 0 .. Cardinality(Session)]
    BY <1>1, <1>2, <1>4, <1>5 DEF TypeOK, Phase
  <1>7. TypeOK'
    BY <1>1, <1>2, <1>3, <1>4, <1>6 DEF TypeOK
  <1>8. ActorsFit' /\ ActorsAreCounted'
    BY <1>1, <1>3 DEF RegistryInvariant, ActorsFit, ActorsAreCounted, InCreation, At, Resident
  <1>9. TurnsHaveActors'
    BY <1>1, <1>2, <1>3 DEF RegistryInvariant, TurnsHaveActors, Active, At, TypeOK
  <1>10. RunningIsCounted' /\ running = MaxRunning
    <2>1. {s \in Session : Active(s)}' = {s \in Session : Active(s)}
      BY <1>1 DEF Active
    <2>2. RunningIsCounted'
      BY <1>1, <2>1 DEF RegistryInvariant, RunningIsCounted
    <2> QED
      BY <1>1, <1>2, <2>2, LimitsAreNat DEF RegistryInvariant, RunningIsCounted, TypeOK
  <1>11. QueueIsRecorded'
    <2>1. \A i \in 1 .. Len(queue) : queue[i] # Subject /\ queue[i] \in Session
      BY <1>1, <1>2, QueueIsTyped DEF RegistryInvariant, QueueIsRecorded
    <2>2. ticket \in [Session -> BOOLEAN] /\ position \in [Session -> Nat]
      BY <1>2, <1>5 DEF TypeOK
    <2>3. \A s \in Session : ticket'[s] <=> \E i \in 1 .. Len(queue') : queue'[i] = s
      <3>1. ticket'[Subject] /\ queue'[Len(queue')] = Subject /\ Len(queue') \in 1 .. Len(queue')
        BY <1>1, <1>2, <1>4, <2>2
      <3>2. ASSUME NEW s \in Session, s # Subject
            PROVE  ticket'[s] <=> \E i \in 1 .. Len(queue') : queue'[i] = s
        <4>1. ticket'[s] = ticket[s]
          BY <1>1, <2>2, <3>2
        <4>2. ticket[s] <=> \E i \in 1 .. Len(queue) : queue[i] = s
          BY DEF RegistryInvariant, QueueIsRecorded
        <4>3. (\E i \in 1 .. Len(queue') : queue'[i] = s) <=> \E i \in 1 .. Len(queue) : queue[i] = s
          BY <1>4, <3>2
        <4> QED
          BY <4>1, <4>2, <4>3
      <3> QED
        BY <3>1, <3>2
    <2>4. \A i \in 1 .. Len(queue') : position'[queue'[i]] = i /\ run'[queue'[i]] = "none"
      <3>1. ASSUME NEW i \in 1 .. Len(queue)
            PROVE  position'[queue'[i]] = i /\ run'[queue'[i]] = "none"
        <4>1. queue'[i] = queue[i] /\ position'[queue[i]] = position[queue[i]]
          BY <1>1, <1>2, <1>4, <2>1, <2>2
        <4> QED
          BY <1>1, <4>1 DEF RegistryInvariant, QueueIsRecorded, Active
      <3>2. position'[Subject] = Len(queue) + 1 /\ run'[Subject] = "none"
        BY <1>1, <1>2, <2>2 DEF Active
      <3> QED
        BY <1>4, <3>1, <3>2 DEF Active
    <2> QED
      BY <2>3, <2>4 DEF QueueIsRecorded, Active
  <1>12. SlotsAreUsed'
    BY <1>1, <1>10 DEF SlotsAreUsed
  <1> QED
    BY <1>1, <1>2, <1>3, <1>7, <1>8, <1>9, <1>10, <1>11, <1>12 DEF RegistryInvariant

(* A turn is started when a slot is free, and then nobody waits. *)
LEMMA StartTurnKeeps ==
  ASSUME RegistryInvariant, StartTurn
  PROVE  /\ RegistryInvariant'
         /\ Subject \in Session /\ Turns' = Turns \cup {Subject} /\ Subject \notin Turns
         /\ running < MaxRunning /\ (~closed => queue = <<>>)
  <1>1. /\ ops # <<>> /\ ops[1].at = "resident" /\ ops[1].kind = "admit" /\ Goto("started")
        /\ running < MaxRunning
        /\ run' = [run EXCEPT ![Subject] = "starting"]
        /\ ticket' = [ticket EXCEPT ![Subject] = FALSE]
        /\ pending' = [pending EXCEPT ![Subject] = 0]
        /\ running' = running + 1
        /\ phase' = [phase EXCEPT ![Subject] = "running"]
        /\ UNCHANGED <<actor, position, queue, closed, live>>
        /\ actor[Subject] = "ready" /\ ~Active(Subject) /\ ~ticket[Subject]
    BY DEF RegistryInvariant, StartTurn, At, HeadIsSure
  <1>2. TypeOK /\ ChainIsSerial /\ Subject \in Session /\ ops[1] \in Op
    BY <1>1, HeadIsTyped DEF RegistryInvariant
  <1>3. Fits([ops[1] EXCEPT !.at = "started"])
    BY <1>1, <1>2 DEF Fits, Op
  <1>4. /\ ops' \in Seq(Op) /\ Len(ops') <= MaxCalls
        /\ ops' # <<>> /\ ops'[1].at = "started" /\ ops'[1].session = ops[1].session
        /\ ChainIsSerial'
    BY <1>1, <1>2, <1>3, HeadGoes DEF Await
  <1>5. /\ run' \in [Session -> {"none", "starting", "running"}] /\ run'[Subject] = "starting"
        /\ \A x \in Session : x # Subject => run'[x] = run[x]
        /\ ticket' = ticket
        /\ pending' \in [Session -> 0 .. 1] /\ phase' \in [Session -> Phase]
    BY <1>1, <1>2 DEF TypeOK, Phase
  <1>6. TypeOK'
    BY <1>1, <1>2, <1>4, <1>5 DEF TypeOK
  <1>7. HeadIsSure'
    BY <1>4, <1>5 DEF HeadIsSure, At, Subject
  <1>8. ActorsFit' /\ ActorsAreCounted'
    BY <1>1, <1>4 DEF RegistryInvariant, ActorsFit, ActorsAreCounted, InCreation, At, Resident
  <1>9. TurnsHaveActors'
    BY <1>1, <1>4, <1>5 DEF RegistryInvariant, TurnsHaveActors, Active, At, Subject
  <1>10. Turns' = Turns \cup {Subject} /\ Subject \notin Turns
    BY <1>1, <1>2, <1>5 DEF Turns, Active
  <1>11. RunningIsCounted'
    <2>1. Cardinality(Turns') = Cardinality(Turns) + 1
      BY <1>10, TurnsAreFinite, FS_AddElement
    <2> QED
      BY <1>1, <1>2, <2>1, TurnsAreFinite, LimitsAreNat
      DEF RegistryInvariant, RunningIsCounted, TypeOK, Turns
  <1>12. ~closed => queue = <<>>
    BY <1>1, <1>2, LimitsAreNat DEF RegistryInvariant, SlotsAreUsed, TypeOK
  <1>13. QueueIsRecorded'
    <2>1. \A i \in 1 .. Len(queue) : queue[i] # Subject /\ queue[i] \in Session
      BY <1>1, <1>2, QueueIsTyped DEF RegistryInvariant, QueueIsRecorded
    <2> QED
      BY <1>1, <1>5, <2>1 DEF RegistryInvariant, QueueIsRecorded, Active
  <1>14. SlotsAreUsed'
    BY <1>1, <1>12 DEF SlotsAreUsed
  <1> QED
    BY <1>1, <1>2, <1>4, <1>6, <1>7, <1>8, <1>9, <1>10, <1>11, <1>12, <1>13, <1>14 DEF RegistryInvariant

LEMMA StartedKeeps ==
  ASSUME RegistryInvariant, Started
  PROVE  RegistryInvariant' /\ Turns' = Turns
  <1>1. /\ ops # <<>> /\ ops[1].at = "started" /\ Return
        /\ run' = [run EXCEPT ![Subject] = "running"]
        /\ UNCHANGED <<phase, actor, pending, ticket, position, queue, running, closed, live>>
        /\ run[Subject] = "starting"
    BY DEF RegistryInvariant, Started, At, HeadIsSure
  <1>2. TypeOK /\ ChainIsSerial /\ Subject \in Session
    BY <1>1, HeadIsTyped DEF RegistryInvariant
  <1>3. /\ ops' \in Seq(Op) /\ Len(ops') <= MaxCalls
        /\ ops' # <<>> => ops'[1].at = "begin"
        /\ ChainIsSerial' /\ HeadIsSure'
    BY <1>1, <1>2, HeadReturns
  <1>4. /\ run' \in [Session -> {"none", "starting", "running"}] /\ run'[Subject] = "running"
        /\ \A x \in Session : x # Subject => run'[x] = run[x]
    BY <1>1, <1>2 DEF TypeOK
  <1>5. TypeOK'
    BY <1>1, <1>2, <1>3, <1>4 DEF TypeOK
  <1>6. ActorsFit' /\ ActorsAreCounted'
    BY <1>1, <1>3 DEF RegistryInvariant, ActorsFit, ActorsAreCounted, InCreation, At, Resident
  <1>7. \A x \in Session : Active(x)' <=> Active(x)
    BY <1>1, <1>2, <1>4 DEF Active
  <1>8. Turns' = Turns
    BY <1>7 DEF Turns
  <1>9. \A x \in Session : run'[x] # "starting"
    BY <1>1, <1>4 DEF RegistryInvariant, TurnsHaveActors
  <1>10. TurnsHaveActors'
    BY <1>1, <1>7, <1>9 DEF RegistryInvariant, TurnsHaveActors
  <1>11. RunningIsCounted'
    BY <1>1, <1>8 DEF RegistryInvariant, RunningIsCounted, Turns
  <1>12. QueueIsRecorded'
    <2>1. \A i \in 1 .. Len(queue) : queue[i] \in Session /\ (run'[queue[i]] = "none" <=> ~Active(queue[i]))
      
      BY <1>2, <1>7, QueueIsTyped DEF Active
    <2> QED
      BY <1>1, <2>1 DEF RegistryInvariant, QueueIsRecorded, Active
  <1>13. SlotsAreUsed'
    BY <1>1 DEF RegistryInvariant, SlotsAreUsed
  <1> QED
    BY <1>3, <1>5, <1>6, <1>8, <1>10, <1>11, <1>12, <1>13 DEF RegistryInvariant

(* What drainQueue takes when one turn ends: the first that waits, if any. *)
LEMMA TakenIsKnown ==
  ASSUME RegistryInvariant, NEW s \in Session, Active(s)
  PROVE  /\ closed \/ queue = <<>> => Taken(queue, MaxRunning - (running - 1)) = 0
         /\ ~closed /\ queue # <<>> => Taken(queue, MaxRunning - (running - 1)) = 1
  <1> DEFINE free == MaxRunning - (running - 1)
             Enough(k) == /\ Held(queue, k) <= free
                          /\ k = Len(queue) \/ Held(queue, k) = free
                          /\ \A j \in 0 .. k - 1 : Held(queue, j) < free
  <1>1. TypeOK /\ running \in Nat /\ MaxRunning \in Nat /\ running <= MaxRunning
    BY LimitsAreNat DEF RegistryInvariant, TypeOK, RunningIsCounted
  <1>2. free \in Int /\ free > 0
    BY <1>1
  <1>3. Held(queue, 0) = 0
    <2>1. {i \in 1 .. 0 : actor[queue[i]] # "none"} = {}
      OBVIOUS
    <2> QED
      BY <2>1, FS_EmptySet DEF Held
  <1>4. CASE closed
    BY <1>4 DEF Taken
  <1>5. CASE ~closed /\ queue = <<>>
    <2>1. Len(queue) = 0 /\ 0 .. Len(queue) = {0}
      BY <1>1, <1>5, QueueIsTyped
    <2>2. Enough(0)
      BY <1>2, <1>3, <2>1
    <2>3. Taken(queue, free) = CHOOSE k \in 0 .. Len(queue) : Enough(k)
      BY <1>2, <1>5 DEF Taken
    <2> HIDE DEF Enough
    <2>4. (CHOOSE k \in 0 .. Len(queue) : Enough(k)) \in 0 .. Len(queue)
      BY <2>1, <2>2
    <2> QED
      BY <1>5, <2>1, <2>3, <2>4
  <1>6. CASE ~closed /\ queue # <<>>
    <2>1. free = 1
      BY <1>1, <1>6 DEF RegistryInvariant, SlotsAreUsed
    <2>2. Len(queue) \in Nat /\ Len(queue) >= 1 /\ queue[1] \in Session
      BY <1>1, <1>6, QueueIsTyped
    <2>3. actor[queue[1]] = "ready"
      BY <1>6, <2>2 DEF RegistryInvariant, QueueIsRecorded, TurnsHaveActors
    <2>4. Held(queue, 1) = 1
      <3>1. {i \in 1 .. 1 : actor[queue[i]] # "none"} = {1}
        BY <2>3
      <3> QED
        BY <3>1, FS_Singleton DEF Held
    <2>5. Enough(1) /\ 1 \in 0 .. Len(queue)
      BY <1>3, <2>1, <2>2, <2>4
    <2>6. ASSUME NEW k \in 0 .. Len(queue), Enough(k)
          PROVE  k = 1
      <3>1. k # 0
        BY <1>3, <2>1, <2>2, <2>6
      <3>2. ~(1 \in 0 .. k - 1)
        BY <2>1, <2>4, <2>6
      <3> QED
        BY <2>2, <3>1, <3>2
    <2>7. Taken(queue, free) = CHOOSE k \in 0 .. Len(queue) : Enough(k)
      BY <1>2, <1>6 DEF Taken
    <2> HIDE DEF Enough
    <2>8. (CHOOSE k \in 0 .. Len(queue) : Enough(k)) = 1
      BY <2>5, <2>6
    <2> QED
      BY <1>6, <2>7, <2>8
  <1> QED
    BY <1>4, <1>5, <1>6

(* A turn ends and frees its slot, or hands it over to the first that waits. *)
Frees(s) ==
  /\ UNCHANGED <<queue, ticket, position>>
  /\ running' = running - 1
  /\ run' = [run EXCEPT ![s] = "none"]
  /\ closed \/ queue = <<>>

HandsOver(s) ==
  /\ ~closed /\ queue # <<>>
  /\ queue' = Tail(queue) /\ running' = running
  /\ run' = [x \in Session |-> IF x = queue[1] THEN "running" ELSE IF x = s THEN "none" ELSE run[x]]
  /\ ticket' = [x \in Session |-> x # queue[1] /\ ticket[x]]
  /\ position' = [x \in Session |-> IF x = queue[1] THEN 0
                                    ELSE IF ticket[x] THEN position[x] - 1 ELSE position[x]]

LEMMA FinishFreesOrHandsOver ==
  ASSUME RegistryInvariant, NEW s \in Session, Active(s), NEW to \in Phase, Finish(s, to)
  PROVE  /\ Frees(s) \/ HandsOver(s)
         /\ pending' \in [Session -> 0 .. 1] /\ phase' \in [Session -> Phase]
         /\ UNCHANGED <<actor, closed, live>>
  <1> DEFINE k == Taken(queue, MaxRunning - (running - 1))
             taken == {queue[i] : i \in 1 .. k}
             started == {x \in taken : actor[x] # "none"}
             rest == SubSeq(queue, k + 1, Len(queue))
  <1>1. /\ queue' = rest
        /\ running' = running - 1 + Cardinality(started)
        /\ run' = [x \in Session |-> IF x \in started THEN "running"
                                     ELSE IF x = s THEN "none" ELSE run[x]]
        /\ ticket' = [x \in Session |-> x \notin taken /\ ticket[x]]
        /\ position' = [x \in Session |->
             IF x \in taken THEN 0
             ELSE IF \E i \in 1 .. Len(rest) : rest[i] = x
               THEN CHOOSE i \in 1 .. Len(rest) : rest[i] = x
               ELSE position[x]]
        /\ UNCHANGED <<actor, closed, live>>
    BY DEF Finish
  <1>2. pending' \in [Session -> 0 .. 1] /\ phase' \in [Session -> Phase]
    BY DEF Finish, RegistryInvariant, TypeOK, Phase
  <1>3. TypeOK /\ Len(queue) \in Nat /\ running \in Nat
        /\ (queue = <<>> <=> Len(queue) = 0) /\ \A i \in 1 .. Len(queue) : queue[i] \in Session
    BY QueueIsTyped DEF RegistryInvariant, TypeOK
  <1>4. CASE closed \/ queue = <<>>
    <2>1. k = 0
      BY <1>4, TakenIsKnown
    <2>2. taken = {} /\ started = {}
      BY <2>1
    <2>3. rest = queue
      BY <1>3, <2>1, SubSeqFull DEF TypeOK
    <2> HIDE DEF k, taken, started, rest
    <2>4. running' = running - 1
      BY <1>1, <1>3, <2>2, FS_EmptySet
    <2>5. run' = [run EXCEPT ![s] = "none"] /\ ticket' = ticket /\ queue' = queue
      BY <1>1, <1>3, <2>2, <2>3 DEF TypeOK
    <2>6. position' = position
      <3>1. ASSUME NEW x \in Session
            PROVE  position'[x] = position[x]
        <4>1. CASE \E i \in 1 .. Len(queue) : queue[i] = x
          <5>1. PICK i \in 1 .. Len(queue) : queue[i] = x
            BY <4>1
          <5>2. \A j \in 1 .. Len(queue) : queue[j] = x => j = i
            BY <5>1, PlacesAreDistinct DEF RegistryInvariant
          <5>3. (CHOOSE j \in 1 .. Len(queue) : queue[j] = x) = i
            BY <5>1, <5>2
          <5>4. position'[x] = CHOOSE j \in 1 .. Len(queue) : queue[j] = x
            BY <1>1, <2>2, <2>3, <4>1
          <5> QED
            BY <5>1, <5>3, <5>4 DEF RegistryInvariant, QueueIsRecorded
        <4>2. CASE ~\E i \in 1 .. Len(queue) : queue[i] = x
          BY <1>1, <2>2, <2>3, <4>2
        <4> QED
          BY <4>1, <4>2
      <3>2. position \in [Session -> 0 .. Cardinality(Session)]
        BY <1>3 DEF TypeOK
      <3>3. position' = [x \in Session |-> position'[x]]
        BY <1>1
      <3> QED
        BY <3>1, <3>2, <3>3
    <2> QED
      BY <1>1, <1>2, <1>4, <2>4, <2>5, <2>6 DEF Frees
  <1>5. CASE ~closed /\ queue # <<>>
    <2> DEFINE h == queue[1]
    <2>1. k = 1
      BY <1>5, TakenIsKnown
    <2>2. h \in Session /\ 1 \in 1 .. Len(queue) /\ ticket[h]
      BY <1>3, <1>5 DEF RegistryInvariant, QueueIsRecorded
    <2>3. actor[h] = "ready"
      BY <1>5, <2>2 DEF RegistryInvariant, TurnsHaveActors
    <2>4. taken = {h}
      BY <2>1
    <2>5. started = {h}
      BY <2>3, <2>4
    <2>6. rest = Tail(queue)
      <3>1. rest = SubSeq(queue, 2, Len(queue))
        BY <2>1
      <3> HIDE DEF rest
      <3>2. queue \in Seq(Session) /\ queue # <<>>
        BY <1>3, <1>5 DEF TypeOK
      <3> QED
        BY <3>1, <3>2, TailIsSubSeq
    <2>7. /\ Len(Tail(queue)) = Len(queue) - 1
          /\ \A i \in 1 .. Len(Tail(queue)) : Tail(queue)[i] = queue[i + 1]
      BY <1>3, <1>5, HeadTailProperties DEF TypeOK
    <2> HIDE DEF k, taken, started, rest, h
    <2>8. running' = running
      <3>1. Cardinality(started) = 1
        BY <2>5, FS_Singleton
      <3> QED
        BY <1>1, <1>3, <3>1
    <2>9. /\ queue' = Tail(queue)
          /\ run' = [x \in Session |-> IF x = h THEN "running" ELSE IF x = s THEN "none" ELSE run[x]]
          /\ ticket' = [x \in Session |-> x # h /\ ticket[x]]
      BY <1>1, <2>4, <2>5, <2>6
    <2>10. ASSUME NEW x \in Session
           PROVE  position'[x] = IF x = h THEN 0
                                 ELSE IF ticket[x] THEN position[x] - 1 ELSE position[x]
      <3>1. CASE x = h
        BY <1>1, <2>4, <3>1
      <3>2. CASE x # h /\ ticket[x]
        <4>1. PICK i \in 1 .. Len(queue) : queue[i] = x
          BY <3>2 DEF RegistryInvariant, QueueIsRecorded
        <4>2. i # 1
          BY <3>2, <4>1 DEF h
        <4>3. i - 1 \in 1 .. Len(Tail(queue)) /\ Tail(queue)[i - 1] = x
          BY <1>3, <2>7, <4>1, <4>2
        <4>4. ASSUME NEW j \in 1 .. Len(Tail(queue)), Tail(queue)[j] = x
              PROVE  j = i - 1
          <5>1. j + 1 \in 1 .. Len(queue) /\ queue[j + 1] = queue[i]
            BY <1>3, <2>7, <4>1, <4>4
          <5>2. j + 1 = i
            BY <4>1, <5>1, PlacesAreDistinct DEF RegistryInvariant
          <5> QED
            BY <1>3, <2>7, <5>2
        <4>5. (CHOOSE j \in 1 .. Len(Tail(queue)) : Tail(queue)[j] = x) = i - 1
          BY <4>3, <4>4
        <4>6. position'[x] = CHOOSE j \in 1 .. Len(Tail(queue)) : Tail(queue)[j] = x
          BY <1>1, <2>4, <2>6, <3>2, <4>3
        <4>7. position[x] = i
          BY <4>1 DEF RegistryInvariant, QueueIsRecorded
        <4> QED
          BY <3>2, <4>5, <4>6, <4>7
      <3>3. CASE x # h /\ ~ticket[x]
        <4>1. ASSUME NEW i \in 1 .. Len(Tail(queue)), Tail(queue)[i] = x
              PROVE  FALSE
          <5>1. i + 1 \in 1 .. Len(queue) /\ queue[i + 1] = x
            BY <1>3, <2>7, <4>1
          <5> QED
            BY <3>3, <5>1 DEF RegistryInvariant, QueueIsRecorded
        <4> QED
          BY <1>1, <2>4, <2>6, <3>3, <4>1
      <3> QED
        BY <3>1, <3>2, <3>3
    <2>11. position' = [x \in Session |-> IF x = h THEN 0
                                          ELSE IF ticket[x] THEN position[x] - 1 ELSE position[x]]
      <3>1. position' = [x \in Session |-> position'[x]]
        BY <1>1
      <3> QED
        BY <2>10, <3>1
    <2> QED
      BY <1>1, <1>2, <1>5, <2>8, <2>9, <2>11 DEF HandsOver, h
  <1> QED
    BY <1>4, <1>5

(* Either way the counts stay true. *)
LEMMA EndedTurnKeepsCounts ==
  ASSUME RegistryInvariant, NEW s \in Session, Active(s), Frees(s) \/ HandsOver(s),
         UNCHANGED <<actor, closed>>
  PROVE  /\ queue' \in Seq(Session) /\ running' \in Nat
         /\ run' \in [Session -> {"none", "starting", "running"}]
         /\ ticket' \in [Session -> BOOLEAN]
         /\ position' \in [Session -> 0 .. Cardinality(Session)]
         /\ \A x \in Session :
              /\ run'[x] = "starting" => x # s /\ run[x] = "starting"
              /\ x # s /\ Active(x) => run'[x] = run[x]
              /\ run'[x] # "none" => Active(x) \/ (ticket[x] /\ ~closed)
              /\ ticket'[x] => ticket[x]
         /\ RunningIsCounted' /\ QueueIsRecorded' /\ SlotsAreUsed'
         /\ Turns' = IF HandsOver(s) THEN (Turns \ {s}) \cup {queue[1]} ELSE Turns \ {s}
  <1>1. /\ TypeOK /\ Len(queue) \in Nat /\ running \in Nat /\ Cardinality(Session) \in Nat
        /\ (queue = <<>> <=> Len(queue) = 0) /\ \A i \in 1 .. Len(queue) : queue[i] \in Session
        /\ running = Cardinality(Turns) /\ running <= MaxRunning
    BY QueueIsTyped, ResidentIsFinite DEF RegistryInvariant, TypeOK, RunningIsCounted, Turns
  <1>2. s \in Turns /\ IsFiniteSet(Turns \ {s})
        /\ Cardinality(Turns \ {s}) = Cardinality(Turns) - 1
    BY TurnsAreFinite, FS_RemoveElement DEF Turns
  <1>3. Cardinality(Turns \ {s}) \in Nat
    BY <1>2, FS_CardinalityType
  <1>4. CASE Frees(s)
    <2>1. /\ run' \in [Session -> {"none", "starting", "running"}] /\ run'[s] = "none"
          /\ \A x \in Session : x # s => run'[x] = run[x]
      BY <1>1, <1>4 DEF Frees, TypeOK
    <2>2. Turns' = Turns \ {s}
      BY <2>1 DEF Turns, Active
    <2>3. running' = Cardinality(Turns') /\ running' \in Nat /\ running' <= MaxRunning
      BY <1>1, <1>2, <1>3, <1>4, <2>2, LimitsAreNat DEF Frees
    <2>4. RunningIsCounted'
      BY <2>3 DEF RunningIsCounted, Turns
    <2>5. QueueIsRecorded'
      <3>1. \A i \in 1 .. Len(queue) : run'[queue[i]] = "none"
        BY <1>1, <2>1 DEF RegistryInvariant, QueueIsRecorded, Active
      <3> QED
        BY <1>4, <3>1 DEF Frees, RegistryInvariant, QueueIsRecorded, Active
    <2>6. SlotsAreUsed'
      BY <1>4 DEF Frees, SlotsAreUsed
    <2>7. ~HandsOver(s)
      BY <1>4 DEF Frees, HandsOver
    <2>8. /\ queue' \in Seq(Session) /\ ticket' \in [Session -> BOOLEAN]
          /\ position' \in [Session -> 0 .. Cardinality(Session)]
          /\ \A x \in Session : ticket'[x] => ticket[x]
      BY <1>1, <1>4 DEF Frees, TypeOK
    <2>9. \A x \in Session :
            /\ run'[x] = "starting" => x # s /\ run[x] = "starting"
            /\ x # s /\ Active(x) => run'[x] = run[x]
            /\ run'[x] # "none" => Active(x) \/ (ticket[x] /\ ~closed)
      <3> TAKE x \in Session
      <3>1. CASE x = s
        BY <2>1, <3>1
      <3>2. CASE x # s
        BY <2>1, <3>2 DEF Active
      <3> QED
        BY <3>1, <3>2
    <2> QED
      BY <2>1, <2>2, <2>3, <2>4, <2>5, <2>6, <2>7, <2>8, <2>9
  <1>5. CASE HandsOver(s)
    <2> DEFINE h == queue[1]
    <2>1. h \in Session /\ 1 \in 1 .. Len(queue) /\ ticket[h] /\ ~Active(h) /\ h # s /\ ~closed
      BY <1>1, <1>5 DEF HandsOver, RegistryInvariant, QueueIsRecorded
    <2>2. /\ queue' = Tail(queue) /\ queue' \in Seq(Session) /\ Len(queue') = Len(queue) - 1
          /\ \A i \in 1 .. Len(queue') : queue'[i] = queue[i + 1]
      BY <1>1, <1>5, HeadTailProperties DEF TypeOK, HandsOver
    <2>3. /\ running' = running
          /\ run' = [x \in Session |-> IF x = h THEN "running" ELSE IF x = s THEN "none" ELSE run[x]]
          /\ ticket' = [x \in Session |-> x # h /\ ticket[x]]
          /\ position' = [x \in Session |-> IF x = h THEN 0
                                            ELSE IF ticket[x] THEN position[x] - 1 ELSE position[x]]
      BY <1>5 DEF HandsOver
    <2> HIDE DEF h
    <2>4. /\ run' \in [Session -> {"none", "starting", "running"}]
          /\ run'[h] = "running" /\ run'[s] = "none"
          /\ \A x \in Session : x # s /\ x # h => run'[x] = run[x]
      BY <1>1, <2>1, <2>3 DEF TypeOK
    <2>5. ticket' \in [Session -> BOOLEAN] /\ \A x \in Session : ticket'[x] <=> x # h /\ ticket[x]
      BY <1>1, <2>3 DEF TypeOK
    <2>6. position' \in [Session -> 0 .. Cardinality(Session)]
      <3>1. \A x \in Session : ticket[x] => position[x] >= 1
        BY <1>1 DEF RegistryInvariant, QueueIsRecorded
      <3>2. \A x \in Session : position[x] \in 0 .. Cardinality(Session)
        BY <1>1 DEF TypeOK
      <3> QED
        BY <1>1, <2>3, <3>1, <3>2
    <2>7. Turns' = (Turns \ {s}) \cup {h}
      BY <2>1, <2>4 DEF Turns, Active
    <2>8. h \notin Turns \ {s}
      BY <2>1 DEF Turns
    <2>9. Cardinality(Turns') = Cardinality(Turns)
      <3>1. Cardinality((Turns \ {s}) \cup {h}) = Cardinality(Turns \ {s}) + 1
        BY <1>2, <2>8, FS_AddElement
      <3> QED
        BY <1>1, <1>2, <1>3, <2>7, <3>1, TurnsAreFinite
    <2>10. RunningIsCounted'
      BY <1>1, <2>3, <2>9, LimitsAreNat DEF RunningIsCounted, Turns
    <2>11. ASSUME NEW i \in 1 .. Len(queue')
           PROVE  /\ i + 1 \in 1 .. Len(queue) /\ queue'[i] = queue[i + 1]
                  /\ queue'[i] \in Session /\ queue'[i] # h
                  /\ ticket[queue'[i]] /\ ~Active(queue[i + 1]) /\ queue'[i] # s
                  /\ position[queue'[i]] = i + 1
      <3>1. i + 1 \in 1 .. Len(queue) /\ queue'[i] = queue[i + 1] /\ i + 1 # 1
        BY <1>1, <2>2
      <3>2. queue[i + 1] # h
        BY <2>1, <3>1, PlacesAreDistinct DEF RegistryInvariant, h
      <3> QED
        BY <1>1, <3>1, <3>2 DEF RegistryInvariant, QueueIsRecorded
    <2>12. QueueIsRecorded'
      <3>1. ASSUME NEW x \in Session
            PROVE  ticket'[x] <=> \E i \in 1 .. Len(queue') : queue'[i] = x
        <4>1. ASSUME ticket'[x]
              PROVE  \E i \in 1 .. Len(queue') : queue'[i] = x
          <5>1. x # h /\ ticket[x]
            BY <2>5, <4>1
          <5>2. PICK j \in 1 .. Len(queue) : queue[j] = x
            BY <5>1 DEF RegistryInvariant, QueueIsRecorded
          <5>3. j # 1
            BY <5>1, <5>2 DEF h
          <5>4. j - 1 \in 1 .. Len(queue') /\ queue'[j - 1] = x
            BY <1>1, <2>2, <5>2, <5>3
          <5> QED
            BY <5>4
        <4>2. ASSUME NEW i \in 1 .. Len(queue'), queue'[i] = x
              PROVE  ticket'[x]
          BY <2>5, <2>11, <4>2
        <4> QED
          BY <4>1, <4>2
      <3>2. ASSUME NEW i \in 1 .. Len(queue')
            PROVE  position'[queue'[i]] = i /\ run'[queue'[i]] = "none"
        <4>1. position'[queue'[i]] = i + 1 - 1
          BY <2>3, <2>11
        <4>2. run'[queue'[i]] = run[queue[i + 1]]
          BY <2>4, <2>11
        <4> QED
          BY <2>11, <4>1, <4>2 DEF Active
      <3> QED
        BY <3>1, <3>2 DEF QueueIsRecorded, Active
    <2>13. SlotsAreUsed'
      BY <2>1, <2>3, <1>5 DEF HandsOver, RegistryInvariant, SlotsAreUsed
    <2> QED
      BY <1>1, <1>5, <2>1, <2>2, <2>3, <2>4, <2>5, <2>6, <2>7, <2>10, <2>12, <2>13 DEF Active, h
  <1> QED
    BY <1>4, <1>5

LEMMA FinishTurnKeeps ==
  ASSUME RegistryInvariant, NEW s \in Session, FinishTurn(s)
  PROVE  RegistryInvariant' /\ Active(s) /\ (Frees(s) \/ HandsOver(s)) /\ closed' = closed
  <1>1. PICK to \in {"idle", "failed"} : Finish(s, to)
    BY DEF FinishTurn
  <1>2. run[s] = "running" /\ Active(s) /\ ops' = ops /\ to \in Phase
    BY DEF FinishTurn, Active, Phase
  <1>3. /\ Frees(s) \/ HandsOver(s)
        /\ pending' \in [Session -> 0 .. 1] /\ phase' \in [Session -> Phase]
        /\ UNCHANGED <<actor, closed, live>>
    BY <1>1, <1>2, FinishFreesOrHandsOver
  <1>4. /\ queue' \in Seq(Session) /\ running' \in Nat
        /\ run' \in [Session -> {"none", "starting", "running"}]
        /\ ticket' \in [Session -> BOOLEAN]
        /\ position' \in [Session -> 0 .. Cardinality(Session)]
        /\ \A x \in Session :
             /\ run'[x] = "starting" => x # s /\ run[x] = "starting"
             /\ x # s /\ Active(x) => run'[x] = run[x]
             /\ run'[x] # "none" => Active(x) \/ (ticket[x] /\ ~closed)
             /\ ticket'[x] => ticket[x]
        /\ RunningIsCounted' /\ QueueIsRecorded' /\ SlotsAreUsed'
    BY <1>2, <1>3, EndedTurnKeepsCounts
  <1>5. TypeOK'
    BY <1>2, <1>3, <1>4 DEF RegistryInvariant, TypeOK
  <1>6. ops # <<>> => Subject \in Session
    BY HeadIsTyped DEF RegistryInvariant
  <1>7. ChainIsSerial'
    BY <1>2, <1>3 DEF RegistryInvariant, ChainIsSerial
  <1>8. HeadIsSure'
    <2>1. At("resident") /\ ops[1].kind = "admit" => run'[Subject] = "none" /\ ~ticket'[Subject]
      BY <1>4, <1>6 DEF RegistryInvariant, HeadIsSure, At
    <2>2. At("started") => run'[Subject] = "starting"
      BY <1>2, <1>4, <1>6 DEF RegistryInvariant, HeadIsSure, At, Active
    <2> QED
      BY <1>2, <1>3, <2>1, <2>2 DEF RegistryInvariant, HeadIsSure, At, Subject, Active
  <1>9. ActorsFit' /\ ActorsAreCounted'
    BY <1>2, <1>3 DEF RegistryInvariant, ActorsFit, ActorsAreCounted, InCreation, At, Resident, Subject
  <1>10. TurnsHaveActors'
    BY <1>2, <1>3, <1>4 DEF RegistryInvariant, TurnsHaveActors, Active, At, Subject
  <1> QED
    BY <1>2, <1>3, <1>4, <1>5, <1>7, <1>8, <1>9, <1>10 DEF RegistryInvariant

LEMMA StartFailsKeeps ==
  ASSUME RegistryInvariant, StartFails
  PROVE  /\ RegistryInvariant' /\ Subject \in Session /\ Active(Subject)
         /\ Frees(Subject) \/ HandsOver(Subject)
         /\ closed' = closed
  <1>1. /\ ops # <<>> /\ ops[1].at = "started" /\ Return /\ Finish(Subject, "failed")
        /\ run[Subject] = "starting" /\ Active(Subject) /\ "failed" \in Phase
    BY DEF RegistryInvariant, StartFails, At, HeadIsSure, Active, Phase
  <1>2. TypeOK /\ ChainIsSerial /\ Subject \in Session
    BY <1>1, HeadIsTyped DEF RegistryInvariant
  <1>3. /\ Frees(Subject) \/ HandsOver(Subject)
        /\ pending' \in [Session -> 0 .. 1] /\ phase' \in [Session -> Phase]
        /\ UNCHANGED <<actor, closed, live>>
    BY <1>1, <1>2, FinishFreesOrHandsOver
  <1>4. /\ queue' \in Seq(Session) /\ running' \in Nat
        /\ run' \in [Session -> {"none", "starting", "running"}]
        /\ ticket' \in [Session -> BOOLEAN]
        /\ position' \in [Session -> 0 .. Cardinality(Session)]
        /\ \A x \in Session :
             /\ run'[x] = "starting" => x # Subject /\ run[x] = "starting"
             /\ x # Subject /\ Active(x) => run'[x] = run[x]
             /\ run'[x] # "none" => Active(x) \/ (ticket[x] /\ ~closed)
             /\ ticket'[x] => ticket[x]
        /\ RunningIsCounted' /\ QueueIsRecorded' /\ SlotsAreUsed'
    BY <1>1, <1>2, <1>3, EndedTurnKeepsCounts
  <1>5. /\ ops' \in Seq(Op) /\ Len(ops') <= MaxCalls
        /\ ops' # <<>> => ops'[1].at = "begin"
        /\ ChainIsSerial' /\ HeadIsSure'
    BY <1>1, <1>2, <1>3, HeadReturns
  <1>6. TypeOK'
    BY <1>2, <1>3, <1>4, <1>5 DEF TypeOK
  <1>7. ActorsFit' /\ ActorsAreCounted'
    BY <1>1, <1>3, <1>5 DEF RegistryInvariant, ActorsFit, ActorsAreCounted, InCreation, At, Resident
  <1>8. TurnsHaveActors'
    <2>1. \A x \in Session : run'[x] # "starting"
      BY <1>1, <1>4 DEF RegistryInvariant, TurnsHaveActors
    <2> QED
      BY <1>3, <1>4, <2>1 DEF RegistryInvariant, TurnsHaveActors, Active
  <1> QED
    BY <1>1, <1>2, <1>3, <1>4, <1>5, <1>6, <1>7, <1>8 DEF RegistryInvariant

(* The queue without its i-th entry. *)
LEMMA WithoutEntry ==
  ASSUME TypeOK, NEW i \in 1 .. Len(queue)
  PROVE  LET rest == SubSeq(queue, 1, i - 1) \o SubSeq(queue, i + 1, Len(queue)) IN
         /\ rest \in Seq(Session) /\ Len(rest) = Len(queue) - 1
         /\ \A j \in 1 .. Len(rest) : rest[j] = IF j < i THEN queue[j] ELSE queue[j + 1]
  <1> DEFINE p == SubSeq(queue, 1, i - 1)
             q == SubSeq(queue, i + 1, Len(queue))
  <1>1. /\ Len(queue) \in Nat /\ i \in Int /\ i - 1 \in Int /\ i + 1 \in Int /\ Len(queue) \in Int
        /\ i >= 1 /\ i <= Len(queue)
        /\ \A j \in 1 .. Len(queue) : queue[j] \in Session
    BY QueueIsTyped
  <1>2. /\ p \in Seq(Session) /\ Len(p) = i - 1
        /\ \A j \in 1 .. i - 1 : p[j] = queue[j]
    <2>1. \A j \in 1 .. i - 1 : queue[j] \in Session
      BY <1>1
    <2>2. /\ p \in Seq(Session) /\ Len(p) = IF 1 <= i - 1 THEN i - 1 - 1 + 1 ELSE 0
          /\ \A j \in 1 .. i - 1 - 1 + 1 : p[j] = queue[1 + j - 1]
      BY <1>1, <2>1, SubSeqProperties
    <2> QED
      BY <1>1, <2>2
  <1>3. /\ q \in Seq(Session) /\ Len(q) = Len(queue) - i
        /\ \A j \in 1 .. Len(queue) - i : q[j] = queue[i + j]
    <2>1. \A j \in i + 1 .. Len(queue) : queue[j] \in Session
      BY <1>1
    <2>2. /\ q \in Seq(Session) /\ Len(q) = IF i + 1 <= Len(queue) THEN Len(queue) - (i + 1) + 1 ELSE 0
          /\ \A j \in 1 .. Len(queue) - (i + 1) + 1 : q[j] = queue[i + 1 + j - 1]
      BY <1>1, <2>1, SubSeqProperties
    <2> QED
      BY <1>1, <2>2
  <1> HIDE DEF p, q
  <1>4. /\ p \o q \in Seq(Session) /\ Len(p \o q) = Len(p) + Len(q)
        /\ \A j \in 1 .. Len(p) + Len(q) : (p \o q)[j] = IF j <= Len(p) THEN p[j] ELSE q[j - Len(p)]
    BY <1>2, <1>3, ConcatProperties
  <1>5. Len(p \o q) = Len(queue) - 1
    BY <1>1, <1>2, <1>3, <1>4
  <1>6. ASSUME NEW j \in 1 .. Len(queue) - 1
        PROVE  (p \o q)[j] = IF j < i THEN queue[j] ELSE queue[j + 1]
    <2>1. CASE j < i
      BY <1>1, <1>2, <1>3, <1>4, <2>1
    <2>2. CASE ~(j < i)
      <3>1. j - (i - 1) \in 1 .. Len(queue) - i /\ i + (j - (i - 1)) = j + 1
        BY <1>1, <2>2
      <3>2. (p \o q)[j] = q[j - (i - 1)]
        BY <1>1, <1>2, <1>3, <1>4, <2>2
      <3> QED
        BY <1>3, <2>2, <3>1, <3>2
    <2> QED
      BY <2>1, <2>2
  <1> QED
    BY <1>4, <1>5, <1>6 DEF p, q

LEMMA CancelQueuedKeeps ==
  ASSUME RegistryInvariant, NEW s \in Session, CancelQueued(s)
  PROVE  RegistryInvariant'
  <1>1. PICK i \in 1 .. Len(queue) :
          LET rest == SubSeq(queue, 1, i - 1) \o SubSeq(queue, i + 1, Len(queue)) IN
          /\ queue[i] = s
          /\ queue' = rest
          /\ position' = [x \in Session |->
               IF x = s THEN 0
               ELSE IF \E j \in 1 .. Len(rest) : rest[j] = x
                 THEN CHOOSE j \in 1 .. Len(rest) : rest[j] = x
                 ELSE position[x]]
    BY DEF CancelQueued
  <1>2. /\ ~closed /\ ticket[s]
        /\ ticket' = [ticket EXCEPT ![s] = FALSE]
        /\ phase' = [phase EXCEPT ![s] = "idle"]
        /\ UNCHANGED <<actor, run, pending, running, closed, ops, live>>
    BY DEF CancelQueued
  <1>3. /\ TypeOK /\ Len(queue) \in Nat /\ Cardinality(Session) \in Nat
        /\ Len(queue) <= Cardinality(Session)
        /\ (queue = <<>> <=> Len(queue) = 0) /\ \A j \in 1 .. Len(queue) : queue[j] \in Session
    BY QueueIsTyped, QueueFits, ResidentIsFinite DEF RegistryInvariant
  <1>4. /\ queue' \in Seq(Session) /\ Len(queue') = Len(queue) - 1
        /\ \A j \in 1 .. Len(queue') : queue'[j] = IF j < i THEN queue[j] ELSE queue[j + 1]
    BY <1>1, <1>3, WithoutEntry
  <1>5. position' = [x \in Session |->
          IF x = s THEN 0
          ELSE IF \E j \in 1 .. Len(queue') : queue'[j] = x
            THEN CHOOSE j \in 1 .. Len(queue') : queue'[j] = x
            ELSE position[x]]
    BY <1>1
  <1>6. ASSUME NEW j \in 1 .. Len(queue')
        PROVE  \E m \in 1 .. Len(queue) :
                 m # i /\ queue'[j] = queue[m] /\ m = (IF j < i THEN j ELSE j + 1)
    BY <1>3, <1>4
  <1>7. ASSUME NEW j \in 1 .. Len(queue')
        PROVE  queue'[j] \in Session /\ queue'[j] # s
    <2>1. PICK m \in 1 .. Len(queue) : m # i /\ queue'[j] = queue[m]
      BY <1>6
    <2> QED
      BY <1>1, <1>3, <2>1, PlacesAreDistinct DEF RegistryInvariant
  <1>8. ASSUME NEW j \in 1 .. Len(queue'), NEW l \in 1 .. Len(queue'), queue'[l] = queue'[j]
        PROVE  l = j
    <2>1. PICK m \in 1 .. Len(queue) : queue'[j] = queue[m] /\ m = (IF j < i THEN j ELSE j + 1)
      BY <1>6
    <2>2. PICK n \in 1 .. Len(queue) : queue'[l] = queue[n] /\ n = (IF l < i THEN l ELSE l + 1)
      BY <1>6
    <2>3. m = n
      BY <1>8, <2>1, <2>2, PlacesAreDistinct DEF RegistryInvariant
    <2> QED
      BY <1>3, <1>4, <2>1, <2>2, <2>3
  <1>9. ASSUME NEW j \in 1 .. Len(queue')
        PROVE  position'[queue'[j]] = j
    <2>1. (CHOOSE l \in 1 .. Len(queue') : queue'[l] = queue'[j]) = j
      BY <1>8
    <2>2. position'[queue'[j]] = CHOOSE l \in 1 .. Len(queue') : queue'[l] = queue'[j]
      BY <1>5, <1>7
    <2> QED
      BY <2>1, <2>2
  <1>10. position' \in [Session -> 0 .. Cardinality(Session)]
    <2>1. ASSUME NEW x \in Session
          PROVE  position'[x] \in 0 .. Cardinality(Session)
      <3>1. CASE x = s
        BY <1>3, <1>5, <3>1
      <3>2. CASE x # s /\ \E j \in 1 .. Len(queue') : queue'[j] = x
        <4>1. PICK j \in 1 .. Len(queue') : queue'[j] = x
          BY <3>2
        <4>2. position'[x] = j
          BY <1>9, <4>1
        <4> QED
          BY <1>3, <1>4, <4>2
      <3>3. CASE x # s /\ ~\E j \in 1 .. Len(queue') : queue'[j] = x
        <4>1. position'[x] = position[x]
          BY <1>5, <3>3
        <4> QED
          BY <1>3, <4>1 DEF TypeOK
      <3> QED
        BY <3>1, <3>2, <3>3
    <2> QED
      BY <1>5, <2>1
  <1>11. /\ ticket' \in [Session -> BOOLEAN] /\ ~ticket'[s]
         /\ \A x \in Session : x # s => ticket'[x] = ticket[x]
         /\ phase' \in [Session -> Phase]
    BY <1>2, <1>3 DEF TypeOK, Phase
  <1>12. TypeOK'
    BY <1>2, <1>3, <1>4, <1>10, <1>11 DEF TypeOK
  <1>13. ops # <<>> => Subject \in Session
    BY <1>3, HeadIsTyped
  <1>14. ChainIsSerial' /\ HeadIsSure'
    BY <1>2, <1>11, <1>13 DEF RegistryInvariant, ChainIsSerial, HeadIsSure, At, Subject, Active
  <1>15. ActorsFit' /\ ActorsAreCounted' /\ TurnsHaveActors'
    BY <1>2, <1>11 DEF RegistryInvariant, ActorsFit, ActorsAreCounted, TurnsHaveActors, InCreation,
      At, Subject, Active, Resident
  <1>16. RunningIsCounted'
    <2>1. {x \in Session : Active(x)}' = {x \in Session : Active(x)}
      BY <1>2 DEF Active
    <2> QED
      BY <1>2, <2>1 DEF RegistryInvariant, RunningIsCounted
  <1>17. QueueIsRecorded'
    <2>1. ASSUME NEW x \in Session
          PROVE  ticket'[x] <=> \E j \in 1 .. Len(queue') : queue'[j] = x
      <3>1. ASSUME ticket'[x]
            PROVE  \E j \in 1 .. Len(queue') : queue'[j] = x
        <4>1. x # s /\ ticket[x]
          BY <1>11, <3>1
        <4>2. PICK m \in 1 .. Len(queue) : queue[m] = x
          BY <4>1 DEF RegistryInvariant, QueueIsRecorded
        <4>3. m # i
          BY <1>1, <4>1, <4>2
        <4>4. CASE m < i
          <5>1. m \in 1 .. Len(queue') /\ queue'[m] = x
            BY <1>3, <1>4, <4>2, <4>4
          <5> QED
            BY <5>1
        <4>5. CASE m > i
          <5>1. m - 1 \in 1 .. Len(queue') /\ ~(m - 1 < i) /\ m - 1 + 1 = m
            BY <1>3, <1>4, <4>2, <4>5
          <5>2. queue'[m - 1] = x
            BY <1>4, <4>2, <5>1
          <5> QED
            BY <5>1, <5>2
        <4> QED
          BY <4>3, <4>4, <4>5
      <3>2. ASSUME NEW j \in 1 .. Len(queue'), queue'[j] = x
            PROVE  ticket'[x]
        <4>1. x # s
          BY <1>7, <3>2
        <4>2. PICK m \in 1 .. Len(queue) : queue'[j] = queue[m]
          BY <1>6
        <4>3. ticket[x]
          BY <3>2, <4>2 DEF RegistryInvariant, QueueIsRecorded
        <4> QED
          BY <1>11, <4>1, <4>3
      <3> QED
        BY <3>1, <3>2
    <2>2. ASSUME NEW j \in 1 .. Len(queue')
          PROVE  run'[queue'[j]] = "none"
      <3>1. PICK m \in 1 .. Len(queue) : queue'[j] = queue[m]
        BY <1>6
      <3> QED
        BY <1>2, <3>1 DEF RegistryInvariant, QueueIsRecorded, Active
    <2> QED
      BY <1>9, <2>1, <2>2 DEF QueueIsRecorded, Active
  <1>18. SlotsAreUsed'
    <2>1. queue # <<>>
      BY <1>3
    <2> QED
      BY <1>2, <2>1 DEF RegistryInvariant, SlotsAreUsed
  <1> QED
    BY <1>12, <1>14, <1>15, <1>16, <1>17, <1>18 DEF RegistryInvariant

LEMMA ShutdownKeeps == ASSUME RegistryInvariant, Shutdown PROVE RegistryInvariant'
  <1> DEFINE waiting == {queue[i] : i \in 1 .. Len(queue)}
  <1>1. /\ \E s \in Session : Enter("shutdown", s)
        /\ closed' = TRUE /\ queue' = <<>>
        /\ ticket' = [x \in Session |-> x \notin waiting /\ ticket[x]]
        /\ position' = [x \in Session |-> IF x \in waiting THEN 0 ELSE position[x]]
        /\ phase' = [x \in Session |-> IF x \in waiting THEN "interrupted" ELSE phase[x]]
        /\ UNCHANGED <<actor, run, pending, running, live>>
    BY DEF Shutdown
  <1>2. TypeOK /\ ChainIsSerial /\ Cardinality(Session) \in Nat
    BY ResidentIsFinite DEF RegistryInvariant
  <1>3. PICK s \in Session : Enter("shutdown", s)
    BY <1>1
  <1>4. /\ ops' \in Seq(Op) /\ Len(ops') <= MaxCalls /\ ops' # <<>>
        /\ ops # <<>> => ops'[1] = ops[1]
        /\ ops = <<>> => ops'[1].at = "begin"
        /\ ChainIsSerial'
    BY <1>1, <1>2, <1>3, ChainGrows DEF Kind
  <1>5. ticket' = [x \in Session |-> FALSE]
    <2>1. \A x \in Session : x \in waiting <=> ticket[x]
      BY DEF RegistryInvariant, QueueIsRecorded
    <2>2. \A x \in Session : ticket'[x] = FALSE
      BY <1>1, <2>1
    <2> QED
      BY <1>1, <2>2
  <1>6. /\ ticket' \in [Session -> BOOLEAN] /\ phase' \in [Session -> Phase]
        /\ position' \in [Session -> 0 .. Cardinality(Session)]
        /\ queue' \in Seq(Session) /\ Len(queue') = 0
    <2>1. /\ ticket' \in [Session -> BOOLEAN] /\ phase' \in [Session -> Phase]
          /\ position' \in [Session -> 0 .. Cardinality(Session)]
      <3> HIDE DEF waiting
      <3> QED BY <1>1, <1>2, <1>5 DEF TypeOK, Phase
    <2>2. queue' \in Seq(Session) /\ Len(queue') = 0
      BY <1>1, EmptySeq
    <2> QED
      BY <2>1, <2>2
  <1> HIDE DEF waiting
  <1>7. TypeOK'
    BY <1>1, <1>2, <1>4, <1>6 DEF TypeOK
  <1>8. \A at \in Await : at # "begin" => (At(at)' <=> At(at))
    BY <1>4 DEF At
  <1>9. ops # <<>> => Subject' = Subject /\ Subject \in Session
    BY <1>2, <1>4, HeadIsTyped DEF Subject
  <1>10. HeadIsSure'
    <2>1. ops # <<>> => ~ticket'[Subject]
      BY <1>5, <1>9
    <2> QED
      BY <1>1, <1>4, <2>1 DEF RegistryInvariant, HeadIsSure, At, Subject, Active
  <1>11. ActorsFit'
    BY <1>1, <1>8 DEF RegistryInvariant, ActorsFit, Resident, Await
  <1>12. ActorsAreCounted'
    BY <1>1, <1>8, <1>9 DEF RegistryInvariant, ActorsAreCounted, InCreation, At, Await
  <1>13. TurnsHaveActors'
    BY <1>1, <1>8, <1>9 DEF RegistryInvariant, TurnsHaveActors, Active, At, Await
  <1>14. RunningIsCounted'
    <2>1. {x \in Session : Active(x)}' = {x \in Session : Active(x)}
      BY <1>1 DEF Active
    <2> QED
      BY <1>1, <2>1 DEF RegistryInvariant, RunningIsCounted
  <1>15. QueueIsRecorded' /\ SlotsAreUsed'
    BY <1>1, <1>5, <1>6 DEF QueueIsRecorded, SlotsAreUsed
  <1> QED
    BY <1>4, <1>7, <1>10, <1>11, <1>12, <1>13, <1>14, <1>15 DEF RegistryInvariant
-----------------------------------------------------------------------------
(* The invariant and what follows from it.                                 *)

LEMMA InitInvariant == ASSUME Init PROVE RegistryInvariant
  <1> USE DEF Init
  <1>1. Len(ops) = 0 /\ Len(queue) = 0 /\ ops \in Seq(Op) /\ queue \in Seq(Session)
    <2> HIDE DEF Op
    <2> QED BY EmptySeq
  <1>2. TypeOK
    <2>1. /\ phase \in [Session -> Phase] /\ actor \in [Session -> {"none", "ready", "broken"}]
          /\ run \in [Session -> {"none", "starting", "running"}]
          /\ pending \in [Session -> 0 .. 1] /\ live \in [Session -> Nat]
          /\ position \in [Session -> 0 .. Cardinality(Session)]
      BY ResidentIsFinite DEF Phase
    <2>2. ticket \in [Session -> BOOLEAN]
      OBVIOUS
    <2>3. Len(ops) <= MaxCalls
      BY <1>1, LimitsAreNat
    <2> QED
      BY <1>1, <2>1, <2>2, <2>3 DEF TypeOK
  <1>3. ChainIsSerial /\ HeadIsSure
    BY <1>1 DEF ChainIsSerial, HeadIsSure, At
  <1>4. Resident = {} /\ {s \in Session : Active(s)} = {}
    BY DEF Resident, Active
  <1>5. ActorsFit /\ RunningIsCounted
    <2>1. Cardinality(Resident) = 0 /\ Cardinality({s \in Session : Active(s)}) = 0
      BY <1>4, FS_EmptySet
    <2>2. ~At("creating") /\ ~At("discard")
      BY DEF At
    <2> QED
      BY <2>1, <2>2, LimitsAreNat DEF ActorsFit, RunningIsCounted
  <1>6. ActorsAreCounted /\ TurnsHaveActors
    BY DEF ActorsAreCounted, TurnsHaveActors, InCreation, At, Active
  <1>7. QueueIsRecorded /\ SlotsAreUsed
    BY <1>1 DEF QueueIsRecorded, SlotsAreUsed
  <1> QED
    BY <1>2, <1>3, <1>5, <1>6, <1>7 DEF RegistryInvariant

LEMMA StepKeepsInvariant == ASSUME RegistryInvariant, [Next]_vars PROVE RegistryInvariant'
  <1>1. CASE Chain
    BY <1>1, RefuseKeeps, BeginKeeps, RetryKeeps, ReserveAgainKeeps, EvictedKeeps, CreatedKeeps,
      DiscardKeeps, UseActorKeeps, ActedKeeps, QueueKeeps, StartTurnKeeps, StartedKeeps,
      StartFailsKeeps, BeginEvictKeeps, EvictClosedKeeps, BeginShutdownKeeps, EndShutdownKeeps,
      ShutdownClosesKeeps DEF Chain
  <1>2. CASE Shutdown
    BY <1>2, ShutdownKeeps
  <1>3. ASSUME NEW s \in Session,
               \/ \E kind \in Kind : Call(kind, s)
               \/ FinishTurn(s) \/ CancelQueued(s)
               \/ \E count \in 0 .. 1 : SetPendingApprovalCount(s, count)
        PROVE  RegistryInvariant'
    BY <1>3, CallKeeps, FinishTurnKeeps, CancelQueuedKeeps, SetPendingKeeps
  <1>4. CASE UNCHANGED vars
    BY <1>4 DEF vars, record, RegistryInvariant, TypeOK, ChainIsSerial, HeadIsSure, ActorsFit,
      ActorsAreCounted, TurnsHaveActors, RunningIsCounted, QueueIsRecorded, SlotsAreUsed,
      InCreation, At, Subject, Active, Resident
  <1> QED
    BY <1>1, <1>2, <1>3, <1>4 DEF Next

\* What the records, the counts and the chain of the pool know of each other holds
\* at every await, whatever ends, fails, is cancelled or shut down meanwhile.
THEOREM InvariantHolds == Spec => []RegistryInvariant
  BY InitInvariant, StepKeepsInvariant, PTL DEF Spec

\* Every record, the queue and the chain stay well-typed.
THEOREM TypeCorrect == Spec => []TypeOK
  BY InvariantHolds, PTL DEF RegistryInvariant

\* runningCountValue is the number of active runs and never exceeds
\* maxRunningSessions, and queueId and queuePosition say what the queue says.
THEOREM CountsAlwaysTrue == Spec => []CountsAreTrue
  <1>1. RegistryInvariant => CountsAreTrue
    BY DEF RegistryInvariant, CountsAreTrue
  <1> QED
    BY <1>1, InvariantHolds, PTL

LEMMA OwnedActors == ASSUME RegistryInvariant PROVE ActorsAreOwned
  <1>1. ActorsAreCounted /\ ActorsFit /\ HeadIsSure /\ (ops # <<>> => Subject \in Session)
    BY HeadIsTyped DEF RegistryInvariant
  <1> DEFINE Living == {s \in Session : live[s] > 0}
  <1>2. CASE At("discard")
    <2>1. actor[Subject] = "none" /\ Subject \in Session /\ Cardinality(Resident) < MaxResident
      BY <1>1, <1>2 DEF HeadIsSure, ActorsFit, At
    <2>2. Living = Resident \cup {Subject}
      BY <1>1, <1>2, <2>1 DEF ActorsAreCounted, InCreation, Resident
    <2>3. Cardinality(Living) <= Cardinality(Resident) + 1
      BY <2>2, ResidentIsFinite, FS_AddElement
    <2>4. Cardinality(Living) \in Nat
      BY ResidentIsFinite, FS_Subset, FS_CardinalityType
    <2> HIDE DEF Living
    <2>5. Cardinality(Living) <= MaxResident
      BY <2>1, <2>3, <2>4, ResidentIsFinite, LimitsAreNat
    <2> QED
      BY <1>1, <2>5 DEF ActorsAreOwned, ActorsAreCounted, Living
  <1>3. CASE ~At("discard")
    <2>1. Living = Resident
      BY <1>1, <1>3 DEF ActorsAreCounted, InCreation, Resident
    <2> QED
      BY <1>1, <2>1 DEF ActorsAreOwned, ActorsAreCounted, ActorsFit
  <1> QED
    BY <1>2, <1>3

\* Every actor that exists is in its record or in the hands of the call that
\* creates it, and no more than maxResidentSessionActors exist, those that could
\* not be closed included.
THEOREM ActorsAlwaysOwned == Spec => []ActorsAreOwned
  BY InvariantHolds, OwnedActors, PTL

\* makeCapacityLocked and evict choose an actor without a turn, and none is
\* given a turn until it is gone: a turn that runs or waits has its actor.
THEOREM TurnsAlwaysKeepTheirActor == Spec => []TurnsKeepTheirActor
  <1>1. RegistryInvariant => TurnsKeepTheirActor
    BY DEF RegistryInvariant, TurnsHaveActors, TurnsKeepTheirActor
  <1> QED
    BY <1>1, InvariantHolds, PTL

\* Whoever gives a slot back drains the queue: none is idle while a turn waits.
THEOREM SlotsAlwaysUsed == Spec => []SlotsAreUsed
  BY InvariantHolds, PTL DEF RegistryInvariant

-----------------------------------------------------------------------------
(* The pool hands its slots over in order.                                 *)

LEMMA InitRefines == ASSUME Init PROVE Pool!Init
  BY DEF Init, Pool!Init, Active

LEMMA PoolCounts == ASSUME NEW S PROVE Pool!Cardinality(S) = Cardinality(S)
  BY DEF Pool!Cardinality, Cardinality

LEMMA EndedTurnRefines ==
  ASSUME RegistryInvariant, NEW s \in Session, Active(s), Frees(s) \/ HandsOver(s),
         UNCHANGED <<actor, closed>>
  PROVE  Pool!Free(s) \/ Pool!HandOver(s)
  <1>1. /\ Turns' = IF HandsOver(s) THEN (Turns \ {s}) \cup {queue[1]} ELSE Turns \ {s}
        /\ s \in Turns
    BY EndedTurnKeepsCounts DEF Turns
  <1>2. CASE HandsOver(s)
    <2>1. Head(queue) = queue[1]
      BY <1>2 DEF HandsOver
    <2> QED
      BY <1>1, <1>2, <2>1 DEF HandsOver, Pool!HandOver, Turns
  <1>3. CASE Frees(s) /\ ~HandsOver(s)
    BY <1>1, <1>3 DEF Frees, Pool!Free, Turns
  <1> QED
    BY <1>2, <1>3

\* A turn that starts takes a slot, one that is queued waits, one that ends frees
\* its slot or hands it over; shutdown closes the pool and clears it when the
\* chain comes to it; everything else is a stutter.
LEMMA StepRefines ==
  ASSUME RegistryInvariant, [Next]_vars
  PROVE  [Pool!Next]_<<{s \in Session : Active(s)}, queue, ~closed>>
  <1> DEFINE Stutter == UNCHANGED <<{s \in Session : Active(s)}, queue, ~closed>>
  <1>1. ASSUME UNCHANGED <<run, queue, closed>>
        PROVE  Stutter
    BY <1>1 DEF Active
  <1>2. CASE StartTurn
    <2>1. /\ Subject \in Session /\ Turns' = Turns \cup {Subject} /\ Subject \notin Turns
          /\ running < MaxRunning /\ (~closed => queue = <<>>)
          /\ UNCHANGED <<queue, closed>>
      BY <1>2, StartTurnKeeps DEF StartTurn
    <2>2. Cardinality(Turns \cup {Subject}) = Cardinality(Turns) + 1
      BY <2>1, TurnsAreFinite, FS_AddElement
    <2>3. Cardinality(Turns \cup {Subject}) <= MaxRunning
      BY <2>1, <2>2, TurnsAreFinite, LimitsAreNat DEF RegistryInvariant, RunningIsCounted, Turns
    <2>4. Pool!Take(Subject)
      <3>1. UNCHANGED <<queue, ~closed>>
        BY <2>1
      <3> QED
        BY <2>1, <2>3, <3>1, PoolCounts DEF Pool!Take, Pool!Fits, Turns
    <2> QED
      BY <2>1, <2>4 DEF Pool!Next
  <1>3. CASE Queue
    <2>1. /\ Subject \in Session /\ ~Active(Subject) /\ ~ticket[Subject] /\ running = MaxRunning
          /\ queue' = Append(queue, Subject) /\ UNCHANGED <<run, closed>>
      BY <1>3, QueueKeeps DEF Queue
    <2>2. \A i \in 1 .. Len(queue) : queue[i] # Subject
      BY <2>1 DEF RegistryInvariant, QueueIsRecorded
    <2>3. Cardinality({s \in Session : Active(s)}) = MaxRunning
      BY <2>1 DEF RegistryInvariant, RunningIsCounted
    <2>4. {s \in Session : Active(s)}' = {s \in Session : Active(s)}
      BY <2>1 DEF Active
    <2>5. Pool!Wait(Subject)
      <3>1. UNCHANGED <<{s \in Session : Active(s)}, ~closed>>
        BY <2>1, <2>4
      <3> QED
        BY <2>1, <2>2, <2>3, <3>1, PoolCounts DEF Pool!Wait
    <2> QED
      BY <2>1, <2>5 DEF Pool!Next
  <1>4. CASE Started
    <2>1. Turns' = Turns /\ UNCHANGED <<queue, closed>>
      BY <1>4, StartedKeeps DEF Started
    <2> QED
      BY <2>1 DEF Turns
  <1>5. CASE StartFails
    <2>1. /\ Subject \in Session /\ Active(Subject) /\ (Frees(Subject) \/ HandsOver(Subject))
          /\ UNCHANGED <<actor, closed>>
      BY <1>5, StartFailsKeeps DEF StartFails, Finish
    <2>2. Pool!Free(Subject) \/ Pool!HandOver(Subject)
      BY <2>1, EndedTurnRefines
    <2> QED
      BY <2>1, <2>2 DEF Pool!Next
  <1>6. ASSUME NEW s \in Session, FinishTurn(s)
        PROVE  Pool!Next
    <2>1. Active(s) /\ (Frees(s) \/ HandsOver(s)) /\ UNCHANGED <<actor, closed>>
      BY <1>6, FinishTurnKeeps DEF FinishTurn, Finish
    <2>2. Pool!Free(s) \/ Pool!HandOver(s)
      BY <2>1, EndedTurnRefines
    <2> QED
      BY <2>2 DEF Pool!Next
  <1>7. ASSUME NEW s \in Session, CancelQueued(s)
        PROVE  Pool!Next
    <2>1. PICK i \in 1 .. Len(queue) :
            queue' = SubSeq(queue, 1, i - 1) \o SubSeq(queue, i + 1, Len(queue))
      BY <1>7 DEF CancelQueued
    <2>2. ~closed /\ UNCHANGED <<run, closed>>
      BY <1>7 DEF CancelQueued
    <2>3. {x \in Session : Active(x)}' = {x \in Session : Active(x)}
      BY <2>2 DEF Active
    <2>4. Pool!Cancel(i)
      BY <2>1, <2>2, <2>3 DEF Pool!Cancel
    <2> QED
      BY <2>4 DEF Pool!Next
  <1>8. CASE Shutdown
    <2>1. closed' = TRUE /\ queue' = <<>> /\ run' = run
      BY <1>8 DEF Shutdown
    <2>2. {x \in Session : Active(x)}' = {x \in Session : Active(x)}
      BY <2>1 DEF Active
    <2> QED
      BY <2>1, <2>2 DEF Pool!Next, Pool!Close
  <1>9. CASE BeginShutdown
    <2>1. {s \in Session : Active(s)'} = {} /\ closed /\ UNCHANGED <<queue, closed>>
      BY <1>9, BeginShutdownKeeps DEF BeginShutdown
    <2> QED
      BY <2>1 DEF Pool!Next, Pool!Clear
  <1>10. CASE Refuse \/ UseActor \/ Acted \/ EndShutdown
    BY <1>1, <1>10 DEF Refuse, UseActor, Acted, EndShutdown, record
  <1>11. CASE Begin \/ Retry \/ ReserveAgain \/ Evicted \/ Created \/ Discard
    BY <1>1, <1>11 DEF Begin, Retry, ReserveAgain, Evicted, Created, Discard
  <1>12. CASE BeginEvict \/ EvictClosed \/ \E s \in Session : ShutdownCloses(s)
    BY <1>1, <1>12 DEF BeginEvict, EvictClosed, ShutdownCloses
  <1>13. CASE \E s \in Session : \/ \E kind \in Kind : Call(kind, s)
                                 \/ \E count \in 0 .. 1 : SetPendingApprovalCount(s, count)
    BY <1>1, <1>13 DEF Call, SetPendingApprovalCount, record
  <1>14. CASE UNCHANGED vars
    BY <1>1, <1>14 DEF vars, record
  <1> QED
    BY <1>2, <1>3, <1>4, <1>5, <1>6, <1>7, <1>8, <1>9, <1>10, <1>11, <1>12, <1>13, <1>14
    DEF Next, Chain

\* The turns get their slots in the order in which they were admitted, and after
\* shutdown nothing is handed over: drainQueue, cancelQueued and admitTurn
\* together are the abstract pool.
THEOREM RegistryImplementsSlotPool == Spec => ImplementsSlotPool
  BY InitRefines, StepRefines, InvariantHolds, PTL
  DEF Spec, ImplementsSlotPool, Pool!Spec
================================================================================
