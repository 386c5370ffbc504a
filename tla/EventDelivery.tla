---------------------------- MODULE EventDelivery ----------------------------
(***************************************************************************)
(* How the browser's view of a Session follows the Thread (EventFeed): the *)
(* event stream with its cursor and its reconnects (connectEvents,         *)
(* src/web/src/api.ts), the reducer that applies envelopes and snapshots   *)
(* (src/web/src/reducer.ts), the requests for snapshots and the recovery   *)
(* (src/web/src/useWorkbench.ts), and the snapshot that the Host takes of  *)
(* the Thread (snapshotSessionV1, src/src/web/workbench-controller.ts).    *)
(*                                                                         *)
(* The Session stays the active one of one browser tab, in one Workspace   *)
(* context.  Connections break, responses fail and the page is reloaded    *)
(* as often as the scenario allows.                                        *)
(***************************************************************************)
EXTENDS EventFeed, FiniteSetsExt

CONSTANT
    Scenarios  \* bound: how many connections break, requests for a snapshot
               \* fail, pages are reloaded, and snapshots are asked for

Scenario == [losses : Nat, failures : Nat, reloads : Nat, requests : Nat]
ASSUME ScenariosAssumption == Scenarios \subseteq Scenario

VARIABLES
    source,   \* the EventSource: its state and the cursor of the stream
    view,     \* the WorkbenchState, as far as it is about the Session
    requests, \* the requests for a snapshot that have not been answered
    budget    \* what is left of the scenario

browserVars == <<source, view, requests, budget>>
deliveryVars == <<feedVars, browserVars>>

NoId == 0
(* The EventSource is closed until the timer connects it again, connecting *)
(* until its response opens, or open; it is suspended after a reset and    *)
(* paused during a recovery.                                               *)
Phase == {"closed", "connecting", "open", "suspended", "paused"}
Connection == {"connecting", "live", "replay-required"}
Status == {"loading", "refreshing", "ready", "failed"}

(* An entry of the transcript: of the snapshot (id NoId), or appended by   *)
(* an envelope (its cursor).                                               *)
SnapshotEntry(k) == [id |-> NoId, message |-> k, text |-> FullText(k), live |-> FALSE]
LiveEntry(id, k) == [id |-> id, message |-> k, text |-> << >>, live |-> TRUE]

(* A snapshot of the Session: snapshotSessionV1.  The Host returns a page  *)
(* of the latest 50 messages and the reducer keeps a bounded transcript;   *)
(* the model's Session has fewer messages than either bound.               *)
Snapshot == [messages |-> Cardinality(Done), cursor |-> hub.next - 1, processing |-> Processing]
NoSnapshot == [messages |-> 0, cursor |-> -1, processing |-> FALSE]

(* A request for a snapshot, and session_snapshot_started. *)
Request == [state |-> "asked", snapshot |-> NoSnapshot]
StartSnapshot(v, r) ==
    [v EXCEPT !.status = IF v.loaded THEN "refreshing" ELSE "loading",
              !.request = r, !.dirty = FALSE]

(* The page after baseline_loaded, which asks for a snapshot at once. *)
FreshView ==
    [connection |-> "connecting", lastCursor |-> 0, transcript |-> << >>,
     loaded |-> FALSE, status |-> "loading", request |-> NoId, dirty |-> FALSE,
     lastEvent |-> 0, snapshotAt |-> 0,
     settled |-> FALSE]

DeliveryInit ==
    /\ FeedInit
    /\ source = [phase |-> "closed", cursor |-> 0]
    /\ view = StartSnapshot(FreshView, 1)
    /\ requests = << Request >>
    /\ budget \in Scenarios
-----------------------------------------------------------------------------
(* reduceEnvelope, of replay_reset. *)
ReduceReset(v, env) ==
    [v EXCEPT !.connection = "replay-required", !.lastCursor = env.cursor,
              !.lastEvent = 0, !.snapshotAt = 0, !.dirty = TRUE]

(* An entry after an update, and after its end. *)
Updated(env, e) ==
    IF e.id # env.entry THEN e
    ELSE [e EXCEPT !.text = IF env.start = Replaces THEN env.text ELSE @ \o env.text]
Finalized(env, e) ==
    IF e.id # env.entry THEN e ELSE [e EXCEPT !.text = env.text, !.live = FALSE]

(* Mutant: an update is applied to whatever is there. *)
ReduceUpdateUnchecked(v, env) ==
    [v EXCEPT !.transcript = [i \in DOMAIN @ |-> Updated(env, @[i])]]

(* reduceRuntimeEvent, of transcript_update: an update that extends a text *)
(* needs the entry, at that length.                                        *)
Fitting(env, e) == e.id = env.entry /\ Len(e.text) = env.start
ReduceUpdate(v, env) ==
    IF env.start # Replaces /\ ~ \E i \in DOMAIN v.transcript : Fitting(env, v.transcript[i])
    THEN [v EXCEPT !.connection = "replay-required"]
    ELSE [v EXCEPT !.transcript = [i \in DOMAIN @ |-> Updated(env, @[i])]]

ReduceFinalize(v, env) ==
    [v EXCEPT !.transcript = [i \in DOMAIN @ |-> Finalized(env, @[i])]]

ReduceRuntimeEvent(v, env) ==
    CASE env.type = "append"   -> [v EXCEPT !.transcript = Append(@, LiveEntry(env.entry, env.message))]
      [] env.type = "update"   -> ReduceUpdate(v, env)
      [] env.type = "finalize" -> ReduceFinalize(v, env)
      [] env.type = "thread"   -> v

(* Mutant: what the snapshot covers is applied again. *)
ReduceEnvelopeTwice(v, env) ==
    IF env.type = "reset" THEN ReduceReset(v, env)
    ELSE IF v.connection = "replay-required" \/ env.cursor <= v.lastCursor THEN v
    ELSE ReduceRuntimeEvent([v EXCEPT !.lastCursor = env.cursor, !.lastEvent = env.cursor], env)

(* reduceEnvelope: an envelope is passed over when it is not news, or when *)
(* the snapshot that is shown was taken after it.                          *)
ReduceEnvelope(v, env) ==
    IF env.type = "reset" THEN ReduceReset(v, env)
    ELSE IF v.connection = "replay-required" \/ env.cursor <= v.lastCursor THEN v
    ELSE LET received == [v EXCEPT !.lastCursor = env.cursor, !.lastEvent = env.cursor]
         IN  IF env.cursor <= v.snapshotAt THEN received ELSE ReduceRuntimeEvent(received, env)

(* connection_changed; "connecting" stands for "reconnecting" too. *)
ConnectionChanged(v, phase) ==
    IF v.connection = "replay-required" THEN v
    ELSE [v EXCEPT !.connection = phase, !.dirty = @ \/ phase # "live"]

(* The filter that keeps the live entries. *)
KeepLive(kept, e) == IF e.live THEN Append(kept, e) ELSE kept

(* applySessionSnapshot and markSessionSnapshotReady: the transcript is    *)
(* the snapshot's, and behind it the entries that are still live if the    *)
(* same Thread was shown and is at work.                                   *)
ApplySnapshot(v, snapshot) ==
    LET pending == IF v.loaded /\ snapshot.processing
                   THEN FoldLeft(KeepLive, << >>, v.transcript) ELSE << >>
    IN  [v EXCEPT !.transcript = [k \in 1 .. snapshot.messages |-> SnapshotEntry(k)] \o pending,
                  !.loaded = TRUE, !.status = "ready", !.dirty = FALSE,
                  !.snapshotAt = snapshot.cursor, !.settled = ~ snapshot.processing]

(* Mutant: every answer is applied. *)
SnapshotLoadedAlways(v, request, snapshot) ==
    IF v.request # request THEN v ELSE ApplySnapshot(v, snapshot)

(* session_snapshot_loaded: only the answer to the latest request counts,  *)
(* and one that is older than the events shown is asked for again.         *)
SnapshotLoaded(v, request, snapshot) ==
    IF v.request # request THEN v
    ELSE IF v.lastEvent > snapshot.cursor THEN [v EXCEPT !.status = "refreshing", !.dirty = TRUE]
    ELSE ApplySnapshot(v, snapshot)
-----------------------------------------------------------------------------
(* attach: a cursor outside what is retained is answered with a reset.     *)
(* Otherwise what is retained after it, a suffix, is sent until the        *)
(* response is full; the browser becomes a client unless it is.            *)
Replayed(cursor) ==
    LET later == {i \in DOMAIN hub.retained : hub.retained[i].cursor > cursor}
    IN  SubSeq(hub.retained, Min(later \cup {Len(hub.retained) + 1}), Len(hub.retained))
(* Mutant: what was discarded is not missed. *)
OutsideAhead(cursor) == cursor >= hub.next
Outside(cursor) == cursor >= hub.next \/ cursor < hub.discarded
Attached(cursor) ==
    IF Outside(cursor) THEN [queue |-> << ReplayReset(hub.next - 1) >>, attached |-> FALSE]
    ELSE [queue |-> SubSeq(Replayed(cursor), 1, Min({HighWater, Len(Replayed(cursor))})),
          attached |-> Len(Replayed(cursor)) < HighWater]

(* connect, and the Host's openEventStream. *)
Connect ==
    /\ source.phase = "closed"
    /\ wire' = Attached(source.cursor)
    /\ source' = [source EXCEPT !.phase = "connecting"]
    /\ view' = ConnectionChanged(view, "connecting")
    /\ UNCHANGED <<thread, buffer, adapter, hub, requests, budget>>

Open ==
    /\ source.phase = "connecting"
    /\ source' = [source EXCEPT !.phase = "open"]
    /\ view' = ConnectionChanged(view, "live")
    /\ UNCHANGED <<feedVars, requests, budget>>

(* The listener of the stream. *)
Receive ==
    /\ source.phase = "open" /\ wire.queue # << >>
    /\ LET env == Head(wire.queue) IN
       IF env.type = "reset"
       THEN /\ source' = [phase |-> "suspended", cursor |-> env.cursor]
            /\ view' = ReduceEnvelope(view, env)
            /\ wire' = [queue |-> << >>, attached |-> FALSE]
       ELSE /\ wire' = [wire EXCEPT !.queue = Tail(@)]
            /\ IF env.cursor <= source.cursor THEN UNCHANGED <<source, view>>
               ELSE /\ source' = [source EXCEPT !.cursor = env.cursor]
                    /\ view' = ReduceEnvelope(view, env)
    /\ UNCHANGED <<thread, buffer, adapter, hub, requests, budget>>

(* onerror: the stream ends, because the hub ended the response or because *)
(* the connection is lost with what was under way.  A timer connects again.*)
Disconnect ==
    /\ wire' = [queue |-> << >>, attached |-> FALSE]
    /\ source' = [source EXCEPT !.phase = "closed"]
    /\ view' = ConnectionChanged(view, "connecting")
    /\ UNCHANGED <<thread, buffer, adapter, hub, requests>>

StreamEnds ==
    /\ source.phase = "open" /\ wire.queue = << >> /\ ~ wire.attached
    /\ Disconnect
    /\ UNCHANGED budget

ConnectionLost ==
    /\ source.phase \in {"connecting", "open"}
    /\ budget.losses > 0
    /\ budget' = [budget EXCEPT !.losses = @ - 1]
    /\ Disconnect
-----------------------------------------------------------------------------
(* loadSessionSnapshot: the latest request is reused while it is not       *)
(* answered, unless another one is forced.                                 *)
InFlight == requests # << >> /\ Last(requests).state # "answered"
Ask(v) ==
    /\ Len(requests) < budget.requests
    /\ requests' = Append(requests, Request)
    /\ view' = StartSnapshot(v, Len(requests) + 1)

(* The effect that loads what is missing or dirty, and the one that reads  *)
(* a snapshot again that the events overtook.                              *)
AskWhenDirty ==
    /\ view.connection = "live" /\ view.status # "failed"
    /\ ~ view.loaded \/ view.dirty
    /\ ~ InFlight
    /\ Ask(view)
    /\ UNCHANGED <<feedVars, source, budget>>

AskAgain ==
    /\ view.connection = "live" /\ view.dirty
    /\ view.status = "refreshing" \/ ~ view.loaded
    /\ Ask(view)
    /\ UNCHANGED <<feedVars, source, budget>>

(* recoverSession, of a view that needs no replay: it forces a request     *)
(* whatever the view's status is.                                          *)
Retry ==
    /\ view.connection # "replay-required"
    /\ Ask(view)
    /\ UNCHANGED <<feedVars, source, budget>>

(* The Host takes the snapshot. *)
Serve(r) ==
    /\ requests[r].state = "asked"
    /\ requests' = [requests EXCEPT ![r] = [state |-> "served", snapshot |-> Snapshot]]
    /\ UNCHANGED <<feedVars, source, view, budget>>

Answered(r) == requests' = [requests EXCEPT ![r] = [state |-> "answered", snapshot |-> NoSnapshot]]

Load(r) ==
    /\ requests[r].state = "served"
    /\ Answered(r)
    /\ view' = SnapshotLoaded(view, r, requests[r].snapshot)
    /\ UNCHANGED <<feedVars, source, budget>>

(* snapshot_failed *)
Fail(r) ==
    /\ requests[r].state # "answered"
    /\ budget.failures > 0
    /\ budget' = [budget EXCEPT !.failures = @ - 1]
    /\ Answered(r)
    /\ view' = IF view.request # r THEN view ELSE [view EXCEPT !.status = "failed", !.dirty = FALSE]
    /\ UNCHANGED <<feedVars, source>>
-----------------------------------------------------------------------------
(* recoverSession: the user asks for it, the stream is closed, ... *)
Recover ==
    /\ view.connection = "replay-required" /\ source.phase # "paused"
    /\ wire' = [queue |-> << >>, attached |-> FALSE]
    /\ source' = [source EXCEPT !.phase = "paused"]
    /\ view' = [view EXCEPT !.connection = "connecting"]
    /\ UNCHANGED <<thread, buffer, adapter, hub, requests, budget>>

(* ... and when the baseline has come or has failed it starts anew behind  *)
(* the last event that was reduced.                                        *)
Resume ==
    /\ source.phase = "paused"
    /\ source' = [phase |-> "closed", cursor |-> view.lastCursor]
    /\ \/ UNCHANGED <<view, requests>>
       \/ LET v == [view EXCEPT !.status = IF view.loaded THEN "refreshing" ELSE "loading",
                                !.request = NoId, !.dirty = FALSE,
                                !.lastEvent = 0, !.snapshotAt = 0]
          IN  IF InFlight THEN view' = v /\ UNCHANGED requests ELSE Ask(v)
    /\ UNCHANGED <<feedVars, budget>>

(* The page is loaded again. *)
Reload ==
    /\ budget.reloads > 0
    /\ budget' = [budget EXCEPT !.reloads = @ - 1]
    /\ wire' = [queue |-> << >>, attached |-> FALSE]
    /\ source' = [phase |-> "closed", cursor |-> 0]
    /\ view' = StartSnapshot(FreshView, 1)
    /\ requests' = << Request >>
    /\ UNCHANGED <<thread, buffer, adapter, hub>>

DeliveryNext ==
    \/ FeedNext /\ UNCHANGED browserVars
    \/ Connect
    \/ Open
    \/ Receive
    \/ StreamEnds
    \/ ConnectionLost
    \/ AskWhenDirty
    \/ AskAgain
    \/ Retry
    \/ \E r \in DOMAIN requests : Serve(r) \/ Load(r) \/ Fail(r)
    \/ Recover
    \/ Resume
    \/ Reload

DeliverySpec == DeliveryInit /\ [][DeliveryNext]_deliveryVars
-----------------------------------------------------------------------------
(* No text is spliced: what an entry shows while it is live is how the     *)
(* streamed text began, whatever updates were missed, and a final entry    *)
(* shows the whole message.                                                *)
EntriesAreTrue ==
    \A i \in DOMAIN view.transcript :
        LET e == view.transcript[i]
        IN  IF e.live THEN IsPrefix(e.text, adapter.text[e.message])
            ELSE e.text = FullText(e.message)

(* A snapshot that was taken when the turn was over repairs every event    *)
(* that was missed, and no event that it covers is applied to it again.    *)
SnapshotsRepair ==
    view.status = "ready" /\ ~ view.dirty /\ view.settled =>
        view.transcript = [k \in Message |-> SnapshotEntry(k)]

(* "Durable events have increasing cursors and are replayed after          *)
(* reconnect" (docs/plan/v0.3.0-web-workbench-plan.md): the view never     *)
(* moves past a durable envelope that it was not given, unless it is told  *)
(* that a replay is required.                                              *)
DurableEventsAreReplayed ==
    [][view'.lastCursor > view.lastCursor /\ view'.connection # "replay-required" =>
        hub.durable \cap view.lastCursor + 1 .. view'.lastCursor - 1 = {}]_deliveryVars

(* "An in-flight HTTP response may predate SSE already rendered.  Keep the *)
(* current display and request fresh authority instead of reverting"       *)
(* (reducer.ts): a message that was shown as final stays, whatever answers *)
(* and events come in which order, until the page is loaded again.  Only a *)
(* view that does not know which event it showed last cannot tell an old   *)
(* snapshot: after a reset, a recovery or a reload, until its next event.  *)
Final(v) == {k \in Message : \E i \in DOMAIN v.transcript :
                 v.transcript[i].message = k /\ ~ v.transcript[i].live}
Forgetful(v) == v.lastEvent = 0 /\ v.lastCursor > 0
FinalEntriesStay ==
    [][~ Forgetful(view) /\ budget'.reloads = budget.reloads
        => Final(view) \subseteq Final(view')]_deliveryVars

(* The same of every view that is not being recovered: not so, see         *)
(* EventDeliveryForgotten.cfg.                                             *)
FinalEntriesAlwaysStay ==
    [][view.connection # "replay-required" /\ source.phase # "paused"
       /\ budget'.reloads = budget.reloads => Final(view) \subseteq Final(view')]_deliveryVars

(* "Ephemeral deltas may be coalesced; the next durable transcript state   *)
(* repairs any missed delta" (docs/plan/v0.3.0-web-workbench-plan.md):     *)
(* when the turn is over and the view is live and in sync with the Host,   *)
(* each message is shown, and whole.                                       *)
AtRest ==
    /\ ~ Processing
    /\ source.phase = "open" /\ wire.attached /\ wire.queue = << >>
    /\ view.connection = "live" /\ view.status = "ready" /\ ~ view.dirty
    /\ ~ \E r \in DOMAIN requests : requests[r].state # "answered"
MessagesAreRepaired == AtRest => Final(view) = Message
=============================================================================
