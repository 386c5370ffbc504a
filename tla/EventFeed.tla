------------------------------ MODULE EventFeed ------------------------------
(***************************************************************************)
(* From the committed events of a Thread to the event hub of the Web Host, *)
(* during one turn of a Session: the buffer of a consumer                  *)
(* (RuntimeEventBufferV1, src/src/runtime/runtime-event-buffer.ts), the    *)
(* adapter that drains it every 16 ms and turns Thread events into         *)
(* transcript events (ThreadUiAdapterV1, src/src/runtime/                  *)
(* thread-ui-adapter.ts), and the hub that numbers, retains and sends them *)
(* (WebEventHub, src/src/web/event-hub.ts).                                *)
(*                                                                         *)
(* The turn has N messages, one after the other: message k is started by   *)
(* the durable event 2k-1, streamed in ephemeral deltas, and completed by  *)
(* the durable event 2k; the event after them ends the turn.  A text is    *)
(* the sequence of its chunks, and the limits in bytes of the buffer and   *)
(* of the hub are left to the limits in items.  Tools, permissions and     *)
(* other events that are no part of a transcript are left out.             *)
(***************************************************************************)
EXTENDS Integers, SequencesExt

CONSTANTS
    N,           \* bound: the messages of the turn
    MaxChunks,   \* bound: the deltas of a message
    MaxItems,    \* maxItems of the consumer's buffer
    MaxRetained, \* maxEvents of the hub
    HighWater    \* the envelopes a response takes before write() returns false

ASSUME SizesAssumption ==
    /\ N \in Nat \ {0} /\ MaxChunks \in Nat
    /\ MaxItems \in Nat \ {0} /\ MaxRetained \in Nat \ {0} /\ HighWater \in Nat \ {0}

VARIABLES
    thread,  \* the Thread: its durable cursor and the chunks of each message
    buffer,  \* the RuntimeEventBufferV1 of the adapter
    adapter, \* the ThreadUiAdapterV1: its cursor, and of each message the
             \* text that was streamed and the entry of the transcript
    hub,     \* the WebEventHub; history: the cursors of its durable envelopes
    wire     \* the response of the browser's event stream, the hub's only client

feedVars == <<thread, buffer, adapter, hub, wire>>

Message == 1 .. N
LastSeq == 2 * N + 1
Started(k) == 2 * k - 1
Completed(k) == 2 * k
MessageAt(seq) == (seq + 1) \div 2
Streaming == {k \in Message : thread.seq = Started(k)}
FullText(k) == [i \in 1 .. thread.chunks[k] |-> i]

(* The messages whose completion the Thread has recorded. *)
Done == {k \in Message : thread.seq >= Completed(k)}
(* isProcessing, which the controller clears when the turn is flushed. *)
Processing == adapter.cursor < LastSeq

(* A Thread event: a durable one by its number, a delta by the durable     *)
(* cursor at its creation and by its text.                                 *)
Durable(seq) == [seq |-> seq, delta |-> << >>]
IsDelta(e) == e.delta # << >>

NoEntry == 0
NoText == << 0 >>

FeedInit ==
    /\ thread = [seq |-> 0, chunks |-> [k \in Message |-> 0]]
    /\ buffer = [items |-> << >>, acked |-> 0, latest |-> 0, replay |-> 0]
    /\ adapter = [cursor |-> 0, text |-> [k \in Message |-> << >>],
                  entry |-> [k \in Message |-> NoEntry]]
    /\ hub = [next |-> 1, retained |-> << >>, discarded |-> 0, sentText |-> NoText,
              durable |-> {}]
    /\ wire = [queue |-> << >>, attached |-> FALSE]
-----------------------------------------------------------------------------
(* requireReplay: the consumer must replay, and nothing is buffered. *)
RequireReplay(b, seq) == [b EXCEPT !.items = << >>, !.replay = seq]

(* evictEphemeralUntilFits: the oldest delta goes first. *)
Evict(items) ==
    LET delta == SelectInSeq(items, IsDelta)
    IN  IF Len(items) < MaxItems \/ delta = 0 THEN items ELSE RemoveAt(items, delta)

(* Mutant: what does not fit is dropped, durable or not. *)
OfferDurableLossy(b, seq) ==
    IF b.replay > 0 THEN [b EXCEPT !.replay = seq]
    ELSE IF Len(Evict(b.items)) >= MaxItems THEN [b EXCEPT !.latest = seq]
    ELSE [b EXCEPT !.items = Append(Evict(@), Durable(seq)), !.latest = seq]

(* offer, of a durable event. *)
OfferDurable(b, seq) ==
    IF b.replay > 0 THEN [b EXCEPT !.replay = seq]
    ELSE IF seq <= b.latest THEN b
    ELSE IF seq # b.latest + 1 \/ Len(Evict(b.items)) >= MaxItems THEN RequireReplay(b, seq)
    ELSE [b EXCEPT !.items = Append(Evict(@), Durable(seq)), !.latest = seq]

(* offerEphemeral: a delta extends the delta before it, takes a place that *)
(* is free, or is dropped.                                                 *)
OfferDelta(b, e) ==
    IF b.replay > 0 \/ e.seq < b.acked \/ e.seq > b.latest THEN b
    ELSE IF b.items # << >> /\ IsDelta(Last(b.items))
    THEN [b EXCEPT !.items = ReplaceAt(@, Len(@),
                        [seq |-> e.seq, delta |-> Last(@).delta \o e.delta])]
    ELSE IF Len(b.items) < MaxItems THEN [b EXCEPT !.items = Append(@, e)]
    ELSE b
-----------------------------------------------------------------------------
(* An envelope of the hub: what it tells the browser, about which entry of *)
(* the transcript.  A text of a transcript_update replaces the entry's     *)
(* text, or extends it when the envelope says at which length.             *)
Replaces == -1
Envelope(type, entry, text, start) ==
    [type |-> type, entry |-> entry, text |-> text, start |-> start, cursor |-> 0,
     message |-> 0]
ReplayReset(cursor) == [Envelope("reset", NoEntry, << >>, Replaces) EXCEPT !.cursor = cursor]

(* writeClient: what is over the high-water mark is still sent, but the    *)
(* response is ended and the hub forgets the client.                       *)
WriteClient(w, env) ==
    IF w.attached
    THEN [queue |-> Append(w.queue, env), attached |-> Len(w.queue) + 1 < HighWater]
    ELSE w

(* trim *)
Trim(h) ==
    IF Len(h.retained) <= MaxRetained THEN h
    ELSE [h EXCEPT !.retained = Tail(@), !.discarded = Head(h.retained).cursor]

Retain(h, env) ==
    IF env.type = "update" THEN h
    ELSE Trim([h EXCEPT !.retained = Append(@, env), !.durable = @ \cup {env.cursor}])

(* emit: the envelope gets the next cursor, is retained unless it is       *)
(* volatile, and is written to the client.  A state here is that of the    *)
(* feed while the adapter drains its buffer.                               *)
Emit(s, env) ==
    LET sent == [env EXCEPT !.cursor = s.hub.next]
    IN  [s EXCEPT !.hub = Retain([s.hub EXCEPT !.next = @ + 1], sent),
                  !.wire = WriteClient(@, sent)]

(* compactRuntimeEvent: a text that extends the one sent last goes out as  *)
(* the difference.                                                         *)
EmitUpdate(s, entry, text) ==
    LET sent == s.hub.sentText
        env  == IF sent # NoText /\ IsPrefix(sent, text)
                THEN Envelope("update", entry, SubSeq(text, Len(sent) + 1, Len(text)), Len(sent))
                ELSE Envelope("update", entry, text, Replaces)
    IN  Emit([s EXCEPT !.hub.sentText = text], env)
EmitFinalize(s, entry, text) ==
    Emit([s EXCEPT !.hub.sentText = NoText], Envelope("finalize", entry, text, Replaces))

(* project: startItem, updateItem and finishItem.  An entry of the         *)
(* transcript is named by the cursor of its transcript_append.             *)
Project(s, e) ==
    LET k == MessageAt(e.seq) IN
    IF IsDelta(e)
    THEN LET text == s.adapter.text[k] \o e.delta
         IN  EmitUpdate([s EXCEPT !.adapter.text[k] = text], s.adapter.entry[k], text)
    ELSE IF e.seq = LastSeq
    THEN [s EXCEPT !.adapter.cursor = e.seq]
    ELSE IF e.seq = Started(k)
    THEN Emit([s EXCEPT !.adapter.cursor = e.seq, !.adapter.entry[k] = s.hub.next],
              [Envelope("append", s.hub.next, << >>, Replaces) EXCEPT !.message = k])
    ELSE EmitFinalize([s EXCEPT !.adapter.cursor = e.seq], s.adapter.entry[k], FullText(k))

ProjectAll(s, events) == FoldLeft(Project, s, events)

(* flush: what is buffered, or, when the buffer overflowed, the durable    *)
(* events of the Thread after the adapter's cursor, without the deltas.    *)
Pending ==
    IF buffer.replay > 0
    THEN [i \in 1 .. thread.seq - adapter.cursor |-> Durable(adapter.cursor + i)]
    ELSE buffer.items

Flush ==
    LET s == ProjectAll([adapter |-> adapter, hub |-> hub, wire |-> wire], Pending)
    IN  /\ Pending # << >>
        /\ adapter' = s.adapter
        /\ hub' = s.hub
        /\ wire' = s.wire
        /\ buffer' = [items |-> << >>, acked |-> s.adapter.cursor, latest |-> s.adapter.cursor,
                      replay |-> 0]
        /\ UNCHANGED thread

(* commitAndPublish: the Thread's next durable event.  The hub sends it to *)
(* the browser at once, as a thread_event.                                 *)
Commit ==
    /\ thread.seq < LastSeq
    /\ thread' = [thread EXCEPT !.seq = @ + 1]
    /\ buffer' = OfferDurable(buffer, thread.seq + 1)
    /\ LET s == Emit([hub |-> hub, wire |-> wire],
                     Envelope("thread", NoEntry, << >>, Replaces))
       IN  hub' = s.hub /\ wire' = s.wire
    /\ UNCHANGED adapter

(* emitDelta *)
Stream ==
    \E k \in Streaming :
        /\ thread.chunks[k] < MaxChunks
        /\ thread' = [thread EXCEPT !.chunks[k] = @ + 1]
        /\ buffer' = OfferDelta(buffer, [seq |-> thread.seq, delta |-> << thread.chunks[k] + 1 >>])
        /\ UNCHANGED <<adapter, hub, wire>>

FeedNext == Commit \/ Stream \/ Flush
-----------------------------------------------------------------------------
(* The cursor that place i of a sequence of Thread events starts from, and *)
(* events that follow a cursor: a durable one is the next one, and a delta *)
(* belongs to the durable event before it.                                 *)
CursorAt(c, events, i) == IF i = 1 THEN c ELSE events[i - 1].seq
Follow(c, events) ==
    \A i \in DOMAIN events :
        events[i].seq = CursorAt(c, events, i) + (IF IsDelta(events[i]) THEN 0 ELSE 1)

(* "Durable overflow never silently drops facts": unless the consumer is   *)
(* told to replay, the durable events in its buffer are those after its    *)
(* cursor, in order and without a gap, up to the last one of the Thread;   *)
(* and what it replays from is what it has projected.                      *)
NoFactIsDropped ==
    /\ buffer.acked = adapter.cursor
    /\ IF buffer.replay > 0 THEN buffer.replay = thread.seq
       ELSE /\ Follow(buffer.acked, buffer.items)
            /\ CursorAt(buffer.acked, buffer.items, Len(buffer.items) + 1) = thread.seq
=============================================================================
