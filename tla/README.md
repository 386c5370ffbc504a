# Orion Code: a TLA+ development

Orion Code is a local coding agent: a Node.js process that runs *turns* of a
conversation (a *Thread*) against a model and tools, from a terminal or behind a
Web host that serves several Sessions at a time. This directory holds TLA+ models
of the parts of it where order, failure and concurrency decide correctness, the
TLC runs that check them on small instances and TLAPS proofs for all instances.
Paths are those of the repository, under `src/`.

## 1. The system

### 1.1 Components

The code is TypeScript. Within one process everything runs on one JavaScript
thread, so code is atomic up to its next `await`; processes share files.

| Component (code) | State | Operations | What is hard | What makes it correct |
|---|---|---|---|---|
| Thread runtime and admission (`runtime/thread-runtime.ts`, `thread-admission.ts`) | active turn, queue, activeRun with its AbortController, deferred Goal continuation | turn start / follow-up / interrupt / steer, startMaintenance, Goal control, close; the run of a turn, finalizeTurn, settle, promotion | commands between two awaits of an ending turn, appends that throw half way, crash and restart, deadlines | one active turn; the log, admission and the runner agree; interrupts arrive; nothing runs twice; FIFO |
| Thread projection, turn commit (`thread-projection.ts`, `turn-commit.ts`) | turns, items, queue, commit and interaction facts derived from the log | one transition per event | a replay must accept exactly what was accepted live | terminal facts agree with the commit, no terminal over open items |
| Thread event store (`thread-event-store.ts`) | JSONL log with a hash chain, projection file, head file, cached head per process | appendDurableBatch, loadProjection, replay, recoverIncomplete, compact checkpoint CAS | several processes, torn tails, calls that throw between write and flush, power loss, three files written one after the other | the chain is never broken, no stale head is believed, what was returned is durable |
| File lock (`services/file-lock.ts`) | lock file, recovery sentinel | withFileLock(Sync): publish, wait, recover a dead owner's lock, release | recovery races with acquisition; recoverers die | mutual exclusion of live owners, abandoned locks are recovered |
| Compact checkpoint (`compact-transaction.ts`, `thread-compact-persistence.ts`) | checkpoint file, state pointer, started/completed/failed facts | prepare, candidate, five-way CAS, commit, orphan recovery | the history changes while the candidate is computed; crash between the two files | a checkpoint replaces exactly the history it was computed from |
| Plan review (`plan-review.ts`) | proposal revisions and decisions | propose, revise, decide, restore | a decision for an outdated revision, restart between decision and continuation | one decision per proposal, and its continuation once |
| Runtime event buffer (`runtime-event-buffer.ts`) | bounded queue per consumer | offer, next, close | overflow with coalescing of deltas | a consumer sees facts in order, or a gap |
| Tool gateway and receipts (`tool-gateway.ts`, `capability-receipt-journal.ts`, `thread-tool-journal.ts`, `resource-scope.ts`) | invocations with a durable intent and receipt, leases | load, begin, policy, approval, sandbox, execute, commit the receipt | crash between effect and receipt, retries under the same ID, aborts | an effect starts only after its intent, is never replayed, and its receipt is true |
| Agent loop, model coordinator (`agent-loop.ts`, `model-coordinator.ts`, `framework/`) | steps of one turn, budgets | model step, tool calls, stop | streaming, abort, budgets | each tool call has one result, the loop stops |
| Goals (`goals/`, `goal-runtime-coordinator.ts`, `services/goal-storage.ts`) | Goal record, continuation lease | create, pause, resume, continue, audit | continuation against a user's turn and a restart | one continuation per durable terminal |
| Subagents (`subagents/`, `subagent-thread-runtime.ts`) | children, budgets, provider gate | spawn, cancel, settle | cancellation against completion, nested budgets | budgets hold, every child settles |
| MCP, skills, prompts, capabilities (`mcp/`, `skills/`, `prompts/`, `capabilities/`) | lazy connections, caches | connect, list, call | concurrent first callers | one connection, failures are not cached |
| Settings (`services/settings-coordinator.ts`, `settings-document-repository.ts`, `atomic-write.ts`) | documents with revisions | read, CAS write, import | two processes, external edits | no lost update |
| Provider resilience (`services/provider-resilience/`) | request slots, cooldowns, a timer; attempts of a request | acquire, release, enterCooldown, wake; attempt, back off, recover, fall back | abort while queued, wake-ups, shared rate limits | leases are not leaked, Retry-After is respected, requests end |
| Sessions, storage, conversation compaction, model and project services (`services/`) | files, tables | file and network I/O | mostly sequential | |
| Web Session runtime registry (`web/session-runtime-registry.ts`) | record per Session, turn queue, running count, chain of serialised calls | ensureResident, withActor, admitTurn, cancelQueued, setPendingApprovalCount, evict, shutdown | turns end while a call holds the chain and awaits; closes fail | bounds hold, no actor is lost or closed under a turn, FIFO |
| Web event hub and client (`web/event-hub.ts`, `web/src/api.ts`, `reducer.ts`, `useWorkbench.ts`) | retained window, cursor, clients; view, requests for snapshots | publish, attach, heartbeat; reconnect, snapshot, recovery | restarts, back pressure, deltas, snapshots that race events | a client is complete or told to reset, no text is spliced |
| Workspace mutation arbiter (`web/workspace-mutation-arbiter.ts`) | queue per Workspace | run, cancel, close | revision read before an await | no stale edit is executed, the queue moves on |
| Workbench controller (`web/workbench-controller.ts`) | ledger of mutations, reservations, the control plane of the active Workspace, Context revision | executeMutation, activateContext, shutdown; the routes | retries, a switch that races edits, a switch that fails half way | an id runs once, no edit crosses Contexts, one control plane |
| Terminals, git services (`web/`) | ptys, temporary indexes | HTTP and WebSocket handlers | close against exit, compare-and-swap of the index | |
| User interfaces, tools, memory, commands (`tui-ui/`, `tools/`, ...) | | rendering, single calls | | |

How they meet: a Web route calls the *registry*, which creates the actor of a
Session and admits a turn; the actor's *Thread runtime* admits the turn again for
its Thread and appends its facts to the *event store*, under the *file lock* of
the log; the runner of the turn calls model and tools through the *gateway*, whose
receipts go to the same log; when the turn ends, *Goals* may ask for a
continuation and a *compaction* for a maintenance turn; the registry is told by a
promise. What the runtime appends is projected to the *event hub* and the user
interfaces. `PROJECT.json` lists every component with its files, and every place
(file and line) that is hard to test under `hazards`.

### 1.2 What is modelled

| Module | Code | Level |
|---|---|---|
| `FileLock` | `services/file-lock.ts` | one action per system call on a shared path |
| `ThreadRuntime` | `thread-runtime.ts`, `thread-admission.ts`, the turn facts of `thread-projection.ts`, `recoverIncomplete` | one action per handler and per await-free section |
| `ThreadEventStore` | `thread-event-store.ts` | one action per point where a failure leaves another state on disk |
| `DurableLog` | what the store promises | abstract |
| `SessionRegistry` | `web/session-runtime-registry.ts` | one action per await-free section |
| `SlotPool` | what the registry promises to turns | abstract |
| `CompactCheckpoint` | `compact-transaction.ts`, `thread-compact-persistence.ts`, the compact part of `thread-event-store.ts` | one action per critical section of the store |
| `WorkspaceMutations` | `web/workspace-mutation-arbiter.ts` | one action per await-free section |
| `ToolInvocation` | `tool-gateway.ts`, `thread-tool-journal.ts`, `ExecutionService` of `step-snapshot.ts`; composed with `WorkspaceMutations` | one action per await-free section |
| `ProviderRequests` | `provider-resilience/request-gate.ts`, `coordinator.ts` | one action per await-free section |
| `EventFeed` | `runtime-event-buffer.ts`, `thread-ui-adapter.ts`, `web/event-hub.ts` | one action per call from outside |
| `EventDelivery` | `web/src/api.ts`, `reducer.ts`, `useWorkbench.ts`, `snapshotSessionV1`; composed with `EventFeed` | one action per event, request or answer |
| `WorkbenchContext` | mutations and Context transitions of `web/workbench-controller.ts` | one action per await-free section |
| `FileLockProofs`, `ThreadRuntimeProofs`, `ThreadEventStoreProofs`, `SessionRegistryProofs`, `CompactCheckpointProofs`, `ToolInvocationProofs`, `ProviderRequestsProofs`, `WebProofs` | theorems and their proofs | |
| `MC...` | instances, symmetry, the choice of initial states | |

Each `MC` module extends the proofs of its component where they are a module of their
own: the invariant that is checked is the one that is proved. `WebProofs` has the
proofs of two, `WorkbenchContext` and `EventDelivery`, whose `MC` modules extend the
models themselves. The assumptions on the constants are evaluated by TLC either way. A definition introduced by "Mutant:" is the
definition below it with a plausible mistake; TLC finds the property that
`PROJECT.json` pairs with it violated. They are used by nothing else.

## 2. The models

### 2.1 File lock

`file[l]` is who published the file at the path of the lock or of its recovery
sentinel, `aged` the paths older than `staleMs`, and `at[p]` the call process `p`
makes next. `Look`, `PublishMain`, `Assess`, `Seize`, `Observe`, `Recheck`,
`Rename`, `Create`, `Recreate`, `Leave`, `Unseize`, `Finish`, `Release`, `Unlink` and
`Deadline` are the system calls of `withFileLock`, `createLock`,
`recoverStaleLock` and the release, in their order; `Die` kills a process between
any two, `Age` lets time pass. A token is identified with the process that
published it: tokens are random and a process is one run of the program.

*Runs.* `file_lock`: three processes, two of which die anywhere, inside recovery too,
and lock files or sentinels that an older program left without an owner record. Three
are a dead owner, a recoverer that may die as well, and a contender. The history
variable `robbed` records that somebody has moved away the sentinel of a live process.
Until then no two live processes own the main lock (`GuardedExclusion`), and its file
goes away only with its owner (`OnlyDeadOwnersAreEvicted`); and whatever happens, a lock
abandoned by a dead owner is taken over as long as somebody waits
(`AbandonedLockIsRecovered`), by way of a dead recoverer's sentinel too. The fairness is
that live processes take their steps and files grow old. `file_lock_abandoned` shows that
the condition is needed: when a process dies owning the sentinel, the recovery of the
sentinel itself is not protected by anything, a contender moves away the new sentinel of a
live process, and with four processes two own the main lock.

### 2.2 Thread runtime

State is in three groups that a crash separates: the durable projection
(`status`, `kind`, `commit`, `asked`, `open`), the admission controller (`active`,
`intent`, `queue`, `closed`) and the runtime (`run`, `phase`, `aborted`,
`outcome`, `published`, `deferred`, `controls`, `promoting`). `phase` is where
activeRun is: running, in finalizeTurn before or after the terminal event
(`finalize`, `promote`), or `settling`, between finalizeTurn and the end of
`await onTurnSettled`.

`StartIdle`, `StartSettling`, `Enqueue` and `RequestFails` are the outcomes of a
request (regular, maintenance or Goal control), `Interrupt`, `InterruptFails`, `Look`
(getSnapshot, which drops overdue entries) and `Close` the other commands; `StartItem`,
`FinishItem`, `Commit` and `Return` what a runner may do; `Finalize` and
`Promote` are finalizeTurn with the terminal, the expiry facts, the priority of
maintenance, the deferred continuation and the start of the successor;
`PromoteFails` is its second call from the catch handler; `Settle` the finally
handler; `PromoteRestored` the constructor's microtask, which fails in `StartFirstFails`
where the append of the promoted turn's start throws; `PassDeadline`, `Crash`, `Open` and
`OpenFails` the environment. `Open` restores at most `maxQueuedItems` entries, as
`admission.restore` does; with more it throws (`OpenFails`). The history variable `thrown`
holds the turns whose start, or whose place in the queue, has thrown after admission or the
log had taken it; it is what the properties except. The identity of a turn and of its
queue entry are one, which is why the queue can be a set.

*Bounds.* Three turns: one runs, one waits, and one is requested at every moment in
between; the queue reaches its limit.

*Runs.* Both passing runs have crashes and restarts anywhere, deadlines, and commands
served while a turn settles. `thread_faults` (a queue of one, one append that throws
anywhere): what the log, admission and the runner agree on (`AcceptedTurnsAreAdmitted`,
`OneActiveTurn`), the durable queue (`QueueIsDurable`), the terminals (`CommitDecides`,
`EndedTurnsAreClosed`), and that no turn is run twice (`RunsOnce`). `thread_agreement` (a
queue of two, no append throws): queued turns are served in order and before any
continuation (`ServedInOrder`) and, under fairness, started turns end and queued ones are
served (`TurnsAreServed`). The fairness is that the event loop runs what is pending and
every runner returns; nobody is assumed to send a command or to open a Thread again.
`ServedInOrder` says nothing of a `turn.start` that is admitted into an idle Thread
between its opening and the microtask that promotes the restored queue: the code serves it
first. The exceptions are needed. `thread_settling` shows it for the agreement of
log and admission: a turn requested while the last one settles is made durable, scheduling
it throws, and the roll-back of admission leaves a durably active turn nobody knows of.
Section 2.10 has three more configurations.

### 2.3 Thread event store

A record is its identity, its sequence number and the identity of its
predecessor, which stands for the hash; a head (cached or in the head file) is a
fingerprint, a cursor and the last identity. An append is cut into `Begin` (take
the lock, load a verified head, repair a torn tail), `Write` of each record,
`Flush`, `Project` and `Adopt`; readers (`LoadProjection`, `Read`) are
one action each, since they change only caches when they fail. `Leave`, `Throw`
and `Die` end an append after any of its steps, `MayTear` leaves half a record,
and `PowerLoss` takes back what was not flushed. The lock is taken for granted here:
`owner` is the one process that holds it, as in `GuardedExclusion` of `FileLock`.

*Runs.* `event_store`: two processes, three events in batches of up to two, two
failures, one loss of power: enough for a process with a stale cache to meet a log
that was torn, repaired and extended by the other. A reader may see records that
were written and not flushed yet, and power loss may take them back: the promise
that is checked and proved is about what `appendDurableBatch` returned.

### 2.4 Session registry

`ops` is the chain of promises `capacityQueue` as a sequence of calls; only its
head advances, through the awaits of `ensureResidentLocked`, `makeCapacityLocked`,
`closeResidentLocked`, `startTurn` and `shutdown`. Everything else can happen at
each await: turns end (`FinishTurn`, with `drainQueue` at its end), queued turns
are cancelled, approvals are counted, `Shutdown` begins. `actor[s]` tells an actor
that is ready from one in quarantine, and the history variable `live` counts the
actors that really exist, which the code cannot see. Revisions are left out (they
refuse a call, which `Refuse` may always do) and the least recently used actor is
any evictable one.

*Run.* `session_registry`: four Sessions, one running slot, three actors, two
calls in the chain: a queue of two, eviction with a queue, failing closes, and a
call in the chain behind another. The count of running turns is exact and
bounded, no actor is lost, none is closed under a turn that runs or waits, the
queue and the records agree (`CountsAreTrue`), no slot idles while a turn waits, and the pool
implements `SlotPool`: slots are handed over in order, until the shutdown.

What the model also shows and no property states: `admitTurn` checks that the
registry is open before it awaits the actor and not after; a shutdown in that
microtask leaves a turn in the emptied queue.

### 2.5 Compact checkpoint

A maintenance turn captures the history a model sees, appends `compact.started`,
computes a candidate for a long time, and replaces the history by
compare-and-swap: checkpoint file first, then the state file whose pointer makes it
authoritative, then `compact.completed`. Whoever opens the Thread later closes the
transactions that have no terminal (`recoverOrphans`).

`at[p]` is where process `p` is: opening the Thread (`List`, `FindOrphan`,
`CloseOrphan`, `RecoverIncomplete`), in a regular turn (`StartTurn`, `Commit`,
`EndTurn`) or in `CompactTransactionV1.run` (`Capture`, `Started`,
`CandidateFails`, `Conflict`, `Swap`, `Complete`, `Catch`, `Terminate`). A turn has
one transaction, so both have one identity. A history is its producer (it stands
for the digest the code compares) and the set of commits it accounts for, which is
what may be lost; the log is its cursor, the position of its last event that is not
a queued follow-up, and the compact events of each turn. `Note` is everything else
that is appended while a turn runs. A write returns, throws before it took
effect (`refused`) or throws after it (`late`, as `appendDurableBatch` does when the
projection cannot be written). The ownership guard of `orion-runtime-v1.ts` is
process-local, so a second process may open the Thread and recover a transaction
that is running: `shared` records that this has happened. A Goal control turn commits the
history of the last TurnCommit, not the one that was captured (`orion-runtime-v1.ts:588-602`):
a compaction that came in between is undone by it, though nothing is forgotten.

*Runs.* `compact_checkpoint`: two processes, three turns (one commits, one compacts
it, one commits or compacts during or after it), two deaths, one refused and one
late write, one other event. With any number of processes and faults the authoritative history
accounts for every commit, and a transaction that recovery has closed never
installs its checkpoint. As long as one process at a time has the Thread, a process
that has opened it has left no orphan; with at most one failed write besides, the
terminals say what happened to the pointer; and without a late failure every bracket
can be replayed. The last three conditions are needed: a second process that
recovers a running transaction leaves it with two terminals, two failed writes
make recovery call an installed checkpoint failed, because only the last pointer is
kept, and for the late failure see section 2.10.

### 2.6 Tools and the arbiter of Workspace mutations

`WorkspaceMutations` is the arbiter by itself: `phase[c]` is where
`runWorkspaceMutation` is with call `c` (reading its baseline, queued, at the head
and reading the revision again, operating), `queues` the queue of each Workspace,
and `FinishHead` all that `finishHead` and `startHead` do in one step: shift, drop
the cancelled heads (a prefix of what is left), start the next. An operation may succeed
without having written (the preview of an edit). A file is the sequence of the calls that wrote
it, and its revision the length of that sequence, or `unstable` while somebody
writes. Commands and tools without a target have a constant revision, as in the code.

`ToolInvocation` adds the gateway. `pc[c]` is what `invokeOnce` waits for; `intent`
and `receipt` are the journal in the Thread's log, which with the files is what a
crash leaves; `over` are the calls whose turn has ended in the log, after which the
projection takes no more of their events. An append throws before or after it is
durable. `Invoke` is the lookup with its three outcomes (new, replay, refusal),
`CommitTerminal` the receipt. Histories record what was begun (`started`), what
succeeded, and what callers were told (`replies`).

*Run.* `tool_invocation`: one ID is used three times with two requests, two throwing
appends, two signals and two crashes, once for an edit and once for a tool without
the arbiter; two edits of one file compete with a crash and a fault; two edits and a
command that may write the same file compete. One file and one Workspace are where
calls meet. An ID stands for one execution of one request and for one receipt; a
receipt says `completed` only of a tool that has succeeded; no edit operates on a
file that another call of its Workspace wrote since its baseline; the queue has one
running head. Under fairness every call that does not wait for the user is answered:
awaits are settled and tools end, because a timeout fires their signal; a user who
answers an approval is not assumed.

What the model leaves to its constants: `Tracked` are edits inside the Workspace of
a target that is no symbolic link, and each call has one Workspace. The code has no
revision that follows a link, and two Workspaces that overlap have two queues, so
there another Session's write is not noticed. The abort of a queued call takes effect
at the head only, and one that fires while the revision is read does not stop the
operation; both are so in the model.

### 2.7 Requests to providers

`gate` is the `ProviderRequestGate` (waiters, active count, cooldowns, timer; the
array of the waiters is the set of them with, for each, those in front of it, because
one is taken from any place), its functions `TryDispatch`, `ScheduleCooldownWake` and `EnterCooldown` operators on it,
and `stage[r]` is where `execute` is with request `r`. The lease of an attempt is
held during its backoff. Time is counted in ticks that remain. A failure is a rate limit
or another (a conflict, an overload, a server error, a spent quota), and either may carry a
Retry-After: `delay` is the backoff of the attempt, Retry-After included and capped
(`MaxRetryAfter`), and only a rate limit enters a cooldown, which is not capped. `notBefore`
is a history of the longest Retry-After that a provider has answered, for each kind of
failure and whatever the code does with it.

*Run.* `provider_requests`: three requests, two of them to one provider, two slots,
two attempts, one recovery, one fallback, Retry-After of one or two ticks with a cap of
one, one abort: a slot is contended, a waiter is overtaken because its provider cools down, a
cooldown is extended under a waiter and a timer, and a backoff ends before the cooldown of
its own failure. Leases are counted and no wake-up is lost (`SlotsAreUsed`), nothing is sent
before the Retry-After of a rate limit has passed and waiters of one provider go in order
(`RateLimitsAreRespected`), and, if providers answer or time out, backoffs end, and timers
fire, every request ends. Of the other failures the first is not true: see
`ProviderRequestsRetryAfter.cfg` in section 2.10.

Beside the model: the subagents' gate enters its cooldown under the key `subagents`
while their requests wait under `default`; the circuit breaker and the overlap of a
recovered stream are not used by `execute`.

### 2.8 The feed of events and the browser

`EventFeed` follows the events of one turn from the Thread to the response of the
browser's event stream. `buffer` holds Thread events between two flushes of the
adapter and merges, drops or gives up on them (`OfferDurable`, `OfferDelta`,
`RequireReplay`); `Flush` drains it, or replays the durable events after the
adapter's cursor, and turns them into envelopes; `Emit` numbers, retains and writes
them, sending a text as the difference to the one sent last; `WriteClient` is back
pressure. A text is the sequence of its chunks. `EventDelivery` is the browser:
`source` the EventSource with its cursor and its timer, `view` what the reducer keeps
of the Session, `requests` the snapshots under way. `Attached` is the hub's answer to
a cursor, `ReduceEnvelope` and `SnapshotLoaded` the reducer, `AskWhenDirty`,
`AskAgain`, `Retry` and `Recover` and `Resume` the effects and commands of useWorkbench;
`Retry` asks for a snapshot whatever became of the last one, as long as no recovery of the
stream is required. A snapshot is the whole transcript: the Host's answer is a page of 50
items, and the reducer's transcript is capped.

*Run.* `event_delivery`: one message of two chunks, a buffer of two, two retained
envelopes, a response that takes three: every limit is met. In each history either one
connection breaks and two snapshots are asked for, or one snapshot fails and the page
is reloaded. No durable event is lost in the buffer, and none is passed over by a
browser that has not been told to recover; no text is spliced of pieces that do not
belong together; a snapshot taken after the turn repairs everything, and an old one
takes nothing back. The last is said of a page that knows its last event
(`FinalEntriesStay`): a page forgets it with a reset of the replay, a recovery or a
reload, until the next event comes, and what an old answer can do then is in section
2.10. The bounds meet every limit with one message; that nothing new happens with more
messages, chunks, losses or larger limits is what the theorems of section 3 say.

What no property states: between the commit of a message and the adapter's flush a
snapshot already contains the message and the events that follow append it again, so
that it is shown twice until the turn is over. The opposite is in section 2.10.

### 2.9 Mutations of the Workbench and its Context

`ledger` is `mutationResults`, `at[id]` where the action of an id is, `host` the
controller's fields (`reserved` is `contextTransitionReserved`, `active`
`activeMutationCount`), `runtimes` the control planes that were created, each running,
stopped, or forgotten (replaced, and left running with nobody to shut it down), and
`published` the Workspace of each Context revision. `Post` is `executeMutation` with
its reservation, `Begin` the action's first step (the guards again, one microtask
later), `Detach` to `Complete` the steps of `activateContext`, `StopTarget` to `Lost`
its rollback, `Close` and `CloseRuntime` the shutdown, which does not wait for it. The
installation of a control plane fails before it has changed anything, or half way
(`InstallHalf`): `runtimeValue` is the new one, and what follows has thrown. `Complete` may
answer that the mutation failed though the target is published, when the announcement of
the new state throws.

*Run.* `workbench_context`: four ids of which the ledger keeps three (an id that is
refused by a full ledger is never begun), three Workspaces, two failing steps, so that
the rollback fails too. Every id is run once and answered once; no edit is under way
across a change of the Context; an activation leaves one live control plane, that of
the published Workspace, or says that the Context must be recovered; reservations are
given back, if what a transition calls returns or throws.

Beside the model: a failed activation does not open the observer of the Composer again
that `installRuntime` has closed; after `context_recovery_required` with the target
installed but shut down, activating that Workspace again succeeds without doing
anything.

### 2.10 Further configurations

These configurations are kept beside the runs; TLC finds a violation with each, within a
minute. They show that a condition of a property above is needed, or where the code does
less than a comment says.

- `ThreadRuntimeLostInterrupt.cfg` (`InterruptIsDelivered`): while a turn settles its
  successor is already admission's, but `activeAbort` belongs to the old run
  (`thread-runtime.ts:304`). An interrupt served there is recorded for the successor
  and aborts the predecessor; a repeated one answers `alreadyRequested`.
- `ThreadRuntimeFailedStart.cfg` (`RunIsRecorded`): when the append of a promoted turn's
  start throws, the finally handler runs the turn all the same (`thread-runtime.ts:557`,
  576-578), where `thread-admission.ts:117-119` wants the start durable first.
- `ThreadRuntimeReopened.cfg` (`ThreadCanBeReopened`): admission drops overdue entries
  from its queue (`thread-admission.ts:280`, 323) and nothing appends that they expired
  until the next turn ends, so that new entries take their places while the durable queue
  still has the old ones. After a restart the queue is longer than `maxQueuedItems`,
  `admission.restore` throws (`thread-admission.ts:293-298`), and the Thread cannot be opened.
- `ProviderRequestsRetryAfter.cfg` (`RetryAfterIsRespected`): only a rate limit enters a
  cooldown (`coordinator.ts:130`). The Retry-After of a 408, 409, 529, 5xx or a spent quota
  (`error-classifier.ts:41`, 65-100) delays the retry of that request only, up to the cap; a
  fallback or another request is sent at once, where `request-gate.ts:5-6` "ensures
  Retry-After is respected across all request sources".
- `WorkbenchContextForgotten.cfg` (`NoRuntimeIsForgotten`): `installRuntime` throws after
  the assignment of `runtimeValue` (`workbench-controller.ts:2832`). The rollback stops the
  target and installs the previous Workspace anew; the control plane that was there before
  is never shut down, where lines 1986-1987 want to "install the target control plane first,
  then release the previous one's mutable state".
- `CompactCheckpointLate.cfg` (`FailuresAreReconciled`): `compact.completed` is
  appended, throws after its flush, and is appended again by the catch clause
  (`compact-transaction.ts:448`); `findOrphanStarts` (1005-1011) refuses the second one
  in every later start, and the Thread cannot be opened any more, where
  `docs/plan/v0.2.0-dsh-harness-redesign-plan.md:723` promises that an orphan bracket
  converges on resume.
- `EventDeliveryUnrepaired.cfg` (`MessagesAreRepaired`): a page that is opened, reloaded
  or reconnected while a message is streamed takes a snapshot that does not contain the
  message and whose cursor covers its start; the end of the message finds no entry, and
  the refresh at the end of the turn leaves the transcript alone. The message is missing
  until another snapshot is taken, where `docs/plan/v0.3.0-web-workbench-plan.md:94-95`
  has "the next durable transcript state" repair what was missed.
- `EventDeliveryForgotten.cfg` (`FinalEntriesAlwaysStay`): two messages, with a snapshot
  asked for before the first one ends. The stream breaks, the reconnect is answered with
  a `replay_reset`, and the reducer deletes `lastEventCursor` (`reducer.ts:792-805`). The
  user recovers, the baseline fails, and the stream starts anew with the view as it was.
  The answer to the old request is now older than nothing that the reducer remembers, is
  applied, and takes back a message that was shown as final, where `reducer.ts:320-321`
  wants to "keep the current display" instead of reverting it. The condition
  `Forgetful` of `FinalEntriesStay` was found by trying to prove it: one message is not
  enough to violate the property without it.

## 3. What is proved

All theorems hold for every value of the constants that satisfies the named
assumptions of the module (`MaxTurns \in Nat` and the like).

**File lock** (`FileLockProofs`, for any number of processes that die anywhere): `IInv`
says that the dead take no steps and that what a recoverer of the main lock has read as
stale belongs to a dead process; and, until a live process's sentinel is moved away, that
whoever recovers owns the sentinel, so that there is one recoverer, that what it is about
to rename is still the dead owner's file, and that a live owner's file is at its path.
Mutual exclusion alone is not inductive: it depends on what a recoverer remembers. From it
`MutuallyExclusive` (GuardedExclusion) and `LiveOwnersKeepTheLock`
(OnlyDeadOwnersAreEvicted).

**Thread runtime, the log** (`ThreadRuntimeProofs`): `DurableInv` adds to the
properties that identities beyond `next` carry no facts, where `phase` and `run`
are for each `active`, and that a durably active turn is admission's, if admission
has one. From it `TypeCorrect`, `CommitsDecide`, `EndedTurnsStayClosed`,
`AtMostOneActiveTurn` and `StatusNeverMovesBack`.

**Thread runtime, the agreement** (`ThreadRuntimeProofs`, second part): `AgreementInv` adds
that admission's active turn is durably active as long as it runs or waits for the
predecessor to settle, that a turn that has not begun was not run, that no admitted turn
waits for a run nobody will start, and that a closed queue is empty, each except for the
turns that have thrown (`thrown`). From it `RunsAreDurable`, `AcceptedTurnsStayAdmitted`,
`QueuesAreDurable`, `TurnsRunOnce` and `QueueIsServedInOrder`. Neither part assumes anything
of faults or of when commands come: what a throwing append or a command in the settling
window does to one turn is visible as `thrown`, and the theorems say that the log,
admission and the runner go on agreeing on every other turn.

**Event store** (`ThreadEventStoreProofs`, no assumption): `StoreInvariant` says that
who is inside an append owns the lock and advances a head of the file as it is,
that a head carrying the fingerprint of the file describes it, and that what was
returned was flushed. From it `TypeCorrect`, `LogNeverCorrupted`, `HeadsNeverStale`
and `StoreImplementsDurableLog`.

**Session registry** (`SessionRegistryProofs`, for any number of Sessions, actors and
slots, with no assumption beyond the types of the constants): `RegistryInvariant` says
of the chain of promises behind `withCapacityLock` that the call at its head is the one
that is under way and that what it has read about actors since it became the head still
holds (`HeadIsSure`); of each record, which combinations of an actor, a turn and a
place in the queue it may have; and that `runningCount` is the number of turns that
count. The properties of the run are no induction step by themselves: that an eviction
leaves a turn its actor depends on what the head of the chain has checked two awaits
earlier, and that no slot is left unused on every path having drained the queue before
it gives up the processor. From it `CountsAlwaysTrue`, `ActorsAlwaysOwned`,
`TurnsAlwaysKeepTheirActor`, `SlotsAlwaysUsed`, and, step by step, that the registry
implements `SlotPool` (`RegistryImplementsSlotPool`).

**Compact checkpoint** (`CompactCheckpointProofs`, no assumption on processes or
faults): `CompactInvariant` says that the last commit has seen every commit, and so
has a pointer that comes after it; that no two processes run one turn, and the turn
that is durably active continues the last history (another process may have ended
it, and then it cannot commit); that a transaction has no event before its start;
and that one whose start is followed by nothing but follow-ups is still open. The
last two are what the comparison of the log's tail in `appendCompactCheckpointCas`
rests on. From it `TypeCorrect`, `HistoryIsComplete` (NothingIsForgotten) and
`ClosedStayClosed` (ClosedTransactionsInstallNothing). `LoneInvariant` is about a Thread
that one process at a time has opened (`~shared`), whichever writes fail and wherever the
process dies: it says what the process that has the Thread knows of the log at each step
of its recovery and of its transaction (`OpenedFits`, `EndingFits`), and that an open
transaction whose pointer was installed is the one that has the pointer (`LogFits`). The
budgets of faults appear in it as conditions, where the properties need them: no late
write for the replay, one failed write at most for the truth of terminals; the recovery
of orphans needs neither. From it `ThreadCanAlwaysBeOpened`, `TerminalsAlwaysTrue` and
`OrphansAlwaysResolved`.

**Tools and the arbiter** (`ToolInvocationProofs`, for any number of calls, Workspaces
and files): `InvocationInvariant` has two halves. Of the arbiter: a queue that is not
empty is served, by its head, which is the only one past `queued`; and from the revision
that an edit with a tracked target compares to the end of its operation no other call of
the Workspace writes the target, because writers are heads. Of the gateway (`StagesFit`):
what is in flight is the request whose intent is durable, and it has no receipt; until the
tool is called it has no entry with the arbiter, and until its operation is started nothing
has been begun. From it `CallsAlwaysIdempotent`,
`ReceiptsAlwaysTrue`, `EditsAlwaysFresh` and `MutationsAlwaysSerial`.

**Requests to providers** (`ProviderRequestsProofs`, for any finite set of requests and
any number of slots, attempts and providers): `ProviderInvariant` says that the leases
and the waiters together are the attempts that `execute` counts as under way, that the
waiters form a line, that the gate never rests with a slot free and a waiter it could
serve or would not wake (`Woken`), and that no cooldown ends before the Retry-After of a
rate limit. The lemmas are about the gate alone: `FirstOfLine` that a dispatch serves as many
waiters as there are slots, or all that are due; `DispatchServes`, `JoinServes`,
`LeaveServes`, `ReleaseServes` and `CooldownServes` what each call keeps; and `ServesInTurn`
that a fallback, which fails, releases and joins in one step, serves in order all the
same. From it `SlotsAlwaysUsed` and the action property `RateLimitsAlwaysRespected`.

**Workbench Context** (`WebProofs`, first part, for any number of ids, Workspaces and
failing steps; `IdsAssumption` only keeps ids apart from the absence of one):
`ContextInvariant` says that `active` counts the edits that hold a reservation and that
an activation which is reserved or on its way is the only one, with no edit beside it;
that `transition` names the id whose step is next; that an edit which has passed its
guards still has its Context; and, for each step of `activateContext`, which control
planes may still run and of which Workspace, those aside that a half installation has
forgotten. `ContextIsWhole` alone says nothing about
the middle of a transition, where the rollback needs to know what is left to stop. From
it `TypeCorrect`, `RunOnce` (MutationsRunOnce), `EditsKeepTheirContext`
(ContextHoldsStill) and `ContextsAreWhole` (ContextIsWhole).

**The feed of events and the browser** (`WebProofs`, second part, for any number of
messages and chunks, any limits of the buffer, the history and the response, and any
scenarios; the assumptions only keep the limits positive). `DeliveryInvariant` goes along
the path of an event. `BufferFits` and NoFactIsDropped: what is buffered follows the
adapter's cursor event by event, and a delta belongs to a message that has started.
`AdapterFits` and `EntriesFit`: the adapter has named an entry for exactly the messages
whose start it has seen, each by another cursor. `HubFits`: the hub retains every durable
envelope after the last one it discarded, in order. `WireFits`: the response carries every
durable envelope after the cursor it began at, in order, and no update of an entry behind
its end, or it carries a reset. `TranscriptFits`: an entry of the page is a message's
under the adapter's name for it, with a beginning of its text while it is live and the
whole when it is not. `ViewFits`: the stream is where the view is unless the view must be
recovered. `SnapshotFits`: the snapshot that the view waits for contains what the view
shows as final, or is older than an event that the view has had. What an envelope says
(`Tells`) stays true however the Thread goes on, which is why it may be replayed at any
time; the end of a message, once a snapshot covers its cursor, is in that snapshot.

None of the properties is inductive without this: EntriesAreTrue, for one, depends on an
update that is still on its way continuing what its entry will show by the time it is
received. `Commit`, `Stream` and `Flush` change several parts at once, and `Flush` does
so event by event: `ProjectFits` says what one event keeps, and `ProjectAllFits` unrolls
the fold (`ProjectRuns`, from the definitions of `FoldLeft` and `MapThenFoldSet`) and
argues by the least number of events at which something would break (`FirstNumbers`).
`LiveEntriesAreKept` does the same for the filter in applySessionSnapshot. From it
`FactsAreNotDropped` (NoFactIsDropped), `EntriesShowTheThread` (EntriesAreTrue),
`SnapshotsRepairTheView` (SnapshotsRepair), and the action properties
`DurableEventsReachTheView` (DurableEventsAreReplayed) and `FinalEntriesAreKept`
(FinalEntriesStay). Before it was proved, TLC checked `DeliveryInvariant` on the whole
instance of the run and on a part of one with two messages.

Every proof has the same shape: the initial states satisfy the invariant, each
action of `Next` preserves it (one step per action), the invariant implies the
property, and propositional temporal logic puts them together.

Some theorems are about properties that no run has to show any more, since they hold
for every instance: RunIsDurable, StatusMovesForward, LogIsChained, the type invariants,
and the inductive invariants themselves.

**Only model-checked.** Liveness (`AbandonedLockIsRecovered`, `TurnsAreServed`,
`InvocationsSettle`, `RequestsEnd`, `ReservationsEnd`, and `StartedTurnsEnd` and
`QueuedTurnsAreServed` of which TurnsAreServed consists): TLAPS proves nothing about
fairness and ENABLED here. The violation runs are counterexamples and need no proof.
Every other property of a passing run is a theorem. What a recursive definition computes
for every input needs induction over data, which the back ends cannot do: the modules
with theorems use no RECURSIVE operator, a queue that is filtered is modelled by its
tails (the arbiter's) or by who is in front of whom (the gate's), and the two folds of
the feed are reasoned about by the least number, as above.

## 4. What is not modelled

- Thread runtime: steering inputs and event subscribers. Store: the sealed prefixes and
  the schema upgrade, byte limits other than the log's.
- Tools: `batch_read`, which runs reads side by side, the budget of a turn, the wording of
  results, and the revision of a file that changes while it is read, which the code replaces
  by a time stamp (`unstable` in the model, where two such revisions always differ); the permission prompt is one choice (allowed or not).
- Provider requests: the circuit breaker, and what a stream delivers twice when it is
  recovered.
- Feed and browser: several browsers at once, heartbeats, a Host that is restarted with
  its cursors counting from 1 again, pages of a snapshot, and the reducer's panels other than
  the transcript.
- Workbench: what an edit does, the routes of the server, discovery of Workspaces, the
  picker, the composer and the selection of Sessions.
- The components marked `not_modelled` in `PROJECT.json`, each with its reason: planned,
  pure input and output, rendering, or sequential code whose unit tests reach what a
  model would. Prompts, wording, layout and cost figures are left out everywhere.

Components are composed where the code of one reads the state of another between two
steps: `ToolInvocation` takes the arbiter's queue in (`WorkspaceMutations`), `EventDelivery`
the feed (`EventFeed`). Registry, runtime, store and lock are composed by what the one
promises and the other takes for granted (the store's `owner` is the holder of the file
lock), not by one model. The share of the repository's lines that the map covers is small: most of the
lines are terminal and Web rendering, commands, prompts, file formats and single calls of
tools and services, where the state that several actors share is little; what remains of
such state is in the plan.

## 5. Plan

What is left, in this order; each step is a module, an instance, its mutants, and then
proofs.

1. An abstract specification of the gateway (an ID is asked for, runs at most once, has
   one answer) that `ToolInvocation` implements.
2. `GoalLifecycle` and `PlanReview`: continuations and decisions across restarts,
   composed with the terminal facts of `ThreadRuntime`.
3. `SubagentSupervisor`: budgets, cancellation and the parent's end; half-open probes of
   the circuit breaker in `ProviderRequests`.
4. The epoch of the Host in `EventDelivery`: a restart, and a browser with an old cursor.
5. `SettingsCoordinator` under the file lock; then terminals, the git index
   transaction and the lazy MCP connection.

Runs are few on purpose, one for each question; a configuration that only shows why a
condition is needed is listed in 2.10.
