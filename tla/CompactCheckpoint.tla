-------------------------- MODULE CompactCheckpoint --------------------------
(***************************************************************************)
(* Compaction of the model-visible history of one Thread: the transaction  *)
(* of src/src/runtime/compact-transaction.ts, run by the maintenance turn  *)
(* of thread-compact-persistence.ts, and its commit and recovery in        *)
(* thread-event-store.ts.                                                  *)
(*                                                                         *)
(* Processes share the log, the checkpoint files and the state file whose  *)
(* pointer selects one.  Every critical section of the store is one step.  *)
(* A turn has one transaction and one candidate, whose checkpoint carries  *)
(* the turn's identity.  A history is what produced it, which stands for   *)
(* its digest, and the committed turns it accounts for; a task context     *)
(* changes with the history and is part of it.  The log is its cursor, the *)
(* last position that is not a turn.queued, and the compact events of each *)
(* turn.  Appends of turn events do not fail here: see ThreadRuntime.      *)
(***************************************************************************)
EXTENDS Integers, Sequences

CONSTANTS
  Proc,         \* processes that may have the Thread open
  MaxTurns,     \* bound: turns of one behaviour
  MaxNotes,     \* bound: other events that are appended during a compaction
  MaxCrashes,   \* bound: processes that die
  MaxRefusals,  \* bound: writes that throw and leave nothing
  MaxLate       \* bound: writes that throw after they took effect

ASSUME BoundsAreNat ==
  /\ MaxTurns \in Nat /\ MaxNotes \in Nat /\ MaxCrashes \in Nat
  /\ MaxRefusals \in Nat /\ MaxLate \in Nat

Turn == 1 .. MaxTurns
NoTurn == 0
History == [by : Turn \union {NoTurn}, covers : SUBSET Turn]
NoHistory == [by |-> NoTurn, covers |-> {}]
Installed == [turn : Turn \union {NoTurn}, at : Nat, history : History]
NotInstalled == [turn |-> NoTurn, at |-> 0, history |-> NoHistory]
Source == [cursor : Nat, history : History, checkpoint : Turn \union {NoTurn}]
NoSource == [cursor |-> 0, history |-> NoHistory, checkpoint |-> NoTurn]
Place == {"closed", "recovering", "adopting", "idle", "turn", "capture", "start",
          "prepare", "complete", "catch", "retry", "fail", "end"}

VARIABLES
  \* The log.
  cursor,      \* its length
  lastFact,    \* the position of its last event that is not turn.queued
  facts,       \* facts[t]: the compact events of turn t, in their order
  active,      \* the turn that is durably active
  committed,   \* the last TurnCommit: its position and history
  \* The other files.
  saved,       \* the checkpoint files
  state,       \* the compact state file with its pointer
  \* The processes.
  at,          \* at[p]: where p is
  turn,        \* turn[p]: the turn it runs, or the orphan it closes
  source,      \* source[p]: what its turn captured
  anchor,      \* anchor[p]: the position of its compact.started
  todo,        \* todo[p]: the orphans it has listed and not closed
  found,       \* found[p]: what findCommittedCheckpoint said of turn[p]
  \* The environment.
  next,        \* the next turn
  commits,     \* history: the turns that have committed
  replaced,    \* history: the turns whose pointer was installed
  shared,      \* history: a process opened the Thread while another had it
  notes, crashes, refusals, late

logVars == <<cursor, lastFact, facts, active, committed, commits>>
fileVars == <<saved, state, replaced>>
procVars == <<at, turn, source, anchor, todo, found>>
budget == <<notes, crashes>>
faultVars == <<refusals, late>>
vars == <<logVars, fileVars, procVars, next, shared, budget, faultVars>>

TypeOK ==
  /\ cursor \in Nat /\ lastFact \in Nat
  /\ facts \in [Turn -> Seq({"started", "completed", "failed"})]
  /\ active \in Turn \union {NoTurn}
  /\ committed \in [at : Nat, history : History]
  /\ saved \subseteq Turn /\ state \in Installed
  /\ at \in [Proc -> Place]
  /\ turn \in [Proc -> Turn \union {NoTurn}]
  /\ source \in [Proc -> Source] /\ anchor \in [Proc -> Nat]
  /\ todo \in [Proc -> SUBSET Turn] /\ found \in [Proc -> BOOLEAN]
  /\ next \in 1 .. MaxTurns + 1
  /\ commits \subseteq Turn /\ replaced \subseteq Turn /\ shared \in BOOLEAN
  /\ notes \in 0 .. MaxNotes /\ crashes \in 0 .. MaxCrashes
  /\ refusals \in 0 .. MaxRefusals /\ late \in 0 .. MaxLate

Init ==
  /\ cursor = 0 /\ lastFact = 0 /\ facts = [t \in Turn |-> <<>>] /\ active = NoTurn
  /\ committed = [at |-> 0, history |-> NoHistory]
  /\ saved = {} /\ state = NotInstalled
  /\ at = [p \in Proc |-> "closed"] /\ turn = [p \in Proc |-> NoTurn]
  /\ source = [p \in Proc |-> NoSource] /\ anchor = [p \in Proc |-> 0]
  /\ todo = [p \in Proc |-> {}] /\ found = [p \in Proc |-> FALSE]
  /\ next = 1 /\ commits = {} /\ replaced = {} /\ shared = FALSE
  /\ notes = 0 /\ crashes = 0 /\ refusals = 0 /\ late = 0

-----------------------------------------------------------------------------
(* What the files say.                                                     *)

\* Mutant: a checkpoint stays authoritative over the commits that follow it.
AuthorityOfPointer == IF state.turn # NoTurn THEN state.history ELSE committed.history

\* resolveCompactAuthorityState: the later of the last commit and the pointer.
Authority ==
  IF state.turn # NoTurn /\ state.at > committed.at THEN state.history
  ELSE committed.history

Brackets == {<<>>, <<"started">>, <<"started", "completed">>, <<"started", "failed">>}

\* findOrphanStarts throws unless the events of every turn are one bracket.
Replayable == \A t \in Turn : facts[t] \in Brackets
Orphans == {t \in Turn : facts[t] = <<"started">>}

\* findCompactCheckpointCommit.
IsInstalled(t) == state.turn = t

(* An append returns, throws before its record is durable ("refused"), or  *)
(* after (the projection cannot be written).                               *)
Outcome == {"returned", "refused", "late"}
Durable(o) == o # "refused"
Faults(o) ==
  /\ refusals' = IF o = "refused" THEN refusals + 1 ELSE refusals
  /\ late' = IF o = "late" THEN late + 1 ELSE late
  /\ refusals' <= MaxRefusals /\ late' <= MaxLate

AppendCompact(o, t, type) ==
  /\ Faults(o)
  /\ cursor' = IF Durable(o) THEN cursor + 1 ELSE cursor
  /\ lastFact' = IF Durable(o) THEN cursor + 1 ELSE lastFact
  /\ facts' = IF Durable(o) THEN [facts EXCEPT ![t] = Append(@, type)] ELSE facts
  /\ UNCHANGED <<active, committed, commits>>

AppendTurn ==
  /\ cursor' = cursor + 1 /\ lastFact' = cursor + 1
  /\ UNCHANGED <<facts, faultVars>>

Goto(p, place) == at' = [at EXCEPT ![p] = place]

\* What a process knows of a Thread goes with its runtime.
Forget(p) ==
  /\ Goto(p, "closed")
  /\ turn' = [turn EXCEPT ![p] = NoTurn] /\ source' = [source EXCEPT ![p] = NoSource]
  /\ anchor' = [anchor EXCEPT ![p] = 0] /\ todo' = [todo EXCEPT ![p] = {}]
  /\ found' = [found EXCEPT ![p] = FALSE]

-----------------------------------------------------------------------------
(* Opening a Thread: recoverOrphans, then the Thread runtime.              *)

\* listCompactEvents and findOrphanStarts.
List(p) ==
  /\ at[p] = "closed" /\ Replayable
  /\ Goto(p, "recovering") /\ todo' = [todo EXCEPT ![p] = Orphans]
  /\ shared' = (shared \/ \E q \in Proc \ {p} : at[q] # "closed")
  /\ UNCHANGED <<logVars, fileVars, turn, source, anchor, found, next, budget, faultVars>>

FindOrphan(p) ==
  /\ at[p] = "recovering"
  /\ \E t \in todo[p] :
       /\ turn' = [turn EXCEPT ![p] = t]
       /\ found' = [found EXCEPT ![p] = IsInstalled(t)]
  /\ Goto(p, "adopting")
  /\ UNCHANGED <<logVars, fileVars, source, anchor, todo, next, shared, budget, faultVars>>

\* Mutant: a completed orphan falls through to the one that fails it.
CloseOrphanTwice(p) ==
  /\ at[p] = "adopting"
  /\ \E o \in Outcome :
       /\ AppendCompact(o, turn[p], IF found[p] THEN "completed" ELSE "failed")
       /\ IF o # "returned" THEN Forget(p)
          ELSE /\ Goto(p, IF found[p] THEN "adopting" ELSE "recovering")
               /\ found' = [found EXCEPT ![p] = FALSE]
               /\ todo' = [todo EXCEPT ![p] = @ \ {turn[p]}]
               /\ UNCHANGED <<turn, source, anchor>>
  /\ UNCHANGED <<fileVars, next, shared, budget>>

CloseOrphan(p) ==
  /\ at[p] = "adopting"
  /\ \E o \in Outcome :
       /\ AppendCompact(o, turn[p], IF found[p] THEN "completed" ELSE "failed")
       /\ IF o = "returned"
          THEN /\ Goto(p, "recovering")
               /\ todo' = [todo EXCEPT ![p] = @ \ {turn[p]}]
               /\ UNCHANGED <<turn, source, anchor, found>>
          ELSE Forget(p)
  /\ UNCHANGED <<fileVars, next, shared, budget>>

\* Mutant: the Thread runtime does not wait for recoverOrphans.
RecoverIncompleteFirst(p) ==
  /\ at[p] = "recovering"
  /\ IF active # NoTurn
     THEN AppendTurn /\ active' = NoTurn /\ UNCHANGED <<committed, commits>>
     ELSE UNCHANGED <<logVars, faultVars>>
  /\ Goto(p, "idle") /\ turn' = [turn EXCEPT ![p] = NoTurn]
  /\ UNCHANGED <<fileVars, source, anchor, todo, found, next, shared, budget>>

\* The Thread runtime starts and ends the turn it finds active.
RecoverIncomplete(p) ==
  /\ at[p] = "recovering" /\ todo[p] = {}
  /\ IF active # NoTurn
     THEN AppendTurn /\ active' = NoTurn /\ UNCHANGED <<committed, commits>>
     ELSE UNCHANGED <<logVars, faultVars>>
  /\ Goto(p, "idle") /\ turn' = [turn EXCEPT ![p] = NoTurn]
  /\ UNCHANGED <<fileVars, source, anchor, todo, found, next, shared, budget>>

-----------------------------------------------------------------------------
(* Turns.                                                                  *)

\* The turn's start is durable; a regular turn continues the history it loads.
StartTurn(p) ==
  /\ at[p] = "idle" /\ active = NoTurn /\ next <= MaxTurns
  /\ AppendTurn /\ active' = next /\ next' = next + 1
  /\ turn' = [turn EXCEPT ![p] = next]
  /\ \E kind \in {"turn", "capture"} :
       /\ Goto(p, kind)
       /\ source' = [source EXCEPT ![p] =
            IF kind = "turn" THEN [NoSource EXCEPT !.history = Authority] ELSE NoSource]
  /\ UNCHANGED <<committed, commits, fileVars, anchor, todo, found, shared, budget>>

\* The TurnCommit, which only an active turn may append: of a regular turn with
\* the history it has continued, of a Goal control with that of the last
\* TurnCommit, whether or not a checkpoint has replaced it since.
Commit(p) ==
  /\ at[p] = "turn" /\ active = turn[p]
  /\ AppendTurn
  /\ \E base \in {source[p].history, committed.history} :
       committed' = [at |-> cursor + 1, history |->
         [by |-> turn[p], covers |-> base.covers \union {turn[p]}]]
  /\ commits' = commits \union {turn[p]}
  /\ Goto(p, "end")
  /\ UNCHANGED <<active, fileVars, turn, source, anchor, todo, found, next, shared, budget>>

\* The turn's terminal; it throws when another process has ended the turn.
EndTurn(p) ==
  /\ at[p] \in {"turn", "end"}
  /\ IF active = turn[p]
     THEN AppendTurn /\ active' = NoTurn /\ UNCHANGED <<committed, commits>>
     ELSE UNCHANGED <<logVars, faultVars>>
  /\ Goto(p, "idle") /\ turn' = [turn EXCEPT ![p] = NoTurn]
  /\ source' = [source EXCEPT ![p] = NoSource] /\ anchor' = [anchor EXCEPT ![p] = 0]
  /\ UNCHANGED <<fileVars, todo, found, next, shared, budget>>

\* While a turn runs, follow-ups are queued and an interrupt is requested.
Note(p) ==
  /\ at[p] \notin {"closed", "recovering", "adopting", "idle"} /\ active = turn[p]
  /\ notes < MaxNotes /\ notes' = notes + 1
  /\ cursor' = cursor + 1
  /\ lastFact' \in {lastFact, cursor + 1}
  /\ UNCHANGED <<facts, active, committed, commits, fileVars, procVars, next, shared, crashes, faultVars>>

-----------------------------------------------------------------------------
(* CompactTransactionV1.run.                                               *)

\* captureCompactSource: it throws outside the active turn or without a history.
Capture(p) ==
  /\ at[p] = "capture"
  /\ IF active = turn[p] /\ Authority # NoHistory
     THEN /\ Goto(p, "start")
          /\ source' = [source EXCEPT ![p] =
               [cursor |-> cursor, history |-> Authority, checkpoint |-> state.turn]]
     ELSE Goto(p, "end") /\ UNCHANGED source
  /\ UNCHANGED <<logVars, fileVars, turn, anchor, todo, found, next, shared, budget, faultVars>>

\* compact.started must follow the source; an error here leaves the bracket open.
Started(p) ==
  /\ at[p] = "start"
  /\ \E o \in Outcome :
       /\ AppendCompact(o, turn[p], "started")
       /\ IF o = "returned" /\ cursor = source[p].cursor
          THEN Goto(p, "prepare") /\ anchor' = [anchor EXCEPT ![p] = cursor + 1]
          ELSE Goto(p, "end") /\ UNCHANGED anchor
  /\ UNCHANGED <<fileVars, turn, source, todo, found, next, shared, budget>>

\* The candidate cannot be computed, is not valid, or the turn is aborted.
CandidateFails(p) ==
  /\ at[p] = "prepare" /\ Goto(p, "catch")
  /\ UNCHANGED <<logVars, fileVars, turn, source, anchor, todo, found, next, shared, budget, faultVars>>

\* Mutant: only the pointer is compared.
RecheckPointer(p) == state.turn = source[p].checkpoint

\* The comparisons of appendCompactCheckpointCas.
Recheck(p) ==
  /\ lastFact <= anchor[p]  \* nothing but queued follow-ups after the anchor
  /\ active = turn[p]
  /\ Authority = source[p].history
  /\ state.turn = source[p].checkpoint

\* The comparison fails: a conflict.
Conflict(p) ==
  /\ at[p] = "prepare" /\ ~Recheck(p) /\ Goto(p, "catch")
  /\ UNCHANGED <<logVars, fileVars, turn, source, anchor, todo, found, next, shared, budget, faultVars>>

Replacement(p) ==
  [turn |-> turn[p], at |-> anchor[p],
   history |-> [by |-> turn[p], covers |-> source[p].history.covers]]

\* The checkpoint is written before the pointer that makes it authoritative.
Point(p, o) ==
  /\ \E written \in BOOLEAN :
       /\ Durable(o) => written
       /\ saved' = IF written THEN saved \union {turn[p]} ELSE saved
  /\ state' = IF Durable(o) THEN Replacement(p) ELSE state
  /\ replaced' = IF Durable(o) THEN replaced \union {turn[p]} ELSE replaced

\* The commit; an error at either write goes to the catch clause.
Swap(p) ==
  /\ at[p] = "prepare" /\ Recheck(p)
  /\ \E o \in Outcome :
       /\ Faults(o) /\ Point(p, o)
       /\ Goto(p, IF o = "returned" THEN "complete" ELSE "catch")
  /\ UNCHANGED <<logVars, turn, source, anchor, todo, found, next, shared, budget>>

\* completeCommittedTransaction after the commit.
Complete(p) ==
  /\ at[p] = "complete"
  /\ \E o \in Outcome :
       /\ AppendCompact(o, turn[p], "completed")
       /\ Goto(p, IF o = "returned" THEN "end" ELSE "catch")
  /\ UNCHANGED <<fileVars, turn, source, anchor, todo, found, next, shared, budget>>

\* Mutant: the catch clause takes every error for a failed transaction.
CatchAll(p) ==
  /\ at[p] = "catch" /\ Goto(p, "fail")
  /\ UNCHANGED <<logVars, fileVars, turn, source, anchor, todo, found, next, shared, budget, faultVars>>

\* The catch clause asks whether the pointer was installed all the same.
Catch(p) ==
  /\ at[p] = "catch" /\ Goto(p, IF IsInstalled(turn[p]) THEN "retry" ELSE "fail")
  /\ UNCHANGED <<logVars, fileVars, turn, source, anchor, todo, found, next, shared, budget, faultVars>>

\* Its append of the terminal; an error leaves the run without another.
Terminate(p) ==
  /\ at[p] \in {"retry", "fail"}
  /\ \E o \in Outcome :
       AppendCompact(o, turn[p], IF at[p] = "retry" THEN "completed" ELSE "failed")
  /\ Goto(p, "end")
  /\ UNCHANGED <<fileVars, turn, source, anchor, todo, found, next, shared, budget>>

-----------------------------------------------------------------------------
\* A process dies, or closes the Thread while nothing runs.
Die(p) ==
  /\ at[p] # "closed" /\ crashes < MaxCrashes /\ crashes' = crashes + 1
  /\ Forget(p)
  /\ UNCHANGED <<logVars, fileVars, next, shared, notes, faultVars>>

Next ==
  \E p \in Proc :
    \/ List(p) \/ FindOrphan(p) \/ CloseOrphan(p) \/ RecoverIncomplete(p)
    \/ StartTurn(p) \/ Commit(p) \/ EndTurn(p) \/ Note(p)
    \/ Capture(p) \/ Started(p) \/ CandidateFails(p) \/ Conflict(p) \/ Swap(p)
    \/ Complete(p) \/ Catch(p) \/ Terminate(p)
    \/ Die(p)

Spec == Init /\ [][Next]_vars

-----------------------------------------------------------------------------
(* The history a model sees can be loaded and accounts for every turn that *)
(* committed: a checkpoint replaces the history it was computed from, also *)
(* when processes take turns while the candidate is computed, and no crash *)
(* or failed write between checkpoint and pointer loses either             *)
(* (appendCompactCheckpointCas, resolveCompactAuthorityState).             *)
NothingIsForgotten ==
  /\ state.turn # NoTurn => state.turn \in saved
  /\ Authority.covers = commits

(* As long as one process at a time has the Thread and no append throws    *)
(* after its flush, the compact events of every turn are one bracket and   *)
(* the Thread can be opened again (findOrphanStarts).                      *)
ThreadCanBeOpened == ~shared /\ late = 0 => Replayable

(* A terminal tells what became of the transaction: completed if its       *)
(* pointer was installed, failed if not (the catch clause of run,          *)
(* recoverOrphans), under one failed write and one process at a time.      *)
TerminalsAreTrue ==
  ~shared /\ refusals + late <= 1 => \A t \in Turn :
    /\ (\E i \in DOMAIN facts[t] : facts[t][i] = "completed") => t \in replaced
    /\ (\E i \in DOMAIN facts[t] : facts[t][i] = "failed") => t \notin replaced

(* A process that has opened the Thread alone has left no transaction      *)
(* without a terminal (recoverOrphans).                                    *)
OrphansAreResolved ==
  [][\A p \in Proc :
       at[p] = "recovering" /\ at'[p] = "idle" /\ ~shared => Orphans' = {}]_vars

(* A checkpoint is only installed for a transaction that is still open:    *)
(* one that another process has recovered as failed while its candidate    *)
(* was computed leaves the history alone (appendCompactCheckpointCas).     *)
ClosedTransactionsInstallNothing ==
  [][\A t \in replaced' \ replaced : facts[t] = <<"started">>]_vars

(* The comment on CompactTransactionPersistenceV1 and section 9.3 of the   *)
(* redesign plan: a failure at any stage is reconciled on resume.          *)
FailuresAreReconciled == Replayable
=============================================================================
