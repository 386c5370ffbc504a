---------------------------- MODULE ToolInvocation ----------------------------
(***************************************************************************)
(* One tool invocation from the model's request to its durable receipt:    *)
(* ToolGateway (src/src/runtime/tool-gateway.ts), its journal in the       *)
(* Thread's log (thread-tool-journal.ts), ExecutionService                 *)
(* (step-snapshot.ts) and, through WorkspaceMutations, the arbiter of the  *)
(* Host in which the Sessions run.                                         *)
(*                                                                         *)
(* invokeOnce waits at four places: for the policy, the approval, the      *)
(* sandbox and the tool, and it is cut there into actions.  The journal's  *)
(* own promises are settled as soon as they are made (its store writes     *)
(* synchronously), so what reads and writes it belongs to the step before. *)
(* The journal is durable, everything else is lost in a crash; an append   *)
(* may throw before or after its bytes are on disk.  A second invocation   *)
(* with an ID that is in flight gets the same promise, or a conflict when  *)
(* its request differs: neither changes any state.  Left out: batch_read,  *)
(* whose children are invocations of their own and only read.              *)
(***************************************************************************)
EXTENDS WorkspaceMutations

CONSTANTS
    Request,     \* requestDigest: tool, arguments and snapshot
    NoRequest,
    Arbitrated,  \* the calls of tools whose effect is `workspace_write`
    Budgets      \* bounds: the requests made under each ID, in order, the
                 \* signals that fire, the appends that throw, the crashes

ASSUME NoRequestAssumption == NoRequest \notin Request
ASSUME ArbitratedAssumption == Tracked \subseteq Arbitrated /\ Arbitrated \subseteq Call
Faults == [stops : Nat, throws : Nat, crashes : Nat]
ASSUME BudgetsAssumption == Budgets \subseteq [asked : [Call -> Seq(Request)], faults : Faults]

VARIABLES
    intent,   \* durable, [Call -> Request \cup {NoRequest}]: item.started
    receipt,  \* durable, [Call -> SUBSET Receipt]: tool.receipt, one at most
    over,     \* durable: the calls whose turn has ended in the log
    pc,       \* [Call -> Stage]: what invokeOnce waits for
    request,  \* [Call -> Request \cup {NoRequest}]: what is in flight
    replies,  \* history: the receipts callers were given, with their request
    started,  \* history, [Call -> Seq(Request)]: the operations begun
    succeeded,\* history: the calls an operation of which has succeeded
    asked,    \* [Call -> Seq(Request)]: the requests still to be made
    faults    \* the faults still to come

journalVars == <<intent, receipt, over>>
gatewayVars == <<journalVars, pc, request, replies, started, succeeded, asked, faults>>
vars == <<mutationVars, gatewayVars>>

Stage == {"idle", "policy", "approval", "sandbox", "executing"}
Receipt == [terminal : {"completed", "failed", "interrupted"},
            at : {"gate", "execute"}]
Ended(terminal, at) == [terminal |-> terminal, at |-> at]

TypeOK ==
    /\ MutationsTypeOK
    /\ intent \in [Call -> Request \cup {NoRequest}]
    /\ receipt \in [Call -> SUBSET Receipt]
    /\ over \subseteq Call
    /\ pc \in [Call -> Stage]
    /\ request \in [Call -> Request \cup {NoRequest}]
    /\ replies \subseteq Call \X Request \X Receipt
    /\ started \in [Call -> Seq(Request)]
    /\ succeeded \subseteq Call
    /\ asked \in [Call -> Seq(Request)]
    /\ faults \in Faults

Init ==
    /\ MutationsInit
    /\ intent = [c \in Call |-> NoRequest]
    /\ receipt = [c \in Call |-> {}]
    /\ over = {}
    /\ pc = [c \in Call |-> "idle"]
    /\ request = [c \in Call |-> NoRequest]
    /\ replies = {}
    /\ started = [c \in Call |-> << >>]
    /\ succeeded = {}
    /\ \E b \in Budgets : asked = b.asked /\ faults = b.faults
-----------------------------------------------------------------------------
(* An append to the log: it may throw, before or after it is on disk. *)
Throws == faults.throws > 0 /\ faults' = [faults EXCEPT !.throws = @ - 1]

(* Mutant: the intent is left to be written together with the receipt. *)
BeginUnrecorded(c, r) ==
    /\ pc' = [pc EXCEPT ![c] = "policy"]
    /\ request' = [request EXCEPT ![c] = r]
    /\ UNCHANGED <<intent, faults>>

(* begin: item.started is appended; the projection wants an active turn. *)
Begin(c, r) ==
    \/ /\ c \notin over
       /\ intent' = [intent EXCEPT ![c] = r]
       /\ pc' = [pc EXCEPT ![c] = "policy"]
       /\ request' = [request EXCEPT ![c] = r]
       /\ UNCHANGED faults
    \/ /\ Throws
       /\ intent' \in {intent, [intent EXCEPT ![c] = r]}
       /\ UNCHANGED <<pc, request>>
    \/ c \in over /\ UNCHANGED <<intent, pc, request, faults>>

(* What load finds under the ID: nothing, and the call is begun; a receipt *)
(* for the same request, which is the reply; otherwise the invocation is   *)
(* refused, as a conflict or as indeterminate.                             *)
Replayed(c, r) == {x \in receipt[c] : intent[c] = r}

Invoke(c, r) ==
    /\ pc[c] = "idle"
    /\ asked[c] # << >> /\ r = Head(asked[c])
    /\ asked' = [asked EXCEPT ![c] = Tail(@)]
    /\ IF intent[c] = NoRequest
       THEN Begin(c, r) /\ UNCHANGED replies
       ELSE /\ replies' = replies \cup {<<c, r, x>> : x \in Replayed(c, r)}
            /\ UNCHANGED <<intent, pc, request, faults>>
    /\ UNCHANGED <<mutationVars, receipt, over, started, succeeded>>

(* commitTerminal and journal.complete: the receipt is appended if the     *)
(* intent is there, has none yet and its turn is active, and is the reply; *)
(* when the append throws the caller gets an error, whatever is on disk.   *)
CommitTerminal(c, x) ==
    /\ IF intent[c] = request[c] /\ receipt[c] = {} /\ c \notin over
       THEN \/ /\ receipt' = [receipt EXCEPT ![c] = {x}]
               /\ replies' = replies \cup {<<c, request[c], x>>}
               /\ UNCHANGED faults
            \/ /\ Throws
               /\ receipt' \in {receipt, [receipt EXCEPT ![c] = {x}]}
               /\ UNCHANGED replies
       ELSE UNCHANGED <<receipt, replies, faults>>
    /\ pc' = [pc EXCEPT ![c] = "idle"]
    /\ request' = [request EXCEPT ![c] = NoRequest]

(* A stage lets the call pass; the policy `allow` skips the approval. *)
Pass(c) ==
    /\ \/ pc[c] = "policy" /\ pc' \in {[pc EXCEPT ![c] = s] : s \in {"approval", "sandbox"}}
       \/ pc[c] = "approval" /\ pc' = [pc EXCEPT ![c] = "sandbox"]
    /\ UNCHANGED <<mutationVars, journalVars, request, replies, started, succeeded,
                   asked, faults>>

(* A gate in front of the tool denies or throws (a tool that is not direct *)
(* is refused before the policy): the call fails closed, without its tool. *)
FailClosed(c) ==
    /\ pc[c] \in {"policy", "approval", "sandbox"}
    /\ \/ CommitTerminal(c, Ended("failed", "gate"))
       \/ /\ pc[c] = "approval" /\ c \in aborted
          /\ CommitTerminal(c, Ended("interrupted", "gate"))
    /\ aborted' = aborted \ {c}
    /\ UNCHANGED <<phase, baseline, current, queues, closed, answer, written,
                   intent, over, started, succeeded, asked>>

(* ExecutionService.run: without the sandbox the policy requires the call  *)
(* fails, when aborted it is interrupted ...                               *)
NotExecuted(c) ==
    /\ pc[c] = "sandbox"
    /\ \E t \in {"failed"} \cup {x \in {"interrupted"} : c \in aborted} :
          CommitTerminal(c, Ended(t, "execute"))
    /\ aborted' = aborted \ {c}
    /\ UNCHANGED <<phase, baseline, current, queues, closed, answer, written,
                   intent, over, started, succeeded, asked>>

(* ... otherwise the tool runs, through the arbiter when it writes the     *)
(* Workspace.                                                              *)
Started(c) ==
    IF phase'[c] = "operating" THEN [started EXCEPT ![c] = Append(@, request[c])] ELSE started

Execute(c) ==
    /\ pc[c] = "sandbox"
    /\ c \notin aborted
    /\ pc' = [pc EXCEPT ![c] = "executing"]
    /\ IF c \in Arbitrated
       THEN RunMutation(c)
       ELSE /\ phase' = [phase EXCEPT ![c] = "operating"]
            /\ answer' = [answer EXCEPT ![c] = "pending"]
            /\ UNCHANGED <<baseline, current, queues, closed, aborted, written>>
    /\ started' = Started(c)
    /\ UNCHANGED <<journalVars, request, replies, succeeded, asked, faults>>

(* The arbiter's steps. *)
Arbitrate(c) ==
    /\ CaptureBaseline(c) \/ Admit(c) \/ ReadRevision(c) \/ StartOperation(c)
    /\ started' = Started(c)
    /\ UNCHANGED <<journalVars, pc, request, replies, succeeded, asked, faults>>

(* The tool writes, and ends with a result or an exception. *)
Operate(c) ==
    /\ \E f \in File : WriteFile(c, f)
    /\ UNCHANGED gatewayVars

Finish(c) ==
    /\ phase[c] = "operating"
    /\ \E a \in {"success", "failure", "rejected"} :
          /\ IF c \in Arbitrated
             THEN FinishOperation(c, a)
             ELSE Settled(c, a) /\ UNCHANGED <<queues, closed, aborted, written>>
          /\ succeeded' = IF a = "success" THEN succeeded \cup {c} ELSE succeeded
    /\ UNCHANGED <<journalVars, pc, request, replies, started, asked, faults>>

(* Mutant: an answer that is not an exception counts as completed. *)
TerminalOfAnyResult(c) ==
    IF c \in aborted THEN "interrupted"
    ELSE IF answer[c] # "rejected" THEN "completed" ELSE "failed"

(* ExecutionService.run: what the tool or the arbiter answered.  A call    *)
(* whose signal has fired is interrupted, whatever its tool has done.      *)
Terminal(c) ==
    IF c \in aborted THEN "interrupted"
    ELSE IF answer[c] = "success" THEN "completed" ELSE "failed"

Executed(c) ==
    /\ pc[c] = "executing"
    /\ phase[c] = "none" /\ answer[c] # "pending"
    /\ CommitTerminal(c, Ended(Terminal(c), "execute"))
    /\ answer' = [answer EXCEPT ![c] = "pending"]
    /\ aborted' = aborted \ {c}
    /\ UNCHANGED <<phase, baseline, current, queues, closed, written,
                   intent, over, started, succeeded, asked>>

(* The turn is interrupted, or the time of a tool is up. *)
Stop(c) ==
    /\ pc[c] # "idle"
    /\ c \notin aborted
    /\ faults.stops > 0
    /\ faults' = [faults EXCEPT !.stops = @ - 1]
    /\ Abort(c)
    /\ UNCHANGED <<journalVars, pc, request, replies, started, succeeded, asked>>

(* The Host shuts its arbiter down. *)
CloseArbiter == Close /\ UNCHANGED gatewayVars

(* The turn of c ends: recoverIncomplete closes what it left open. *)
EndTurn(c) ==
    /\ pc[c] = "idle" /\ intent[c] # NoRequest
    /\ c \notin over
    /\ over' = over \cup {c}
    /\ UNCHANGED <<mutationVars, intent, receipt, pc, request, replies, started,
                   succeeded, asked, faults>>

(* The process dies; when the Threads are opened again the turns that were *)
(* active are ended.  Files and journal stay.                              *)
Crash ==
    /\ faults.crashes > 0
    /\ faults' = [faults EXCEPT !.crashes = @ - 1]
    /\ phase' = [c \in Call |-> "none"]
    /\ baseline' = [c \in Call |-> 0]
    /\ current' = [c \in Call |-> 0]
    /\ queues' = [w \in Workspace |-> << >>]
    /\ closed' = FALSE
    /\ aborted' = {}
    /\ answer' = [c \in Call |-> "pending"]
    /\ pc' = [c \in Call |-> "idle"]
    /\ request' = [c \in Call |-> NoRequest]
    /\ over' = over \cup {c \in Call : pc[c] # "idle" \/ intent[c] # NoRequest}
    /\ UNCHANGED <<written, intent, receipt, replies, started, succeeded, asked>>

Next ==
    \/ \E c \in Call, r \in Request : Invoke(c, r)
    \/ \E c \in Call :
          \/ Pass(c)
          \/ FailClosed(c)
          \/ NotExecuted(c)
          \/ Execute(c)
          \/ Arbitrate(c)
          \/ Operate(c)
          \/ Finish(c)
          \/ Executed(c)
          \/ Stop(c)
          \/ EndTurn(c)
    \/ CloseArbiter
    \/ Crash

Spec == Init /\ [][Next]_vars

(* Every await of the gateway and of the arbiter is settled, and a tool    *)
(* ends: it is given the signal its timeout fires.  Nothing makes a user   *)
(* answer an approval, and no one has to invoke, stop or crash anything.   *)
Progress(c) ==
    \/ pc[c] # "approval" /\ (Pass(c) \/ FailClosed(c))
    \/ NotExecuted(c)
    \/ Execute(c)
    \/ Arbitrate(c)
    \/ Finish(c)
    \/ Executed(c)

FairSpec == Spec /\ \A c \in Call : WF_vars(Progress(c))
-----------------------------------------------------------------------------
(* An invocation ID stands for one execution: whatever is retried and      *)
(* wherever the process dies, its operation is begun once at most, and     *)
(* never without the durable intent of that very request ("automatic       *)
(* re-execution is unsafe", tool-gateway.ts).  And for one answer: whoever *)
(* is given a receipt is given the durable one, the same each time, and    *)
(* for the request that was executed under the ID; arguments that differ   *)
(* get a conflict, not somebody else's result.                             *)
ExecutedOnce ==
    \A c \in Call :
        /\ Len(started[c]) <= 1
        /\ started[c] # << >> => intent[c] = started[c][1]
RepliesAgree ==
    \A c \in Call : \A r \in Request : \A x \in Receipt :
        <<c, r, x>> \in replies => receipt[c] = {x} /\ intent[c] = r
CallsAreIdempotent == ExecutedOnce /\ RepliesAgree

(* The durable receipt tells what happened: `completed` is recorded only   *)
(* for a tool that has succeeded, and a call that ended at a stage in      *)
(* front of the tool never began its operation.                            *)
ReceiptsAreTrue ==
    \A c \in Call : \A x \in receipt[c] :
        /\ x.terminal = "completed" => c \in succeeded
        /\ x.at # "execute" => started[c] = << >>

(* While an edit runs, no other call of its Workspace has written its      *)
(* target since the baseline was read: "ensuring a stale edit never        *)
(* executes after another Session changed its target"                      *)
(* (workspace-mutation-arbiter.ts).                                        *)
EditsAreFresh ==
    \A c \in Tracked : phase[c] = "operating" =>
        /\ baseline[c] # Unstable
        /\ \A i \in baseline[c] + 1 .. Len(written[Target(c)]) :
               LET d == written[Target(c)][i]
               IN  d # c => d \notin Arbitrated \/ workspaceOf[d] # workspaceOf[c]

(* In a Workspace one mutation at a time is between its check and its end: *)
(* the head of the queue; and a queue is never left without a head that    *)
(* runs, which would hold up every Session in the Workspace.               *)
MutationsAreSerial ==
    /\ \A c \in Arbitrated : phase[c] \in {"running", "compared", "operating"} =>
           queues[workspaceOf[c]] # << >> /\ Head(queues[workspaceOf[c]]) = c
    /\ \A w \in Workspace : queues[w] # << >> =>
           phase[Head(queues[w])] \in {"running", "compared", "operating"}

(* An invocation that does not wait for the user is answered, however many *)
(* are in front of it in the queue, and whether they end, throw, conflict, *)
(* are cancelled or the arbiter is closed.                                 *)
InvocationsSettle ==
    \A c \in Call : pc[c] \in {"policy", "sandbox", "executing"} ~> pc[c] \in {"approval", "idle"}
=============================================================================
