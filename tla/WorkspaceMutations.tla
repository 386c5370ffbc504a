-------------------------- MODULE WorkspaceMutations --------------------------
(***************************************************************************)
(* The arbiter of Workspace mutations (src/src/web/                        *)
(* workspace-mutation-arbiter.ts): one per web Host, it lets the tools of  *)
(* all Sessions that change a Workspace run one at a time and first come,  *)
(* first served, and refuses an edit whose target changed while it waited. *)
(*                                                                         *)
(* runWorkspaceMutation reads a revision of the call's target (baseline),  *)
(* then run puts the call in the queue of its Workspace; when the call is  *)
(* at the head, startHead reads the revision again, compares and runs the  *)
(* operation.  Both reads are awaited, so each is an action of its own,    *)
(* and what follows a read up to the next await is another.  Everything    *)
(* finishHead does (shift, starting the next head, dropping the cancelled  *)
(* ones in front of it) happens in the step that settles a call.           *)
(*                                                                         *)
(* Only edit_file and write_file on a path inside the Workspace that is no *)
(* symbolic link have a revision that follows the contents of their        *)
(* target (Tracked); every other mutation has a constant one.  A file is   *)
(* the sequence of the calls that wrote it: its revision (identity, times  *)
(* and digest) is the number of writes.  An unstable revision carries the  *)
(* time of the read, so it equals no other one: left out are two unstable  *)
(* reads of one call within a millisecond.                                 *)
(***************************************************************************)
EXTENDS Naturals, SequencesExt

CONSTANTS
    Call,        \* the invocations that are asked to run
    Workspace,
    File,
    workspaceOf, \* [Call -> Workspace]: authority.projectRoot of the call
    reach,       \* [Call -> SUBSET File]: the files its operation may write
    Tracked,     \* the calls whose revision follows their target
    Unstable     \* `unstable:<now>`: the file kept changing during the read

ASSUME WorkspacesAssumption == workspaceOf \in [Call -> Workspace]
ASSUME ReachAssumption == reach \in [Call -> SUBSET File]
ASSUME TrackedAssumption ==
    /\ Tracked \subseteq Call
    /\ \A c \in Tracked : \E f \in File : reach[c] = {f}
ASSUME UnstableAssumption == Unstable \notin Nat

VARIABLES
    phase,    \* [Call -> Phase]: where runWorkspaceMutation is with a call
    baseline, \* [Call -> Nat]: baselineRevision
    current,  \* [Call -> Nat]: the revision startHead read
    queues,   \* [Workspace -> Seq(Call)]
    closed,
    aborted,  \* the calls whose AbortSignal has fired
    answer,   \* [Call -> Answer]: how the promise of the call is settled
    written   \* [File -> Seq(Call)]: who wrote a file, in order

mutationVars == <<phase, baseline, current, queues, closed, aborted, answer, written>>

Phase == {"none", "preparing", "prepared", "queued", "running", "compared", "operating"}
Answer == {"pending", "success", "failure", "rejected"}

MutationsTypeOK ==
    /\ phase \in [Call -> Phase]
    /\ baseline \in [Call -> Nat \cup {Unstable}]
    /\ current \in [Call -> Nat \cup {Unstable}]
    /\ queues \in [Workspace -> Seq(Call)]
    /\ closed \in BOOLEAN
    /\ aborted \subseteq Call
    /\ answer \in [Call -> Answer]
    /\ written \in [File -> Seq(Call)]

MutationsInit ==
    /\ phase = [c \in Call |-> "none"]
    /\ baseline = [c \in Call |-> 0]
    /\ current = [c \in Call |-> 0]
    /\ queues = [w \in Workspace |-> << >>]
    /\ closed = FALSE
    /\ aborted = {}
    /\ answer = [c \in Call |-> "pending"]
    /\ written = [f \in File |-> << >>]
-----------------------------------------------------------------------------
Target(c) == CHOOSE f \in File : reach[c] = {f}

(* mutationTargetRevision: what a read of the target of c can return now. *)
Revisions(c) ==
    IF c \notin Tracked THEN {0}
    ELSE {Len(written[Target(c)])} \cup
         {u \in {Unstable} : \E d \in Call : phase[d] = "operating" /\ Target(c) \in reach[d]}

(* The promise of c is settled; its entry, with its revisions, is gone. *)
Settled(c, a) ==
    /\ phase' = [phase EXCEPT ![c] = "none"]
    /\ answer' = [answer EXCEPT ![c] = a]
    /\ baseline' = [baseline EXCEPT ![c] = 0]
    /\ current' = [current EXCEPT ![c] = 0]

(* Mutant: the next entry is only started by the next call that is queued. *)
FinishHeadOnly(c, a) ==
    /\ queues' = [queues EXCEPT ![workspaceOf[c]] = Tail(@)]
    /\ Settled(c, a)
-----------------------------------------------------------------------------
(* runWorkspaceMutation, up to the read of the baseline. *)
RunMutation(c) ==
    /\ phase[c] = "none"
    /\ IF closed
       THEN Settled(c, "rejected")
       ELSE /\ phase' = [phase EXCEPT ![c] = "preparing"]
            /\ answer' = [answer EXCEPT ![c] = "pending"]
            /\ UNCHANGED <<baseline, current>>
    /\ UNCHANGED <<queues, closed, aborted, written>>

(* finishHead: c leaves the head of its queue with answer a; then, over    *)
(* and over with startHead, a cancelled head is rejected, and the first    *)
(* entry that is not cancelled runs.                                       *)
FinishHead(c, a) ==
    LET w    == workspaceOf[c]
        rest == Tail(queues[w])
    IN  \E n \in 0 .. Len(rest) :
            LET cancelled == {rest[i] : i \in 1 .. n}
                next == {d \in Call : n < Len(rest) /\ d = rest[n + 1]}
            IN  /\ cancelled \subseteq aborted /\ next \cap aborted = {}
                /\ queues' = [queues EXCEPT ![w] = SubSeq(rest, n + 1, Len(rest))]
                /\ phase' = [d \in Call |-> IF d \in cancelled \cup {c} THEN "none"
                                            ELSE IF d \in next THEN "running" ELSE phase[d]]
                /\ answer' = [d \in Call |-> IF d = c THEN a
                                             ELSE IF d \in cancelled THEN "rejected" ELSE answer[d]]
                /\ baseline' = [d \in Call |-> IF phase'[d] = "none" THEN 0 ELSE baseline[d]]
                /\ current' = [current EXCEPT ![c] = 0]

CaptureBaseline(c) ==
    /\ phase[c] = "preparing"
    /\ phase' = [phase EXCEPT ![c] = "prepared"]
    /\ \E r \in Revisions(c) : baseline' = [baseline EXCEPT ![c] = r]
    /\ UNCHANGED <<current, queues, closed, aborted, answer, written>>

(* Mutant: an entry starts as soon as it is queued. *)
AdmitAtOnce(c) ==
    /\ phase[c] = "prepared"
    /\ queues' = [queues EXCEPT ![workspaceOf[c]] = Append(@, c)]
    /\ phase' = [phase EXCEPT ![c] = "running"]
    /\ UNCHANGED <<baseline, current, closed, aborted, answer, written>>

(* run: refused when the arbiter is closed or the call cancelled, queued   *)
(* otherwise; the first entry of a queue starts at once.                   *)
Admit(c) ==
    LET w == workspaceOf[c] IN
    /\ phase[c] = "prepared"
    /\ IF closed \/ c \in aborted
       THEN Settled(c, "rejected") /\ UNCHANGED queues
       ELSE /\ queues' = [queues EXCEPT ![w] = Append(@, c)]
            /\ phase' = [phase EXCEPT ![c] = IF queues[w] = << >> THEN "running" ELSE "queued"]
            /\ UNCHANGED <<answer, baseline, current>>
    /\ UNCHANGED <<closed, aborted, written>>

(* startHead, the awaited readCurrentRevision. *)
ReadRevision(c) ==
    /\ phase[c] = "running"
    /\ phase' = [phase EXCEPT ![c] = "compared"]
    /\ \E r \in Revisions(c) : current' = [current EXCEPT ![c] = r]
    /\ UNCHANGED <<baseline, queues, closed, aborted, answer, written>>

(* Mutant: what the queue was waited for is not checked again. *)
StartUnchecked(c) ==
    /\ phase[c] = "compared"
    /\ phase' = [phase EXCEPT ![c] = "operating"]
    /\ UNCHANGED <<queues, answer, baseline, current, closed, aborted, written>>

(* startHead, the comparison: a conflict, or the operation is started. *)
StartOperation(c) ==
    /\ phase[c] = "compared"
    /\ IF current[c] # baseline[c] \/ current[c] = Unstable
       THEN FinishHead(c, "rejected")
       ELSE /\ phase' = [phase EXCEPT ![c] = "operating"]
            /\ UNCHANGED <<queues, answer, baseline, current>>
    /\ UNCHANGED <<closed, aborted, written>>

(* The tool itself: it may write each file it reaches ... *)
WriteFile(c, f) ==
    /\ phase[c] = "operating"
    /\ f \in reach[c]
    /\ ~ Contains(written[f], c)
    /\ written' = [written EXCEPT ![f] = Append(@, c)]
    /\ UNCHANGED <<phase, baseline, current, queues, closed, aborted, answer>>

(* ... and ends, an edit that is a preview without having written.  The    *)
(* result resolves the promise, an exception rejects it; either way        *)
(* finishHead.                                                             *)
FinishOperation(c, a) ==
    /\ phase[c] = "operating"
    /\ FinishHead(c, a)
    /\ UNCHANGED <<closed, aborted, written>>

(* The signal of c fires: the turn is interrupted, or the tool timed out. *)
Abort(c) ==
    /\ aborted' = aborted \cup {c}
    /\ UNCHANGED <<phase, baseline, current, queues, closed, answer, written>>

(* close: everything that waits is rejected; what runs, in front, goes on. *)
Close ==
    LET waiting == {c \in Call : phase[c] = "queued"}
        InFront(q) == Cardinality({i \in 1 .. Len(q) : q[i] \notin waiting})
    IN
    /\ ~ closed
    /\ closed' = TRUE
    /\ phase' = [c \in Call |-> IF c \in waiting THEN "none" ELSE phase[c]]
    /\ answer' = [c \in Call |-> IF c \in waiting THEN "rejected" ELSE answer[c]]
    /\ queues' = [w \in Workspace |-> SubSeq(queues[w], 1, InFront(queues[w]))]
    /\ baseline' = [c \in Call |-> IF c \in waiting THEN 0 ELSE baseline[c]]
    /\ UNCHANGED <<current, aborted, written>>
=============================================================================
