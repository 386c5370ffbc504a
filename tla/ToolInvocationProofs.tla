-------------------------- MODULE ToolInvocationProofs --------------------------
(***************************************************************************)
(* An invocation runs once and its receipts are true, the mutations of a   *)
(* Workspace run one at a time and no edit runs on a stale target, for any *)
(* number of calls, Workspaces and files, whatever throws, stops and       *)
(* crashes.  The two halves meet in one place: a call has an entry with    *)
(* the arbiter only while the gateway awaits its execution.                *)
(***************************************************************************)
EXTENDS ToolInvocation, FiniteSetTheorems, SequenceTheorems, TLAPS

Waits == {"preparing", "prepared", "queued", "running", "compared"}
Runs == {"running", "compared", "operating"}

\* What is in flight is the request whose intent is durable, and has no receipt;
\* until the tool is called it has no entry, and until its operation is started
\* nothing has been begun.
StagesFit(c) ==
    /\ pc[c] = "idle" <=> request[c] = NoRequest
    /\ pc[c] # "idle" => request[c] = intent[c] /\ receipt[c] = {}
    /\ phase[c] # "none" => pc[c] = "executing"
    /\ pc[c] \in {"policy", "approval", "sandbox"} \/ phase[c] \in Waits => started[c] = << >>
    /\ intent[c] = NoRequest => receipt[c] = {}
    /\ \A x, y \in receipt[c] : x = y
    /\ answer[c] = "success" => c \in succeeded

\* The entries of a queue are the calls of its Workspace that wait for their turn
\* or have it, each once; only the first has it.
QueuesAreServed ==
    /\ \A w \in Workspace : \A i \in 1 .. Len(queues[w]) :
          /\ queues[w][i] \in Arbitrated /\ workspaceOf[queues[w][i]] = w
          /\ phase[queues[w][i]] \in IF i = 1 THEN Runs ELSE {"queued"}
          /\ \A j \in 1 .. Len(queues[w]) : queues[w][i] = queues[w][j] => i = j
    /\ \A c \in Call :
          \/ phase[c] = "none"
          \/ c \notin Arbitrated /\ phase[c] = "operating"
          \/ /\ c \in Arbitrated
             /\ \/ phase[c] \in {"preparing", "prepared"}
                \/ \E i \in 1 .. Len(queues[workspaceOf[c]]) : queues[workspaceOf[c]][i] = c

\* No other call of the Workspace of c has written its target since revision n.
FreshSince(c, n) ==
    /\ n # Unstable
    /\ \A i \in n + 1 .. Len(written[Target(c)]) :
           LET d == written[Target(c)][i]
           IN  d # c => d \notin Arbitrated \/ workspaceOf[d] # workspaceOf[c]

\* What is compared is fresh when it is stable.
TargetsAreFresh ==
    \A c \in Tracked :
        /\ phase[c] = "compared" /\ current[c] # Unstable => FreshSince(c, current[c])
        /\ phase[c] = "operating" => FreshSince(c, baseline[c])

ArbiterInvariant == MutationsTypeOK /\ QueuesAreServed /\ TargetsAreFresh
JournalInvariant ==
    /\ TypeOK
    /\ \A c \in Call : StagesFit(c)
    /\ CallsAreIdempotent
    /\ ReceiptsAreTrue
InvocationInvariant == ArbiterInvariant /\ JournalInvariant
-----------------------------------------------------------------------------
(* The queues of the arbiter.                                              *)

LEMMA QueuesAreTyped ==
    ASSUME MutationsTypeOK, NEW w \in Workspace
    PROVE  /\ queues[w] \in Seq(Call) /\ Len(queues[w]) \in Nat
           /\ queues[w] = << >> <=> Len(queues[w]) = 0
           /\ \A i \in 1 .. Len(queues[w]) : queues[w][i] \in Call
  <1>1. queues[w] \in Seq(Call)
    BY DEF MutationsTypeOK
  <1> QED
    BY <1>1, LenProperties, ElementOfSeq, EmptySeq

LEMMA TargetsAreFiles == \A c \in Tracked : Target(c) \in File /\ reach[c] = {Target(c)}
  <1> SUFFICES ASSUME NEW c \in Tracked
               PROVE  Target(c) \in File /\ reach[c] = {Target(c)}
    OBVIOUS
  <1>1. \E f \in File : reach[c] = {f}
    BY TrackedAssumption
  <1> QED
    BY <1>1 DEF Target

(* Who runs is the head of its queue. *)
LEMMA RunningIsHead ==
    ASSUME MutationsTypeOK, QueuesAreServed, NEW c \in Arbitrated, phase[c] \in Runs
    PROVE  /\ c \in Call /\ workspaceOf[c] \in Workspace
           /\ queues[workspaceOf[c]] # << >> /\ queues[workspaceOf[c]][1] = c
  <1>1. c \in Call /\ workspaceOf[c] \in Workspace
    BY ArbitratedAssumption, WorkspacesAssumption
  <1>2. PICK i \in 1 .. Len(queues[workspaceOf[c]]) : queues[workspaceOf[c]][i] = c
    BY <1>1 DEF QueuesAreServed, Runs
  <1>3. i = 1
    BY <1>1, <1>2 DEF QueuesAreServed, Runs
  <1> QED
    BY <1>1, <1>2, <1>3, QueuesAreTyped

LEMMA OneRuns ==
    ASSUME MutationsTypeOK, QueuesAreServed,
           NEW c \in Arbitrated, phase[c] \in Runs, NEW d \in Arbitrated, phase[d] \in Runs,
           workspaceOf[c] = workspaceOf[d]
    PROVE  c = d
  BY RunningIsHead

(* A call moves between two awaits, its place in a queue stays as it is. *)
LEMMA MoveKeepsQueues ==
    ASSUME MutationsTypeOK, QueuesAreServed, NEW c \in Call, NEW p \in Phase,
           phase' = [phase EXCEPT ![c] = p], queues' = queues,
           \/ c \in Arbitrated /\ {phase[c], p} \subseteq Runs
           \/ c \in Arbitrated /\ {phase[c], p} \subseteq {"none", "preparing", "prepared"}
           \/ c \notin Arbitrated /\ p \in {"none", "operating"}
    PROVE  QueuesAreServed'
  <1>1. phase'[c] = p /\ \A d \in Call \ {c} : phase'[d] = phase[d]
    BY DEF MutationsTypeOK
  <1>2. ASSUME NEW w \in Workspace, NEW i \in 1 .. Len(queues[w])
        PROVE  phase'[queues[w][i]] \in IF i = 1 THEN Runs ELSE {"queued"}
    <2>1. /\ queues[w][i] \in Call /\ queues[w][i] \in Arbitrated
          /\ phase[queues[w][i]] \in IF i = 1 THEN Runs ELSE {"queued"}
      BY QueuesAreTyped DEF QueuesAreServed
    <2>2. CASE queues[w][i] = c
      BY <1>1, <2>1, <2>2 DEF Runs
    <2>3. CASE queues[w][i] # c
      BY <1>1, <2>1, <2>3
    <2> QED
      BY <2>2, <2>3
  <1>3. ASSUME NEW d \in Call
        PROVE  \/ phase'[d] = "none"
               \/ d \notin Arbitrated /\ phase'[d] = "operating"
               \/ /\ d \in Arbitrated
                  /\ \/ phase'[d] \in {"preparing", "prepared"}
                     \/ \E i \in 1 .. Len(queues[workspaceOf[d]]) : queues[workspaceOf[d]][i] = d
    <2>1. CASE d # c
      BY <1>1, <2>1 DEF QueuesAreServed
    <2>2. CASE d = c
      BY <1>1, <2>2 DEF QueuesAreServed, Runs
    <2> QED
      BY <2>1, <2>2
  <1>4. \A w \in Workspace : \A i \in 1 .. Len(queues[w]) :
            /\ queues[w][i] \in Arbitrated /\ workspaceOf[queues[w][i]] = w
            /\ \A j \in 1 .. Len(queues[w]) : queues[w][i] = queues[w][j] => i = j
    BY DEF QueuesAreServed
  <1> QED
    BY <1>2, <1>3, <1>4 DEF QueuesAreServed

(* A step that begins no comparison and no operation, and after which the  *)
(* files and what the others know of them are the same, leaves every edit  *)
(* as fresh as it was.                                                     *)
LEMMA SameFilesStayFresh ==
    ASSUME TargetsAreFresh, written' = written,
           \A c \in Tracked : phase'[c] \in {"compared", "operating"} =>
               /\ phase'[c] = phase[c]
               /\ current'[c] = current[c] /\ baseline'[c] = baseline[c]
    PROVE  TargetsAreFresh'
  BY DEF TargetsAreFresh, FreshSince, Target

LEMMA SettledIsTyped ==
    ASSUME MutationsTypeOK, NEW c \in Call, NEW a \in Answer, Settled(c, a)
    PROVE  /\ phase' \in [Call -> Phase] /\ answer' \in [Call -> Answer]
           /\ baseline' \in [Call -> Nat \cup {Unstable}] /\ current' \in [Call -> Nat \cup {Unstable}]
           /\ phase'[c] = "none" /\ answer'[c] = a
           /\ \A d \in Call : d # c =>
                 /\ phase'[d] = phase[d] /\ answer'[d] = answer[d]
                 /\ baseline'[d] = baseline[d] /\ current'[d] = current[d]
  <1>1. phase' \in [Call -> Phase] /\ phase'[c] = "none" /\ \A d \in Call : d # c => phase'[d] = phase[d]
    BY DEF Settled, MutationsTypeOK, Phase
  <1>2. answer' \in [Call -> Answer] /\ answer'[c] = a /\ \A d \in Call : d # c => answer'[d] = answer[d]
    BY DEF Settled, MutationsTypeOK
  <1>3. /\ baseline' \in [Call -> Nat \cup {Unstable}]
        /\ \A d \in Call : d # c => baseline'[d] = baseline[d]
    BY DEF Settled, MutationsTypeOK
  <1>4. /\ current' \in [Call -> Nat \cup {Unstable}]
        /\ \A d \in Call : d # c => current'[d] = current[d]
    BY DEF Settled, MutationsTypeOK
  <1> QED
    BY <1>1, <1>2, <1>3, <1>4

(* Before the queue, and the read of the baseline. *)
LEMMA PrepareKeeps ==
    ASSUME ArbiterInvariant, NEW c \in Arbitrated, RunMutation(c) \/ CaptureBaseline(c)
    PROVE  ArbiterInvariant'
  <1>1. MutationsTypeOK /\ QueuesAreServed /\ c \in Call /\ Tracked \subseteq Call
    BY ArbitratedAssumption, TrackedAssumption DEF ArbiterInvariant
  <1>2. PICK p \in {"none", "preparing", "prepared"} :
          /\ phase' = [phase EXCEPT ![c] = p] /\ phase[c] \in {"none", "preparing"}
          /\ UNCHANGED <<queues, closed, aborted, written>>
    BY DEF RunMutation, CaptureBaseline, Settled
  <1>3. /\ phase'[c] = p /\ p \in Phase
        /\ \A d \in Call : d # c => phase'[d] = phase[d]
    BY <1>1, <1>2 DEF MutationsTypeOK, Phase
  <1>4. QueuesAreServed'
    BY <1>1, <1>2, <1>3, MoveKeepsQueues
  <1>5. /\ baseline' \in [Call -> Nat \cup {Unstable}] /\ current' \in [Call -> Nat \cup {Unstable}]
        /\ answer' \in [Call -> Answer]
        /\ \A d \in Call : d # c => baseline'[d] = baseline[d] /\ current'[d] = current[d]
    <2>1. Revisions(c) \subseteq Nat \cup {Unstable}
      <3>1. CASE c \in Tracked
        <4>1. written[Target(c)] \in Seq(Call)
          BY <1>1, <3>1, TargetsAreFiles DEF MutationsTypeOK
        <4> QED
          BY <4>1, LenProperties DEF Revisions
      <3> QED
        BY <3>1 DEF Revisions
    <2>2. CASE RunMutation(c)
      <3>1. CASE closed
        BY <1>1, <2>2, <3>1, SettledIsTyped DEF RunMutation, Answer
      <3>2. CASE ~ closed
        BY <1>1, <2>2, <3>2 DEF RunMutation, MutationsTypeOK, Answer
      <3> QED
        BY <3>1, <3>2
    <2>3. CASE CaptureBaseline(c)
      BY <1>1, <2>1, <2>3 DEF CaptureBaseline, MutationsTypeOK
    <2> QED
      BY <2>2, <2>3
  <1>6. MutationsTypeOK'
    BY <1>1, <1>2, <1>3, <1>5 DEF MutationsTypeOK
  <1>7. TargetsAreFresh'
    <2>1. \A d \in Tracked : phase'[d] \in {"compared", "operating"} =>
              /\ phase'[d] = phase[d]
              /\ current'[d] = current[d] /\ baseline'[d] = baseline[d]
      BY <1>1, <1>2, <1>3, <1>5
    <2> QED
      BY <1>2, <2>1, SameFilesStayFresh DEF ArbiterInvariant
  <1> QED
    BY <1>4, <1>6, <1>7 DEF ArbiterInvariant

(* A call joins the end of its queue, and runs when it is alone. *)
LEMMA AdmitKeeps ==
    ASSUME ArbiterInvariant, NEW c \in Call, Admit(c)
    PROVE  ArbiterInvariant'
  <1> DEFINE w == workspaceOf[c]
  <1>1. /\ MutationsTypeOK /\ QueuesAreServed /\ TargetsAreFresh /\ w \in Workspace
        /\ phase[c] = "prepared" /\ Tracked \subseteq Call
        /\ UNCHANGED <<closed, aborted, written>>
    BY WorkspacesAssumption, TrackedAssumption DEF ArbiterInvariant, Admit
  <1>2. c \in Arbitrated
    BY <1>1 DEF QueuesAreServed
  <1>3. CASE Settled(c, "rejected") /\ UNCHANGED queues
    <2>1. /\ phase' \in [Call -> Phase] /\ answer' \in [Call -> Answer]
          /\ baseline' \in [Call -> Nat \cup {Unstable}] /\ current' \in [Call -> Nat \cup {Unstable}]
          /\ phase'[c] = "none"
          /\ \A d \in Call : d # c =>
                /\ phase'[d] = phase[d] /\ answer'[d] = answer[d]
                /\ baseline'[d] = baseline[d] /\ current'[d] = current[d]
      BY <1>1, <1>3, SettledIsTyped DEF Answer
    <2>2. MutationsTypeOK'
      BY <1>1, <1>3, <2>1 DEF MutationsTypeOK
    <2>3. QueuesAreServed'
      BY <1>1, <1>2, <1>3, MoveKeepsQueues DEF Settled, Phase
    <2>4. TargetsAreFresh'
      <3>1. \A d \in Tracked : phase'[d] \in {"compared", "operating"} =>
              /\ phase'[d] = phase[d]
              /\ current'[d] = current[d] /\ baseline'[d] = baseline[d]
        BY <1>1, <2>1
      <3> QED
        BY <1>1, <3>1, SameFilesStayFresh
    <2> QED
      BY <2>2, <2>3, <2>4 DEF ArbiterInvariant
  <1>4. CASE /\ queues' = [queues EXCEPT ![w] = Append(@, c)]
             /\ phase' = [phase EXCEPT ![c] = IF queues[w] = << >> THEN "running" ELSE "queued"]
             /\ UNCHANGED <<answer, baseline, current>>
    <2> DEFINE q == queues[w]
               p == IF q = << >> THEN "running" ELSE "queued"
    <2>1. /\ phase' \in [Call -> Phase] /\ phase'[c] = p
          /\ \A d \in Call : d # c => phase'[d] = phase[d]
      BY <1>1, <1>4 DEF MutationsTypeOK, Phase
    <2>2. /\ q \in Seq(Call) /\ Len(q) \in Nat /\ (q = << >> <=> Len(q) = 0)
          /\ \A i \in 1 .. Len(q) : q[i] \in Call
      BY <1>1, QueuesAreTyped
    <2>3. /\ queues' \in [Workspace -> Seq(Call)] /\ queues'[w] = Append(q, c)
          /\ \A v \in Workspace : v # w => queues'[v] = queues[v]
      BY <1>1, <1>4, <2>2, AppendProperties DEF MutationsTypeOK
    <2> HIDE DEF q
    <2>4. /\ Len(queues'[w]) = Len(q) + 1 /\ queues'[w][Len(q) + 1] = c
          /\ \A i \in 1 .. Len(q) : queues'[w][i] = q[i]
      BY <2>2, <2>3, AppendProperties
    <2>5. MutationsTypeOK'
      BY <1>1, <1>4, <2>1, <2>3 DEF MutationsTypeOK
    <2>6. ASSUME NEW v \in Workspace, NEW i \in 1 .. Len(queues[v])
          PROVE  queues[v][i] \in Call /\ queues[v][i] # c
      BY <1>1, QueuesAreTyped DEF QueuesAreServed, Runs
    <2>7. ASSUME NEW v \in Workspace, NEW i \in 1 .. Len(queues'[v])
          PROVE  /\ queues'[v][i] \in Arbitrated /\ workspaceOf[queues'[v][i]] = v
                 /\ phase'[queues'[v][i]] \in IF i = 1 THEN Runs ELSE {"queued"}
                 /\ \A j \in 1 .. Len(queues'[v]) : queues'[v][i] = queues'[v][j] => i = j
      <3>1. CASE v # w
        BY <1>1, <2>1, <2>3, <2>6, <3>1 DEF QueuesAreServed
      <3>2. CASE v = w /\ i <= Len(q)
        <4>1. /\ i \in 1 .. Len(q) /\ queues'[v][i] = q[i] /\ q[i] \in Call /\ q[i] # c
              /\ q[i] \in Arbitrated /\ workspaceOf[q[i]] = w
              /\ phase[q[i]] \in IF i = 1 THEN Runs ELSE {"queued"}
              /\ \A j \in 1 .. Len(q) : q[i] = q[j] => i = j
          BY <1>1, <2>2, <2>4, <2>6, <3>2 DEF QueuesAreServed, q
        <4>2. \A j \in 1 .. Len(queues'[v]) : j \in 1 .. Len(q) \/ j = Len(q) + 1
          BY <2>2, <2>4, <3>2
        <4> QED
          BY <2>1, <2>4, <3>2, <4>1, <4>2
      <3>3. CASE v = w /\ i = Len(q) + 1
        <4>1. queues'[v][i] = c
          BY <2>4, <3>3
        <4>2. phase'[c] \in IF i = 1 THEN Runs ELSE {"queued"}
          BY <2>1, <2>2, <3>3 DEF Runs
        <4>3. \A j \in 1 .. Len(queues'[v]) : j # i => queues'[v][j] # c
          BY <1>1, <2>2, <2>4, <2>6, <3>3 DEF q
        <4> QED
          BY <1>2, <3>3, <4>1, <4>2, <4>3
      <3> QED
        BY <2>2, <2>4, <3>1, <3>2, <3>3
    <2>8. ASSUME NEW d \in Call
          PROVE  \/ phase'[d] = "none"
                 \/ d \notin Arbitrated /\ phase'[d] = "operating"
                 \/ /\ d \in Arbitrated
                    /\ \/ phase'[d] \in {"preparing", "prepared"}
                       \/ \E i \in 1 .. Len(queues'[workspaceOf[d]]) : queues'[workspaceOf[d]][i] = d
      <3>1. CASE d = c
        <4>1. Len(q) + 1 \in 1 .. Len(queues'[w])
          BY <2>2, <2>4
        <4> QED
          BY <1>2, <2>4, <3>1, <4>1
      <3>2. CASE d # c
        <4>1. phase'[d] = phase[d] /\ workspaceOf[d] \in Workspace
          BY <2>1, <3>2, WorkspacesAssumption
        <4>2. ASSUME NEW i \in 1 .. Len(queues[workspaceOf[d]]), queues[workspaceOf[d]][i] = d
              PROVE  \E j \in 1 .. Len(queues'[workspaceOf[d]]) : queues'[workspaceOf[d]][j] = d
          BY <2>2, <2>3, <2>4, <4>1, <4>2 DEF q
        <4> QED
          BY <1>1, <4>1, <4>2 DEF QueuesAreServed
      <3> QED
        BY <3>1, <3>2
    <2>9. QueuesAreServed'
      BY <2>7, <2>8 DEF QueuesAreServed
    <2>10. TargetsAreFresh'
      <3>1. \A d \in Tracked : phase'[d] \in {"compared", "operating"} =>
              /\ phase'[d] = phase[d]
              /\ current'[d] = current[d] /\ baseline'[d] = baseline[d]
        BY <1>1, <1>4, <2>1
      <3> QED
        BY <1>1, <3>1, SameFilesStayFresh
    <2> QED
      BY <2>5, <2>9, <2>10 DEF ArbiterInvariant
  <1> QED
    BY <1>3, <1>4 DEF Admit

(* What is read at the head of the queue is the newest there is. *)
LEMMA ReadRevisionKeeps ==
    ASSUME ArbiterInvariant, NEW c \in Call, ReadRevision(c)
    PROVE  ArbiterInvariant'
  <1>1. /\ MutationsTypeOK /\ QueuesAreServed /\ TargetsAreFresh
        /\ phase[c] = "running" /\ phase' = [phase EXCEPT ![c] = "compared"]
        /\ UNCHANGED <<baseline, queues, closed, aborted, answer, written>>
    BY DEF ArbiterInvariant, ReadRevision
  <1>2. c \in Arbitrated
    BY <1>1 DEF QueuesAreServed
  <1>3. PICK r \in Revisions(c) : current' = [current EXCEPT ![c] = r]
    BY DEF ReadRevision
  <1>4. /\ r \in Nat \cup {Unstable}
        /\ c \in Tracked => r = Unstable \/ (r = Len(written[Target(c)]) /\ r \in Nat)
    <2>1. CASE c \in Tracked
      <3>1. written[Target(c)] \in Seq(Call)
        BY <1>1, <2>1, TargetsAreFiles DEF MutationsTypeOK
      <3>2. Len(written[Target(c)]) \in Nat
        BY <3>1, LenProperties
      <3>3. r = Len(written[Target(c)]) \/ r = Unstable
        BY <1>3, <2>1 DEF Revisions
      <3> QED
        BY <3>2, <3>3
    <2>2. CASE c \notin Tracked
      BY <1>3, <2>2 DEF Revisions
    <2> QED
      BY <2>1, <2>2
  <1>5. /\ phase' \in [Call -> Phase] /\ current' \in [Call -> Nat \cup {Unstable}]
        /\ phase'[c] = "compared" /\ current'[c] = r
        /\ \A d \in Call : d # c => phase'[d] = phase[d] /\ current'[d] = current[d]
    BY <1>1, <1>3, <1>4 DEF MutationsTypeOK, Phase
  <1>6. MutationsTypeOK'
    BY <1>1, <1>5 DEF MutationsTypeOK
  <1>7. QueuesAreServed'
    BY <1>1, <1>2, MoveKeepsQueues DEF Phase, Runs
  <1>8. TargetsAreFresh'
    <2>1. ASSUME NEW d \in Tracked
          PROVE  /\ phase'[d] = "compared" /\ current'[d] # Unstable => FreshSince(d, current[d])'
                 /\ phase'[d] = "operating" => FreshSince(d, baseline[d])'
      <3>1. CASE d = c
        <4>1. current'[d] # Unstable => r = Len(written[Target(c)]) /\ r \in Nat
          BY <1>4, <1>5, <3>1
        <4>2. current'[d] # Unstable => r + 1 .. Len(written[Target(c)]) = {}
          BY <4>1
        <4> QED
          BY <1>1, <1>5, <3>1, <4>2 DEF FreshSince, Target
      <3>2. CASE d # c
        <4>1. phase'[d] = phase[d] /\ current'[d] = current[d]
          BY <1>5, <3>2, TrackedAssumption
        <4> QED
          BY <1>1, <4>1 DEF TargetsAreFresh, FreshSince, Target
      <3> QED
        BY <3>1, <3>2
    <2> QED
      BY <2>1 DEF TargetsAreFresh
  <1> QED
    BY <1>6, <1>7, <1>8 DEF ArbiterInvariant

(* The head leaves its queue, with the cancelled ones behind it, and the   *)
(* next one runs.                                                          *)
LEMMA FinishHeadKeeps ==
    ASSUME ArbiterInvariant, NEW c \in Arbitrated, phase[c] \in Runs, NEW a \in Answer,
           FinishHead(c, a), UNCHANGED <<closed, aborted, written>>
    PROVE  /\ ArbiterInvariant'
           /\ phase'[c] = "none" /\ answer'[c] = a
           /\ \A d \in Call : d # c =>
                 /\ phase'[d] = phase[d] \/ (phase[d] = "queued" /\ phase'[d] \in {"none", "running"})
                 /\ answer'[d] \in {answer[d], "rejected"}
  <1> DEFINE w == workspaceOf[c]
             q == queues[w]
             rest == Tail(q)
  <1>1. /\ MutationsTypeOK /\ QueuesAreServed /\ TargetsAreFresh
        /\ c \in Call /\ w \in Workspace /\ q # << >> /\ q[1] = c /\ Tracked \subseteq Call
    BY RunningIsHead, TrackedAssumption DEF ArbiterInvariant
  <1>2. /\ q \in Seq(Call) /\ Len(q) \in Nat \ {0}
        /\ \A i \in 1 .. Len(q) : q[i] \in Call
    BY <1>1, QueuesAreTyped
  <1>3. PICK n \in 0 .. Len(rest) :
            LET cancelled == {rest[i] : i \in 1 .. n}
                next == {d \in Call : n < Len(rest) /\ d = rest[n + 1]}
            IN  /\ cancelled \subseteq aborted /\ next \cap aborted = {}
                /\ queues' = [queues EXCEPT ![w] = SubSeq(rest, n + 1, Len(rest))]
                /\ phase' = [d \in Call |-> IF d \in cancelled \cup {c} THEN "none"
                                            ELSE IF d \in next THEN "running" ELSE phase[d]]
                /\ answer' = [d \in Call |-> IF d = c THEN a
                                             ELSE IF d \in cancelled THEN "rejected" ELSE answer[d]]
                /\ baseline' = [d \in Call |-> IF phase'[d] = "none" THEN 0 ELSE baseline[d]]
                /\ current' = [current EXCEPT ![c] = 0]
    BY DEF FinishHead
  <1> DEFINE cancelled == {rest[i] : i \in 1 .. n}
             next == {d \in Call : n < Len(rest) /\ d = rest[n + 1]}
  <1>4. /\ rest \in Seq(Call) /\ Len(rest) = Len(q) - 1 /\ Len(rest) \in Nat /\ n \in Nat
        /\ \A i \in 1 .. Len(rest) : rest[i] = q[i + 1]
    BY <1>1, <1>2, HeadTailProperties
  <1>5. /\ queues' \in [Workspace -> Seq(Call)]
        /\ queues'[w] = SubSeq(rest, n + 1, Len(rest))
        /\ \A v \in Workspace : v # w => queues'[v] = queues[v]
    <2>1. SubSeq(rest, n + 1, Len(rest)) \in Seq(Call)
      BY <1>3, <1>4, SubSeqProperties
    <2> QED
      BY <1>1, <1>3, <2>1 DEF MutationsTypeOK
  <1>6. /\ Len(queues'[w]) = Len(q) - 1 - n /\ Len(queues'[w]) \in Nat
        /\ \A j \in 1 .. Len(queues'[w]) : n + 1 + j \in 1 .. Len(q)
        /\ \A j \in 1 .. Len(queues'[w]) : queues'[w][j] = q[n + 1 + j]
    <2>1. /\ n + 1 \in 1 .. Len(rest) + 1
          /\ Len(SubSeq(rest, n + 1, Len(rest))) = Len(rest) - n
          /\ \A j \in 1 .. Len(rest) - n : SubSeq(rest, n + 1, Len(rest))[j] = rest[n + j]
      BY <1>3, <1>4, SubSeqProperties
    <2>2. \A j \in 1 .. Len(rest) - n : n + j \in 1 .. Len(rest) /\ (n + j) + 1 = n + 1 + j
      BY <1>3, <1>4
    <2>3. \A j \in 1 .. Len(rest) - n : rest[n + j] = q[(n + j) + 1]
      BY <1>4, <2>2
    <2>4. Len(rest) - n = Len(q) - 1 - n /\ Len(rest) - n \in Nat
      BY <1>3, <1>4
    <2>5. \A j \in 1 .. Len(rest) - n : n + 1 + j \in 1 .. Len(q)
      BY <1>2, <1>3, <1>4
    <2> HIDE DEF rest, q
    <2> QED
      BY <1>5, <2>1, <2>2, <2>3, <2>4, <2>5
  <1>7. /\ \A d : d \in cancelled <=> \E i \in 2 .. n + 1 : d = q[i]
        /\ \A d \in Call : d \in next <=> (n + 2 <= Len(q) /\ d = q[n + 2])
    <2>1. \A i \in 1 .. n : i \in 1 .. Len(rest) /\ i + 1 \in 2 .. n + 1 /\ rest[i] = q[i + 1]
      BY <1>3, <1>4
    <2>2. \A i \in 2 .. n + 1 : i - 1 \in 1 .. n /\ rest[i - 1] = q[(i - 1) + 1] /\ (i - 1) + 1 = i
      BY <1>3, <1>4
    <2>3. n < Len(rest) <=> n + 2 <= Len(q)
      BY <1>2, <1>3, <1>4
    <2>4. n < Len(rest) => n + 1 \in 1 .. Len(rest) /\ (n + 1) + 1 = n + 2
      BY <1>3, <1>4
    <2>5. n < Len(rest) => rest[n + 1] = q[n + 2]
      BY <1>4, <2>4
    <2> HIDE DEF rest, q
    <2>6. ASSUME NEW i \in 1 .. n
          PROVE  \E j \in 2 .. n + 1 : rest[i] = q[j]
      BY <2>1
    <2>7. ASSUME NEW i \in 2 .. n + 1
          PROVE  \E j \in 1 .. n : q[i] = rest[j]
      BY <2>2
    <2>8. ASSUME NEW d
          PROVE  d \in cancelled <=> \E i \in 2 .. n + 1 : d = q[i]
      <3>1. d \in cancelled <=> \E i \in 1 .. n : d = rest[i]
        BY Zenon
      <3>2. ASSUME d \in cancelled
            PROVE  \E i \in 2 .. n + 1 : d = q[i]
        BY <3>1, <3>2, <2>6
      <3>3. ASSUME NEW i \in 2 .. n + 1, d = q[i]
            PROVE  d \in cancelled
        BY <3>1, <3>3, <2>7
      <3> QED
        BY <3>2, <3>3
    <2>9. \A d \in Call : d \in next <=> (n + 2 <= Len(q) /\ d = q[n + 2])
      BY <2>3, <2>5
    <2> QED
      BY <2>8, <2>9
  <1>8. /\ phase' = [d \in Call |-> IF d \in cancelled \cup {c} THEN "none"
                                    ELSE IF d \in next THEN "running" ELSE phase[d]]
        /\ answer' = [d \in Call |-> IF d = c THEN a
                                     ELSE IF d \in cancelled THEN "rejected" ELSE answer[d]]
        /\ baseline' = [d \in Call |-> IF phase'[d] = "none" THEN 0 ELSE baseline[d]]
        /\ current' = [current EXCEPT ![c] = 0]
    BY <1>3
  <1> HIDE DEF cancelled, next, rest, q
  <1>9. \A i \in 1 .. Len(q) :
            /\ q[i] \in Call /\ q[i] \in Arbitrated /\ workspaceOf[q[i]] = w
            /\ phase[q[i]] \in IF i = 1 THEN Runs ELSE {"queued"}
            /\ \A j \in 1 .. Len(q) : q[i] = q[j] => i = j
    BY <1>1, <1>2 DEF QueuesAreServed, q
  <1>10. \A d \in cancelled \cup next : d \in Call => phase[d] = "queued" /\ workspaceOf[d] = w
    <2>1. \A i \in 2 .. n + 1 : i \in 1 .. Len(q) /\ i # 1
      BY <1>2, <1>3, <1>4
    <2>2. n + 2 <= Len(q) => n + 2 \in 1 .. Len(q) /\ n + 2 # 1
      BY <1>2, <1>4
    <2> QED
      BY <1>7, <1>9, <2>1, <2>2
  <1>11. MutationsTypeOK'
    <2>1. phase' \in [Call -> Phase]
      BY <1>1, <1>8 DEF MutationsTypeOK, Phase
    <2>2. answer' \in [Call -> Answer]
      BY <1>1, <1>8 DEF MutationsTypeOK, Answer
    <2>3. /\ baseline' \in [Call -> Nat \cup {Unstable}]
          /\ current' \in [Call -> Nat \cup {Unstable}]
      BY <1>1, <1>8 DEF MutationsTypeOK
    <2> QED
      BY <1>1, <1>5, <2>1, <2>2, <2>3 DEF MutationsTypeOK
  <1>12. ASSUME NEW v \in Workspace, NEW i \in 1 .. Len(queues'[v])
         PROVE  /\ queues'[v][i] \in Arbitrated /\ workspaceOf[queues'[v][i]] = v
                /\ phase'[queues'[v][i]] \in IF i = 1 THEN Runs ELSE {"queued"}
                /\ \A j \in 1 .. Len(queues'[v]) : queues'[v][i] = queues'[v][j] => i = j
    <2>1. CASE v # w
      <3>1. /\ queues'[v] = queues[v] /\ queues[v][i] \in Call
            /\ queues[v][i] \in Arbitrated /\ workspaceOf[queues[v][i]] = v
            /\ phase[queues[v][i]] \in IF i = 1 THEN Runs ELSE {"queued"}
            /\ \A j \in 1 .. Len(queues[v]) : queues[v][i] = queues[v][j] => i = j
        BY <1>1, <1>5, <2>1, QueuesAreTyped DEF QueuesAreServed
      <3>2. queues[v][i] # c /\ queues[v][i] \notin cancelled \cup next
        BY <1>1, <1>10, <2>1, <3>1
      <3>3. phase'[queues[v][i]] = phase[queues[v][i]]
        BY <1>8, <3>1, <3>2
      <3> QED
        BY <3>1, <3>3
    <2>2. CASE v = w
      <3>1. /\ n + 1 + i \in 1 .. Len(q) /\ n + 1 + i # 1 /\ queues'[v][i] = q[n + 1 + i]
            /\ n + 1 + i \notin 2 .. n + 1 /\ (n + 1 + i = n + 2 <=> i = 1)
            /\ n + 2 \in 1 .. Len(q)
        <4>1. n + 1 + i \in 1 .. Len(q) /\ queues'[v][i] = q[n + 1 + i]
          BY <1>6, <2>2
        <4>2. i \in Nat \ {0}
          BY <1>6, <2>2
        <4> QED
          BY <1>2, <1>4, <4>1, <4>2
      <3>2. q[n + 1 + i] # c
        BY <1>1, <1>2, <1>9, <3>1 DEF q
      <3>3. q[n + 1 + i] \notin cancelled
        <4>1. \A j \in 2 .. n + 1 : j \in 1 .. Len(q)
          BY <1>2, <1>3, <1>4
        <4>2. \A j \in 2 .. n + 1 : q[n + 1 + i] # q[j]
          BY <1>9, <3>1, <4>1
        <4> QED
          BY <1>7, <4>2
      <3>4. q[n + 1 + i] \in next <=> i = 1
        BY <1>2, <1>7, <1>9, <3>1
      <3>5. phase'[q[n + 1 + i]] \in IF i = 1 THEN Runs ELSE {"queued"}
        BY <1>8, <1>9, <3>1, <3>2, <3>3, <3>4 DEF Runs
      <3>6. ASSUME NEW j \in 1 .. Len(queues'[v]), queues'[v][i] = queues'[v][j]
            PROVE  i = j
        <4>1. n + 1 + j \in 1 .. Len(q) /\ queues'[v][j] = q[n + 1 + j]
          BY <1>6, <2>2
        <4>2. \A k \in 1 .. Len(q) : q[n + 1 + i] = q[k] => n + 1 + i = k
          BY <1>9, <3>1
        <4>3. n + 1 + i = n + 1 + j
          BY <3>1, <3>6, <4>1, <4>2
        <4>4. i \in Nat /\ j \in Nat
          BY <1>6, <2>2
        <4> QED
          BY <1>4, <4>3, <4>4
      <3> QED
        BY <1>9, <2>2, <3>1, <3>5, <3>6
    <2> QED
      BY <2>1, <2>2
  <1>13. ASSUME NEW d \in Call
         PROVE  \/ phase'[d] = "none"
                \/ d \notin Arbitrated /\ phase'[d] = "operating"
                \/ /\ d \in Arbitrated
                   /\ \/ phase'[d] \in {"preparing", "prepared"}
                      \/ \E i \in 1 .. Len(queues'[workspaceOf[d]]) : queues'[workspaceOf[d]][i] = d
    <2>1. ASSUME NEW i \in 1 .. Len(q), q[i] = d, d # c, d \notin cancelled
          PROVE  \E j \in 1 .. Len(queues'[w]) : queues'[w][j] = d
      <3>1. i # 1 /\ i \notin 2 .. n + 1
        BY <1>1, <1>7, <2>1 DEF q
      <3>2. /\ i - n - 1 \in 1 .. Len(queues'[w])
            /\ n + 1 + (i - n - 1) = i
        BY <1>2, <1>4, <1>6, <3>1
      <3> QED
        BY <1>6, <2>1, <3>2
    <2>2. CASE d \in cancelled \cup {c}
      BY <1>8, <2>2
    <2>3. CASE d \notin cancelled \cup {c} /\ d \in next
      <3>1. n + 2 \in 1 .. Len(q) /\ q[n + 2] = d
        BY <1>2, <1>4, <1>7, <2>3
      <3>2. d \in Arbitrated /\ workspaceOf[d] = w
        BY <1>9, <3>1
      <3> QED
        BY <2>1, <2>3, <3>1, <3>2
    <2>4. CASE d \notin cancelled \cup {c} /\ d \notin next
      <3>1. phase'[d] = phase[d] /\ workspaceOf[d] \in Workspace
        BY <1>8, <2>4, WorkspacesAssumption
      <3>2. CASE workspaceOf[d] = w
        BY <1>1, <2>1, <2>4, <3>1, <3>2 DEF QueuesAreServed, q
      <3>3. CASE workspaceOf[d] # w
        BY <1>1, <1>5, <3>1, <3>3 DEF QueuesAreServed
      <3> QED
        BY <3>2, <3>3
    <2> QED
      BY <2>2, <2>3, <2>4
  <1>14. QueuesAreServed'
    BY <1>12, <1>13 DEF QueuesAreServed
  <1>15. \A d \in Tracked : phase'[d] \in {"compared", "operating"} =>
             /\ phase'[d] = phase[d]
             /\ current'[d] = current[d] /\ baseline'[d] = baseline[d]
    BY <1>1, <1>8 DEF MutationsTypeOK
  <1>16. TargetsAreFresh'
    BY <1>1, <1>15, SameFilesStayFresh
  <1>17. /\ phase'[c] = "none" /\ answer'[c] = a
         /\ \A d \in Call : d # c =>
               /\ phase'[d] = phase[d] \/ (phase[d] = "queued" /\ phase'[d] \in {"none", "running"})
               /\ answer'[d] \in {answer[d], "rejected"}
    BY <1>1, <1>8, <1>10
  <1> QED
    BY <1>11, <1>14, <1>16, <1>17 DEF ArbiterInvariant

(* An operation is started on what was compared, or the call leaves. *)
LEMMA StartOperationKeeps ==
    ASSUME ArbiterInvariant, NEW c \in Call, StartOperation(c)
    PROVE  ArbiterInvariant'
  <1>1. /\ MutationsTypeOK /\ QueuesAreServed /\ TargetsAreFresh /\ phase[c] = "compared"
        /\ UNCHANGED <<closed, aborted, written>> /\ Tracked \subseteq Call
    BY TrackedAssumption DEF ArbiterInvariant, StartOperation
  <1>2. c \in Arbitrated
    BY <1>1 DEF QueuesAreServed
  <1>3. CASE current[c] # baseline[c] \/ current[c] = Unstable
    <2>1. FinishHead(c, "rejected") /\ phase[c] \in Runs /\ "rejected" \in Answer
      BY <1>1, <1>3 DEF StartOperation, Runs, Answer
    <2> QED
      BY <1>1, <1>2, <2>1, FinishHeadKeeps
  <1>4. CASE current[c] = baseline[c] /\ current[c] # Unstable
    <2>1. phase' = [phase EXCEPT ![c] = "operating"] /\ UNCHANGED <<queues, answer, baseline, current>>
      BY <1>4 DEF StartOperation
    <2>2. MutationsTypeOK'
      BY <1>1, <2>1 DEF MutationsTypeOK, Phase
    <2>3. QueuesAreServed'
      BY <1>1, <1>2, <2>1, MoveKeepsQueues DEF Phase, Runs
    <2>4. ASSUME NEW d \in Tracked
          PROVE  /\ phase'[d] = "compared" /\ current'[d] # Unstable => FreshSince(d, current[d])'
                 /\ phase'[d] = "operating" => FreshSince(d, baseline[d])'
      <3>1. FreshSince(d, current[d])' = FreshSince(d, current[d])
        BY <1>1, <2>1 DEF FreshSince, Target
      <3>2. FreshSince(d, baseline[d])' = FreshSince(d, baseline[d])
        BY <1>1, <2>1 DEF FreshSince, Target
      <3>3. CASE d = c
        <4>1. FreshSince(c, current[c])
          BY <1>1, <1>4, <3>3 DEF TargetsAreFresh
        <4>2. phase'[c] = "operating"
          BY <1>1, <2>1 DEF MutationsTypeOK
        <4> QED
          BY <1>4, <3>2, <3>3, <4>1, <4>2
      <3>4. CASE d # c
        <4>1. phase'[d] = phase[d] /\ current'[d] = current[d]
          BY <1>1, <2>1, <3>4 DEF MutationsTypeOK
        <4> QED
          BY <1>1, <3>1, <3>2, <4>1 DEF TargetsAreFresh
      <3> QED
        BY <3>3, <3>4
    <2> QED
      BY <2>2, <2>3, <2>4 DEF ArbiterInvariant, TargetsAreFresh
  <1> QED
    BY <1>3, <1>4

(* Who writes a file another call of its Workspace edits is that call: one *)
(* of them operates at a time, and what is compared does not write yet.    *)
LEMMA WriteKeeps ==
    ASSUME ArbiterInvariant, NEW c \in Call, NEW f \in File, WriteFile(c, f)
    PROVE  ArbiterInvariant'
  <1>1. /\ MutationsTypeOK /\ QueuesAreServed /\ TargetsAreFresh /\ phase[c] = "operating"
        /\ written' = [written EXCEPT ![f] = Append(@, c)]
        /\ UNCHANGED <<phase, baseline, current, queues, closed, aborted, answer>>
    BY DEF ArbiterInvariant, WriteFile
  <1>2. written' \in [File -> Seq(Call)]
    <2>1. written[f] \in Seq(Call)
      BY <1>1 DEF MutationsTypeOK
    <2>2. Append(written[f], c) \in Seq(Call)
      BY <2>1, AppendProperties
    <2> QED
      BY <1>1, <2>2 DEF MutationsTypeOK
  <1>3. MutationsTypeOK'
    BY <1>1, <1>2 DEF MutationsTypeOK
  <1>4. QueuesAreServed'
    BY <1>1 DEF QueuesAreServed
  <1>5. ASSUME NEW d \in Tracked, NEW n, FreshSince(d, n),
               n \in Nat \cup {Unstable}, phase[d] \in {"compared", "operating"}
        PROVE  FreshSince(d, n)'
    <2>1. /\ Target(d) \in File /\ Target(d)' = Target(d) /\ d \in Call /\ d \in Arbitrated
      BY TargetsAreFiles, TrackedAssumption, ArbitratedAssumption DEF Target
    <2>2. n \in Nat /\ n # Unstable
      BY <1>5 DEF FreshSince
    <2>3. CASE Target(d) # f
      <3>1. written'[Target(d)] = written[Target(d)]
        BY <1>1, <2>1, <2>3 DEF MutationsTypeOK
      <3> QED
        BY <1>5, <2>1, <3>1 DEF FreshSince
    <2>4. CASE Target(d) = f
      <3>1. /\ written[f] \in Seq(Call) /\ Len(written[f]) \in Nat
            /\ written'[f] = Append(written[f], c)
        BY <1>1, LenProperties DEF MutationsTypeOK
      <3>2. /\ Len(written'[f]) = Len(written[f]) + 1 /\ written'[f][Len(written[f]) + 1] = c
            /\ \A i \in 1 .. Len(written[f]) : written'[f][i] = written[f][i]
        BY <3>1, AppendProperties
      <3>3. c # d => c \notin Arbitrated \/ workspaceOf[c] # workspaceOf[d]
        <4>1. phase[c] \in Runs /\ phase[d] \in Runs
          BY <1>1, <1>5 DEF Runs
        <4> QED
          BY <1>1, <2>1, <4>1, OneRuns
      <3>4. ASSUME NEW i \in n + 1 .. Len(written'[f])
            PROVE  written'[f][i] # d =>
                       \/ written'[f][i] \notin Arbitrated
                       \/ workspaceOf[written'[f][i]] # workspaceOf[d]
        <4>1. CASE i = Len(written[f]) + 1
          BY <3>2, <3>3, <4>1
        <4>2. CASE i # Len(written[f]) + 1
          <5>1. i \in n + 1 .. Len(written[f]) /\ i \in 1 .. Len(written[f])
            BY <2>2, <3>1, <3>2, <4>2
          <5> QED
            BY <1>5, <2>4, <3>2, <5>1 DEF FreshSince
        <4> QED
          BY <4>1, <4>2
      <3> QED
        BY <2>1, <2>2, <2>4, <3>4 DEF FreshSince
    <2> QED
      BY <2>3, <2>4
  <1>6. ASSUME NEW d \in Tracked
        PROVE  /\ phase'[d] = "compared" /\ current'[d] # Unstable => FreshSince(d, current[d])'
               /\ phase'[d] = "operating" => FreshSince(d, baseline[d])'
    <2>1. current[d] \in Nat \cup {Unstable} /\ baseline[d] \in Nat \cup {Unstable}
      BY <1>1, TrackedAssumption DEF MutationsTypeOK
    <2>2. phase[d] = "compared" /\ current[d] # Unstable =>
              FreshSince(d, current[d])'
      BY <1>1, <1>5, <2>1 DEF TargetsAreFresh
    <2>3. phase[d] = "operating" => FreshSince(d, baseline[d])'
      BY <1>1, <1>5, <2>1 DEF TargetsAreFresh
    <2> QED
      BY <1>1, <2>2, <2>3
  <1> QED
    BY <1>3, <1>4, <1>6 DEF ArbiterInvariant, TargetsAreFresh

(* A step that touches neither the queues, nor what the calls are at, nor  *)
(* the files.                                                              *)
LEMMA OtherwiseKept ==
    ASSUME ArbiterInvariant, UNCHANGED <<phase, baseline, current, queues, closed, written>>,
           aborted' \subseteq Call, answer' \in [Call -> Answer]
    PROVE  ArbiterInvariant'
  <1>1. MutationsTypeOK /\ QueuesAreServed /\ TargetsAreFresh
    BY DEF ArbiterInvariant
  <1>2. MutationsTypeOK'
    BY <1>1 DEF MutationsTypeOK
  <1>3. QueuesAreServed'
    BY <1>1 DEF QueuesAreServed
  <1>4. TargetsAreFresh'
    BY <1>1, SameFilesStayFresh
  <1> QED
    BY <1>2, <1>3, <1>4 DEF ArbiterInvariant

(* A tool that does not write the Workspace starts and ends by itself. *)
LEMMA DirectKeeps ==
    ASSUME ArbiterInvariant, NEW c \in Call \ Arbitrated, NEW p \in {"none", "operating"},
           phase' = [phase EXCEPT ![c] = p], answer' \in [Call -> Answer],
           \/ UNCHANGED <<baseline, current, queues, closed, aborted, written>>
           \/ Settled(c, answer'[c]) /\ UNCHANGED <<queues, closed, aborted, written>>
    PROVE  ArbiterInvariant'
  <1>1. /\ MutationsTypeOK /\ QueuesAreServed /\ TargetsAreFresh /\ c \in Call
        /\ UNCHANGED <<queues, closed, aborted, written>> /\ p \in Phase
    BY DEF ArbiterInvariant, Phase
  <1>2. /\ phase' \in [Call -> Phase] /\ phase'[c] = p
        /\ \A d \in Call : d # c => phase'[d] = phase[d]
    BY <1>1 DEF MutationsTypeOK
  <1>3. /\ baseline' \in [Call -> Nat \cup {Unstable}] /\ current' \in [Call -> Nat \cup {Unstable}]
        /\ \A d \in Call : d # c => baseline'[d] = baseline[d] /\ current'[d] = current[d]
    <2>1. CASE UNCHANGED <<baseline, current, queues, closed, aborted, written>>
      BY <1>1, <2>1 DEF MutationsTypeOK
    <2>2. CASE Settled(c, answer'[c])
      BY <1>1, <2>2 DEF MutationsTypeOK, Settled
    <2> QED
      BY <2>1, <2>2
  <1>4. MutationsTypeOK'
    BY <1>1, <1>2, <1>3 DEF MutationsTypeOK
  <1>5. QueuesAreServed'
    BY <1>1, MoveKeepsQueues
  <1>6. \A d \in Tracked : phase'[d] \in {"compared", "operating"} =>
            /\ phase'[d] = phase[d]
            /\ current'[d] = current[d] /\ baseline'[d] = baseline[d]
    BY <1>2, <1>3, TrackedAssumption, ArbitratedAssumption
  <1> QED
    BY <1>1, <1>4, <1>5, <1>6, SameFilesStayFresh DEF ArbiterInvariant

(* What is queued is behind what runs: only the head of a queue is left. *)
LEMMA CloseKeeps ==
    ASSUME ArbiterInvariant, Close
    PROVE  /\ ArbiterInvariant'
           /\ \A d \in Call :
                 /\ phase'[d] = phase[d] \/ (phase[d] = "queued" /\ phase'[d] = "none")
                 /\ answer'[d] \in {answer[d], "rejected"}
  <1> DEFINE waiting == {c \in Call : phase[c] = "queued"}
             InFront(q) == Cardinality({i \in 1 .. Len(q) : q[i] \notin waiting})
  <1>1. /\ MutationsTypeOK /\ QueuesAreServed /\ TargetsAreFresh /\ Tracked \subseteq Call
        /\ closed' = TRUE
        /\ phase' = [c \in Call |-> IF c \in waiting THEN "none" ELSE phase[c]]
        /\ answer' = [c \in Call |-> IF c \in waiting THEN "rejected" ELSE answer[c]]
        /\ queues' = [w \in Workspace |-> SubSeq(queues[w], 1, InFront(queues[w]))]
        /\ baseline' = [c \in Call |-> IF c \in waiting THEN 0 ELSE baseline[c]]
        /\ UNCHANGED <<current, aborted, written>>
    BY TrackedAssumption DEF ArbiterInvariant, Close
  <1>2. ASSUME NEW w \in Workspace
        PROVE  /\ queues'[w] \in Seq(Call)
               /\ queues[w] = << >> => Len(queues'[w]) = 0
               /\ queues[w] # << >> => Len(queues'[w]) = 1 /\ queues'[w][1] = queues[w][1]
    <2> DEFINE q == queues[w]
               front == {i \in 1 .. Len(q) : q[i] \notin waiting}
    <2>1. /\ q \in Seq(Call) /\ Len(q) \in Nat /\ (q = << >> <=> Len(q) = 0)
          /\ \A i \in 1 .. Len(q) : q[i] \in Call
      BY <1>1, QueuesAreTyped
    <2>2. \A i \in 1 .. Len(q) : phase[q[i]] \in IF i = 1 THEN Runs ELSE {"queued"}
      BY <1>1 DEF QueuesAreServed
    <2>3. \A i \in 1 .. Len(q) : i \in front <=> i = 1
      BY <2>1, <2>2 DEF Runs
    <2>4. queues'[w] = SubSeq(q, 1, Cardinality(front))
      BY <1>1
    <2> HIDE DEF q
    <2>5. CASE Len(q) = 0
      <3>1. front = {}
        BY <2>5
      <3>2. Cardinality(front) = 0
        BY <3>1, FS_EmptySet
      <3>3. SubSeq(q, 1, 0) \in Seq(Call) /\ Len(SubSeq(q, 1, 0)) = 0
        BY <2>1, SubSeqProperties
      <3> QED
        BY <2>1, <2>4, <2>5, <3>2, <3>3 DEF q
    <2>6. CASE Len(q) # 0
      <3>1. 1 \in 1 .. Len(q)
        BY <2>1, <2>6
      <3>2. front = {1}
        BY <2>3, <3>1
      <3>3. Cardinality(front) = 1
        BY <3>2, FS_Singleton
      <3>4. /\ SubSeq(q, 1, 1) \in Seq(Call) /\ Len(SubSeq(q, 1, 1)) = 1
            /\ SubSeq(q, 1, 1)[1] = q[1]
        BY <2>1, <3>1, SubSeqProperties
      <3> QED
        BY <2>1, <2>4, <2>6, <3>3, <3>4 DEF q
    <2> QED
      BY <2>5, <2>6
  <1> DEFINE Kept(w) == SubSeq(queues[w], 1, InFront(queues[w]))
  <1>3. queues' \in [Workspace -> Seq(Call)]
    <2>1. queues' = [w \in Workspace |-> Kept(w)]
      BY <1>1
    <2> HIDE DEF Kept
    <2> QED
      BY <1>2, <2>1
  <1>4. \A d \in Call : phase'[d] = IF phase[d] = "queued" THEN "none" ELSE phase[d]
    BY <1>1
  <1>5. MutationsTypeOK'
    BY <1>1, <1>3 DEF MutationsTypeOK, Phase, Answer
  <1>6. ASSUME NEW w \in Workspace, NEW i \in 1 .. Len(queues'[w])
        PROVE  /\ queues'[w][i] \in Arbitrated /\ workspaceOf[queues'[w][i]] = w
               /\ phase'[queues'[w][i]] \in IF i = 1 THEN Runs ELSE {"queued"}
               /\ \A j \in 1 .. Len(queues'[w]) : queues'[w][i] = queues'[w][j] => i = j
    <2>1. /\ queues[w] # << >> /\ i = 1 /\ Len(queues'[w]) = 1 /\ queues'[w][1] = queues[w][1]
      <3>1. queues[w] # << >>
        <4>1. Len(queues'[w]) # 0
          OBVIOUS
        <4> QED
          BY <1>2, <4>1
      <3>2. Len(queues'[w]) = 1 /\ queues'[w][1] = queues[w][1]
        BY <1>2, <3>1
      <3>3. i = 1
        BY <3>2
      <3> QED
        BY <3>1, <3>2, <3>3
    <2>2. 1 \in 1 .. Len(queues[w]) /\ queues[w][1] \in Call
      BY <1>1, <2>1, QueuesAreTyped
    <2>3. /\ queues[w][1] \in Arbitrated /\ workspaceOf[queues[w][1]] = w
          /\ phase[queues[w][1]] \in Runs
      BY <1>1, <2>2 DEF QueuesAreServed
    <2>4. phase'[queues[w][1]] \in Runs
      BY <1>4, <2>2, <2>3 DEF Runs
    <2> QED
      BY <2>1, <2>3, <2>4
  <1>7. ASSUME NEW d \in Call
        PROVE  \/ phase'[d] = "none"
               \/ d \notin Arbitrated /\ phase'[d] = "operating"
               \/ /\ d \in Arbitrated
                  /\ \/ phase'[d] \in {"preparing", "prepared"}
                     \/ \E i \in 1 .. Len(queues'[workspaceOf[d]]) : queues'[workspaceOf[d]][i] = d
    <2> DEFINE w == workspaceOf[d]
    <2>1. w \in Workspace
      BY WorkspacesAssumption
    <2>2. CASE phase[d] = "queued"
      BY <1>4, <2>2
    <2>3. CASE phase[d] # "queued" /\ \E i \in 1 .. Len(queues[w]) : queues[w][i] = d
      <3>1. d \in Arbitrated /\ queues[w] # << >> /\ queues[w][1] = d
        <4>1. PICK i \in 1 .. Len(queues[w]) : queues[w][i] = d
          BY <2>3
        <4>2. i = 1 /\ d \in Arbitrated
          BY <1>1, <2>1, <2>3, <4>1 DEF QueuesAreServed
        <4> QED
          BY <1>1, <2>1, <4>1, <4>2, QueuesAreTyped
      <3>2. Len(queues'[w]) = 1 /\ queues'[w][1] = d
        BY <1>2, <2>1, <3>1
      <3>3. 1 \in 1 .. Len(queues'[w])
        BY <3>2
      <3> QED
        BY <3>1, <3>2, <3>3
    <2>4. CASE phase[d] # "queued" /\ ~ \E i \in 1 .. Len(queues[w]) : queues[w][i] = d
      BY <1>1, <1>4, <2>4 DEF QueuesAreServed
    <2> QED
      BY <2>2, <2>3, <2>4
  <1>8. QueuesAreServed'
    BY <1>6, <1>7 DEF QueuesAreServed
  <1>9. TargetsAreFresh'
    <2>1. \A d \in Tracked : phase'[d] \in {"compared", "operating"} =>
              /\ phase'[d] = phase[d]
              /\ current'[d] = current[d] /\ baseline'[d] = baseline[d]
      BY <1>1, <1>4
    <2> QED
      BY <1>1, <2>1, SameFilesStayFresh
  <1>10. \A d \in Call : /\ phase'[d] = phase[d] \/ (phase[d] = "queued" /\ phase'[d] = "none")
                         /\ answer'[d] \in {answer[d], "rejected"}
    BY <1>1
  <1> QED
    BY <1>5, <1>8, <1>9, <1>10 DEF ArbiterInvariant

LEMMA CrashClears ==
    ASSUME ArbiterInvariant, Crash
    PROVE  ArbiterInvariant'
  <1>1. /\ MutationsTypeOK /\ queues' = [w \in Workspace |-> << >>]
        /\ phase' = [c \in Call |-> "none"] /\ baseline' = [c \in Call |-> 0]
        /\ current' = [c \in Call |-> 0] /\ closed' = FALSE /\ aborted' = {}
        /\ answer' = [c \in Call |-> "pending"] /\ written' = written
    BY DEF ArbiterInvariant, Crash
  <1>2. MutationsTypeOK'
    <2>1. queues' \in [Workspace -> Seq(Call)]
      BY <1>1, EmptySeq
    <2> QED
      BY <1>1, <2>1 DEF MutationsTypeOK, Phase, Answer
  <1>3. QueuesAreServed'
    BY <1>1 DEF QueuesAreServed
  <1>4. TargetsAreFresh'
    BY <1>1, TrackedAssumption DEF TargetsAreFresh
  <1> QED
    BY <1>2, <1>3, <1>4 DEF ArbiterInvariant
-----------------------------------------------------------------------------
(* The gateway and its journal.                                            *)

Gates == {"policy", "approval", "sandbox"}

LEMMA FaultsAreSpent ==
    ASSUME faults \in Faults
    PROVE  /\ Throws => faults' \in Faults
           /\ faults.stops > 0 => [faults EXCEPT !.stops = @ - 1] \in Faults
           /\ faults.crashes > 0 => [faults EXCEPT !.crashes = @ - 1] \in Faults
  BY DEF Faults, Throws

(* What is given is durable, and no call has two receipts. *)
LEMMA RepliesAreTyped ==
    ASSUME TypeOK, NEW c \in Call
    PROVE  /\ intent[c] \in Request \cup {NoRequest} /\ request[c] \in Request \cup {NoRequest}
           /\ receipt[c] \subseteq Receipt
           /\ started[c] \in Seq(Request) /\ Len(started[c]) \in Nat
           /\ started[c] = << >> <=> Len(started[c]) = 0
           /\ \A i \in 1 .. Len(started[c]) : started[c][i] \in Request
  <1>1. /\ intent[c] \in Request \cup {NoRequest} /\ request[c] \in Request \cup {NoRequest}
        /\ receipt[c] \subseteq Receipt /\ started[c] \in Seq(Request)
    BY DEF TypeOK
  <1> QED
    BY <1>1, LenProperties, ElementOfSeq, EmptySeq

(* A call without an intent has begun no operation. *)
LEMMA NothingBegunWithoutIntent ==
    ASSUME JournalInvariant, NEW c \in Call, intent[c] = NoRequest
    PROVE  started[c] = << >> /\ receipt[c] = {}
  <1>1. TypeOK /\ StagesFit(c) /\ ExecutedOnce
    BY DEF JournalInvariant, CallsAreIdempotent
  <1>2. ASSUME started[c] # << >>
        PROVE  FALSE
    <2>1. intent[c] = started[c][1]
      BY <1>1, <1>2 DEF ExecutedOnce
    <2>2. 1 \in 1 .. Len(started[c])
      BY <1>1, <1>2, RepliesAreTyped
    <2>3. started[c][1] \in Request
      BY <1>1, <2>2, RepliesAreTyped
    <2> QED
      BY <2>1, <2>3, NoRequestAssumption
  <1> QED
    BY <1>1, <1>2 DEF StagesFit

(* A step that leaves the journal, the requests and the replies alone may  *)
(* begin the operation of a call whose request is in flight, once.         *)
LEMMA FlightKeepsJournal ==
    ASSUME JournalInvariant, TypeOK',
           UNCHANGED <<intent, receipt, request, replies>>, succeeded \subseteq succeeded',
           \A d \in Call :
               /\ pc'[d] = "idle" <=> pc[d] = "idle"
               /\ phase'[d] # "none" => pc'[d] = "executing"
               /\ pc'[d] \in Gates \/ phase'[d] \in Waits => started'[d] = << >>
               /\ \/ started'[d] = started[d]
                  \/ pc[d] # "idle" /\ started'[d] = <<request[d]>>
               /\ answer'[d] = "success" => d \in succeeded'
    PROVE  JournalInvariant'
  <1>1. /\ TypeOK /\ ExecutedOnce /\ RepliesAgree /\ ReceiptsAreTrue
        /\ \A d \in Call : StagesFit(d)
    BY DEF JournalInvariant, CallsAreIdempotent
  <1>2. ASSUME NEW d \in Call
        PROVE  StagesFit(d)'
    BY <1>1 DEF StagesFit, Gates
  <1>3. ASSUME NEW d \in Call
        PROVE  /\ Len(started'[d]) <= 1
               /\ started'[d] # << >> => intent'[d] = started'[d][1]
    <2>1. CASE started'[d] = started[d]
      BY <1>1, <2>1 DEF ExecutedOnce
    <2>2. CASE pc[d] # "idle" /\ started'[d] = <<request[d]>>
      <3>1. Len(started'[d]) = 1 /\ started'[d][1] = request[d]
        BY <2>2
      <3>2. intent'[d] = request[d]
        BY <1>1, <2>2 DEF StagesFit
      <3> QED
        BY <3>1, <3>2
    <2> QED
      BY <2>1, <2>2
  <1>4. RepliesAgree'
    BY <1>1 DEF RepliesAgree
  <1>5. ASSUME NEW d \in Call, NEW x \in receipt'[d]
        PROVE  /\ x.terminal = "completed" => d \in succeeded'
               /\ x.at # "execute" => started'[d] = << >>
    <2>1. x \in receipt[d] /\ receipt[d] # {}
      BY <1>5
    <2>2. started'[d] = started[d]
      BY <1>1, <2>1 DEF StagesFit
    <2> QED
      BY <1>1, <2>1, <2>2 DEF ReceiptsAreTrue
  <1> QED
    BY <1>2, <1>3, <1>4, <1>5 DEF JournalInvariant, CallsAreIdempotent, ExecutedOnce, ReceiptsAreTrue

(* The receipt of a call that has none, written for the request whose      *)
(* intent is durable, is the only one there is and the one that is given.  *)
LEMMA CommitKeepsJournal ==
    ASSUME JournalInvariant, MutationsTypeOK', NEW c \in Call, NEW x \in Receipt,
           CommitTerminal(c, x), pc[c] # "idle", phase[c] = "none",
           x.terminal = "completed" => c \in succeeded,
           x.at # "execute" => started[c] = << >>,
           UNCHANGED <<phase, intent, over, started, succeeded, asked>>,
           \A d \in Call : answer'[d] \in {answer[d], "pending"}
    PROVE  JournalInvariant'
  <1>1. /\ TypeOK /\ ExecutedOnce /\ RepliesAgree /\ ReceiptsAreTrue
        /\ \A d \in Call : StagesFit(d)
    BY DEF JournalInvariant, CallsAreIdempotent
  <1>2. /\ receipt[c] = {} /\ request[c] = intent[c] /\ request[c] # NoRequest
        /\ request[c] \in Request
    BY <1>1, RepliesAreTyped DEF StagesFit
  <1>3. /\ pc' = [pc EXCEPT ![c] = "idle"] /\ request' = [request EXCEPT ![c] = NoRequest]
        /\ faults' \in Faults
        /\ \/ receipt' = receipt /\ replies' = replies
           \/ receipt' = [receipt EXCEPT ![c] = {x}] /\ replies' = replies
           \/ /\ receipt' = [receipt EXCEPT ![c] = {x}]
              /\ replies' = replies \cup {<<c, request[c], x>>}
    <2>1. faults \in Faults
      BY <1>1 DEF TypeOK
    <2> QED
      BY <2>1, FaultsAreSpent DEF CommitTerminal
  <1>4. TypeOK'
    <2>1. receipt' \in [Call -> SUBSET Receipt]
      BY <1>1, <1>3 DEF TypeOK
    <2>2. replies' \subseteq Call \X Request \X Receipt
      BY <1>1, <1>2, <1>3 DEF TypeOK
    <2>3. pc' \in [Call -> Stage] /\ request' \in [Call -> Request \cup {NoRequest}]
      BY <1>1, <1>3 DEF TypeOK, Stage
    <2> QED
      BY <1>1, <1>3, <2>1, <2>2, <2>3 DEF TypeOK
  <1>5. /\ receipt'[c] \in {{}, {x}} /\ pc'[c] = "idle" /\ request'[c] = NoRequest
        /\ \A d \in Call : d # c =>
              receipt'[d] = receipt[d] /\ pc'[d] = pc[d] /\ request'[d] = request[d]
    BY <1>1, <1>2, <1>3 DEF TypeOK
  <1>6. ASSUME NEW d \in Call
        PROVE  StagesFit(d)'
    <2>1. CASE d = c
      BY <1>1, <1>2, <1>5, <2>1 DEF StagesFit, Waits
    <2>2. CASE d # c
      <3>1. answer'[d] = "success" => answer[d] = "success"
        OBVIOUS
      <3> QED
        BY <1>1, <1>5, <2>2, <3>1 DEF StagesFit
    <2> QED
      BY <2>1, <2>2
  <1>7. ExecutedOnce'
    BY <1>1 DEF ExecutedOnce
  <1>8. ASSUME NEW d \in Call, NEW r \in Request, NEW y \in Receipt, <<d, r, y>> \in replies'
        PROVE  receipt'[d] = {y} /\ intent'[d] = r
    <2>1. CASE <<d, r, y>> \in replies
      <3>1. receipt[d] = {y} /\ intent[d] = r
        BY <1>1, <2>1 DEF RepliesAgree
      <3>2. d # c
        BY <1>2, <3>1
      <3> QED
        BY <1>5, <3>1, <3>2
    <2>2. CASE <<d, r, y>> \notin replies
      <3>1. /\ receipt' = [receipt EXCEPT ![c] = {x}]
            /\ d = c /\ r = request[c] /\ y = x
        BY <1>3, <1>8, <2>2
      <3> QED
        BY <1>1, <1>2, <3>1 DEF TypeOK
    <2> QED
      BY <2>1, <2>2
  <1>9. ASSUME NEW d \in Call, NEW y \in receipt'[d]
        PROVE  /\ y.terminal = "completed" => d \in succeeded'
               /\ y.at # "execute" => started'[d] = << >>
    <2>1. CASE d = c
      BY <1>5, <1>9, <2>1
    <2>2. CASE d # c
      BY <1>1, <1>5, <1>9, <2>2 DEF ReceiptsAreTrue
    <2> QED
      BY <2>1, <2>2
  <1> QED
    BY <1>4, <1>6, <1>7, <1>8, <1>9
    DEF JournalInvariant, CallsAreIdempotent, RepliesAgree, ReceiptsAreTrue

LEMMA InvariantParts ==
    ASSUME InvocationInvariant
    PROVE  /\ TypeOK /\ MutationsTypeOK /\ QueuesAreServed /\ TargetsAreFresh
           /\ ArbiterInvariant /\ JournalInvariant /\ CallsAreIdempotent /\ ReceiptsAreTrue
           /\ \A d \in Call : StagesFit(d)
  BY DEF InvocationInvariant, ArbiterInvariant, JournalInvariant

(* A stage lets a call pass, or is where it ends: it has no entry yet. *)
LEMMA PassKeeps ==
    ASSUME InvocationInvariant, NEW c \in Call, Pass(c)
    PROVE  InvocationInvariant'
  <1>1. /\ TypeOK /\ \A d \in Call : StagesFit(d)
        /\ UNCHANGED <<mutationVars, journalVars, request, replies, started, succeeded, asked, faults>>
    BY InvariantParts DEF Pass
  <1>2. /\ UNCHANGED <<phase, baseline, current, queues, closed, aborted, answer, written>>
        /\ UNCHANGED <<intent, receipt, over, request, replies, started, succeeded, asked, faults>>
    BY <1>1 DEF mutationVars, journalVars
  <1>3. ArbiterInvariant'
    BY <1>1, <1>2, OtherwiseKept, InvariantParts DEF MutationsTypeOK
  <1>4. PICK s \in {"approval", "sandbox"} : pc' = [pc EXCEPT ![c] = s] /\ pc[c] \in {"policy", "approval"}
    BY DEF Pass
  <1>5. /\ pc' \in [Call -> Stage] /\ pc'[c] = s /\ \A d \in Call : d # c => pc'[d] = pc[d]
    BY <1>1, <1>4 DEF TypeOK, Stage
  <1>6. TypeOK'
    BY <1>1, <1>2, <1>3, <1>5 DEF TypeOK, ArbiterInvariant
  <1>7. ASSUME NEW d \in Call
        PROVE  /\ pc'[d] = "idle" <=> pc[d] = "idle"
               /\ phase'[d] # "none" => pc'[d] = "executing"
               /\ pc'[d] \in Gates \/ phase'[d] \in Waits => started'[d] = << >>
               /\ started'[d] = started[d]
               /\ answer'[d] = "success" => d \in succeeded'
    BY <1>1, <1>2, <1>4, <1>5 DEF StagesFit, Gates
  <1>8. JournalInvariant'
    BY <1>2, <1>6, <1>7, FlightKeepsJournal, InvariantParts
  <1> QED
    BY <1>3, <1>8 DEF InvocationInvariant

LEMMA RefusalKeeps ==
    ASSUME InvocationInvariant, NEW c \in Call, FailClosed(c) \/ NotExecuted(c)
    PROVE  InvocationInvariant'
  <1>1. /\ TypeOK /\ \A d \in Call : StagesFit(d)
        /\ aborted' = aborted \ {c}
        /\ UNCHANGED <<phase, baseline, current, queues, closed, answer, written,
                       intent, over, started, succeeded, asked>>
        /\ pc[c] \in {"policy", "approval", "sandbox"}
    BY InvariantParts DEF FailClosed, NotExecuted
  <1>2. phase[c] = "none" /\ started[c] = << >>
    BY <1>1 DEF StagesFit
  <1>3. PICK x \in Receipt : CommitTerminal(c, x) /\ x.terminal # "completed"
    <2>1. CASE FailClosed(c)
      BY <2>1 DEF FailClosed, Ended, Receipt
    <2>2. CASE NotExecuted(c)
      BY <2>2 DEF NotExecuted, Ended, Receipt
    <2> QED
      BY <2>1, <2>2
  <1>4. ArbiterInvariant'
    BY <1>1, OtherwiseKept, InvariantParts DEF MutationsTypeOK
  <1>5. JournalInvariant'
    BY <1>1, <1>2, <1>3, <1>4, CommitKeepsJournal, InvariantParts DEF ArbiterInvariant
  <1> QED
    BY <1>4, <1>5 DEF InvocationInvariant

(* What the tool answered decides the receipt. *)
LEMMA ExecutedKeeps ==
    ASSUME InvocationInvariant, NEW c \in Call, Executed(c)
    PROVE  InvocationInvariant'
  <1>1. /\ TypeOK /\ \A d \in Call : StagesFit(d)
        /\ aborted' = aborted \ {c} /\ answer' = [answer EXCEPT ![c] = "pending"]
        /\ UNCHANGED <<phase, baseline, current, queues, closed, written,
                       intent, over, started, succeeded, asked>>
        /\ pc[c] = "executing" /\ phase[c] = "none"
        /\ CommitTerminal(c, Ended(Terminal(c), "execute"))
    BY InvariantParts DEF Executed
  <1> DEFINE x == Ended(Terminal(c), "execute")
  <1>2. x \in Receipt /\ x.at = "execute" /\ (x.terminal = "completed" => c \in succeeded)
    BY <1>1 DEF Ended, Receipt, Terminal, StagesFit
  <1>3. /\ answer' \in [Call -> Answer]
        /\ \A d \in Call : answer'[d] \in {answer[d], "pending"}
    BY <1>1, InvariantParts DEF MutationsTypeOK, Answer
  <1>4. ArbiterInvariant'
    BY <1>1, <1>3, OtherwiseKept, InvariantParts DEF MutationsTypeOK
  <1> HIDE DEF x
  <1>5. JournalInvariant'
    BY <1>1, <1>2, <1>3, <1>4, CommitKeepsJournal, InvariantParts DEF ArbiterInvariant, x
  <1> QED
    BY <1>4, <1>5 DEF InvocationInvariant

LEMMA StopKeeps ==
    ASSUME InvocationInvariant, NEW c \in Call, Stop(c)
    PROVE  InvocationInvariant'
  <1>1. /\ TypeOK /\ \A d \in Call : StagesFit(d)
        /\ aborted' = aborted \cup {c} /\ faults.stops > 0
        /\ faults' = [faults EXCEPT !.stops = @ - 1]
        /\ UNCHANGED <<phase, baseline, current, queues, closed, answer, written>>
        /\ UNCHANGED <<intent, receipt, over, pc, request, replies, started, succeeded, asked>>
    BY InvariantParts DEF Stop, Abort, journalVars
  <1>2. ArbiterInvariant'
    BY <1>1, OtherwiseKept, InvariantParts DEF MutationsTypeOK
  <1>3. TypeOK'
    <2>1. faults' \in Faults
      BY <1>1, FaultsAreSpent DEF TypeOK
    <2> QED
      BY <1>1, <1>2, <2>1 DEF TypeOK, ArbiterInvariant
  <1>4. ASSUME NEW d \in Call
        PROVE  /\ phase'[d] # "none" => pc'[d] = "executing"
               /\ pc'[d] \in Gates \/ phase'[d] \in Waits => started'[d] = << >>
               /\ answer'[d] = "success" => d \in succeeded'
    BY <1>1 DEF StagesFit, Gates
  <1>5. JournalInvariant'
    BY <1>1, <1>3, <1>4, FlightKeepsJournal, InvariantParts
  <1> QED
    BY <1>2, <1>5 DEF InvocationInvariant

LEMMA EndTurnKeeps ==
    ASSUME InvocationInvariant, NEW c \in Call, EndTurn(c)
    PROVE  InvocationInvariant'
  <1>1. /\ TypeOK /\ \A d \in Call : StagesFit(d)
        /\ over' = over \cup {c}
        /\ UNCHANGED <<phase, baseline, current, queues, closed, aborted, answer, written>>
        /\ UNCHANGED <<intent, receipt, pc, request, replies, started, succeeded, asked, faults>>
    BY InvariantParts DEF EndTurn, mutationVars
  <1>2. ArbiterInvariant'
    BY <1>1, OtherwiseKept, InvariantParts DEF MutationsTypeOK
  <1>3. TypeOK'
    BY <1>1, <1>2 DEF TypeOK, ArbiterInvariant
  <1>4. ASSUME NEW d \in Call
        PROVE  /\ phase'[d] # "none" => pc'[d] = "executing"
               /\ pc'[d] \in Gates \/ phase'[d] \in Waits => started'[d] = << >>
               /\ answer'[d] = "success" => d \in succeeded'
    BY <1>1 DEF StagesFit, Gates
  <1>5. JournalInvariant'
    BY <1>1, <1>3, <1>4, FlightKeepsJournal, InvariantParts
  <1> QED
    BY <1>2, <1>5 DEF InvocationInvariant

(* A step of the arbiter or of a tool brings no call back to where it      *)
(* waits; what begins its operation in it had been waiting.                *)
LEMMA MovesKeepJournal ==
    ASSUME InvocationInvariant, ArbiterInvariant', NEW c \in Call, phase[c] # "none",
           UNCHANGED <<journalVars, pc, request, replies, asked, faults>>,
           succeeded' \in {succeeded, succeeded \cup {c}},
           \A d \in Call :
               /\ phase'[d] # "none" => phase[d] # "none"
               /\ phase'[d] \in Waits => phase[d] \in Waits
               /\ answer'[d] = "success" => answer[d] = "success" \/ d \in succeeded',
           \/ started' = started
           \/ /\ started' = [started EXCEPT ![c] = Append(@, request[c])]
              /\ phase[c] \in Waits /\ phase'[c] = "operating"
    PROVE  InvocationInvariant'
  <1>1. /\ TypeOK /\ \A d \in Call : StagesFit(d)
        /\ UNCHANGED <<intent, receipt, over, pc, request, replies, asked, faults>>
    BY InvariantParts DEF journalVars
  <1>2. /\ pc[c] = "executing" /\ request[c] \in Request
    BY <1>1, RepliesAreTyped DEF StagesFit
  <1>3. ASSUME NEW d \in Call
        PROVE  /\ started'[d] = started[d] \/ (d = c /\ phase[c] \in Waits /\ phase'[c] = "operating"
                                                /\ started'[d] = <<request[d]>>)
               /\ started'[d] \in Seq(Request)
    <2>1. CASE started' = started
      BY <1>1, <2>1 DEF TypeOK
    <2>2. CASE /\ started' = [started EXCEPT ![c] = Append(@, request[c])]
               /\ phase[c] \in Waits /\ phase'[c] = "operating"
      <3>1. started[c] = << >>
        BY <1>1, <2>2 DEF StagesFit
      <3>2. Append(started[c], request[c]) = <<request[c]>>
        BY <3>1
      <3>3. started'[c] = <<request[c]>> /\ (d # c => started'[d] = started[d])
        BY <1>1, <2>2, <3>2 DEF TypeOK
      <3> QED
        BY <1>1, <1>2, <2>2, <3>3 DEF TypeOK
    <2> QED
      BY <2>1, <2>2
  <1>4. TypeOK'
    <2>1. started' \in [Call -> Seq(Request)]
      <3>1. DOMAIN started' = Call /\ started' = [d \in Call |-> started'[d]]
        BY <1>1 DEF TypeOK
      <3> QED
        BY <1>3, <3>1
    <2> QED
      BY <1>1, <2>1 DEF TypeOK, ArbiterInvariant
  <1>5. ASSUME NEW d \in Call
        PROVE  /\ phase'[d] # "none" => pc'[d] = "executing"
               /\ pc'[d] \in Gates \/ phase'[d] \in Waits => started'[d] = << >>
               /\ started'[d] = started[d] \/ (pc[d] # "idle" /\ started'[d] = <<request[d]>>)
               /\ answer'[d] = "success" => d \in succeeded'
    <2>1. /\ phase'[d] # "none" => pc'[d] = "executing"
          /\ answer'[d] = "success" => d \in succeeded'
      BY <1>1 DEF StagesFit
    <2>2. CASE started'[d] = started[d]
      BY <1>1, <2>1, <2>2 DEF StagesFit, Gates
    <2>3. CASE started'[d] # started[d]
      BY <1>1, <1>2, <1>3, <2>1, <2>3 DEF Gates, Waits
    <2> QED
      BY <2>2, <2>3
  <1>6. JournalInvariant'
    BY <1>1, <1>4, <1>5, FlightKeepsJournal, InvariantParts
  <1> QED
    BY <1>6 DEF InvocationInvariant

LEMMA ArbitrateKeeps ==
    ASSUME InvocationInvariant, NEW c \in Call, Arbitrate(c)
    PROVE  InvocationInvariant'
  <1>1. /\ TypeOK /\ MutationsTypeOK /\ QueuesAreServed /\ ArbiterInvariant
        /\ started' = Started(c)
        /\ UNCHANGED <<journalVars, pc, request, replies, succeeded, asked, faults>>
    BY InvariantParts DEF Arbitrate
  <1> SUFFICES /\ ArbiterInvariant'
               /\ phase[c] \in Waits
               /\ \A d \in Call :
                     /\ phase'[d] # "none" => phase[d] # "none"
                     /\ phase'[d] \in Waits => phase[d] \in Waits
                     /\ answer'[d] = "success" => answer[d] = "success"
    BY <1>1, MovesKeepJournal DEF Started, Waits
  <1>2. CASE CaptureBaseline(c)
    <2>1. c \in Arbitrated
      BY <1>1, <1>2 DEF CaptureBaseline, QueuesAreServed
    <2>2. ArbiterInvariant'
      BY <1>1, <1>2, <2>1, PrepareKeeps
    <2> QED
      BY <1>1, <1>2, <2>2 DEF CaptureBaseline, MutationsTypeOK, Waits
  <1>3. CASE Admit(c)
    <2>1. ArbiterInvariant'
      BY <1>1, <1>3, AdmitKeeps
    <2>2. CASE Settled(c, "rejected")
      BY <1>1, <1>3, <2>1, <2>2, SettledIsTyped DEF Admit, Waits, Answer
    <2>3. CASE /\ phase' = [phase EXCEPT ![c] = IF queues[workspaceOf[c]] = << >>
                                               THEN "running" ELSE "queued"]
               /\ answer' = answer
      BY <1>1, <1>3, <2>1, <2>3 DEF Admit, Waits, MutationsTypeOK
    <2> QED
      BY <1>3, <2>2, <2>3 DEF Admit
  <1>4. CASE ReadRevision(c)
    <2>1. ArbiterInvariant'
      BY <1>1, <1>4, ReadRevisionKeeps
    <2> QED
      BY <1>1, <1>4, <2>1 DEF ReadRevision, MutationsTypeOK, Waits
  <1>5. CASE StartOperation(c)
    <2>1. ArbiterInvariant' /\ phase[c] = "compared" /\ c \in Arbitrated
      BY <1>1, <1>5, StartOperationKeeps DEF StartOperation, QueuesAreServed
    <2>2. CASE FinishHead(c, "rejected")
      <3>1. /\ phase'[c] = "none" /\ answer'[c] = "rejected"
            /\ \A d \in Call : d # c =>
                 /\ phase'[d] = phase[d] \/ (phase[d] = "queued" /\ phase'[d] \in {"none", "running"})
                 /\ answer'[d] \in {answer[d], "rejected"}
        BY <1>1, <1>5, <2>1, <2>2, FinishHeadKeeps DEF StartOperation, Runs, Answer
      <3> QED
        BY <2>1, <3>1 DEF Waits
    <2>3. CASE phase' = [phase EXCEPT ![c] = "operating"] /\ answer' = answer
      BY <1>1, <2>1, <2>3 DEF MutationsTypeOK, Waits
    <2> QED
      BY <1>5, <2>2, <2>3 DEF StartOperation
  <1> QED
    BY <1>2, <1>3, <1>4, <1>5 DEF Arbitrate

LEMMA OperateKeeps ==
    ASSUME InvocationInvariant, NEW c \in Call, Operate(c)
    PROVE  InvocationInvariant'
  <1>1. PICK f \in File : WriteFile(c, f)
    BY DEF Operate
  <1>2. UNCHANGED <<journalVars, pc, request, replies, started, succeeded, asked, faults>>
    BY DEF Operate, gatewayVars
  <1>3. ArbiterInvariant'
    BY <1>1, WriteKeeps, InvariantParts
  <1>4. phase[c] = "operating" /\ UNCHANGED <<phase, answer>>
    BY <1>1 DEF WriteFile
  <1> QED
    BY <1>2, <1>3, <1>4, MovesKeepJournal

LEMMA FinishKeeps ==
    ASSUME InvocationInvariant, NEW c \in Call, Finish(c)
    PROVE  InvocationInvariant'
  <1>1. /\ TypeOK /\ MutationsTypeOK /\ QueuesAreServed /\ ArbiterInvariant
        /\ phase[c] = "operating"
        /\ UNCHANGED <<journalVars, pc, request, replies, started, asked, faults>>
    BY InvariantParts DEF Finish
  <1>2. PICK a \in {"success", "failure", "rejected"} :
          /\ IF c \in Arbitrated
             THEN FinishOperation(c, a)
             ELSE Settled(c, a) /\ UNCHANGED <<queues, closed, aborted, written>>
          /\ succeeded' = IF a = "success" THEN succeeded \cup {c} ELSE succeeded
    BY DEF Finish
  <1>3. a \in Answer
    BY DEF Answer
  <1> SUFFICES /\ ArbiterInvariant'
               /\ \A d \in Call :
                     /\ phase'[d] # "none" => phase[d] # "none"
                     /\ phase'[d] \in Waits => phase[d] \in Waits
                     /\ answer'[d] = "success" => answer[d] = "success" \/ d \in succeeded'
    BY <1>1, <1>2, MovesKeepJournal
  <1>4. CASE c \in Arbitrated
    <2>1. FinishHead(c, a) /\ UNCHANGED <<closed, aborted, written>> /\ phase[c] \in Runs
      BY <1>1, <1>2, <1>4 DEF FinishOperation, Runs
    <2>2. /\ ArbiterInvariant'
          /\ phase'[c] = "none" /\ answer'[c] = a
          /\ \A d \in Call : d # c =>
                /\ phase'[d] = phase[d] \/ (phase[d] = "queued" /\ phase'[d] \in {"none", "running"})
                /\ answer'[d] \in {answer[d], "rejected"}
      BY <1>1, <1>3, <1>4, <2>1, FinishHeadKeeps
    <2> QED
      BY <1>2, <2>2 DEF Waits
  <1>5. CASE c \notin Arbitrated
    <2>1. Settled(c, a) /\ UNCHANGED <<queues, closed, aborted, written>>
      BY <1>2, <1>5
    <2>2. /\ phase' = [phase EXCEPT ![c] = "none"]
          /\ answer' \in [Call -> Answer] /\ phase'[c] = "none" /\ answer'[c] = a
          /\ \A d \in Call : d # c => phase'[d] = phase[d] /\ answer'[d] = answer[d]
      BY <1>1, <1>3, <2>1, SettledIsTyped DEF Settled
    <2>3. ArbiterInvariant'
      BY <1>1, <1>5, <2>1, <2>2, DirectKeeps
    <2> QED
      BY <1>2, <2>2, <2>3 DEF Waits
  <1> QED
    BY <1>4, <1>5

LEMMA CloseArbiterKeeps ==
    ASSUME InvocationInvariant, CloseArbiter
    PROVE  InvocationInvariant'
  <1>1. /\ TypeOK /\ \A d \in Call : StagesFit(d)
        /\ UNCHANGED <<intent, receipt, over, pc, request, replies, started, succeeded, asked, faults>>
    BY InvariantParts DEF CloseArbiter, gatewayVars, journalVars
  <1>2. /\ ArbiterInvariant'
        /\ \A d \in Call :
              /\ phase'[d] = phase[d] \/ (phase[d] = "queued" /\ phase'[d] = "none")
              /\ answer'[d] \in {answer[d], "rejected"}
    BY CloseKeeps, InvariantParts DEF CloseArbiter
  <1>3. TypeOK'
    BY <1>1, <1>2 DEF TypeOK, ArbiterInvariant
  <1>4. ASSUME NEW d \in Call
        PROVE  /\ phase'[d] # "none" => pc'[d] = "executing"
               /\ pc'[d] \in Gates \/ phase'[d] \in Waits => started'[d] = << >>
               /\ answer'[d] = "success" => d \in succeeded'
    BY <1>1, <1>2 DEF StagesFit, Gates, Waits
  <1>5. JournalInvariant'
    BY <1>1, <1>3, <1>4, FlightKeepsJournal, InvariantParts
  <1> QED
    BY <1>2, <1>5 DEF InvocationInvariant

(* A call is handed to its tool, or to the arbiter, once: until now it has *)
(* begun nothing.                                                          *)
LEMMA ExecuteKeeps ==
    ASSUME InvocationInvariant, NEW c \in Call, Execute(c)
    PROVE  InvocationInvariant'
  <1>1. /\ TypeOK /\ MutationsTypeOK /\ ArbiterInvariant /\ \A d \in Call : StagesFit(d)
        /\ pc[c] = "sandbox" /\ pc' = [pc EXCEPT ![c] = "executing"]
        /\ started' = Started(c)
        /\ UNCHANGED <<intent, receipt, over, request, replies, succeeded, asked, faults>>
    BY InvariantParts DEF Execute, journalVars
  <1>2. phase[c] = "none" /\ started[c] = << >> /\ request[c] \in Request
    BY <1>1, RepliesAreTyped DEF StagesFit
  <1>3. /\ pc' \in [Call -> Stage] /\ pc'[c] = "executing"
        /\ \A d \in Call : d # c => pc'[d] = pc[d]
    BY <1>1 DEF TypeOK, Stage
  <1>4. /\ ArbiterInvariant' /\ phase'[c] \in {"none", "preparing", "operating"}
        /\ \A d \in Call : d # c => phase'[d] = phase[d]
        /\ \A d \in Call : answer'[d] = "success" => answer[d] = "success"
    <2>1. CASE c \in Arbitrated
      <3>1. RunMutation(c) /\ ArbiterInvariant'
        BY <1>1, <2>1, PrepareKeeps DEF Execute
      <3>2. CASE closed
        <4>1. Settled(c, "rejected") /\ "rejected" \in Answer
          BY <3>1, <3>2 DEF RunMutation, Answer
        <4> QED
          BY <1>1, <3>1, <4>1, SettledIsTyped
      <3>3. CASE ~ closed
        BY <1>1, <3>1, <3>3 DEF RunMutation, MutationsTypeOK
      <3> QED
        BY <3>2, <3>3
    <2>2. CASE c \notin Arbitrated
      <3>1. /\ phase' = [phase EXCEPT ![c] = "operating"]
            /\ answer' = [answer EXCEPT ![c] = "pending"]
            /\ UNCHANGED <<baseline, current, queues, closed, aborted, written>>
        BY <2>2 DEF Execute
      <3>2. answer' \in [Call -> Answer]
        BY <1>1, <3>1 DEF MutationsTypeOK, Answer
      <3>3. ArbiterInvariant'
        BY <1>1, <2>2, <3>1, <3>2, DirectKeeps
      <3> QED
        BY <1>1, <3>1, <3>3 DEF MutationsTypeOK
    <2> QED
      BY <2>1, <2>2
  <1>5. /\ started' \in [Call -> Seq(Request)]
        /\ \A d \in Call : d # c => started'[d] = started[d]
        /\ \/ started'[c] = << >>
           \/ phase'[c] = "operating" /\ started'[c] = <<request[c]>>
    <2>1. Append(started[c], request[c]) = <<request[c]>> /\ <<request[c]>> \in Seq(Request)
      BY <1>2
    <2>2. CASE phase'[c] = "operating"
      BY <1>1, <2>1, <2>2 DEF Started, TypeOK
    <2>3. CASE phase'[c] # "operating"
      BY <1>1, <1>2, <2>3 DEF Started, TypeOK
    <2> QED
      BY <2>2, <2>3
  <1>6. TypeOK'
    BY <1>1, <1>3, <1>4, <1>5 DEF TypeOK, ArbiterInvariant
  <1>7. ASSUME NEW d \in Call
        PROVE  /\ pc'[d] = "idle" <=> pc[d] = "idle"
               /\ phase'[d] # "none" => pc'[d] = "executing"
               /\ pc'[d] \in Gates \/ phase'[d] \in Waits => started'[d] = << >>
               /\ started'[d] = started[d] \/ (pc[d] # "idle" /\ started'[d] = <<request[d]>>)
               /\ answer'[d] = "success" => d \in succeeded'
    <2>1. CASE d = c
      BY <1>1, <1>2, <1>3, <1>4, <1>5, <2>1 DEF StagesFit, Gates, Waits
    <2>2. CASE d # c
      BY <1>1, <1>3, <1>4, <1>5, <2>2 DEF StagesFit, Gates
    <2> QED
      BY <2>1, <2>2
  <1>8. JournalInvariant'
    BY <1>1, <1>6, <1>7, FlightKeepsJournal, InvariantParts
  <1> QED
    BY <1>4, <1>8 DEF InvocationInvariant

(* A new intent is durable before anything is in flight; an ID that has    *)
(* one is answered with its receipt, if at all.                            *)
LEMMA InvokeKeeps ==
    ASSUME InvocationInvariant, NEW c \in Call, NEW r \in Request, Invoke(c, r)
    PROVE  InvocationInvariant'
  <1>1. /\ TypeOK /\ ExecutedOnce /\ RepliesAgree /\ ReceiptsAreTrue
        /\ \A d \in Call : StagesFit(d)
        /\ pc[c] = "idle" /\ request[c] = NoRequest /\ phase[c] = "none"
    BY InvariantParts DEF Invoke, CallsAreIdempotent, StagesFit
  <1>2. /\ UNCHANGED <<phase, baseline, current, queues, closed, aborted, answer, written>>
        /\ UNCHANGED <<receipt, over, started, succeeded>>
        /\ asked[c] # << >> /\ asked' = [asked EXCEPT ![c] = Tail(@)]
    BY DEF Invoke, mutationVars
  <1>3. ArbiterInvariant'
    BY <1>1, <1>2, OtherwiseKept, InvariantParts DEF MutationsTypeOK
  <1>4. asked' \in [Call -> Seq(Request)]
    <2>1. asked[c] \in Seq(Request)
      BY <1>1 DEF TypeOK
    <2>2. Tail(asked[c]) \in Seq(Request)
      BY <1>2, <2>1, HeadTailProperties
    <2> QED
      BY <1>1, <1>2, <2>2 DEF TypeOK
  <1>5. CASE intent[c] = NoRequest
    <2>1. started[c] = << >> /\ receipt[c] = {} /\ r # NoRequest
      BY <1>5, NothingBegunWithoutIntent, NoRequestAssumption, InvariantParts
    <2>2. /\ replies' = replies /\ faults' \in Faults
          /\ \/ /\ intent' = [intent EXCEPT ![c] = r]
                /\ pc' = [pc EXCEPT ![c] = "policy"] /\ request' = [request EXCEPT ![c] = r]
             \/ intent' \in {intent, [intent EXCEPT ![c] = r]} /\ pc' = pc /\ request' = request
      BY <1>1, <1>5, FaultsAreSpent DEF Invoke, Begin, TypeOK
    <2>3. /\ intent' \in [Call -> Request \cup {NoRequest}] /\ pc' \in [Call -> Stage]
          /\ request' \in [Call -> Request \cup {NoRequest}]
          /\ \A d \in Call : d # c =>
                intent'[d] = intent[d] /\ pc'[d] = pc[d] /\ request'[d] = request[d]
          /\ \/ pc'[c] = "policy" /\ request'[c] = r /\ intent'[c] = r
             \/ pc'[c] = "idle" /\ request'[c] = NoRequest
      <3>1. /\ intent \in [Call -> Request \cup {NoRequest}] /\ pc \in [Call -> Stage]
            /\ request \in [Call -> Request \cup {NoRequest}]
        BY <1>1 DEF TypeOK
      <3>2. /\ [intent EXCEPT ![c] = r] \in [Call -> Request \cup {NoRequest}]
            /\ [request EXCEPT ![c] = r] \in [Call -> Request \cup {NoRequest}]
            /\ [pc EXCEPT ![c] = "policy"] \in [Call -> Stage]
        BY <3>1 DEF Stage
      <3>3. CASE /\ intent' = [intent EXCEPT ![c] = r]
                 /\ pc' = [pc EXCEPT ![c] = "policy"] /\ request' = [request EXCEPT ![c] = r]
        BY <3>1, <3>2, <3>3
      <3>4. CASE intent' \in {intent, [intent EXCEPT ![c] = r]} /\ pc' = pc /\ request' = request
        BY <1>1, <3>1, <3>2, <3>4
      <3> QED
        BY <2>2, <3>3, <3>4
    <2>4. TypeOK'
      BY <1>1, <1>2, <1>3, <1>4, <2>2, <2>3 DEF TypeOK, ArbiterInvariant
    <2>5. ASSUME NEW d \in Call
          PROVE  StagesFit(d)'
      <3>1. CASE d = c
        BY <1>1, <1>2, <2>1, <2>3, <3>1 DEF StagesFit, Waits
      <3>2. CASE d # c
        BY <1>1, <1>2, <2>3, <3>2 DEF StagesFit
      <3> QED
        BY <3>1, <3>2
    <2>6. ExecutedOnce'
      BY <1>1, <1>2, <2>1, <2>3 DEF ExecutedOnce
    <2>7. ASSUME NEW d \in Call, NEW s \in Request, NEW x \in Receipt, <<d, s, x>> \in replies'
          PROVE  receipt'[d] = {x} /\ intent'[d] = s
      <3>1. receipt[d] = {x} /\ intent[d] = s
        BY <1>1, <2>2, <2>7 DEF RepliesAgree
      <3>2. d # c
        BY <2>1, <3>1
      <3> QED
        BY <1>2, <2>3, <3>1, <3>2
    <2>8. ReceiptsAreTrue'
      BY <1>1, <1>2 DEF ReceiptsAreTrue
    <2> QED
      BY <1>3, <2>4, <2>5, <2>6, <2>7, <2>8
      DEF InvocationInvariant, JournalInvariant, CallsAreIdempotent, RepliesAgree
  <1>6. CASE intent[c] # NoRequest
    <2>1. /\ replies' = replies \cup {<<c, r, x>> : x \in Replayed(c, r)}
          /\ UNCHANGED <<intent, pc, request, faults>>
      BY <1>6 DEF Invoke
    <2>2. \A x \in Replayed(c, r) : x \in Receipt /\ receipt[c] = {x} /\ intent[c] = r
      BY <1>1, RepliesAreTyped DEF Replayed, StagesFit
    <2>3. TypeOK'
      <3>1. replies' \subseteq Call \X Request \X Receipt
        BY <1>1, <2>1, <2>2 DEF TypeOK
      <3> QED
        BY <1>1, <1>2, <1>3, <1>4, <2>1, <3>1 DEF TypeOK, ArbiterInvariant
    <2>4. ASSUME NEW d \in Call
          PROVE  StagesFit(d)'
      BY <1>1, <1>2, <2>1 DEF StagesFit
    <2>5. ExecutedOnce' /\ ReceiptsAreTrue'
      BY <1>1, <1>2, <2>1 DEF ExecutedOnce, ReceiptsAreTrue
    <2>6. ASSUME NEW d \in Call, NEW s \in Request, NEW x \in Receipt, <<d, s, x>> \in replies'
          PROVE  receipt'[d] = {x} /\ intent'[d] = s
      <3>1. CASE <<d, s, x>> \in replies
        BY <1>1, <1>2, <2>1, <3>1 DEF RepliesAgree
      <3>2. CASE <<d, s, x>> \notin replies
        <4>1. d = c /\ s = r /\ x \in Replayed(c, r)
          BY <2>1, <2>6, <3>2
        <4> QED
          BY <1>2, <2>1, <2>2, <4>1
      <3> QED
        BY <3>1, <3>2
    <2> QED
      BY <1>3, <2>3, <2>4, <2>5, <2>6
      DEF InvocationInvariant, JournalInvariant, CallsAreIdempotent, RepliesAgree
  <1> QED
    BY <1>5, <1>6

(* A crash takes what is in flight; the journal says what has been done. *)
LEMMA CrashKeeps ==
    ASSUME InvocationInvariant, Crash
    PROVE  InvocationInvariant'
  <1>1. /\ TypeOK /\ ExecutedOnce /\ RepliesAgree /\ ReceiptsAreTrue
        /\ \A d \in Call : StagesFit(d)
    BY InvariantParts DEF CallsAreIdempotent
  <1>2. /\ phase' = [c \in Call |-> "none"] /\ answer' = [c \in Call |-> "pending"]
        /\ pc' = [c \in Call |-> "idle"] /\ request' = [c \in Call |-> NoRequest]
        /\ over' = over \cup {c \in Call : pc[c] # "idle" \/ intent[c] # NoRequest}
        /\ faults.crashes > 0 /\ faults' = [faults EXCEPT !.crashes = @ - 1]
        /\ UNCHANGED <<intent, receipt, replies, started, succeeded, asked>>
    BY DEF Crash
  <1>3. ArbiterInvariant'
    BY CrashClears, InvariantParts
  <1>4. TypeOK'
    <2>1. faults' \in Faults
      BY <1>1, <1>2, FaultsAreSpent DEF TypeOK
    <2> QED
      BY <1>1, <1>2, <1>3, <2>1 DEF TypeOK, ArbiterInvariant, Stage
  <1>5. ASSUME NEW d \in Call
        PROVE  StagesFit(d)'
    BY <1>1, <1>2 DEF StagesFit, Waits
  <1>6. ExecutedOnce' /\ RepliesAgree' /\ ReceiptsAreTrue'
    BY <1>1, <1>2 DEF ExecutedOnce, RepliesAgree, ReceiptsAreTrue
  <1> QED
    BY <1>3, <1>4, <1>5, <1>6 DEF InvocationInvariant, JournalInvariant, CallsAreIdempotent

LEMMA InitFits == Init => InvocationInvariant
  <1> SUFFICES ASSUME Init PROVE InvocationInvariant
    OBVIOUS
  <1>1. PICK b \in Budgets : asked = b.asked /\ faults = b.faults
    BY DEF Init
  <1>2. asked \in [Call -> Seq(Request)] /\ faults \in Faults
    BY <1>1, BudgetsAssumption
  <1>3. MutationsTypeOK
    <2>1. << >> \in Seq(Call)
      BY EmptySeq
    <2> QED
      BY <2>1 DEF Init, MutationsInit, MutationsTypeOK, Phase, Answer
  <1>4. QueuesAreServed
    BY DEF Init, MutationsInit, QueuesAreServed
  <1>5. TargetsAreFresh
    BY TrackedAssumption DEF Init, MutationsInit, TargetsAreFresh
  <1>6. TypeOK
    <2>1. << >> \in Seq(Request)
      BY EmptySeq
    <2> QED
      BY <1>2, <1>3, <2>1 DEF Init, TypeOK, Stage
  <1>7. ASSUME NEW d \in Call
        PROVE  StagesFit(d)
    BY DEF Init, MutationsInit, StagesFit, Waits
  <1>8. CallsAreIdempotent /\ ReceiptsAreTrue
    BY DEF Init, CallsAreIdempotent, ExecutedOnce, RepliesAgree, ReceiptsAreTrue
  <1> QED
    BY <1>3, <1>4, <1>5, <1>6, <1>7, <1>8
    DEF InvocationInvariant, ArbiterInvariant, JournalInvariant

LEMMA StepFits == InvocationInvariant /\ [Next]_vars => InvocationInvariant'
  <1> SUFFICES ASSUME InvocationInvariant, [Next]_vars PROVE InvocationInvariant'
    OBVIOUS
  <1>1. ASSUME NEW c \in Call, NEW r \in Request, Invoke(c, r) PROVE InvocationInvariant'
    BY <1>1, InvokeKeeps
  <1>2. ASSUME NEW c \in Call, Pass(c) PROVE InvocationInvariant'
    BY <1>2, PassKeeps
  <1>3. ASSUME NEW c \in Call, FailClosed(c) PROVE InvocationInvariant'
    BY <1>3, RefusalKeeps
  <1>4. ASSUME NEW c \in Call, NotExecuted(c) PROVE InvocationInvariant'
    BY <1>4, RefusalKeeps
  <1>5. ASSUME NEW c \in Call, Execute(c) PROVE InvocationInvariant'
    BY <1>5, ExecuteKeeps
  <1>6. ASSUME NEW c \in Call, Arbitrate(c) PROVE InvocationInvariant'
    BY <1>6, ArbitrateKeeps
  <1>7. ASSUME NEW c \in Call, Operate(c) PROVE InvocationInvariant'
    BY <1>7, OperateKeeps
  <1>8. ASSUME NEW c \in Call, Finish(c) PROVE InvocationInvariant'
    BY <1>8, FinishKeeps
  <1>9. ASSUME NEW c \in Call, Executed(c) PROVE InvocationInvariant'
    BY <1>9, ExecutedKeeps
  <1>10. ASSUME NEW c \in Call, Stop(c) PROVE InvocationInvariant'
    BY <1>10, StopKeeps
  <1>11. ASSUME NEW c \in Call, EndTurn(c) PROVE InvocationInvariant'
    BY <1>11, EndTurnKeeps
  <1>12. ASSUME CloseArbiter PROVE InvocationInvariant'
    BY <1>12, CloseArbiterKeeps
  <1>13. ASSUME Crash PROVE InvocationInvariant'
    BY <1>13, CrashKeeps
  <1>14. ASSUME UNCHANGED vars PROVE InvocationInvariant'
    <2>1. /\ UNCHANGED <<phase, baseline, current, queues, closed, aborted, answer, written>>
          /\ UNCHANGED <<intent, receipt, over, pc, request, replies, started, succeeded, asked, faults>>
      BY <1>14 DEF vars, mutationVars, gatewayVars, journalVars
    <2>2. ArbiterInvariant'
      BY <2>1, OtherwiseKept, InvariantParts DEF MutationsTypeOK
    <2>3. TypeOK'
      BY <2>1, <2>2, InvariantParts DEF TypeOK, ArbiterInvariant
    <2>4. ASSUME NEW d \in Call
          PROVE  /\ phase'[d] # "none" => pc'[d] = "executing"
                 /\ pc'[d] \in Gates \/ phase'[d] \in Waits => started'[d] = << >>
                 /\ answer'[d] = "success" => d \in succeeded'
      BY <2>1, InvariantParts DEF StagesFit, Gates
    <2>5. JournalInvariant'
      BY <2>1, <2>3, <2>4, FlightKeepsJournal, InvariantParts
    <2> QED
      BY <2>2, <2>5 DEF InvocationInvariant
  <1> QED
    BY <1>1, <1>2, <1>3, <1>4, <1>5, <1>6, <1>7, <1>8, <1>9, <1>10, <1>11, <1>12, <1>13, <1>14
    DEF Next

(* The inductive invariant holds, whatever is retried, stopped and crashes. *)
THEOREM InvariantHolds == Spec => []InvocationInvariant
  BY InitFits, StepFits, PTL DEF Spec

(* Every variable of the gateway, its journal and the arbiter has its type. *)
THEOREM TypeCorrect == Spec => []TypeOK
  <1>1. InvocationInvariant => TypeOK
    BY InvariantParts
  <1> QED
    BY <1>1, InvariantHolds, PTL

(* An invocation ID stands for one execution, of the request whose intent  *)
(* is durable, and for one answer, the durable receipt of that request.    *)
THEOREM CallsAlwaysIdempotent == Spec => []CallsAreIdempotent
  <1>1. InvocationInvariant => CallsAreIdempotent
    BY InvariantParts
  <1> QED
    BY <1>1, InvariantHolds, PTL

(* `completed` is recorded of tools that have succeeded only, and what     *)
(* ended at a gate never began.                                            *)
THEOREM ReceiptsAlwaysTrue == Spec => []ReceiptsAreTrue
  <1>1. InvocationInvariant => ReceiptsAreTrue
    BY InvariantParts
  <1> QED
    BY <1>1, InvariantHolds, PTL

(* No edit runs on a target another call of its Workspace has written      *)
(* since the edit's baseline was read.                                     *)
THEOREM EditsAlwaysFresh == Spec => []EditsAreFresh
  <1>1. InvocationInvariant => EditsAreFresh
    BY InvariantParts DEF TargetsAreFresh, FreshSince, EditsAreFresh
  <1> QED
    BY <1>1, InvariantHolds, PTL

(* Who is between its check and its end is the head of its queue, and a    *)
(* queue is never without a head that is.                                  *)
THEOREM MutationsAlwaysSerial == Spec => []MutationsAreSerial
  <1>1. ASSUME InvocationInvariant
        PROVE  MutationsAreSerial
    <2>1. MutationsTypeOK /\ QueuesAreServed
      BY <1>1, InvariantParts
    <2>2. \A w \in Workspace : queues[w] # << >> => Head(queues[w]) = queues[w][1]
      OBVIOUS
    <2>3. ASSUME NEW c \in Arbitrated, phase[c] \in {"running", "compared", "operating"}
          PROVE  queues[workspaceOf[c]] # << >> /\ Head(queues[workspaceOf[c]]) = c
      BY <2>1, <2>2, <2>3, RunningIsHead DEF Runs
    <2>4. ASSUME NEW w \in Workspace, queues[w] # << >>
          PROVE  phase[Head(queues[w])] \in {"running", "compared", "operating"}
      <3>1. 1 \in 1 .. Len(queues[w])
        BY <2>1, <2>4, QueuesAreTyped
      <3>2. phase[queues[w][1]] \in Runs
        BY <2>1, <3>1 DEF QueuesAreServed
      <3> QED
        BY <2>2, <2>4, <3>2 DEF Runs
    <2> QED
      BY <2>3, <2>4 DEF MutationsAreSerial
  <1> QED
    BY <1>1, InvariantHolds, PTL
================================================================================
