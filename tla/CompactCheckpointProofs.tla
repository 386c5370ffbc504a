----------------------- MODULE CompactCheckpointProofs -----------------------
(***************************************************************************)
(* A compaction never loses a committed turn, and a transaction that has a *)
(* terminal never installs its checkpoint afterwards; and while one        *)
(* process at a time has the Thread, its terminals are true, its orphans   *)
(* are resolved and it can be opened again: for any number of processes,   *)
(* turns, crashes and failing writes.                                      *)
(***************************************************************************)
EXTENDS CompactCheckpoint, TLAPS

\* Where a process runs a turn of its own.
Running == {"turn", "capture", "start", "prepare", "complete", "catch", "retry", "fail", "end"}

\* Every position that is remembered is one of the log.
PositionsExist ==
  /\ lastFact <= cursor /\ committed.at <= cursor /\ state.at <= cursor
  /\ \A p \in Proc : anchor[p] <= cursor

\* The last commit has seen every commit, and so has a pointer after it.
HistoriesAreComplete ==
  /\ committed.history.covers = commits
  /\ state.turn # NoTurn /\ state.at > committed.at => state.history.covers = commits
  /\ state.turn # NoTurn => state.turn \in saved

\* No two processes run one turn.
TurnsAreOwn ==
  /\ active < next /\ \A p \in Proc : turn[p] < next
  /\ \A p \in Proc : at[p] \in Running => turn[p] # NoTurn
  /\ \A p, q \in Proc : at[p] \in Running /\ at[q] \in Running /\ turn[p] = turn[q] => p = q

\* The turn that is durably active continues the last history.
BasesAreCurrent ==
  \A p \in Proc : at[p] = "turn" /\ active = turn[p] => source[p].history.covers = commits

\* A transaction has no event before its start, and an orphan has one.
StartsComeFirst ==
  /\ \A t \in Turn : t >= next => facts[t] = <<>>
  /\ \A p \in Proc : at[p] \in {"capture", "start"} => facts[turn[p]] = <<>>
  /\ \A p \in Proc : \A t \in todo[p] : facts[t] # <<>>
  /\ \A p \in Proc : at[p] = "adopting" => turn[p] \in todo[p]

\* A transaction is open as long as nothing but follow-ups comes after its start.
AnchorsAreOpen ==
  \A p \in Proc : at[p] = "prepare" /\ lastFact <= anchor[p] => facts[turn[p]] = <<"started">>

CompactInvariant ==
  /\ TypeOK
  /\ PositionsExist
  /\ HistoriesAreComplete
  /\ TurnsAreOwn
  /\ BasesAreCurrent
  /\ StartsComeFirst
  /\ AnchorsAreOpen

-----------------------------------------------------------------------------
(* What the operators of the model return.                                 *)

LEMMA AuthorityIsComplete ==
  ASSUME TypeOK, HistoriesAreComplete
  PROVE  Authority \in History /\ Authority.covers = commits
  BY DEF TypeOK, HistoriesAreComplete, Authority, Installed

LEMMA NoneIsTyped ==
  /\ NoHistory \in History /\ NotInstalled \in Installed /\ NoSource \in Source
  /\ NoTurn \notin Turn /\ Turn \subseteq Nat
  BY BoundsAreNat
  DEF NoHistory, History, NotInstalled, Installed, NoSource, Source, NoTurn, Turn

\* An append leaves the log as it was, or ends it with one event of one turn.
LEMMA AppendAddsAnEvent ==
  ASSUME CompactInvariant, NEW o \in Outcome, NEW t \in Turn,
         NEW type \in {"started", "completed", "failed"}, AppendCompact(o, t, type)
  PROVE  /\ cursor' \in Nat /\ lastFact' \in Nat
         /\ facts' \in [Turn -> Seq({"started", "completed", "failed"})]
         /\ refusals' \in 0 .. MaxRefusals /\ late' \in 0 .. MaxLate
         /\ cursor <= cursor' /\ lastFact' <= cursor'
         /\ \A u \in Turn : u # t => facts'[u] = facts[u]
         /\ facts[t] # <<>> => facts'[t] # <<>>
         /\ \/ facts' = facts /\ lastFact' = lastFact
            \/ lastFact' = cursor + 1
         /\ Durable(o) => facts'[t] = Append(facts[t], type) /\ cursor' = cursor + 1
         /\ active' = active /\ committed' = committed /\ commits' = commits
  <1> USE DEF CompactInvariant
  <1>1. /\ cursor \in Nat /\ lastFact \in Nat /\ lastFact <= cursor
        /\ facts \in [Turn -> Seq({"started", "completed", "failed"})]
        /\ refusals \in Nat /\ late \in Nat
    BY BoundsAreNat DEF TypeOK, PositionsExist
  <1>2. refusals' \in 0 .. MaxRefusals /\ late' \in 0 .. MaxLate
    BY <1>1, BoundsAreNat DEF AppendCompact, Faults
  <1>3. /\ facts[t] \in Seq({"started", "completed", "failed"})
        /\ Append(facts[t], type) \in Seq({"started", "completed", "failed"})
        /\ Append(facts[t], type) # <<>>
    BY <1>1
  <1>4. CASE Durable(o)
    BY <1>1, <1>2, <1>3, <1>4 DEF AppendCompact
  <1>5. CASE ~Durable(o)
    BY <1>1, <1>2, <1>5 DEF AppendCompact
  <1> QED
    BY <1>4, <1>5

-----------------------------------------------------------------------------
(* Types by parts.                                                         *)

LogIsTyped ==
  /\ cursor \in Nat /\ lastFact \in Nat /\ active \in Turn \union {NoTurn}
  /\ facts \in [Turn -> Seq({"started", "completed", "failed"})]
  /\ committed \in [at : Nat, history : History] /\ commits \subseteq Turn
FilesAreTyped == saved \subseteq Turn /\ state \in Installed /\ replaced \subseteq Turn
ProcsAreTyped ==
  /\ at \in [Proc -> Place] /\ turn \in [Proc -> Turn \union {NoTurn}]
  /\ source \in [Proc -> Source] /\ anchor \in [Proc -> Nat]
  /\ todo \in [Proc -> SUBSET Turn] /\ found \in [Proc -> BOOLEAN]
CountersAreTyped ==
  /\ next \in 1 .. MaxTurns + 1 /\ shared \in BOOLEAN
  /\ notes \in 0 .. MaxNotes /\ crashes \in 0 .. MaxCrashes
  /\ refusals \in 0 .. MaxRefusals /\ late \in 0 .. MaxLate

LEMMA TypeParts ==
  TypeOK <=> LogIsTyped /\ FilesAreTyped /\ ProcsAreTyped /\ CountersAreTyped
  BY DEF TypeOK, LogIsTyped, FilesAreTyped, ProcsAreTyped, CountersAreTyped

\* The same of the next state.
LEMMA TypePartsNext ==
  LogIsTyped' /\ FilesAreTyped' /\ ProcsAreTyped' /\ CountersAreTyped' => TypeOK'
  BY DEF TypeOK, LogIsTyped, FilesAreTyped, ProcsAreTyped, CountersAreTyped

\* The positions and turns of a state are natural numbers.
LEMMA NumbersAreNat ==
  ASSUME TypeOK
  PROVE  /\ cursor \in Nat /\ lastFact \in Nat /\ committed.at \in Nat /\ state.at \in Nat
         /\ next \in Nat /\ active \in Nat /\ state.turn \in Turn \union {NoTurn}
         /\ \A p \in Proc : anchor[p] \in Nat /\ turn[p] \in Nat
         /\ \A p \in Proc : source[p].history \in History
         /\ \A t \in Turn : t \in Nat
  <1>1. Turn \subseteq Nat /\ NoTurn \in Nat
    BY BoundsAreNat DEF Turn, NoTurn
  <1>2. cursor \in Nat /\ lastFact \in Nat /\ committed.at \in Nat /\ active \in Nat
    BY <1>1 DEF TypeOK
  <1>3. state.at \in Nat /\ state.turn \in Turn \union {NoTurn}
    BY DEF TypeOK, Installed
  <1>4. next \in Nat
    BY BoundsAreNat DEF TypeOK
  <1>5. \A p \in Proc : /\ anchor[p] \in Nat /\ turn[p] \in Nat
                       /\ source[p].history \in History
    BY <1>1 DEF TypeOK, Source
  <1> QED
    BY <1>1, <1>2, <1>3, <1>4, <1>5

LEMMA OneEventIsSome == <<"started">> # <<>>
  OBVIOUS

\* Positions stay positions while the log grows.
LEMMA PositionsStay ==
  ASSUME TypeOK, PositionsExist, cursor' \in Nat, cursor <= cursor', lastFact' <= cursor',
         committed' = committed, state' = state,
         \A q \in Proc : anchor'[q] = anchor[q] \/ anchor'[q] <= cursor'
  PROVE  PositionsExist'
  <1>1. committed'.at <= cursor' /\ state'.at <= cursor'
    BY NumbersAreNat DEF PositionsExist
  <1>2. ASSUME NEW q \in Proc PROVE anchor'[q] <= cursor'
    <2>1. anchor[q] \in Nat /\ cursor \in Nat /\ anchor[q] <= cursor
      BY NumbersAreNat DEF PositionsExist
    <2> QED
      BY <2>1
  <1> QED
    BY <1>1, <1>2 DEF PositionsExist

\* A turn stays the process's own until the process leaves it.
LEMMA TurnsStayOwn ==
  ASSUME TurnsAreOwn, active' = active, next' = next, turn' = turn,
         \A q \in Proc : at'[q] \in Running => at[q] \in Running
  PROVE  TurnsAreOwn'
  BY DEF TurnsAreOwn

\* An event of a running transaction is not one of a transaction to come.
LEMMA StartsStayFirst ==
  ASSUME TypeOK, StartsComeFirst, TurnsAreOwn, NEW p \in Proc, at[p] \in Running,
         turn[p] \in Turn, next' = next, turn' = turn, todo' = todo,
         \A u \in Turn : u # turn[p] => facts'[u] = facts[u],
         facts[turn[p]] # <<>> => facts'[turn[p]] # <<>>,
         \A q \in Proc : q # p => at'[q] = at[q],
         at'[p] \notin {"capture", "start", "adopting"}
  PROVE  StartsComeFirst'
  <1>1. ASSUME NEW t \in Turn, t >= next PROVE facts'[t] = <<>>
    <2>1. t \in Nat /\ next \in Nat /\ turn[p] \in Nat /\ turn[p] < next
      BY NumbersAreNat DEF TurnsAreOwn
    <2>2. t # turn[p]
      BY <1>1, <2>1
    <2> QED
      BY <1>1, <2>2 DEF StartsComeFirst
  <1>2. ASSUME NEW q \in Proc, at'[q] \in {"capture", "start"} PROVE facts'[turn[q]] = <<>>
    <2>1. q # p /\ at[q] \in {"capture", "start"}
      BY <1>2
    <2>2. turn[q] # turn[p] /\ turn[q] \in Turn
      BY <2>1 DEF TurnsAreOwn, Running, TypeOK
    <2> QED
      BY <2>1, <2>2 DEF StartsComeFirst
  <1>3. ASSUME NEW q \in Proc, NEW t \in todo[q] PROVE facts'[t] # <<>>
    <2>1. t \in Turn /\ facts[t] # <<>>
      BY DEF StartsComeFirst, TypeOK
    <2> QED
      BY <2>1
  <1>4. ASSUME NEW q \in Proc, at'[q] = "adopting" PROVE turn[q] \in todo[q]
    BY <1>4 DEF StartsComeFirst
  <1> QED
    BY <1>1, <1>2, <1>3, <1>4 DEF StartsComeFirst

\* An event other than a follow-up comes after every start there is.
LEMMA AnchorsStayOpen ==
  ASSUME TypeOK, PositionsExist, AnchorsAreOpen,
         (facts' = facts /\ lastFact' = lastFact) \/ lastFact' = cursor + 1,
         \A q \in Proc : at'[q] = "prepare" =>
           \/ at[q] = "prepare" /\ anchor'[q] = anchor[q] /\ turn'[q] = turn[q]
           \/ facts'[turn'[q]] = <<"started">>
  PROVE  AnchorsAreOpen'
  <1> SUFFICES ASSUME NEW q \in Proc, at'[q] = "prepare", lastFact' <= anchor'[q]
               PROVE  facts'[turn'[q]] = <<"started">>
    BY DEF AnchorsAreOpen
  <1>1. anchor[q] \in Nat /\ cursor \in Nat /\ anchor[q] <= cursor
    BY NumbersAreNat DEF PositionsExist
  <1>2. CASE at[q] = "prepare" /\ anchor'[q] = anchor[q] /\ turn'[q] = turn[q]
    <2>1. lastFact' # cursor + 1
      BY <1>1, <1>2
    <2> QED
      BY <1>2, <2>1 DEF AnchorsAreOpen
  <1> QED
    BY <1>2

LEMMA CompactInit == Init => CompactInvariant
  <1> SUFFICES ASSUME Init PROVE CompactInvariant
    OBVIOUS
  <1> USE DEF Init
  <1>1. TypeOK
    <2>1. /\ cursor \in Nat /\ lastFact \in Nat /\ active \in Turn \union {NoTurn}
          /\ facts \in [Turn -> Seq({"started", "completed", "failed"})]
      OBVIOUS
    <2>2. committed \in [at : Nat, history : History] /\ saved \subseteq Turn /\ state \in Installed
      BY NoneIsTyped
    <2>3. /\ at \in [Proc -> Place] /\ turn \in [Proc -> Turn \union {NoTurn}]
          /\ source \in [Proc -> Source] /\ anchor \in [Proc -> Nat]
          /\ todo \in [Proc -> SUBSET Turn] /\ found \in [Proc -> BOOLEAN]
      BY NoneIsTyped DEF Place
    <2>4. commits \subseteq Turn /\ replaced \subseteq Turn /\ shared \in BOOLEAN
      OBVIOUS
    <2>5. /\ next \in 1 .. MaxTurns + 1 /\ notes \in 0 .. MaxNotes /\ crashes \in 0 .. MaxCrashes
          /\ refusals \in 0 .. MaxRefusals /\ late \in 0 .. MaxLate
      BY BoundsAreNat
    <2> QED
      BY <2>1, <2>2, <2>3, <2>4, <2>5 DEF TypeOK
  <1>2. PositionsExist /\ HistoriesAreComplete
    BY DEF PositionsExist, HistoriesAreComplete, NotInstalled, NoHistory
  <1>3. TurnsAreOwn /\ BasesAreCurrent
    BY DEF TurnsAreOwn, BasesAreCurrent, Running, NoTurn
  <1>4. StartsComeFirst /\ AnchorsAreOpen
    BY DEF StartsComeFirst, AnchorsAreOpen
  <1> QED
    BY <1>1, <1>2, <1>3, <1>4 DEF CompactInvariant

\* The failure of a candidate, a conflict and the catch clause only move their process.
LEMMA MovePreserves ==
  ASSUME CompactInvariant, NEW p \in Proc, NEW place \in {"catch", "retry", "fail"},
         at[p] \in {"prepare", "catch"}, Goto(p, place),
         UNCHANGED <<logVars, fileVars, turn, source, anchor, todo, found, next, shared, budget, faultVars>>
  PROVE  CompactInvariant'
  <1> USE DEF CompactInvariant
  <1>1. TypeOK'
    <2>1. LogIsTyped'
      BY TypeParts DEF Goto, logVars, fileVars, budget, faultVars, LogIsTyped
    <2>2. FilesAreTyped'
      BY TypeParts DEF Goto, logVars, fileVars, budget, faultVars, FilesAreTyped
    <2>3. ProcsAreTyped'
      BY TypeParts DEF Goto, logVars, fileVars, budget, faultVars, ProcsAreTyped, Place
    <2>4. CountersAreTyped'
      BY TypeParts DEF Goto, logVars, fileVars, budget, faultVars, CountersAreTyped
    <2> QED
      BY <2>1, <2>2, <2>3, <2>4, TypePartsNext
  <1>2. PositionsExist'
    BY DEF Goto, logVars, fileVars, budget, faultVars, TypeOK, PositionsExist
  <1>3. HistoriesAreComplete'
    BY DEF Goto, logVars, fileVars, budget, faultVars, TypeOK, HistoriesAreComplete
  <1>4. TurnsAreOwn'
    BY DEF Goto, logVars, fileVars, budget, faultVars, TypeOK, TurnsAreOwn, Running
  <1>5. BasesAreCurrent'
    BY DEF Goto, logVars, fileVars, budget, faultVars, TypeOK, BasesAreCurrent
  <1>6. StartsComeFirst'
    BY DEF Goto, logVars, fileVars, budget, faultVars, TypeOK, StartsComeFirst
  <1>7. AnchorsAreOpen'
    BY DEF Goto, logVars, fileVars, budget, faultVars, TypeOK, AnchorsAreOpen
  <1> QED
    BY <1>1, <1>2, <1>3, <1>4, <1>5, <1>6, <1>7

LEMMA CandidatePreserves ==
  ASSUME CompactInvariant, NEW p \in Proc, CandidateFails(p) \/ Conflict(p) \/ Catch(p)
  PROVE  CompactInvariant'
  BY MovePreserves DEF CandidateFails, Conflict, Catch

\* Opening lists transactions that have started.
LEMMA ListPreserves ==
  ASSUME CompactInvariant, NEW p \in Proc, List(p)
  PROVE  CompactInvariant'
  <1> USE DEF CompactInvariant
  <1>1. TypeOK'
    <2>1. LogIsTyped'
      BY TypeParts DEF List, Orphans, Goto, logVars, fileVars, budget, faultVars, LogIsTyped
    <2>2. FilesAreTyped'
      BY TypeParts DEF List, Orphans, Goto, logVars, fileVars, budget, faultVars, FilesAreTyped
    <2>3. ProcsAreTyped'
      BY TypeParts DEF List, Orphans, Goto, logVars, fileVars, budget, faultVars, ProcsAreTyped, Place
    <2>4. CountersAreTyped'
      BY TypeParts DEF List, Orphans, Goto, logVars, fileVars, budget, faultVars, CountersAreTyped
    <2> QED
      BY <2>1, <2>2, <2>3, <2>4, TypePartsNext
  <1>2. PositionsExist'
    BY DEF List, Orphans, Goto, logVars, fileVars, budget, faultVars, TypeOK, PositionsExist
  <1>3. HistoriesAreComplete'
    BY DEF List, Orphans, Goto, logVars, fileVars, budget, faultVars, TypeOK, HistoriesAreComplete
  <1>4. TurnsAreOwn'
    BY DEF List, Orphans, Goto, logVars, fileVars, budget, faultVars, TypeOK, TurnsAreOwn, Running
  <1>5. BasesAreCurrent'
    BY DEF List, Orphans, Goto, logVars, fileVars, budget, faultVars, TypeOK, BasesAreCurrent
  <1>6. StartsComeFirst'
    BY OneEventIsSome DEF List, Orphans, Goto, logVars, fileVars, budget, faultVars, TypeOK, StartsComeFirst
  <1>7. AnchorsAreOpen'
    BY DEF List, Orphans, Goto, logVars, fileVars, budget, faultVars, TypeOK, AnchorsAreOpen
  <1> QED
    BY <1>1, <1>2, <1>3, <1>4, <1>5, <1>6, <1>7

\* The orphan that is looked up has started, so it is not a turn to come.
LEMMA FindOrphanPreserves ==
  ASSUME CompactInvariant, NEW p \in Proc, FindOrphan(p)
  PROVE  CompactInvariant'
  <1> USE DEF CompactInvariant
  <1>a. /\ \A t \in todo[p] : t \in Turn /\ t < next
        /\ \A t : IsInstalled(t) \in BOOLEAN
    BY NumbersAreNat DEF TypeOK, StartsComeFirst, IsInstalled
  <1>1. TypeOK'
    <2>1. LogIsTyped'
      BY TypeParts DEF FindOrphan, Goto, logVars, fileVars, budget, faultVars, LogIsTyped
    <2>2. FilesAreTyped'
      BY TypeParts DEF FindOrphan, Goto, logVars, fileVars, budget, faultVars, FilesAreTyped
    <2>3. ProcsAreTyped'
      BY <1>a, TypeParts DEF FindOrphan, Goto, logVars, fileVars, budget, faultVars, ProcsAreTyped, Place
    <2>4. CountersAreTyped'
      BY TypeParts DEF FindOrphan, Goto, logVars, fileVars, budget, faultVars, CountersAreTyped
    <2> QED
      BY <2>1, <2>2, <2>3, <2>4, TypePartsNext
  <1>2. PositionsExist'
    BY DEF FindOrphan, Goto, logVars, fileVars, budget, faultVars, TypeOK, PositionsExist
  <1>3. HistoriesAreComplete'
    BY DEF FindOrphan, Goto, logVars, fileVars, budget, faultVars, TypeOK, HistoriesAreComplete
  <1>4. TurnsAreOwn'
    BY <1>a DEF FindOrphan, Goto, logVars, fileVars, budget, faultVars, TypeOK, TurnsAreOwn, Running
  <1>5. BasesAreCurrent'
    BY DEF FindOrphan, Goto, logVars, fileVars, budget, faultVars, TypeOK, BasesAreCurrent
  <1>6. StartsComeFirst'
    BY <1>a DEF FindOrphan, Goto, logVars, fileVars, budget, faultVars, TypeOK, StartsComeFirst
  <1>7. AnchorsAreOpen'
    BY DEF FindOrphan, Goto, logVars, fileVars, budget, faultVars, TypeOK, AnchorsAreOpen
  <1> QED
    BY <1>1, <1>2, <1>3, <1>4, <1>5, <1>6, <1>7

\* What a process forgets is nothing the files depend on.
LEMMA DiePreserves ==
  ASSUME CompactInvariant, NEW p \in Proc, Die(p)
  PROVE  CompactInvariant'
  <1> USE DEF CompactInvariant
  <1>a. crashes' \in 0 .. MaxCrashes /\ NoTurn < next
    BY BoundsAreNat DEF Die, TypeOK, NoTurn
  <1>1. TypeOK'
    <2>1. LogIsTyped'
      BY TypeParts DEF Die, Forget, Goto, logVars, fileVars, budget, faultVars, LogIsTyped
    <2>2. FilesAreTyped'
      BY TypeParts DEF Die, Forget, Goto, logVars, fileVars, budget, faultVars, FilesAreTyped
    <2>3. ProcsAreTyped'
      BY NoneIsTyped, TypeParts DEF Die, Forget, Goto, logVars, fileVars, budget, faultVars, ProcsAreTyped, Place
    <2>4. CountersAreTyped'
      BY <1>a, TypeParts DEF Die, Forget, Goto, logVars, fileVars, budget, faultVars, CountersAreTyped
    <2> QED
      BY <2>1, <2>2, <2>3, <2>4, TypePartsNext
  <1>2. PositionsExist'
    BY NumbersAreNat DEF Die, Forget, Goto, logVars, fileVars, budget, faultVars, TypeOK, PositionsExist
  <1>3. HistoriesAreComplete'
    BY DEF Die, Forget, Goto, logVars, fileVars, budget, faultVars, TypeOK, HistoriesAreComplete
  <1>4. TurnsAreOwn'
    BY NoneIsTyped, NumbersAreNat, <1>a DEF Die, Forget, Goto, logVars, fileVars, budget, faultVars, TypeOK, TurnsAreOwn, Running
  <1>5. BasesAreCurrent'
    BY DEF Die, Forget, Goto, logVars, fileVars, budget, faultVars, TypeOK, BasesAreCurrent
  <1>6. StartsComeFirst'
    BY DEF Die, Forget, Goto, logVars, fileVars, budget, faultVars, TypeOK, StartsComeFirst
  <1>7. AnchorsAreOpen'
    BY DEF Die, Forget, Goto, logVars, fileVars, budget, faultVars, TypeOK, AnchorsAreOpen
  <1> QED
    BY <1>1, <1>2, <1>3, <1>4, <1>5, <1>6, <1>7

\* A source is the authoritative history and the position of the log.
LEMMA CapturePreserves ==
  ASSUME CompactInvariant, NEW p \in Proc, Capture(p)
  PROVE  CompactInvariant'
  <1> USE DEF CompactInvariant
  <1>a. [cursor |-> cursor, history |-> Authority, checkpoint |-> state.turn] \in Source
    BY AuthorityIsComplete, NumbersAreNat DEF Source
  <1>1. TypeOK'
    <2>1. LogIsTyped'
      BY TypeParts DEF Capture, Goto, logVars, fileVars, budget, faultVars, LogIsTyped
    <2>2. FilesAreTyped'
      BY TypeParts DEF Capture, Goto, logVars, fileVars, budget, faultVars, FilesAreTyped
    <2>3. ProcsAreTyped'
      BY <1>a, TypeParts DEF Capture, Goto, logVars, fileVars, budget, faultVars, ProcsAreTyped, Place
    <2>4. CountersAreTyped'
      BY TypeParts DEF Capture, Goto, logVars, fileVars, budget, faultVars, CountersAreTyped
    <2> QED
      BY <2>1, <2>2, <2>3, <2>4, TypePartsNext
  <1>2. PositionsExist'
    BY DEF Capture, Goto, logVars, fileVars, budget, faultVars, TypeOK, PositionsExist
  <1>3. HistoriesAreComplete'
    BY DEF Capture, Goto, logVars, fileVars, budget, faultVars, TypeOK, HistoriesAreComplete
  <1>4. TurnsAreOwn'
    BY DEF Capture, Goto, logVars, fileVars, budget, faultVars, TypeOK, TurnsAreOwn, Running
  <1>5. BasesAreCurrent'
    BY DEF Capture, Goto, logVars, fileVars, budget, faultVars, TypeOK, BasesAreCurrent
  <1>6. StartsComeFirst'
    BY DEF Capture, Goto, logVars, fileVars, budget, faultVars, TypeOK, StartsComeFirst
  <1>7. AnchorsAreOpen'
    BY DEF Capture, Goto, logVars, fileVars, budget, faultVars, TypeOK, AnchorsAreOpen
  <1> QED
    BY <1>1, <1>2, <1>3, <1>4, <1>5, <1>6, <1>7

\* A follow-up or an interrupt moves the end of the log.
LEMMA NotePreserves ==
  ASSUME CompactInvariant, NEW p \in Proc, Note(p)
  PROVE  CompactInvariant'
  <1> USE DEF CompactInvariant
  <1>a. /\ notes' \in 0 .. MaxNotes
        /\ cursor' = cursor + 1 /\ lastFact' \in {lastFact, cursor + 1}
        /\ committed' = committed /\ commits' = commits /\ state' = state /\ anchor' = anchor
        /\ facts' = facts /\ turn' = turn /\ at' = at
    BY SMTT(30), BoundsAreNat DEF Note, TypeOK, logVars, fileVars, procVars
  <1>b. cursor' \in Nat /\ cursor <= cursor' /\ lastFact' <= cursor'
    BY <1>a, NumbersAreNat DEF PositionsExist
  <1>1. TypeOK'
    <2>1. LogIsTyped'
      BY NumbersAreNat, <1>a, TypeParts DEF Note, logVars, fileVars, procVars, faultVars, LogIsTyped
    <2>2. FilesAreTyped'
      BY TypeParts DEF Note, logVars, fileVars, procVars, faultVars, FilesAreTyped
    <2>3. ProcsAreTyped'
      BY TypeParts DEF Note, logVars, fileVars, procVars, faultVars, ProcsAreTyped, Place
    <2>4. CountersAreTyped'
      BY <1>a, TypeParts DEF Note, logVars, fileVars, procVars, faultVars, CountersAreTyped
    <2> QED
      BY <2>1, <2>2, <2>3, <2>4, TypePartsNext
  <1>2. PositionsExist'
    BY <1>a, <1>b, PositionsStay
  <1>3. HistoriesAreComplete'
    BY <1>a DEF Note, logVars, fileVars, procVars, faultVars, TypeOK, HistoriesAreComplete
  <1>4. TurnsAreOwn'
    BY DEF Note, logVars, fileVars, procVars, faultVars, TypeOK, TurnsAreOwn, Running
  <1>5. BasesAreCurrent'
    BY DEF Note, logVars, fileVars, procVars, faultVars, TypeOK, BasesAreCurrent
  <1>6. StartsComeFirst'
    BY DEF Note, logVars, fileVars, procVars, faultVars, TypeOK, StartsComeFirst
  <1>7. AnchorsAreOpen'
    BY <1>a, AnchorsStayOpen
  <1> QED
    BY <1>1, <1>2, <1>3, <1>4, <1>5, <1>6, <1>7

\* A turn ends.
LEMMA EndTurnPreserves ==
  ASSUME CompactInvariant, NEW p \in Proc, EndTurn(p)
  PROVE  CompactInvariant'
  <1> USE DEF CompactInvariant
  <1>a. /\ \/ cursor' = cursor /\ lastFact' = lastFact
           \/ cursor' = cursor + 1 /\ lastFact' = cursor + 1
        /\ active' \in {active, NoTurn} /\ committed' = committed /\ commits' = commits
        /\ facts' = facts /\ refusals' = refusals /\ late' = late
        /\ saved' = saved /\ state' = state /\ replaced' = replaced
        /\ next' = next /\ shared' = shared /\ notes' = notes /\ crashes' = crashes
        /\ turn' = [turn EXCEPT ![p] = NoTurn] /\ at' = [at EXCEPT ![p] = "idle"]
        /\ source' = [source EXCEPT ![p] = NoSource] /\ anchor' = [anchor EXCEPT ![p] = 0]
        /\ todo' = todo /\ found' = found /\ at[p] # "adopting"
    BY DEF EndTurn, AppendTurn, Goto, logVars, fileVars, budget, faultVars
  <1>b. NoTurn < next /\ NoTurn \in Nat
    BY BoundsAreNat DEF TypeOK, NoTurn
  <1>1. TypeOK'
    <2>1. LogIsTyped'
      BY <1>a, TypeParts DEF LogIsTyped
    <2>2. FilesAreTyped'
      BY <1>a, TypeParts DEF FilesAreTyped
    <2>3. ProcsAreTyped'
      BY <1>a, NoneIsTyped, TypeParts DEF ProcsAreTyped, Place
    <2>4. CountersAreTyped'
      BY <1>a, TypeParts DEF CountersAreTyped
    <2> QED
      BY <2>1, <2>2, <2>3, <2>4, TypePartsNext
  <1>2. PositionsExist'
    BY SMTT(30), <1>a, NumbersAreNat DEF PositionsExist, TypeOK
  <1>3. HistoriesAreComplete'
    BY <1>a DEF HistoriesAreComplete
  <1>4. TurnsAreOwn'
    BY <1>a, <1>b, NumbersAreNat DEF TurnsAreOwn, Running, TypeOK
  <1>5. BasesAreCurrent'
    BY <1>a, <1>b DEF BasesAreCurrent, TurnsAreOwn, Running, TypeOK
  <1>6. StartsComeFirst'
    BY <1>a DEF StartsComeFirst, TypeOK
  <1>7. AnchorsAreOpen'
    BY <1>a, NumbersAreNat DEF AnchorsAreOpen, PositionsExist, TypeOK
  <1> QED
    BY <1>1, <1>2, <1>3, <1>4, <1>5, <1>6, <1>7

\* Opening ends the turn that was active.
LEMMA RecoverIncompletePreserves ==
  ASSUME CompactInvariant, NEW p \in Proc, RecoverIncomplete(p)
  PROVE  CompactInvariant'
  <1> USE DEF CompactInvariant
  <1>a. /\ \/ cursor' = cursor /\ lastFact' = lastFact
           \/ cursor' = cursor + 1 /\ lastFact' = cursor + 1
        /\ active' \in {active, NoTurn} /\ committed' = committed /\ commits' = commits
        /\ facts' = facts /\ refusals' = refusals /\ late' = late
        /\ saved' = saved /\ state' = state /\ replaced' = replaced
        /\ next' = next /\ shared' = shared /\ notes' = notes /\ crashes' = crashes
        /\ turn' = [turn EXCEPT ![p] = NoTurn] /\ at' = [at EXCEPT ![p] = "idle"]
        /\ source' = source /\ anchor' = anchor
        /\ todo' = todo /\ found' = found /\ at[p] # "adopting"
    BY DEF RecoverIncomplete, AppendTurn, Goto, logVars, fileVars, budget, faultVars
  <1>b. NoTurn < next /\ NoTurn \in Nat
    BY BoundsAreNat DEF TypeOK, NoTurn
  <1>1. TypeOK'
    <2>1. LogIsTyped'
      BY <1>a, TypeParts DEF LogIsTyped
    <2>2. FilesAreTyped'
      BY <1>a, TypeParts DEF FilesAreTyped
    <2>3. ProcsAreTyped'
      BY <1>a, NoneIsTyped, TypeParts DEF ProcsAreTyped, Place
    <2>4. CountersAreTyped'
      BY <1>a, TypeParts DEF CountersAreTyped
    <2> QED
      BY <2>1, <2>2, <2>3, <2>4, TypePartsNext
  <1>2. PositionsExist'
    BY SMTT(30), <1>a, NumbersAreNat DEF PositionsExist, TypeOK
  <1>3. HistoriesAreComplete'
    BY <1>a DEF HistoriesAreComplete
  <1>4. TurnsAreOwn'
    BY <1>a, <1>b, NumbersAreNat DEF TurnsAreOwn, Running, TypeOK
  <1>5. BasesAreCurrent'
    BY <1>a, <1>b DEF BasesAreCurrent, TurnsAreOwn, Running, TypeOK
  <1>6. StartsComeFirst'
    BY <1>a DEF StartsComeFirst, TypeOK
  <1>7. AnchorsAreOpen'
    BY <1>a, NumbersAreNat DEF AnchorsAreOpen, PositionsExist, TypeOK
  <1> QED
    BY <1>1, <1>2, <1>3, <1>4, <1>5, <1>6, <1>7

\* A new turn belongs to nobody else and continues the last history.
LEMMA StartTurnPreserves ==
  ASSUME CompactInvariant, NEW p \in Proc, StartTurn(p)
  PROVE  CompactInvariant'
  <1> USE DEF CompactInvariant
  <1>a. /\ Authority \in History /\ Authority.covers = commits
        /\ next \in Turn /\ next \in Nat /\ next + 1 \in 1 .. MaxTurns + 1 /\ next # NoTurn
    <2>1. next \in Turn /\ next \in Nat /\ next + 1 \in 1 .. MaxTurns + 1 /\ next # NoTurn
      <3>1. next \in 1 .. MaxTurns + 1
        BY DEF TypeOK
      <3>2. next <= MaxTurns
        BY DEF StartTurn
      <3> QED
        BY <3>1, <3>2, BoundsAreNat DEF Turn, NoTurn
    <2>2. TypeOK /\ HistoriesAreComplete
      OBVIOUS
    <2> HIDE DEF CompactInvariant
    <2> QED
      BY <2>1, <2>2, AuthorityIsComplete
  <1>b. PICK kind \in {"turn", "capture"}, s \in Source :
       /\ cursor' = cursor + 1 /\ lastFact' = cursor + 1 /\ active' = next /\ next' = next + 1
       /\ committed' = committed /\ commits' = commits /\ facts' = facts
       /\ refusals' = refusals /\ late' = late
       /\ saved' = saved /\ state' = state /\ replaced' = replaced
       /\ shared' = shared /\ notes' = notes /\ crashes' = crashes
       /\ turn' = [turn EXCEPT ![p] = next] /\ at' = [at EXCEPT ![p] = kind]
       /\ source' = [source EXCEPT ![p] = s] /\ (kind = "turn" => s.history.covers = commits)
       /\ anchor' = anchor /\ todo' = todo /\ found' = found /\ at[p] = "idle"
    <2>1. [NoSource EXCEPT !.history = Authority] \in Source
      BY <1>a, NoneIsTyped DEF Source
    <2>2. [NoSource EXCEPT !.history = Authority].history.covers = commits
      BY <1>a DEF NoSource
    <2>3. NoSource \in Source
      BY NoneIsTyped
    <2> QED
      BY <2>1, <2>2, <2>3 DEF StartTurn, AppendTurn, Goto, logVars, fileVars, budget, faultVars
  <1>1. TypeOK'
    <2>1. LogIsTyped'
      BY <1>a, <1>b, NumbersAreNat, TypeParts DEF LogIsTyped
    <2>2. FilesAreTyped'
      BY <1>b, TypeParts DEF FilesAreTyped
    <2>3. ProcsAreTyped'
      BY <1>a, <1>b, TypeParts DEF ProcsAreTyped, Place
    <2>4. CountersAreTyped'
      BY <1>a, <1>b, TypeParts DEF CountersAreTyped
    <2> QED
      BY <2>1, <2>2, <2>3, <2>4, TypePartsNext
  <1>2. PositionsExist'
    <2>1. cursor' \in Nat /\ cursor <= cursor' /\ lastFact' <= cursor'
      BY <1>b, NumbersAreNat
    <2> QED
      BY <1>b, <2>1, PositionsStay
  <1>3. HistoriesAreComplete'
    BY <1>b DEF HistoriesAreComplete
  <1>4. TurnsAreOwn'
    <2>1. active' < next' /\ next < next' /\ next' \in Nat /\ next \in Nat
      BY <1>a, <1>b
    <2>2. ASSUME NEW q \in Proc PROVE turn'[q] < next' /\ (turn'[q] = next <=> q = p)
      <3>1. turn[q] \in Nat /\ turn[q] < next
        BY NumbersAreNat DEF TurnsAreOwn
      <3>2. (q = p => turn'[q] = next) /\ (q # p => turn'[q] = turn[q])
        BY <1>b DEF TypeOK
      <3>3. CASE q = p
        BY <2>1, <3>2, <3>3
      <3>4. CASE q # p
        BY <2>1, <3>1, <3>2, <3>4
      <3> QED
        BY <3>3, <3>4
    <2>3. \A q \in Proc : q # p => turn'[q] = turn[q] /\ at'[q] = at[q]
      BY <1>b DEF TypeOK
    <2>4. \A q \in Proc : at'[q] \in Running => turn'[q] # NoTurn
      BY <1>a, <2>2, <2>3 DEF TurnsAreOwn
    <2>5. \A q, r \in Proc :
            at'[q] \in Running /\ at'[r] \in Running /\ turn'[q] = turn'[r] => q = r
      BY <2>2, <2>3 DEF TurnsAreOwn
    <2> QED
      BY <2>1, <2>2, <2>4, <2>5 DEF TurnsAreOwn
  <1>5. BasesAreCurrent'
    BY <1>a, <1>b, NumbersAreNat DEF BasesAreCurrent, TurnsAreOwn, TypeOK
  <1>6. StartsComeFirst'
    BY SMTT(30), <1>a, <1>b, NumbersAreNat DEF StartsComeFirst, TypeOK
  <1>7. AnchorsAreOpen'
    BY <1>b, NumbersAreNat DEF AnchorsAreOpen, PositionsExist, TypeOK
  <1> QED
    BY <1>1, <1>2, <1>3, <1>4, <1>5, <1>6, <1>7

\* A commit extends the history its turn continued, which is the last one, or
\* that of the last commit, which has seen every commit.
LEMMA CommitPreserves ==
  ASSUME CompactInvariant, NEW p \in Proc, Commit(p)
  PROVE  CompactInvariant'
  <1> USE DEF CompactInvariant
  <1>0. PICK base \in {source[p].history, committed.history} :
          committed' = [at |-> cursor + 1, history |->
                          [by |-> turn[p], covers |-> base.covers \union {turn[p]}]]
    BY DEF Commit
  <1> DEFINE h == [by |-> turn[p], covers |-> base.covers \union {turn[p]}]
  <1>a. turn[p] \in Turn /\ h \in History /\ h.covers = commits \union {turn[p]}
    <2>1. turn[p] \in Turn /\ commits \subseteq Turn
      BY NumbersAreNat DEF Commit, TypeOK, TurnsAreOwn, Running
    <2>2. base.covers = commits
      BY DEF Commit, BasesAreCurrent, HistoriesAreComplete
    <2> QED
      BY <2>1, <2>2 DEF History
  <1>b. /\ cursor' = cursor + 1 /\ lastFact' = cursor + 1 /\ active' = active /\ next' = next
        /\ committed' = [at |-> cursor + 1, history |-> h]
        /\ commits' = commits \union {turn[p]} /\ facts' = facts
        /\ refusals' = refusals /\ late' = late
        /\ saved' = saved /\ state' = state /\ replaced' = replaced
        /\ shared' = shared /\ notes' = notes /\ crashes' = crashes
        /\ turn' = turn /\ at' = [at EXCEPT ![p] = "end"] /\ source' = source
        /\ anchor' = anchor /\ todo' = todo /\ found' = found
        /\ at[p] = "turn" /\ active = turn[p]
    BY <1>0 DEF Commit, AppendTurn, Goto, logVars, fileVars, budget, faultVars
  <1> HIDE DEF h
  <1>1. TypeOK'
    <2>1. LogIsTyped'
      BY <1>a, <1>b, NumbersAreNat, TypeParts DEF LogIsTyped
    <2>2. FilesAreTyped'
      BY <1>b, TypeParts DEF FilesAreTyped
    <2>3. ProcsAreTyped'
      BY <1>b, TypeParts DEF ProcsAreTyped, Place
    <2>4. CountersAreTyped'
      BY <1>b, TypeParts DEF CountersAreTyped
    <2> QED
      BY <2>1, <2>2, <2>3, <2>4, TypePartsNext
  <1>2. PositionsExist'
    BY SMTT(30), <1>b, NumbersAreNat DEF PositionsExist, TypeOK
  <1>3. HistoriesAreComplete'
    BY <1>a, <1>b, NumbersAreNat DEF HistoriesAreComplete, PositionsExist
  <1>4. TurnsAreOwn'
    BY <1>b DEF TurnsAreOwn, Running, TypeOK
  <1>5. BasesAreCurrent'
    BY <1>a, <1>b DEF BasesAreCurrent, TurnsAreOwn, Running, TypeOK
  <1>6. StartsComeFirst'
    BY <1>b DEF StartsComeFirst, TypeOK
  <1>7. AnchorsAreOpen'
    BY <1>b, NumbersAreNat DEF AnchorsAreOpen, PositionsExist, TypeOK
  <1> QED
    BY <1>1, <1>2, <1>3, <1>4, <1>5, <1>6, <1>7

\* The checkpoint replaces the history it was computed from.
LEMMA SwapPreserves ==
  ASSUME CompactInvariant, NEW p \in Proc, Swap(p)
  PROVE  CompactInvariant'
  <1> USE DEF CompactInvariant
  <1>a. /\ turn[p] \in Turn /\ Replacement(p) \in Installed
        /\ Replacement(p).turn = turn[p] /\ Replacement(p).at = anchor[p]
        /\ Replacement(p).history.covers = commits
    <2>1. turn[p] \in Turn /\ anchor[p] \in Nat
      BY NumbersAreNat DEF Swap, TypeOK, TurnsAreOwn, Running
    <2>2. source[p].history.covers = commits /\ commits \subseteq Turn
      BY AuthorityIsComplete DEF Swap, Recheck, TypeOK
    <2> QED
      BY <2>1, <2>2 DEF Replacement, Installed, History
  <1>b. /\ cursor' = cursor /\ lastFact' = lastFact /\ active' = active /\ next' = next
        /\ committed' = committed /\ commits' = commits /\ facts' = facts
        /\ refusals' \in 0 .. MaxRefusals /\ late' \in 0 .. MaxLate
        /\ saved' \in {saved, saved \union {turn[p]}}
        /\ \/ state' = state /\ replaced' = replaced
           \/ /\ state' = Replacement(p) /\ replaced' = replaced \union {turn[p]}
              /\ turn[p] \in saved'
        /\ shared' = shared /\ notes' = notes /\ crashes' = crashes
        /\ turn' = turn /\ at' \in {[at EXCEPT ![p] = "complete"], [at EXCEPT ![p] = "catch"]}
        /\ source' = source /\ anchor' = anchor /\ todo' = todo /\ found' = found
        /\ at[p] = "prepare"
    <2>1. refusals \in Nat /\ late \in Nat
      BY BoundsAreNat DEF TypeOK
    <2>2. PICK o \in Outcome : /\ Faults(o) /\ Point(p, o)
                              /\ Goto(p, IF o = "returned" THEN "complete" ELSE "catch")
      BY DEF Swap
    <2>3. refusals' \in 0 .. MaxRefusals /\ late' \in 0 .. MaxLate
      BY <2>1, <2>2, BoundsAreNat DEF Faults
    <2>4. /\ saved' \in {saved, saved \union {turn[p]}}
          /\ \/ state' = state /\ replaced' = replaced
             \/ /\ state' = Replacement(p) /\ replaced' = replaced \union {turn[p]}
                /\ turn[p] \in saved'
      BY <2>2 DEF Point
    <2>5. at' \in {[at EXCEPT ![p] = "complete"], [at EXCEPT ![p] = "catch"]}
      BY <2>2 DEF Goto
    <2> QED
      BY <2>3, <2>4, <2>5 DEF Swap, logVars, budget
  <1>1. TypeOK'
    <2>1. LogIsTyped'
      BY <1>b, TypeParts DEF LogIsTyped
    <2>2. FilesAreTyped'
      BY <1>a, <1>b, TypeParts DEF FilesAreTyped
    <2>3. ProcsAreTyped'
      BY <1>b, TypeParts DEF ProcsAreTyped, Place
    <2>4. CountersAreTyped'
      BY <1>b, TypeParts DEF CountersAreTyped
    <2> QED
      BY <2>1, <2>2, <2>3, <2>4, TypePartsNext
  <1>2. PositionsExist'
    BY <1>a, <1>b, NumbersAreNat DEF PositionsExist, TypeOK
  <1>3. HistoriesAreComplete'
    BY <1>a, <1>b DEF HistoriesAreComplete
  <1>4. TurnsAreOwn'
    BY SMTT(30), <1>b DEF TurnsAreOwn, Running, TypeOK
  <1>5. BasesAreCurrent'
    BY <1>b DEF BasesAreCurrent, TypeOK
  <1>6. StartsComeFirst'
    BY <1>b DEF StartsComeFirst, TypeOK
  <1>7. AnchorsAreOpen'
    BY <1>b DEF AnchorsAreOpen, TypeOK
  <1> QED
    BY <1>1, <1>2, <1>3, <1>4, <1>5, <1>6, <1>7

\* The terminal after the commit.
LEMMA CompletePreserves ==
  ASSUME CompactInvariant, NEW p \in Proc, Complete(p)
  PROVE  CompactInvariant'
  <1> USE DEF CompactInvariant
  <1>a. /\ turn[p] \in Turn /\ at[p] \in {"complete"}
        /\ saved' = saved /\ state' = state /\ replaced' = replaced
        /\ next' = next /\ shared' = shared /\ notes' = notes /\ crashes' = crashes
        /\ turn' = turn /\ source' = source /\ todo' = todo /\ found' = found
    BY DEF Complete, TypeOK, TurnsAreOwn, Running, fileVars, budget
  <1> PICK o \in Outcome : /\ AppendCompact(o, turn[p], "completed")
                           /\ Goto(p, IF o = "returned" THEN "end" ELSE "catch")
    BY DEF Complete
  <1>b. /\ cursor' \in Nat /\ lastFact' \in Nat
        /\ facts' \in [Turn -> Seq({"started", "completed", "failed"})]
        /\ refusals' \in 0 .. MaxRefusals /\ late' \in 0 .. MaxLate
        /\ cursor <= cursor' /\ lastFact' <= cursor'
        /\ \A u \in Turn : u # turn[p] => facts'[u] = facts[u]
        /\ facts[turn[p]] # <<>> => facts'[turn[p]] # <<>>
        /\ \/ facts' = facts /\ lastFact' = lastFact
           \/ lastFact' = cursor + 1
        /\ active' = active /\ committed' = committed /\ commits' = commits
    BY <1>a, AppendAddsAnEvent, SMTT(30)
  <1>c. anchor' = anchor /\ at' \in {[at EXCEPT ![p] = "end"], [at EXCEPT ![p] = "catch"]}
    BY DEF Complete, Goto
  <1>1. TypeOK'
    <2>1. LogIsTyped'
      BY <1>b, TypeParts DEF LogIsTyped
    <2>2. FilesAreTyped'
      BY <1>a, TypeParts DEF FilesAreTyped
    <2>3. ProcsAreTyped'
      BY <1>a, <1>c, NumbersAreNat, TypeParts DEF ProcsAreTyped, Place
    <2>4. CountersAreTyped'
      BY <1>a, <1>b, TypeParts DEF CountersAreTyped
    <2> QED
      BY <2>1, <2>2, <2>3, <2>4, TypePartsNext
  <1>2. PositionsExist'
    BY <1>a, <1>b, <1>c, PositionsStay
  <1>3. HistoriesAreComplete'
    BY <1>a, <1>b DEF HistoriesAreComplete
  <1>4. TurnsAreOwn'
    BY <1>a, <1>b, <1>c, TurnsStayOwn DEF Running, TypeOK
  <1>5. BasesAreCurrent'
    BY <1>a, <1>b, <1>c DEF BasesAreCurrent, TypeOK
  <1>6. StartsComeFirst'
    BY <1>a, <1>b, <1>c, StartsStayFirst DEF Running, TypeOK
  <1>7. AnchorsAreOpen'
    BY <1>a, <1>b, <1>c, AnchorsStayOpen DEF TypeOK
  <1> QED
    BY <1>1, <1>2, <1>3, <1>4, <1>5, <1>6, <1>7

\* The terminal of the catch clause.
LEMMA TerminatePreserves ==
  ASSUME CompactInvariant, NEW p \in Proc, Terminate(p)
  PROVE  CompactInvariant'
  <1> USE DEF CompactInvariant
  <1>a. /\ turn[p] \in Turn /\ at[p] \in {"retry", "fail"}
        /\ saved' = saved /\ state' = state /\ replaced' = replaced
        /\ next' = next /\ shared' = shared /\ notes' = notes /\ crashes' = crashes
        /\ turn' = turn /\ source' = source /\ todo' = todo /\ found' = found
    BY DEF Terminate, TypeOK, TurnsAreOwn, Running, fileVars, budget
  <1> PICK o \in Outcome : /\ AppendCompact(o, turn[p], IF at[p] = "retry" THEN "completed" ELSE "failed")
                           /\ Goto(p, "end")
    BY DEF Terminate
  <1>b. /\ cursor' \in Nat /\ lastFact' \in Nat
        /\ facts' \in [Turn -> Seq({"started", "completed", "failed"})]
        /\ refusals' \in 0 .. MaxRefusals /\ late' \in 0 .. MaxLate
        /\ cursor <= cursor' /\ lastFact' <= cursor'
        /\ \A u \in Turn : u # turn[p] => facts'[u] = facts[u]
        /\ facts[turn[p]] # <<>> => facts'[turn[p]] # <<>>
        /\ \/ facts' = facts /\ lastFact' = lastFact
           \/ lastFact' = cursor + 1
        /\ active' = active /\ committed' = committed /\ commits' = commits
    BY <1>a, AppendAddsAnEvent, SMTT(30)
  <1>c. anchor' = anchor /\ at' = [at EXCEPT ![p] = "end"]
    BY DEF Terminate, Goto
  <1>1. TypeOK'
    <2>1. LogIsTyped'
      BY <1>b, TypeParts DEF LogIsTyped
    <2>2. FilesAreTyped'
      BY <1>a, TypeParts DEF FilesAreTyped
    <2>3. ProcsAreTyped'
      BY <1>a, <1>c, NumbersAreNat, TypeParts DEF ProcsAreTyped, Place
    <2>4. CountersAreTyped'
      BY <1>a, <1>b, TypeParts DEF CountersAreTyped
    <2> QED
      BY <2>1, <2>2, <2>3, <2>4, TypePartsNext
  <1>2. PositionsExist'
    BY <1>a, <1>b, <1>c, PositionsStay
  <1>3. HistoriesAreComplete'
    BY <1>a, <1>b DEF HistoriesAreComplete
  <1>4. TurnsAreOwn'
    BY <1>a, <1>b, <1>c, TurnsStayOwn DEF Running, TypeOK
  <1>5. BasesAreCurrent'
    BY <1>a, <1>b, <1>c DEF BasesAreCurrent, TypeOK
  <1>6. StartsComeFirst'
    BY <1>a, <1>b, <1>c, StartsStayFirst DEF Running, TypeOK
  <1>7. AnchorsAreOpen'
    BY <1>a, <1>b, <1>c, AnchorsStayOpen DEF TypeOK
  <1> QED
    BY <1>1, <1>2, <1>3, <1>4, <1>5, <1>6, <1>7

\* The start of a transaction.
LEMMA StartedPreserves ==
  ASSUME CompactInvariant, NEW p \in Proc, Started(p)
  PROVE  CompactInvariant'
  <1> USE DEF CompactInvariant
  <1>a. /\ turn[p] \in Turn /\ at[p] \in {"start"}
        /\ saved' = saved /\ state' = state /\ replaced' = replaced
        /\ next' = next /\ shared' = shared /\ notes' = notes /\ crashes' = crashes
        /\ turn' = turn /\ source' = source /\ todo' = todo /\ found' = found
    BY DEF Started, TypeOK, TurnsAreOwn, Running, fileVars, budget
  <1> PICK o \in Outcome : /\ AppendCompact(o, turn[p], "started")
                           /\ IF o = "returned" /\ cursor = source[p].cursor
                              THEN Goto(p, "prepare") /\ anchor' = [anchor EXCEPT ![p] = cursor + 1]
                              ELSE Goto(p, "end") /\ UNCHANGED anchor
    BY DEF Started
  <1>b. /\ cursor' \in Nat /\ lastFact' \in Nat
        /\ facts' \in [Turn -> Seq({"started", "completed", "failed"})]
        /\ refusals' \in 0 .. MaxRefusals /\ late' \in 0 .. MaxLate
        /\ cursor <= cursor' /\ lastFact' <= cursor'
        /\ \A u \in Turn : u # turn[p] => facts'[u] = facts[u]
        /\ facts[turn[p]] # <<>> => facts'[turn[p]] # <<>>
        /\ \/ facts' = facts /\ lastFact' = lastFact
           \/ lastFact' = cursor + 1
        /\ active' = active /\ committed' = committed /\ commits' = commits
    BY <1>a, AppendAddsAnEvent, SMTT(30)
  <1>c. \/ at' = [at EXCEPT ![p] = "end"] /\ anchor' = anchor
        \/ /\ at' = [at EXCEPT ![p] = "prepare"] /\ anchor' = [anchor EXCEPT ![p] = cursor + 1]
           /\ cursor' = cursor + 1 /\ facts'[turn[p]] = <<"started">>
    <2>1. o = "returned" => Durable(o)
      BY DEF Durable
    <2>2. facts[turn[p]] = <<>>
      BY <1>a DEF StartsComeFirst
    <2>3. Durable(o) => cursor' = cursor + 1 /\ facts'[turn[p]] = <<"started">>
      BY <1>a, <2>2, AppendAddsAnEvent
    <2> QED
      BY <2>1, <2>3 DEF Goto
  <1>1. TypeOK'
    <2>1. LogIsTyped'
      BY <1>b, TypeParts DEF LogIsTyped
    <2>2. FilesAreTyped'
      BY <1>a, TypeParts DEF FilesAreTyped
    <2>3. ProcsAreTyped'
      BY <1>a, <1>c, NumbersAreNat, TypeParts DEF ProcsAreTyped, Place
    <2>4. CountersAreTyped'
      BY <1>a, <1>b, TypeParts DEF CountersAreTyped
    <2> QED
      BY <2>1, <2>2, <2>3, <2>4, TypePartsNext
  <1>2. PositionsExist'
    <2>1. \A q \in Proc : anchor'[q] = anchor[q] \/ anchor'[q] <= cursor'
      BY <1>b, <1>c DEF TypeOK
    <2> QED
      BY <1>a, <1>b, <2>1, PositionsStay
  <1>3. HistoriesAreComplete'
    BY <1>a, <1>b DEF HistoriesAreComplete
  <1>4. TurnsAreOwn'
    BY <1>a, <1>b, <1>c, TurnsStayOwn DEF Running, TypeOK
  <1>5. BasesAreCurrent'
    BY <1>a, <1>b, <1>c DEF BasesAreCurrent, TypeOK
  <1>6. StartsComeFirst'
    BY <1>a, <1>b, <1>c, StartsStayFirst DEF Running, TypeOK
  <1>7. AnchorsAreOpen'
    BY <1>a, <1>b, <1>c, AnchorsStayOpen DEF TypeOK
  <1> QED
    BY <1>1, <1>2, <1>3, <1>4, <1>5, <1>6, <1>7

\* Recovery appends the terminal of an orphan, which has started.
LEMMA CloseOrphanPreserves ==
  ASSUME CompactInvariant, NEW p \in Proc, CloseOrphan(p)
  PROVE  CompactInvariant'
  <1> USE DEF CompactInvariant
  <1>a. /\ turn[p] \in Turn /\ at[p] = "adopting" /\ facts[turn[p]] # <<>> /\ turn[p] < next
        /\ saved' = saved /\ state' = state /\ replaced' = replaced
        /\ next' = next /\ shared' = shared /\ notes' = notes /\ crashes' = crashes
    <2>1. turn[p] \in todo[p]
      BY DEF CloseOrphan, StartsComeFirst
    <2>2. turn[p] \in Turn /\ facts[turn[p]] # <<>> /\ turn[p] < next
      BY <2>1 DEF StartsComeFirst, TurnsAreOwn, TypeOK
    <2> QED
      BY <2>2 DEF CloseOrphan, fileVars, budget
  <1> PICK o \in Outcome :
        /\ AppendCompact(o, turn[p], IF found[p] THEN "completed" ELSE "failed")
        /\ IF o = "returned"
           THEN /\ Goto(p, "recovering")
                /\ todo' = [todo EXCEPT ![p] = @ \ {turn[p]}]
                /\ UNCHANGED <<turn, source, anchor, found>>
           ELSE Forget(p)
    BY DEF CloseOrphan
  <1>b. /\ cursor' \in Nat /\ lastFact' \in Nat
        /\ facts' \in [Turn -> Seq({"started", "completed", "failed"})]
        /\ refusals' \in 0 .. MaxRefusals /\ late' \in 0 .. MaxLate
        /\ cursor <= cursor' /\ lastFact' <= cursor'
        /\ \A u \in Turn : u # turn[p] => facts'[u] = facts[u]
        /\ facts'[turn[p]] # <<>>
        /\ \/ facts' = facts /\ lastFact' = lastFact
           \/ lastFact' = cursor + 1
        /\ active' = active /\ committed' = committed /\ commits' = commits
    BY <1>a, AppendAddsAnEvent, SMTT(30)
  <1>c. PICK place \in {"recovering", "closed"}, own \in {turn[p], NoTurn}, s \in Source, n \in Nat,
             T \in SUBSET todo[p], f \in BOOLEAN :
          /\ at' = [at EXCEPT ![p] = place] /\ turn' = [turn EXCEPT ![p] = own]
          /\ source' = [source EXCEPT ![p] = s]
          /\ anchor' = [anchor EXCEPT ![p] = n] /\ n <= cursor
          /\ todo' = [todo EXCEPT ![p] = T] /\ found' = [found EXCEPT ![p] = f]
    <2>1. CASE o = "returned"
      <3>1. /\ at' = [at EXCEPT ![p] = "recovering"] /\ turn' = [turn EXCEPT ![p] = turn[p]]
            /\ source' = [source EXCEPT ![p] = source[p]]
            /\ anchor' = [anchor EXCEPT ![p] = anchor[p]]
            /\ todo' = [todo EXCEPT ![p] = todo[p] \ {turn[p]}]
            /\ found' = [found EXCEPT ![p] = found[p]]
        BY <2>1 DEF Goto, TypeOK
      <3>2. /\ source[p] \in Source /\ anchor[p] \in Nat /\ found[p] \in BOOLEAN
            /\ anchor[p] <= cursor
        BY DEF TypeOK, PositionsExist
      <3> QED
        BY <3>1, <3>2
    <2>2. CASE o # "returned"
      <3>1. 0 \in Nat /\ 0 <= cursor /\ NoSource \in Source /\ FALSE \in BOOLEAN
        BY NoneIsTyped, NumbersAreNat
      <3>2. {} \in SUBSET todo[p]
        OBVIOUS
      <3> QED
        BY <2>2, <3>1, <3>2 DEF Goto, Forget
    <2> QED
      BY <2>1, <2>2
  <1>1. TypeOK'
    <2>1. LogIsTyped'
      BY <1>b, TypeParts DEF LogIsTyped
    <2>2. FilesAreTyped'
      BY <1>a, TypeParts DEF FilesAreTyped
    <2>3. ProcsAreTyped'
      BY <1>a, <1>c, TypeParts DEF ProcsAreTyped, Place
    <2>4. CountersAreTyped'
      BY <1>a, <1>b, TypeParts DEF CountersAreTyped
    <2> QED
      BY <2>1, <2>2, <2>3, <2>4, TypePartsNext
  <1>d. \A q \in Proc : q # p =>
          /\ at'[q] = at[q] /\ turn'[q] = turn[q] /\ source'[q] = source[q]
          /\ anchor'[q] = anchor[q] /\ todo'[q] = todo[q]
    BY <1>c DEF TypeOK
  <1>e. /\ at'[p] \in {"recovering", "closed"} /\ turn'[p] \in {turn[p], NoTurn}
        /\ anchor'[p] \in Nat /\ anchor'[p] <= cursor /\ todo'[p] \subseteq todo[p]
    BY <1>c DEF TypeOK
  <1>2. PositionsExist'
    <2>1. ASSUME NEW q \in Proc PROVE anchor'[q] = anchor[q] \/ anchor'[q] <= cursor'
      <3>1. CASE q = p
        <4>1. cursor \in Nat
          BY NumbersAreNat
        <4> QED
          BY <1>b, <1>e, <3>1, <4>1
      <3>2. CASE q # p
        BY <1>d, <3>2
      <3> QED
        BY <3>1, <3>2
    <2> QED
      BY <1>a, <1>b, <2>1, PositionsStay
  <1>3. HistoriesAreComplete'
    BY <1>a, <1>b DEF HistoriesAreComplete
  <1>4. TurnsAreOwn'
    <2>1. NoTurn < next
      BY BoundsAreNat DEF TypeOK, NoTurn
    <2>2. \A q \in Proc : turn'[q] < next'
      BY <1>a, <1>d, <1>e, <2>1 DEF TurnsAreOwn
    <2>3. \A q \in Proc : at'[q] \in Running => q # p
      BY <1>e DEF Running
    <2> QED
      BY <1>a, <1>b, <1>d, <2>2, <2>3 DEF TurnsAreOwn
  <1>5. BasesAreCurrent'
    BY <1>b, <1>d, <1>e DEF BasesAreCurrent
  <1>6. StartsComeFirst'
    <2>1. ASSUME NEW t \in Turn, t >= next PROVE facts'[t] = <<>>
      <3>1. t # turn[p]
        BY <1>a, <2>1, NumbersAreNat
      <3> QED
        BY <1>b, <2>1, <3>1 DEF StartsComeFirst
    <2>2. ASSUME NEW q \in Proc, at'[q] \in {"capture", "start"} PROVE facts'[turn'[q]] = <<>>
      <3>1. q # p /\ at[q] \in {"capture", "start"} /\ turn'[q] = turn[q]
        BY <1>d, <1>e, <2>2
      <3>2. facts[turn[q]] = <<>> /\ turn[q] \in Turn
        BY <3>1 DEF StartsComeFirst, TurnsAreOwn, Running, TypeOK
      <3>3. turn[q] # turn[p]
        BY <1>a, <3>2
      <3> QED
        BY <1>b, <3>1, <3>2, <3>3
    <2>3. ASSUME NEW q \in Proc, NEW t \in todo'[q] PROVE facts'[t] # <<>>
      <3>1. t \in todo[q]
        BY <1>d, <1>e
      <3>2. t \in Turn /\ facts[t] # <<>>
        BY <3>1 DEF StartsComeFirst, TypeOK
      <3> QED
        BY <1>b, <3>2
    <2>4. ASSUME NEW q \in Proc, at'[q] = "adopting" PROVE turn'[q] \in todo'[q]
      BY <1>d, <1>e, <2>4 DEF StartsComeFirst
    <2> QED
      BY <1>a, <2>1, <2>2, <2>3, <2>4 DEF StartsComeFirst
  <1>7. AnchorsAreOpen'
    <2>1. \A q \in Proc : at'[q] = "prepare" =>
            at[q] = "prepare" /\ anchor'[q] = anchor[q] /\ turn'[q] = turn[q]
      BY <1>d, <1>e
    <2> QED
      BY <1>b, <2>1, AnchorsStayOpen
  <1> QED
    BY <1>1, <1>2, <1>3, <1>4, <1>5, <1>6, <1>7

-----------------------------------------------------------------------------
(* The theorems.                                                           *)

\* Every step, and every stutter, preserves the invariant.
LEMMA CompactStep == CompactInvariant /\ [Next]_vars => CompactInvariant'
  <1> SUFFICES ASSUME CompactInvariant, [Next]_vars PROVE CompactInvariant'
    OBVIOUS
  <1>1. CASE UNCHANGED vars
    <2>1. /\ UNCHANGED <<cursor, lastFact, facts, active, committed, commits>>
          /\ UNCHANGED <<saved, state, replaced>>
          /\ UNCHANGED <<at, turn, source, anchor, todo, found>>
          /\ UNCHANGED <<next, shared, notes, crashes, refusals, late>>
      BY <1>1 DEF vars, logVars, fileVars, procVars, budget, faultVars
    <2>2. TypeOK'
      BY <2>1 DEF CompactInvariant, TypeOK
    <2>3. PositionsExist' /\ HistoriesAreComplete' /\ TurnsAreOwn'
      BY <2>1 DEF CompactInvariant, PositionsExist, HistoriesAreComplete, TurnsAreOwn
    <2>4. BasesAreCurrent' /\ StartsComeFirst' /\ AnchorsAreOpen'
      BY <2>1 DEF CompactInvariant, BasesAreCurrent, StartsComeFirst, AnchorsAreOpen
    <2> QED
      BY <2>2, <2>3, <2>4 DEF CompactInvariant
  <1>2. ASSUME NEW p \in Proc,
               List(p) \/ FindOrphan(p) \/ CloseOrphan(p) \/ RecoverIncomplete(p) \/ Die(p)
        PROVE  CompactInvariant'
    BY <1>2, ListPreserves, FindOrphanPreserves, CloseOrphanPreserves,
       RecoverIncompletePreserves, DiePreserves
  <1>3. ASSUME NEW p \in Proc, StartTurn(p) \/ Commit(p) \/ EndTurn(p) \/ Note(p)
        PROVE  CompactInvariant'
    BY <1>3, StartTurnPreserves, CommitPreserves, EndTurnPreserves, NotePreserves
  <1>4. ASSUME NEW p \in Proc,
               \/ Capture(p) \/ Started(p) \/ CandidateFails(p) \/ Conflict(p) \/ Catch(p)
               \/ Swap(p) \/ Complete(p) \/ Terminate(p)
        PROVE  CompactInvariant'
    BY <1>4, CapturePreserves, StartedPreserves, CandidatePreserves,
       SwapPreserves, CompletePreserves, TerminatePreserves
  <1> QED
    BY <1>1, <1>2, <1>3, <1>4 DEF Next

(* Every reachable state is typed, its files account for every commit, and *)
(* the log after an open transaction's anchor says that it is open: the    *)
(* invariant the other theorems rest on.                                   *)
THEOREM InvariantHolds == Spec => []CompactInvariant
  BY CompactInit, CompactStep, PTL DEF Spec

(* Type correctness of every operation of the transaction, of recovery and *)
(* of the turns between them.                                              *)
THEOREM TypeCorrect == Spec => []TypeOK
  <1>1. CompactInvariant => TypeOK
    BY DEF CompactInvariant
  <1> QED
    BY <1>1, InvariantHolds, PTL

(* However many processes run, die and fail between two writes, the        *)
(* history that resolveCompactAuthorityState selects accounts for every    *)
(* TurnCommit, and the checkpoint it comes from has been written.          *)
THEOREM HistoryIsComplete == Spec => []NothingIsForgotten
  <1>1. CompactInvariant => NothingIsForgotten
    BY AuthorityIsComplete DEF CompactInvariant, HistoriesAreComplete, NothingIsForgotten
  <1> QED
    BY <1>1, InvariantHolds, PTL

\* Only the compare-and-swap installs a pointer, and it finds its transaction open.
LEMMA SwapFindsItOpen ==
  ASSUME CompactInvariant, [Next]_vars
  PROVE  \A t \in replaced' \ replaced : facts[t] = <<"started">>
  <1>1. CASE replaced' = replaced
    BY <1>1
  <1>2. ASSUME NEW p \in Proc, Swap(p)
        PROVE  \A t \in replaced' \ replaced : facts[t] = <<"started">>
    <2>1. facts[turn[p]] = <<"started">>
      BY <1>2 DEF Swap, Recheck, AnchorsAreOpen, CompactInvariant
    <2>2. replaced' \subseteq replaced \union {turn[p]}
      BY <1>2 DEF Swap, Point
    <2> QED
      BY <2>1, <2>2
  <1>3. replaced' = replaced \/ \E p \in Proc : Swap(p)
    BY DEF Next, vars, fileVars, List, FindOrphan, CloseOrphan, RecoverIncomplete, Die,
       StartTurn, Commit, EndTurn, Note, Capture, Started, CandidateFails, Conflict,
       Complete, Catch, Terminate
  <1> QED
    BY <1>1, <1>2, <1>3

(* A transaction that recovery has closed while its candidate was computed *)
(* never replaces the history (the comparison of the log's tail in         *)
(* appendCompactCheckpointCas).                                            *)
THEOREM ClosedStayClosed == Spec => ClosedTransactionsInstallNothing
  <1>1. CompactInvariant /\ [Next]_vars => [\A t \in replaced' \ replaced : facts[t] = <<"started">>]_vars
    BY SwapFindsItOpen
  <1> QED
    BY <1>1, InvariantHolds, PTL DEF Spec, ClosedTransactionsInstallNothing

-----------------------------------------------------------------------------
(* One process at a time.                                                  *)

Closing == {"complete", "catch", "retry", "fail"}

\* What a process that is alone knows of the log.  A transaction it runs is open
\* until its terminal is written; a pointer it has installed is still there, and
\* only an append that failed can lead it to `retry`.
OpenedFits(p) ==
  /\ at[p] \in {"recovering", "adopting"} => todo[p] = Orphans
  /\ at[p] = "adopting" => (found[p] <=> IsInstalled(turn[p]))
  /\ at[p] = "prepare" => facts[turn[p]] = <<"started">>
  /\ at[p] \in Closing => facts[turn[p]] # <<>>
  /\ at[p] \in Closing /\ late = 0 => facts[turn[p]] = <<"started">>
EndingFits(p) ==
  /\ at[p] \in Closing /\ turn[p] \in replaced => IsInstalled(turn[p])
  /\ at[p] \in {"complete", "retry"} => turn[p] \in replaced
  /\ at[p] = "fail" => turn[p] \notin replaced
  /\ at[p] \in {"catch", "retry"} /\ turn[p] \in replaced => refusals + late > 0
  /\ at[p] \in Running \union {"idle"} =>
       \A t \in replaced : facts[t] = <<"started">> => at[p] \in Closing /\ t = turn[p]

\* An open transaction whose pointer was installed is the one that has the
\* pointer; terminals are true.
LogFits ==
  /\ late = 0 => Replayable
  /\ refusals + late <= 1 =>
       /\ \A t \in replaced : facts[t] = <<"started">> => IsInstalled(t)
       /\ \A t \in Turn :
            /\ (\E i \in DOMAIN facts[t] : facts[t][i] = "completed") => t \in replaced
            /\ (\E i \in DOMAIN facts[t] : facts[t][i] = "failed") => t \notin replaced

LoneInvariant ==
  /\ \A t \in replaced : facts[t] # <<>>
  /\ state.turn # NoTurn => state.turn \in replaced
  /\ ~shared =>
       /\ \A p, q \in Proc : at[p] # "closed" /\ at[q] # "closed" => p = q
       /\ LogFits
       /\ \A p \in Proc : OpenedFits(p) /\ (refusals + late <= 1 => EndingFits(p))

LEMMA LoneFacts ==
  ASSUME LoneInvariant, NEW p \in Proc, at[p] # "closed", ~shared
  PROVE  /\ LogFits /\ OpenedFits(p) /\ (refusals + late <= 1 => EndingFits(p))
         /\ \A q \in Proc : q # p => at[q] = "closed"
  BY DEF LoneInvariant

LEMMA LoneSuffices ==
  ASSUME NEW p \in Proc, \A t \in replaced' : facts'[t] # <<>>,
         state'.turn # NoTurn => state'.turn \in replaced',
         ~shared' => /\ LogFits' /\ OpenedFits(p)'
                     /\ (refusals' + late' <= 1 => EndingFits(p)')
                     /\ \A q \in Proc : q # p => at'[q] = "closed"
  PROVE  LoneInvariant'
  <1> SUFFICES ASSUME ~shared'
               PROVE  /\ \A q, r \in Proc : at'[q] # "closed" /\ at'[r] # "closed" => q = r
                      /\ LogFits'
                      /\ \A q \in Proc : /\ OpenedFits(q)'
                                         /\ refusals' + late' <= 1 => EndingFits(q)'
    BY DEF LoneInvariant
  <1>1. ASSUME NEW q \in Proc, q # p
        PROVE  OpenedFits(q)' /\ EndingFits(q)'
    <2>1. at'[q] = "closed"
      BY <1>1
    <2> QED
      BY <2>1 DEF OpenedFits, EndingFits, Closing, Running
  <1> QED
    BY <1>1

\* A step that neither ends a transaction nor installs a pointer, nor fails.
LEMMA QuietStep ==
  ASSUME LoneInvariant, NEW p \in Proc, at[p] # "closed",
         UNCHANGED <<facts, state, replaced, refusals, late, shared>>,
         \A q \in Proc : q # p => at'[q] = at[q],
         OpenedFits(p) => OpenedFits(p)',
         LogFits /\ OpenedFits(p) /\ EndingFits(p) => EndingFits(p)'
  PROVE  LoneInvariant'
  <1>1. /\ \A t \in replaced' : facts'[t] # <<>>
        /\ state'.turn # NoTurn => state'.turn \in replaced'
    BY DEF LoneInvariant
  <1>2. ASSUME ~shared'
        PROVE  /\ LogFits' /\ OpenedFits(p)'
               /\ (refusals' + late' <= 1 => EndingFits(p)')
               /\ \A q \in Proc : q # p => at'[q] = "closed"
    <2>1. /\ LogFits /\ OpenedFits(p) /\ (refusals + late <= 1 => EndingFits(p))
          /\ \A q \in Proc : q # p => at[q] = "closed"
      BY <1>2, LoneFacts
    <2>2. LogFits'
      BY <2>1 DEF LogFits, Replayable, IsInstalled
    <2> QED
      BY <2>1, <2>2
  <1> QED
    BY <1>1, <1>2, LoneSuffices

LEMMA AtStays ==
  ASSUME TypeOK, NEW p \in Proc, NEW place, Goto(p, place)
  PROVE  at'[p] = place /\ \A q \in Proc : q # p => at'[q] = at[q]
  BY DEF TypeOK, Goto

LEMMA LoneInit == Init => LoneInvariant
  BY DEF Init, LoneInvariant, NotInstalled, LogFits, Replayable, Brackets, OpenedFits, EndingFits,
     Closing, Running, Turn

LEMMA ListKeepsLone ==
  ASSUME CompactInvariant, LoneInvariant, NEW p \in Proc, List(p)
  PROVE  LoneInvariant'
  <1>1. /\ TypeOK /\ Goto(p, "recovering") /\ todo' = [todo EXCEPT ![p] = Orphans]
        /\ shared' = (shared \/ \E q \in Proc \ {p} : at[q] # "closed")
        /\ UNCHANGED <<facts, state, replaced, refusals, late>>
    BY DEF CompactInvariant, List, logVars, fileVars, faultVars
  <1>2. at'[p] = "recovering" /\ \A q \in Proc : q # p => at'[q] = at[q]
    BY <1>1, AtStays
  <1>3. /\ \A t \in replaced' : facts'[t] # <<>>
        /\ state'.turn # NoTurn => state'.turn \in replaced'
    BY <1>1 DEF LoneInvariant
  <1>4. ASSUME ~shared'
        PROVE  /\ LogFits' /\ OpenedFits(p)' /\ EndingFits(p)'
               /\ \A q \in Proc : q # p => at'[q] = "closed"
    <2>1. LogFits
      BY <1>1, <1>4 DEF LoneInvariant
    <2>2. LogFits'
      BY <1>1, <2>1 DEF LogFits, Replayable, IsInstalled
    <2>3. todo'[p] = Orphans'
      BY <1>1 DEF TypeOK, Orphans
    <2> QED
      BY <1>1, <1>2, <1>4, <2>2, <2>3 DEF OpenedFits, EndingFits, Closing, Running
  <1> QED
    BY <1>3, <1>4, LoneSuffices

LEMMA FindOrphanKeepsLone ==
  ASSUME CompactInvariant, LoneInvariant, NEW p \in Proc, FindOrphan(p)
  PROVE  LoneInvariant'
  <1>1. /\ TypeOK /\ at[p] = "recovering" /\ Goto(p, "adopting")
        /\ UNCHANGED <<facts, state, replaced, refusals, late, shared, todo>>
    BY DEF CompactInvariant, FindOrphan, logVars, fileVars, faultVars
  <1>2. PICK t \in todo[p] : /\ turn' = [turn EXCEPT ![p] = t]
                             /\ found' = [found EXCEPT ![p] = IsInstalled(t)]
    BY DEF FindOrphan
  <1>3. at'[p] = "adopting" /\ \A q \in Proc : q # p => at'[q] = at[q]
    BY <1>1, AtStays
  <1>4. found'[p] <=> IsInstalled(turn[p])'
    BY <1>1, <1>2 DEF TypeOK, IsInstalled
  <1>5. OpenedFits(p) => OpenedFits(p)'
    BY <1>1, <1>3, <1>4 DEF OpenedFits, Orphans, Closing
  <1>6. EndingFits(p)'
    BY <1>3 DEF EndingFits, Closing, Running
  <1> QED
    BY <1>1, <1>3, <1>5, <1>6, QuietStep

LEMMA RecoverIncompleteKeepsLone ==
  ASSUME CompactInvariant, LoneInvariant, NEW p \in Proc, RecoverIncomplete(p)
  PROVE  LoneInvariant'
  <1>1. /\ TypeOK /\ at[p] = "recovering" /\ todo[p] = {} /\ Goto(p, "idle")
        /\ UNCHANGED <<facts, state, replaced, refusals, late, shared>>
    BY DEF CompactInvariant, RecoverIncomplete, AppendTurn, logVars, fileVars, faultVars
  <1>2. at'[p] = "idle" /\ \A q \in Proc : q # p => at'[q] = at[q]
    BY <1>1, AtStays
  <1>3. OpenedFits(p)'
    BY <1>2 DEF OpenedFits, Closing
  <1>4. OpenedFits(p) => EndingFits(p)'
    <2>1. OpenedFits(p) => \A t \in replaced' : facts'[t] # <<"started">>
      BY <1>1 DEF OpenedFits, Orphans, TypeOK
    <2> QED
      BY <1>2, <2>1 DEF EndingFits, Closing
  <1> QED
    BY <1>1, <1>2, <1>3, <1>4, QuietStep

\* Turns begin and end without a transaction of theirs being open.
LEMMA TurnStepsKeepLone ==
  ASSUME CompactInvariant, LoneInvariant, NEW p \in Proc,
         StartTurn(p) \/ Commit(p) \/ EndTurn(p) \/ Capture(p)
  PROVE  LoneInvariant'
  <1>1. /\ TypeOK /\ UNCHANGED <<facts, state, replaced, refusals, late, shared>>
    BY DEF CompactInvariant, StartTurn, Commit, EndTurn, Capture, AppendTurn, logVars, fileVars, faultVars
  <1>2. PICK place \in {"idle", "turn", "capture", "start", "end"} : Goto(p, place)
    BY DEF StartTurn, Commit, EndTurn, Capture
  <1>3. at[p] \in {"idle", "turn", "capture", "end"}
    BY DEF StartTurn, Commit, EndTurn, Capture
  <1>4. at'[p] = place /\ \A q \in Proc : q # p => at'[q] = at[q]
    BY <1>1, <1>2, AtStays
  <1>5. OpenedFits(p)'
    BY <1>4 DEF OpenedFits, Closing
  <1>6. EndingFits(p) => EndingFits(p)'
    BY <1>1, <1>3, <1>4 DEF EndingFits, Closing, Running
  <1> QED
    BY <1>1, <1>3, <1>4, <1>5, <1>6, QuietStep

LEMMA NoteKeepsLone ==
  ASSUME CompactInvariant, LoneInvariant, NEW p \in Proc, Note(p)
  PROVE  LoneInvariant'
  <1>1. /\ UNCHANGED <<facts, state, replaced, refusals, late, shared, at, turn, todo, found>>
        /\ at[p] # "closed"
    BY DEF Note, fileVars, procVars, faultVars
  <1>2. (OpenedFits(p) => OpenedFits(p)') /\ (EndingFits(p) => EndingFits(p)')
    BY <1>1 DEF OpenedFits, EndingFits, IsInstalled, Orphans
  <1> QED
    BY <1>1, <1>2, QuietStep

\* The candidate fails or is refused: its pointer has not been installed.
LEMMA CandidateKeepsLone ==
  ASSUME CompactInvariant, LoneInvariant, NEW p \in Proc, CandidateFails(p) \/ Conflict(p)
  PROVE  LoneInvariant'
  <1>1. /\ TypeOK /\ at[p] = "prepare" /\ Goto(p, "catch")
        /\ UNCHANGED <<facts, state, replaced, refusals, late, shared, turn>>
    BY DEF CompactInvariant, CandidateFails, Conflict, logVars, fileVars, faultVars
  <1>2. at'[p] = "catch" /\ \A q \in Proc : q # p => at'[q] = at[q]
    BY <1>1, AtStays
  <1>3. OpenedFits(p) => OpenedFits(p)'
    BY <1>1, <1>2, OneEventIsSome DEF OpenedFits, Closing
  <1>4. OpenedFits(p) /\ EndingFits(p) => EndingFits(p)'
    BY <1>1, <1>2 DEF OpenedFits, EndingFits, Closing, Running
  <1> QED
    BY <1>1, <1>2, <1>3, <1>4, QuietStep

\* The catch clause finds the pointer exactly when it was installed.
LEMMA CatchKeepsLone ==
  ASSUME CompactInvariant, LoneInvariant, NEW p \in Proc, Catch(p)
  PROVE  LoneInvariant'
  <1>1. /\ TypeOK /\ at[p] = "catch" /\ turn[p] # NoTurn
        /\ Goto(p, IF IsInstalled(turn[p]) THEN "retry" ELSE "fail")
        /\ UNCHANGED <<facts, state, replaced, refusals, late, shared, turn>>
    BY DEF CompactInvariant, TurnsAreOwn, Running, Catch, logVars, fileVars, faultVars
  <1>2. /\ at'[p] = IF IsInstalled(turn[p]) THEN "retry" ELSE "fail"
        /\ \A q \in Proc : q # p => at'[q] = at[q]
    BY <1>1, AtStays
  <1>3. IsInstalled(turn[p]) => turn[p] \in replaced
    BY <1>1 DEF IsInstalled, LoneInvariant
  <1>4. OpenedFits(p) => OpenedFits(p)'
    BY <1>1, <1>2 DEF OpenedFits, Closing
  <1>5. EndingFits(p) => EndingFits(p)'
    BY <1>1, <1>2, <1>3 DEF EndingFits, Closing, Running, IsInstalled
  <1> QED
    BY <1>1, <1>2, <1>4, <1>5, QuietStep

LEMMA DieKeepsLone ==
  ASSUME CompactInvariant, LoneInvariant, NEW p \in Proc, Die(p)
  PROVE  LoneInvariant'
  <1>1. /\ TypeOK /\ at[p] # "closed" /\ Goto(p, "closed")
        /\ UNCHANGED <<facts, state, replaced, refusals, late, shared>>
    BY DEF CompactInvariant, Die, Forget, logVars, fileVars, faultVars
  <1>2. at'[p] = "closed" /\ \A q \in Proc : q # p => at'[q] = at[q]
    BY <1>1, AtStays
  <1>3. OpenedFits(p)' /\ EndingFits(p)'
    BY <1>2 DEF OpenedFits, EndingFits, Closing, Running
  <1> QED
    BY <1>1, <1>2, <1>3, QuietStep

LEMMA SecondEvent ==
  ASSUME NEW S, NEW x \in S, NEW y \in S, NEW s \in Seq(S), s = <<x>>
  PROVE  Append(s, y) = <<x, y>>
  <1> DEFINE appended == Append(s, y)
             both == <<x, y>>
  <1>1. Len(s) = 1 /\ s[1] = x
    OBVIOUS
  <1>2. Len(appended) = 2 /\ appended[1] = x /\ appended[2] = y
    BY <1>1
  <1>3. Len(both) = 2 /\ both[1] = x /\ both[2] = y
    OBVIOUS
  <1>4. appended \in Seq(S) /\ both \in Seq(S)
    OBVIOUS
  <1> HIDE DEF appended, both
  <1>5. Len(appended) = Len(both) /\ \A i \in 1 .. Len(appended) : appended[i] = both[i]
    BY <1>2, <1>3
  <1>6. appended = both
    BY <1>4, <1>5
  <1> QED
    BY <1>6 DEF appended, both

\* An append that is durable ends a bracket or begins one; the counters of the
\* faults only grow.
LEMMA AppendedEvents ==
  ASSUME TypeOK, NEW o \in Outcome, NEW t \in Turn,
         NEW type \in {"started", "completed", "failed"}, AppendCompact(o, t, type)
  PROVE  /\ facts' = facts \/ (Durable(o) /\ facts'[t] = Append(facts[t], type))
         /\ Durable(o) => facts'[t] = Append(facts[t], type)
         /\ \A u \in Turn : u # t => facts'[u] = facts[u]
         /\ \A u \in Turn : facts[u] # <<>> => facts'[u] # <<>>
         /\ Durable(o) /\ facts[t] # <<>> => facts'[t] # <<"started">>
         /\ \A u \in Turn : \A x \in {"completed", "failed"} :
               (\E i \in DOMAIN facts'[u] : facts'[u][i] = x) =>
                   \/ \E i \in DOMAIN facts[u] : facts[u][i] = x
                   \/ u = t /\ x = type
  <1>1. /\ facts \in [Turn -> Seq({"started", "completed", "failed"})]
        /\ facts' = IF Durable(o) THEN [facts EXCEPT ![t] = Append(@, type)] ELSE facts
    BY DEF TypeOK, AppendCompact
  <1> DEFINE s == facts[t]
  <1>2. s \in Seq({"started", "completed", "failed"})
    BY <1>1
  <1> HIDE DEF s
  <1>3. /\ Append(s, type) # <<>>
        /\ s # <<>> => Append(s, type) # <<"started">>
        /\ \A i \in DOMAIN Append(s, type) :
              (i \in DOMAIN s /\ Append(s, type)[i] = s[i]) \/ Append(s, type)[i] = type
    <2>1. /\ Len(s) \in Nat /\ DOMAIN s = 1 .. Len(s)
          /\ Len(Append(s, type)) = Len(s) + 1 /\ DOMAIN Append(s, type) = 1 .. Len(s) + 1
          /\ Append(s, type)[Len(s) + 1] = type
          /\ \A i \in 1 .. Len(s) : Append(s, type)[i] = s[i]
      BY <1>2
    <2>2. s # <<>> => Len(s) # 0
      BY <1>2
    <2>3. Len(<<"started">>) = 1
      OBVIOUS
    <2>4. s # <<>> => Append(s, type) # <<"started">>
      BY <2>1, <2>2, <2>3
    <2> QED
      BY <1>2, <2>1, <2>4
  <1>4. CASE Durable(o)
    <2>1. /\ facts'[t] = Append(s, type)
          /\ \A u \in Turn : u # t => facts'[u] = facts[u]
      BY <1>1, <1>4 DEF s
    <2>2. ASSUME NEW u \in Turn, NEW x \in {"completed", "failed"},
                 NEW i \in DOMAIN facts'[u], facts'[u][i] = x
          PROVE  (\E j \in DOMAIN facts[u] : facts[u][j] = x) \/ (u = t /\ x = type)
      BY <1>3, <2>1, <2>2 DEF s
    <2> QED
      BY <1>3, <1>4, <2>1, <2>2 DEF s
  <1>5. CASE ~Durable(o)
    BY <1>1, <1>5
  <1> QED
    BY <1>4, <1>5

LEMMA FaultsOnlyGrow ==
  ASSUME TypeOK, NEW o \in Outcome, Faults(o)
  PROVE  /\ refusals \in Nat /\ late \in Nat /\ refusals' \in Nat /\ late' \in Nat
         /\ late' = 0 => late = 0 /\ o # "late"
         /\ refusals' + late' <= 1 => refusals + late <= 1
         /\ o # "returned" => refusals' + late' > 0
         /\ o # "returned" /\ refusals + late > 0 => refusals' + late' > 1
  <1>1. refusals \in Nat /\ late \in Nat
    BY BoundsAreNat DEF TypeOK
  <1>2. o \in {"returned", "refused", "late"}
    BY DEF Outcome
  <1> QED
    BY <1>1, <1>2 DEF Faults

\* A true terminal of a transaction that has started leaves a log that fits.
LEMMA TerminalKeepsLog ==
  ASSUME CompactInvariant, LogFits, NEW o \in Outcome, NEW t \in Turn,
         NEW type \in {"completed", "failed"}, AppendCompact(o, t, type),
         UNCHANGED <<state, replaced>>, facts[t] # <<>>, late = 0 => facts[t] = <<"started">>,
         refusals + late <= 1 => (type = "completed" <=> t \in replaced)
  PROVE  LogFits'
  <1>1. /\ TypeOK /\ Faults(o) /\ replaced \subseteq Turn
    BY DEF CompactInvariant, TypeOK, AppendCompact
  <1>2. /\ facts' = facts \/ (Durable(o) /\ facts'[t] = Append(facts[t], type))
        /\ \A u \in Turn : u # t => facts'[u] = facts[u]
        /\ Durable(o) /\ facts[t] # <<>> => facts'[t] # <<"started">>
        /\ \A u \in Turn : \A x \in {"completed", "failed"} :
              (\E i \in DOMAIN facts'[u] : facts'[u][i] = x) =>
                  \/ \E i \in DOMAIN facts[u] : facts[u][i] = x
                  \/ u = t /\ x = type
    BY <1>1, AppendedEvents
  <1>3. ASSUME late' = 0
        PROVE  Replayable'
    <2>1. late = 0 /\ facts[t] = <<"started">> /\ Replayable
      BY <1>1, <1>3, FaultsOnlyGrow DEF LogFits
    <2>2. Append(facts[t], type) = <<"started", type>>
      <3>1. /\ facts[t] \in Seq({"started", "completed", "failed"})
            /\ "started" \in {"started", "completed", "failed"}
            /\ type \in {"started", "completed", "failed"}
        BY <1>1 DEF TypeOK
      <3> QED
        BY <2>1, <3>1, SecondEvent
    <2>3. facts'[t] \in Brackets
      BY <1>2, <2>1, <2>2 DEF Brackets, Replayable
    <2> QED
      BY <1>2, <2>1, <2>3 DEF Replayable, Brackets
  <1>4. ASSUME refusals' + late' <= 1
        PROVE  /\ \A u \in replaced' : facts'[u] = <<"started">> => IsInstalled(u)'
               /\ \A u \in Turn :
                     /\ (\E i \in DOMAIN facts'[u] : facts'[u][i] = "completed") => u \in replaced'
                     /\ (\E i \in DOMAIN facts'[u] : facts'[u][i] = "failed") => u \notin replaced'
    <2>1. refusals + late <= 1
      BY <1>1, <1>4, FaultsOnlyGrow
    <2>2. \A u \in replaced' : facts'[u] = <<"started">> => IsInstalled(u)'
      <3>1. ASSUME NEW u \in replaced', facts'[u] = <<"started">>
            PROVE  facts[u] = <<"started">>
        BY <1>1, <1>2, <3>1
      <3> QED
        BY <2>1, <3>1 DEF LogFits, IsInstalled
    <2>3. ASSUME NEW u \in Turn, \E i \in DOMAIN facts'[u] : facts'[u][i] = "completed"
          PROVE  u \in replaced'
      BY <1>2, <2>1, <2>3 DEF LogFits
    <2>4. ASSUME NEW u \in Turn, \E i \in DOMAIN facts'[u] : facts'[u][i] = "failed"
          PROVE  u \notin replaced'
      BY <1>2, <2>1, <2>4 DEF LogFits
    <2> QED
      BY <2>2, <2>3, <2>4
  <1> QED
    BY <1>3, <1>4 DEF LogFits

\* Recovery closes an orphan as what its pointer says.
LEMMA CloseOrphanKeepsLone ==
  ASSUME CompactInvariant, LoneInvariant, NEW p \in Proc, CloseOrphan(p)
  PROVE  LoneInvariant'
  <1> DEFINE t == turn[p]
             type == IF found[p] THEN "completed" ELSE "failed"
  <1>1. PICK o \in Outcome :
          /\ AppendCompact(o, turn[p], IF found[p] THEN "completed" ELSE "failed")
          /\ IF o = "returned"
             THEN /\ Goto(p, "recovering")
                  /\ todo' = [todo EXCEPT ![p] = @ \ {turn[p]}]
                  /\ UNCHANGED <<turn, source, anchor, found>>
             ELSE Forget(p)
    BY DEF CloseOrphan
  <1>2. /\ TypeOK /\ at[p] = "adopting" /\ UNCHANGED <<state, replaced, shared>>
        /\ t \in todo[p] /\ t \in Turn /\ facts[t] # <<>> /\ t # NoTurn
        /\ type \in {"completed", "failed"} /\ AppendCompact(o, t, type) /\ replaced \subseteq Turn
    BY <1>1, NoneIsTyped DEF CloseOrphan, CompactInvariant, StartsComeFirst, TypeOK, fileVars
  <1> HIDE DEF type
  <1>3. PICK place \in {"recovering", "closed"} :
          /\ Goto(p, place) /\ (place = "recovering" <=> o = "returned")
    BY <1>1 DEF Forget
  <1>4. at'[p] = place /\ \A q \in Proc : q # p => at'[q] = at[q]
    BY <1>2, <1>3, AtStays
  <1>5. /\ \A u \in Turn : u # t => facts'[u] = facts[u]
        /\ \A u \in Turn : facts[u] # <<>> => facts'[u] # <<>>
        /\ Durable(o) => facts'[t] # <<"started">>
    BY <1>2, AppendedEvents
  <1>6. ASSUME ~shared'
        PROVE  LogFits' /\ OpenedFits(p)'
    <2>1. LogFits /\ OpenedFits(p)
      BY <1>2, <1>6, LoneFacts
    <2>2. facts[t] = <<"started">> /\ todo[p] = Orphans /\ (found[p] <=> state.turn = t)
      BY <1>2, <2>1 DEF OpenedFits, Orphans, IsInstalled
    <2>3. refusals + late <= 1 => (type = "completed" <=> t \in replaced)
      BY <1>2, <2>1, <2>2 DEF LogFits, LoneInvariant, IsInstalled, type
    <2>4. LogFits'
      BY <1>2, <2>1, <2>2, <2>3, TerminalKeepsLog
    <2>5. o = "returned" => todo'[p] = Orphans'
      <3>1. o = "returned" => Durable(o)
        BY DEF Durable
      <3>2. o = "returned" => todo'[p] = todo[p] \ {t}
        BY <1>1, <1>2 DEF TypeOK
      <3>3. Durable(o) => Orphans' = Orphans \ {t}
        BY <1>2, <1>5 DEF Orphans
      <3> QED
        BY <2>2, <3>1, <3>2, <3>3
    <2>6. OpenedFits(p)'
      BY <1>3, <1>4, <2>5 DEF OpenedFits, Closing
    <2> QED
      BY <2>4, <2>6
  <1>7. EndingFits(p)'
    BY <1>4 DEF EndingFits, Closing, Running
  <1>8. ~shared' => \A q \in Proc : q # p => at'[q] = "closed"
    BY <1>2, <1>4, LoneFacts
  <1>9. /\ \A u \in replaced' : facts'[u] # <<>>
        /\ state'.turn # NoTurn => state'.turn \in replaced'
    BY <1>2, <1>5 DEF LoneInvariant
  <1> QED
    BY <1>6, <1>7, <1>8, <1>9, LoneSuffices

\* The terminal of a run that has installed its pointer, or has not.
LEMMA TerminalOfRunKeepsLone ==
  ASSUME CompactInvariant, LoneInvariant, NEW p \in Proc, Complete(p) \/ Terminate(p)
  PROVE  LoneInvariant'
  <1> DEFINE t == turn[p]
             type == IF at[p] \in {"complete", "retry"} THEN "completed" ELSE "failed"
  <1>1. PICK o \in Outcome, place \in {"end", "catch"} :
          /\ AppendCompact(o, t, type) /\ Goto(p, place)
          /\ at[p] = "complete" => (place = "end" <=> o = "returned")
          /\ at[p] # "complete" => place = "end"
    <2>1. CASE Complete(p)
      BY <2>1 DEF Complete
    <2>2. CASE Terminate(p)
      BY <2>2 DEF Terminate
    <2> QED
      BY <2>1, <2>2
  <1>2. /\ TypeOK /\ at[p] \in {"complete", "retry", "fail"}
        /\ UNCHANGED <<state, replaced, shared, turn>> /\ turn' = turn
        /\ t \in Turn /\ t # NoTurn /\ replaced \subseteq Turn
        /\ type \in {"completed", "failed"}
    BY NoneIsTyped DEF Complete, Terminate, CompactInvariant, TurnsAreOwn, Running, TypeOK, fileVars
  <1> HIDE DEF type
  <1>3. at'[p] = place /\ \A q \in Proc : q # p => at'[q] = at[q]
    BY <1>1, <1>2, AtStays
  <1>4. /\ \A u \in Turn : u # t => facts'[u] = facts[u]
        /\ \A u \in Turn : facts[u] # <<>> => facts'[u] # <<>>
        /\ Durable(o) /\ facts[t] # <<>> => facts'[t] # <<"started">>
    BY <1>1, <1>2, AppendedEvents
  <1>5. /\ refusals \in Nat /\ late \in Nat /\ refusals' \in Nat /\ late' \in Nat
        /\ late' = 0 => late = 0 /\ o # "late"
        /\ refusals' + late' <= 1 => refusals + late <= 1
        /\ o # "returned" => refusals' + late' > 0
        /\ o # "returned" /\ refusals + late > 0 => ~(refusals' + late' <= 1)
    BY <1>1, <1>2, FaultsOnlyGrow DEF AppendCompact
  <1>6. ~Durable(o) <=> o = "refused"
    BY DEF Durable
  <1>7. ASSUME ~shared'
        PROVE  /\ LogFits' /\ OpenedFits(p)'
               /\ (refusals' + late' <= 1 => EndingFits(p)')
    <2>1. LogFits /\ OpenedFits(p) /\ (refusals + late <= 1 => EndingFits(p))
      BY <1>2, <1>7, LoneFacts
    <2>2. /\ at[p] \in Closing /\ facts[t] # <<>> /\ (late = 0 => facts[t] = <<"started">>)
      BY <1>2, <2>1 DEF OpenedFits, Closing
    <2>3. refusals + late <= 1 => (type = "completed" <=> t \in replaced)
      BY <1>2, <2>1 DEF EndingFits, type
    <2>4. LogFits'
      BY <1>1, <1>2, <2>1, <2>2, <2>3, TerminalKeepsLog
    <2>5. OpenedFits(p)'
      <3>1. facts'[t] # <<>>
        BY <1>2, <1>4, <2>2
      <3>2. place = "catch" /\ late' = 0 => facts'[t] = <<"started">>
        <4>1. place = "catch" /\ late' = 0 => o = "refused" /\ late = 0
          BY <1>1, <1>2, <1>5 DEF Outcome
        <4>2. o = "refused" => facts' = facts
          BY <1>1, <1>6 DEF AppendCompact
        <4> QED
          BY <2>2, <4>1, <4>2
      <3> QED
        BY <1>2, <1>3, <3>1, <3>2 DEF OpenedFits, Closing
    <2>6. ASSUME refusals' + late' <= 1
          PROVE  EndingFits(p)'
      <3>1. EndingFits(p) /\ refusals + late <= 1
        BY <1>5, <2>1, <2>6
      <3>2. ASSUME NEW u \in replaced', facts'[u] = <<"started">>
            PROVE  place = "catch" /\ u = t
        <4>1. u = t
          <5>1. u # t => facts[u] = <<"started">>
            BY <1>2, <1>4, <3>2
          <5> QED
            BY <1>2, <3>1, <3>2, <5>1 DEF EndingFits, Running
        <4>2. o = "refused"
          BY <1>4, <1>6, <2>2, <3>2, <4>1
        <4>3. at[p] # "fail"
          BY <1>2, <3>1, <3>2, <4>1 DEF EndingFits
        <4>4. ASSUME at[p] = "retry"
              PROVE  FALSE
          <5>1. t \in replaced
            BY <1>2, <3>2, <4>1
          <5>2. refusals + late > 0
            BY <3>1, <4>4, <5>1 DEF EndingFits
          <5>3. ~(refusals' + late' <= 1)
            BY <1>5, <4>2, <5>2
          <5> QED
            BY <2>6, <5>3
        <4> QED
          BY <1>1, <1>2, <4>1, <4>2, <4>3, <4>4
      <3>3. place = "catch" => refusals' + late' > 0
        BY <1>1, <1>2, <1>5
      <3>4. t \in replaced => state.turn = t
        BY <2>2, <3>1 DEF EndingFits, IsInstalled
      <3> QED
        BY <1>2, <1>3, <3>2, <3>3, <3>4 DEF EndingFits, Closing, Running, IsInstalled
    <2> QED
      BY <2>4, <2>5, <2>6
  <1>8. ~shared' => \A q \in Proc : q # p => at'[q] = "closed"
    BY <1>2, <1>3, LoneFacts
  <1>9. /\ \A u \in replaced' : facts'[u] # <<>>
        /\ state'.turn # NoTurn => state'.turn \in replaced'
    BY <1>2, <1>4 DEF LoneInvariant
  <1> QED
    BY <1>7, <1>8, <1>9, LoneSuffices

\* A transaction starts a new bracket.
LEMMA StartedKeepsLone ==
  ASSUME CompactInvariant, LoneInvariant, NEW p \in Proc, Started(p)
  PROVE  LoneInvariant'
  <1> DEFINE t == turn[p]
  <1>1. PICK o \in Outcome, place \in {"end", "prepare"} :
          /\ AppendCompact(o, t, "started") /\ Goto(p, place)
          /\ place = "prepare" => o = "returned"
    BY DEF Started
  <1>2. /\ TypeOK /\ at[p] = "start" /\ facts[t] = <<>>
        /\ UNCHANGED <<state, replaced, shared, turn>>
        /\ t \in Turn /\ replaced \subseteq Turn
    BY DEF Started, CompactInvariant, TurnsAreOwn, StartsComeFirst, Running, TypeOK, fileVars
  <1>3. at'[p] = place /\ \A q \in Proc : q # p => at'[q] = at[q]
    BY <1>1, <1>2, AtStays
  <1>4. /\ \A u \in Turn : u # t => facts'[u] = facts[u]
        /\ \A u \in Turn : facts[u] # <<>> => facts'[u] # <<>>
        /\ facts' = facts \/ facts'[t] = <<"started">>
        /\ Durable(o) => facts'[t] = <<"started">>
        /\ \A u \in Turn : \A x \in {"completed", "failed"} :
              (\E i \in DOMAIN facts'[u] : facts'[u][i] = x) => \E i \in DOMAIN facts[u] : facts[u][i] = x
    <2>1. Append(facts[t], "started") = <<"started">>
      BY <1>2
    <2>2. "started" \notin {"completed", "failed"}
      OBVIOUS
    <2> QED
      BY <1>1, <1>2, <2>1, <2>2, AppendedEvents
  <1>5. /\ late' = 0 => late = 0
        /\ refusals' + late' <= 1 => refusals + late <= 1
    BY <1>1, <1>2, FaultsOnlyGrow DEF AppendCompact
  <1>6. t \notin replaced /\ \A u \in replaced : facts'[u] = facts[u]
    BY <1>2, <1>4 DEF LoneInvariant
  <1>7. ASSUME ~shared'
        PROVE  /\ LogFits' /\ OpenedFits(p)'
               /\ (refusals' + late' <= 1 => EndingFits(p)')
    <2>1. LogFits /\ OpenedFits(p) /\ (refusals + late <= 1 => EndingFits(p))
      BY <1>2, <1>7, LoneFacts
    <2>2. late' = 0 => Replayable'
      <3>1. Replayable => Replayable'
        BY <1>2, <1>4 DEF Replayable, Brackets
      <3> QED
        BY <1>5, <2>1, <3>1 DEF LogFits
    <2>3. LogFits'
      BY <1>2, <1>4, <1>5, <1>6, <2>1, <2>2 DEF LogFits, IsInstalled
    <2>4. OpenedFits(p)'
      <3>1. place = "prepare" => facts'[t] = <<"started">>
        BY <1>1, <1>4 DEF Durable
      <3> QED
        BY <1>2, <1>3, <3>1 DEF OpenedFits, Closing
    <2>5. EndingFits(p) => EndingFits(p)'
      BY <1>2, <1>3, <1>6 DEF EndingFits, Closing, Running
    <2> QED
      BY <1>5, <2>1, <2>3, <2>4, <2>5
  <1>8. ~shared' => \A q \in Proc : q # p => at'[q] = "closed"
    BY <1>2, <1>3, LoneFacts
  <1>9. /\ \A u \in replaced' : facts'[u] # <<>>
        /\ state'.turn # NoTurn => state'.turn \in replaced'
    BY <1>2, <1>4 DEF LoneInvariant
  <1> QED
    BY <1>7, <1>8, <1>9, LoneSuffices

\* The pointer moves to a transaction that is open; the one before it is closed.
LEMMA SwapKeepsLone ==
  ASSUME CompactInvariant, LoneInvariant, NEW p \in Proc, Swap(p)
  PROVE  LoneInvariant'
  <1> DEFINE t == turn[p]
  <1>1. PICK o \in Outcome :
          /\ Faults(o) /\ Point(p, o)
          /\ Goto(p, IF o = "returned" THEN "complete" ELSE "catch")
    BY DEF Swap
  <1>2. /\ TypeOK /\ at[p] = "prepare" /\ UNCHANGED <<facts, shared, turn>>
        /\ t \in Turn /\ t # NoTurn /\ facts[t] = <<"started">> /\ replaced \subseteq Turn
    BY NoneIsTyped DEF Swap, Recheck, CompactInvariant, TurnsAreOwn, AnchorsAreOpen, Running, TypeOK, logVars
  <1>3. /\ at'[p] = IF o = "returned" THEN "complete" ELSE "catch"
        /\ \A q \in Proc : q # p => at'[q] = at[q]
    BY <1>1, <1>2, AtStays
  <1>4. \/ o = "refused" /\ state' = state /\ replaced' = replaced
        \/ o # "refused" /\ state'.turn = t /\ replaced' = replaced \union {t}
    BY <1>1 DEF Point, Durable, Replacement
  <1>5. /\ late' = 0 => late = 0
        /\ refusals' + late' <= 1 => refusals + late <= 1
        /\ o # "returned" => refusals' + late' > 0
    BY <1>1, <1>2, FaultsOnlyGrow
  <1>6. ASSUME ~shared'
        PROVE  /\ LogFits' /\ OpenedFits(p)'
               /\ (refusals' + late' <= 1 => EndingFits(p)')
    <2>1. LogFits /\ OpenedFits(p) /\ (refusals + late <= 1 => EndingFits(p))
      BY <1>2, <1>6, LoneFacts
    <2>2. OpenedFits(p)'
      BY <1>2, <1>3, OneEventIsSome DEF OpenedFits, Closing
    <2>3. late' = 0 => Replayable'
      BY <1>2, <1>5, <2>1 DEF LogFits, Replayable
    <2>4. ASSUME refusals' + late' <= 1
          PROVE  /\ EndingFits(p)'
                 /\ \A u \in replaced' : facts'[u] = <<"started">> => IsInstalled(u)'
                 /\ \A u \in Turn :
                       /\ (\E i \in DOMAIN facts'[u] : facts'[u][i] = "completed") => u \in replaced'
                       /\ (\E i \in DOMAIN facts'[u] : facts'[u][i] = "failed") => u \notin replaced'
      <3>1. EndingFits(p) /\ refusals + late <= 1
        BY <1>5, <2>1, <2>4
      <3>2. \A u \in replaced : facts[u] # <<"started">>
        BY <1>2, <3>1 DEF EndingFits, Closing, Running
      <3>3. t \notin replaced
        BY <1>2, <3>2
      <3>4. EndingFits(p)'
        BY <1>2, <1>3, <1>4, <1>5, <3>2, <3>3 DEF EndingFits, Closing, Running, IsInstalled
      <3>5. \A u \in replaced' : facts'[u] = <<"started">> => IsInstalled(u)'
        BY <1>2, <1>4, <3>2 DEF IsInstalled
      <3>6. ASSUME NEW u \in Turn
            PROVE  /\ (\E i \in DOMAIN facts'[u] : facts'[u][i] = "completed") => u \in replaced'
                   /\ (\E i \in DOMAIN facts'[u] : facts'[u][i] = "failed") => u \notin replaced'
        <4>1. ~ \E i \in DOMAIN facts'[t] : facts'[t][i] = "failed"
          BY <1>2
        <4> QED
          BY <1>2, <1>4, <2>1, <3>1, <4>1 DEF LogFits
      <3> QED
        BY <3>4, <3>5, <3>6
    <2>5. LogFits'
      BY <2>3, <2>4 DEF LogFits
    <2> QED
      BY <2>2, <2>4, <2>5
  <1>7. ~shared' => \A q \in Proc : q # p => at'[q] = "closed"
    BY <1>2, <1>3, LoneFacts
  <1>8. /\ \A u \in replaced' : facts'[u] # <<>>
        /\ state'.turn # NoTurn => state'.turn \in replaced'
    BY <1>2, <1>4, OneEventIsSome DEF LoneInvariant
  <1> QED
    BY <1>6, <1>7, <1>8, LoneSuffices

LEMMA LoneStep == CompactInvariant /\ LoneInvariant /\ [Next]_vars => LoneInvariant'
  <1> SUFFICES ASSUME CompactInvariant, LoneInvariant, [Next]_vars PROVE LoneInvariant'
    OBVIOUS
  <1>1. CASE UNCHANGED vars
    <2>1. UNCHANGED <<facts, state, replaced, at, turn, todo, found, shared, refusals, late>>
      BY <1>1 DEF vars, logVars, fileVars, procVars, faultVars
    <2>2. LogFits => LogFits'
      BY <2>1 DEF LogFits, Replayable, IsInstalled
    <2>3. \A p \in Proc : (OpenedFits(p) => OpenedFits(p)') /\ (EndingFits(p) => EndingFits(p)')
      BY <2>1 DEF OpenedFits, EndingFits, IsInstalled, Orphans
    <2> QED
      BY <2>1, <2>2, <2>3 DEF LoneInvariant
  <1>2. ASSUME NEW p \in Proc,
               List(p) \/ FindOrphan(p) \/ CloseOrphan(p) \/ RecoverIncomplete(p) \/ Die(p)
        PROVE  LoneInvariant'
    BY <1>2, ListKeepsLone, FindOrphanKeepsLone, CloseOrphanKeepsLone,
       RecoverIncompleteKeepsLone, DieKeepsLone
  <1>3. ASSUME NEW p \in Proc, StartTurn(p) \/ Commit(p) \/ EndTurn(p) \/ Note(p) \/ Capture(p)
        PROVE  LoneInvariant'
    BY <1>3, TurnStepsKeepLone, NoteKeepsLone
  <1>4. ASSUME NEW p \in Proc,
               \/ Started(p) \/ CandidateFails(p) \/ Conflict(p) \/ Catch(p)
               \/ Swap(p) \/ Complete(p) \/ Terminate(p)
        PROVE  LoneInvariant'
    BY <1>4, StartedKeepsLone, CandidateKeepsLone, CatchKeepsLone, SwapKeepsLone,
       TerminalOfRunKeepsLone
  <1> QED
    BY <1>1, <1>2, <1>3, <1>4 DEF Next

(* What holds while one process at a time has the Thread, whichever write  *)
(* is refused or throws after its flush and wherever the process dies.     *)
THEOREM LoneInvariantHolds == Spec => []LoneInvariant
  BY LoneInit, LoneStep, InvariantHolds, PTL DEF Spec

(* A Thread that one process at a time compacts can be opened again: no    *)
(* crash and no refused write leaves findOrphanStarts a log it throws at.  *)
THEOREM ThreadCanAlwaysBeOpened == Spec => []ThreadCanBeOpened
  <1>1. LoneInvariant => ThreadCanBeOpened
    BY DEF LoneInvariant, LogFits, ThreadCanBeOpened
  <1> QED
    BY <1>1, LoneInvariantHolds, PTL

(* Terminals say what became of the pointer, when one write fails at most. *)
THEOREM TerminalsAlwaysTrue == Spec => []TerminalsAreTrue
  <1>1. LoneInvariant => TerminalsAreTrue
    BY DEF LoneInvariant, LogFits, TerminalsAreTrue
  <1> QED
    BY <1>1, LoneInvariantHolds, PTL

(* The runtime of a Thread starts when recoverOrphans has closed every     *)
(* transaction an earlier process left open.                               *)
THEOREM OrphansAlwaysResolved == Spec => OrphansAreResolved
  <1> DEFINE Resolves == \A p \in Proc :
               at[p] = "recovering" /\ at'[p] = "idle" /\ ~shared => Orphans' = {}
  <1>1. ASSUME CompactInvariant, LoneInvariant, [Next]_vars
        PROVE  [Resolves]_vars
    <2> SUFFICES ASSUME Next, NEW p \in Proc, at[p] = "recovering", at'[p] = "idle", ~shared
                 PROVE  Orphans' = {}
      BY <1>1
    <2>1. PICK q \in Proc :
            \/ List(q) \/ FindOrphan(q) \/ CloseOrphan(q) \/ RecoverIncomplete(q)
            \/ StartTurn(q) \/ Commit(q) \/ EndTurn(q) \/ Note(q)
            \/ Capture(q) \/ Started(q) \/ CandidateFails(q) \/ Conflict(q) \/ Swap(q)
            \/ Complete(q) \/ Catch(q) \/ Terminate(q)
            \/ Die(q)
      BY DEF Next
    <2>2. at \in [Proc -> Place]
      BY <1>1 DEF CompactInvariant, TypeOK
    <2>3. RecoverIncomplete(p)
      BY <2>1, <2>2 DEF List, FindOrphan, CloseOrphan, RecoverIncomplete, Die, Forget,
         StartTurn, Commit, EndTurn, Note, Capture, Started, CandidateFails, Conflict,
         Swap, Complete, Catch, Terminate, Goto, procVars
    <2>4. todo[p] = {} /\ facts' = facts
      BY <2>3 DEF RecoverIncomplete, AppendTurn, logVars
    <2>5. todo[p] = Orphans
      BY <1>1 DEF LoneInvariant, OpenedFits
    <2> QED
      BY <2>4, <2>5 DEF Orphans
  <1> QED
    BY <1>1, InvariantHolds, LoneInvariantHolds, PTL DEF Spec, OrphansAreResolved
=============================================================================
