--------------------------- MODULE ThreadEventStore ---------------------------
(***************************************************************************)
(* The durable fact log of one Thread (src/src/runtime/                    *)
(* thread-event-store.ts), shared by the processes that have it open.      *)
(*                                                                         *)
(* Every operation runs under the file lock of the log (see FileLock): it  *)
(* is cut where a process that dies, or a call that throws, leaves another *)
(* state on disk.  A record carries its sequence number and the identity   *)
(* of its predecessor, which stands for its hash chain; a projection is    *)
(* its cursor and the last identity it has seen, which stands for its      *)
(* digest.  version stands for the fingerprint of the log (inode, size and *)
(* times): every change of the file gives it a new one.                    *)
(***************************************************************************)
EXTENDS Integers, Sequences

CONSTANTS
  Proc,        \* processes with a store on the Thread
  NoProc,      \* nobody
  MaxEvents,   \* bound: events of one behaviour
  MaxBatch,    \* bound: events of one append
  MaxFaults,   \* bound: calls that throw and processes that die
  MaxLosses,   \* bound: losses of power
  MaxRecords   \* maxLogBytes, in records

ASSUME NoProcIsNobody == NoProc \notin Proc
ASSUME BoundsAreNat ==
  /\ MaxEvents \in Nat /\ MaxBatch \in Nat \ {0}
  /\ MaxFaults \in Nat /\ MaxLosses \in Nat /\ MaxRecords \in Nat

Id == 0 .. MaxEvents
NoId == 0
Cursor == 0 .. MaxEvents
Record == [id : Id, seq : Cursor, prev : Id]
Verified == [print : Nat \union {-1}, cursor : Cursor, last : Id, torn : BOOLEAN, scanned : BOOLEAN]
Place == {"out", "write", "flush", "project", "adopt"}

VARIABLES
  \* The files.
  log,         \* the complete records of the log, as every process sees them
  torn,        \* bytes without a line end follow them
  version,     \* the fingerprint of the log
  flushed,     \* how many records a loss of power leaves
  projection,  \* the projection file
  headFile,    \* the head file
  \* The processes.
  owner,       \* who holds the file lock
  at,          \* at[p]: where p is in appendDurableBatch
  todo,        \* todo[p]: events of its batch that are not written
  work,        \* work[p]: the head it advances
  cache,       \* cache[p]: cachedHead
  \* The environment.
  next,        \* the next event identity
  promised,    \* history: the last position an append has returned
  faults, losses

files == <<log, torn, version, flushed, projection, headFile>>
procs == <<owner, at, todo, work, cache>>
vars == <<files, procs, next, promised, faults, losses>>

NoHead == [print |-> -1, cursor |-> 0, last |-> NoId, torn |-> FALSE, scanned |-> FALSE]

TypeOK ==
  /\ log \in Seq(Record) /\ Len(log) < next
  /\ torn \in BOOLEAN
  /\ version \in Nat
  /\ flushed \in Nat /\ promised \in Nat
  /\ projection \in [cursor : Cursor, last : Id]
  /\ headFile \in Verified
  /\ owner \in Proc \union {NoProc}
  /\ at \in [Proc -> Place]
  /\ todo \in [Proc -> 0 .. MaxBatch]
  /\ work \in [Proc -> Verified] /\ cache \in [Proc -> Verified]
  /\ next \in 1 .. MaxEvents + 1
  /\ faults \in 0 .. MaxFaults /\ losses \in 0 .. MaxLosses

Init ==
  /\ log = <<>> /\ torn = FALSE /\ version = 0 /\ flushed = 0
  /\ projection = [cursor |-> 0, last |-> NoId] /\ headFile = NoHead
  /\ owner = NoProc
  /\ at = [p \in Proc |-> "out"] /\ todo = [p \in Proc |-> 0]
  /\ work = [p \in Proc |-> NoHead] /\ cache = [p \in Proc |-> NoHead]
  /\ next = 1 /\ promised = 0 /\ faults = 0 /\ losses = 0

-----------------------------------------------------------------------------
(* Reading the head: loadVerifiedHead.                                     *)

LastOf(s) == IF s = <<>> THEN NoId ELSE s[Len(s)].id

\* scanThreadEventLog throws unless every record continues the chain.
Chained(s) ==
  \A i \in 1 .. Len(s) :
    /\ s[i].id # NoId /\ s[i].seq = i
    /\ s[i].prev = IF i = 1 THEN NoId ELSE s[i - 1].id

Scan == [print |-> version, cursor |-> Len(log), last |-> LastOf(log),
         torn |-> torn, scanned |-> TRUE]

\* Mutant: a cached head is not compared with the file.
CacheServesUnchecked(p, scan) == cache[p].print # -1 /\ (scan => cache[p].scanned)

CacheServes(p, scan) == cache[p].print = version /\ (scan => cache[p].scanned)

\* hydratePersistedThreadHead.
HeadFileServes ==
  /\ headFile.print = version
  /\ projection = [cursor |-> headFile.cursor, last |-> headFile.last]

Load(p, scan) ==
  IF CacheServes(p, scan) THEN cache[p]
  ELSE IF ~scan /\ HeadFileServes THEN headFile
  ELSE Scan

Loads(p, scan) ==
  \/ CacheServes(p, scan)
  \/ ~scan /\ HeadFileServes
  \/ Chained(log) /\ Len(log) <= MaxRecords

\* tryPersistVerifiedHead: it keeps the old head when anything fails.
MayPersist(h) ==
  headFile' \in {headFile} \union
    IF h.print = version /\ projection' = [cursor |-> h.cursor, last |-> h.last]
      THEN {[h EXCEPT !.scanned = FALSE]} ELSE {}

\* loadVerifiedHead caches what it returns, and persists what it has scanned.
Adopted(p, scan) ==
  /\ Loads(p, scan)
  /\ cache' = [cache EXCEPT ![p] = Load(p, scan)]
  /\ IF CacheServes(p, scan) \/ (~scan /\ HeadFileServes)
       THEN UNCHANGED headFile
       ELSE MayPersist(Load(p, scan))

-----------------------------------------------------------------------------
(* appendDurableBatch.                                                     *)

\* Take the lock, load the head, cut a torn tail off.
Begin(p) ==
  /\ at[p] = "out" /\ owner = NoProc
  /\ owner' = p
  /\ at' = [at EXCEPT ![p] = "write"]
  /\ \E n \in 1 .. MaxBatch :
       n <= MaxEvents + 1 - next /\ todo' = [todo EXCEPT ![p] = n]
  /\ work' = [work EXCEPT ![p] = Load(p, FALSE)]
  /\ UNCHANGED projection /\ Adopted(p, FALSE)
  /\ IF Load(p, FALSE).torn
       THEN torn' = FALSE /\ version' = version + 1
       ELSE UNCHANGED <<torn, version>>
  /\ UNCHANGED <<log, flushed, next, promised, faults, losses>>

\* One record; after a torn tail it would complete an invalid line.
Write(p) ==
  /\ at[p] = "write" /\ todo[p] > 0
  /\ log' = Append(log, IF torn THEN [id |-> NoId, seq |-> 0, prev |-> NoId]
                        ELSE [id |-> next, seq |-> work[p].cursor + 1, prev |-> work[p].last])
  /\ torn' = FALSE /\ version' = version + 1
  /\ work' = [work EXCEPT ![p].cursor = @ + 1, ![p].last = next]
  /\ todo' = [todo EXCEPT ![p] = @ - 1]
  /\ at' = [at EXCEPT ![p] = IF todo[p] = 1 THEN "flush" ELSE "write"]
  /\ next' = next + 1
  /\ UNCHANGED <<flushed, projection, headFile, owner, cache, promised, faults, losses>>

\* Mutant: the append goes on without flushing the log.
FlushLater(p) ==
  /\ at[p] = "flush"
  /\ at' = [at EXCEPT ![p] = "project"]
  /\ UNCHANGED <<log, torn, version, flushed, projection, headFile, owner, todo, work, cache,
                 next, promised, faults, losses>>

Flush(p) ==
  /\ at[p] = "flush"
  /\ flushed' = Len(log)
  /\ at' = [at EXCEPT ![p] = "project"]
  /\ UNCHANGED <<log, torn, version, projection, headFile, owner, todo, work, cache,
                 next, promised, faults, losses>>

Project(p) ==
  /\ at[p] = "project"
  /\ projection' = [cursor |-> work[p].cursor, last |-> work[p].last]
  /\ at' = [at EXCEPT ![p] = "adopt"]
  /\ UNCHANGED <<log, torn, version, flushed, headFile, owner, todo, work, cache,
                 next, promised, faults, losses>>

\* The new head becomes the cached one; the append returns.
Adopt(p) ==
  /\ at[p] = "adopt"
  /\ LET h == [work[p] EXCEPT !.print = version, !.torn = FALSE] IN
       /\ cache' = [cache EXCEPT ![p] = h]
       /\ UNCHANGED projection
       /\ MayPersist(h)
       /\ promised' = h.cursor
  /\ owner' = NoProc
  /\ at' = [at EXCEPT ![p] = "out"]
  /\ UNCHANGED <<log, torn, version, flushed, todo, work, next, faults, losses>>

-----------------------------------------------------------------------------
(* The operations that read.                                               *)

\* loadProjection rewrites a projection file that differs from the head.
LoadProjection(p) ==
  /\ at[p] = "out" /\ owner = NoProc /\ Loads(p, FALSE)
  /\ LET h == Load(p, FALSE) IN
       /\ projection' = [cursor |-> h.cursor, last |-> h.last]
       /\ cache' = [cache EXCEPT ![p] = h]
       /\ MayPersist(h)
  /\ UNCHANGED <<log, torn, version, flushed, owner, at, todo, work, next, promised,
                 faults, losses>>

\* Those that only need the head (getCursor, captureReadModelHead,
\* loadAuthoritativeModelHistory) and those that need the whole history
\* (replay, captureCompactSource).
Read(p, scan) ==
  /\ at[p] = "out" /\ owner = NoProc
  /\ UNCHANGED projection /\ Adopted(p, scan)
  /\ UNCHANGED <<log, torn, version, flushed, owner, at, todo, work, next, promised,
                 faults, losses>>

-----------------------------------------------------------------------------
(* What fails.                                                             *)

\* A write that is interrupted may leave a part of a record.
MayTear(p) ==
  \/ UNCHANGED <<torn, version>>
  \/ at[p] = "write" /\ todo[p] > 0 /\ torn' = TRUE /\ version' = version + 1

Leave(p) ==
  /\ faults < MaxFaults /\ faults' = faults + 1
  /\ MayTear(p)
  /\ owner' = IF owner = p THEN NoProc ELSE owner
  /\ at' = [at EXCEPT ![p] = "out"] /\ todo' = [todo EXCEPT ![p] = 0]
  /\ UNCHANGED <<log, flushed, projection, headFile, work, next, promised, losses>>

\* The append throws: validation, a write, the flush or the projection fails.
Throw(p) ==
  /\ at[p] # "out"
  /\ Leave(p)
  /\ UNCHANGED cache

\* The process dies; the next owner takes its lock over.
Die(p) ==
  /\ Leave(p)
  /\ cache' = [cache EXCEPT ![p] = NoHead]

\* Power is lost: what was not flushed may be gone, or torn.
PowerLoss ==
  /\ losses < MaxLosses /\ losses' = losses + 1
  /\ \E n \in flushed .. Len(log) :
       /\ log' = SubSeq(log, 1, n) /\ flushed' = n
       /\ torn' \in IF torn \/ n < Len(log) THEN BOOLEAN ELSE {FALSE}
  /\ version' = IF log' = log /\ torn' = torn THEN version ELSE version + 1
  /\ owner' = NoProc
  /\ at' = [p \in Proc |-> "out"] /\ todo' = [p \in Proc |-> 0]
  /\ cache' = [p \in Proc |-> NoHead]
  /\ UNCHANGED <<projection, headFile, work, next, promised, faults>>

Step(p) ==
  \/ Begin(p) \/ Write(p) \/ Flush(p) \/ Project(p) \/ Adopt(p)
  \/ LoadProjection(p) \/ (\E scan \in BOOLEAN : Read(p, scan))
  \/ Throw(p) \/ Die(p)

Next == PowerLoss \/ \E p \in Proc : Step(p)

Spec == Init /\ [][Next]_vars

-----------------------------------------------------------------------------
(* Properties.                                                             *)

\* The processes never corrupt the log themselves: whatever they leave behind
\* when they fail, every complete record continues the chain, so that no later
\* scan fails with ORION_THREAD_EVENT_CORRUPT.
LogIsChained == Chained(log)

\* A head that is taken for current is the head a scan would find: "never
\* returned when it is ahead of or divergent from the durable cursor".  getCursor
\* compares the fingerprint without the lock, so it holds inside an append too.
Current(h) ==
  h.cursor = Len(log) /\ h.last = LastOf(log) /\ h.torn = torn
HeadsAreCurrent ==
  /\ \A p \in Proc : cache[p].print = version => Current(cache[p])
  /\ HeadFileServes => Current(headFile)

\* The store is a durable log: what an append has returned stays, in its place,
\* whoever dies and even when power is lost.
Facts(s) == [i \in 1 .. Len(s) |-> s[i].id]
Durable == INSTANCE DurableLog WITH facts <- Facts(log)
ImplementsDurableLog == Durable!Spec
=============================================================================
