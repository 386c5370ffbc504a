------------------------ MODULE ThreadEventStoreProofs ------------------------
(***************************************************************************)
(* The log of a Thread is never corrupted by its writers, the heads they   *)
(* cache are current, and what an append has returned is durable: for any  *)
(* number of processes, events, failures and losses of power.              *)
(***************************************************************************)
EXTENDS ThreadEventStore, SequenceTheorems, TLAPS

\* Who is inside an append owns the lock.
OwnerIsInside == \A p \in Proc : at[p] # "out" <=> owner = p

\* The head it advances describes the file.
WorkIsCurrent ==
  \A p \in Proc : at[p] # "out" =>
    work[p].cursor = Len(log) /\ work[p].last = LastOf(log) /\ ~torn

\* It does not exceed the bound on events.
BatchFits == \A p \in Proc : at[p] # "out" => todo[p] + next <= MaxEvents + 1

FlushedBeforeProjected ==
  \A p \in Proc : at[p] \in {"project", "adopt"} => flushed = Len(log)

\* A head of an earlier version of the file is never taken for a later one.
HeadIsKnown(h) == h.print <= version /\ (h.print = version => Current(h))
HeadsAreKnown == HeadIsKnown(headFile) /\ \A p \in Proc : HeadIsKnown(cache[p])

PromisesAreFlushed == promised <= flushed /\ flushed <= Len(log)

\* The inductive invariant: whoever appends owns the lock and works on the head
\* of the file as it is, every head that carries the fingerprint of the file
\* describes it, and what was returned was flushed first.
StoreInvariant ==
  /\ TypeOK
  /\ Chained(log)
  /\ PromisesAreFlushed
  /\ OwnerIsInside
  /\ WorkIsCurrent
  /\ BatchFits
  /\ FlushedBeforeProjected
  /\ HeadsAreKnown
LEMMA StoreInit == Init => StoreInvariant
  <1> SUFFICES ASSUME Init PROVE StoreInvariant
    OBVIOUS
  <1> USE DEF Init
  <1>1. 0 \in Nat /\ 0 \in Cursor /\ NoId \in Id /\ <<>> \in Seq(Record) /\ Len(<<>>) = 0
    BY BoundsAreNat DEF Cursor, Id, NoId
  <1>2. NoHead \in Verified /\ NoHead.print = -1
    BY <1>1 DEF NoHead, Verified
  <1>3. TypeOK
    <2>1. log \in Seq(Record) /\ Len(log) < next /\ projection \in [cursor : Cursor, last : Id]
      BY <1>1
    <2>2. /\ at \in [Proc -> Place] /\ todo \in [Proc -> 0 .. MaxBatch]
          /\ work \in [Proc -> Verified] /\ cache \in [Proc -> Verified]
      BY <1>2, BoundsAreNat DEF Place
    <2> QED
      <3>1. next \in 1 .. MaxEvents + 1 /\ faults \in 0 .. MaxFaults /\ losses \in 0 .. MaxLosses
        BY BoundsAreNat
      <3>2. /\ torn \in BOOLEAN /\ version \in Nat /\ flushed \in Nat /\ promised \in Nat
            /\ headFile \in Verified /\ owner \in Proc \union {NoProc}
        BY <1>2
      <3> QED
        BY <2>1, <2>2, <3>1, <3>2, ZenonT(30) DEF TypeOK
  <1>4. HeadsAreKnown
    BY <1>2 DEF HeadsAreKnown, HeadIsKnown
  <1>5. Chained(log) /\ PromisesAreFlushed
    BY <1>1 DEF Chained, PromisesAreFlushed
  <1>6. OwnerIsInside /\ WorkIsCurrent /\ BatchFits /\ FlushedBeforeProjected
    BY NoProcIsNobody DEF OwnerIsInside, WorkIsCurrent, BatchFits, FlushedBeforeProjected
  <1> QED
    BY <1>3, <1>4, <1>5, <1>6 DEF StoreInvariant

LEMMA ScanIsVerified ==
  ASSUME TypeOK
  PROVE  /\ Scan \in Verified /\ Scan.print = version /\ Scan.torn = torn
         /\ Scan.cursor = Len(log) /\ Scan.last = LastOf(log)
  <1>1. Len(log) \in Nat /\ Len(log) \in Cursor
    BY BoundsAreNat DEF TypeOK, Cursor
  <1>2. LastOf(log) \in Id
    <2>1. log # <<>> => log[Len(log)] \in Record
      BY DEF TypeOK
    <2> QED
      BY <2>1, BoundsAreNat DEF LastOf, Record, Id, NoId
  <1> QED
    BY <1>1, <1>2 DEF TypeOK, Scan, Verified

\* What loadVerifiedHead returns describes the file as it is.
LEMMA LoadIsCurrent ==
  ASSUME StoreInvariant, NEW p \in Proc, NEW scan \in BOOLEAN
  PROVE  /\ Load(p, scan) \in Verified /\ Load(p, scan).print = version
         /\ Current(Load(p, scan)) /\ HeadIsKnown(Load(p, scan))
  <1>1. CASE CacheServes(p, scan)
    BY <1>1 DEF StoreInvariant, TypeOK, HeadsAreKnown, HeadIsKnown, Load, CacheServes
  <1>2. CASE ~CacheServes(p, scan) /\ ~scan /\ HeadFileServes
    BY <1>2 DEF StoreInvariant, TypeOK, HeadsAreKnown, HeadIsKnown, Load, HeadFileServes
  <1>3. CASE ~CacheServes(p, scan) /\ ~(~scan /\ HeadFileServes)
    <2>1. Load(p, scan) = Scan /\ version \in Nat
      BY <1>3 DEF Load, StoreInvariant, TypeOK
    <2> QED
      BY <2>1, ScanIsVerified DEF StoreInvariant, Current, HeadIsKnown
  <1> QED
    BY <1>1, <1>2, <1>3

\* Persisting a head leaves a head file of the type, that is known.
LEMMA PersistedIsKnown ==
  ASSUME StoreInvariant, NEW h \in Verified, MayPersist(h), HeadIsKnown(h)
  PROVE  headFile' \in Verified /\ headFile'.print <= version
         /\ (headFile'.print = version => Current(headFile'))
  <1>1. CASE headFile' = headFile
    BY <1>1 DEF StoreInvariant, TypeOK, HeadsAreKnown, HeadIsKnown
  <1>2. CASE headFile' = [h EXCEPT !.scanned = FALSE]
    BY <1>2 DEF HeadIsKnown, Current, Verified
  <1> QED
    BY <1>1, <1>2 DEF MayPersist

LEMMA AdoptedIsKnown ==
  ASSUME StoreInvariant, NEW p \in Proc, NEW scan \in BOOLEAN, Adopted(p, scan)
  PROVE  /\ cache' \in [Proc -> Verified] /\ headFile' \in Verified
         /\ headFile'.print <= version /\ (headFile'.print = version => Current(headFile'))
         /\ \A q \in Proc : /\ cache'[q].print <= version
                            /\ cache'[q].print = version => Current(cache'[q])
  <1> DEFINE h == Load(p, scan)
  <1>1. h \in Verified /\ h.print = version /\ Current(h)
    BY LoadIsCurrent
  <1>2. version \in Nat /\ cache \in [Proc -> Verified] /\ cache' = [cache EXCEPT ![p] = h]
    BY DEF StoreInvariant, TypeOK, Adopted
  <1>3. HeadIsKnown(h)
    BY <1>1, <1>2 DEF HeadIsKnown
  <1>4. \A q \in Proc : HeadIsKnown(cache'[q])
    BY <1>1, <1>2, <1>3 DEF StoreInvariant, HeadsAreKnown
  <1>5. headFile' = headFile \/ MayPersist(h)
    BY DEF Adopted
  <1>6. /\ headFile' \in Verified /\ headFile'.print <= version
        /\ (headFile'.print = version => Current(headFile'))
    BY <1>1, <1>3, <1>5, PersistedIsKnown DEF StoreInvariant, TypeOK, HeadsAreKnown, HeadIsKnown
  <1> QED
    BY <1>1, <1>2, <1>4, <1>6 DEF HeadIsKnown

\* A new version of the file outdates every head.
LEMMA NewVersion ==
  ASSUME version' = version + 1, version \in Nat,
         headFile' \in Verified, cache' \in [Proc -> Verified],
         headFile'.print <= version, \A q \in Proc : cache'[q].print <= version
  PROVE  HeadsAreKnown'
  BY DEF HeadsAreKnown, HeadIsKnown, Verified

LEMMA SameVersion ==
  ASSUME UNCHANGED <<log, torn, version>>,
         headFile'.print <= version /\ (headFile'.print = version => Current(headFile')),
         \A q \in Proc : /\ cache'[q].print <= version
                         /\ cache'[q].print = version => Current(cache'[q])
  PROVE  HeadsAreKnown'
  BY DEF HeadsAreKnown, HeadIsKnown, Current, LastOf

LEMMA BeginPreserves ==
  ASSUME StoreInvariant, NEW p \in Proc, Begin(p)
  PROVE  StoreInvariant'
  <1> USE DEF StoreInvariant
  <1> DEFINE h == Load(p, FALSE)
  <1>1. h \in Verified /\ h.print = version /\ Current(h)
    BY LoadIsCurrent
  <1>2. /\ cache' \in [Proc -> Verified] /\ headFile' \in Verified
        /\ headFile'.print <= version /\ (headFile'.print = version => Current(headFile'))
        /\ \A q \in Proc : /\ cache'[q].print <= version
                           /\ cache'[q].print = version => Current(cache'[q])
    BY AdoptedIsKnown DEF Begin
  <1>3. torn' = FALSE /\ version' \in Nat /\ log' = log
    <2>1. version \in Nat /\ torn \in BOOLEAN /\ log' = log
      BY DEF TypeOK, Begin
    <2>2. CASE h.torn
      BY <2>1, <2>2 DEF Begin
    <2>3. CASE ~h.torn
      BY <1>1, <2>1, <2>3 DEF Begin, Current
    <2> QED
      BY <2>2, <2>3
  <1>4. at' \in [Proc -> Place] /\ work' \in [Proc -> Verified] /\ todo' \in [Proc -> 0 .. MaxBatch]
    <2>1. PICK n \in 1 .. MaxBatch : n <= MaxEvents + 1 - next /\ todo' = [todo EXCEPT ![p] = n]
      BY DEF Begin
    <2>2. todo' \in [Proc -> 0 .. MaxBatch]
      BY <2>1, BoundsAreNat DEF TypeOK
    <2>3. at' \in [Proc -> Place] /\ work' \in [Proc -> Verified]
      BY <1>1 DEF Begin, TypeOK, Place
    <2> QED
      BY <2>2, <2>3
  <1>5. TypeOK'
    BY <1>2, <1>3, <1>4 DEF Begin, TypeOK
  <1>6. Chained(log)' /\ PromisesAreFlushed'
    BY <1>3 DEF Begin, Chained, PromisesAreFlushed
  <1>7. OwnerIsInside'
    BY NoProcIsNobody DEF Begin, OwnerIsInside, TypeOK
  <1>8. \A q \in Proc : at'[q] # "out" => q = p
    BY NoProcIsNobody DEF Begin, OwnerIsInside, TypeOK
  <1>9. WorkIsCurrent'
    BY <1>1, <1>3, <1>8 DEF Begin, WorkIsCurrent, Current, TypeOK, LastOf
  <1>12. BatchFits'
    BY <1>8, BoundsAreNat DEF Begin, BatchFits, TypeOK
  <1>10. FlushedBeforeProjected'
    BY <1>8 DEF Begin, FlushedBeforeProjected, TypeOK
  <1>11. HeadsAreKnown'
    <2>1. CASE h.torn
      BY <2>1, <1>2, NewVersion DEF Begin, TypeOK
    <2>2. CASE ~h.torn
      BY <2>2, <1>2, <1>3, SameVersion DEF Begin
    <2> QED
      BY <2>1, <2>2
  <1> QED
    BY <1>5, <1>6, <1>7, <1>9, <1>10, <1>11, <1>12

\* Only the owner is inside.
LEMMA InsideAlone ==
  ASSUME OwnerIsInside, NEW p \in Proc, at[p] # "out"
  PROVE  owner = p /\ \A q \in Proc : q # p => at[q] = "out"
  BY DEF OwnerIsInside

LEMMA WritePreserves ==
  ASSUME StoreInvariant, NEW p \in Proc, Write(p)
  PROVE  StoreInvariant'
  <1> USE DEF StoreInvariant
  <1> DEFINE r == [id |-> next, seq |-> work[p].cursor + 1, prev |-> work[p].last]
  <1>1. owner = p /\ \A q \in Proc : q # p => at[q] = "out"
    BY InsideAlone DEF Write
  <1>2. work[p].cursor = Len(log) /\ work[p].last = LastOf(log) /\ ~torn
    BY DEF Write, WorkIsCurrent
  <1>3. /\ next \in 1 .. MaxEvents /\ todo[p] \in 1 .. MaxBatch /\ todo[p] + next <= MaxEvents + 1
        /\ Len(log) \in Nat /\ Len(log) < next /\ log \in Seq(Record)
    <2>1. at[p] = "write" /\ todo[p] > 0 /\ todo[p] + next <= MaxEvents + 1
      BY DEF Write, BatchFits
    <2>2. /\ todo[p] \in 0 .. MaxBatch /\ next \in 1 .. MaxEvents + 1
          /\ log \in Seq(Record) /\ Len(log) < next /\ Len(log) \in Nat
      BY DEF TypeOK
    <2> HIDE DEF StoreInvariant
    <2> QED
      BY <2>1, <2>2, BoundsAreNat
  <1>4. log' = Append(log, r)
    BY <1>2 DEF Write
  <1>5. r \in Record
    <2>1. work[p] \in Verified
      BY DEF TypeOK
    <2> QED
      BY <1>2, <1>3, <2>1, BoundsAreNat DEF Record, Id, Cursor, Verified
  <1>6. /\ log' \in Seq(Record) /\ Len(log') = Len(log) + 1 /\ log'[Len(log')] = r
        /\ \A i \in 1 .. Len(log) : log'[i] = log[i]
    BY <1>3, <1>4, <1>5
  <1>7. LastOf(log') = next
    BY <1>3, <1>6 DEF LastOf
  <1>8. work' \in [Proc -> Verified] /\ work'[p].cursor = Len(log') /\ work'[p].last = next
    <2>1. work[p] \in Verified /\ work[p].cursor + 1 \in Cursor /\ next \in Id
      BY <1>2, <1>3, BoundsAreNat DEF TypeOK, Cursor, Id
    <2>2. [work[p] EXCEPT !.cursor = @ + 1, !.last = next] \in Verified
      BY <2>1 DEF Verified
    <2>3. work' = [work EXCEPT ![p] = [work[p] EXCEPT !.cursor = @ + 1, !.last = next]]
      BY DEF Write, TypeOK
    <2> QED
      BY <1>2, <1>6, <2>1, <2>2, <2>3 DEF TypeOK, Verified
  <1>9. /\ at' \in [Proc -> Place] /\ todo' \in [Proc -> 0 .. MaxBatch]
        /\ \A q \in Proc : q # p => at'[q] = "out"
        /\ at'[p] \in {"write", "flush"} /\ todo'[p] = todo[p] - 1
    <2>1. /\ at' = [at EXCEPT ![p] = IF todo[p] = 1 THEN "flush" ELSE "write"]
          /\ todo' = [todo EXCEPT ![p] = todo[p] - 1]
          /\ at \in [Proc -> Place] /\ todo \in [Proc -> 0 .. MaxBatch]
      BY DEF Write, TypeOK
    <2> HIDE DEF StoreInvariant
    <2>2. todo' \in [Proc -> 0 .. MaxBatch] /\ todo'[p] = todo[p] - 1
      BY <1>3, <2>1, BoundsAreNat
    <2>3. at' \in [Proc -> Place] /\ at'[p] \in {"write", "flush"}
      BY <2>1 DEF Place
    <2>4. \A q \in Proc : q # p => at'[q] = "out"
      BY <1>1, <2>1
    <2> QED
      BY <2>2, <2>3, <2>4
  <1>10. TypeOK'
    <2>1. next' \in 1 .. MaxEvents + 1 /\ Len(log') < next' /\ version' \in Nat /\ torn' = FALSE
      <3>1. next' = next + 1 /\ version' = version + 1 /\ torn' = FALSE /\ version \in Nat
        BY DEF Write, TypeOK
      <3> QED
        BY <1>3, <1>6, <3>1, BoundsAreNat
    <2> QED
      BY <2>1, <1>6, <1>8, <1>9 DEF Write, TypeOK
  <1>11. Chained(log)'
    <2> SUFFICES ASSUME NEW i \in 1 .. Len(log')
                 PROVE  /\ log'[i].id # NoId /\ log'[i].seq = i
                        /\ log'[i].prev = IF i = 1 THEN NoId ELSE log'[i - 1].id
      BY DEF Chained
    <2>1. CASE i \in 1 .. Len(log)
      BY <1>6, <2>1 DEF Chained
    <2>2. CASE i = Len(log')
      <3>1. r.id # NoId /\ r.seq = i /\ r.prev = LastOf(log)
        BY <1>2, <1>3, <1>6, <2>2 DEF NoId
      <3>2. LastOf(log) = IF i = 1 THEN NoId ELSE log'[i - 1].id
        BY <1>3, <1>6, <2>2 DEF LastOf
      <3> QED
        BY <1>6, <2>2, <3>1, <3>2
    <2> QED
      BY <1>3, <1>6, <2>1, <2>2
  <1>12. PromisesAreFlushed'
    BY <1>3, <1>6 DEF Write, PromisesAreFlushed, TypeOK
  <1>13. OwnerIsInside'
    BY <1>1, <1>9 DEF Write, OwnerIsInside
  <1>14. WorkIsCurrent'
    BY <1>7, <1>8, <1>9 DEF Write, WorkIsCurrent
  <1>15. BatchFits'
    BY <1>3, <1>9 DEF Write, BatchFits
  <1>16. FlushedBeforeProjected'
    BY <1>9 DEF FlushedBeforeProjected
  <1>17. HeadsAreKnown'
    BY NewVersion DEF Write, TypeOK, HeadsAreKnown, HeadIsKnown
  <1> QED
    BY <1>10, <1>11, <1>12, <1>13, <1>14, <1>15, <1>16, <1>17

LEMMA FlushPreserves ==
  ASSUME StoreInvariant, NEW p \in Proc, Flush(p)
  PROVE  StoreInvariant'
  <1> USE DEF StoreInvariant
  <1>1. /\ Len(log) \in Nat /\ flushed' = Len(log) /\ log' = log
        /\ at' = [at EXCEPT ![p] = "project"] /\ at \in [Proc -> Place] /\ at[p] = "flush"
    BY DEF Flush, TypeOK
  <1>2. TypeOK'
    BY <1>1 DEF Flush, TypeOK, Place
  <1>3. Chained(log)' /\ PromisesAreFlushed'
    <2>1. Chained(log)'
      BY <1>1 DEF Chained
    <2>2. promised' = promised /\ promised \in Nat /\ flushed \in Nat
      BY DEF Flush, TypeOK
    <2> QED
      BY <1>1, <2>1, <2>2 DEF PromisesAreFlushed
  <1>6. OwnerIsInside' /\ WorkIsCurrent' /\ BatchFits'
    BY <1>1 DEF Flush, OwnerIsInside, WorkIsCurrent, BatchFits, LastOf
  <1>4. FlushedBeforeProjected'
    BY <1>1 DEF FlushedBeforeProjected
  <1>5. HeadsAreKnown'
    BY <1>1, SameVersion DEF Flush, HeadsAreKnown, HeadIsKnown, TypeOK
  <1> QED
    BY <1>2, <1>3, <1>4, <1>5, <1>6

LEMMA ProjectPreserves ==
  ASSUME StoreInvariant, NEW p \in Proc, Project(p)
  PROVE  StoreInvariant'
  <1> USE DEF StoreInvariant
  <1>1. /\ log' = log /\ at' = [at EXCEPT ![p] = "adopt"] /\ at \in [Proc -> Place]
        /\ at[p] = "project" /\ work[p] \in Verified
    BY DEF Project, TypeOK
  <1>2. TypeOK'
    BY <1>1 DEF Project, TypeOK, Place, Verified
  <1>3. Chained(log)' /\ PromisesAreFlushed' /\ OwnerIsInside' /\ WorkIsCurrent' /\ BatchFits'
    BY <1>1 DEF Project, Chained, PromisesAreFlushed, OwnerIsInside, WorkIsCurrent, BatchFits, LastOf
  <1>4. FlushedBeforeProjected'
    BY <1>1 DEF Project, FlushedBeforeProjected
  <1>5. HeadsAreKnown'
    BY <1>1, SameVersion DEF Project, HeadsAreKnown, HeadIsKnown, TypeOK
  <1> QED
    BY <1>2, <1>3, <1>4, <1>5

LEMMA AdoptPreserves ==
  ASSUME StoreInvariant, NEW p \in Proc, Adopt(p)
  PROVE  StoreInvariant'
  <1> USE DEF StoreInvariant
  <1> DEFINE h == [work[p] EXCEPT !.print = version, !.torn = FALSE]
  <1>1. /\ owner = p /\ \A q \in Proc : q # p => at[q] = "out"
        /\ at' = [at EXCEPT ![p] = "out"] /\ at \in [Proc -> Place]
    BY InsideAlone DEF Adopt, TypeOK
  <1>2. work[p].cursor = Len(log) /\ work[p].last = LastOf(log) /\ ~torn /\ flushed = Len(log)
    BY DEF Adopt, WorkIsCurrent, FlushedBeforeProjected
  <1>3. work[p] \in Verified /\ version \in Nat /\ torn \in BOOLEAN /\ Len(log) \in Nat
    BY DEF TypeOK
  <1>4. h \in Verified /\ h.print = version /\ Current(h) /\ h.cursor = Len(log)
    BY <1>2, <1>3 DEF Verified, Current
  <1>5. HeadIsKnown(h)
    BY <1>3, <1>4 DEF HeadIsKnown
  <1>6. /\ headFile' \in Verified /\ headFile'.print <= version
        /\ (headFile'.print = version => Current(headFile'))
    BY <1>4, <1>5, PersistedIsKnown DEF Adopt
  <1>7. /\ cache' = [cache EXCEPT ![p] = h] /\ cache' \in [Proc -> Verified]
        /\ promised' = h.cursor
    BY <1>4 DEF Adopt, TypeOK
  <1>8. TypeOK'
    BY <1>1, <1>3, <1>4, <1>6, <1>7 DEF Adopt, TypeOK, Place
  <1>9. Chained(log)' /\ PromisesAreFlushed'
    BY <1>2, <1>3, <1>4, <1>7 DEF Adopt, Chained, PromisesAreFlushed
  <1>10. OwnerIsInside' /\ WorkIsCurrent' /\ BatchFits' /\ FlushedBeforeProjected'
    BY <1>1, NoProcIsNobody
    DEF Adopt, OwnerIsInside, WorkIsCurrent, BatchFits, FlushedBeforeProjected
  <1>11. \A q \in Proc : /\ cache'[q].print <= version
                         /\ cache'[q].print = version => Current(cache'[q])
    BY <1>5, <1>7 DEF HeadsAreKnown, HeadIsKnown, TypeOK
  <1>12. HeadsAreKnown'
    BY <1>6, <1>11, SameVersion DEF Adopt
  <1> QED
    BY <1>8, <1>9, <1>10, <1>12

LEMMA LoadProjectionPreserves ==
  ASSUME StoreInvariant, NEW p \in Proc, LoadProjection(p)
  PROVE  StoreInvariant'
  <1> USE DEF StoreInvariant
  <1> DEFINE h == Load(p, FALSE)
  <1>1. h \in Verified /\ h.print = version /\ Current(h) /\ HeadIsKnown(h)
    BY LoadIsCurrent
  <1>3. HeadIsKnown(h)
    BY <1>1
  <1>4. /\ headFile' \in Verified /\ headFile'.print <= version
        /\ (headFile'.print = version => Current(headFile'))
    BY <1>1, <1>3, PersistedIsKnown DEF LoadProjection
  <1>5. /\ cache' = [cache EXCEPT ![p] = h] /\ cache' \in [Proc -> Verified]
        /\ h.cursor \in Cursor /\ h.cursor \in Nat
        /\ projection' \in [cursor : Cursor, last : Id]
    <2>1. h.cursor \in Cursor /\ h.last \in Id /\ h.cursor \in Nat
      <3> HIDE DEF h
      <3> QED
        BY <1>1, BoundsAreNat DEF Verified, Cursor
    <2>2. /\ cache' = [cache EXCEPT ![p] = h]
          /\ projection' = [cursor |-> h.cursor, last |-> h.last]
      BY DEF LoadProjection
    <2>3. cache' \in [Proc -> Verified]
      BY <1>1, <2>2 DEF TypeOK
    <2> QED
      BY <2>1, <2>2, <2>3
  <1>6. TypeOK'
    BY <1>4, <1>5 DEF LoadProjection, TypeOK
  <1>7. /\ Chained(log)' /\ PromisesAreFlushed' /\ OwnerIsInside' /\ WorkIsCurrent'
        /\ BatchFits' /\ FlushedBeforeProjected'
    BY DEF LoadProjection, Chained, PromisesAreFlushed, OwnerIsInside, WorkIsCurrent, BatchFits,
           FlushedBeforeProjected, LastOf
  <1>8. \A q \in Proc : /\ cache'[q].print <= version
                        /\ cache'[q].print = version => Current(cache'[q])
    BY <1>3, <1>5 DEF HeadsAreKnown, HeadIsKnown, TypeOK
  <1>9. HeadsAreKnown'
    BY <1>4, <1>8, SameVersion DEF LoadProjection
  <1> QED
    BY <1>6, <1>7, <1>9

LEMMA ReadPreserves ==
  ASSUME StoreInvariant, NEW p \in Proc, NEW scan \in BOOLEAN, Read(p, scan)
  PROVE  StoreInvariant'
  <1> USE DEF StoreInvariant
  <1>2. /\ cache' \in [Proc -> Verified] /\ headFile' \in Verified
        /\ headFile'.print <= version /\ (headFile'.print = version => Current(headFile'))
        /\ \A q \in Proc : /\ cache'[q].print <= version
                           /\ cache'[q].print = version => Current(cache'[q])
    BY AdoptedIsKnown DEF Read
  <1>4. TypeOK'
    BY <1>2 DEF Read, TypeOK
  <1>5. /\ Chained(log)' /\ PromisesAreFlushed' /\ OwnerIsInside' /\ WorkIsCurrent'
        /\ BatchFits' /\ FlushedBeforeProjected'
    BY DEF Read, Chained, PromisesAreFlushed, OwnerIsInside, WorkIsCurrent, BatchFits,
           FlushedBeforeProjected, LastOf
  <1>6. HeadsAreKnown'
    BY <1>2, SameVersion DEF Read
  <1> QED
    BY <1>4, <1>5, <1>6

\* A call that ends in the middle leaves the lock, and the file of the same or
\* of a new version.
LEMMA LeavePreserves ==
  ASSUME StoreInvariant, NEW p \in Proc, Leave(p),
         cache' = cache \/ cache' = [cache EXCEPT ![p] = NoHead]
  PROVE  StoreInvariant'
  <1> USE DEF StoreInvariant
  <1>1. /\ log' = log /\ version \in Nat /\ version' \in {version, version + 1} /\ torn' \in BOOLEAN
        /\ (version' = version => torn' = torn) /\ (version' = version + 1 => at[p] = "write")
    <2>1. log' = log /\ version \in Nat /\ torn \in BOOLEAN /\ MayTear(p)
      BY DEF Leave, TypeOK
    <2>2. CASE UNCHANGED <<torn, version>>
      BY <2>1, <2>2
    <2>3. CASE at[p] = "write" /\ torn' = TRUE /\ version' = version + 1
      <3>1. version + 1 # version /\ version + 1 \in {version, version + 1}
        BY <2>1
      <3>2. version' # version /\ version' \in {version, version + 1}
        BY <2>3, <3>1
      <3> QED
        BY <2>1, <2>3, <3>2
    <2> QED
      BY <2>1, <2>2, <2>3 DEF MayTear
  <1>2. NoHead \in Verified /\ NoHead.print = -1
    BY BoundsAreNat DEF NoHead, Verified, Cursor, Id, NoId
  <1>3. cache' \in [Proc -> Verified]
    BY <1>2 DEF TypeOK
  <1>4. at' = [at EXCEPT ![p] = "out"] /\ todo' = [todo EXCEPT ![p] = 0] /\ at \in [Proc -> Place]
    BY DEF Leave, TypeOK
  <1>5. TypeOK'
    BY <1>1, <1>3, <1>4, BoundsAreNat DEF Leave, TypeOK, Place
  <1>6. Chained(log)' /\ PromisesAreFlushed'
    BY <1>1 DEF Leave, Chained, PromisesAreFlushed
  <1>7. OwnerIsInside'
    BY <1>4, NoProcIsNobody DEF Leave, OwnerIsInside
  <1>8. \A q \in Proc : at'[q] # "out" => q # p /\ at[q] # "out" /\ at'[q] = at[q]
    BY <1>4
  <1>9. (\E q \in Proc : at'[q] # "out") => torn' = torn
    BY <1>1, <1>8 DEF OwnerIsInside
  <1>10. WorkIsCurrent' /\ BatchFits' /\ FlushedBeforeProjected'
    BY <1>1, <1>4, <1>8, <1>9
    DEF Leave, WorkIsCurrent, BatchFits, FlushedBeforeProjected, LastOf, TypeOK
  <1>11. headFile' = headFile
    BY DEF Leave
  <1>12. \A q \in Proc : HeadIsKnown(cache'[q])
    <2> SUFFICES ASSUME NEW q \in Proc PROVE HeadIsKnown(cache'[q])
      OBVIOUS
    <2>1. cache'[q] = cache[q] \/ cache'[q] = NoHead
      BY DEF TypeOK
    <2>2. HeadIsKnown(NoHead)
      BY <1>1, <1>2 DEF HeadIsKnown
    <2> QED
      BY <2>1, <2>2 DEF HeadsAreKnown
  <1>13. HeadsAreKnown'
    <2>1. CASE version' = version
      BY <1>1, <1>11, <1>12, <2>1, SameVersion DEF HeadsAreKnown, HeadIsKnown
    <2>2. CASE version' = version + 1
      BY <1>1, <1>3, <1>11, <1>12, <2>2, NewVersion DEF HeadsAreKnown, HeadIsKnown, TypeOK
    <2> QED
      BY <1>1, <2>1, <2>2
  <1> QED
    BY <1>5, <1>6, <1>7, <1>10, <1>13

LEMMA PowerLossPreserves ==
  ASSUME StoreInvariant, PowerLoss
  PROVE  StoreInvariant'
  <1> USE DEF StoreInvariant
  <1>1. PICK n \in flushed .. Len(log) :
          /\ log' = SubSeq(log, 1, n) /\ flushed' = n
          /\ torn' \in IF torn \/ n < Len(log) THEN BOOLEAN ELSE {FALSE}
    BY DEF PowerLoss
  <1>2. log \in Seq(Record) /\ Len(log) \in Nat /\ flushed \in Nat /\ n \in Nat /\ n <= Len(log)
    BY DEF TypeOK
  <1>3. /\ log' \in Seq(Record) /\ Len(log') = n
        /\ \A i \in 1 .. n : log'[i] = log[i]
    BY <1>1, <1>2
  <1>4. version \in Nat /\ version' \in {version, version + 1} /\ torn' \in BOOLEAN
        /\ (version' = version => log' = log /\ torn' = torn)
    <2>1. version \in Nat /\ torn \in BOOLEAN
      BY DEF TypeOK
    <2>2. torn' \in BOOLEAN
      BY <1>1
    <2>3. CASE log' = log /\ torn' = torn
      BY <2>1, <2>2, <2>3 DEF PowerLoss
    <2>4. CASE ~(log' = log /\ torn' = torn)
      BY <2>1, <2>2, <2>4 DEF PowerLoss
    <2> QED
      BY <2>3, <2>4
  <1>5. NoHead \in Verified /\ NoHead.print = -1
    BY BoundsAreNat DEF NoHead, Verified, Cursor, Id, NoId
  <1>6. /\ cache' = [p \in Proc |-> NoHead] /\ at' = [p \in Proc |-> "out"]
        /\ todo' = [p \in Proc |-> 0] /\ owner' = NoProc /\ headFile' = headFile
    BY DEF PowerLoss
  <1>7. TypeOK'
    <2>1. Len(log') < next' /\ flushed' \in Nat
      BY <1>1, <1>2, <1>3 DEF PowerLoss, TypeOK
    <2> QED
      BY <2>1, <1>3, <1>4, <1>5, <1>6, BoundsAreNat DEF PowerLoss, TypeOK, Place
  <1>8. Chained(log)'
    <2> SUFFICES ASSUME NEW i \in 1 .. n
                 PROVE  /\ log'[i].id # NoId /\ log'[i].seq = i
                        /\ log'[i].prev = IF i = 1 THEN NoId ELSE log'[i - 1].id
      BY <1>3 DEF Chained
    <2>1. /\ log[i].id # NoId /\ log[i].seq = i
          /\ log[i].prev = IF i = 1 THEN NoId ELSE log[i - 1].id
      BY <1>2 DEF Chained
    <2>2. log'[i] = log[i] /\ (i # 1 => log'[i - 1] = log[i - 1])
      BY <1>2, <1>3
    <2> QED
      BY <2>1, <2>2
  <1>9. PromisesAreFlushed'
    BY <1>1, <1>2, <1>3 DEF PowerLoss, PromisesAreFlushed, TypeOK
  <1>10. OwnerIsInside' /\ WorkIsCurrent' /\ BatchFits' /\ FlushedBeforeProjected'
    BY <1>6, NoProcIsNobody DEF OwnerIsInside, WorkIsCurrent, BatchFits, FlushedBeforeProjected
  <1>11. HeadsAreKnown'
    <2>1. CASE version' = version
      <3>1. \A q \in Proc : cache'[q].print <= version /\ cache'[q].print # version
        BY <1>4, <1>5, <1>6
      <3> QED
        BY <1>4, <1>6, <2>1, <3>1, SameVersion DEF HeadsAreKnown, HeadIsKnown
    <2>2. CASE version' = version + 1
      <3>1. cache' \in [Proc -> Verified] /\ \A q \in Proc : cache'[q].print <= version
        BY <1>4, <1>5, <1>6
      <3> QED
        BY <1>4, <1>6, <2>2, <3>1, NewVersion DEF HeadsAreKnown, HeadIsKnown, TypeOK
    <2> QED
      BY <1>4, <2>1, <2>2
  <1> QED
    BY <1>7, <1>8, <1>9, <1>10, <1>11

LEMMA StoreStep == StoreInvariant /\ [Next]_vars => StoreInvariant'
  <1> SUFFICES ASSUME StoreInvariant, [Next]_vars PROVE StoreInvariant'
    OBVIOUS
  <1>1. CASE PowerLoss
    BY <1>1, PowerLossPreserves
  <1>2. ASSUME NEW p \in Proc, Step(p) PROVE StoreInvariant'
    <2>1. CASE Begin(p)
      BY <2>1, BeginPreserves
    <2>2. CASE Write(p)
      BY <2>2, WritePreserves
    <2>3. CASE Flush(p)
      BY <2>3, FlushPreserves
    <2>4. CASE Project(p)
      BY <2>4, ProjectPreserves
    <2>5. CASE Adopt(p)
      BY <2>5, AdoptPreserves
    <2>6. CASE LoadProjection(p)
      BY <2>6, LoadProjectionPreserves
    <2>7. CASE \E scan \in BOOLEAN : Read(p, scan)
      BY <2>7, ReadPreserves
    <2>8. CASE Throw(p)
      BY <2>8, LeavePreserves DEF Throw
    <2>9. CASE Die(p)
      BY <2>9, LeavePreserves DEF Die
    <2> QED
      BY <1>2, <2>1, <2>2, <2>3, <2>4, <2>5, <2>6, <2>7, <2>8, <2>9 DEF Step
  <1>3. CASE UNCHANGED vars
    BY <1>3 DEF vars, files, procs, StoreInvariant, TypeOK, Chained, PromisesAreFlushed,
                OwnerIsInside, WorkIsCurrent, BatchFits, FlushedBeforeProjected, HeadsAreKnown,
                HeadIsKnown, Current, LastOf
  <1> QED
    BY <1>1, <1>2, <1>3 DEF Next

\* Every reachable state satisfies the inductive invariant.
THEOREM InvariantHolds == Spec => []StoreInvariant
  BY StoreInit, StoreStep, PTL DEF Spec

\* Files, heads and program counters keep their types.
THEOREM TypeCorrect == Spec => []TypeOK
  <1>1. StoreInvariant => TypeOK
    BY DEF StoreInvariant
  <1> QED
    BY <1>1, InvariantHolds, PTL

\* No writer ever corrupts the log, whatever it leaves behind (appendDurableBatch).
THEOREM LogNeverCorrupted == Spec => []LogIsChained
  <1>1. StoreInvariant => LogIsChained
    BY DEF StoreInvariant, LogIsChained
  <1> QED
    BY <1>1, InvariantHolds, PTL

\* A cached or persisted head that is taken for current is (loadVerifiedHead).
THEOREM HeadsNeverStale == Spec => []HeadsAreCurrent
  <1>1. StoreInvariant => HeadsAreCurrent
    BY DEF StoreInvariant, HeadsAreCurrent, HeadsAreKnown, HeadIsKnown, HeadFileServes
  <1> QED
    BY <1>1, InvariantHolds, PTL

LEMMA FactsOfALog ==
  ASSUME NEW s \in Seq(Record)
  PROVE  /\ Facts(s) \in Seq(Id) /\ Len(Facts(s)) = Len(s)
         /\ \A i \in 1 .. Len(s) : Facts(s)[i] = s[i].id
  <1>1. Len(s) \in Nat /\ \A i \in 1 .. Len(s) : s[i] \in Record
    BY LenProperties, ElementOfSeq
  <1>2. Facts(s) \in [1 .. Len(s) -> Id]
    BY <1>1 DEF Facts, Record
  <1>3. Facts(s) \in Seq(Id)
    BY <1>1, <1>2, SeqDef
  <1>4. Len(Facts(s)) \in Nat /\ 1 .. Len(Facts(s)) = 1 .. Len(s)
    BY <1>2, <1>3, LenProperties
  <1> QED
    BY <1>1, <1>3, <1>4 DEF Facts

LEMMA FactsOfAPrefix ==
  ASSUME NEW s \in Seq(Record), NEW t \in Seq(Record), Len(s) <= Len(t),
         \A i \in 1 .. Len(s) : t[i].id = s[i].id
  PROVE  Facts(s) = SubSeq(Facts(t), 1, Len(s))
  <1>1. /\ Facts(s) \in Seq(Id) /\ Len(Facts(s)) = Len(s) /\ Len(s) \in Nat
        /\ Facts(t) \in Seq(Id) /\ Len(Facts(t)) = Len(t) /\ Len(t) \in Nat
        /\ \A i \in 1 .. Len(s) : Facts(s)[i] = s[i].id
        /\ \A i \in 1 .. Len(t) : Facts(t)[i] = t[i].id
    BY FactsOfALog, LenProperties
  <1>2. \A i \in 1 .. Len(s) : Facts(t)[i] \in Id /\ i \in 1 .. Len(t)
    BY <1>1, ElementOfSeq
  <1> DEFINE u == SubSeq(Facts(t), 1, Len(s))
  <1>3. /\ u \in Seq(Id) /\ Len(u) = Len(s)
        /\ \A i \in 1 .. Len(s) : u[i] = Facts(t)[i]
    BY <1>1, <1>2, SubSeqProperties
  <1>4. \A i \in 1 .. Len(s) : Facts(s)[i] = u[i]
    BY <1>1, <1>2, <1>3
  <1> HIDE DEF u
  <1>5. Facts(s) = u
    BY <1>1, <1>3, <1>4, SeqEqual
  <1> QED
    BY <1>5 DEF u

LEMMA DurableInit == Init => Durable!Init
  <1> SUFFICES ASSUME Init PROVE Facts(log) = <<>> /\ promised = 0
    BY DEF Durable!Init
  <1>1. <<>> \in Seq(Record) /\ <<>> \in Seq(Id) /\ Len(<<>>) = 0
    BY EmptySeq
  <1>2. Facts(<<>>) \in Seq(Id) /\ Len(Facts(<<>>)) = 0
    BY <1>1, FactsOfALog
  <1>3. Facts(<<>>) = <<>>
    BY <1>2, EmptySeq
  <1> QED
    BY <1>3 DEF Init

LEMMA DurableStep ==
  StoreInvariant /\ [Next]_vars => [Durable!Next]_<<Facts(log), promised>>
  <1> SUFFICES ASSUME StoreInvariant, [Next]_vars
               PROVE  Durable!Next \/ UNCHANGED <<Facts(log), promised>>
    OBVIOUS
  <1> USE DEF StoreInvariant
  <1>1. /\ log \in Seq(Record) /\ Len(log) \in Nat
        /\ Facts(log) \in Seq(Id) /\ Len(Facts(log)) = Len(log)
    BY FactsOfALog, LenProperties DEF TypeOK
  <1>2. log' \in Seq(Record) /\ Len(log') \in Nat /\ Len(Facts(log')) = Len(log')
    BY StoreStep, FactsOfALog, LenProperties DEF TypeOK
  <1>3. CASE PowerLoss
    <2>1. PICK n \in flushed .. Len(log) : log' = SubSeq(log, 1, n)
      BY <1>3 DEF PowerLoss
    <2>2. n \in promised .. Len(log) /\ n \in Nat /\ promised' = promised
      BY <1>1, <1>3, <2>1 DEF PromisesAreFlushed, TypeOK, PowerLoss
    <2>3. Len(log') = n /\ \A i \in 1 .. n : log'[i] = log[i]
      BY <1>1, <2>1, <2>2
    <2>4. Facts(log') = SubSeq(Facts(log), 1, n)
      <3>1. Len(log') <= Len(log) /\ \A i \in 1 .. Len(log') : log[i].id = log'[i].id
        BY <1>1, <2>2, <2>3
      <3>2. Facts(log') = SubSeq(Facts(log), 1, Len(log'))
        BY <1>1, <1>2, <3>1, FactsOfAPrefix
      <3> QED
        BY <2>3, <3>2
    <2>5. Durable!Lose
      BY <1>1, <2>2, <2>4 DEF Durable!Lose
    <2> QED
      BY <2>5 DEF Durable!Next
  <1>4. ASSUME NEW p \in Proc, Write(p)
        PROVE  Durable!Record
    <2>1. Len(log') = Len(log) + 1 /\ promised' = promised
      BY <1>1, <1>4 DEF Write
    <2>2. \A i \in 1 .. Len(log) : log'[i] = log[i]
      BY <1>1, <1>4 DEF Write
    <2>3. Facts(log) = SubSeq(Facts(log'), 1, Len(log))
      BY <1>1, <1>2, <2>1, <2>2, FactsOfAPrefix
    <2> QED
      BY <1>1, <1>2, <2>1, <2>3 DEF Durable!Record
  <1>5. ASSUME NEW p \in Proc, Adopt(p)
        PROVE  Durable!Promise
    <2>1. log' = log /\ promised' = work[p].cursor
      BY <1>5 DEF Adopt
    <2>2. work[p].cursor = Len(log) /\ promised <= Len(log) /\ promised \in Nat
      BY <1>1, <1>5 DEF Adopt, WorkIsCurrent, PromisesAreFlushed, TypeOK
    <2> QED
      BY <1>1, <2>1, <2>2 DEF Durable!Promise
  <1>6. ASSUME NEW p \in Proc, Step(p), ~Write(p), ~Adopt(p)
        PROVE  UNCHANGED <<log, promised>>
    BY <1>6 DEF Step, Begin, Flush, Project, LoadProjection, Read, Throw, Die, Leave, files
  <1>7. CASE UNCHANGED vars
    BY <1>7 DEF vars, files
  <1> QED
    BY <1>3, <1>4, <1>5, <1>6, <1>7 DEF Next, Durable!Next

\* The store implements a log that never takes back what it has promised: every
\* step is a step of DurableLog or leaves it as it is.
THEOREM StoreImplementsDurableLog == Spec => ImplementsDurableLog
  <1>1. Spec => Durable!Init /\ [][Durable!Next]_<<Facts(log), promised>>
    BY DurableInit, DurableStep, InvariantHolds, PTL DEF Spec
  <1> QED
    BY <1>1 DEF ImplementsDurableLog, Durable!Spec
=============================================================================
