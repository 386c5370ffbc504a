------------------------ MODULE ProviderRequestsProofs ------------------------
(***************************************************************************)
(* The gate hands out the leases it has, to the first requests that may    *)
(* have them, and loses no wake-up: for any number of requests, providers  *)
(* and slots, however attempts fail, retry, fall back and are aborted.     *)
(***************************************************************************)
EXTENDS ProviderRequests, FiniteSetTheorems, WellFoundedInduction, TLAPS

\* The queue is a line: of two waiters one is in front of the other, and so is
\* whoever is in front of that one.
QueueFits(g) ==
  /\ \A r \in Request : g.ahead[r] \subseteq g.waiters
  /\ \A r \in g.waiters : r \notin g.ahead[r]
  /\ \A r, s \in g.waiters : r # s => r \in g.ahead[s] \/ s \in g.ahead[r]
  /\ \A r, s \in g.waiters : r \in g.ahead[s] => g.ahead[r] \subseteq g.ahead[s]

GateFits(g) == g \in Gate /\ QueueFits(g) /\ g.activeCount <= MaxConcurrent

\* WaitersAreWoken, of any gate.
Woken(g) ==
  g.activeCount < MaxConcurrent =>
    \A r \in g.waiters : g.timer # NoTimer /\ g.timer <= g.cooldowns[providerKey[r]]

\* Who has a lease or waits for one.
Load(g) == g.activeCount + Cardinality(g.waiters)
Busy == {r \in Request : stage[r] \in {"attempt", "backoff"}}

\* The waiters that d has no more were due, and the first ones due of theirs.
Serves(g, d) ==
  /\ \A r \in g.waiters \ d.waiters :
       /\ d.cooldowns[providerKey[r]] = 0
       /\ \A s \in g.waiters \cap d.waiters :
            providerKey[s] = providerKey[r] => r \in g.ahead[s]
  /\ \A s \in g.waiters \cap d.waiters : d.ahead[s] \subseteq g.ahead[s]

\* Between actions: the gate serves every request that may be served, and counts
\* the attempts of execute; no cooldown is shorter than the Retry-After of a rate limit.
ProviderInvariant ==
  /\ TypeOK
  /\ GateFits(gate)
  /\ Woken(gate)
  /\ gate.waiters \subseteq {r \in Request : stage[r] = "attempt"}
  /\ Load(gate) = Cardinality(Busy)
  /\ \A p \in Provider : notBefore["rate_limit"][p] <= gate.cooldowns[p]

-----------------------------------------------------------------------------
(* Sets of numbers, and places in a line.                                  *)

\* A set of natural numbers has a least element, which Min names.
LEMMA LeastOf ==
  ASSUME NEW S \in SUBSET Nat, S # {}
  PROVE  Min(S) \in S /\ \A n \in S : Min(S) <= n
  <1> DEFINE Less == OpToRel(<, Nat)
  <1>1. \A x, y \in Nat : x < y => <<x, y>> \in Less
    BY DEF OpToRel
  <1>2. IsWellFoundedOn(Less, Nat)
    BY NatLessThanWellFounded
  <1> HIDE DEF Less
  <1>3. PICK x \in S : \A y \in S : ~(<<y, x>> \in Less)
    BY <1>2, WFMin
  <1>4. \A y \in S : x <= y
    <2> SUFFICES ASSUME NEW y \in S, ~(x <= y)
                 PROVE  FALSE
      OBVIOUS
    <2>1. x \in Nat /\ y \in Nat /\ y < x
      OBVIOUS
    <2> QED
      BY <1>1, <1>3, <2>1
  <1> QED
    BY <1>4 DEF Min

\* Sets of requests can be counted.
LEMMA RequestsAreCounted ==
  ASSUME NEW S \in SUBSET Request
  PROVE  /\ IsFiniteSet(S) /\ Cardinality(S) \in Nat
         /\ \A T \in SUBSET S : /\ IsFiniteSet(T) /\ Cardinality(T) \in Nat
                                /\ Cardinality(T) <= Cardinality(S)
                                /\ T # S => Cardinality(T) < Cardinality(S)
                                /\ Cardinality(S \ T) = Cardinality(S) - Cardinality(T)
  <1>1. IsFiniteSet(S) /\ Cardinality(S) \in Nat
    BY RequestAssumption, FS_Subset, FS_CardinalityType
  <1>2. ASSUME NEW T \in SUBSET S
        PROVE  /\ IsFiniteSet(T) /\ Cardinality(T) \in Nat
               /\ Cardinality(T) <= Cardinality(S)
               /\ T # S => Cardinality(T) < Cardinality(S)
               /\ Cardinality(S \ T) = Cardinality(S) - Cardinality(T)
    <2>1. IsFiniteSet(T) /\ Cardinality(T) <= Cardinality(S) /\ (Cardinality(S) = Cardinality(T) => S = T)
      BY <1>1, FS_Subset
    <2>2. Cardinality(T) \in Nat
      BY <2>1, FS_CardinalityType
    <2>3. S \cap T = T
      OBVIOUS
    <2>4. Cardinality(S \ T) = Cardinality(S) - Cardinality(T)
      BY <1>1, <2>3, FS_Difference
    <2> QED
      BY <1>1, <2>1, <2>2, <2>4
  <1> QED
    BY <1>1, <1>2

\* The first n of a part of the line are n of them, or all.
LEMMA FirstOfLine ==
  ASSUME NEW g \in Gate, QueueFits(g), NEW ready \in SUBSET g.waiters, NEW n \in Nat
  PROVE  LET place(r) == Cardinality(g.ahead[r] \cap ready)
             first == {r \in ready : place(r) < n}
         IN  /\ \A r \in ready : place(r) \in Nat
             /\ Cardinality(first) <= n
             /\ Cardinality(first) < n => first = ready
             /\ \A r \in first, s \in ready \ first : r \in g.ahead[s]
  <1> DEFINE place(r) == Cardinality(g.ahead[r] \cap ready)
             first == {r \in ready : place(r) < n}
  <1>1. /\ ready \in SUBSET Request
        /\ \A r \in ready : g.ahead[r] \cap ready \in SUBSET Request /\ r \notin g.ahead[r]
    BY DEF Gate, QueueFits
  <1>2. \A r \in ready : place(r) \in Nat
    BY <1>1, RequestsAreCounted
  <1>3. ASSUME NEW r \in ready, NEW s \in ready, r \in g.ahead[s]
        PROVE  place(r) < place(s)
    <2>1. g.ahead[r] \cap ready \in SUBSET (g.ahead[s] \cap ready) /\ g.ahead[r] \cap ready # g.ahead[s] \cap ready
      BY <1>1, <1>3 DEF QueueFits
    <2> QED
      BY <1>1, <2>1, RequestsAreCounted
  <1>4. \A r, s \in ready : r # s => r \in g.ahead[s] \/ s \in g.ahead[r]
    BY DEF QueueFits
  <1>5. Cardinality(first) <= n
    <2> DEFINE f == [r \in first |-> place(r)]
    <2>1. f \in [first -> 0 .. n - 1]
      BY <1>2
    <2>2. \A r, s \in first : r # s => f[r] # f[s]
      <3> HIDE DEF place
      <3> TAKE r, s \in first
      <3> SUFFICES ASSUME r # s
                   PROVE  place(r) # place(s)
        OBVIOUS
      <3> QED
        BY <1>2, <1>3, <1>4
    <2>3. f \in Injection(first, 0 .. n - 1)
      <3> HIDE DEF f
      <3> QED
        BY <2>1, <2>2 DEF Injection, IsInjective
    <2>4. IsFiniteSet(0 .. n - 1) /\ Cardinality(0 .. n - 1) = n
      BY FS_Interval
    <2> HIDE DEF f
    <2> QED
      BY <2>3, <2>4, FS_Injection
  <1>6. ASSUME Cardinality(first) < n, first # ready
        PROVE  FALSE
    <2> DEFINE Places == {place(r) : r \in ready \ first}
    <2>1. Places \in SUBSET Nat /\ Places # {}
      BY <1>2, <1>6
    <2>2. PICK r \in ready \ first : place(r) = Min(Places)
      BY <2>1, LeastOf
    <2>3. \A s \in ready \ first : place(r) <= place(s)
      <3>1. \A s \in ready \ first : place(s) \in Places
        OBVIOUS
      <3> HIDE DEF Places
      <3>2. \A m \in Places : Min(Places) <= m
        BY <2>1, LeastOf
      <3> HIDE DEF place
      <3> QED
        BY <2>2, <3>1, <3>2
    <2>4. g.ahead[r] \cap ready \in SUBSET first
      <3> HIDE DEF place
      <3> SUFFICES ASSUME NEW s \in g.ahead[r] \cap ready, s \notin first
                   PROVE  FALSE
        OBVIOUS
      <3>1. place(s) < place(r) /\ place(r) <= place(s)
        BY <1>3, <2>3
      <3> QED
        BY <1>2, <3>1
    <2>5. place(r) <= Cardinality(first)
      BY <1>1, <2>4, RequestsAreCounted
    <2>6. Cardinality(first) \in Nat
      BY <1>1, RequestsAreCounted
    <2>7. place(r) \in Nat /\ ~(place(r) < n)
      BY <1>2
    <2> HIDE DEF place, first
    <2> QED
      BY <1>6, <2>5, <2>6, <2>7
  <1>7. ASSUME NEW r \in first, NEW s \in ready \ first
        PROVE  r \in g.ahead[s]
    <2> HIDE DEF place
    <2>1. ~(place(s) < place(r))
      BY <1>2
    <2> QED
      BY <1>3, <1>4, <2>1
  <1> QED
    BY <1>2, <1>5, <1>6, <1>7

-----------------------------------------------------------------------------
(* The gate.                                                               *)

\* A wake-up is scheduled for whoever waits while a slot is free.
LEMMA WakeIsScheduled ==
  ASSUME NEW g \in Gate,
         g.activeCount < MaxConcurrent => \A r \in g.waiters : g.cooldowns[providerKey[r]] # 0
  PROVE  LET d == ScheduleCooldownWake(g)
         IN  /\ d \in Gate /\ Woken(d)
             /\ d.waiters = g.waiters /\ d.ahead = g.ahead
             /\ d.activeCount = g.activeCount /\ d.cooldowns = g.cooldowns
  <1> DEFINE d == ScheduleCooldownWake(g)
             cooling == {g.cooldowns[providerKey[r]] : r \in g.waiters} \ {0}
             earliest == Min(cooling)
  <1>1. /\ g.waiters \in SUBSET Request /\ g.ahead \in [Request -> SUBSET Request]
        /\ g.activeCount \in Nat /\ g.cooldowns \in [Provider -> Nat]
        /\ g.timer \in Nat \cup {NoTimer}
    BY DEF Gate
  <1>2. \A r \in g.waiters : providerKey[r] \in Provider /\ g.cooldowns[providerKey[r]] \in Nat
    BY <1>1, ProviderKeyAssumption
  <1>3. cooling \in SUBSET Nat
    BY <1>2
  <1>4. cooling # {} => earliest \in Nat /\ \A n \in cooling : earliest <= n
    BY <1>3, LeastOf
  <1>5. d = IF cooling = {} THEN [g EXCEPT !.timer = NoTimer]
            ELSE IF g.activeCount >= MaxConcurrent \/ (g.timer # NoTimer /\ g.timer <= earliest)
            THEN g
            ELSE [g EXCEPT !.timer = earliest]
    BY DEF ScheduleCooldownWake
  <1>6. \A r \in g.waiters : g.cooldowns[providerKey[r]] # 0 => g.cooldowns[providerKey[r]] \in cooling
    OBVIOUS
  <1> HIDE DEF d, cooling, earliest
  <1>7. CASE cooling = {}
    <2>1. d = [g EXCEPT !.timer = NoTimer]
      BY <1>5, <1>7
    <2>2. /\ d \in Gate /\ d.waiters = g.waiters /\ d.ahead = g.ahead
          /\ d.activeCount = g.activeCount /\ d.cooldowns = g.cooldowns
      BY <2>1 DEF Gate
    <2>3. Woken(d)
      BY <1>6, <1>7, <2>2 DEF Woken
    <2> QED
      BY <2>2, <2>3 DEF d
  <1>8. CASE cooling # {} /\ (g.activeCount >= MaxConcurrent \/ (g.timer # NoTimer /\ g.timer <= earliest))
    <2>1. d = g
      BY <1>5, <1>8
    <2>2. ASSUME g.activeCount < MaxConcurrent, NEW r \in g.waiters
          PROVE  g.timer # NoTimer /\ g.timer <= g.cooldowns[providerKey[r]]
      <3>1. g.timer # NoTimer /\ g.timer <= earliest /\ g.timer \in Nat
        BY <1>1, <1>8, <2>2, LimitsAssumption
      <3>2. earliest \in Nat /\ earliest <= g.cooldowns[providerKey[r]]
        BY <1>4, <1>6, <1>8, <2>2
      <3> QED
        BY <1>2, <3>1, <3>2
    <2> QED
      BY <2>1, <2>2 DEF Woken, d
  <1>9. CASE cooling # {} /\ ~(g.activeCount >= MaxConcurrent \/ (g.timer # NoTimer /\ g.timer <= earliest))
    <2>1. d = [g EXCEPT !.timer = earliest] /\ earliest \in Nat
      BY <1>4, <1>5, <1>9
    <2>2. /\ d \in Gate /\ d.waiters = g.waiters /\ d.ahead = g.ahead /\ d.timer = earliest
          /\ d.activeCount = g.activeCount /\ d.cooldowns = g.cooldowns
      BY <2>1 DEF Gate
    <2>3. \A r \in g.waiters : g.activeCount < MaxConcurrent => earliest <= g.cooldowns[providerKey[r]]
      BY <1>4, <1>6, <1>9
    <2>4. earliest # NoTimer
      BY <2>1 DEF NoTimer
    <2>5. Woken(d)
      BY <2>2, <2>3, <2>4 DEF Woken
    <2> QED
      BY <2>2, <2>5 DEF d
  <1> QED
    BY <1>7, <1>8, <1>9

\* Whoever leaves a line leaves a line.
LEMMA LineWithout ==
  ASSUME NEW g \in Gate, QueueFits(g), NEW gone \in SUBSET Request
  PROVE  LET d == Remove(g, gone)
         IN  /\ d \in Gate /\ QueueFits(d)
             /\ d.waiters = g.waiters \ gone
             /\ d.activeCount = g.activeCount /\ d.cooldowns = g.cooldowns /\ d.timer = g.timer
             /\ \A s \in d.waiters : d.ahead[s] = g.ahead[s] \ gone
  <1> DEFINE d == Remove(g, gone)
             ahead == [r \in Request |-> IF r \in gone THEN {} ELSE g.ahead[r] \ gone]
  <1>1. /\ g.waiters \in SUBSET Request /\ g.ahead \in [Request -> SUBSET Request]
        /\ g.activeCount \in Nat /\ g.cooldowns \in [Provider -> Nat]
        /\ g.timer \in Nat \cup {NoTimer}
    BY DEF Gate
  <1>2. ahead \in [Request -> SUBSET Request]
    BY <1>1
  <1>3. d = [g EXCEPT !.waiters = g.waiters \ gone, !.ahead = ahead]
    BY DEF Remove, Gate
  <1>4. /\ d.waiters = g.waiters \ gone /\ d.ahead = ahead
        /\ d.activeCount = g.activeCount /\ d.cooldowns = g.cooldowns /\ d.timer = g.timer
    BY <1>3 DEF Gate
  <1>5. d \in Gate
    BY <1>1, <1>2, <1>3 DEF Gate
  <1>6. QueueFits(d)
    BY <1>1, <1>4 DEF QueueFits
  <1> HIDE DEF d
  <1>7. \A s \in d.waiters : d.ahead[s] = g.ahead[s] \ gone
    BY <1>1, <1>4
  <1> QED
    BY <1>4, <1>5, <1>6, <1>7 DEF d

\* tryDispatch hands out every lease it can, in order, and makes sure of the next
\* time it is called.
LEMMA DispatchServes ==
  ASSUME NEW g, GateFits(g)
  PROVE  LET d == TryDispatch(g)
         IN  /\ GateFits(d) /\ Woken(d) /\ Serves(g, d)
             /\ d.waiters \subseteq g.waiters /\ d.cooldowns = g.cooldowns
             /\ Load(d) = Load(g) /\ d.activeCount >= g.activeCount
  <1> DEFINE ready == {r \in g.waiters : g.cooldowns[providerKey[r]] = 0}
             n == MaxConcurrent - g.activeCount
             place(r) == Cardinality(g.ahead[r] \cap ready)
             granted == {r \in ready : place(r) < n}
             e == Remove(g, granted)
             f == [e EXCEPT !.activeCount = g.activeCount + Cardinality(granted)]
             d == ScheduleCooldownWake(f)
  <1>1. /\ g \in Gate /\ QueueFits(g)
        /\ g.waiters \in SUBSET Request /\ g.activeCount \in Nat /\ MaxConcurrent \in Nat
        /\ g.activeCount <= MaxConcurrent /\ n \in Nat
        /\ ready \in SUBSET g.waiters /\ granted \in SUBSET g.waiters /\ granted \in SUBSET Request
    BY LimitsAssumption DEF GateFits, Gate
  <1>2. /\ \A r \in ready : place(r) \in Nat
        /\ Cardinality(granted) <= n
        /\ Cardinality(granted) < n => granted = ready
        /\ \A r \in granted, s \in ready \ granted : r \in g.ahead[s]
    BY <1>1, FirstOfLine
  <1>3. Cardinality(granted) \in Nat
    BY <1>1, RequestsAreCounted
  <1>4. d = TryDispatch(g)
    <2> DEFINE first == {r \in ready : g.activeCount + Cardinality(g.ahead[r] \cap ready) < MaxConcurrent}
    <2>1. granted = first
      <3> HIDE DEF ready
      <3>1. \A r \in ready : g.activeCount + place(r) < MaxConcurrent <=> place(r) < n
        BY <1>1, <1>2
      <3> QED
        BY <3>1
    <2>2. TryDispatch(g) = Grant(g, first)
      BY DEF TryDispatch
    <2>3. Remove(g, first).activeCount = g.activeCount
      BY <1>1, <2>1, LineWithout
    <2> HIDE DEF first, granted
    <2> QED
      BY <2>1, <2>2, <2>3, <1>1, LineWithout DEF Grant, Gate
  <1> HIDE DEF ready, granted, place, n
  <1>5. /\ e \in Gate /\ QueueFits(e) /\ e.waiters = g.waiters \ granted
        /\ e.activeCount = g.activeCount /\ e.cooldowns = g.cooldowns
        /\ \A s \in e.waiters : e.ahead[s] = g.ahead[s] \ granted
    BY <1>1, LineWithout
  <1> HIDE DEF e
  <1>6. /\ f \in Gate /\ f.waiters = e.waiters /\ f.ahead = e.ahead
        /\ f.activeCount = g.activeCount + Cardinality(granted) /\ f.cooldowns = g.cooldowns
    BY <1>1, <1>3, <1>5 DEF Gate
  <1> HIDE DEF f
  <1>7. f.activeCount <= MaxConcurrent
    BY <1>1, <1>2, <1>3, <1>6 DEF n
  <1>8. f.activeCount < MaxConcurrent => \A r \in f.waiters : f.cooldowns[providerKey[r]] # 0
    <2>1. f.activeCount < MaxConcurrent => granted = ready
      BY <1>1, <1>2, <1>3, <1>6 DEF n
    <2> QED
      BY <1>5, <1>6, <2>1 DEF ready
  <1>9. /\ d \in Gate /\ Woken(d) /\ d.waiters = g.waiters \ granted /\ d.ahead = e.ahead
        /\ d.activeCount = g.activeCount + Cardinality(granted) /\ d.cooldowns = g.cooldowns
    BY <1>5, <1>6, <1>8, WakeIsScheduled
  <1> HIDE DEF d
  <1>10. GateFits(d)
    BY <1>5, <1>6, <1>7, <1>9 DEF GateFits, QueueFits
  <1>11. Load(d) = Load(g) /\ d.activeCount >= g.activeCount
    <2>1. /\ Cardinality(g.waiters) \in Nat
          /\ Cardinality(g.waiters \ granted) = Cardinality(g.waiters) - Cardinality(granted)
      BY <1>1, RequestsAreCounted
    <2> QED
      BY <1>1, <1>3, <1>9, <2>1 DEF Load
  <1>12. Serves(g, d)
    <2>1. g.waiters \ d.waiters = granted
      BY <1>1, <1>9
    <2>2. \A r \in granted : r \in ready /\ d.cooldowns[providerKey[r]] = 0
      BY <1>9 DEF granted, ready
    <2>3. \A r \in granted, s \in d.waiters : providerKey[s] = providerKey[r] => r \in g.ahead[s]
      BY <1>2, <1>9 DEF granted, ready
    <2> QED
      BY <1>5, <1>9, <2>1, <2>2, <2>3 DEF Serves
  <1> QED
    BY <1>4, <1>9, <1>10, <1>11, <1>12

\* acquire: the new waiter is the last of the line.
LEMMA JoinServes ==
  ASSUME NEW g, GateFits(g), NEW r \in Request, r \notin g.waiters
  PROVE  LET d == Join(g, r)
         IN  /\ GateFits(d) /\ Woken(d) /\ Serves(g, d)
             /\ d.waiters \subseteq g.waiters \cup {r} /\ d.cooldowns = g.cooldowns
             /\ Load(d) = Load(g) + 1
             /\ r \notin d.waiters => d.cooldowns[providerKey[r]] = 0
  <1> DEFINE e == [g EXCEPT !.waiters = @ \cup {r}, !.ahead[r] = g.waiters]
             d == Join(g, r)
  <1>1. /\ g \in Gate /\ QueueFits(g)
        /\ g.waiters \in SUBSET Request /\ g.ahead \in [Request -> SUBSET Request]
        /\ g.activeCount \in Nat /\ g.activeCount <= MaxConcurrent
    BY DEF GateFits, Gate
  <1>2. /\ e \in Gate /\ e.waiters = g.waiters \cup {r} /\ e.ahead = [g.ahead EXCEPT ![r] = g.waiters]
        /\ e.activeCount = g.activeCount /\ e.cooldowns = g.cooldowns
    BY <1>1 DEF Gate
  <1> HIDE DEF e
  <1>3. e.ahead[r] = g.waiters /\ \A s \in Request : s # r => e.ahead[s] = g.ahead[s]
    BY <1>1, <1>2
  <1>4. QueueFits(e)
    BY <1>1, <1>2, <1>3 DEF QueueFits
  <1>5. GateFits(e)
    BY <1>1, <1>2, <1>4 DEF GateFits
  <1>6. d = TryDispatch(e)
    BY DEF Join, e
  <1> HIDE DEF d
  <1>7. /\ GateFits(d) /\ Woken(d) /\ Serves(e, d)
        /\ d.waiters \subseteq e.waiters /\ d.cooldowns = e.cooldowns /\ Load(d) = Load(e)
    BY <1>5, <1>6, DispatchServes
  <1>8. Serves(g, d)
    BY <1>1, <1>2, <1>3, <1>7 DEF Serves
  <1>9. Load(d) = Load(g) + 1
    <2>1. Cardinality(e.waiters) = Cardinality(g.waiters) + 1 /\ Cardinality(g.waiters) \in Nat
      BY <1>1, <1>2, RequestsAreCounted, FS_AddElement
    <2> QED
      BY <1>1, <1>2, <1>7, <2>1 DEF Load
  <1>10. r \notin d.waiters => d.cooldowns[providerKey[r]] = 0
    BY <1>2, <1>7 DEF Serves
  <1> QED
    BY <1>2, <1>7, <1>8, <1>9, <1>10 DEF d

\* onAbort: a waiter leaves the line.
LEMMA LeaveServes ==
  ASSUME NEW g, GateFits(g), NEW r \in g.waiters
  PROVE  LET d == Leave(g, r)
         IN  /\ GateFits(d) /\ Woken(d) /\ Serves(Remove(g, {r}), d)
             /\ d.waiters \subseteq g.waiters \ {r} /\ d.cooldowns = g.cooldowns
             /\ Load(d) = Load(g) - 1
  <1> DEFINE e == Remove(g, {r})
             d == Leave(g, r)
  <1>1. /\ g \in Gate /\ QueueFits(g) /\ r \in Request /\ {r} \in SUBSET g.waiters
        /\ g.waiters \in SUBSET Request /\ g.activeCount \in Nat
        /\ g.activeCount <= MaxConcurrent
    BY DEF GateFits, Gate
  <1>2. /\ e \in Gate /\ QueueFits(e) /\ e.waiters = g.waiters \ {r}
        /\ e.activeCount = g.activeCount /\ e.cooldowns = g.cooldowns
    BY <1>1, LineWithout
  <1>3. d = TryDispatch(e)
    BY DEF Leave
  <1> HIDE DEF d, e
  <1>4. GateFits(e)
    BY <1>1, <1>2 DEF GateFits
  <1>5. /\ GateFits(d) /\ Woken(d) /\ Serves(e, d)
        /\ d.waiters \subseteq e.waiters /\ d.cooldowns = e.cooldowns /\ Load(d) = Load(e)
    BY <1>3, <1>4, DispatchServes
  <1>6. Load(d) = Load(g) - 1
    <2>1. Cardinality(e.waiters) = Cardinality(g.waiters) - 1 /\ Cardinality(g.waiters) \in Nat
      BY <1>1, <1>2, RequestsAreCounted, FS_RemoveElement
    <2> QED
      BY <1>1, <1>2, <1>5, <2>1 DEF Load
  <1> QED
    BY <1>2, <1>5, <1>6 DEF d, e

\* release: a lease that is given back goes to the next waiter.
LEMMA ReleaseServes ==
  ASSUME NEW g, GateFits(g), g.activeCount > 0
  PROVE  LET d == Release(g)
         IN  /\ GateFits(d) /\ Woken(d) /\ Serves(g, d)
             /\ d.waiters \subseteq g.waiters /\ d.cooldowns = g.cooldowns
             /\ Load(d) = Load(g) - 1
  <1> DEFINE e == [g EXCEPT !.activeCount = @ - 1]
             d == Release(g)
  <1>1. /\ g \in Gate /\ QueueFits(g) /\ g.waiters \in SUBSET Request
        /\ g.activeCount \in Nat /\ g.activeCount <= MaxConcurrent /\ MaxConcurrent \in Nat
    BY LimitsAssumption DEF GateFits, Gate
  <1>2. g.activeCount - 1 \in Nat /\ g.activeCount - 1 <= MaxConcurrent
    BY <1>1
  <1>3. /\ e \in Gate /\ e.waiters = g.waiters /\ e.ahead = g.ahead
        /\ e.activeCount = g.activeCount - 1 /\ e.cooldowns = g.cooldowns
    BY <1>1, <1>2 DEF Gate
  <1>4. d = TryDispatch(e)
    BY DEF Release
  <1> HIDE DEF d, e
  <1>5. GateFits(e)
    BY <1>1, <1>2, <1>3 DEF GateFits, QueueFits
  <1>6. /\ GateFits(d) /\ Woken(d) /\ Serves(e, d)
        /\ d.waiters \subseteq e.waiters /\ d.cooldowns = e.cooldowns /\ Load(d) = Load(e)
    BY <1>4, <1>5, DispatchServes
  <1>7. Serves(g, d)
    BY <1>3, <1>6 DEF Serves
  <1>8. Load(d) = Load(g) - 1
    <2>1. Cardinality(g.waiters) \in Nat
      BY <1>1, RequestsAreCounted
    <2> QED
      BY <1>1, <1>3, <1>6, <2>1 DEF Load
  <1> QED
    BY <1>3, <1>6, <1>7, <1>8 DEF d

\* enterCooldown: cooldowns only get longer.
LEMMA CooldownServes ==
  ASSUME NEW g, GateFits(g), Woken(g), NEW p \in Provider, NEW ticks \in Nat
  PROVE  LET d == EnterCooldown(g, p, ticks)
         IN  /\ GateFits(d) /\ Woken(d) /\ Serves(g, d)
             /\ d.waiters \subseteq g.waiters
             /\ Load(d) = Load(g) /\ d.activeCount >= g.activeCount
             /\ ticks <= d.cooldowns[p]
             /\ \A q \in Provider : g.cooldowns[q] <= d.cooldowns[q]
  <1> DEFINE e == [g EXCEPT !.cooldowns[p] = ticks]
             d == EnterCooldown(g, p, ticks)
  <1>1. /\ g \in Gate /\ QueueFits(g) /\ g.waiters \in SUBSET Request
        /\ g.cooldowns \in [Provider -> Nat] /\ g.activeCount \in Nat
        /\ g.activeCount <= MaxConcurrent
    BY DEF GateFits, Gate
  <1>2. CASE ticks > g.cooldowns[p]
    <2>1. /\ e \in Gate /\ e.waiters = g.waiters /\ e.ahead = g.ahead
          /\ e.activeCount = g.activeCount /\ e.cooldowns = [g.cooldowns EXCEPT ![p] = ticks]
      BY <1>1 DEF Gate
    <2>2. d = TryDispatch(e)
      BY <1>2 DEF EnterCooldown
    <2> HIDE DEF d, e
    <2>3. GateFits(e)
      BY <1>1, <2>1 DEF GateFits, QueueFits
    <2>4. /\ GateFits(d) /\ Woken(d) /\ Serves(e, d)
          /\ d.waiters \subseteq e.waiters /\ d.cooldowns = e.cooldowns /\ Load(d) = Load(e)
          /\ d.activeCount >= e.activeCount
      BY <2>2, <2>3, DispatchServes
    <2>5. Serves(g, d)
      BY <2>1, <2>4 DEF Serves
    <2>6. ticks <= d.cooldowns[p] /\ \A q \in Provider : g.cooldowns[q] <= d.cooldowns[q]
      BY <1>1, <1>2, <2>1, <2>4
    <2> QED
      BY <2>1, <2>4, <2>5, <2>6 DEF d, Load
  <1>3. CASE ~(ticks > g.cooldowns[p])
    <2>1. d = g
      BY <1>3 DEF EnterCooldown
    <2>2. ticks <= g.cooldowns[p] /\ \A q \in Provider : g.cooldowns[q] <= g.cooldowns[q]
      BY <1>1, <1>3
    <2> HIDE DEF d
    <2> QED
      BY <1>1, <2>1, <2>2 DEF d, Serves
  <1> QED
    BY <1>2, <1>3

\* One after the other serves, as long as no cooldown begins in between.
LEMMA ServesInTurn ==
  ASSUME NEW g, NEW d, NEW e, Serves(g, d), Serves(d, e), d.cooldowns = e.cooldowns,
         d.waiters \subseteq g.waiters, e.waiters \cap g.waiters \subseteq d.waiters
  PROVE  Serves(g, e)
  BY DEF Serves

-----------------------------------------------------------------------------
(* The requests.                                                           *)

\* What the requests have of the gate.
LEMMA LeasesOf ==
  ASSUME ProviderInvariant
  PROVE  /\ GateFits(gate) /\ Woken(gate) /\ gate.waiters \in SUBSET Request
         /\ gate.activeCount \in Nat /\ Load(gate) \in Nat
         /\ gate.waiters \in SUBSET Busy /\ Busy \in SUBSET Request
         /\ Holders = Busy \ gate.waiters
         /\ gate.activeCount = Cardinality(Holders)
         /\ \A r \in Holders : r \in Busy /\ r \notin gate.waiters /\ gate.activeCount > 0
  <1>1. /\ GateFits(gate) /\ Woken(gate) /\ gate.waiters \in SUBSET Request
        /\ gate.activeCount \in Nat
    BY DEF ProviderInvariant, GateFits, Gate
  <1>2. gate.waiters \in SUBSET Busy /\ Busy \in SUBSET Request
    BY DEF ProviderInvariant, Busy
  <1>3. Holders = Busy \ gate.waiters
    BY DEF Holders, Busy, Sending, ProviderInvariant
  <1>4. /\ Cardinality(Holders) = Cardinality(Busy) - Cardinality(gate.waiters)
        /\ Cardinality(gate.waiters) \in Nat /\ Cardinality(Busy) \in Nat
        /\ Cardinality(Holders) \in Nat
    BY <1>2, <1>3, RequestsAreCounted
  <1>5. Load(gate) \in Nat /\ gate.activeCount = Cardinality(Holders)
    BY <1>1, <1>4 DEF ProviderInvariant, Load
  <1>6. ASSUME NEW r \in Holders
        PROVE  gate.activeCount > 0
    <2>1. Holders \in SUBSET Request /\ {} \in SUBSET Holders /\ {} # Holders
      BY <1>2, <1>3, <1>6
    <2>2. Cardinality({}) = 0
      BY FS_EmptySet
    <2> QED
      BY <1>5, <2>1, <2>2, RequestsAreCounted
  <1> QED
    BY <1>1, <1>2, <1>3, <1>5, <1>6

\* How many are busy when a request goes to a stage.
LEMMA BusyAfter ==
  ASSUME TypeOK, NEW r \in Request, NEW to \in Stage, stage' = [stage EXCEPT ![r] = to]
  PROVE  /\ \A q \in Request : q # r => stage'[q] = stage[q]
         /\ stage'[r] = to /\ stage' \in [Request -> Stage]
         /\ r \in Busy /\ to \notin {"attempt", "backoff"} => Cardinality(Busy') = Cardinality(Busy) - 1
         /\ r \in Busy /\ to \in {"attempt", "backoff"} => Cardinality(Busy') = Cardinality(Busy)
         /\ r \notin Busy /\ to \notin {"attempt", "backoff"} => Cardinality(Busy') = Cardinality(Busy)
         /\ r \notin Busy /\ to \in {"attempt", "backoff"} => Cardinality(Busy') = Cardinality(Busy) + 1
  <1>1. /\ \A q \in Request : q # r => stage'[q] = stage[q]
        /\ stage'[r] = to /\ stage' \in [Request -> Stage]
    BY DEF TypeOK
  <1>2. Busy \in SUBSET Request
    BY DEF Busy
  <1>3. IsFiniteSet(Busy) /\ Cardinality(Busy) \in Nat
    BY <1>2, RequestsAreCounted
  <1>4. r \in Busy /\ to \notin {"attempt", "backoff"} => Cardinality(Busy') = Cardinality(Busy) - 1
    <2>1. to \notin {"attempt", "backoff"} => Busy' = Busy \ {r}
      BY <1>1 DEF Busy
    <2> QED
      BY <1>3, <2>1, FS_RemoveElement
  <1>5. /\ r \in Busy /\ to \in {"attempt", "backoff"} => Busy' = Busy
        /\ r \notin Busy /\ to \notin {"attempt", "backoff"} => Busy' = Busy
    BY <1>1 DEF Busy
  <1>6. r \notin Busy /\ to \in {"attempt", "backoff"} => Cardinality(Busy') = Cardinality(Busy) + 1
    <2>1. to \in {"attempt", "backoff"} => Busy' = Busy \cup {r}
      BY <1>1 DEF Busy
    <2> QED
      BY <1>3, <2>1, FS_AddElement
  <1> QED
    BY <1>1, <1>4, <1>5, <1>6

\* What an action says of the requests that are sent with it.
ServeStep ==
  \A r \in Request : Sent(r) =>
    /\ notBefore'["rate_limit"][providerKey[r]] = 0
    /\ \A s \in gate.waiters \cap gate'.waiters :
         r \in gate.waiters /\ providerKey[s] = providerKey[r] => r \in gate.ahead[s]

\* One request goes to a stage, and the gate may serve others.
LEMMA RequestGoesOn ==
  ASSUME ProviderInvariant, NEW r \in Request, NEW to \in Stage,
         stage' = [stage EXCEPT ![r] = to], r \notin gate.waiters,
         attempt' \in [Request -> 0 .. MaxAttempts],
         recoveries' \in [Request -> 0 .. MaxRecoveries], delay' \in [Request -> Nat],
         fellBack' \in SUBSET HasFallback, aborted' \in SUBSET Request,
         notBefore' \in [Failure -> [Provider -> Nat]],
         \A p \in Provider : notBefore'["rate_limit"][p] <= gate'.cooldowns[p],
         GateFits(gate'), Woken(gate'), Serves(gate, gate'),
         gate'.waiters \subseteq gate.waiters \cup {r},
         r \in gate'.waiters => to = "attempt",
         Load(gate') = Load(gate) + (IF to \in {"attempt", "backoff"} THEN 1 ELSE 0)
                                  - (IF r \in Busy THEN 1 ELSE 0),
         to = "attempt" /\ r \notin gate'.waiters => gate'.cooldowns[providerKey[r]] = 0
  PROVE  ProviderInvariant' /\ ServeStep
  <1>1. /\ \A q \in Request : q # r => stage'[q] = stage[q]
        /\ stage'[r] = to /\ stage' \in [Request -> Stage]
        /\ r \in Busy /\ to \notin {"attempt", "backoff"} => Cardinality(Busy') = Cardinality(Busy) - 1
        /\ r \in Busy /\ to \in {"attempt", "backoff"} => Cardinality(Busy') = Cardinality(Busy)
        /\ r \notin Busy /\ to \notin {"attempt", "backoff"} => Cardinality(Busy') = Cardinality(Busy)
        /\ r \notin Busy /\ to \in {"attempt", "backoff"} => Cardinality(Busy') = Cardinality(Busy) + 1
    BY BusyAfter DEF ProviderInvariant
  <1>2. gate' \in Gate
    BY DEF GateFits
  <1>3. TypeOK'
    BY <1>1, <1>2 DEF TypeOK
  <1>4. Load(gate') = Cardinality(Busy')
    <2>1. Load(gate) = Cardinality(Busy) /\ Load(gate) \in Nat
      BY LeasesOf DEF ProviderInvariant
    <2> QED
      BY <1>1, <2>1
  <1>5. gate'.waiters \subseteq {q \in Request : stage'[q] = "attempt"}
    BY <1>1 DEF ProviderInvariant
  <1>6. ProviderInvariant'
    BY <1>3, <1>4, <1>5 DEF ProviderInvariant, GateFits, Woken, Load, QueueFits
  <1>7. ASSUME NEW q \in Request, Sending(q)', ~Sending(q)
        PROVE  /\ notBefore'["rate_limit"][providerKey[q]] = 0
               /\ \A s \in gate.waiters \cap gate'.waiters :
                    q \in gate.waiters /\ providerKey[s] = providerKey[q] => q \in gate.ahead[s]
    <2>1. stage'[q] = "attempt" /\ q \notin gate'.waiters
      BY <1>7 DEF Sending
    <2>2. gate'.cooldowns[providerKey[q]] = 0
      <3>1. q # r => q \in gate.waiters \ gate'.waiters
        BY <1>1, <1>7, <2>1 DEF Sending, Sent
      <3> QED
        BY <1>1, <2>1, <3>1 DEF Serves
    <2>3. providerKey[q] \in Provider
      BY ProviderKeyAssumption
    <2>4. notBefore'["rate_limit"][providerKey[q]] \in Nat /\ notBefore'["rate_limit"][providerKey[q]] <= 0
      BY <2>2, <2>3 DEF Failure
    <2> QED
      BY <2>1, <2>4 DEF Serves
  <1> QED
    BY <1>6, <1>7 DEF ServeStep, Sent

\* The head of the loop, after the gate has done g.
LEMMA AttemptServes ==
  ASSUME TypeOK, NEW r \in Request, NEW g, GateFits(g), Woken(g), Serves(gate, g),
         g.waiters \subseteq gate.waiters, r \notin gate.waiters, NextAttempt(r, g)
  PROVE  \E to \in {"attempt", "done"} :
           /\ stage' = [stage EXCEPT ![r] = to]
           /\ attempt' \in [Request -> 0 .. MaxAttempts]
           /\ GateFits(gate') /\ Woken(gate') /\ Serves(gate, gate')
           /\ gate'.waiters \subseteq gate.waiters \cup {r} /\ gate'.cooldowns = g.cooldowns
           /\ r \in gate'.waiters => to = "attempt"
           /\ Load(gate') = Load(g) + (IF to = "attempt" THEN 1 ELSE 0)
           /\ to = "attempt" /\ r \notin gate'.waiters => gate'.cooldowns[providerKey[r]] = 0
  <1>1. CASE /\ stage' = [stage EXCEPT ![r] = "done"] /\ gate' = g /\ attempt' = attempt
    <2>1. Load(g) \in Nat
      <3>1. g.waiters \in SUBSET Request /\ g.activeCount \in Nat
        BY DEF GateFits, Gate
      <3> QED
        BY <3>1, RequestsAreCounted DEF Load
    <2>2. Load(gate') = Load(g)
      BY <1>1
    <2>3. attempt' \in [Request -> 0 .. MaxAttempts]
      BY <1>1 DEF TypeOK
    <2>4. GateFits(gate') /\ Woken(gate') /\ Serves(gate, gate')
      BY <1>1
    <2> QED
      BY <1>1, <2>1, <2>2, <2>3, <2>4
  <1>2. CASE /\ attempt[r] < MaxAttempts /\ stage' = [stage EXCEPT ![r] = "attempt"]
             /\ attempt' = [attempt EXCEPT ![r] = @ + 1] /\ gate' = Join(g, r)
    <2>1. /\ GateFits(gate') /\ Woken(gate') /\ Serves(g, gate')
          /\ gate'.waiters \subseteq g.waiters \cup {r} /\ gate'.cooldowns = g.cooldowns
          /\ Load(gate') = Load(g) + 1
          /\ r \notin gate'.waiters => gate'.cooldowns[providerKey[r]] = 0
      BY <1>2, JoinServes
    <2>2. Serves(gate, gate')
      BY <2>1, ServesInTurn
    <2>3. attempt' \in [Request -> 0 .. MaxAttempts]
      <3>1. attempt[r] \in 0 .. MaxAttempts /\ MaxAttempts \in Nat
        BY LimitsAssumption DEF TypeOK
      <3>2. attempt[r] + 1 \in 0 .. MaxAttempts
        BY <1>2, <3>1
      <3> QED
        BY <1>2, <3>2 DEF TypeOK
    <2> QED
      BY <1>2, <2>1, <2>2, <2>3
  <1> QED
    BY <1>1, <1>2 DEF NextAttempt

LEMMA StartServes ==
  ASSUME ProviderInvariant, NEW r \in Request, Start(r)
  PROVE  ProviderInvariant' /\ ServeStep
  <1>1. /\ TypeOK /\ GateFits(gate) /\ Woken(gate) /\ Load(gate) \in Nat
        /\ stage[r] = "new" /\ r \notin Busy /\ r \notin gate.waiters /\ NextAttempt(r, gate)
        /\ recoveries' = recoveries /\ delay' = delay /\ fellBack' = fellBack
        /\ aborted' = aborted /\ notBefore' = notBefore
    BY LeasesOf DEF Start, ProviderInvariant, Busy
  <1>2. Serves(gate, gate)
    BY DEF Serves
  <1>3. PICK to \in {"attempt", "done"} :
           /\ stage' = [stage EXCEPT ![r] = to]
           /\ attempt' \in [Request -> 0 .. MaxAttempts]
           /\ GateFits(gate') /\ Woken(gate') /\ Serves(gate, gate')
           /\ gate'.waiters \subseteq gate.waiters \cup {r} /\ gate'.cooldowns = gate.cooldowns
           /\ r \in gate'.waiters => to = "attempt"
           /\ Load(gate') = Load(gate) + (IF to = "attempt" THEN 1 ELSE 0)
           /\ to = "attempt" /\ r \notin gate'.waiters => gate'.cooldowns[providerKey[r]] = 0
    BY <1>1, <1>2, AttemptServes
  <1>4. \A p \in Provider : notBefore'["rate_limit"][p] <= gate'.cooldowns[p]
    BY <1>1, <1>3 DEF ProviderInvariant
  <1>5. to \in Stage
    BY DEF Stage
  <1>6. Load(gate') = Load(gate) + (IF to \in {"attempt", "backoff"} THEN 1 ELSE 0)
                                 - (IF r \in Busy THEN 1 ELSE 0)
    BY <1>1, <1>3
  <1>7. /\ recoveries' \in [Request -> 0 .. MaxRecoveries] /\ delay' \in [Request -> Nat]
        /\ fellBack' \in SUBSET HasFallback /\ aborted' \in SUBSET Request /\ notBefore' \in [Failure -> [Provider -> Nat]]
    BY <1>1 DEF TypeOK
  <1> QED
    BY <1>1, <1>3, <1>4, <1>5, <1>6, <1>7, RequestGoesOn

LEMMA RetryServes ==
  ASSUME ProviderInvariant, NEW r \in Request, Retry(r)
  PROVE  ProviderInvariant' /\ ServeStep
  <1> DEFINE g == Release(gate)
  <1>1. /\ TypeOK /\ GateFits(gate) /\ gate.activeCount > 0 /\ Load(gate) \in Nat
        /\ r \in Busy /\ r \notin gate.waiters /\ NextAttempt(r, g)
        /\ recoveries' = recoveries /\ delay' \in [Request -> Nat] /\ fellBack' = fellBack
        /\ aborted' = aborted /\ notBefore' = notBefore
    <2>1. r \in Holders /\ NextAttempt(r, g)
      BY DEF Holders, Retry
    <2> QED
      <3>1. delay' \in [Request -> Nat]
        BY DEF Retry, ProviderInvariant, TypeOK
      <3> QED
        BY <2>1, <3>1, LeasesOf DEF Retry, ProviderInvariant
  <1>2. /\ GateFits(g) /\ Woken(g) /\ Serves(gate, g) /\ g.waiters \subseteq gate.waiters
        /\ g.cooldowns = gate.cooldowns /\ Load(g) = Load(gate) - 1
    BY <1>1, ReleaseServes
  <1> HIDE DEF g
  <1>3. PICK to \in {"attempt", "done"} :
           /\ stage' = [stage EXCEPT ![r] = to]
           /\ attempt' \in [Request -> 0 .. MaxAttempts]
           /\ GateFits(gate') /\ Woken(gate') /\ Serves(gate, gate')
           /\ gate'.waiters \subseteq gate.waiters \cup {r} /\ gate'.cooldowns = g.cooldowns
           /\ r \in gate'.waiters => to = "attempt"
           /\ Load(gate') = Load(g) + (IF to = "attempt" THEN 1 ELSE 0)
           /\ to = "attempt" /\ r \notin gate'.waiters => gate'.cooldowns[providerKey[r]] = 0
    BY <1>1, <1>2, AttemptServes
  <1>4. \A p \in Provider : notBefore'["rate_limit"][p] <= gate'.cooldowns[p]
    BY <1>1, <1>2, <1>3 DEF ProviderInvariant
  <1>5. to \in Stage
    BY DEF Stage
  <1>6. Load(gate') = Load(gate) + (IF to \in {"attempt", "backoff"} THEN 1 ELSE 0)
                                 - (IF r \in Busy THEN 1 ELSE 0)
    BY <1>1, <1>2, <1>3
  <1>7. /\ recoveries' \in [Request -> 0 .. MaxRecoveries] /\ delay' \in [Request -> Nat]
        /\ fellBack' \in SUBSET HasFallback /\ aborted' \in SUBSET Request /\ notBefore' \in [Failure -> [Provider -> Nat]]
    BY <1>1 DEF TypeOK
  <1> QED
    BY <1>1, <1>3, <1>4, <1>5, <1>6, <1>7, RequestGoesOn

\* A failure is told to the gate with the Retry-After it names.
LEMMA FailureServes ==
  ASSUME ProviderInvariant, NEW r \in Request, NEW kind \in Failure,
         NEW ticks \in RetryAfter \cup {0}, Named(r, kind, ticks)
  PROVE  LET g == Failed(r, kind, ticks)
         IN  /\ GateFits(g) /\ Woken(g) /\ Serves(gate, g) /\ g.waiters \subseteq gate.waiters
             /\ Load(g) = Load(gate) /\ g.activeCount >= gate.activeCount /\ g.activeCount \in Nat
             /\ notBefore' \in [Failure -> [Provider -> Nat]]
             /\ \A p \in Provider : notBefore'["rate_limit"][p] <= g.cooldowns[p]
  <1> DEFINE g == Failed(r, kind, ticks)
             p == providerKey[r]
  <1>1. ticks \in Nat /\ p \in Provider
    BY ProviderKeyAssumption, RetryAfterAssumption
  <1>2. /\ GateFits(gate) /\ Woken(gate) /\ gate.activeCount \in Nat
        /\ notBefore \in [Failure -> [Provider -> Nat]] /\ gate.cooldowns \in [Provider -> Nat]
    BY DEF ProviderInvariant, TypeOK, Gate
  <1>3. /\ GateFits(g) /\ Woken(g) /\ Serves(gate, g) /\ g.waiters \subseteq gate.waiters
        /\ Load(g) = Load(gate) /\ g.activeCount >= gate.activeCount
        /\ kind = "rate_limit" => ticks <= g.cooldowns[p]
        /\ \A q \in Provider : gate.cooldowns[q] <= g.cooldowns[q]
    <2>1. CASE kind = "rate_limit"
      <3>1. g = EnterCooldown(gate, p, ticks)
        BY <2>1 DEF Failed
      <3> HIDE DEF g
      <3> QED
        BY <1>1, <1>2, <3>1, CooldownServes
    <2>2. CASE kind # "rate_limit"
      <3>1. g = gate
        BY <2>2 DEF Failed
      <3> HIDE DEF g
      <3>2. Serves(gate, g)
        BY <3>1 DEF Serves
      <3> QED
        BY <1>2, <2>2, <3>1, <3>2
    <2> QED
      BY <2>1, <2>2
  <1> HIDE DEF g
  <1>4. notBefore' = [notBefore EXCEPT ![kind] = [notBefore[kind] EXCEPT ![p] =
                        IF ticks > notBefore[kind][p] THEN ticks ELSE notBefore[kind][p]]]
    BY <1>1, <1>2 DEF Named
  <1>5. notBefore' \in [Failure -> [Provider -> Nat]]
    BY <1>1, <1>2, <1>4
  <1>6. g.cooldowns \in [Provider -> Nat] /\ g.activeCount \in Nat
    BY <1>3 DEF GateFits, Gate
  <1>7. ASSUME NEW q \in Provider
        PROVE  notBefore'["rate_limit"][q] <= g.cooldowns[q]
    <2>1. "rate_limit" \in Failure
      BY DEF Failure
    <2>2. /\ notBefore["rate_limit"][q] <= gate.cooldowns[q] /\ gate.cooldowns[q] <= g.cooldowns[q]
          /\ notBefore["rate_limit"][q] \in Nat /\ gate.cooldowns[q] \in Nat
          /\ g.cooldowns[q] \in Nat
      BY <1>2, <1>3, <1>6, <2>1 DEF ProviderInvariant
    <2>3. \/ notBefore'["rate_limit"][q] = notBefore["rate_limit"][q]
          \/ kind = "rate_limit" /\ q = p /\ notBefore'["rate_limit"][q] = ticks
      BY <1>1, <1>2, <1>4, <2>1
    <2> QED
      BY <1>1, <1>3, <2>2, <2>3
  <1> QED
    BY <1>3, <1>5, <1>6, <1>7 DEF g

\* The last attempt gives its lease back.
LEMMA EndServes ==
  ASSUME ProviderInvariant, NEW r \in Request, Sending(r), NEW g, End(r, g),
         GateFits(g), Serves(gate, g), g.waiters \subseteq gate.waiters,
         Load(g) = Load(gate), g.activeCount > 0,
         aborted' = aborted, notBefore' \in [Failure -> [Provider -> Nat]],
         \A p \in Provider : notBefore'["rate_limit"][p] <= g.cooldowns[p]
  PROVE  ProviderInvariant' /\ ServeStep
  <1>1. /\ TypeOK /\ Load(gate) \in Nat /\ r \in Busy /\ r \notin gate.waiters
        /\ stage' = [stage EXCEPT ![r] = "done"] /\ gate' = Release(g)
        /\ attempt' = attempt /\ recoveries' = recoveries /\ delay' = delay /\ fellBack' = fellBack
    <2>1. r \in Holders
      BY DEF Holders
    <2> QED
      BY <2>1, LeasesOf DEF End, coordinatorVars, ProviderInvariant
  <1>2. /\ GateFits(gate') /\ Woken(gate') /\ Serves(g, gate') /\ gate'.waiters \subseteq g.waiters
        /\ gate'.cooldowns = g.cooldowns /\ Load(gate') = Load(g) - 1
    BY <1>1, ReleaseServes
  <1>3. Serves(gate, gate')
    BY <1>2, ServesInTurn
  <1>4. Load(gate') = Load(gate) + (IF "done" \in {"attempt", "backoff"} THEN 1 ELSE 0)
                                 - (IF r \in Busy THEN 1 ELSE 0)
    BY <1>1, <1>2
  <1>5. /\ attempt' \in [Request -> 0 .. MaxAttempts]
        /\ recoveries' \in [Request -> 0 .. MaxRecoveries] /\ delay' \in [Request -> Nat]
        /\ fellBack' \in SUBSET HasFallback /\ aborted' \in SUBSET Request
    BY <1>1 DEF TypeOK
  <1>6. /\ "done" \in Stage /\ \A p \in Provider : notBefore'["rate_limit"][p] <= gate'.cooldowns[p]
        /\ gate'.waiters \subseteq gate.waiters \cup {r} /\ r \notin gate'.waiters
    BY <1>1, <1>2 DEF Stage
  <1> QED
    BY <1>1, <1>2, <1>3, <1>4, <1>5, <1>6, RequestGoesOn

LEMMA SucceedServes ==
  ASSUME ProviderInvariant, NEW r \in Request, Succeed(r)
  PROVE  ProviderInvariant' /\ ServeStep
  <1>1. /\ Sending(r) /\ End(r, gate) /\ aborted' = aborted /\ notBefore' = notBefore
    BY DEF Succeed
  <1>2. GateFits(gate) /\ gate.activeCount > 0
    BY <1>1, LeasesOf DEF Holders
  <1>3. Serves(gate, gate)
    BY DEF Serves
  <1>4. notBefore' \in [Failure -> [Provider -> Nat]] /\ \A p \in Provider : notBefore'["rate_limit"][p] <= gate.cooldowns[p]
    BY <1>1 DEF ProviderInvariant, TypeOK
  <1> QED
    BY <1>1, <1>2, <1>3, <1>4, EndServes

LEMMA GiveUpServes ==
  ASSUME ProviderInvariant, NEW r \in Request, GiveUp(r)
  PROVE  ProviderInvariant' /\ ServeStep
  <1>1. PICK kind \in Failure, ticks \in RetryAfter \cup {0} :
          End(r, Failed(r, kind, ticks)) /\ Named(r, kind, ticks)
    BY DEF GiveUp
  <1>2. Sending(r) /\ aborted' = aborted
    BY DEF GiveUp
  <1>3. gate.activeCount > 0 /\ gate.activeCount \in Nat
    BY <1>2, LeasesOf DEF Holders
  <1> DEFINE g == Failed(r, kind, ticks)
  <1>4. /\ GateFits(g) /\ Woken(g) /\ Serves(gate, g) /\ g.waiters \subseteq gate.waiters
        /\ Load(g) = Load(gate) /\ g.activeCount >= gate.activeCount /\ g.activeCount \in Nat
        /\ notBefore' \in [Failure -> [Provider -> Nat]]
        /\ \A p \in Provider : notBefore'["rate_limit"][p] <= g.cooldowns[p]
    BY <1>1, FailureServes
  <1>5. End(r, g)
    BY <1>1
  <1> HIDE DEF g
  <1>6. g.activeCount > 0
    BY <1>3, <1>4
  <1> QED
    BY <1>2, <1>4, <1>5, <1>6, EndServes

LEMMA FallBackServes ==
  ASSUME ProviderInvariant, NEW r \in Request, FallBack(r)
  PROVE  ProviderInvariant' /\ ServeStep
  <1>1. PICK kind \in Failure, ticks \in RetryAfter \cup {0} :
          NextAttempt(r, Release(Failed(r, kind, ticks))) /\ Named(r, kind, ticks)
    BY DEF FallBack
  <1>2. /\ TypeOK /\ Sending(r) /\ r \in Busy /\ r \notin gate.waiters /\ Load(gate) \in Nat
        /\ gate.activeCount > 0 /\ gate.activeCount \in Nat
        /\ recoveries' = recoveries /\ delay' = delay /\ aborted' = aborted
        /\ fellBack' \in SUBSET HasFallback
    <2>1. Sending(r) /\ r \in Holders
      BY DEF FallBack, Holders
    <2>2. fellBack' \in SUBSET HasFallback
      BY DEF FallBack, CanFallBack, ProviderInvariant, TypeOK
    <2> QED
      BY <2>1, <2>2, LeasesOf DEF FallBack, ProviderInvariant
  <1> DEFINE f == Failed(r, kind, ticks)
             g == Release(f)
  <1>3. /\ GateFits(f) /\ Woken(f) /\ Serves(gate, f) /\ f.waiters \subseteq gate.waiters
        /\ Load(f) = Load(gate) /\ f.activeCount >= gate.activeCount /\ f.activeCount \in Nat
        /\ notBefore' \in [Failure -> [Provider -> Nat]]
        /\ \A p \in Provider : notBefore'["rate_limit"][p] <= f.cooldowns[p]
    BY <1>1, FailureServes
  <1>4. NextAttempt(r, g)
    BY <1>1
  <1> HIDE DEF f
  <1>5. f.activeCount > 0
    BY <1>2, <1>3
  <1>6. /\ GateFits(g) /\ Woken(g) /\ Serves(f, g) /\ g.waiters \subseteq f.waiters
        /\ g.cooldowns = f.cooldowns /\ Load(g) = Load(f) - 1
    BY <1>3, <1>5, ReleaseServes
  <1> HIDE DEF g
  <1>7. Serves(gate, g) /\ g.waiters \subseteq gate.waiters
    BY <1>3, <1>6, ServesInTurn
  <1>8. PICK to \in {"attempt", "done"} :
           /\ stage' = [stage EXCEPT ![r] = to]
           /\ attempt' \in [Request -> 0 .. MaxAttempts]
           /\ GateFits(gate') /\ Woken(gate') /\ Serves(gate, gate')
           /\ gate'.waiters \subseteq gate.waiters \cup {r} /\ gate'.cooldowns = g.cooldowns
           /\ r \in gate'.waiters => to = "attempt"
           /\ Load(gate') = Load(g) + (IF to = "attempt" THEN 1 ELSE 0)
           /\ to = "attempt" /\ r \notin gate'.waiters => gate'.cooldowns[providerKey[r]] = 0
    BY <1>2, <1>4, <1>6, <1>7, AttemptServes
  <1>9. \A p \in Provider : notBefore'["rate_limit"][p] <= gate'.cooldowns[p]
    BY <1>3, <1>6, <1>8
  <1>10. to \in Stage
    BY DEF Stage
  <1>11. Load(gate') = Load(gate) + (IF to \in {"attempt", "backoff"} THEN 1 ELSE 0)
                                  - (IF r \in Busy THEN 1 ELSE 0)
    <2>1. r \in Busy /\ Load(gate) \in Nat /\ Load(g) = Load(gate) - 1
      BY <1>2, <1>3, <1>6
    <2>2. Load(gate') = Load(g) + (IF to = "attempt" THEN 1 ELSE 0)
      BY <1>8
    <2> QED
      BY <2>1, <2>2
  <1>12. /\ recoveries' \in [Request -> 0 .. MaxRecoveries] /\ delay' \in [Request -> Nat]
         /\ aborted' \in SUBSET Request
    BY <1>2 DEF TypeOK
  <1> QED
    BY <1>2, <1>3, <1>8, <1>9, <1>10, <1>11, <1>12, RequestGoesOn

LEMMA BackOffServes ==
  ASSUME ProviderInvariant, NEW r \in Request, BackOff(r)
  PROVE  ProviderInvariant' /\ ServeStep
  <1>1. PICK kind \in Failure, ticks \in RetryAfter \cup {0} :
          /\ gate' = Failed(r, kind, ticks) /\ Named(r, kind, ticks)
          /\ delay' = [delay EXCEPT ![r] = IF ticks < MaxRetryAfter THEN ticks ELSE MaxRetryAfter]
    BY DEF BackOff
  <1>2. /\ TypeOK /\ r \in Busy /\ r \notin gate.waiters /\ Load(gate) \in Nat
        /\ stage' = [stage EXCEPT ![r] = "backoff"]
        /\ attempt' = attempt /\ aborted' = aborted /\ fellBack' = fellBack
    <2>1. r \in Holders
      BY DEF BackOff, Holders
    <2> QED
      BY <2>1, LeasesOf DEF BackOff, ProviderInvariant
  <1>3. recoveries' \in [Request -> 0 .. MaxRecoveries]
    <2>1. CASE UNCHANGED recoveries
      BY <1>2, <2>1 DEF TypeOK
    <2>2. CASE recoveries[r] < MaxRecoveries /\ recoveries' = [recoveries EXCEPT ![r] = @ + 1]
      <3>1. recoveries[r] \in 0 .. MaxRecoveries /\ MaxRecoveries \in Nat
        BY <1>2, LimitsAssumption DEF TypeOK
      <3>2. recoveries[r] + 1 \in 0 .. MaxRecoveries
        BY <2>2, <3>1
      <3> QED
        BY <1>2, <2>2, <3>2 DEF TypeOK
    <2> QED
      BY <2>1, <2>2 DEF BackOff
  <1>4. /\ GateFits(gate') /\ Woken(gate') /\ Serves(gate, gate')
        /\ gate'.waiters \subseteq gate.waiters
        /\ Load(gate') = Load(gate)
        /\ notBefore' \in [Failure -> [Provider -> Nat]]
        /\ \A p \in Provider : notBefore'["rate_limit"][p] <= gate'.cooldowns[p]
    BY <1>1, FailureServes
  <1>5. Load(gate') = Load(gate) + (IF "backoff" \in {"attempt", "backoff"} THEN 1 ELSE 0)
                                 - (IF r \in Busy THEN 1 ELSE 0)
    BY <1>2, <1>4
  <1>6. /\ attempt' \in [Request -> 0 .. MaxAttempts] /\ fellBack' \in SUBSET HasFallback
        /\ aborted' \in SUBSET Request
    BY <1>2 DEF TypeOK
  <1>7. delay' \in [Request -> Nat]
    <2>1. ticks \in Nat /\ MaxRetryAfter \in Nat
      BY RetryAfterAssumption, LimitsAssumption
    <2> QED
      BY <1>1, <1>2, <2>1 DEF TypeOK
  <1>8. "backoff" \in Stage /\ gate'.waiters \subseteq gate.waiters \cup {r} /\ r \notin gate'.waiters
    BY <1>2, <1>4 DEF Stage
  <1> QED
    BY <1>2, <1>3, <1>4, <1>5, <1>6, <1>7, <1>8, RequestGoesOn

LEMMA AbortServes ==
  ASSUME ProviderInvariant, NEW r \in Request, Abort(r)
  PROVE  ProviderInvariant' /\ ServeStep
  <1>1. /\ TypeOK /\ attempt' = attempt /\ recoveries' = recoveries /\ delay' = delay
        /\ fellBack' = fellBack /\ notBefore' = notBefore /\ aborted' = aborted \cup {r}
    BY DEF Abort, coordinatorVars, ProviderInvariant
  <1>2. CASE ~Waiting(r)
    <2>1. stage' = stage /\ gate' = gate
      BY <1>2 DEF Abort
    <2>2. ProviderInvariant'
      BY <1>1, <2>1 DEF ProviderInvariant, TypeOK, GateFits, QueueFits, Woken, Load, Busy
    <2>3. ServeStep
      BY <2>1 DEF ServeStep, Sent, Sending
    <2> QED
      BY <2>2, <2>3
  <1>3. CASE Waiting(r)
    <2>1. stage' = [stage EXCEPT ![r] = "done"] /\ gate' = Leave(gate, r)
      BY <1>3 DEF Abort
    <2>2. /\ GateFits(gate) /\ gate \in Gate /\ QueueFits(gate)
          /\ r \in gate.waiters /\ r \in Busy /\ Load(gate) \in Nat
          /\ gate.waiters \in SUBSET {q \in Request : stage[q] = "attempt"}
          /\ {r} \in SUBSET Request
      BY <1>3, LeasesOf DEF Waiting, GateFits, ProviderInvariant
    <2> DEFINE g == Remove(gate, {r})
    <2>3. /\ GateFits(gate') /\ Woken(gate') /\ Serves(g, gate')
          /\ gate'.waiters \subseteq gate.waiters \ {r} /\ gate'.cooldowns = gate.cooldowns
          /\ Load(gate') = Load(gate) - 1
      BY <2>1, <2>2, LeaveServes
    <2>4. /\ g.waiters = gate.waiters \ {r}
          /\ \A s \in g.waiters : g.ahead[s] = gate.ahead[s] \ {r}
      BY <2>2, LineWithout
    <2> HIDE DEF g
    <2>5. /\ \A q \in Request : q # r => stage'[q] = stage[q]
          /\ stage'[r] = "done" /\ stage' \in [Request -> Stage]
          /\ Cardinality(Busy') = Cardinality(Busy) - 1
      BY <1>1, <2>1, <2>2, BusyAfter DEF Stage
    <2>6. TypeOK'
      BY <1>1, <2>3, <2>5 DEF TypeOK, GateFits
    <2>7. Load(gate') = Cardinality(Busy')
      BY <2>3, <2>5 DEF ProviderInvariant
    <2>8. gate'.waiters \subseteq {q \in Request : stage'[q] = "attempt"}
      BY <2>2, <2>3, <2>5
    <2>9. \A p \in Provider : notBefore'["rate_limit"][p] <= gate'.cooldowns[p]
      BY <1>1, <2>3 DEF ProviderInvariant
    <2>10. ProviderInvariant'
      BY <2>3, <2>6, <2>7, <2>8, <2>9 DEF ProviderInvariant, GateFits, Woken, Load, QueueFits
    <2>11. ASSUME NEW q \in Request, Sending(q)', ~Sending(q)
           PROVE  /\ notBefore'["rate_limit"][providerKey[q]] = 0
                  /\ \A s \in gate.waiters \cap gate'.waiters :
                       q \in gate.waiters /\ providerKey[s] = providerKey[q] => q \in gate.ahead[s]
      <3>1. q # r /\ q \in gate.waiters /\ q \notin gate'.waiters
        BY <2>5, <2>11 DEF Sending
      <3>2. q \in g.waiters \ gate'.waiters
        BY <2>4, <3>1
      <3>3. gate'.cooldowns[providerKey[q]] = 0 /\ providerKey[q] \in Provider
        BY <2>3, <3>2, ProviderKeyAssumption DEF Serves
      <3>4. notBefore'["rate_limit"][providerKey[q]] \in Nat /\ notBefore'["rate_limit"][providerKey[q]] <= 0
        BY <2>6, <2>9, <3>3 DEF TypeOK, Failure
      <3>5. \A s \in gate.waiters \cap gate'.waiters : s \in g.waiters \cap gate'.waiters
        BY <2>3, <2>4
      <3> QED
        BY <2>3, <2>4, <3>2, <3>4, <3>5 DEF Serves
    <2> QED
      BY <2>10, <2>11 DEF ServeStep, Sent
  <1> QED
    BY <1>2, <1>3

\* The gate's timer is due: whoever may be served is.
LEMMA TimerServes ==
  ASSUME ProviderInvariant, TimerFires
  PROVE  ProviderInvariant' /\ ServeStep
  <1> DEFINE g == [gate EXCEPT !.timer = NoTimer]
  <1>1. /\ TypeOK /\ gate' = TryDispatch(g) /\ stage' = stage
        /\ attempt' = attempt /\ recoveries' = recoveries /\ delay' = delay /\ fellBack' = fellBack
        /\ notBefore' = notBefore /\ aborted' = aborted
    BY DEF TimerFires, Fire, coordinatorVars, ProviderInvariant
  <1>2. /\ g \in Gate /\ g.waiters = gate.waiters /\ g.ahead = gate.ahead
        /\ g.activeCount = gate.activeCount /\ g.cooldowns = gate.cooldowns
    BY DEF ProviderInvariant, GateFits, Gate
  <1> HIDE DEF g
  <1>3. GateFits(g) /\ Load(g) = Load(gate)
    BY <1>2 DEF ProviderInvariant, GateFits, QueueFits, Load
  <1>4. /\ GateFits(gate') /\ Woken(gate') /\ Serves(g, gate') /\ gate'.waiters \subseteq g.waiters
        /\ gate'.cooldowns = g.cooldowns /\ Load(gate') = Load(g)
    BY <1>1, <1>3, DispatchServes
  <1>5. TypeOK'
    BY <1>1, <1>4 DEF TypeOK, GateFits
  <1>6. \A p \in Provider : notBefore'["rate_limit"][p] <= gate'.cooldowns[p]
    BY <1>1, <1>2, <1>4 DEF ProviderInvariant
  <1>7. Busy' = Busy
    BY <1>1 DEF Busy
  <1>8. Load(gate') = Cardinality(Busy')
    BY <1>3, <1>4, <1>7 DEF ProviderInvariant
  <1>9. gate'.waiters \subseteq {q \in Request : stage'[q] = "attempt"}
    BY <1>1, <1>2, <1>4 DEF ProviderInvariant
  <1>10. ProviderInvariant'
    BY <1>4, <1>5, <1>6, <1>8, <1>9 DEF ProviderInvariant, GateFits, Woken, Load, QueueFits
  <1>11. ASSUME NEW q \in Request, Sending(q)', ~Sending(q)
         PROVE  /\ notBefore'["rate_limit"][providerKey[q]] = 0
                /\ \A s \in gate.waiters \cap gate'.waiters :
                     q \in gate.waiters /\ providerKey[s] = providerKey[q] => q \in gate.ahead[s]
    <2>1. q \in g.waiters \ gate'.waiters
      BY <1>1, <1>2, <1>11 DEF Sending
    <2>2. gate'.cooldowns[providerKey[q]] = 0 /\ providerKey[q] \in Provider
      BY <1>4, <2>1, ProviderKeyAssumption DEF Serves
    <2>3. notBefore'["rate_limit"][providerKey[q]] \in Nat /\ notBefore'["rate_limit"][providerKey[q]] <= 0
      BY <1>5, <1>6, <2>2 DEF TypeOK, Failure
    <2> QED
      BY <1>2, <1>4, <2>1, <2>3 DEF Serves
  <1> QED
    BY <1>10, <1>11 DEF ServeStep, Sent

\* Time goes on for the timer as for the cooldowns it is set for.
LEMMA TickServes ==
  ASSUME ProviderInvariant, Tick
  PROVE  ProviderInvariant' /\ ServeStep
  <1> DEFINE less(n) == IF n > 0 THEN n - 1 ELSE n
  <1>1. /\ TypeOK /\ stage' = stage
        /\ attempt' = attempt /\ recoveries' = recoveries /\ fellBack' = fellBack
        /\ delay' = [r \in Request |-> less(delay[r])]
        /\ aborted' = aborted
        /\ gate' = [gate EXCEPT !.cooldowns = [p \in Provider |-> less(@[p])], !.timer = less(@)]
        /\ notBefore' = [kind \in Failure |-> [p \in Provider |-> less(notBefore[kind][p])]]
    BY DEF Tick, coordinatorVars, ProviderInvariant
  <1>2. /\ gate \in Gate /\ gate.waiters \in SUBSET Request /\ gate.cooldowns \in [Provider -> Nat]
        /\ gate.timer \in Nat \cup {NoTimer} /\ notBefore \in [Failure -> [Provider -> Nat]]
        /\ delay \in [Request -> Nat]
        /\ \A p \in Provider : notBefore["rate_limit"][p] <= gate.cooldowns[p]
    BY <1>1 DEF TypeOK, ProviderInvariant, Gate
  <1>3. /\ gate'.waiters = gate.waiters /\ gate'.ahead = gate.ahead
        /\ gate'.activeCount = gate.activeCount
        /\ gate'.cooldowns = [p \in Provider |-> less(gate.cooldowns[p])]
        /\ gate'.timer = less(gate.timer)
    BY <1>1, <1>2 DEF Gate
  <1>4. /\ \A n \in Nat : less(n) \in Nat /\ \A m \in Nat : m <= n => less(m) <= less(n)
        /\ less(NoTimer) = NoTimer /\ NoTimer \notin Nat
    BY DEF NoTimer
  <1> HIDE DEF less
  <1>5. gate'.timer \in Nat \cup {NoTimer} /\ (gate.timer # NoTimer => gate'.timer # NoTimer)
    BY <1>2, <1>3, <1>4
  <1>6. /\ gate'.cooldowns \in [Provider -> Nat] /\ notBefore' \in [Failure -> [Provider -> Nat]]
        /\ delay' \in [Request -> Nat]
    BY <1>1, <1>2, <1>3, <1>4
  <1>7. gate' \in Gate
    <2> DEFINE cooldowns == [p \in Provider |-> less(gate.cooldowns[p])]
               timer == less(gate.timer)
    <2>1. gate' = [gate EXCEPT !.cooldowns = cooldowns, !.timer = timer]
      BY <1>1
    <2>2. cooldowns \in [Provider -> Nat] /\ timer \in Nat \cup {NoTimer}
      BY <1>3, <1>5, <1>6
    <2> HIDE DEF cooldowns, timer
    <2> QED
      BY <1>2, <2>1, <2>2 DEF Gate
  <1>8. TypeOK'
    BY <1>1, <1>6, <1>7 DEF TypeOK
  <1>9. GateFits(gate')
    BY <1>3, <1>7 DEF ProviderInvariant, GateFits, QueueFits
  <1>10. Woken(gate')
    <2> SUFFICES ASSUME gate.activeCount < MaxConcurrent, NEW r \in gate.waiters
                 PROVE  gate'.timer # NoTimer /\ gate'.timer <= gate'.cooldowns[providerKey[r]]
      BY <1>3 DEF Woken
    <2>1. gate.timer # NoTimer /\ gate.timer <= gate.cooldowns[providerKey[r]]
      BY DEF ProviderInvariant, Woken
    <2>2. providerKey[r] \in Provider
      BY <1>2, ProviderKeyAssumption
    <2>3. gate.timer \in Nat /\ gate.cooldowns[providerKey[r]] \in Nat
      BY <1>2, <2>1, <2>2
    <2> QED
      BY <1>3, <1>4, <1>5, <2>1, <2>2, <2>3
  <1>11. Load(gate') = Cardinality(Busy')
    BY <1>1, <1>3 DEF ProviderInvariant, Load, Busy
  <1>12. \A p \in Provider : notBefore'["rate_limit"][p] <= gate'.cooldowns[p]
    BY <1>1, <1>2, <1>3, <1>4 DEF Failure
  <1>13. gate'.waiters \subseteq {q \in Request : stage'[q] = "attempt"}
    BY <1>1, <1>3 DEF ProviderInvariant
  <1>14. ProviderInvariant'
    BY <1>8, <1>9, <1>10, <1>11, <1>12, <1>13 DEF ProviderInvariant, GateFits, Woken, Load, QueueFits
  <1>15. ServeStep
    BY <1>1, <1>3 DEF ServeStep, Sent, Sending
  <1> QED
    BY <1>14, <1>15

LEMMA ProviderInit ==
  ASSUME Init
  PROVE  ProviderInvariant
  <1>1. /\ gate \in Gate /\ gate.waiters = {} /\ gate.activeCount = 0
        /\ gate.cooldowns = [p \in Provider |-> 0] /\ gate.ahead = [r \in Request |-> {}]
    BY DEF Init, Gate
  <1>2. TypeOK
    BY <1>1, LimitsAssumption DEF Init, TypeOK, Stage
  <1>3. GateFits(gate) /\ Woken(gate)
    BY <1>1, LimitsAssumption DEF GateFits, QueueFits, Woken
  <1>4. Busy = {}
    BY DEF Init, Busy
  <1>5. Load(gate) = Cardinality(Busy)
    <2>1. Cardinality({}) = 0
      BY FS_EmptySet
    <2> QED
      BY <1>1, <1>4, <2>1 DEF Load
  <1> QED
    BY <1>1, <1>2, <1>3, <1>5 DEF ProviderInvariant, Init, Failure

LEMMA ProviderStep ==
  ASSUME ProviderInvariant, [Next]_vars
  PROVE  ProviderInvariant' /\ (vars' # vars => ServeStep)
  <1>1. ASSUME NEW r \in Request,
               Start(r) \/ Succeed(r) \/ GiveUp(r) \/ FallBack(r) \/ BackOff(r) \/ Retry(r) \/ Abort(r)
        PROVE  ProviderInvariant' /\ ServeStep
    BY <1>1, StartServes, SucceedServes, GiveUpServes, FallBackServes, BackOffServes,
       RetryServes, AbortServes
  <1>2. CASE TimerFires
    BY <1>2, TimerServes
  <1>3. CASE Tick
    BY <1>3, TickServes
  <1>4. CASE UNCHANGED vars
    BY <1>4 DEF vars, coordinatorVars, ProviderInvariant, TypeOK, GateFits, QueueFits, Woken,
       Load, Busy
  <1> QED
    BY <1>1, <1>2, <1>3, <1>4 DEF Next

-----------------------------------------------------------------------------
(* What holds between any two actions.                                     *)
THEOREM InvariantHolds == Spec => []ProviderInvariant
  <1>1. ProviderInvariant /\ [Next]_vars => ProviderInvariant'
    BY ProviderStep
  <1> QED
    BY <1>1, ProviderInit, PTL DEF Spec

(* Every variable keeps its type. *)
THEOREM TypeCorrect == Spec => []TypeOK
  <1>1. ProviderInvariant => TypeOK
    BY DEF ProviderInvariant
  <1> QED
    BY <1>1, InvariantHolds, PTL

(* No lease leaks and none is given twice, however attempts end; and no    *)
(* wake-up of a waiter is lost.                                            *)
THEOREM SlotsAlwaysUsed == Spec => []SlotsAreUsed
  <1>1. ProviderInvariant => SlotsAreUsed
    BY LeasesOf DEF SlotsAreUsed, LeasesAreCounted, WaitersAreWoken, Woken, GateFits
  <1> QED
    BY <1>1, InvariantHolds, PTL

(* Every attempt, a first one, a retry, a recovery or a fallback, waits    *)
(* for the end of each Retry-After that its provider answered a rate limit *)
(* with, also a longer one than a backoff may sleep, and for its turn.     *)
THEOREM RateLimitsAlwaysRespected == Spec => RateLimitsAreRespected
  <1>1. ProviderInvariant /\ [Next]_vars => [ServeStep]_vars
    BY ProviderStep
  <1>2. Spec => [][ServeStep]_vars
    BY <1>1, InvariantHolds, PTL DEF Spec
  <1> QED
    BY <1>2 DEF ServeStep, RateLimitsAreRespected
=============================================================================
