--------------------------- MODULE ProviderRequests ---------------------------
(***************************************************************************)
(* The requests of all Sessions of a Workspace to the model providers:     *)
(* ProviderRequestGate (src/src/services/provider-resilience/              *)
(* request-gate.ts), the shared limit on requests in flight with its       *)
(* cooldowns, and ProviderResilienceCoordinator.execute (coordinator.ts),  *)
(* the loop of attempts, retries, recoveries and the one fallback that     *)
(* each logical request runs through it.                                   *)
(*                                                                         *)
(* An action is what happens between two awaits: of the gate, of the       *)
(* provider, of the backoff.  Time is counted in ticks that remain: of a   *)
(* cooldown until it is over, of the gate's timer until it is due, of the  *)
(* least that a backoff sleeps for a Retry-After.  How much longer it      *)
(* sleeps is left open, and so is when the elapsed budget of a request is  *)
(* spent.  All requests have the priority 0 that execute gives them, so    *)
(* the queue, sorted by priority, is first come first served.  A waiter    *)
(* may be taken from any place of it, so the queue is a set and, of each   *)
(* waiter, those in front of it.                                           *)
(***************************************************************************)
EXTENDS Integers, FiniteSetsExt

CONSTANTS
    Request,
    Provider,
    providerKey,   \* [Request -> Provider]
    HasFallback,   \* the requests with a fallbackModel
    MaxConcurrent, \* maxConcurrent
    MaxAttempts,   \* maxTotalAttempts
    MaxRecoveries, \* maxStreamRecoveries
    MaxRetryAfter, \* maxRetryAfterMs, in ticks
    RetryAfter,    \* bound: the Retry-After values a provider answers with
    MaxAborts      \* bound: requests that are aborted

ASSUME RequestAssumption == IsFiniteSet(Request)
ASSUME ProviderKeyAssumption == providerKey \in [Request -> Provider]
ASSUME FallbackAssumption == HasFallback \subseteq Request
ASSUME LimitsAssumption ==
    /\ MaxConcurrent \in Nat \ {0} /\ MaxAttempts \in Nat \ {0}
    /\ MaxRecoveries \in Nat /\ MaxRetryAfter \in Nat /\ MaxAborts \in Nat
ASSUME RetryAfterAssumption == RetryAfter \subseteq Nat \ {0}

VARIABLES
    stage,      \* [Request -> Stage]: where execute is
    attempt,    \* [Request -> Nat]
    recoveries, \* [Request -> Nat]: recoveryCount
    delay,      \* [Request -> Nat]: the ticks left of what its backoff sleeps
    fellBack,   \* the requests that use their fallback: fallbackUsed
    aborted,    \* the requests whose abortSignal has fired
    gate,       \* the state of the ProviderRequestGate
    notBefore   \* history: [Failure -> [Provider -> Nat]], the ticks left of the
                \* longest Retry-After that the provider has answered such failures with

coordinatorVars == <<attempt, recoveries, delay, fellBack>>
vars == <<stage, coordinatorVars, aborted, gate, notBefore>>

NoTimer == -1
Failure == {"rate_limit", "other"}
Stage == {"new", "attempt", "backoff", "done"}
Gate == [waiters     : SUBSET Request,
         ahead       : [Request -> SUBSET Request], \* the waiters in front of each
         activeCount : Nat,
         cooldowns   : [Provider -> Nat],   \* ticks that remain, 0 when there is none
         timer       : Nat \cup {NoTimer}]  \* ticks until cooldownTimer is due

(* An attempt waits at the gate, then for the provider; its lease is       *)
(* released when it is over, which is after its backoff.                   *)
Waiting(r) == stage[r] = "attempt" /\ r \in gate.waiters
Sending(r) == stage[r] = "attempt" /\ r \notin gate.waiters
Holders == {r \in Request : Sending(r) \/ stage[r] = "backoff"}

TypeOK ==
    /\ stage \in [Request -> Stage]
    /\ attempt \in [Request -> 0 .. MaxAttempts]
    /\ recoveries \in [Request -> 0 .. MaxRecoveries]
    /\ delay \in [Request -> Nat]
    /\ fellBack \subseteq HasFallback
    /\ aborted \subseteq Request
    /\ gate \in Gate
    /\ notBefore \in [Failure -> [Provider -> Nat]]

Init ==
    /\ stage = [r \in Request |-> "new"]
    /\ attempt = [r \in Request |-> 0]
    /\ recoveries = [r \in Request |-> 0]
    /\ delay = [r \in Request |-> 0]
    /\ fellBack = {}
    /\ aborted = {}
    /\ gate = [waiters |-> {}, ahead |-> [r \in Request |-> {}], activeCount |-> 0,
               cooldowns |-> [p \in Provider |-> 0], timer |-> NoTimer]
    /\ notBefore = [kind \in Failure |-> [p \in Provider |-> 0]]
-----------------------------------------------------------------------------
(* scheduleCooldownWake: the timer for the cooldown of a waiter that ends  *)
(* first; none without such a waiter, and no new one without a free slot.  *)
ScheduleCooldownWake(g) ==
    LET cooling  == {g.cooldowns[providerKey[r]] : r \in g.waiters} \ {0}
        earliest == Min(cooling)
    IN  IF cooling = {} THEN [g EXCEPT !.timer = NoTimer]
        ELSE IF g.activeCount >= MaxConcurrent \/ (g.timer # NoTimer /\ g.timer <= earliest)
        THEN g
        ELSE [g EXCEPT !.timer = earliest]

(* splice, of waiters that are granted a lease or abort. *)
Remove(g, gone) ==
    [g EXCEPT !.waiters = @ \ gone,
              !.ahead = [r \in Request |-> IF r \in gone THEN {} ELSE @[r] \ gone]]

Grant(g, granted) ==
    ScheduleCooldownWake(
        [Remove(g, granted) EXCEPT !.activeCount = @ + Cardinality(granted)])

(* Mutant: the first waiter holds up those behind it. *)
TryDispatchHead(g) ==
    Grant(g, {r \in g.waiters : /\ g.activeCount < MaxConcurrent /\ g.ahead[r] = {}
                                /\ g.cooldowns[providerKey[r]] = 0})

(* tryDispatch: while there are slots, the first waiters whose provider is *)
(* not cooling down get them.                                              *)
TryDispatch(g) ==
    LET ready == {r \in g.waiters : g.cooldowns[providerKey[r]] = 0}
    IN  Grant(g, {r \in ready : g.activeCount + Cardinality(g.ahead[r] \cap ready) < MaxConcurrent})

Join(g, r) == TryDispatch([g EXCEPT !.waiters = @ \cup {r}, !.ahead[r] = g.waiters])
Leave(g, r) == TryDispatch(Remove(g, {r}))
Release(g) == TryDispatch([g EXCEPT !.activeCount = @ - 1])

(* Mutant: the latest Retry-After counts. *)
EnterCooldownLatest(g, p, ticks) ==
    IF ticks > 0 THEN TryDispatch([g EXCEPT !.cooldowns[p] = ticks]) ELSE g

(* enterCooldown: a cooldown is extended, never cut short. *)
EnterCooldown(g, p, ticks) ==
    IF ticks > g.cooldowns[p] THEN TryDispatch([g EXCEPT !.cooldowns[p] = ticks]) ELSE g
-----------------------------------------------------------------------------
(* The head of the loop: another attempt at the gate, unless there were    *)
(* enough, the request is aborted or its elapsed budget is spent.          *)
NextAttempt(r, g) ==
    \/ /\ stage' = [stage EXCEPT ![r] = "done"]
       /\ gate' = g
       /\ UNCHANGED attempt
    \/ /\ attempt[r] < MaxAttempts /\ r \notin aborted
       /\ stage' = [stage EXCEPT ![r] = "attempt"]
       /\ attempt' = [attempt EXCEPT ![r] = @ + 1]
       /\ gate' = Join(g, r)

(* The attempt is the last one: the lease is released and execute ends. *)
End(r, g) ==
    /\ stage' = [stage EXCEPT ![r] = "done"]
    /\ gate' = Release(g)
    /\ UNCHANGED coordinatorVars

Start(r) ==
    /\ stage[r] = "new"
    /\ NextAttempt(r, gate)
    /\ UNCHANGED <<recoveries, delay, fellBack, aborted, notBefore>>

Succeed(r) ==
    /\ Sending(r)
    /\ End(r, gate)
    /\ UNCHANGED <<aborted, notBefore>>

(* The kinds of failure that a fallback answers lead to it as long as it   *)
(* is not used.                                                            *)
CanFallBack(r) == r \in HasFallback \ fellBack

(* The gate after a failure that was answered with this Retry-After, or    *)
(* with none (0): only a rate limit enters a cooldown.                     *)
Failed(r, kind, ticks) ==
    IF kind = "rate_limit" THEN EnterCooldown(gate, providerKey[r], ticks) ELSE gate

Named(r, kind, ticks) ==
    notBefore' = [notBefore EXCEPT ![kind][providerKey[r]] = IF ticks > @ THEN ticks ELSE @]

(* fail_fast or an abort; or the failure could be retried, but there is no *)
(* attempt or no recovery left.  Of these only the latter are rate limits. *)
GiveUp(r) ==
    /\ Sending(r)
    /\ \E kind \in Failure, ticks \in RetryAfter \cup {0} :
          /\ kind = "rate_limit" => /\ attempt[r] = MaxAttempts \/ recoveries[r] = MaxRecoveries
                                    /\ ~ CanFallBack(r)
          /\ End(r, Failed(r, kind, ticks))
          /\ Named(r, kind, ticks)
    /\ UNCHANGED aborted

(* fallback_once: the other model is tried at once, in the next attempt. *)
FallBack(r) ==
    /\ Sending(r)
    /\ CanFallBack(r)
    /\ fellBack' = fellBack \cup {r}
    /\ \E kind \in Failure, ticks \in RetryAfter \cup {0} :
          NextAttempt(r, Release(Failed(r, kind, ticks))) /\ Named(r, kind, ticks)
    /\ UNCHANGED <<recoveries, delay, aborted>>

(* retry_precommit, or recover_stream when a part of the answer was seen:  *)
(* the backoff, during which the attempt keeps its lease.  It sleeps for   *)
(* the Retry-After, up to a cap (computeProviderBackoff).  A fallback that *)
(* is left answers every rate limit, but not every such failure.           *)
BackOff(r) ==
    /\ Sending(r)
    /\ attempt[r] < MaxAttempts
    /\ \/ UNCHANGED recoveries
       \/ /\ recoveries[r] < MaxRecoveries
          /\ recoveries' = [recoveries EXCEPT ![r] = @ + 1]
    /\ stage' = [stage EXCEPT ![r] = "backoff"]
    /\ \E kind \in Failure, ticks \in RetryAfter \cup {0} :
          /\ kind = "rate_limit" => ~ CanFallBack(r)
          /\ gate' = Failed(r, kind, ticks)
          /\ Named(r, kind, ticks)
          /\ delay' = [delay EXCEPT ![r] = IF ticks < MaxRetryAfter THEN ticks ELSE MaxRetryAfter]
    /\ UNCHANGED <<attempt, fellBack, aborted>>

(* The backoff has slept enough, or an abort ends it. *)
Retry(r) ==
    /\ stage[r] = "backoff"
    /\ delay[r] = 0 \/ r \in aborted
    /\ NextAttempt(r, Release(gate))
    /\ delay' = [delay EXCEPT ![r] = 0]
    /\ UNCHANGED <<recoveries, fellBack, aborted, notBefore>>

(* The abortSignal fires.  A waiter leaves the gate and ends; who sends or *)
(* sleeps finds out by itself.                                             *)
Abort(r) ==
    /\ stage[r] # "done" /\ r \notin aborted
    /\ Cardinality(aborted) < MaxAborts
    /\ aborted' = aborted \cup {r}
    /\ IF Waiting(r)
       THEN stage' = [stage EXCEPT ![r] = "done"] /\ gate' = Leave(gate, r)
       ELSE UNCHANGED <<stage, gate>>
    /\ UNCHANGED <<coordinatorVars, notBefore>>

(* Mutant: the others at the gate are not looked at. *)
FireOnce == [gate EXCEPT !.timer = NoTimer]

(* The cooldown timer is due. *)
Fire == TryDispatch([gate EXCEPT !.timer = NoTimer])

TimerFires ==
    /\ gate.timer = 0
    /\ gate' = Fire
    /\ UNCHANGED <<stage, coordinatorVars, aborted, notBefore>>

Tick ==
    LET less(n) == IF n > 0 THEN n - 1 ELSE n IN
    /\ gate' = [gate EXCEPT !.cooldowns = [p \in Provider |-> less(@[p])], !.timer = less(@)]
    /\ delay' = [r \in Request |-> less(delay[r])]
    /\ notBefore' = [kind \in Failure |-> [p \in Provider |-> less(notBefore[kind][p])]]
    /\ <<gate, delay, notBefore>>' # <<gate, delay, notBefore>>
    /\ UNCHANGED <<stage, attempt, recoveries, fellBack, aborted>>

Next ==
    \/ \E r \in Request :
          \/ Start(r)
          \/ Succeed(r)
          \/ GiveUp(r)
          \/ FallBack(r)
          \/ BackOff(r)
          \/ Retry(r)
          \/ Abort(r)
    \/ TimerFires
    \/ Tick

Spec == Init /\ [][Next]_vars

(* Providers answer or time out, a backoff ends, timers fire and time goes *)
(* on.  Nobody has to start or to abort a request.  That some request goes *)
(* on is enough: none can go on for ever, its attempts are counted.        *)
Fairness ==
    /\ WF_vars(\E r \in Request : Succeed(r) \/ GiveUp(r) \/ Retry(r))
    /\ WF_vars(TimerFires \/ Tick)
FairSpec == Spec /\ Fairness
-----------------------------------------------------------------------------
(* The gate and its requests agree.  activeCount is the number of attempts *)
(* that hold a lease, whichever way attempts end: a lease that leaks makes *)
(* every Session wait longer and in the end for ever, one released twice   *)
(* lets too many requests out.  And no wake-up is lost: with a slot free,  *)
(* whoever waits has a provider that cools down (a cooldown holds up no    *)
(* other provider's requests), and the timer is due when that cooldown is  *)
(* over at the latest.                                                     *)
LeasesAreCounted ==
    /\ gate.activeCount = Cardinality(Holders)
    /\ gate.activeCount <= MaxConcurrent
WaitersAreWoken ==
    gate.activeCount < MaxConcurrent =>
        \A r \in gate.waiters :
            gate.timer # NoTimer /\ gate.timer <= gate.cooldowns[providerKey[r]]
SlotsAreUsed == LeasesAreCounted /\ WaitersAreWoken

(* An attempt is sent to the provider: a first one, a retry, a recovery or *)
(* a fallback.                                                             *)
Sent(r) == Sending(r)' /\ ~ Sending(r)

(* Nothing is sent to a provider before the end of every Retry-After that  *)
(* it has answered a rate limit with, whoever was told: not even a         *)
(* fallback, or the retry of a request whose own backoff, which is capped, *)
(* ends earlier.  And of the requests that wait for one provider the first *)
(* goes first, however cooldowns begin, grow and end.                      *)
RateLimitsAreRespected ==
    [][\A r \in Request : Sent(r) =>
          /\ notBefore'["rate_limit"][providerKey[r]] = 0
          /\ \A s \in gate.waiters \cap gate'.waiters :
                r \in gate.waiters /\ providerKey[s] = providerKey[r] => r \in gate.ahead[s]]_vars

(* The gate "ensures Retry-After is respected across all request sources"  *)
(* (request-gate.ts): nothing is sent to a provider before the end of any  *)
(* Retry-After that it has answered.  It does not: a Retry-After of an     *)
(* overload, a server error, a conflict or a spent quota enters no         *)
(* cooldown.                                                               *)
RetryAfterIsRespected ==
    [][\A r \in Request : Sent(r) =>
          \A kind \in Failure : notBefore'[kind][providerKey[r]] = 0]_vars

(* Every logical request ends, however its attempts fail and whatever the  *)
(* other requests do to the gate.                                          *)
RequestsEnd == <>[](\A r \in Request : stage[r] \in {"new", "done"})

=============================================================================
