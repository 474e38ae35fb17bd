--------------------------- MODULE EndpointHealth ---------------------------
(***************************************************************************)
(* The clocks of the client's carrier (carrier/client.py): the health loop *)
(* gives endpoints up and schedules their revival, the watchdog suspects   *)
(* the endpoints of a client that has been quiet, and the workers of a     *)
(* dead endpoint sleep for its backoff.                                    *)
(*                                                                         *)
(* Time passes in ticks.  Tick is the only action that takes time, and it  *)
(* waits until every timer that is due has gone off; timers that are due   *)
(* at the same tick go off in any order.                                   *)
(***************************************************************************)
EXTENDS Integers, FiniteSets

CONSTANTS
    Endpoint,
    WorkersPerEndpoint,
    MaxConsecutiveFailures,       \* _MaxConsecutiveFailures (5)
    HealthPollInterval,           \* _HealthPollInterval (30 s), in ticks
    BackoffBase, BackoffMax,      \* _BackoffBase and _BackoffMax (3 s, 3600 s)
    WatchdogInterval,             \* _WatchdogInterval (15 s)
    WatchdogMaxIdle,              \* _WatchdogMaxIdle (120 s)
    PollTimeout,                  \* pollTimeout (120 s)
    ThrottleSleep                 \* the sleep after HTTP 302 or 429 (1 s)

ASSUME HealthAssumption ==
    /\ IsFiniteSet(Endpoint)
    /\ WorkersPerEndpoint \in Nat \ {0}
    /\ MaxConsecutiveFailures \in Nat \ {0}
    /\ HealthPollInterval \in Nat \ {0}
    /\ BackoffBase \in Nat \ {0} /\ BackoffMax \in Nat /\ BackoffBase <= BackoffMax
    /\ WatchdogInterval \in Nat \ {0} /\ WatchdogMaxIdle \in Nat
    /\ PollTimeout \in Nat \ {0} /\ ThrottleSleep \in Nat

VARIABLES
    running,     \* Carrier._running
    sessions,    \* whether the pool holds sessions
    pc, left,    \* where a worker is, and the ticks left of its POST or sleep
    consecutive_failures, is_dead, backoff,   \* per endpoint
    starting,    \* endpoints with a revive task that has yet to run
    revivals,    \* per endpoint: the ticks left of the revive tasks' sleeps
    health_in, watchdog_in,   \* ticks left of the two loops' sleeps
    idle,        \* ticks since _last_activity
    since        \* history: ticks since is_dead of an endpoint last changed

workerVars == <<pc, left>>
epVars     == <<consecutive_failures, is_dead, backoff>>
reviveVars == <<starting, revivals>>
clocks     == <<health_in, watchdog_in, idle, since>>
vars       == <<running, sessions, workerVars, epVars, reviveVars, clocks>>

Worker == Endpoint \X (0..(WorkersPerEndpoint - 1))

(* The two counters stop where the code no longer tells values apart.      *)
IdleCap  == WatchdogMaxIdle + 1
SinceCap == BackoffMax + 1
UpTo(n, cap) == IF n < cap THEN n + 1 ELSE cap
----------------------------------------------------------------------------
(* The workers, as far as they concern an endpoint.                        *)
Sleep(w, n) ==
    /\ pc' = [pc EXCEPT ![w] = "sleep"]
    /\ left' = [left EXCEPT ![w] = n]

Return(w) ==
    /\ pc' = [pc EXCEPT ![w] = "loop"]
    /\ left' = [left EXCEPT ![w] = 0]

(* Sessions open and end.                                                  *)
SessionsChange ==
    /\ sessions' = ~sessions
    /\ UNCHANGED <<running, workerVars, epVars, reviveVars, clocks>>

(* Frames were drained and go out in a POST.  A worker that has waited for *)
(* activity does not look again whether the endpoint has died meanwhile:   *)
(* that wait is 10 ms, no tick, and the POST counts as begun before it.    *)
Post(w) ==
    /\ running /\ sessions
    /\ pc[w] = "loop"
    /\ ~is_dead[w[1]]
    /\ pc' = [pc EXCEPT ![w] = "post"]
    /\ left' = [left EXCEPT ![w] = PollTimeout]
    /\ idle' = 0
    /\ UNCHANGED <<running, sessions, epVars, reviveVars, health_in, watchdog_in, since>>

(* Mutation: the worker of a dead endpoint sleeps for the longest backoff. *)
SleepDeadLongest(w) ==
    /\ running
    /\ pc[w] = "loop" /\ is_dead[w[1]]
    /\ Sleep(w, BackoffMax)
    /\ UNCHANGED <<running, sessions, epVars, reviveVars, clocks>>

(* The endpoint is dead: sleep for its backoff, whatever is left of it.    *)
SleepDead(w) ==
    /\ running
    /\ pc[w] = "loop" /\ is_dead[w[1]]
    /\ Sleep(w, backoff[w[1]])
    /\ UNCHANGED <<running, sessions, epVars, reviveVars, clocks>>

WakeUp(w) ==
    /\ pc[w] = "sleep" /\ left[w] = 0
    /\ Return(w)
    /\ UNCHANGED <<running, sessions, epVars, reviveVars, clocks>>

(* HTTP 200, also of an endpoint that has been given up meanwhile.         *)
ReplyOk(w) ==
    /\ pc[w] = "post"
    /\ Return(w)
    /\ consecutive_failures' = [consecutive_failures EXCEPT ![w[1]] = 0]
    /\ UNCHANGED <<running, sessions, is_dead, backoff, reviveVars, clocks>>

(* HTTP 200 and a body that does not decode: the task ends.                *)
ReplyGarbled(w) ==
    /\ pc[w] = "post"
    /\ pc' = [pc EXCEPT ![w] = "stopped"]
    /\ left' = [left EXCEPT ![w] = 0]
    /\ consecutive_failures' = [consecutive_failures EXCEPT ![w[1]] = 0]
    /\ UNCHANGED <<running, sessions, is_dead, backoff, reviveVars, clocks>>

OneMoreFailure(ep) ==
    consecutive_failures' = [consecutive_failures EXCEPT
        ![ep] = UpTo(@, MaxConsecutiveFailures)]

(* HTTP 302 or 429.                                                        *)
ReplyThrottled(w) ==
    /\ pc[w] = "post"
    /\ Sleep(w, ThrottleSleep)
    /\ OneMoreFailure(w[1])
    /\ UNCHANGED <<running, sessions, is_dead, backoff, reviveVars, clocks>>

(* Any other status, and status 0 when the timeout is over.                *)
ReplyError(w) ==
    /\ pc[w] = "post"
    /\ Return(w)
    /\ OneMoreFailure(w[1])
    /\ UNCHANGED <<running, sessions, is_dead, backoff, reviveVars, clocks>>
----------------------------------------------------------------------------
Failing == {ep \in Endpoint : consecutive_failures[ep] >= MaxConsecutiveFailures}
Dead    == {ep \in Endpoint : is_dead[ep]}

(* Mutations: an endpoint that dies is revived by the ticks to come; the   *)
(* loop sleeps for the watchdog's interval.                                *)
HealthTickLate ==
    /\ running /\ health_in = 0
    /\ is_dead' = [ep \in Endpoint |-> is_dead[ep] \/ ep \in Failing]
    /\ since' = [ep \in Endpoint |-> IF ep \in Failing \ Dead THEN 0 ELSE since[ep]]
    /\ starting' = starting \cup Dead
    /\ health_in' = HealthPollInterval
    /\ UNCHANGED <<running, sessions, workerVars, consecutive_failures, backoff,
                   revivals, watchdog_in, idle>>
HealthTickOften ==
    /\ running /\ health_in = 0
    /\ is_dead' = [ep \in Endpoint |-> is_dead[ep] \/ ep \in Failing]
    /\ since' = [ep \in Endpoint |-> IF ep \in Failing \ Dead THEN 0 ELSE since[ep]]
    /\ starting' = starting \cup Failing \cup Dead
    /\ health_in' = WatchdogInterval
    /\ UNCHANGED <<running, sessions, workerVars, consecutive_failures, backoff,
                   revivals, watchdog_in, idle>>

(* A turn of _health_loop: failing endpoints die, and every dead endpoint  *)
(* gets a revive task, whether it has some already or not.                 *)
HealthTick ==
    /\ running /\ health_in = 0
    /\ is_dead' = [ep \in Endpoint |-> is_dead[ep] \/ ep \in Failing]
    /\ since' = [ep \in Endpoint |-> IF ep \in Failing \ Dead THEN 0 ELSE since[ep]]
    /\ starting' = starting \cup Failing \cup Dead
    /\ health_in' = HealthPollInterval
    /\ UNCHANGED <<running, sessions, workerVars, consecutive_failures, backoff,
                   revivals, watchdog_in, idle>>

(* Mutation: the backoff is doubled for the sleep already.                 *)
StartRevivalDoubled(ep) ==
    /\ ep \in starting
    /\ starting' = starting \ {ep}
    /\ revivals' = [revivals EXCEPT ![ep] = @ \cup {2 * backoff[ep]}]
    /\ UNCHANGED <<running, sessions, workerVars, epVars, clocks>>

(* A revive task runs up to its sleep, for what the backoff is by then.    *)
StartRevival(ep) ==
    /\ ep \in starting
    /\ starting' = starting \ {ep}
    /\ revivals' = [revivals EXCEPT ![ep] = @ \cup {backoff[ep]}]
    /\ UNCHANGED <<running, sessions, workerVars, epVars, clocks>>

Doubled(b) == IF 2 * b < BackoffMax THEN 2 * b ELSE BackoffMax

(* Mutations: the backoff grows without bound; the revival leaves the      *)
(* failures as they are; it leaves an endpoint alone that is failing.      *)
ReviveUncapped(ep) ==
    /\ 0 \in revivals[ep]
    /\ revivals' = [revivals EXCEPT ![ep] = @ \ {0}]
    /\ IF running
       THEN /\ is_dead' = [is_dead EXCEPT ![ep] = FALSE]
            /\ consecutive_failures' = [consecutive_failures EXCEPT ![ep] = 0]
            /\ backoff' = [backoff EXCEPT ![ep] = 2 * @]
            /\ since' = [since EXCEPT ![ep] = IF is_dead[ep] THEN 0 ELSE @]
       ELSE UNCHANGED <<epVars, since>>
    /\ UNCHANGED <<running, sessions, workerVars, starting,
                   health_in, watchdog_in, idle>>
ReviveAnyway(ep) ==
    /\ 0 \in revivals[ep]
    /\ revivals' = [revivals EXCEPT ![ep] = @ \ {0}]
    /\ IF running
       THEN /\ is_dead' = [is_dead EXCEPT ![ep] = FALSE]
            /\ backoff' = [backoff EXCEPT ![ep] = Doubled(@)]
            /\ since' = [since EXCEPT ![ep] = IF is_dead[ep] THEN 0 ELSE @]
            /\ UNCHANGED consecutive_failures
       ELSE UNCHANGED <<epVars, since>>
    /\ UNCHANGED <<running, sessions, workerVars, starting,
                   health_in, watchdog_in, idle>>
ReviveIfHealthy(ep) ==
    /\ 0 \in revivals[ep]
    /\ revivals' = [revivals EXCEPT ![ep] = @ \ {0}]
    /\ IF running /\ ep \notin Failing
       THEN /\ is_dead' = [is_dead EXCEPT ![ep] = FALSE]
            /\ consecutive_failures' = [consecutive_failures EXCEPT ![ep] = 0]
            /\ backoff' = [backoff EXCEPT ![ep] = Doubled(@)]
            /\ since' = [since EXCEPT ![ep] = IF is_dead[ep] THEN 0 ELSE @]
       ELSE UNCHANGED <<epVars, since>>
    /\ UNCHANGED <<running, sessions, workerVars, starting,
                   health_in, watchdog_in, idle>>

(* The sleep of a revive task is over.  It does not look whether the       *)
(* endpoint is dead: a task that is left over from an earlier death clears *)
(* the failures of a live endpoint and doubles its backoff.                *)
Revive(ep) ==
    /\ 0 \in revivals[ep]
    /\ revivals' = [revivals EXCEPT ![ep] = @ \ {0}]
    /\ IF running
       THEN /\ is_dead' = [is_dead EXCEPT ![ep] = FALSE]
            /\ consecutive_failures' = [consecutive_failures EXCEPT ![ep] = 0]
            /\ backoff' = [backoff EXCEPT ![ep] = Doubled(@)]
            /\ since' = [since EXCEPT ![ep] = IF is_dead[ep] THEN 0 ELSE @]
       ELSE UNCHANGED <<epVars, since>>
    /\ UNCHANGED <<running, sessions, workerVars, starting,
                   health_in, watchdog_in, idle>>

(* A turn of _watchdog_loop.                                               *)
Watchdog ==
    /\ running /\ watchdog_in = 0
    /\ watchdog_in' = WatchdogInterval
    /\ consecutive_failures' = [ep \in Endpoint |->
          IF sessions /\ idle > WatchdogMaxIdle /\ ~is_dead[ep]
          THEN MaxConsecutiveFailures
          ELSE consecutive_failures[ep]]
    /\ UNCHANGED <<running, sessions, workerVars, is_dead, backoff, reviveVars,
                   health_in, idle, since>>

(* stop(): the loops and the workers are cancelled.  The revive tasks are  *)
(* in no list and sleep on.                                                *)
Stop ==
    /\ running
    /\ running' = FALSE
    /\ pc' = [w \in Worker |-> "stopped"]
    /\ left' = [w \in Worker |-> 0]
    /\ UNCHANGED <<sessions, epVars, reviveVars, clocks>>
----------------------------------------------------------------------------
(* Something is due: it happens before time passes.  A worker that looks   *)
(* at a dead endpoint does so at once; one that has nothing to send keeps  *)
(* looking every 10 ms, which is no tick.                                  *)
Due ==
    \/ running /\ (health_in = 0 \/ watchdog_in = 0)
    \/ starting # {}
    \/ \E ep \in Endpoint : 0 \in revivals[ep]
    \/ \E w \in Worker : \/ pc[w] \in {"post", "sleep"} /\ left[w] = 0
                         \/ pc[w] = "loop" /\ is_dead[w[1]]

Tick ==
    /\ ~Due
    /\ running \/ \E ep \in Endpoint : revivals[ep] # {}
    /\ left' = [w \in Worker |-> IF left[w] > 0 THEN left[w] - 1 ELSE 0]
    /\ revivals' = [ep \in Endpoint |-> {r - 1 : r \in revivals[ep]}]
    /\ IF running
       THEN /\ health_in' = health_in - 1
            /\ watchdog_in' = watchdog_in - 1
            /\ idle' = UpTo(idle, IdleCap)
            /\ since' = [ep \in Endpoint |-> UpTo(since[ep], SinceCap)]
       ELSE UNCHANGED clocks
    /\ UNCHANGED <<running, sessions, pc, epVars, starting>>

Init ==
    /\ running = TRUE /\ sessions = FALSE
    /\ pc = [w \in Worker |-> "loop"]
    /\ left = [w \in Worker |-> 0]
    /\ consecutive_failures = [ep \in Endpoint |-> 0]
    /\ is_dead = [ep \in Endpoint |-> FALSE]
    /\ backoff = [ep \in Endpoint |-> BackoffBase]
    /\ starting = {}
    /\ revivals = [ep \in Endpoint |-> {}]
    /\ health_in = HealthPollInterval
    /\ watchdog_in = WatchdogInterval
    /\ idle = 0
    /\ since = [ep \in Endpoint |-> 0]

Reply(w) == ReplyOk(w) \/ ReplyGarbled(w) \/ ReplyThrottled(w) \/ ReplyError(w)

Next ==
    \/ SessionsChange \/ HealthTick \/ Watchdog \/ Stop \/ Tick
    \/ \E w \in Worker : Post(w) \/ SleepDead(w) \/ WakeUp(w) \/ Reply(w)
    \/ \E ep \in Endpoint : StartRevival(ep) \/ Revive(ep)

(* Time passes, what is due happens, and a POST ends.                      *)
Fairness ==
    /\ WF_vars(Tick) /\ WF_vars(HealthTick) /\ WF_vars(Watchdog)
    /\ \A w \in Worker : WF_vars(SleepDead(w)) /\ WF_vars(WakeUp(w)) /\ WF_vars(Reply(w))
    /\ \A ep \in Endpoint : WF_vars(StartRevival(ep)) /\ WF_vars(Revive(ep))

Spec == Init /\ [][Next]_vars
FairSpec == Spec /\ Fairness
----------------------------------------------------------------------------
(***************************************************************************)
(* Properties.                                                             *)
(***************************************************************************)
TypeOK ==
    /\ running \in BOOLEAN /\ sessions \in BOOLEAN
    /\ pc \in [Worker -> {"loop", "post", "sleep", "stopped"}]
    /\ left \in [Worker -> Nat]
    /\ consecutive_failures \in [Endpoint -> 0..MaxConsecutiveFailures]
    /\ is_dead \in [Endpoint -> BOOLEAN]
    /\ backoff \in [Endpoint -> BackoffBase..BackoffMax]
    /\ starting \subseteq Endpoint
    /\ revivals \in [Endpoint -> SUBSET (0..BackoffMax)]
    /\ health_in \in 0..HealthPollInterval
    /\ watchdog_in \in 0..WatchdogInterval
    /\ idle \in 0..IdleCap
    /\ since \in [Endpoint -> 0..SinceCap]

(* Whatever deaths, late replies and left-over revive tasks came before, a *)
(* dead endpoint has a revive task of its own, so it is not left to a tick *)
(* to come; and the tasks do not pile up: there is at most one for every   *)
(* health tick within the longest backoff (_health_loop,                   *)
(* _revive_endpoint).                                                      *)
RevivalsScheduled ==
    \A ep \in Endpoint :
        /\ running /\ is_dead[ep] => ep \in starting \/ revivals[ep] # {}
        /\ Cardinality(revivals[ep]) * HealthPollInterval
              <= BackoffMax + HealthPollInterval

(* and one goes off in time: no endpoint is dead for longer than its       *)
(* backoff, although every tick in between schedules another revival and   *)
(* each of them doubles the backoff.                                       *)
DeadForBackoff ==
    \A ep \in Endpoint : running /\ is_dead[ep] => since[ep] <= backoff[ep]

(* A worker looked at a dead endpoint and sleeps on after it was revived:  *)
(* never longer than the endpoint's backoff, counted from the revival.     *)
OversleepsBackoff ==
    \A w \in Worker :
        running /\ pc[w] = "sleep" /\ ~is_dead[w[1]] =>
            \/ since[w[1]] + left[w] <= backoff[w[1]]
            \/ left[w] <= ThrottleSleep

(* The clocks give every step a time and change no step: this is Failover. *)
Untimed == INSTANCE Failover
ImplementsFailover == Untimed!Spec

(* As long as the client runs, no endpoint stays dead.                     *)
Recovers == \A ep \in Endpoint : is_dead[ep] ~> ~is_dead[ep] \/ ~running
=============================================================================
