---------------------------- MODULE HealthProofs ----------------------------
(***************************************************************************)
(* Theorems about the clocks of the carrier, for any number of endpoints   *)
(* and workers, any intervals and any backoffs.                            *)
(***************************************************************************)
EXTENDS EndpointHealth, FiniteSetTheorems, TLAPS

(* The actions, one by one.                                                *)
LEMMA StepCases ==
  ASSUME Next
  PROVE  \/ SessionsChange \/ HealthTick \/ Watchdog \/ Stop \/ Tick
         \/ \E w \in Worker : \/ Post(w) \/ SleepDead(w) \/ WakeUp(w)
                              \/ ReplyOk(w) \/ ReplyGarbled(w)
                              \/ ReplyThrottled(w) \/ ReplyError(w)
         \/ \E ep \in Endpoint : StartRevival(ep) \/ Revive(ep)
BY DEF Next, Reply

(* What the constants and the capped counters are.                         *)
LEMMA Numbers ==
  /\ MaxConsecutiveFailures \in Nat /\ MaxConsecutiveFailures > 0
  /\ HealthPollInterval \in Nat /\ HealthPollInterval > 0
  /\ WatchdogInterval \in Nat /\ WatchdogInterval > 0
  /\ BackoffBase \in Nat /\ BackoffMax \in Nat /\ BackoffBase <= BackoffMax
  /\ PollTimeout \in Nat /\ ThrottleSleep \in Nat
  /\ IdleCap \in Nat /\ SinceCap \in Nat
BY HealthAssumption DEF IdleCap, SinceCap

LEMMA Capped ==
  ASSUME NEW cap \in Nat, NEW n \in 0..cap
  PROVE  UpTo(n, cap) \in 0..cap /\ UpTo(n, cap) <= n + 1
BY DEF UpTo

LEMMA DoubledBounds ==
  ASSUME NEW b \in BackoffBase..BackoffMax
  PROVE  Doubled(b) \in BackoffBase..BackoffMax /\ b <= Doubled(b)
BY Numbers DEF Doubled
----------------------------------------------------------------------------
(* One step keeps the types.                                               *)
LEMMA TypeStep == TypeOK /\ [Next]_vars => TypeOK'
<1> SUFFICES ASSUME TypeOK, [Next]_vars
             PROVE  TypeOK'
  OBVIOUS
<1> USE Numbers
<1>1. CASE SessionsChange
  BY <1>1 DEF SessionsChange, TypeOK, workerVars, epVars, reviveVars, clocks
<1>2. CASE HealthTick
  BY <1>2 DEF HealthTick, TypeOK, Failing, Dead, workerVars
<1>3. CASE Watchdog
  BY <1>3 DEF Watchdog, TypeOK, workerVars, reviveVars
<1>4. CASE Stop
  BY <1>4 DEF Stop, TypeOK, epVars, reviveVars, clocks
<1>5. CASE Tick
  <2>1. left' \in [Worker -> Nat]
    BY <1>5 DEF Tick, TypeOK
  <2>2. revivals' \in [Endpoint -> SUBSET (0..BackoffMax)]
    <3>1. ASSUME NEW ep \in Endpoint, NEW r \in revivals[ep]
          PROVE  r - 1 \in 0..BackoffMax
      BY <1>5, <3>1 DEF Tick, Due, TypeOK
    <3> QED
      BY <1>5, <3>1 DEF Tick
  <2>3. /\ health_in' \in 0..HealthPollInterval
        /\ watchdog_in' \in 0..WatchdogInterval
    BY <1>5 DEF Tick, Due, TypeOK, clocks
  <2>4. idle' \in 0..IdleCap
    BY <1>5, Capped DEF Tick, TypeOK, clocks
  <2>5. since' \in [Endpoint -> 0..SinceCap]
    BY <1>5, Capped DEF Tick, TypeOK, clocks
  <2> QED
    BY <1>5, <2>1, <2>2, <2>3, <2>4, <2>5 DEF Tick, TypeOK, epVars
<1>6. ASSUME NEW w \in Worker,
             \/ Post(w) \/ SleepDead(w) \/ WakeUp(w) \/ ReplyOk(w)
             \/ ReplyGarbled(w) \/ ReplyThrottled(w) \/ ReplyError(w)
      PROVE  TypeOK'
  <2>1. w[1] \in Endpoint
    BY DEF Worker
  <2>2. backoff[w[1]] \in Nat
    BY <2>1 DEF TypeOK
  <2>3. CASE Post(w)
    BY <2>3 DEF Post, TypeOK, epVars, reviveVars
  <2>4. CASE SleepDead(w) \/ WakeUp(w)
    BY <2>2, <2>4 DEF SleepDead, WakeUp, Sleep, Return, TypeOK, epVars, reviveVars, clocks
  <2>5. CASE ReplyOk(w) \/ ReplyGarbled(w)
    BY <2>5 DEF ReplyOk, ReplyGarbled, Return, TypeOK, reviveVars, clocks
  <2>6. CASE ReplyThrottled(w) \/ ReplyError(w)
    <3>1. consecutive_failures' \in [Endpoint -> 0..MaxConsecutiveFailures]
      <4>1. UpTo(consecutive_failures[w[1]], MaxConsecutiveFailures)
                \in 0..MaxConsecutiveFailures
        BY <2>1, Capped DEF TypeOK
      <4> QED
        BY <2>6, <4>1 DEF ReplyThrottled, ReplyError, OneMoreFailure, TypeOK
    <3> QED
      BY <2>6, <3>1 DEF ReplyThrottled, ReplyError, Sleep, Return, TypeOK, reviveVars, clocks
  <2> QED
    BY <1>6, <2>3, <2>4, <2>5, <2>6
<1>7. ASSUME NEW ep \in Endpoint, StartRevival(ep)
      PROVE  TypeOK'
  BY <1>7 DEF StartRevival, TypeOK, workerVars, epVars, clocks
<1>8. ASSUME NEW ep \in Endpoint, Revive(ep)
      PROVE  TypeOK'
  <2>1. Doubled(backoff[ep]) \in BackoffBase..BackoffMax
    BY DoubledBounds DEF TypeOK
  <2>2. revivals' \in [Endpoint -> SUBSET (0..BackoffMax)]
    BY <1>8 DEF Revive, TypeOK
  <2>3. backoff' \in [Endpoint -> BackoffBase..BackoffMax]
    BY <1>8, <2>1 DEF Revive, TypeOK, epVars
  <2>4. /\ is_dead' \in [Endpoint -> BOOLEAN]
        /\ consecutive_failures' \in [Endpoint -> 0..MaxConsecutiveFailures]
    <3>1. \/ is_dead' = [is_dead EXCEPT ![ep] = FALSE] \/ is_dead' = is_dead
      BY <1>8 DEF Revive, epVars
    <3>2. \/ consecutive_failures' = [consecutive_failures EXCEPT ![ep] = 0]
          \/ consecutive_failures' = consecutive_failures
      BY <1>8 DEF Revive, epVars
    <3>3. is_dead' \in [Endpoint -> BOOLEAN]
      BY <3>1 DEF TypeOK
    <3>4. consecutive_failures' \in [Endpoint -> 0..MaxConsecutiveFailures]
      BY <3>2 DEF TypeOK
    <3> QED
      BY <3>3, <3>4
  <2>5. since' \in [Endpoint -> 0..SinceCap]
    BY <1>8 DEF Revive, TypeOK
  <2> QED
    BY <1>8, <2>2, <2>3, <2>4, <2>5 DEF Revive, TypeOK, workerVars
<1>9. CASE UNCHANGED vars
  BY <1>9 DEF TypeOK, vars, workerVars, epVars, reviveVars, clocks
<1> QED
  BY <1>1, <1>2, <1>3, <1>4, <1>5, <1>6, <1>7, <1>8, <1>9, StepCases

(* Whatever happens, every variable keeps its type: in particular the      *)
(* doubled backoff never exceeds _BackoffMax and no sleep is overrun.      *)
THEOREM HealthTypeCorrect == Spec => []TypeOK
<1>1. Init => TypeOK
  <2> SUFFICES ASSUME Init
               PROVE  TypeOK
    OBVIOUS
  <2>1. /\ backoff \in [Endpoint -> BackoffBase..BackoffMax]
        /\ consecutive_failures \in [Endpoint -> 0..MaxConsecutiveFailures]
        /\ revivals \in [Endpoint -> SUBSET (0..BackoffMax)]
        /\ since \in [Endpoint -> 0..SinceCap]
    BY Numbers DEF Init
  <2>2. /\ pc \in [Worker -> {"loop", "post", "sleep", "stopped"}]
        /\ left \in [Worker -> Nat]
        /\ is_dead \in [Endpoint -> BOOLEAN]
    BY DEF Init
  <2>3. /\ health_in \in 0..HealthPollInterval /\ watchdog_in \in 0..WatchdogInterval
        /\ idle \in 0..IdleCap
    BY Numbers DEF Init
  <2> QED
    BY <2>1, <2>2, <2>3 DEF Init, TypeOK
<1> QED
  BY <1>1, TypeStep, PTL DEF Spec
----------------------------------------------------------------------------
(* A step of time, and what a revival does to its endpoint.                *)
LEMMA TickFacts ==
  ASSUME TypeOK, Tick
  PROVE  /\ starting = {} /\ starting' = starting /\ running' = running
         /\ is_dead' = is_dead /\ backoff' = backoff /\ pc' = pc
         /\ running => health_in' = health_in - 1
BY DEF Tick, Due, epVars

LEMMA TickRevival ==
  ASSUME TypeOK, Tick, NEW ep \in Endpoint, NEW r \in revivals[ep]
  PROVE  r > 0 /\ r - 1 \in revivals'[ep]
BY DEF Tick, Due, TypeOK

LEMMA TickSince ==
  ASSUME TypeOK, Tick, running, NEW ep \in Endpoint
  PROVE  since'[ep] <= since[ep] + 1
<1>1. UpTo(since[ep], SinceCap) <= since[ep] + 1
  BY Capped, Numbers DEF TypeOK
<1> QED
  BY <1>1 DEF Tick

LEMMA TickSleep ==
  ASSUME TypeOK, Tick, NEW w \in Worker, pc[w] = "sleep"
  PROVE  left'[w] = left[w] - 1
BY DEF Tick, Due, TypeOK

LEMMA ReviveFacts ==
  ASSUME TypeOK, NEW ep \in Endpoint, Revive(ep), running
  PROVE  /\ is_dead'[ep] = FALSE
         /\ backoff[ep] <= backoff'[ep]
         /\ is_dead[ep] => since'[ep] = 0
         /\ ~is_dead[ep] => since'[ep] = since[ep]
         /\ \A e \in Endpoint \ {ep} :
               /\ is_dead'[e] = is_dead[e] /\ backoff'[e] = backoff[e]
               /\ since'[e] = since[e] /\ revivals'[e] = revivals[e]
<1>1. backoff[ep] <= Doubled(backoff[ep])
  BY DoubledBounds DEF TypeOK
<1>2. /\ is_dead' = [is_dead EXCEPT ![ep] = FALSE]
      /\ backoff' = [backoff EXCEPT ![ep] = Doubled(@)]
      /\ since' = [since EXCEPT ![ep] = IF is_dead[ep] THEN 0 ELSE @]
      /\ revivals' = [revivals EXCEPT ![ep] = @ \ {0}]
  BY DEF Revive
<1>3. is_dead'[ep] = FALSE /\ backoff'[ep] = Doubled(backoff[ep])
  BY <1>2 DEF TypeOK
<1>4. /\ is_dead[ep] => since'[ep] = 0
      /\ ~is_dead[ep] => since'[ep] = since[ep]
  BY <1>2 DEF TypeOK
<1>5. \A e \in Endpoint \ {ep} :
         /\ is_dead'[e] = is_dead[e] /\ backoff'[e] = backoff[e]
         /\ since'[e] = since[e] /\ revivals'[e] = revivals[e]
  BY <1>2 DEF TypeOK
<1> QED
  BY <1>1, <1>3, <1>4, <1>5

(* A dead endpoint is about to get a revive task, or has one that ends     *)
(* within a backoff of its death.                                          *)
Timely ==
    \A ep \in Endpoint : running /\ is_dead[ep] =>
        \/ ep \in starting /\ since[ep] = 0
        \/ \E r \in revivals[ep] : since[ep] + r <= backoff[ep]

LEMMA TimelyStep == TypeOK /\ Timely /\ [Next]_vars => Timely'
<1> SUFFICES ASSUME TypeOK, Timely, [Next]_vars,
                    NEW e \in Endpoint, running', is_dead'[e]
             PROVE  \/ e \in starting' /\ since'[e] = 0
                    \/ \E r \in revivals'[e] : since'[e] + r <= backoff'[e]
  BY DEF Timely
<1>1. running
  BY StepCases DEF SessionsChange, HealthTick, Watchdog, Stop, Tick, Post, SleepDead, WakeUp,
     ReplyOk, ReplyGarbled, ReplyThrottled, ReplyError, StartRevival, Revive, vars
<1>2. is_dead[e] => \/ e \in starting /\ since[e] = 0
                    \/ \E r \in revivals[e] : since[e] + r <= backoff[e]
  BY <1>1 DEF Timely
<1>3. CASE UNCHANGED <<is_dead, starting, since, revivals, backoff>>
  BY <1>2, <1>3
<1>4. CASE HealthTick
  <2>1. CASE is_dead[e]
    BY <1>2, <1>4, <2>1 DEF HealthTick, Failing, Dead, TypeOK
  <2>2. CASE ~is_dead[e]
    BY <1>4, <2>2 DEF HealthTick, Failing, Dead, TypeOK
  <2> QED
    BY <2>1, <2>2
<1>5. CASE Tick
  <2>1. is_dead[e] /\ starting = {} /\ backoff' = backoff
    BY <1>5, TickFacts
  <2>2. PICK r \in revivals[e] : since[e] + r <= backoff[e]
    BY <1>2, <2>1
  <2>3. r - 1 \in revivals'[e] /\ since'[e] <= since[e] + 1
    BY <1>1, <1>5, <2>2, TickRevival, TickSince
  <2>4. /\ r \in Nat /\ since[e] \in Nat /\ since'[e] \in Nat
        /\ backoff[e] \in Nat
    BY Numbers, TypeStep DEF TypeOK
  <2>5. since'[e] + (r - 1) <= backoff'[e]
    BY <2>1, <2>2, <2>3, <2>4
  <2> QED
    BY <2>3, <2>5
<1>6. ASSUME NEW ep \in Endpoint, StartRevival(ep)
      PROVE  \/ e \in starting' /\ since'[e] = 0
             \/ \E r \in revivals'[e] : since'[e] + r <= backoff'[e]
  <2>1. is_dead[e] /\ since' = since /\ backoff' = backoff
    BY <1>6 DEF StartRevival, epVars, clocks
  <2>2. CASE ep = e
    <3>1. revivals'[e] = revivals[e] \cup {backoff[e]}
      BY <1>6, <2>2 DEF StartRevival, TypeOK
    <3>2. since[e] = 0 => since[e] + backoff[e] <= backoff[e]
      BY Numbers DEF TypeOK
    <3> QED
      BY <1>2, <2>1, <3>1, <3>2
  <2>3. CASE ep # e
    BY <1>2, <1>6, <2>1, <2>3 DEF StartRevival, TypeOK
  <2> QED
    BY <2>2, <2>3
<1>7. ASSUME NEW ep \in Endpoint, Revive(ep)
      PROVE  \/ e \in starting' /\ since'[e] = 0
             \/ \E r \in revivals'[e] : since'[e] + r <= backoff'[e]
  <2>1. e # ep
    BY <1>1, <1>7, ReviveFacts
  <2>2. /\ is_dead'[e] = is_dead[e] /\ backoff'[e] = backoff[e]
        /\ since'[e] = since[e] /\ revivals'[e] = revivals[e] /\ starting' = starting
    BY <1>1, <1>7, <2>1, ReviveFacts DEF Revive
  <2> QED
    BY <1>2, <2>2
<1> QED
  BY <1>3, <1>4, <1>5, <1>6, <1>7, StepCases
     DEF SessionsChange, Watchdog, Stop, Post, SleepDead, WakeUp, ReplyOk, ReplyGarbled,
         ReplyThrottled, ReplyError, vars, workerVars, epVars, reviveVars, clocks

(* No endpoint is dead for longer than its backoff, however many revivals  *)
(* the health loop schedules meanwhile.                                    *)
THEOREM DeadInTime == Spec => []DeadForBackoff
<1>1. Init => Timely
  BY DEF Init, Timely
<1>2. TypeOK /\ Timely => DeadForBackoff
  <2> SUFFICES ASSUME TypeOK, Timely, NEW ep \in Endpoint, running, is_dead[ep]
               PROVE  since[ep] <= backoff[ep]
    BY DEF DeadForBackoff
  <2>1. /\ since[ep] \in Nat /\ backoff[ep] \in Nat
        /\ \A r \in revivals[ep] : r \in Nat
    BY Numbers DEF TypeOK
  <2> QED
    BY <2>1 DEF Timely
<1> QED
  BY <1>1, <1>2, TimelyStep, HealthTypeCorrect, PTL DEF Spec
----------------------------------------------------------------------------
(* A worker sleeps for a throttled POST, or since it saw its endpoint      *)
(* dead: then no longer than the backoff, and once the endpoint is alive   *)
(* again what is left counts with the time since the revival.              *)
Rested ==
    \A w \in Worker : running /\ pc[w] = "sleep" =>
        \/ left[w] <= ThrottleSleep
        \/ /\ left[w] <= backoff[w[1]]
           /\ ~is_dead[w[1]] => since[w[1]] + left[w] <= backoff[w[1]]

LEMMA RestedStep == TypeOK /\ Rested /\ [Next]_vars => Rested'
<1> SUFFICES ASSUME TypeOK, Rested, [Next]_vars,
                    NEW v \in Worker, running', pc'[v] = "sleep"
             PROVE  \/ left'[v] <= ThrottleSleep
                    \/ /\ left'[v] <= backoff'[v[1]]
                       /\ ~is_dead'[v[1]] => since'[v[1]] + left'[v] <= backoff'[v[1]]
  BY DEF Rested
<1> DEFINE e == v[1]
<1>1. running
  BY StepCases DEF SessionsChange, HealthTick, Watchdog, Stop, Tick, Post, SleepDead, WakeUp,
     ReplyOk, ReplyGarbled, ReplyThrottled, ReplyError, StartRevival, Revive, vars
<1>2. /\ e \in Endpoint /\ left[v] \in Nat /\ left'[v] \in Nat
      /\ since[e] \in Nat /\ since'[e] \in Nat /\ backoff[e] \in Nat /\ backoff'[e] \in Nat
      /\ ThrottleSleep \in Nat
  <2>1. TypeOK' /\ e \in Endpoint
    BY TypeStep DEF Worker
  <2> QED
    BY <2>1, Numbers DEF TypeOK
<1>3. pc[v] = "sleep" => \/ left[v] <= ThrottleSleep
                         \/ /\ left[v] <= backoff[e]
                            /\ ~is_dead[e] => since[e] + left[v] <= backoff[e]
  BY <1>1 DEF Rested
<1>4. CASE UNCHANGED <<pc, left, is_dead, backoff, since>>
  BY <1>3, <1>4
<1>5. CASE HealthTick
  BY <1>2, <1>3, <1>5 DEF HealthTick, Failing, Dead, TypeOK, workerVars
<1>6. CASE Tick
  <2>1. /\ pc[v] = "sleep"
        /\ is_dead'[e] = is_dead[e] /\ backoff'[e] = backoff[e]
    BY <1>6, TickFacts
  <2>2. left'[v] = left[v] - 1
    BY <1>6, <2>1, TickSleep
  <2>3. since'[e] <= since[e] + 1
    BY <1>1, <1>2, <1>6, TickSince
  <2> QED
    BY <1>2, <1>3, <2>1, <2>2, <2>3
<1>7. ASSUME NEW ep \in Endpoint, Revive(ep)
      PROVE  \/ left'[v] <= ThrottleSleep
             \/ /\ left'[v] <= backoff'[e]
                /\ ~is_dead'[e] => since'[e] + left'[v] <= backoff'[e]
  <2>1. pc[v] = "sleep" /\ left'[v] = left[v]
    BY <1>7 DEF Revive, workerVars
  <2>2. /\ backoff[e] <= backoff'[e]
        /\ is_dead[e] /\ ~is_dead'[e] => since'[e] = 0
        /\ ~is_dead[e] => since'[e] = since[e]
    <3>1. CASE e = ep
      BY <1>1, <1>7, <3>1, ReviveFacts
    <3>2. CASE e # ep
      <4>1. backoff'[e] = backoff[e] /\ is_dead'[e] = is_dead[e] /\ since'[e] = since[e]
        BY <1>1, <1>2, <1>7, <3>2, ReviveFacts
      <4> QED
        BY <1>2, <4>1
    <3> QED
      BY <3>1, <3>2
  <2> QED
    BY <1>2, <1>3, <2>1, <2>2
<1>8. ASSUME NEW w \in Worker,
             \/ Post(w) \/ SleepDead(w) \/ WakeUp(w) \/ ReplyOk(w)
             \/ ReplyGarbled(w) \/ ReplyThrottled(w) \/ ReplyError(w)
      PROVE  \/ left'[v] <= ThrottleSleep
             \/ /\ left'[v] <= backoff'[e]
                /\ ~is_dead'[e] => since'[e] + left'[v] <= backoff'[e]
  <2>1. is_dead' = is_dead /\ backoff' = backoff /\ since' = since
    BY <1>8 DEF Post, SleepDead, WakeUp, ReplyOk, ReplyGarbled, ReplyThrottled, ReplyError,
       epVars, clocks
  <2>2. CASE w # v
    <3>1. pc'[v] = pc[v] /\ left'[v] = left[v]
      BY <1>8, <2>2 DEF Post, SleepDead, WakeUp, ReplyOk, ReplyGarbled, ReplyThrottled,
         ReplyError, Sleep, Return, TypeOK
    <3> QED
      BY <1>3, <2>1, <3>1
  <2>3. CASE w = v
    <3>1. CASE SleepDead(v)
      BY <1>2, <2>1, <3>1 DEF SleepDead, Sleep, TypeOK
    <3>2. CASE ReplyThrottled(v)
      BY <1>2, <3>2 DEF ReplyThrottled, Sleep, TypeOK
    <3>3. CASE Post(v) \/ WakeUp(v) \/ ReplyOk(v) \/ ReplyGarbled(v) \/ ReplyError(v)
      BY <3>3 DEF Post, WakeUp, ReplyOk, ReplyGarbled, ReplyError, Return, TypeOK
    <3> QED
      BY <1>8, <2>3, <3>1, <3>2, <3>3
  <2> QED
    BY <2>2, <2>3
<1> QED
  BY <1>4, <1>5, <1>6, <1>7, <1>8, StepCases
     DEF SessionsChange, Watchdog, Stop, StartRevival, vars, workerVars, epVars, clocks

(* A worker that saw its endpoint dead sleeps on after the revival, but no *)
(* longer than the endpoint's backoff.                                     *)
THEOREM SleepsAtMostBackoff == Spec => []OversleepsBackoff
<1>1. Init => Rested
  BY DEF Init, Rested
<1>2. TypeOK /\ Rested => OversleepsBackoff
  BY DEF Rested, OversleepsBackoff
<1> QED
  BY <1>1, <1>2, RestedStep, HealthTypeCorrect, PTL DEF Spec
----------------------------------------------------------------------------
(* A new revive task sleeps for longer than those before it have left, by  *)
(* one interval of the health loop at least.                               *)
Gaps ==
    \A ep \in Endpoint :
        /\ ep \in starting =>
              /\ running => health_in = HealthPollInterval
              /\ \A r \in revivals[ep] : r + HealthPollInterval <= backoff[ep]
        /\ running => \A r \in revivals[ep] :
              r + (HealthPollInterval - health_in) <= backoff[ep]
        /\ \A r1, r2 \in revivals[ep] : r1 < r2 => r1 + HealthPollInterval <= r2

LEMMA GapsStep == TypeOK /\ Gaps /\ [Next]_vars => Gaps'
<1> SUFFICES ASSUME TypeOK, Gaps, [Next]_vars, NEW e \in Endpoint
             PROVE  /\ e \in starting' =>
                          /\ running' => health_in' = HealthPollInterval
                          /\ \A r \in revivals'[e] : r + HealthPollInterval <= backoff'[e]
                    /\ running' => \A r \in revivals'[e] :
                          r + (HealthPollInterval - health_in') <= backoff'[e]
                    /\ \A r1, r2 \in revivals'[e] : r1 < r2 => r1 + HealthPollInterval <= r2
  BY DEF Gaps
<1> DEFINE Old == /\ e \in starting =>
                        /\ running => health_in = HealthPollInterval
                        /\ \A r \in revivals[e] : r + HealthPollInterval <= backoff[e]
                  /\ running => \A r \in revivals[e] :
                        r + (HealthPollInterval - health_in) <= backoff[e]
                  /\ \A r1, r2 \in revivals[e] : r1 < r2 => r1 + HealthPollInterval <= r2
           New == /\ e \in starting' =>
                        /\ running' => health_in' = HealthPollInterval
                        /\ \A r \in revivals'[e] : r + HealthPollInterval <= backoff'[e]
                  /\ running' => \A r \in revivals'[e] :
                        r + (HealthPollInterval - health_in') <= backoff'[e]
                  /\ \A r1, r2 \in revivals'[e] : r1 < r2 => r1 + HealthPollInterval <= r2
<1> SUFFICES New
  OBVIOUS
<1>1. Old
  BY DEF Gaps
<1>2. /\ HealthPollInterval \in Nat /\ HealthPollInterval > 0 /\ health_in \in Nat
      /\ backoff[e] \in Nat /\ revivals[e] \subseteq Nat
  BY Numbers DEF TypeOK
<1>3. CASE UNCHANGED <<running, starting, revivals, backoff, health_in>>
  BY <1>1, <1>3
<1>4. CASE HealthTick
  <2>1. /\ running /\ health_in = 0 /\ revivals' = revivals /\ backoff' = backoff
        /\ health_in' = HealthPollInterval
    BY <1>4 DEF HealthTick
  <2> QED
    BY <1>1, <1>2, <2>1
<1>5. CASE Tick
  <2>1. /\ starting' = {} /\ running' = running /\ backoff' = backoff
        /\ running => health_in' = health_in - 1
    BY <1>5, TickFacts
  <2>2. ASSUME NEW r \in revivals'[e]
        PROVE  r + 1 \in revivals[e] /\ r \in Int
    BY <1>2, <1>5 DEF Tick
  <2>3. ASSUME running, NEW r \in revivals'[e]
        PROVE  r + (HealthPollInterval - health_in') <= backoff'[e]
    BY <1>1, <1>2, <2>1, <2>2, <2>3
  <2>4. ASSUME NEW r1 \in revivals'[e], NEW r2 \in revivals'[e], r1 < r2
        PROVE  r1 + HealthPollInterval <= r2
    <3>1. r1 + 1 \in revivals[e] /\ r2 + 1 \in revivals[e] /\ r1 \in Int /\ r2 \in Int
      BY <2>2
    <3>2. (r1 + 1) + HealthPollInterval <= r2 + 1
      BY <1>1, <2>4, <3>1
    <3> QED
      BY <1>2, <3>1, <3>2
  <2> QED
    BY <2>1, <2>3, <2>4
<1>6. ASSUME NEW ep \in Endpoint, StartRevival(ep)
      PROVE  New
  <2>1. running' = running /\ backoff' = backoff /\ health_in' = health_in
    BY <1>6 DEF StartRevival, epVars, clocks
  <2>2. CASE ep = e
    <3>1. /\ e \in starting /\ e \notin starting'
          /\ revivals'[e] = revivals[e] \cup {backoff[e]}
      BY <1>6, <2>2 DEF StartRevival, TypeOK
    <3>2. running => health_in = HealthPollInterval
      BY <1>1, <3>1
    <3>3. \A r \in revivals[e] : r + HealthPollInterval <= backoff[e] /\ ~(backoff[e] < r)
      BY <1>1, <1>2, <3>1
    <3>4. ASSUME running', NEW r \in revivals'[e]
          PROVE  r + (HealthPollInterval - health_in') <= backoff'[e]
      BY <1>2, <2>1, <3>1, <3>2, <3>3, <3>4
    <3>5. ASSUME NEW r1 \in revivals'[e], NEW r2 \in revivals'[e], r1 < r2
          PROVE  r1 + HealthPollInterval <= r2
      BY <1>1, <1>2, <3>1, <3>3, <3>5
    <3> QED
      BY <3>1, <3>4, <3>5
  <2>3. CASE ep # e
    <3>1. revivals'[e] = revivals[e] /\ (e \in starting' => e \in starting)
      BY <1>6, <2>3 DEF StartRevival, TypeOK
    <3> QED
      BY <1>1, <2>1, <3>1
  <2> QED
    BY <2>2, <2>3
<1>7. ASSUME NEW ep \in Endpoint, Revive(ep)
      PROVE  New
  <2>1. /\ running' = running /\ health_in' = health_in /\ starting' = starting
        /\ revivals'[e] \subseteq revivals[e]
    BY <1>7 DEF Revive, TypeOK
  <2>2. backoff[e] <= backoff'[e] /\ backoff'[e] \in Nat
    <3>1. CASE running /\ ep = e
      <4>1. backoff[e] <= backoff'[e]
        BY <1>7, <3>1, ReviveFacts
      <4>2. backoff'[e] \in BackoffBase..BackoffMax
        BY TypeStep DEF TypeOK
      <4> QED
        BY <4>1, <4>2, Numbers
    <3>2. CASE running /\ ep # e
      <4>1. backoff'[e] = backoff[e]
        BY <1>7, <3>2, ReviveFacts
      <4> QED
        BY <1>2, <4>1
    <3>3. CASE ~running
      BY <1>2, <1>7, <3>3 DEF Revive, epVars
    <3> QED
      BY <3>1, <3>2, <3>3
  <2> QED
    BY <1>1, <1>2, <2>1, <2>2
<1>8. CASE Stop
  BY <1>1, <1>8 DEF Stop, epVars, reviveVars, clocks
<1> QED
  BY <1>3, <1>4, <1>5, <1>6, <1>7, <1>8, StepCases
     DEF SessionsChange, Watchdog, Post, SleepDead, WakeUp, ReplyOk, ReplyGarbled,
         ReplyThrottled, ReplyError, vars, workerVars, epVars, reviveVars, clocks

(* Numbers that lie a distance apart are few: each has an interval of its  *)
(* own.                                                                    *)
LEMMA SpacedAreFew ==
  ASSUME NEW n \in Nat, NEW h \in Nat, h > 0, NEW R \in SUBSET (0..n),
         \A r1, r2 \in R : r1 < r2 => r1 + h <= r2
  PROVE  Cardinality(R) * h <= n + h
<1> DEFINE K == 0..(h - 1)
           T == 0..(n + h - 1)
           f == [p \in R \X K |-> p[1] + p[2]]
<1>1. IsFiniteSet(R) /\ IsFiniteSet(K) /\ IsFiniteSet(T) /\ Cardinality(R) \in Nat
  <2>1. 0 \in Int /\ n \in Int /\ h - 1 \in Int /\ n + h - 1 \in Int
    OBVIOUS
  <2>2. IsFiniteSet(0..n) /\ IsFiniteSet(K) /\ IsFiniteSet(T)
    BY <2>1, FS_Interval
  <2> QED
    BY <2>2, FS_Subset, FS_CardinalityType
<1>2. Cardinality(K) = h /\ Cardinality(T) = n + h
  <2>1. 0 \in Int /\ h - 1 \in Int /\ n + h - 1 \in Int
    OBVIOUS
  <2>2. /\ Cardinality(K) = (IF 0 > h - 1 THEN 0 ELSE (h - 1) - 0 + 1)
        /\ Cardinality(T) = (IF 0 > n + h - 1 THEN 0 ELSE (n + h - 1) - 0 + 1)
    BY <2>1, FS_Interval
  <2> QED
    BY <2>2
<1>3. IsFiniteSet(R \X K) /\ Cardinality(R \X K) = Cardinality(R) * Cardinality(K)
  BY <1>1, FS_Product
<1>4. f \in Injection(R \X K, T)
  <2>1. \A p \in R \X K : p[1] + p[2] \in T
    <3>1. ASSUME NEW p \in R \X K
          PROVE  p[1] + p[2] \in T
      <4>1. p[1] \in R /\ p[2] \in K
        OBVIOUS
      <4>2. p[1] \in 0..n
        BY <4>1
      <4> QED
        BY <4>1, <4>2
    <3> QED
      BY <3>1
  <2>2. ASSUME NEW p \in R \X K, NEW q \in R \X K, f[p] = f[q]
        PROVE  p = q
    <3>1. /\ p[1] \in R /\ q[1] \in R /\ p[1] \in Nat /\ q[1] \in Nat
          /\ p[2] \in K /\ q[2] \in K /\ p[1] + p[2] = q[1] + q[2]
      <4>1. p[1] \in R /\ q[1] \in R /\ p[2] \in K /\ q[2] \in K
        OBVIOUS
      <4>2. p[1] + p[2] = q[1] + q[2]
        BY <2>2
      <4>3. p[1] \in 0..n /\ q[1] \in 0..n
        BY <4>1
      <4>4. p[1] \in Nat /\ q[1] \in Nat
        BY <4>3
      <4> QED
        BY <4>1, <4>2, <4>4, Zenon
    <3>2. ~(p[1] < q[1]) /\ ~(q[1] < p[1])
      BY <3>1
    <3> QED
      BY <3>1, <3>2
  <2> QED
    BY <2>1, <2>2 DEF Injection, IsInjective
<1>5. Cardinality(R \X K) <= Cardinality(T)
  BY <1>1, <1>4, FS_Injection
<1> QED
  BY <1>1, <1>2, <1>3, <1>5

(* The health loop schedules a revival of a dead endpoint at every turn:   *)
(* there is always one, and there are never more than turns in the longest *)
(* backoff.                                                                *)
THEOREM RevivalsBounded == Spec => []RevivalsScheduled
<1>1. Init => Gaps /\ Timely
  BY DEF Init, Gaps, Timely
<1>2. TypeOK /\ Timely /\ Gaps => RevivalsScheduled
  <2> SUFFICES ASSUME TypeOK, Timely, Gaps, NEW ep \in Endpoint
               PROVE  /\ running /\ is_dead[ep] => ep \in starting \/ revivals[ep] # {}
                      /\ Cardinality(revivals[ep]) * HealthPollInterval
                            <= BackoffMax + HealthPollInterval
    BY DEF RevivalsScheduled
  <2>1. running /\ is_dead[ep] => ep \in starting \/ revivals[ep] # {}
    BY DEF Timely
  <2>2. /\ revivals[ep] \in SUBSET (0..BackoffMax)
        /\ \A r1, r2 \in revivals[ep] : r1 < r2 => r1 + HealthPollInterval <= r2
    BY DEF TypeOK, Gaps
  <2> QED
    BY <2>1, <2>2, Numbers, SpacedAreFew
<1> QED
  BY <1>1, <1>2, GapsStep, TimelyStep, HealthTypeCorrect, PTL DEF Spec
----------------------------------------------------------------------------
(* Every step with a clock is one of Failover's, or none.                  *)
LEMMA FailoverStep == TypeOK /\ [Next]_vars => [Untimed!Next]_(Untimed!vars)
<1> SUFFICES ASSUME TypeOK, [Next]_vars
             PROVE  \/ Untimed!Next \/ UNCHANGED <<consecutive_failures, is_dead>>
  BY DEF Untimed!vars
<1>1. CASE HealthTick
  <2>1. Untimed!Condemn
    BY <1>1 DEF HealthTick, Untimed!Condemn, Untimed!Failing, Failing
  <2> QED
    BY <2>1 DEF Untimed!Next
<1>2. CASE Watchdog
  <2>1. CASE sessions /\ idle > WatchdogMaxIdle
    <3>1. Untimed!Suspect
      BY <1>2, <2>1 DEF Watchdog, Untimed!Suspect
    <3> QED
      BY <3>1 DEF Untimed!Next
  <2>2. CASE ~(sessions /\ idle > WatchdogMaxIdle)
    <3>1. consecutive_failures' = [ep \in Endpoint |-> consecutive_failures[ep]]
      BY <1>2, <2>2 DEF Watchdog
    <3> QED
      BY <1>2, <3>1 DEF Watchdog, TypeOK
  <2> QED
    BY <2>1, <2>2
<1>3. ASSUME NEW ep \in Endpoint, Revive(ep)
      PROVE  Untimed!Next \/ UNCHANGED <<consecutive_failures, is_dead>>
  BY <1>3 DEF Revive, Untimed!Next, Untimed!Revive, epVars
<1>4. ASSUME NEW w \in Worker,
             ReplyOk(w) \/ ReplyGarbled(w) \/ ReplyThrottled(w) \/ ReplyError(w)
      PROVE  Untimed!Next
  <2>1. w[1] \in Endpoint
    BY DEF Worker
  <2>2. CASE ReplyOk(w) \/ ReplyGarbled(w)
    <3>1. Untimed!Succeed(w[1])
      BY <2>2 DEF ReplyOk, ReplyGarbled, Untimed!Succeed
    <3> QED
      BY <2>1, <3>1 DEF Untimed!Next
  <2>3. CASE ReplyThrottled(w) \/ ReplyError(w)
    <3> DEFINE n == consecutive_failures[w[1]]
    <3>1. n \in 0..MaxConsecutiveFailures
      BY <2>1 DEF TypeOK
    <3>2. UpTo(n, MaxConsecutiveFailures) = IF n < MaxConsecutiveFailures THEN n + 1 ELSE n
      BY <3>1, Numbers DEF UpTo
    <3>3. /\ consecutive_failures' = [consecutive_failures EXCEPT
                ![w[1]] = UpTo(n, MaxConsecutiveFailures)]
          /\ UNCHANGED is_dead
      BY <2>3 DEF ReplyThrottled, ReplyError, OneMoreFailure
    <3>4. Untimed!Fail(w[1])
      BY <3>2, <3>3 DEF Untimed!Fail
    <3> QED
      BY <2>1, <3>4 DEF Untimed!Next
  <2> QED
    BY <1>4, <2>2, <2>3
<1>5. ASSUME NEW w \in Worker, Post(w) \/ SleepDead(w) \/ WakeUp(w)
      PROVE  UNCHANGED <<consecutive_failures, is_dead>>
  BY <1>5 DEF Post, SleepDead, WakeUp, epVars
<1>6. ASSUME NEW ep \in Endpoint, StartRevival(ep)
      PROVE  UNCHANGED <<consecutive_failures, is_dead>>
  BY <1>6 DEF StartRevival, epVars
<1>7. CASE SessionsChange \/ Stop \/ Tick \/ UNCHANGED vars
  BY <1>7 DEF SessionsChange, Stop, Tick, vars, epVars
<1> QED
  BY <1>1, <1>2, <1>3, <1>4, <1>5, <1>6, <1>7, StepCases

(* The carrier with its clocks implements Failover, which has none.        *)
THEOREM FailoverRefined == Spec => ImplementsFailover
<1>1. Init => Untimed!Init
  BY DEF Init, Untimed!Init
<1> QED
  BY <1>1, FailoverStep, HealthTypeCorrect, PTL DEF Spec, ImplementsFailover, Untimed!Spec
=============================================================================
