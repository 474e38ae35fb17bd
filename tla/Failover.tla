------------------------------ MODULE Failover ------------------------------
(***************************************************************************)
(* What the client keeps about its endpoints, without clocks: when one is  *)
(* given up and when it is used again.  Carrier lets these steps happen at *)
(* any time; EndpointHealth gives every one of them its clock.             *)
(***************************************************************************)
EXTENDS Integers

CONSTANTS Endpoint, MaxConsecutiveFailures

VARIABLES consecutive_failures, is_dead

vars == <<consecutive_failures, is_dead>>

Failing == {ep \in Endpoint : consecutive_failures[ep] >= MaxConsecutiveFailures}

Init ==
    /\ consecutive_failures = [ep \in Endpoint |-> 0]
    /\ is_dead = [ep \in Endpoint |-> FALSE]

(* A POST succeeds, or one more has failed.                                *)
Succeed(ep) ==
    /\ consecutive_failures' = [consecutive_failures EXCEPT ![ep] = 0]
    /\ UNCHANGED is_dead

Fail(ep) ==
    /\ consecutive_failures' = [consecutive_failures EXCEPT
          ![ep] = IF @ < MaxConsecutiveFailures THEN @ + 1 ELSE @]
    /\ UNCHANGED is_dead

(* The watchdog holds every live endpoint for failing.                     *)
Suspect ==
    /\ consecutive_failures' = [ep \in Endpoint |->
          IF is_dead[ep] THEN consecutive_failures[ep] ELSE MaxConsecutiveFailures]
    /\ UNCHANGED is_dead

(* The endpoints that are failing are given up, all of them at once.       *)
Condemn ==
    /\ is_dead' = [ep \in Endpoint |-> is_dead[ep] \/ ep \in Failing]
    /\ UNCHANGED consecutive_failures

(* An endpoint is used again, and starts from no failures.                 *)
Revive(ep) ==
    /\ is_dead' = [is_dead EXCEPT ![ep] = FALSE]
    /\ consecutive_failures' = [consecutive_failures EXCEPT ![ep] = 0]

Next ==
    \/ \E ep \in Endpoint : Succeed(ep) \/ Fail(ep) \/ Revive(ep)
    \/ Suspect \/ Condemn

Spec == Init /\ [][Next]_vars
=============================================================================
