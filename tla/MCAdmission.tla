----------------------------- MODULE MCAdmission ------------------------------
(****************************************************************************)
(* The way in, for TLC: authentication and plan, the readiness of the mint,   *)
(* the rate and global gates, and the admission queue with its scheduler.     *)
(* The components share no state but the scheduler's: what one does to        *)
(* another is an input of the other's actions.  One run therefore checks them *)
(* as a sum, not a product: `part` names the component that moves and the     *)
(* others stay in their initial state, so the reachable states of each are    *)
(* exactly those of its own specification.  "queue" is the scheduler driven   *)
(* by the admission loop, "scheduler" the same scheduler under any load.      *)
(****************************************************************************)
EXTENDS AdmissionQueue, RateGate, GlobalGate, TenantPlans, Introspection, MintReadiness, TLC

CONSTANTS a1, a2, a3

VARIABLE part

(* Constants too long for a configuration file. *)

Interchangeable == Permutations(AcquireRequests)

MCOwner == [r \in AcquireRequests |-> 1]
MCRateTenant == [r \in RateAcquires |-> IF r = 3 THEN "u" ELSE "t"]
MCGuardTenant == [g \in Guards |-> IF g <= 3 THEN "t" ELSE "u"]
MCPlanFor == [r \in Tiers |-> IF r = "starter" THEN 1 ELSE 2]
MCTokenOf == [r \in AuthRequests |-> IF r = "r3" THEN "bad" ELSE "good"]

--------------------------------------------------------------------------------
(* A component that does not move starts in one of its initial states only. *)
OneIdleStart ==
  /\ part # "queue" => durable
  /\ part # "gate" => policy = "Advisory"
  /\ part # "introspection" => backend = "static"

WayInInit ==
  /\ part \in {"queue", "scheduler", "rate", "gate", "plans", "introspection", "readiness"}
  /\ AdmissionInit /\ RateInit /\ GateInit /\ PlanInit /\ IntroInit /\ ReadyInit
  /\ OneIdleStart

queueVars == <<handlerVars, waiters, row, pat, tick, recorded, durableVars>>

OthersIdle ==
  /\ UNCHANGED part
  /\ part \notin {"queue", "scheduler"} => UNCHANGED schedulerVars
  /\ part # "queue" => UNCHANGED queueVars
  /\ part # "rate" => UNCHANGED rateVars
  /\ part # "gate" => UNCHANGED gateVars
  /\ part # "plans" => UNCHANGED planVars
  /\ part # "introspection" => UNCHANGED introVars
  /\ part # "readiness" => UNCHANGED readyVars

WayInNext ==
  \/ part = "queue" /\ AdmissionNext /\ OthersIdle
  \/ part = "scheduler" /\ SchedulerNext /\ OthersIdle
  \/ part = "rate" /\ RateNext /\ OthersIdle
  \/ part = "gate" /\ GateNext /\ OthersIdle
  \/ part = "plans" /\ PlanNext /\ OthersIdle
  \/ part = "introspection" /\ IntroNext /\ OthersIdle
  \/ part = "readiness" /\ ReadyNext /\ OthersIdle

--------------------------------------------------------------------------------
(* Properties that join what several modules promise about one concern *)

(* Admission gates: late clocks and double releases let nobody past the rate   *)
(* ceiling, and the global gate counts exactly the guards that are out.        *)
GatesHold == RateCeilingHolds /\ GateCountsGuards

(* Who waits for the probe of the mint or for another caller's introspection   *)
(* waits for somebody who is still to answer, although the one waited for may  *)
(* be cancelled.                                                               *)
NoWaiterIsStranded == NoReadinessWakeupLost /\ FollowersHaveALeader
===============================================================================
