------------------------------ MODULE MCLiveness ------------------------------
(****************************************************************************)
(* What must eventually happen, for TLC: one instance of the fleet that may   *)
(* die once and restart, with two requests, and the fair scheduler under any  *)
(* load.  They share no state, so one run checks them as a sum: `part` names  *)
(* the one that moves, and its fairness is the only one assumed.              *)
(****************************************************************************)
EXTENDS MCLeaseLifecycle, FairScheduler

VARIABLE part

LivenessInit == part \in {"fleet", "scheduler"} /\ Init /\ SchedulerInit

LivenessNext ==
  \/ part = "fleet" /\ Next /\ UNCHANGED <<schedulerVars, part>>
  \/ part = "scheduler" /\ SchedulerNext /\ UNCHANGED <<vars, part>>

LivenessSpec ==
  /\ LivenessInit /\ [][LivenessNext]_<<vars, schedulerVars, part>>
  /\ \/ part = "fleet" /\ Fairness
     \/ part = "scheduler" /\ SchedulerFairness
===============================================================================
