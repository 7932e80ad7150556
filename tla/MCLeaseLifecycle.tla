--------------------------- MODULE MCLeaseLifecycle ---------------------------
(* Small fleets that handle one lease of one tenant:                          *)
(* MCFleetSafety.cfg has two instances, one request, one crash; MCLiveness    *)
(* extends this module for one instance that may die once, and two requests.  *)
EXTENDS LeaseLifecycle, TLC

CONSTANTS l1, acme, ref, i1, i2, q1, q2

Cap1 == [t \in {acme} |-> 1]
Unmetered == [t \in {acme} |-> 0]
Clock == 0..MaxTime
Swap == Permutations(Instances) \cup Permutations(Requests)
==============================================================================
