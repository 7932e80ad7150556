---------------------------- MODULE MCLeaseLedger ----------------------------
(* Small instances of LeaseLedger, one per question:                          *)
(*   MCLedgerCompute.cfg  one metered tenant, three leases, wandering clocks; *)
(*   MCLedgerCleanup.cfg  a metered and an unmetered tenant, two leases that  *)
(*                        are bound, checkpointed, claimed, erased and reused.*)
EXTENDS LeaseLedger, TLC

CONSTANTS l1, l2, l3, acme, beta, ref1, ref2, cp

Leases3 == {l1, l2, l3}
Leases2 == {l1, l2}
OneTenant == {acme}
TwoTenants == {acme, beta}
Cap2 == [t \in OneTenant |-> 2]
Cap1 == [t \in TwoTenants |-> 1]
Ceiling5 == [t \in OneTenant |-> 5]
CeilingForOne == [t \in TwoTenants |-> IF t = acme THEN 2 ELSE 0]
Clock0to2 == 0..2

Symmetry3 == Permutations(Leases3)
Symmetry2 == Permutations(Leases2) \cup Permutations({ref1, ref2})
==============================================================================
