---------------------------- MODULE MCFileLedger -----------------------------
(* A small instance of FileLedger: one tenant, two leases, journals of a few  *)
(* lines; MCFileLedger.cfg without faults, MCFileDamaged.cfg with failed and  *)
(* torn writes, MCFileTornLine.cfg with torn lines only.                      *)
EXTENDS FileLedger, TLC

CONSTANTS l1, l2, acme, ref, cp

Cap == [t \in {acme} |-> 2]
SmallCeiling == [t \in {acme} |-> 2]
==============================================================================
