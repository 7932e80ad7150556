---------------------------- MODULE MCSharedState -----------------------------
(****************************************************************************)
(* What the instances of the fabric share, for TLC: the Postgres ledger, the  *)
(* suspension outbox beside it, and the routing that brings a lease back to   *)
(* the instance that minted it.  The three share no state in the model, so    *)
(* one run checks them as a sum, not a product: `part` names the one that     *)
(* moves, the others stay in their initial state, and the reachable states of *)
(* each are exactly those of its own specification.                           *)
(****************************************************************************)
EXTENDS PgLedger, SuspensionOutbox, ShardRouting, TLC

CONSTANTS s1, s2

VARIABLE part

Interchangeable == Permutations(Sessions)

(* A component that does not move starts in one of its initial states only. *)
OneIdleStart ==
  /\ part # "outbox" => pointer = NotSuspended
  /\ part # "shards" => pgLedger

SharedInit ==
  /\ part \in {"ledger", "outbox", "shards"}
  /\ PgInit /\ OutboxInit /\ ShardInit
  /\ OneIdleStart

SharedNext ==
  \/ part = "ledger" /\ PgNext /\ UNCHANGED <<outboxVars, shardVars, part>>
  \/ part = "outbox" /\ OutboxNext /\ UNCHANGED <<pgVars, shardVars, part>>
  \/ part = "shards" /\ ShardNext /\ UNCHANGED <<pgVars, outboxVars, part>>
===============================================================================
