------------------------------- MODULE PgLedger -------------------------------
(****************************************************************************)
(* The Postgres ledger (pg_ledger.rs and its submodules), one tenant, at the  *)
(* grain of its SQL statements.  A session is a pooled connection.  An        *)
(* operation on a lease reads whether the row is metered outside any          *)
(* transaction, then begins, takes the tenant's advisory lock if it is, locks *)
(* the row FOR UPDATE and writes; admissions and external reservations take   *)
(* the advisory lock and read the tenant's sums in a statement of their own.  *)
(* Isolation is READ COMMITTED: a statement sees what was committed when it   *)
(* began, and writes are seen at COMMIT, which releases the locks.            *)
(*                                                                           *)
(* A metered lease and a grant reserve one unit of compute each; a lease's    *)
(* actual use is clamped to what it reserved, a settlement's is not.          *)
(****************************************************************************)
EXTENDS Integers, FiniteSets, FiniteSetsExt

CONSTANTS
  Sessions,      \* connections of the pool
  PgLeases,      \* lease ids
  Metered,       \* the ids admitted with a compute gate
  Grants,        \* external compute reservations
  AdmitPermits,  \* admit_permits: how many sessions may admit at once
  PgCap,         \* max_concurrency
  PgCeiling,     \* ceiling_vcpu_ms, in units
  PgEnds,        \* the terminal states that occur: Released, Expired, Crashed
  Baseline,      \* external_vcpu_ms of the period's baseline
  MaxActual      \* the largest use a settlement reports

ASSUME PgAssumption ==
  /\ IsFiniteSet(PgLeases) /\ IsFiniteSet(Grants)
  /\ Metered \subseteq PgLeases
  /\ "nobody" \notin Sessions
  /\ PgEnds \subseteq {"Released", "Expired", "Crashed"}
  /\ {AdmitPermits, PgCap, PgCeiling, Baseline, MaxActual} \subseteq Nat

VARIABLES
  table,      \* table[l]: the committed row of l, or NoRow
  claimTable, \* pending_cleanup_claims
  accrual,    \* accrued_vcpu_ms of the period
  baselined,  \* the period has its baseline row
  grants,     \* grants[g]: the reservation row of g
  lapsed,     \* grants that are past their expiry or their period
  advisory,   \* the session with the tenant's advisory lock
  rowLock,    \* rowLock[l]: the session that has l FOR UPDATE
  txn         \* txn[s]: what session s is doing

dataVars == <<table, claimTable, accrual, baselined, grants>>
pgVars == <<dataVars, lapsed, advisory, rowLock, txn>>

Nobody == "nobody"
NoRow == [state |-> "none", box |-> "none", old |-> FALSE, charged |-> 0]
Idle == [op |-> "none", on |-> "none", at |-> "idle", saw |-> [cnt |-> 0, used |-> 0, accrued |-> 0]]

LeaseOps == {"Held", "bind", "remove", "removePending", "claimStale", "claim", "finish"} \cup PgEnds
GrantOps == {"reserve", "active", "cancelled", "settle"}
AdmitOps == {"admit", "reserve"}

PgInit ==
  /\ table = [l \in PgLeases |-> NoRow]
  /\ claimTable = {}
  /\ accrual = 0 /\ baselined = FALSE
  /\ grants = [g \in Grants |-> [state |-> "none", actual |-> 0]]
  /\ lapsed = {}
  /\ advisory = Nobody
  /\ rowLock = [l \in PgLeases |-> Nobody]
  /\ txn = [s \in Sessions |-> Idle]

ActiveRows == {l \in PgLeases : table[l].state \in {"Pending", "Held"}}

Reserved == Cardinality(ActiveRows \cap Metered)
              + Cardinality({g \in Grants : grants[g].state \in {"prepared", "active"}})

--------------------------------------------------------------------------------
(* Sessions, locks and transactions *)

At(s, op, at) == txn[s].op = op /\ txn[s].at = at

Goes(s, at) == txn' = [txn EXCEPT ![s].at = at]

(* COMMIT and ROLLBACK end the transaction and release its locks. *)
End(s) ==
  /\ txn' = [txn EXCEPT ![s] = Idle]
  /\ advisory' = IF advisory = s THEN Nobody ELSE advisory
  /\ rowLock' = [l \in PgLeases |-> IF rowLock[l] = s THEN Nobody ELSE rowLock[l]]

Rollback(s) == End(s) /\ UNCHANGED <<dataVars, lapsed>>

(* The pre-read decides whether the tenant's lock is taken: always before the *)
(* row's.                                                                     *)
FirstLock(op, l) == IF l \in Metered THEN "advisory" ELSE "row"

StaleRow(l) == table[l].state = "Pending" /\ (table[l].old \/ l \in claimTable)

(* The pre-read of an operation on a lease; the stale claim lists candidates  *)
(* the same way.                                                              *)
BeginOnLease(s, op, l) ==
  /\ txn[s] = Idle
  /\ IF op = "claimStale" THEN StaleRow(l) ELSE table[l] # NoRow
  /\ txn' = [txn EXCEPT ![s] = [Idle EXCEPT !.op = op, !.on = l, !.at = FirstLock(op, l)]]
  /\ UNCHANGED <<dataVars, lapsed, advisory, rowLock>>

Admitting == {s \in Sessions : txn[s].op \in AdmitOps}

BeginAdmit(s, l) ==
  /\ txn[s] = Idle /\ Cardinality(Admitting) < AdmitPermits
  /\ txn' = [txn EXCEPT ![s] = [Idle EXCEPT !.op = "admit", !.on = l, !.at = "advisory"]]
  /\ UNCHANGED <<dataVars, lapsed, advisory, rowLock>>

BeginOnGrant(s, op, g) ==
  /\ txn[s] = Idle
  /\ op = "reserve" => Cardinality(Admitting) < AdmitPermits
  /\ txn' = [txn EXCEPT ![s] = [Idle EXCEPT !.op = op, !.on = g, !.at = "advisory"]]
  /\ UNCHANGED <<dataVars, lapsed, advisory, rowLock>>

BeginInitialize(s) ==
  /\ txn[s] = Idle
  /\ txn' = [txn EXCEPT ![s] = [Idle EXCEPT !.op = "initialize", !.at = "advisory"]]
  /\ UNCHANGED <<dataVars, lapsed, advisory, rowLock>>

(* pg_advisory_xact_lock(hashtext(tenant)) *)
TakeAdvisory(s) ==
  /\ txn[s].at = "advisory" /\ advisory = Nobody
  /\ advisory' = s
  /\ Goes(s, IF txn[s].op \notin LeaseOps THEN "read"
             ELSE IF rowLock[txn[s].on] = s THEN "apply" ELSE "row")
  /\ UNCHANGED <<dataVars, lapsed, rowLock>>

(* SELECT ... FOR UPDATE: after the wait the row is read again, and may be    *)
(* gone.                                                                      *)
TakeRow(s) ==
  LET l == txn[s].on IN
  /\ txn[s].at = "row" /\ rowLock[l] = Nobody
  /\ IF table[l] = NoRow
     THEN Rollback(s)
     ELSE /\ rowLock' = [rowLock EXCEPT ![l] = s]
          /\ Goes(s, IF l \in Metered /\ advisory # s THEN "advisory" ELSE "apply")
          /\ UNCHANGED <<dataVars, lapsed, advisory>>

Sums == [cnt |-> Cardinality(ActiveRows), used |-> accrual + Reserved, accrued |-> accrual]

(* Mutant: the sums are read before the advisory lock is there. *)
ReadUnlocked(s) ==
  /\ txn[s].at \in {"advisory", "read"} /\ txn[s].op \notin LeaseOps
  /\ txn' = [txn EXCEPT ![s].at = "apply",
                        ![s].saw = Sums]
  /\ UNCHANGED <<dataVars, lapsed, advisory, rowLock>>

(* The statement that reads the tenant's count and sums, all in one snapshot. *)
Read(s) ==
  /\ txn[s].at = "read"
  /\ txn' = [txn EXCEPT ![s].at = "apply",
                        ![s].saw = Sums]
  /\ UNCHANGED <<dataVars, lapsed, advisory, rowLock>>

(* The connection is lost, a statement fails, or the process dies. *)
Abort(s) == txn[s] # Idle /\ Rollback(s)

--------------------------------------------------------------------------------
(* Writes *)

Unclaimed(l) == l \notin claimTable

PutRow(l, row) == table' = [table EXCEPT ![l] = row]

Admits(s) ==
  LET l == txn[s].on IN
  /\ table[l] = NoRow
  /\ IF l \in Metered
     THEN txn[s].saw.used + 1 <= PgCeiling /\ txn[s].saw.cnt < PgCap
     ELSE Cardinality(ActiveRows) < PgCap

(* try_admit, try_admit_with_compute: an unmetered row is counted in the      *)
(* statement that inserts it.                                                 *)
CommitAdmit(s) ==
  /\ At(s, "admit", "apply") /\ Admits(s)
  /\ PutRow(txn[s].on, [NoRow EXCEPT !.state = "Pending", !.box = "marker"])
  /\ End(s)
  /\ UNCHANGED <<claimTable, accrual, baselined, grants, lapsed>>

RefuseAdmit(s) == At(s, "admit", "apply") /\ ~Admits(s) /\ Rollback(s)

LegalFrom(to) == IF to = "Held" THEN "Pending" ELSE "Held"

LegalTransition(s) == Unclaimed(txn[s].on) /\ table[txn[s].on].state = LegalFrom(txn[s].op)

(* transition: the first terminal state of a metered lease is charged in the  *)
(* same transaction.  The age of a row matters only while it is Pending.      *)
CommitTransition(s) ==
  LET l == txn[s].on
      to == txn[s].op
  IN  /\ to \in {"Held"} \cup PgEnds /\ txn[s].at = "apply" /\ LegalTransition(s)
      /\ \E used \in IF l \in Metered /\ to \in PgEnds THEN {0, 1} ELSE {0} :
           /\ PutRow(l, [table[l] EXCEPT !.state = to, !.charged = used, !.old = FALSE])
           /\ accrual' = accrual + used
      /\ End(s)
      /\ UNCHANGED <<claimTable, baselined, grants, lapsed>>

RefuseTransition(s) ==
  txn[s].op \in {"Held"} \cup PgEnds /\ txn[s].at = "apply" /\ ~LegalTransition(s) /\ Rollback(s)

(* bind_provider_ref: once, while the row is Pending. *)
CommitBind(s) ==
  LET l == txn[s].on IN
  /\ At(s, "bind", "apply")
  /\ IF Unclaimed(l) /\ table[l].state = "Pending"
     THEN PutRow(l, [table[l] EXCEPT !.box = "bound"])
     ELSE UNCHANGED table
  /\ End(s)
  /\ UNCHANGED <<claimTable, accrual, baselined, grants, lapsed>>

(* DELETE; the claim goes with the row. *)
Drop(l) == PutRow(l, NoRow) /\ claimTable' = claimTable \ {l}

Removable(s) ==
  LET l == txn[s].on IN
  /\ Unclaimed(l)
  /\ table[l].state = "Pending" \/ (txn[s].op = "remove" /\ l \notin Metered)

CommitRemove(s) ==
  /\ txn[s].op \in {"remove", "removePending"} /\ txn[s].at = "apply"
  /\ IF Removable(s) THEN Drop(txn[s].on) ELSE UNCHANGED <<table, claimTable>>
  /\ End(s)
  /\ UNCHANGED <<accrual, baselined, grants, lapsed>>

(* claim_one; a claim that is there already is returned again. *)
CommitClaim(s) ==
  LET l == txn[s].on IN
  /\ txn[s].op \in {"claim", "claimStale"} /\ txn[s].at = "apply"
  /\ claimTable' = IF table[l].state = "Pending" /\ (txn[s].op = "claim" \/ StaleRow(l))
                   THEN claimTable \cup {l} ELSE claimTable
  /\ End(s)
  /\ UNCHANGED <<table, accrual, baselined, grants, lapsed>>

(* finish_pending_cleanup *)
CommitFinish(s) ==
  LET l == txn[s].on IN
  /\ At(s, "finish", "apply")
  /\ IF table[l].state = "Pending" /\ l \in claimTable THEN Drop(l) ELSE UNCHANGED <<table, claimTable>>
  /\ End(s)
  /\ UNCHANGED <<accrual, baselined, grants, lapsed>>

--------------------------------------------------------------------------------
(* External compute (external_compute.rs) *)

(* initialize: the baseline is added to what is accrued, once. *)
CommitInitialize(s) ==
  /\ At(s, "initialize", "apply")
  /\ baselined' = TRUE
  /\ accrual' = IF baselined THEN accrual ELSE txn[s].saw.accrued + Baseline
  /\ End(s)
  /\ UNCHANGED <<table, claimTable, grants, lapsed>>

PutGrant(g, state) == grants' = [grants EXCEPT ![g].state = state]

CanReserve(s) ==
  LET g == txn[s].on IN
  grants[g].state = "none" /\ g \notin lapsed /\ baselined /\ txn[s].saw.used + 1 <= PgCeiling

(* reserve; a repeated call returns the row, a cancelled id stays cancelled. *)
CommitReserve(s) ==
  /\ At(s, "reserve", "apply")
  /\ IF CanReserve(s) THEN PutGrant(txn[s].on, "prepared") ELSE UNCHANGED grants
  /\ End(s)
  /\ UNCHANGED <<table, claimTable, accrual, baselined, lapsed>>

(* transition of external_compute.rs: a cancel without a row leaves a         *)
(* tombstone, so that a late reserve finds it.                                *)
CommitGrantTransition(s) ==
  LET g == txn[s].on
      to == txn[s].op
      legal == \/ to = "cancelled" /\ grants[g].state \in {"none", "prepared"}
               \/ to = "active" /\ grants[g].state = "prepared" /\ g \notin lapsed
  IN  /\ to \in {"active", "cancelled"} /\ txn[s].at = "apply"
      /\ IF legal THEN PutGrant(g, to) ELSE UNCHANGED grants
      /\ End(s)
      /\ UNCHANGED <<table, claimTable, accrual, baselined, lapsed>>

(* Mutant: a settlement that is sent again is charged again. *)
CommitSettleRepeated(s) ==
  LET g == txn[s].on IN
  /\ At(s, "settle", "apply") /\ grants[g].state \in {"active", "settled"}
  /\ \E actual \in 0..MaxActual :
       /\ grants' = [grants EXCEPT ![g] = [state |-> "settled", actual |-> actual]]
       /\ accrual' = txn[s].saw.accrued + actual
  /\ End(s)
  /\ UNCHANGED <<table, claimTable, baselined, lapsed>>

(* settle writes the sum it read plus the actual use. *)
CommitSettle(s) ==
  LET g == txn[s].on IN
  /\ At(s, "settle", "apply")
  /\ IF grants[g].state = "active"
     THEN \E actual \in 0..MaxActual :
            /\ grants' = [grants EXCEPT ![g] = [state |-> "settled", actual |-> actual]]
            /\ accrual' = txn[s].saw.accrued + actual
     ELSE UNCHANGED <<grants, accrual>>
  /\ End(s)
  /\ UNCHANGED <<table, claimTable, baselined, lapsed>>

--------------------------------------------------------------------------------
(* Time passes: a Pending row falls behind the cutoff, a grant expires. *)
RowAges(l) ==
  /\ table[l].state = "Pending" /\ ~table[l].old
  /\ PutRow(l, [table[l] EXCEPT !.old = TRUE])
  /\ UNCHANGED <<claimTable, accrual, baselined, grants, lapsed, advisory, rowLock, txn>>

GrantLapses(g) ==
  /\ g \notin lapsed
  /\ lapsed' = lapsed \cup {g}
  /\ UNCHANGED <<dataVars, advisory, rowLock, txn>>

SessionStep(s) ==
  \/ TakeAdvisory(s) \/ TakeRow(s) \/ Read(s)
  \/ CommitAdmit(s) \/ RefuseAdmit(s) \/ CommitTransition(s) \/ RefuseTransition(s)
  \/ CommitBind(s) \/ CommitRemove(s) \/ CommitClaim(s) \/ CommitFinish(s)
  \/ CommitInitialize(s) \/ CommitReserve(s) \/ CommitGrantTransition(s) \/ CommitSettle(s)

PgNext ==
  \/ \E s \in Sessions :
       \/ \E l \in PgLeases : BeginAdmit(s, l) \/ \E op \in LeaseOps : BeginOnLease(s, op, l)
       \/ \E g \in Grants, op \in GrantOps : BeginOnGrant(s, op, g)
       \/ BeginInitialize(s)
       \/ SessionStep(s) \/ Abort(s)
  \/ \E l \in PgLeases : RowAges(l)
  \/ \E g \in Grants : GrantLapses(g)

PgSpec == PgInit /\ [][PgNext]_pgVars

--------------------------------------------------------------------------------
(* Properties *)

PgTypeOK ==
  /\ \A l \in PgLeases : /\ table[l].state \in {"none", "Pending", "Held"} \cup PgEnds
                         /\ rowLock[l] \in Sessions \cup {Nobody}
  /\ claimTable \subseteq PgLeases
  /\ accrual \in Nat
  /\ advisory \in Sessions \cup {Nobody}
  /\ \A s \in Sessions : txn[s].at \in {"idle", "advisory", "row", "read", "apply"}

(* What the tenant's external compute used beyond what was reserved for it. *)
Overrun ==
  (IF baselined THEN Baseline ELSE 0)
    + SumFunctionOnSet([g \in Grants |-> IF grants[g].actual > 1 THEN grants[g].actual - 1 ELSE 0], Grants)

(* However admissions, transitions and external reservations of a tenant      *)
(* interleave on their connections, the tenant has no more active leases than *)
(* its cap, and what it used and reserved passes the ceiling only by what the *)
(* outside reported: no two of them were decided on the same sums.            *)
AdmissionIsSerialized ==
  /\ Cardinality(ActiveRows) <= PgCap
  /\ accrual + Reserved <= PgCeiling + Overrun

(* No charge is lost and none is made twice: the accrued sum, which           *)
(* transitions add to and settlements and baselines overwrite, is the sum of  *)
(* what was charged.                                                          *)
AccrualExact ==
  accrual = (IF baselined THEN Baseline ELSE 0)
              + SumFunctionOnSet([l \in PgLeases |-> table[l].charged], PgLeases)
              + SumFunctionOnSet([g \in Grants |-> grants[g].actual], Grants)

(* A claimed row is Pending until finish deletes both: no transition, bind or *)
(* removal gets between a cleanup and its row, and no claim outlives one.     *)
PgClaimFence == \A l \in claimTable : table[l].state = "Pending"

(* Two sessions never wait for each other's locks. *)
LocksNeverCycle ==
  ~ \E s, r \in Sessions :
      /\ txn[s].at = "row" /\ rowLock[txn[s].on] = r
      /\ txn[r].at = "advisory" /\ advisory = s

(* Transactions of a tenant that interleave on their connections never pass   *)
(* cap or ceiling together, never get between a cleanup and the row it        *)
(* claimed, and never wait for each other's locks.                            *)
PgLedgerIsSerial == AdmissionIsSerialized /\ PgClaimFence /\ LocksNeverCycle
===============================================================================
