--------------------------- MODULE SharedStateProofs ---------------------------
(****************************************************************************)
(* Machine-checked proofs about what the instances of the fabric share: the   *)
(* Postgres ledger, the suspension outbox and the routing of leases, for      *)
(* every number of connections, leases, grants, issuers and shards.           *)
(*                                                                           *)
(* The ledger's invariant ties the locks to the statements: the sums a        *)
(* session has read are still the current ones when it writes, because every  *)
(* write that changes them needs the tenant's advisory lock, which the reader *)
(* has.  The outbox's invariant orders the generations: events up to the      *)
(* current one, below it once the tenant is resumed, and the Worker's floor   *)
(* between the delivered and the current.                                     *)
(****************************************************************************)
EXTENDS PgLedger, SuspensionOutbox, ShardRouting, FiniteSums

--------------------------------------------------------------------------------
(* The Postgres ledger *)

(* A row of the leases table, a session and a grant. *)
PgRow == [state : {"none", "Pending", "Held"} \cup PgEnds, box : {"none", "marker", "bound"},
          old : BOOLEAN, charged : Nat]

PgTxn == [op  : LeaseOps \cup GrantOps \cup {"admit", "initialize", "none"},
          on  : PgLeases \cup Grants \cup {"none"},
          at  : {"idle", "advisory", "row", "read", "apply"},
          saw : [cnt : Nat, used : Nat, accrued : Nat]]

PgGrant == [state : {"none", "prepared", "active", "cancelled", "settled"}, actual : Nat]

(* The tables, and the sessions with their locks. *)
DataTypes ==
  /\ table \in [PgLeases -> PgRow]
  /\ claimTable \subseteq PgLeases
  /\ accrual \in Nat
  /\ baselined \in BOOLEAN
  /\ grants \in [Grants -> PgGrant]

SessionTypes ==
  /\ advisory \in Sessions \cup {Nobody}
  /\ rowLock \in [PgLeases -> Sessions \cup {Nobody}]
  /\ txn \in [Sessions -> PgTxn]

(* Which locks a session has at which statement. *)
SessionLocks(s) ==
  /\ txn[s].op \in LeaseOps \cup {"admit"} => txn[s].on \in PgLeases
  /\ txn[s].op \in GrantOps => txn[s].on \in Grants
  /\ txn[s].at = "row" => txn[s].op \in LeaseOps
  /\ txn[s].at = "read" => txn[s].op \notin LeaseOps
  /\ txn[s].at = "apply" /\ txn[s].op \in LeaseOps => rowLock[txn[s].on] = s
  /\ txn[s].at \in {"row", "apply"} /\ txn[s].on \in Metered => advisory = s
  /\ txn[s].at \in {"read", "apply"} /\ txn[s].op \notin LeaseOps => advisory = s
  /\ advisory = s => txn[s].at \in {"row", "read", "apply"}
  /\ \A l \in PgLeases : rowLock[l] = s => txn[s].at = "apply" /\ txn[s].op \in LeaseOps

LockInv == \A s \in Sessions : SessionLocks(s)

(* Money: only an ended metered lease, and only a settled grant, was charged. *)
ChargeInv ==
  /\ \A l \in PgLeases : table[l].state \notin PgEnds \/ l \notin Metered => table[l].charged = 0
  /\ \A g \in Grants : grants[g].state # "settled" => grants[g].actual = 0

(* What a session has read under the tenant's lock is still so. *)
ReadInv ==
  \A s \in Sessions : txn[s].at = "apply" /\ txn[s].op \notin LeaseOps =>
     /\ Cardinality(ActiveRows) <= txn[s].saw.cnt
     /\ txn[s].saw.used = accrual + Reserved
     /\ txn[s].saw.accrued = accrual

(* The inductive invariant of the Postgres ledger. *)
PgInv ==
  /\ DataTypes /\ SessionTypes /\ LockInv /\ ChargeInv /\ ReadInv
  /\ AdmissionIsSerialized /\ AccrualExact /\ PgClaimFence

--------------------------------------------------------------------------------
(* The operations of the pool have different names, and no end is a live      *)
(* state.                                                                     *)
LEMMA OpsDiffer ==
  /\ {"admit", "initialize", "none"} \cap (LeaseOps \cup GrantOps) = {}
  /\ LeaseOps \cap GrantOps = {}
  /\ PgEnds \cap {"none", "Pending", "Held"} = {}
  /\ PgEnds \subseteq LeaseOps
  BY PgAssumption DEF LeaseOps, GrantOps

(* A connection between two transactions. *)
LEMMA IdleType == Idle \in PgTxn /\ Idle.at = "idle" /\ Idle.op = "none" /\ Idle.on = "none"
  BY DEF Idle, PgTxn

(* A row that is not there was not charged. *)
LEMMA RowTypes ==
  /\ NoRow \in PgRow /\ NoRow.state = "none" /\ NoRow.charged = 0
  BY DEF NoRow, PgRow

--------------------------------------------------------------------------------
(* Counts *)

(* The grants that reserve compute. *)
LiveGrants == {g \in Grants : grants[g].state \in {"prepared", "active"}}

(* One more element raises the count by one, and the count of the metered     *)
(* ones if it is metered.                                                     *)
LEMMA CountAdd ==
  ASSUME NEW S, NEW M, NEW l, IsFiniteSet(S), l \notin S
  PROVE  /\ Cardinality(S \cup {l}) = Cardinality(S) + 1
         /\ l \in M => Cardinality((S \cup {l}) \cap M) = Cardinality(S \cap M) + 1
         /\ l \notin M => (S \cup {l}) \cap M = S \cap M
         /\ Cardinality(S) \in Nat /\ Cardinality(S \cap M) \in Nat
<1>1. IsFiniteSet(S \cap M)
  BY FS_Subset
<1>2. Cardinality(S) \in Nat /\ Cardinality(S \cap M) \in Nat
  BY <1>1, FS_CardinalityType
<1>3. Cardinality(S \cup {l}) = Cardinality(S) + 1
  BY FS_AddElement
<1>4. CASE l \in M
  <2>1. (S \cup {l}) \cap M = (S \cap M) \cup {l} /\ l \notin S \cap M
    BY <1>4
  <2> QED
    BY <1>1, <1>2, <1>3, <1>4, <2>1, FS_AddElement
<1>5. CASE l \notin M
  <2>1. (S \cup {l}) \cap M = S \cap M
    BY <1>5
  <2> QED
    BY <1>2, <1>3, <1>5, <2>1
<1> QED
  BY <1>4, <1>5

(* One element less lowers both counts the same way. *)
LEMMA CountDrop ==
  ASSUME NEW S, NEW M, NEW l, IsFiniteSet(S), l \in S
  PROVE  /\ Cardinality(S) = Cardinality(S \ {l}) + 1
         /\ l \in M => Cardinality(S \cap M) = Cardinality((S \ {l}) \cap M) + 1
         /\ l \notin M => (S \ {l}) \cap M = S \cap M
         /\ Cardinality(S \ {l}) \in Nat /\ Cardinality((S \ {l}) \cap M) \in Nat
<1>1. PICK R : R = S \ {l}
  OBVIOUS
<1>2. IsFiniteSet(R) /\ l \notin R
  BY <1>1, FS_RemoveElement
<1>3. R \cup {l} = S
  BY <1>1
<1>4. /\ Cardinality(R \cup {l}) = Cardinality(R) + 1
      /\ l \in M => Cardinality((R \cup {l}) \cap M) = Cardinality(R \cap M) + 1
      /\ Cardinality(R) \in Nat /\ Cardinality(R \cap M) \in Nat
  BY <1>2, CountAdd
<1>5. l \notin M => R \cap M = S \cap M
  BY <1>1
<1> QED
  BY <1>1, <1>3, <1>4, <1>5

(* The counts the ledger reads (its counts and sums) are natural numbers. *)
LEMMA CountsTyped ==
         /\ IsFiniteSet(ActiveRows) /\ IsFiniteSet(LiveGrants)
         /\ Cardinality(ActiveRows) \in Nat
         /\ Cardinality(ActiveRows \cap Metered) \in Nat
         /\ Cardinality(LiveGrants) \in Nat
         /\ Reserved = Cardinality(ActiveRows \cap Metered) + Cardinality(LiveGrants)
         /\ Reserved \in Nat
<1>1. IsFiniteSet(ActiveRows) /\ IsFiniteSet(LiveGrants) /\ IsFiniteSet(ActiveRows \cap Metered)
  BY PgAssumption, FS_Subset DEF ActiveRows, LiveGrants
<1>2. /\ Cardinality(ActiveRows) \in Nat
      /\ Cardinality(ActiveRows \cap Metered) \in Nat
      /\ Cardinality(LiveGrants) \in Nat
  BY <1>1, FS_CardinalityType
<1>3. Reserved = Cardinality(ActiveRows \cap Metered) + Cardinality(LiveGrants)
  BY DEF Reserved, LiveGrants
<1> QED
  BY <1>1, <1>2, <1>3

--------------------------------------------------------------------------------
(* Sums *)

(* What was charged to leases and to grants, what grants used beyond the one *)
(* unit they had reserved, and the baseline.                                  *)
Charged(tb) == SumFunctionOnSet([l \in PgLeases |-> tb[l].charged], PgLeases)

Used(gr) == SumFunctionOnSet([g \in Grants |-> gr[g].actual], Grants)

Excess(a) == IF a > 1 THEN a - 1 ELSE 0

Over(gr) == SumFunctionOnSet([g \in Grants |-> Excess(gr[g].actual)], Grants)

Base == IF baselined THEN Baseline ELSE 0

(* Rows that keep their charges keep their sum. *)
LEMMA ChargedSame ==
  ASSUME NEW tb, NEW tb2, \A l \in PgLeases : tb[l].charged \in Nat /\ tb2[l].charged = tb[l].charged
  PROVE  Charged(tb2) = Charged(tb) /\ Charged(tb) \in Nat
<1>1. IsFiniteSet(PgLeases)
  BY PgAssumption
<1> QED
  BY <1>1, SumSame, SumNat DEF Charged

(* A charge written to one row that had none raises the sum by that charge. *)
LEMMA ChargedAdds ==
  ASSUME NEW tb, NEW tb2, NEW l \in PgLeases, \A k \in PgLeases : tb[k].charged \in Nat,
         tb[l].charged = 0, tb2[l].charged \in Nat,
         \A k \in PgLeases \ {l} : tb2[k].charged = tb[k].charged
  PROVE  /\ Charged(tb2) = Charged(tb) + tb2[l].charged
         /\ Charged(tb) \in Nat /\ Charged(tb2) \in Nat
<1> DEFINE f == [k \in PgLeases |-> tb[k].charged]
           f2 == [k \in PgLeases |-> tb2[k].charged]
<1>1. IsFiniteSet(PgLeases)
  BY PgAssumption
<1>2. /\ \A k \in PgLeases : f[k] \in Nat /\ f2[k] \in Nat
      /\ \A k \in PgLeases \ {l} : f2[k] = f[k]
      /\ f[l] = 0 /\ f2[l] = tb2[l].charged
  OBVIOUS
<1>3. Charged(tb) = SumFunctionOnSet(f, PgLeases) /\ Charged(tb2) = SumFunctionOnSet(f2, PgLeases)
  BY DEF Charged
<1> HIDE DEF f, f2
<1>4. SumFunctionOnSet(f, PgLeases) \in Nat /\ SumFunctionOnSet(f2, PgLeases) \in Nat
  BY <1>1, <1>2, SumNat
<1>5. SumFunctionOnSet(f2, PgLeases) + f[l] = SumFunctionOnSet(f, PgLeases) + f2[l]
  BY <1>1, <1>2, <1>4, SumUpdate
<1>6. SumFunctionOnSet(f2, PgLeases) = SumFunctionOnSet(f, PgLeases) + f2[l]
  BY <1>2, <1>4, <1>5
<1> QED
  BY <1>2, <1>3, <1>4, <1>6

(* Grants that keep their actual use keep both sums. *)
LEMMA UsedSame ==
  ASSUME NEW gr, NEW gr2, \A g \in Grants : gr[g].actual \in Nat /\ gr2[g].actual = gr[g].actual
  PROVE  /\ Used(gr2) = Used(gr) /\ Used(gr) \in Nat
         /\ Over(gr2) = Over(gr) /\ Over(gr) \in Nat
<1>1. IsFiniteSet(Grants)
  BY PgAssumption
<1>2. \A g \in Grants : Excess(gr[g].actual) \in Nat
  BY DEF Excess
<1>3. Used(gr2) = Used(gr) /\ Used(gr) \in Nat
  BY <1>1, SumSame, SumNat DEF Used
<1>4. Over(gr2) = Over(gr) /\ Over(gr) \in Nat
  BY <1>1, <1>2, SumSame, SumNat DEF Over
<1> QED
  BY <1>3, <1>4

(* A settlement written to one grant raises the sums by its actual use, and   *)
(* by what of it was not reserved.                                            *)
LEMMA UsedAdds ==
  ASSUME NEW gr, NEW gr2, NEW g \in Grants, \A k \in Grants : gr[k].actual \in Nat,
         gr[g].actual = 0, gr2[g].actual \in Nat,
         \A k \in Grants \ {g} : gr2[k].actual = gr[k].actual
  PROVE  /\ Used(gr2) = Used(gr) + gr2[g].actual
         /\ Used(gr) \in Nat /\ Used(gr2) \in Nat
         /\ Over(gr2) = Over(gr) + Excess(gr2[g].actual)
         /\ Over(gr) \in Nat /\ Over(gr2) \in Nat
<1>1. IsFiniteSet(Grants)
  BY PgAssumption
<1>a. ASSUME NEW f, NEW f2, \A k \in Grants : f[k] \in Nat /\ f2[k] \in Nat,
             f[g] = 0, \A k \in Grants \ {g} : f2[k] = f[k]
      PROVE  /\ SumFunctionOnSet(f2, Grants) = SumFunctionOnSet(f, Grants) + f2[g]
             /\ SumFunctionOnSet(f, Grants) \in Nat /\ SumFunctionOnSet(f2, Grants) \in Nat
  <2>4. SumFunctionOnSet(f, Grants) \in Nat /\ SumFunctionOnSet(f2, Grants) \in Nat
    BY <1>1, <1>a, SumNat
  <2>5. SumFunctionOnSet(f2, Grants) + f[g] = SumFunctionOnSet(f, Grants) + f2[g]
    BY <1>1, <1>a, <2>4, SumUpdate
  <2> QED
    BY <1>a, <2>4, <2>5
<1>2. \A k \in Grants : gr2[k].actual \in Nat
  OBVIOUS
<1>3. /\ Used(gr2) = Used(gr) + gr2[g].actual
      /\ Used(gr) \in Nat /\ Used(gr2) \in Nat
  <2> DEFINE f == [k \in Grants |-> gr[k].actual]
             f2 == [k \in Grants |-> gr2[k].actual]
  <2>1. /\ \A k \in Grants : f[k] \in Nat /\ f2[k] \in Nat
        /\ f[g] = 0 /\ f2[g] = gr2[g].actual
        /\ \A k \in Grants \ {g} : f2[k] = f[k]
    BY <1>2
  <2>2. Used(gr) = SumFunctionOnSet(f, Grants) /\ Used(gr2) = SumFunctionOnSet(f2, Grants)
    BY DEF Used
  <2> HIDE DEF f, f2
  <2>3. /\ SumFunctionOnSet(f2, Grants) = SumFunctionOnSet(f, Grants) + f2[g]
        /\ SumFunctionOnSet(f, Grants) \in Nat /\ SumFunctionOnSet(f2, Grants) \in Nat
    BY <1>a, <2>1
  <2> QED
    BY <2>1, <2>2, <2>3
<1>4. /\ Over(gr2) = Over(gr) + Excess(gr2[g].actual)
      /\ Over(gr) \in Nat /\ Over(gr2) \in Nat
  <2> DEFINE f == [k \in Grants |-> Excess(gr[k].actual)]
             f2 == [k \in Grants |-> Excess(gr2[k].actual)]
  <2>1. /\ \A k \in Grants : f[k] \in Nat /\ f2[k] \in Nat
        /\ f[g] = 0 /\ f2[g] = Excess(gr2[g].actual)
        /\ \A k \in Grants \ {g} : f2[k] = f[k]
    BY <1>2 DEF Excess
  <2>2. Over(gr) = SumFunctionOnSet(f, Grants) /\ Over(gr2) = SumFunctionOnSet(f2, Grants)
    BY DEF Over
  <2> HIDE DEF f, f2
  <2>3. /\ SumFunctionOnSet(f2, Grants) = SumFunctionOnSet(f, Grants) + f2[g]
        /\ SumFunctionOnSet(f, Grants) \in Nat /\ SumFunctionOnSet(f2, Grants) \in Nat
    BY <1>a, <2>1
  <2> QED
    BY <2>1, <2>2, <2>3
<1> QED
  BY <1>3, <1>4

--------------------------------------------------------------------------------
(* Locks *)

(* COMMIT and ROLLBACK leave every other session with its locks. *)
LEMMA EndLocks ==
  ASSUME SessionTypes, LockInv, NEW s \in Sessions, End(s)
  PROVE  /\ LockInv'
         /\ advisory' \in Sessions \cup {Nobody}
         /\ rowLock' \in [PgLeases -> Sessions \cup {Nobody}]
         /\ txn' \in [Sessions -> PgTxn]
         /\ txn'[s] = Idle
         /\ \A r \in Sessions \ {s} : txn'[r] = txn[r]
<1>1. /\ txn' = [txn EXCEPT ![s] = Idle]
      /\ advisory' = IF advisory = s THEN Nobody ELSE advisory
      /\ rowLock' = [l \in PgLeases |-> IF rowLock[l] = s THEN Nobody ELSE rowLock[l]]
  BY DEF End
<1>2. /\ txn' \in [Sessions -> PgTxn] /\ txn'[s] = Idle
      /\ \A r \in Sessions \ {s} : txn'[r] = txn[r]
  BY <1>1, IdleType DEF SessionTypes
<1>3. /\ advisory' \in Sessions \cup {Nobody}
      /\ rowLock' \in [PgLeases -> Sessions \cup {Nobody}]
  BY <1>1 DEF SessionTypes
<1>4. Nobody \notin Sessions
  BY PgAssumption DEF Nobody
<1>5. ASSUME NEW r \in Sessions PROVE SessionLocks(r)'
  <2>1. CASE r = s
    <3>1. advisory' # s /\ \A l \in PgLeases : rowLock'[l] # s
      BY <1>1, <1>4
    <3> QED
      BY <1>2, <2>1, <3>1, IdleType, OpsDiffer DEF SessionLocks
  <2>2. CASE r # s
    <3>1. /\ txn'[r] = txn[r] /\ (advisory = r => advisory' = r) /\ (advisory' = r => advisory = r)
          /\ \A l \in PgLeases : rowLock'[l] = r <=> rowLock[l] = r
      BY <1>1, <1>2, <1>4, <2>2
    <3>2. SessionLocks(r)
      BY DEF LockInv
    <3> QED
      BY <3>1, <3>2 DEF SessionLocks
  <2> QED
    BY <2>1, <2>2
<1> QED
  BY <1>2, <1>3, <1>5 DEF LockInv

(* A step of one session that moves no lock of another's keeps the            *)
(* discipline.                                                                *)
LEMMA StepLocks ==
  ASSUME SessionTypes, LockInv, NEW s \in Sessions, NEW t \in PgTxn, txn' = [txn EXCEPT ![s] = t],
         advisory' \in Sessions \cup {Nobody},
         rowLock' \in [PgLeases -> Sessions \cup {Nobody}],
         \A r \in Sessions \ {s} : /\ advisory' = r <=> advisory = r
                                   /\ \A l \in PgLeases : rowLock'[l] = r <=> rowLock[l] = r,
         SessionLocks(s)'
  PROVE  /\ LockInv'
         /\ txn' \in [Sessions -> PgTxn]
         /\ txn'[s] = t
         /\ \A r \in Sessions \ {s} : txn'[r] = txn[r]
<1>1. /\ txn' \in [Sessions -> PgTxn] /\ txn'[s] = t
      /\ \A r \in Sessions \ {s} : txn'[r] = txn[r]
  BY DEF SessionTypes
<1>2. ASSUME NEW r \in Sessions \ {s} PROVE SessionLocks(r)'
  <2>1. SessionLocks(r)
    BY DEF LockInv
  <2> QED
    BY <1>1, <2>1 DEF SessionLocks
<1> QED
  BY <1>1, <1>2 DEF LockInv

--------------------------------------------------------------------------------
(* Steps that write no data *)

(* What a session read under the tenant's lock stays so while others step:    *)
(* they would need the lock to change it.                                     *)
LEMMA ReadsStay ==
  ASSUME PgInv, NEW s \in Sessions, \A r \in Sessions \ {s} : txn'[r] = txn[r],
         txn'[s].at = "apply" => txn'[s].op \in LeaseOps,
         advisory # s => /\ accrual' = accrual /\ Reserved' = Reserved
                         /\ Cardinality(ActiveRows') <= Cardinality(ActiveRows)
  PROVE  ReadInv'
<1> SUFFICES ASSUME NEW r \in Sessions, txn'[r].at = "apply", txn'[r].op \notin LeaseOps
             PROVE  /\ Cardinality(ActiveRows') <= txn'[r].saw.cnt
                    /\ txn'[r].saw.used = accrual' + Reserved'
                    /\ txn'[r].saw.accrued = accrual'
  BY DEF ReadInv
<1>1. r # s /\ txn'[r] = txn[r]
  OBVIOUS
<1>2. advisory = r
  BY <1>1 DEF PgInv, LockInv, SessionLocks
<1>3. /\ Cardinality(ActiveRows) <= txn[r].saw.cnt
      /\ txn[r].saw.used = accrual + Reserved
      /\ txn[r].saw.accrued = accrual
  BY <1>1 DEF PgInv, ReadInv
<1>4. /\ accrual' = accrual /\ Reserved' = Reserved
      /\ Cardinality(ActiveRows') <= Cardinality(ActiveRows)
  BY <1>1, <1>2
<1>5. IsFiniteSet(ActiveRows')
  BY PgAssumption, FS_Subset DEF ActiveRows
<1>6. Cardinality(ActiveRows') \in Nat /\ Cardinality(ActiveRows) \in Nat /\ txn[r].saw.cnt \in Nat
  BY <1>5, CountsTyped, FS_CardinalityType DEF PgInv, SessionTypes, PgTxn
<1>7. Cardinality(ActiveRows') <= txn[r].saw.cnt
  BY <1>3, <1>4, <1>6
<1> QED
  BY <1>1, <1>3, <1>4, <1>7

(* What the tables satisfy between transactions. *)
DataInv == DataTypes /\ ChargeInv /\ AdmissionIsSerialized /\ AccrualExact /\ PgClaimFence

(* A step that writes no table keeps what holds of the tables. *)
LEMMA DataStays ==
  ASSUME PgInv, UNCHANGED dataVars
  PROVE  /\ DataInv'
         /\ accrual' = accrual /\ Reserved' = Reserved /\ ActiveRows' = ActiveRows
         /\ Cardinality(ActiveRows') <= Cardinality(ActiveRows)
<1>1. UNCHANGED <<table, claimTable, accrual, baselined, grants>>
  BY DEF dataVars
<1>2. /\ accrual' = accrual /\ Reserved' = Reserved /\ ActiveRows' = ActiveRows
  BY <1>1 DEF Reserved, ActiveRows
<1>3. Cardinality(ActiveRows') <= Cardinality(ActiveRows)
  BY <1>2, CountsTyped
<1>4. DataTypes' /\ ChargeInv' /\ PgClaimFence'
  BY <1>1 DEF PgInv, DataTypes, ChargeInv, PgClaimFence
<1>5. AdmissionIsSerialized' /\ AccrualExact'
  BY <1>1, <1>2 DEF PgInv, AdmissionIsSerialized, AccrualExact, Overrun
<1> QED
  BY <1>2, <1>3, <1>4, <1>5 DEF DataInv

(* COMMIT, for a session that has the tenant's lock or touched nothing a      *)
(* reader of the sums relies on.                                              *)
LEMMA CommitInv ==
  ASSUME PgInv, NEW s \in Sessions, End(s), DataInv',
         advisory # s => /\ accrual' = accrual /\ Reserved' = Reserved
                         /\ Cardinality(ActiveRows') <= Cardinality(ActiveRows)
  PROVE  PgInv'
<1>1. /\ LockInv' /\ SessionTypes' /\ txn'[s] = Idle
      /\ \A r \in Sessions \ {s} : txn'[r] = txn[r]
  BY EndLocks DEF PgInv, SessionTypes
<1>2. ReadInv'
  BY <1>1, ReadsStay, IdleType
<1> QED
  BY <1>1, <1>2 DEF PgInv, DataInv

(* ROLLBACK releases locks and writes nothing. *)
LEMMA RollbackInv ==
  ASSUME PgInv, NEW s \in Sessions, Rollback(s)
  PROVE  PgInv'
  BY DataStays, CommitInv DEF Rollback

(* A statement that begins, takes a lock or waits for one. *)
LEMMA QuietInv ==
  ASSUME PgInv, NEW s \in Sessions, NEW t \in PgTxn, txn' = [txn EXCEPT ![s] = t],
         t.at = "apply" => t.op \in LeaseOps,
         UNCHANGED dataVars,
         advisory' \in Sessions \cup {Nobody},
         rowLock' \in [PgLeases -> Sessions \cup {Nobody}],
         \A r \in Sessions \ {s} : /\ advisory' = r <=> advisory = r
                                   /\ \A l \in PgLeases : rowLock'[l] = r <=> rowLock[l] = r,
         SessionLocks(s)'
  PROVE  PgInv'
<1>1. /\ LockInv' /\ txn' \in [Sessions -> PgTxn] /\ txn'[s] = t
      /\ \A r \in Sessions \ {s} : txn'[r] = txn[r]
  BY StepLocks DEF PgInv
<1>2. /\ DataInv'
      /\ accrual' = accrual /\ Reserved' = Reserved
      /\ Cardinality(ActiveRows') <= Cardinality(ActiveRows)
  BY DataStays
<1>3. ReadInv'
  BY <1>1, <1>2, ReadsStay
<1> QED
  BY <1>1, <1>2, <1>3 DEF PgInv, DataInv, SessionTypes

(* A session that begins has no lock yet. *)
LEMMA BeginInv ==
  ASSUME PgInv, NEW s \in Sessions, NEW t \in PgTxn, txn[s] = Idle,
         txn' = [txn EXCEPT ![s] = t], t.at \in {"advisory", "row"},
         t.op \in LeaseOps \cup {"admit"} => t.on \in PgLeases,
         t.op \in GrantOps => t.on \in Grants,
         t.at = "row" => t.op \in LeaseOps /\ t.on \notin Metered,
         UNCHANGED <<dataVars, lapsed, advisory, rowLock>>
  PROVE  PgInv'
<1>1. advisory # s /\ \A l \in PgLeases : rowLock[l] # s
  BY IdleType DEF PgInv, LockInv, SessionLocks
<1>2. txn'[s] = t
  BY DEF PgInv, SessionTypes
<1>3. SessionLocks(s)'
  BY <1>1, <1>2 DEF SessionLocks
<1> QED
  BY <1>3, QuietInv DEF PgInv, SessionTypes

(* Every way an operation begins: admission, operation on a lease, grant,     *)
(* baseline.                                                                  *)
LEMMA BeginsInv ==
  ASSUME PgInv, NEW s \in Sessions,
         \/ \E l \in PgLeases : BeginAdmit(s, l) \/ \E op \in LeaseOps : BeginOnLease(s, op, l)
         \/ \E g \in Grants, op \in GrantOps : BeginOnGrant(s, op, g)
         \/ BeginInitialize(s)
  PROVE  PgInv'
<1>1. ASSUME NEW op, NEW on, NEW at, txn[s] = Idle,
             op \in LeaseOps \cup GrantOps \cup {"admit", "initialize", "none"},
             on \in PgLeases \cup Grants \cup {"none"}, at \in {"advisory", "row"},
             op \in LeaseOps \cup {"admit"} => on \in PgLeases,
             op \in GrantOps => on \in Grants,
             at = "row" => op \in LeaseOps /\ on \notin Metered,
             txn' = [txn EXCEPT ![s] = [Idle EXCEPT !.op = op, !.on = on, !.at = at]],
             UNCHANGED <<dataVars, lapsed, advisory, rowLock>>
      PROVE  PgInv'
  <2> DEFINE t == [Idle EXCEPT !.op = op, !.on = on, !.at = at]
  <2>1. t \in PgTxn /\ t.op = op /\ t.on = on /\ t.at = at
    BY <1>1 DEF Idle, PgTxn
  <2>2. txn' = [txn EXCEPT ![s] = t]
    BY <1>1
  <2> HIDE DEF t
  <2> QED
    BY <1>1, <2>1, <2>2, BeginInv
<1>2. ASSUME NEW l \in PgLeases, BeginAdmit(s, l) PROVE PgInv'
  BY <1>1, <1>2, OpsDiffer DEF BeginAdmit
<1>3. ASSUME NEW l \in PgLeases, NEW op \in LeaseOps, BeginOnLease(s, op, l) PROVE PgInv'
  <2>1. op \notin GrantOps
    BY OpsDiffer
  <2>2. FirstLock(op, l) \in {"advisory", "row"} /\ (FirstLock(op, l) = "row" => l \notin Metered)
    BY DEF FirstLock
  <2> QED
    BY <1>1, <1>3, <2>1, <2>2 DEF BeginOnLease
<1>4. ASSUME NEW g \in Grants, NEW op \in GrantOps, BeginOnGrant(s, op, g) PROVE PgInv'
  <2>1. op \notin LeaseOps \cup {"admit"}
    BY OpsDiffer
  <2> QED
    BY <1>1, <1>4, <2>1 DEF BeginOnGrant
<1>5. CASE BeginInitialize(s)
  <2> DEFINE t == [Idle EXCEPT !.op = "initialize", !.at = "advisory"]
  <2>1. t \in PgTxn /\ t.op = "initialize" /\ t.at = "advisory"
    BY DEF Idle, PgTxn
  <2>2. txn[s] = Idle /\ txn' = [txn EXCEPT ![s] = t] /\ UNCHANGED <<dataVars, lapsed, advisory, rowLock>>
    BY <1>5 DEF BeginInitialize
  <2> HIDE DEF t
  <2> QED
    BY <2>1, <2>2, BeginInv, OpsDiffer
<1> QED
  BY <1>2, <1>3, <1>4, <1>5

(* pg_advisory_xact_lock is taken before any row. *)
LEMMA TakeAdvisoryInv ==
  ASSUME PgInv, NEW s \in Sessions, TakeAdvisory(s)
  PROVE  PgInv'
<1> DEFINE at == IF txn[s].op \notin LeaseOps THEN "read"
                 ELSE IF rowLock[txn[s].on] = s THEN "apply" ELSE "row"
           t == [txn[s] EXCEPT !.at = at]
<1>1. /\ txn[s].at = "advisory" /\ advisory = Nobody /\ advisory' = s
      /\ UNCHANGED <<dataVars, lapsed, rowLock>>
  BY DEF TakeAdvisory
<1>2. /\ t \in PgTxn /\ t.op = txn[s].op /\ t.on = txn[s].on /\ t.at = at
      /\ t.saw = txn[s].saw
  BY DEF PgInv, SessionTypes, PgTxn
<1>3. txn' = [txn EXCEPT ![s] = t]
  BY DEF TakeAdvisory, Goes, PgInv, SessionTypes
<1>4. txn'[s] = t
  BY <1>3 DEF PgInv, SessionTypes
<1>5. at \in {"read", "apply", "row"} /\ (at # "read" => txn[s].op \in LeaseOps)
  OBVIOUS
<1>6. /\ at = "read" => txn[s].op \notin LeaseOps
      /\ at = "apply" => rowLock[txn[s].on] = s
  OBVIOUS
<1>7. \A l \in PgLeases : rowLock[l] # s
  BY <1>1 DEF PgInv, LockInv, SessionLocks
<1>8. SessionLocks(s)
  BY DEF PgInv, LockInv
<1> HIDE DEF t, at
<1>9. SessionLocks(s)'
  BY <1>1, <1>2, <1>4, <1>5, <1>6, <1>7, <1>8 DEF SessionLocks
<1>10. \A r \in Sessions \ {s} : /\ advisory' = r <=> advisory = r
                                 /\ \A l \in PgLeases : rowLock'[l] = r <=> rowLock[l] = r
  BY <1>1, PgAssumption DEF Nobody
<1>11. UNCHANGED dataVars
  BY <1>1
<1>12. advisory' \in Sessions \cup {Nobody} /\ rowLock' \in [PgLeases -> Sessions \cup {Nobody}]
  BY <1>1 DEF PgInv, SessionTypes
<1>13. t.at = "apply" => t.op \in LeaseOps
  BY <1>2, <1>5
<1> QED
  BY <1>2, <1>3, <1>9, <1>10, <1>11, <1>12, <1>13, QuietInv

(* SELECT ... FOR UPDATE: a metered row is locked under the tenant's lock     *)
(* only.                                                                      *)
LEMMA TakeRowInv ==
  ASSUME PgInv, NEW s \in Sessions, TakeRow(s)
  PROVE  PgInv'
<1> DEFINE l == txn[s].on
           at == IF l \in Metered /\ advisory # s THEN "advisory" ELSE "apply"
           t == [txn[s] EXCEPT !.at = at]
<1>1. txn[s].at = "row" /\ rowLock[l] = Nobody
  BY DEF TakeRow
<1>2. CASE table[l] = NoRow
  BY <1>2, RollbackInv DEF TakeRow
<1>3. CASE table[l] # NoRow
  <2>1. /\ rowLock' = [rowLock EXCEPT ![l] = s]
        /\ UNCHANGED <<dataVars, lapsed, advisory>>
        /\ Goes(s, at)
    BY <1>3 DEF TakeRow
  <2>2. txn[s].op \in LeaseOps /\ l \in PgLeases /\ (l \in Metered => advisory = s)
    BY <1>1 DEF PgInv, LockInv, SessionLocks
  <2>3. at = "apply"
    BY <2>2
  <2>4. t \in PgTxn /\ t.op = txn[s].op /\ t.on = txn[s].on /\ t.at = "apply"
    BY <2>3 DEF PgInv, SessionTypes, PgTxn
  <2>5. txn' = [txn EXCEPT ![s] = t]
    BY <2>1 DEF Goes, PgInv, SessionTypes
  <2>6. txn'[s] = t
    BY <2>5 DEF PgInv, SessionTypes
  <2>7. rowLock'[l] = s /\ \A k \in PgLeases \ {l} : rowLock'[k] = rowLock[k]
    BY <2>1, <2>2 DEF PgInv, SessionTypes
  <2>8. rowLock' \in [PgLeases -> Sessions \cup {Nobody}] /\ advisory' \in Sessions \cup {Nobody}
    BY <2>1 DEF PgInv, SessionTypes
  <2>9. advisory' = advisory /\ UNCHANGED dataVars
    BY <2>1
  <2>10. SessionLocks(s)
    BY DEF PgInv, LockInv
  <2> HIDE DEF t, at
  <2>11. SessionLocks(s)'
    BY <1>1, <2>2, <2>4, <2>6, <2>7, <2>9, <2>10 DEF SessionLocks
  <2>12. \A r \in Sessions \ {s} : /\ advisory' = r <=> advisory = r
                                   /\ \A k \in PgLeases : rowLock'[k] = r <=> rowLock[k] = r
    BY <1>1, <2>2, <2>7, <2>9, PgAssumption DEF Nobody
  <2>13. t.at = "apply" => t.op \in LeaseOps
    BY <2>2, <2>4
  <2> QED
    BY <2>4, <2>5, <2>8, <2>9, <2>11, <2>12, <2>13, QuietInv
<1> QED
  BY <1>2, <1>3

(* The statement that reads the sums reads what is there. *)
LEMMA ReadStepInv ==
  ASSUME PgInv, NEW s \in Sessions, Read(s)
  PROVE  PgInv'
<1> DEFINE t == [txn[s] EXCEPT !.at = "apply", !.saw = Sums]
<1>1. /\ txn[s].at = "read"
      /\ UNCHANGED <<dataVars, lapsed, advisory, rowLock>>
  BY DEF Read
<1>2. txn' = [txn EXCEPT ![s] = t]
  BY DEF Read, PgInv, SessionTypes
<1>3. Sums \in [cnt : Nat, used : Nat, accrued : Nat]
  BY CountsTyped DEF Sums, PgInv, DataTypes
<1>4. /\ t \in PgTxn /\ t.op = txn[s].op /\ t.on = txn[s].on /\ t.at = "apply" /\ t.saw = Sums
  BY <1>3 DEF PgInv, SessionTypes, PgTxn
<1> HIDE DEF t
<1>5. txn'[s] = t /\ \A r \in Sessions \ {s} : txn'[r] = txn[r]
  BY <1>2 DEF PgInv, SessionTypes
<1>6. SessionLocks(s)
  BY DEF PgInv, LockInv
<1>7. SessionLocks(s)'
  BY <1>1, <1>4, <1>5, <1>6 DEF SessionLocks
<1>8. LockInv' /\ txn' \in [Sessions -> PgTxn]
  BY <1>1, <1>2, <1>4, <1>7, StepLocks DEF PgInv, SessionTypes
<1>9. /\ DataInv'
      /\ accrual' = accrual /\ Reserved' = Reserved /\ ActiveRows' = ActiveRows
  BY <1>1, DataStays
<1>10. ReadInv'
  <2> SUFFICES ASSUME NEW r \in Sessions, txn'[r].at = "apply", txn'[r].op \notin LeaseOps
               PROVE  /\ Cardinality(ActiveRows) <= txn'[r].saw.cnt
                      /\ txn'[r].saw.used = accrual + Reserved
                      /\ txn'[r].saw.accrued = accrual
    BY <1>9 DEF ReadInv
  <2>1. CASE r = s
    BY <1>4, <1>5, <2>1, CountsTyped DEF Sums
  <2>2. CASE r # s
    BY <1>5, <2>2 DEF PgInv, ReadInv
  <2> QED
    BY <2>1, <2>2
<1> QED
  BY <1>1, <1>8, <1>9, <1>10 DEF PgInv, DataInv, SessionTypes

--------------------------------------------------------------------------------
(* Writes *)

(* The sums behind the accounting properties are natural numbers. *)
LEMMA MoneyTyped ==
  ASSUME DataTypes
  PROVE  /\ Base \in Nat /\ Charged(table) \in Nat /\ Used(grants) \in Nat /\ Over(grants) \in Nat
         /\ Overrun = Base + Over(grants)
         /\ AccrualExact <=> accrual = Base + Charged(table) + Used(grants)
         /\ \A l \in PgLeases : table[l].charged \in Nat
         /\ \A g \in Grants : grants[g].actual \in Nat
<1>1. \A l \in PgLeases : table[l].charged \in Nat
  BY DEF DataTypes, PgRow
<1>2. \A g \in Grants : grants[g].actual \in Nat
  BY DEF DataTypes, PgGrant
<1>3. Charged(table) \in Nat
  BY <1>1, ChargedSame
<1>4. Used(grants) \in Nat /\ Over(grants) \in Nat
  BY <1>2, UsedSame
<1>5. Base \in Nat
  BY PgAssumption DEF Base
<1>6. Overrun = Base + Over(grants)
  BY DEF Overrun, Base, Over, Excess
<1>7. AccrualExact <=> accrual = Base + Charged(table) + Used(grants)
  BY DEF AccrualExact, Base, Charged, Used
<1> QED
  BY <1>1, <1>2, <1>3, <1>4, <1>5, <1>6, <1>7

(* A write to one row, and what it does to the set of active rows. *)
LEMMA RowEffect ==
  ASSUME DataTypes, NEW l \in PgLeases, NEW row \in PgRow, PutRow(l, row)
  PROVE  /\ table' \in [PgLeases -> PgRow]
         /\ table'[l] = row
         /\ \A k \in PgLeases \ {l} : table'[k] = table[k]
         /\ row.state \in {"Pending", "Held"} => ActiveRows' = ActiveRows \cup {l}
         /\ row.state \notin {"Pending", "Held"} => ActiveRows' = ActiveRows \ {l}
<1>1. /\ table' \in [PgLeases -> PgRow]
      /\ table'[l] = row
      /\ \A k \in PgLeases \ {l} : table'[k] = table[k]
  BY DEF DataTypes, PutRow
<1>2. row.state \in {"Pending", "Held"} => ActiveRows' = ActiveRows \cup {l}
  BY <1>1 DEF ActiveRows
<1>3. row.state \notin {"Pending", "Held"} => ActiveRows' = ActiveRows \ {l}
  BY <1>1 DEF ActiveRows
<1> QED
  BY <1>1, <1>2, <1>3

(* A write that activates no row and moves no money keeps cap, ceiling and    *)
(* accrual.                                                                   *)
LEMMA Shrinks ==
  ASSUME PgInv, table' \in [PgLeases -> PgRow], UNCHANGED <<accrual, baselined, grants>>,
         \A l \in PgLeases : table'[l].charged = table[l].charged,
         ActiveRows' \subseteq ActiveRows
  PROVE  /\ AdmissionIsSerialized' /\ AccrualExact'
         /\ Cardinality(ActiveRows') <= Cardinality(ActiveRows)
         /\ ActiveRows' \cap Metered = ActiveRows \cap Metered => Reserved' = Reserved
<1>1. /\ IsFiniteSet(ActiveRows) /\ IsFiniteSet(ActiveRows \cap Metered)
      /\ Cardinality(ActiveRows) \in Nat /\ Cardinality(ActiveRows \cap Metered) \in Nat
      /\ Cardinality(LiveGrants) \in Nat
      /\ Reserved = Cardinality(ActiveRows \cap Metered) + Cardinality(LiveGrants)
  BY CountsTyped, FS_Subset
<1>2. /\ Cardinality(ActiveRows') <= Cardinality(ActiveRows)
      /\ Cardinality(ActiveRows') \in Nat
  BY <1>1, FS_Subset, FS_CardinalityType
<1>3. PICK R : R = ActiveRows' \cap Metered
  OBVIOUS
<1>4. R \subseteq ActiveRows \cap Metered
  BY <1>3
<1>5. Cardinality(R) <= Cardinality(ActiveRows \cap Metered) /\ Cardinality(R) \in Nat
  BY <1>1, <1>4, FS_Subset, FS_CardinalityType
<1>6. Reserved' = Cardinality(R) + Cardinality(LiveGrants)
  BY <1>3 DEF Reserved, LiveGrants
<1>7. Overrun' = Overrun
  BY DEF Overrun
<1>8. /\ Base \in Nat /\ Over(grants) \in Nat /\ Overrun = Base + Over(grants)
      /\ \A l \in PgLeases : table[l].charged \in Nat
      /\ accrual = Base + Charged(table) + Used(grants)
      /\ accrual \in Nat
  BY MoneyTyped DEF PgInv, DataTypes
<1>9. /\ Cardinality(ActiveRows) <= PgCap
      /\ accrual + Reserved <= PgCeiling + Overrun
  BY DEF PgInv, AdmissionIsSerialized
<1>10. PgCap \in Nat /\ PgCeiling \in Nat
  BY PgAssumption
<1>11. Cardinality(ActiveRows') <= PgCap
  BY <1>1, <1>2, <1>9, <1>10
<1>12. accrual + Reserved' <= PgCeiling + Overrun
  BY <1>1, <1>5, <1>6, <1>8, <1>9, <1>10
<1>13. AdmissionIsSerialized'
  BY <1>7, <1>11, <1>12 DEF AdmissionIsSerialized
<1>14. Charged(table') = Charged(table)
  BY <1>8, ChargedSame
<1>15. AccrualExact'
  BY <1>8, <1>14 DEF AccrualExact, Base, Charged, Used
<1> QED
  BY <1>1, <1>2, <1>3, <1>6, <1>13, <1>15

(* The writes to one row that move no money: bind, remove, finish, Held, an   *)
(* uncharged end, ageing.                                                     *)
LEMMA RowWrite ==
  ASSUME PgInv, NEW l \in PgLeases, NEW row \in PgRow, PutRow(l, row),
         UNCHANGED <<accrual, baselined, grants>>, row.charged = 0, table[l].charged = 0,
         row.state \in {"Pending", "Held"} => table[l].state \in {"Pending", "Held"},
         claimTable' \subseteq claimTable, l \in claimTable' => row.state = "Pending"
  PROVE  /\ DataInv'
         /\ Cardinality(ActiveRows') <= Cardinality(ActiveRows)
         /\ (\/ l \notin Metered
             \/ row.state \in {"Pending", "Held"}
             \/ table[l].state \notin {"Pending", "Held"}) => Reserved' = Reserved
<1>1. /\ table' \in [PgLeases -> PgRow]
      /\ table'[l] = row
      /\ \A k \in PgLeases \ {l} : table'[k] = table[k]
      /\ row.state \in {"Pending", "Held"} => ActiveRows' = ActiveRows \cup {l}
      /\ row.state \notin {"Pending", "Held"} => ActiveRows' = ActiveRows \ {l}
  BY RowEffect DEF PgInv
<1>2. ActiveRows' \subseteq ActiveRows /\ (row.state \in {"Pending", "Held"} => ActiveRows' = ActiveRows)
  BY <1>1 DEF ActiveRows
<1>3. \A k \in PgLeases : table'[k].charged = table[k].charged
  BY <1>1
<1>4. /\ AdmissionIsSerialized' /\ AccrualExact'
      /\ Cardinality(ActiveRows') <= Cardinality(ActiveRows)
      /\ ActiveRows' \cap Metered = ActiveRows \cap Metered => Reserved' = Reserved
  BY <1>1, <1>2, <1>3, Shrinks
<1>5. DataTypes'
  BY <1>1 DEF PgInv, DataTypes
<1>6. ChargeInv'
  BY <1>1 DEF PgInv, ChargeInv
<1>7. PgClaimFence'
  BY <1>1 DEF PgInv, PgClaimFence, DataTypes
<1>8. ASSUME l \notin Metered \/ table[l].state \notin {"Pending", "Held"},
             row.state \notin {"Pending", "Held"}
      PROVE  ActiveRows' \cap Metered = ActiveRows \cap Metered
  BY <1>1, <1>8 DEF ActiveRows
<1> QED
  BY <1>2, <1>4, <1>5, <1>6, <1>7, <1>8 DEF DataInv

(* A session at its write has the row's lock, and the tenant's if the row is  *)
(* metered.                                                                   *)
LEMMA ApplyLocks ==
  ASSUME PgInv, NEW s \in Sessions, txn[s].at = "apply"
  PROVE  /\ txn[s].op \in LeaseOps =>
              /\ txn[s].on \in PgLeases
              /\ txn[s].on \in Metered => advisory = s
         /\ txn[s].op \notin LeaseOps => advisory = s
         /\ txn[s].op = "admit" => txn[s].on \in PgLeases
         /\ txn[s].op \in GrantOps => txn[s].on \in Grants
  BY DEF PgInv, LockInv, SessionLocks

(* An admission inserts a row the sums it read have room for                  *)
(* (try_admit_with_compute).                                                  *)
LEMMA AdmitStepInv ==
  ASSUME PgInv, NEW s \in Sessions, CommitAdmit(s)
  PROVE  PgInv'
<1> DEFINE l == txn[s].on
           row == [NoRow EXCEPT !.state = "Pending", !.box = "marker"]
<1>1. /\ txn[s].op = "admit" /\ txn[s].at = "apply" /\ Admits(s)
      /\ PutRow(l, row) /\ End(s)
      /\ UNCHANGED <<claimTable, accrual, baselined, grants, lapsed>>
  BY DEF CommitAdmit, At
<1>2. advisory = s /\ l \in PgLeases
  BY <1>1, ApplyLocks, OpsDiffer
<1>3. row \in PgRow /\ row.state = "Pending" /\ row.charged = 0
  BY DEF NoRow, PgRow
<1>4. table[l].state = "none" /\ table[l].charged = 0
  BY <1>1 DEF Admits, NoRow
<1>5. /\ table' \in [PgLeases -> PgRow]
      /\ table'[l] = row
      /\ \A k \in PgLeases \ {l} : table'[k] = table[k]
      /\ ActiveRows' = ActiveRows \cup {l}
  BY <1>1, <1>2, <1>3, RowEffect DEF PgInv
<1>6. l \notin ActiveRows
  BY <1>4 DEF ActiveRows
<1>7. /\ IsFiniteSet(ActiveRows)
      /\ Cardinality(ActiveRows) \in Nat
      /\ Cardinality(ActiveRows \cap Metered) \in Nat
      /\ Cardinality(LiveGrants) \in Nat
      /\ Reserved = Cardinality(ActiveRows \cap Metered) + Cardinality(LiveGrants)
      /\ Reserved \in Nat
  BY CountsTyped
<1>8. /\ Cardinality(ActiveRows) <= txn[s].saw.cnt
      /\ txn[s].saw.used = accrual + Reserved
      /\ txn[s].saw.cnt \in Nat
  BY <1>1, OpsDiffer DEF PgInv, ReadInv, SessionTypes, PgTxn
<1>9. PgCap \in Nat /\ PgCeiling \in Nat /\ accrual \in Nat
  BY PgAssumption DEF PgInv, DataTypes
<1>10. Cardinality(ActiveRows) < PgCap
  <2>1. CASE l \in Metered
    BY <1>1, <1>7, <1>8, <1>9, <2>1 DEF Admits
  <2>2. CASE l \notin Metered
    BY <1>1, <2>2 DEF Admits
  <2> QED
    BY <2>1, <2>2
<1>11. l \in Metered => accrual + Reserved + 1 <= PgCeiling
  BY <1>1, <1>8 DEF Admits
<1> HIDE DEF l, row
<1>12. /\ Cardinality(ActiveRows') = Cardinality(ActiveRows) + 1
       /\ l \in Metered => Cardinality((ActiveRows \cup {l}) \cap Metered) = Cardinality(ActiveRows \cap Metered) + 1
       /\ l \notin Metered => (ActiveRows \cup {l}) \cap Metered = ActiveRows \cap Metered
  BY <1>5, <1>6, <1>7, CountAdd
<1>13. Cardinality(ActiveRows') <= PgCap
  BY <1>7, <1>9, <1>10, <1>12
<1>14. Reserved' = Cardinality((ActiveRows \cup {l}) \cap Metered) + Cardinality(LiveGrants)
  BY <1>1, <1>5 DEF Reserved, LiveGrants
<1>15. /\ l \in Metered => Reserved' = Reserved + 1
       /\ l \notin Metered => Reserved' = Reserved
  BY <1>7, <1>12, <1>14
<1>16. /\ Overrun \in Nat /\ accrual + Reserved <= PgCeiling + Overrun
       /\ accrual = Base + Charged(table) + Used(grants)
       /\ \A k \in PgLeases : table[k].charged \in Nat
  BY MoneyTyped DEF PgInv, AdmissionIsSerialized
<1>17. Overrun' = Overrun
  BY <1>1 DEF Overrun
<1>18. accrual + Reserved' <= PgCeiling + Overrun
  BY <1>7, <1>9, <1>11, <1>15, <1>16
<1>19. AdmissionIsSerialized'
  BY <1>1, <1>13, <1>17, <1>18 DEF AdmissionIsSerialized
<1>20. \A k \in PgLeases : table'[k].charged = table[k].charged
  BY <1>3, <1>4, <1>5 DEF l
<1>21. Charged(table') = Charged(table)
  BY <1>16, <1>20, ChargedSame
<1>22. AccrualExact'
  BY <1>1, <1>16, <1>21 DEF AccrualExact, Base, Charged, Used
<1>23. DataTypes'
  BY <1>1, <1>5 DEF PgInv, DataTypes
<1>24. ChargeInv'
  BY <1>1, <1>3, <1>5, OpsDiffer DEF PgInv, ChargeInv
<1>25. PgClaimFence'
  BY <1>1, <1>2, <1>3, <1>5 DEF PgInv, PgClaimFence, DataTypes
<1> QED
  BY <1>1, <1>2, <1>19, <1>22, <1>23, <1>24, <1>25, CommitInv DEF DataInv

(* A transition: to Held, to an end that charges nothing, or to one that      *)
(* turns the reservation into a charge.                                       *)
LEMMA TransitionStepInv ==
  ASSUME PgInv, NEW s \in Sessions, CommitTransition(s)
  PROVE  PgInv'
<1>1. PICK l, to : l = txn[s].on /\ to = txn[s].op
  OBVIOUS
<1>2. /\ to \in {"Held"} \cup PgEnds /\ txn[s].at = "apply" /\ LegalTransition(s)
      /\ End(s)
      /\ UNCHANGED <<claimTable, baselined, grants, lapsed>>
  BY <1>1 DEF CommitTransition
<1>3. PICK used \in IF l \in Metered /\ to \in PgEnds THEN {0, 1} ELSE {0} :
        /\ PutRow(l, [table[l] EXCEPT !.state = to, !.charged = used, !.old = FALSE])
        /\ accrual' = accrual + used
  BY <1>1 DEF CommitTransition
<1>4. to \in LeaseOps /\ l \in PgLeases /\ (l \in Metered => advisory = s)
  BY <1>1, <1>2, ApplyLocks, OpsDiffer DEF LeaseOps
<1>5. l \notin claimTable /\ table[l].state = LegalFrom(to)
  BY <1>1, <1>2 DEF LegalTransition, Unclaimed
<1>6. table[l].state \in {"Pending", "Held"} /\ table[l].charged = 0 /\ table[l] \in PgRow
  BY <1>4, <1>5, OpsDiffer DEF LegalFrom, PgInv, ChargeInv, DataTypes
<1> DEFINE row == [table[l] EXCEPT !.state = to, !.charged = used, !.old = FALSE]
<1>7. used \in {0, 1} /\ used \in Nat
  BY <1>3
<1>8. row \in PgRow /\ row.state = to /\ row.charged = used
  BY <1>2, <1>6, <1>7 DEF PgRow
<1>9. PutRow(l, row)
  BY <1>3
<1> HIDE DEF row
<1>10. CASE used = 0
  <2>1. accrual' = accrual
    BY <1>3, <1>10 DEF PgInv, DataTypes
  <2>2. /\ DataInv'
        /\ Cardinality(ActiveRows') <= Cardinality(ActiveRows)
        /\ l \notin Metered => Reserved' = Reserved
    BY <1>2, <1>4, <1>5, <1>6, <1>8, <1>9, <1>10, <2>1, RowWrite
  <2> QED
    BY <1>2, <1>4, <2>1, <2>2, CommitInv
<1>11. CASE used = 1
  <2>1. l \in Metered /\ to \in PgEnds /\ advisory = s
    BY <1>3, <1>4, <1>11
  <2>2. to \notin {"Pending", "Held"}
    BY <2>1, OpsDiffer
  <2>3. /\ table' \in [PgLeases -> PgRow]
        /\ table'[l] = row
        /\ \A k \in PgLeases \ {l} : table'[k] = table[k]
        /\ ActiveRows' = ActiveRows \ {l}
    BY <1>4, <1>8, <1>9, <2>2, RowEffect DEF PgInv
  <2>4. l \in ActiveRows
    BY <1>4, <1>6 DEF ActiveRows
  <2>5. /\ IsFiniteSet(ActiveRows)
        /\ Cardinality(ActiveRows) \in Nat
        /\ Cardinality(ActiveRows \cap Metered) \in Nat
        /\ Cardinality(LiveGrants) \in Nat
        /\ Reserved = Cardinality(ActiveRows \cap Metered) + Cardinality(LiveGrants)
    BY CountsTyped
  <2>6. /\ Cardinality(ActiveRows) = Cardinality(ActiveRows \ {l}) + 1
        /\ l \in Metered => Cardinality(ActiveRows \cap Metered)
                            = Cardinality((ActiveRows \ {l}) \cap Metered) + 1
        /\ Cardinality(ActiveRows \ {l}) \in Nat /\ Cardinality((ActiveRows \ {l}) \cap Metered) \in Nat
    <3>1. PICK A : A = ActiveRows
      OBVIOUS
    <3>2. IsFiniteSet(A) /\ l \in A
      BY <2>4, <2>5, <3>1
    <3>3. /\ Cardinality(A) = Cardinality(A \ {l}) + 1
          /\ Cardinality(A \ {l}) \in Nat
      BY <3>2, CountDrop
    <3>4. /\ l \in Metered => Cardinality(A \cap Metered) = Cardinality((A \ {l}) \cap Metered) + 1
          /\ Cardinality((A \ {l}) \cap Metered) \in Nat
      <4>1. PICK R : R = A \ {l}
        OBVIOUS
      <4>2. IsFiniteSet(R) /\ l \notin R
        BY <3>2, <4>1, FS_RemoveElement
      <4>3. R \cup {l} = A
        BY <3>2, <4>1
      <4>4. /\ Cardinality(R \cup {l}) = Cardinality(R) + 1
            /\ l \in Metered => Cardinality((R \cup {l}) \cap Metered) = Cardinality(R \cap Metered) + 1
            /\ Cardinality(R) \in Nat /\ Cardinality(R \cap Metered) \in Nat
        BY <4>2, CountAdd
      <4> QED
        BY <4>1, <4>3, <4>4
    <3> QED
      BY <3>1, <3>3, <3>4
  <2>7. Reserved' = Cardinality((ActiveRows \ {l}) \cap Metered) + Cardinality(LiveGrants)
    BY <1>2, <2>3 DEF Reserved, LiveGrants
  <2>8. /\ Overrun \in Nat /\ accrual + Reserved <= PgCeiling + Overrun
        /\ Cardinality(ActiveRows) <= PgCap
        /\ accrual = Base + Charged(table) + Used(grants)
        /\ Base \in Nat /\ Used(grants) \in Nat /\ Charged(table) \in Nat
        /\ \A k \in PgLeases : table[k].charged \in Nat
        /\ accrual \in Nat /\ PgCeiling \in Nat /\ PgCap \in Nat
    BY MoneyTyped, PgAssumption DEF PgInv, AdmissionIsSerialized, DataTypes
  <2>9. Overrun' = Overrun
    BY <1>2 DEF Overrun
  <2>10. accrual' + Reserved' <= PgCeiling + Overrun /\ Cardinality(ActiveRows') <= PgCap
    BY <1>3, <1>11, <2>1, <2>3, <2>5, <2>6, <2>7, <2>8
  <2>11. AdmissionIsSerialized'
    BY <2>9, <2>10 DEF AdmissionIsSerialized
  <2>12. table'[l].charged = 1
    BY <1>8, <1>11, <2>3
  <2>13. Charged(table') = Charged(table) + 1 /\ Charged(table') \in Nat
    BY <1>4, <1>6, <2>3, <2>8, <2>12, ChargedAdds
  <2>14. accrual' = Base + Charged(table') + Used(grants)
    BY <1>3, <1>11, <2>8, <2>13
  <2>15. AccrualExact'
    BY <1>2, <2>14 DEF AccrualExact, Base, Charged, Used
  <2>16. DataTypes'
    BY <1>2, <1>3, <1>7, <2>3, <2>8 DEF PgInv, DataTypes
  <2>17. ChargeInv'
    BY <1>2, <1>8, <2>1, <2>3 DEF PgInv, ChargeInv
  <2>18. PgClaimFence'
    BY <1>2, <1>5, <2>3 DEF PgInv, PgClaimFence, DataTypes
  <2> QED
    BY <1>2, <2>1, <2>11, <2>15, <2>16, <2>17, <2>18, CommitInv DEF DataInv
<1> QED
  BY <1>7, <1>10, <1>11

(* bind_provider_ref writes the box reference of a Pending row. *)
LEMMA BindStepInv ==
  ASSUME PgInv, NEW s \in Sessions, CommitBind(s)
  PROVE  PgInv'
<1>1. PICK l : l = txn[s].on
  OBVIOUS
<1>2. /\ txn[s].op = "bind" /\ txn[s].at = "apply" /\ End(s)
      /\ UNCHANGED <<claimTable, accrual, baselined, grants, lapsed>>
  BY DEF CommitBind, At
<1>3. l \in PgLeases
  BY <1>1, <1>2, ApplyLocks DEF LeaseOps
<1>4. CASE UNCHANGED table
  BY <1>2, <1>4, DataStays, CommitInv DEF dataVars
<1>5. CASE Unclaimed(l) /\ table[l].state = "Pending"
  <2> DEFINE row == [table[l] EXCEPT !.box = "bound"]
  <2>1. PutRow(l, row)
    BY <1>1, <1>5 DEF CommitBind
  <2>2. table[l] \in PgRow /\ table[l].charged = 0
    BY <1>3, <1>5, OpsDiffer DEF PgInv, DataTypes, ChargeInv
  <2>3. row \in PgRow /\ row.state = "Pending" /\ row.charged = 0
    BY <1>5, <2>2 DEF PgRow
  <2> HIDE DEF row
  <2>4. /\ DataInv' /\ Reserved' = Reserved
        /\ Cardinality(ActiveRows') <= Cardinality(ActiveRows)
    BY <1>2, <1>3, <1>5, <2>1, <2>2, <2>3, RowWrite
  <2> QED
    BY <1>2, <2>4, CommitInv
<1> QED
  BY <1>1, <1>4, <1>5 DEF CommitBind

(* DELETE of a row that owes nothing, with its claim. *)
LEMMA DropInv ==
  ASSUME PgInv, NEW s \in Sessions, End(s), NEW l \in PgLeases, Drop(l),
         UNCHANGED <<accrual, baselined, grants>>, table[l].charged = 0,
         l \in Metered => advisory = s
  PROVE  PgInv'
<1>1. PutRow(l, NoRow) /\ claimTable' = claimTable \ {l}
  BY DEF Drop
<1>2. /\ DataInv'
      /\ Cardinality(ActiveRows') <= Cardinality(ActiveRows)
      /\ l \notin Metered => Reserved' = Reserved
  BY <1>1, RowWrite, RowTypes
<1> QED
  BY <1>2, CommitInv

(* remove and remove_if_pending delete only rows without a charge. *)
LEMMA RemoveStepInv ==
  ASSUME PgInv, NEW s \in Sessions, CommitRemove(s)
  PROVE  PgInv'
<1>1. PICK l : l = txn[s].on
  OBVIOUS
<1>2. /\ txn[s].op \in {"remove", "removePending"} /\ txn[s].at = "apply" /\ End(s)
      /\ UNCHANGED <<accrual, baselined, grants, lapsed>>
  BY DEF CommitRemove
<1>3. l \in PgLeases /\ (l \in Metered => advisory = s)
  BY <1>1, <1>2, ApplyLocks DEF LeaseOps
<1>4. CASE UNCHANGED <<table, claimTable>>
  BY <1>2, <1>4, DataStays, CommitInv DEF dataVars
<1>5. CASE Removable(s)
  <2>1. Drop(l)
    BY <1>1, <1>5 DEF CommitRemove
  <2>2. table[l].charged = 0
    BY <1>1, <1>3, <1>5, OpsDiffer DEF Removable, PgInv, ChargeInv
  <2> QED
    BY <1>2, <1>3, <2>1, <2>2, DropInv
<1> QED
  BY <1>4, <1>5 DEF CommitRemove

(* finish_pending_cleanup deletes a claimed Pending row with its claim. *)
LEMMA FinishStepInv ==
  ASSUME PgInv, NEW s \in Sessions, CommitFinish(s)
  PROVE  PgInv'
<1>1. PICK l : l = txn[s].on
  OBVIOUS
<1>2. /\ txn[s].op = "finish" /\ txn[s].at = "apply" /\ End(s)
      /\ UNCHANGED <<accrual, baselined, grants, lapsed>>
  BY DEF CommitFinish, At
<1>3. l \in PgLeases /\ (l \in Metered => advisory = s)
  BY <1>1, <1>2, ApplyLocks DEF LeaseOps
<1>4. CASE UNCHANGED <<table, claimTable>>
  BY <1>2, <1>4, DataStays, CommitInv DEF dataVars
<1>5. CASE table[l].state = "Pending" /\ l \in claimTable
  <2>1. Drop(l)
    BY <1>1, <1>5 DEF CommitFinish
  <2>2. table[l].charged = 0
    BY <1>3, <1>5, OpsDiffer DEF PgInv, ChargeInv
  <2> QED
    BY <1>2, <1>3, <2>1, <2>2, DropInv
<1> QED
  BY <1>1, <1>4, <1>5 DEF CommitFinish

(* claim_one adds claims to Pending rows only. *)
LEMMA ClaimStepInv ==
  ASSUME PgInv, NEW s \in Sessions, CommitClaim(s)
  PROVE  PgInv'
<1>1. PICK l : l = txn[s].on
  OBVIOUS
<1>2. /\ txn[s].op \in {"claim", "claimStale"} /\ txn[s].at = "apply" /\ End(s)
      /\ UNCHANGED <<table, accrual, baselined, grants, lapsed>>
  BY DEF CommitClaim
<1>3. l \in PgLeases
  BY <1>1, <1>2, ApplyLocks DEF LeaseOps
<1>4. claimTable' = claimTable \/ (claimTable' = claimTable \cup {l} /\ table[l].state = "Pending")
  BY <1>1 DEF CommitClaim
<1>5. /\ Reserved' = Reserved /\ ActiveRows' = ActiveRows
      /\ Cardinality(ActiveRows') <= Cardinality(ActiveRows)
  BY <1>2, CountsTyped DEF Reserved, ActiveRows
<1>6. DataTypes' /\ ChargeInv' /\ PgClaimFence'
  BY <1>2, <1>3, <1>4 DEF PgInv, DataTypes, ChargeInv, PgClaimFence
<1>7. AdmissionIsSerialized' /\ AccrualExact'
  BY <1>2, <1>5 DEF PgInv, AdmissionIsSerialized, AccrualExact, Overrun
<1> QED
  BY <1>2, <1>5, <1>6, <1>7, CommitInv DEF DataInv

--------------------------------------------------------------------------------
(* External compute *)

(* A write to one grant, and what it does to the set of live grants. *)
LEMMA GrantEffect ==
  ASSUME DataTypes, NEW g \in Grants, NEW new \in PgGrant, grants' = [grants EXCEPT ![g] = new]
  PROVE  /\ grants' \in [Grants -> PgGrant]
         /\ grants'[g] = new
         /\ \A k \in Grants \ {g} : grants'[k] = grants[k]
         /\ new.state \in {"prepared", "active"} => LiveGrants' = LiveGrants \cup {g}
         /\ new.state \notin {"prepared", "active"} => LiveGrants' = LiveGrants \ {g}
<1>1. /\ grants' \in [Grants -> PgGrant]
      /\ grants'[g] = new
      /\ \A k \in Grants \ {g} : grants'[k] = grants[k]
  BY DEF DataTypes
<1>2. new.state \in {"prepared", "active"} => LiveGrants' = LiveGrants \cup {g}
  BY <1>1 DEF LiveGrants
<1>3. new.state \notin {"prepared", "active"} => LiveGrants' = LiveGrants \ {g}
  BY <1>1 DEF LiveGrants
<1> QED
  BY <1>1, <1>2, <1>3

(* A change of a grant's state keeps its actual use. *)
LEMMA PutGrantEffect ==
  ASSUME DataTypes, NEW g \in Grants, NEW st \in {"none", "prepared", "active", "cancelled", "settled"},
         PutGrant(g, st)
  PROVE  \E new \in PgGrant : /\ grants' = [grants EXCEPT ![g] = new]
                              /\ new.state = st /\ new.actual = grants[g].actual
<1> DEFINE new == [grants[g] EXCEPT !.state = st]
<1>1. new \in PgGrant /\ new.state = st /\ new.actual = grants[g].actual
  BY DEF DataTypes, PgGrant
<1>2. grants' = [grants EXCEPT ![g] = new]
  BY DEF PutGrant, DataTypes
<1> HIDE DEF new
<1> QED
  BY <1>1, <1>2

(* A grant that changes its state under the tenant's lock, uncharged before   *)
(* and after, within the ceiling.                                             *)
LEMMA GrantWrite ==
  ASSUME PgInv, NEW s \in Sessions, End(s), advisory = s, NEW g \in Grants, NEW new \in PgGrant,
         grants' = [grants EXCEPT ![g] = new], UNCHANGED <<table, claimTable, accrual, baselined>>,
         new.actual = 0, grants[g].actual = 0,
         new.state \in {"prepared", "active"} /\ grants[g].state \notin {"prepared", "active"}
           => accrual + Reserved + 1 <= PgCeiling
  PROVE  PgInv'
<1>1. /\ grants' \in [Grants -> PgGrant]
      /\ grants'[g] = new
      /\ \A k \in Grants \ {g} : grants'[k] = grants[k]
      /\ new.state \in {"prepared", "active"} => LiveGrants' = LiveGrants \cup {g}
      /\ new.state \notin {"prepared", "active"} => LiveGrants' = LiveGrants \ {g}
  BY GrantEffect DEF PgInv
<1>2. /\ IsFiniteSet(LiveGrants)
      /\ Cardinality(ActiveRows \cap Metered) \in Nat
      /\ Cardinality(LiveGrants) \in Nat
      /\ Reserved = Cardinality(ActiveRows \cap Metered) + Cardinality(LiveGrants)
      /\ Reserved \in Nat
  BY CountsTyped
<1>3. Reserved' = Cardinality(ActiveRows \cap Metered) + Cardinality(LiveGrants')
  BY DEF Reserved, ActiveRows, LiveGrants
<1>4. /\ Base \in Nat /\ Over(grants) \in Nat /\ Overrun = Base + Over(grants) /\ Overrun \in Nat
      /\ \A k \in Grants : grants[k].actual \in Nat
      /\ accrual = Base + Charged(table) + Used(grants)
      /\ accrual \in Nat /\ PgCeiling \in Nat
      /\ Cardinality(ActiveRows) <= PgCap
      /\ accrual + Reserved <= PgCeiling + Overrun
  BY MoneyTyped, PgAssumption DEF PgInv, DataTypes, AdmissionIsSerialized
<1>5. \A k \in Grants : grants'[k].actual = grants[k].actual
  BY <1>1
<1>6. Used(grants') = Used(grants) /\ Over(grants') = Over(grants)
  BY <1>4, <1>5, UsedSame
<1>7. Overrun' = Overrun
  BY <1>4, <1>6 DEF Overrun, Base, Over, Excess
<1>8. accrual + Reserved' <= PgCeiling + Overrun
  <2>1. CASE LiveGrants' = LiveGrants \cup {g} /\ g \notin LiveGrants
    <3>1. Cardinality(LiveGrants') = Cardinality(LiveGrants) + 1
      BY <1>2, <2>1, FS_AddElement
    <3>2. new.state \in {"prepared", "active"}
      BY <1>1, <2>1 DEF LiveGrants
    <3>3. accrual + Reserved + 1 <= PgCeiling
      BY <2>1, <3>2 DEF LiveGrants
    <3>4. Reserved' = Reserved + 1
      BY <1>2, <1>3, <3>1
    <3> QED
      BY <1>2, <1>4, <3>3, <3>4
  <2>2. CASE LiveGrants' \subseteq LiveGrants
    <3>1. PICK L : L = LiveGrants'
      OBVIOUS
    <3>2. Cardinality(L) <= Cardinality(LiveGrants) /\ Cardinality(L) \in Nat
      BY <1>2, <2>2, <3>1, FS_Subset, FS_CardinalityType
    <3>3. Reserved' = Cardinality(ActiveRows \cap Metered) + Cardinality(L)
      BY <1>3, <3>1
    <3>4. Reserved' <= Reserved /\ Reserved' \in Nat
      BY <1>2, <3>2, <3>3
    <3> QED
      BY <1>2, <1>4, <3>4
  <2> QED
    BY <1>1, <2>1, <2>2
<1>9. AdmissionIsSerialized'
  BY <1>4, <1>7, <1>8 DEF AdmissionIsSerialized, ActiveRows
<1>10. AccrualExact'
  BY <1>4, <1>6 DEF AccrualExact, Base, Charged, Used
<1>11. DataTypes'
  BY <1>1 DEF PgInv, DataTypes
<1>12. ChargeInv' /\ PgClaimFence'
  BY <1>1 DEF PgInv, ChargeInv, PgClaimFence
<1> QED
  BY <1>9, <1>10, <1>11, <1>12, CommitInv DEF DataInv

(* The baseline is added once, to the sum that is there (initialize). *)
LEMMA InitializeStepInv ==
  ASSUME PgInv, NEW s \in Sessions, CommitInitialize(s)
  PROVE  PgInv'
<1>1. /\ txn[s].op = "initialize" /\ txn[s].at = "apply" /\ End(s) /\ baselined' = TRUE
      /\ accrual' = IF baselined THEN accrual ELSE txn[s].saw.accrued + Baseline
      /\ UNCHANGED <<table, claimTable, grants, lapsed>>
  BY DEF CommitInitialize, At
<1>2. txn[s].op \notin LeaseOps /\ advisory = s
  BY <1>1, ApplyLocks, OpsDiffer
<1>3. txn[s].saw.accrued = accrual
  BY <1>1, <1>2 DEF PgInv, ReadInv
<1>4. /\ Base \in Nat /\ Over(grants) \in Nat /\ Overrun = Base + Over(grants)
      /\ Used(grants) \in Nat /\ Charged(table) \in Nat
      /\ accrual = Base + Charged(table) + Used(grants)
      /\ accrual \in Nat /\ PgCeiling \in Nat /\ Baseline \in Nat /\ Reserved \in Nat
      /\ Cardinality(ActiveRows) <= PgCap
      /\ accrual + Reserved <= PgCeiling + Overrun
      /\ baselined \in BOOLEAN
  BY MoneyTyped, CountsTyped, PgAssumption DEF PgInv, DataTypes, AdmissionIsSerialized
<1>5. Reserved' = Reserved /\ ActiveRows' = ActiveRows
  BY <1>1 DEF Reserved, ActiveRows
<1>6. CASE baselined
  <2>1. UNCHANGED dataVars
    BY <1>1, <1>6 DEF dataVars
  <2> QED
    BY <1>1, <2>1, DataStays, CommitInv
<1>7. CASE ~baselined
  <2>1. accrual' = accrual + Baseline /\ Base = 0
    BY <1>1, <1>3, <1>7 DEF Base
  <2>2. Overrun' = Baseline + Over(grants)
    BY <1>1 DEF Overrun, Over, Excess
  <2>3. accrual' + Reserved <= PgCeiling + (Baseline + Over(grants))
    BY <1>4, <2>1
  <2>4. AdmissionIsSerialized'
    BY <1>4, <1>5, <2>2, <2>3 DEF AdmissionIsSerialized
  <2>5. accrual' = Baseline + Charged(table) + Used(grants)
    BY <1>4, <2>1
  <2>6. AccrualExact'
    BY <1>1, <2>5 DEF AccrualExact, Charged, Used
  <2>7. DataTypes'
    BY <1>1, <1>4, <2>1 DEF PgInv, DataTypes
  <2>8. ChargeInv' /\ PgClaimFence'
    BY <1>1 DEF PgInv, ChargeInv, PgClaimFence
  <2> QED
    BY <1>1, <1>2, <2>4, <2>6, <2>7, <2>8, CommitInv DEF DataInv
<1> QED
  BY <1>4, <1>6, <1>7

(* reserve adds a grant the sums it read have room for. *)
LEMMA ReserveStepInv ==
  ASSUME PgInv, NEW s \in Sessions, CommitReserve(s)
  PROVE  PgInv'
<1>1. PICK g : g = txn[s].on
  OBVIOUS
<1>2. /\ txn[s].op = "reserve" /\ txn[s].at = "apply" /\ End(s)
      /\ UNCHANGED <<table, claimTable, accrual, baselined, lapsed>>
  BY DEF CommitReserve, At
<1>3. txn[s].op \notin LeaseOps /\ advisory = s /\ g \in Grants
  <2>1. txn[s].op \in GrantOps
    BY <1>2 DEF GrantOps
  <2> QED
    BY <1>1, <1>2, <2>1, ApplyLocks, OpsDiffer
<1>4. CASE UNCHANGED grants
  BY <1>2, <1>4, DataStays, CommitInv DEF dataVars
<1>5. CASE CanReserve(s)
  <2>1. PutGrant(g, "prepared")
    BY <1>1, <1>5 DEF CommitReserve
  <2>2. PICK new \in PgGrant : /\ grants' = [grants EXCEPT ![g] = new]
                               /\ new.state = "prepared" /\ new.actual = grants[g].actual
    BY <1>3, <2>1, PutGrantEffect DEF PgInv
  <2>3. grants[g].state = "none" /\ txn[s].saw.used + 1 <= PgCeiling
    BY <1>1, <1>5 DEF CanReserve
  <2>4. grants[g].actual = 0
    BY <1>3, <2>3 DEF PgInv, ChargeInv
  <2>5. txn[s].saw.used = accrual + Reserved
    BY <1>2, <1>3 DEF PgInv, ReadInv
  <2>6. accrual + Reserved + 1 <= PgCeiling
    BY <2>3, <2>5
  <2> QED
    BY <1>2, <1>3, <2>2, <2>4, <2>6, GrantWrite
<1> QED
  BY <1>4, <1>5 DEF CommitReserve

(* activate and cancel charge nothing and reserve nothing new. *)
LEMMA GrantStepInv ==
  ASSUME PgInv, NEW s \in Sessions, CommitGrantTransition(s)
  PROVE  PgInv'
<1>1. PICK g, to : g = txn[s].on /\ to = txn[s].op
  OBVIOUS
<1>2. /\ to \in {"active", "cancelled"} /\ txn[s].at = "apply" /\ End(s)
      /\ UNCHANGED <<table, claimTable, accrual, baselined, lapsed>>
  BY <1>1 DEF CommitGrantTransition
<1>3. advisory = s /\ g \in Grants
  <2>1. txn[s].op \in GrantOps
    BY <1>1, <1>2 DEF GrantOps
  <2> QED
    BY <1>1, <1>2, <2>1, ApplyLocks, OpsDiffer
<1>4. CASE UNCHANGED grants
  BY <1>2, <1>4, DataStays, CommitInv DEF dataVars
<1>5. CASE /\ PutGrant(g, to)
           /\ \/ to = "cancelled" /\ grants[g].state \in {"none", "prepared"}
              \/ to = "active" /\ grants[g].state = "prepared"
  <2>1. PICK new \in PgGrant : /\ grants' = [grants EXCEPT ![g] = new]
                               /\ new.state = to /\ new.actual = grants[g].actual
    BY <1>2, <1>3, <1>5, PutGrantEffect DEF PgInv
  <2>2. grants[g].actual = 0
    BY <1>3, <1>5 DEF PgInv, ChargeInv
  <2>3. new.state \in {"prepared", "active"} => grants[g].state \in {"prepared", "active"}
    BY <1>5, <2>1
  <2> QED
    BY <1>2, <1>3, <2>1, <2>2, <2>3, GrantWrite
<1> QED
  BY <1>1, <1>4, <1>5 DEF CommitGrantTransition

(* settle writes the sum it read plus the actual use, and that sum is still   *)
(* the current one.                                                           *)
LEMMA SettleStepInv ==
  ASSUME PgInv, NEW s \in Sessions, CommitSettle(s)
  PROVE  PgInv'
<1>1. PICK g : g = txn[s].on
  OBVIOUS
<1>2. /\ txn[s].op = "settle" /\ txn[s].at = "apply" /\ End(s)
      /\ UNCHANGED <<table, claimTable, baselined, lapsed>>
  BY DEF CommitSettle, At
<1>3. txn[s].op \notin LeaseOps /\ advisory = s /\ g \in Grants
  <2>1. txn[s].op \in GrantOps
    BY <1>2 DEF GrantOps
  <2> QED
    BY <1>1, <1>2, <2>1, ApplyLocks, OpsDiffer
<1>4. CASE UNCHANGED <<grants, accrual>>
  BY <1>2, <1>4, DataStays, CommitInv DEF dataVars
<1>5. CASE grants[g].state = "active"
  <2>1. PICK actual \in 0 .. MaxActual :
          /\ grants' = [grants EXCEPT ![g] = [state |-> "settled", actual |-> actual]]
          /\ accrual' = txn[s].saw.accrued + actual
    BY <1>1, <1>5 DEF CommitSettle
  <2> DEFINE new == [state |-> "settled", actual |-> actual]
  <2>2. actual \in Nat /\ new \in PgGrant /\ new.state = "settled" /\ new.actual = actual
    BY PgAssumption DEF PgGrant
  <2>3. grants' = [grants EXCEPT ![g] = new]
    BY <2>1
  <2> HIDE DEF new
  <2>4. /\ grants' \in [Grants -> PgGrant]
        /\ grants'[g] = new
        /\ \A k \in Grants \ {g} : grants'[k] = grants[k]
        /\ LiveGrants' = LiveGrants \ {g}
    BY <1>3, <2>2, <2>3, GrantEffect DEF PgInv
  <2>5. g \in LiveGrants
    BY <1>3, <1>5 DEF LiveGrants
  <2>6. accrual' = accrual + actual
    BY <1>2, <1>3, <2>1 DEF PgInv, ReadInv
  <2>7. /\ IsFiniteSet(LiveGrants)
        /\ Cardinality(ActiveRows \cap Metered) \in Nat
        /\ Cardinality(LiveGrants) \in Nat
        /\ Reserved = Cardinality(ActiveRows \cap Metered) + Cardinality(LiveGrants)
    BY CountsTyped
  <2>8. Cardinality(LiveGrants) = Cardinality(LiveGrants \ {g}) + 1 /\ Cardinality(LiveGrants \ {g}) \in Nat
    BY <2>5, <2>7, CountDrop
  <2>9. Reserved' = Cardinality(ActiveRows \cap Metered) + Cardinality(LiveGrants \ {g})
    BY <1>2, <2>4 DEF Reserved, ActiveRows, LiveGrants
  <2>10. /\ Base \in Nat /\ Over(grants) \in Nat /\ Overrun = Base + Over(grants)
         /\ Used(grants) \in Nat /\ Charged(table) \in Nat
         /\ accrual = Base + Charged(table) + Used(grants)
         /\ accrual \in Nat /\ PgCeiling \in Nat
         /\ Cardinality(ActiveRows) <= PgCap
         /\ accrual + Reserved <= PgCeiling + Overrun
         /\ \A k \in Grants : grants[k].actual \in Nat
    BY MoneyTyped, PgAssumption DEF PgInv, DataTypes, AdmissionIsSerialized
  <2>11. grants[g].actual = 0
    BY <1>3, <1>5 DEF PgInv, ChargeInv
  <2>12. grants'[g].actual = actual /\ \A k \in Grants \ {g} : grants'[k].actual = grants[k].actual
    BY <2>2, <2>4
  <2>13. /\ Used(grants') = Used(grants) + actual /\ Used(grants') \in Nat
         /\ Over(grants') = Over(grants) + Excess(actual) /\ Over(grants') \in Nat
    <3>1. /\ Used(grants') = Used(grants) + grants'[g].actual
          /\ Used(grants) \in Nat /\ Used(grants') \in Nat
          /\ Over(grants') = Over(grants) + Excess(grants'[g].actual)
          /\ Over(grants) \in Nat /\ Over(grants') \in Nat
      BY <1>3, <2>2, <2>10, <2>11, <2>12, UsedAdds
    <3> QED
      BY <2>12, <3>1
  <2>14. Excess(actual) \in Nat /\ actual <= Excess(actual) + 1
    BY <2>2 DEF Excess
  <2>15. Overrun' = Base + Over(grants')
    BY <1>2 DEF Overrun, Base, Over, Excess
  <2>16. accrual' + Reserved' <= PgCeiling + (Base + Over(grants'))
    BY <2>2, <2>6, <2>7, <2>8, <2>9, <2>10, <2>13, <2>14
  <2>17. AdmissionIsSerialized'
    BY <1>2, <2>10, <2>15, <2>16 DEF AdmissionIsSerialized, ActiveRows
  <2>18. accrual' = Base + Charged(table) + Used(grants')
    BY <2>2, <2>6, <2>10, <2>13
  <2>19. AccrualExact'
    BY <1>2, <2>18 DEF AccrualExact, Base, Charged, Used
  <2>20. DataTypes'
    BY <1>2, <2>2, <2>4, <2>6, <2>10 DEF PgInv, DataTypes
  <2>21. ChargeInv' /\ PgClaimFence'
    BY <1>2, <2>2, <2>4 DEF PgInv, ChargeInv, PgClaimFence
  <2> QED
    BY <1>2, <1>3, <2>17, <2>19, <2>20, <2>21, CommitInv DEF DataInv
<1> QED
  BY <1>1, <1>4, <1>5 DEF CommitSettle

--------------------------------------------------------------------------------
(* Time, and the theorem *)

(* A row that grows old is the same row to the accounting. *)
LEMMA AgeStepInv ==
  ASSUME PgInv, NEW l \in PgLeases, RowAges(l)
  PROVE  PgInv'
<1> DEFINE row == [table[l] EXCEPT !.old = TRUE]
<1>1. /\ table[l].state = "Pending" /\ PutRow(l, row)
      /\ UNCHANGED <<claimTable, accrual, baselined, grants, lapsed, advisory, rowLock, txn>>
  BY DEF RowAges
<1>2. table[l] \in PgRow /\ table[l].charged = 0
  BY <1>1, OpsDiffer DEF PgInv, DataTypes, ChargeInv
<1>3. row \in PgRow /\ row.state = "Pending" /\ row.charged = 0
  BY <1>1, <1>2 DEF PgRow
<1> HIDE DEF row
<1>4. /\ DataInv' /\ Reserved' = Reserved
  BY <1>1, <1>2, <1>3, RowWrite
<1>5. ActiveRows' = ActiveRows
  <2>1. ActiveRows' = ActiveRows \cup {l}
    BY <1>1, <1>3, RowEffect DEF PgInv
  <2> QED
    BY <1>1, <2>1 DEF ActiveRows
<1>6. ReadInv'
  BY <1>1, <1>4, <1>5 DEF PgInv, ReadInv
<1>7. SessionTypes' /\ LockInv'
  BY <1>1 DEF PgInv, SessionTypes, LockInv, SessionLocks
<1> QED
  BY <1>4, <1>6, <1>7 DEF PgInv, DataInv

(* A step that changes no table, lock or session. *)
LEMMA LapseStepInv ==
  ASSUME PgInv, UNCHANGED <<dataVars, advisory, rowLock, txn>>
  PROVE  PgInv'
<1>1. /\ DataInv' /\ accrual' = accrual /\ Reserved' = Reserved /\ ActiveRows' = ActiveRows
  BY DataStays
<1>2. ReadInv'
  BY <1>1 DEF PgInv, ReadInv
<1>3. SessionTypes' /\ LockInv'
  BY DEF PgInv, SessionTypes, LockInv, SessionLocks
<1> QED
  BY <1>1, <1>2, <1>3 DEF PgInv, DataInv

(* An empty ledger. *)
LEMMA PgInvInit == PgInit => PgInv
<1> SUFFICES ASSUME PgInit PROVE PgInv
  OBVIOUS
<1>1. DataTypes
  <2>1. table \in [PgLeases -> PgRow]
    BY RowTypes DEF PgInit
  <2>2. [state |-> "none", actual |-> 0] \in PgGrant
    BY DEF PgGrant
  <2>3. grants \in [Grants -> PgGrant]
    BY <2>2 DEF PgInit
  <2> QED
    BY <2>1, <2>3 DEF PgInit, DataTypes
<1>2. SessionTypes
  BY IdleType DEF PgInit, SessionTypes
<1>3. LockInv
  BY IdleType, OpsDiffer, PgAssumption DEF PgInit, LockInv, SessionLocks, Nobody
<1>4. ChargeInv /\ PgClaimFence
  BY RowTypes DEF PgInit, ChargeInv, PgClaimFence
<1>5. ReadInv
  BY IdleType DEF PgInit, ReadInv
<1>6. \A l \in PgLeases : table[l].charged = 0
  BY RowTypes DEF PgInit
<1>7. \A g \in Grants : grants[g].actual = 0
  BY DEF PgInit
<1>8. IsFiniteSet(PgLeases) /\ IsFiniteSet(Grants)
  BY PgAssumption
<1>9. Charged(table) = 0
  BY <1>6, <1>8, SumZero DEF Charged
<1>10. Used(grants) = 0
  BY <1>7, <1>8, SumZero DEF Used
<1>11. accrual = 0 /\ Base = 0
  BY DEF PgInit, Base
<1>12. AccrualExact
  BY <1>1, <1>9, <1>10, <1>11, MoneyTyped
<1>13. ActiveRows = {} /\ LiveGrants = {}
  BY RowTypes DEF PgInit, ActiveRows, LiveGrants
<1>14. Cardinality(ActiveRows) = 0 /\ Cardinality(ActiveRows \cap Metered) = 0 /\ Cardinality(LiveGrants) = 0
  BY <1>13, FS_EmptySet
<1>15. Reserved = 0
  BY <1>14, CountsTyped
<1>16. Overrun \in Nat /\ PgCap \in Nat /\ PgCeiling \in Nat
  BY <1>1, MoneyTyped, PgAssumption
<1>17. AdmissionIsSerialized
  BY <1>11, <1>14, <1>15, <1>16 DEF AdmissionIsSerialized
<1> QED
  BY <1>1, <1>2, <1>3, <1>4, <1>5, <1>12, <1>17 DEF PgInv

(* Every statement of every session keeps the invariant. *)
LEMMA PgInvStep == PgInv /\ [PgNext]_pgVars => PgInv'
<1> SUFFICES ASSUME PgInv, [PgNext]_pgVars PROVE PgInv'
  OBVIOUS
<1>1. CASE UNCHANGED pgVars
  BY <1>1, LapseStepInv DEF pgVars
<1>2. ASSUME NEW s \in Sessions, SessionStep(s) PROVE PgInv'
  <2>1. ASSUME RefuseAdmit(s) \/ RefuseTransition(s) PROVE Rollback(s)
    BY <2>1 DEF RefuseAdmit, RefuseTransition
  <2> QED
    BY <1>2, <2>1, RollbackInv, TakeAdvisoryInv, TakeRowInv, ReadStepInv, AdmitStepInv,
       TransitionStepInv, BindStepInv, RemoveStepInv, ClaimStepInv, FinishStepInv,
       InitializeStepInv, ReserveStepInv, GrantStepInv, SettleStepInv
       DEF SessionStep
<1>3. ASSUME NEW s \in Sessions, Abort(s) PROVE PgInv'
  BY <1>3, RollbackInv DEF Abort
<1>4. ASSUME NEW g \in Grants, GrantLapses(g) PROVE PgInv'
  BY <1>4, LapseStepInv DEF GrantLapses
<1> QED
  BY <1>1, <1>2, <1>3, <1>4, BeginsInv, AgeStepInv DEF PgNext

(* The invariant behind the two results below: types, lock discipline, reads  *)
(* that stay true, accounting.                                                *)
THEOREM PgInvariance == PgSpec => []PgInv
  BY PgInvInit, PgInvStep, PTL DEF PgSpec

(* However many sessions, leases and grants: transactions of a tenant never   *)
(* pass cap or ceiling together (but for what the outside reports), never get *)
(* between a cleanup and its row, and never wait for each other's locks.      *)
THEOREM PgAlwaysSerial == PgSpec => []PgLedgerIsSerial
<1>1. PgInv => PgLedgerIsSerial
  <2> SUFFICES ASSUME PgInv PROVE LocksNeverCycle
    BY DEF PgInv, PgLedgerIsSerial
  <2> SUFFICES ASSUME NEW s \in Sessions, NEW r \in Sessions,
                      txn[s].at = "row", rowLock[txn[s].on] = r, txn[r].at = "advisory"
               PROVE  FALSE
    BY DEF LocksNeverCycle
  <2>1. txn[s].on \in PgLeases
    BY DEF PgInv, LockInv, SessionLocks
  <2> QED
    BY <2>1 DEF PgInv, LockInv, SessionLocks
<1> QED
  BY <1>1, PgInvariance, PTL

(* No charge of a lease, a grant or the baseline is ever lost or made twice,  *)
(* although transitions add to the sum in place and settlements overwrite it  *)
(* with one they read earlier.                                                *)
THEOREM PgAccrualExact == PgSpec => []AccrualExact
<1>1. PgInv => AccrualExact
  BY DEF PgInv
<1> QED
  BY <1>1, PgInvariance, PTL

--------------------------------------------------------------------------------
(* The suspension outbox *)

(* An event, and the types of the outbox. *)
Event == [generation : Nat, delivered : BOOLEAN]

OutboxTypes ==
  /\ pointer \in Int
  /\ generation \in Nat \cup {NoGeneration}
  /\ outbox \in Seq(Event)
  /\ dispatch \in [Dispatchers -> [event : Nat, at : {"idle", "post", "acked"}]]
  /\ floor \in Nat \cup {NoGeneration}
  /\ issuing \in [Issuers -> [at : {"idle", "minted"}, generation : Nat \cup {NoGeneration}]]
  /\ credentials \subseteq [issuer : Issuers, generation : Nat]

(* No generation is used before it is there, and the current suspension has   *)
(* the event of the current generation.                                       *)
GenerationsRise ==
  /\ generation = NoGeneration => outbox = <<>>
  /\ \A e \in DOMAIN outbox :
       /\ outbox[e].generation <= generation
       /\ pointer = NotSuspended => outbox[e].generation < generation
  /\ pointer > 0 => pointer \in DOMAIN outbox /\ outbox[pointer].generation = generation
  /\ \A i \in Issuers : issuing[i].at = "minted" => issuing[i].generation \in 0 .. generation
  /\ \A c \in credentials : c.generation <= generation

(* What the Worker acted on: the events it was sent, and no credential under  *)
(* its floor is alive.                                                        *)
FloorIsSent ==
  /\ floor <= generation
  /\ pointer = NotSuspended /\ generation # NoGeneration => floor < generation
  /\ \A c \in credentials : c.generation > floor
  /\ \A d \in Dispatchers :
       /\ dispatch[d].at # "idle" => dispatch[d].event \in DOMAIN outbox
       /\ dispatch[d].at = "acked" => outbox[dispatch[d].event].generation <= floor
  /\ \A e \in DOMAIN outbox : outbox[e].delivered => outbox[e].generation <= floor

(* The inductive invariant of the outbox. *)
OutboxInv == OutboxTypes /\ GenerationsRise /\ FloorIsSent

(* A database from before the outbox, suspended or not. *)
LEMMA OutboxInvInit == OutboxInit => OutboxInv
<1> SUFFICES ASSUME OutboxInit PROVE OutboxInv
  OBVIOUS
<1> USE DEF OutboxInit, NotSuspended, NullPointer, NoGeneration, NoEvent, NoLookup
<1>1. OutboxTypes
  BY DEF OutboxTypes
<1>2. GenerationsRise
  BY DEF GenerationsRise
<1>3. FloorIsSent
  BY DEF FloorIsSent
<1> QED
  BY <1>1, <1>2, <1>3 DEF OutboxInv

(* An event of the outbox has a generation. *)
LEMMA EventTyped ==
  ASSUME OutboxInv, NEW e \in DOMAIN outbox
  PROVE  /\ e \in Nat
         /\ outbox[e] \in Event
         /\ outbox[e].generation \in Nat
<1>1. e \in Nat /\ outbox[e] \in Event
  BY DEF OutboxInv, OutboxTypes
<1> QED
  BY <1>1 DEF Event

(* ensure_generation keeps a generation that is there and never goes back. *)
LEMMA EnsuredIsNext ==
  ASSUME OutboxInv
  PROVE  /\ EnsuredGeneration \in Nat
         /\ generation # NoGeneration => EnsuredGeneration = generation
         /\ generation <= EnsuredGeneration
         /\ generation = NoGeneration /\ pointer = NotSuspended => EnsuredGeneration = 1
  BY DEF EnsuredGeneration, OutboxInv, OutboxTypes, NoGeneration, Suspended

(* record_tenant_suspension: a new event has the current generation. *)
LEMMA RecordInv == ASSUME OutboxInv, RecordSuspension PROVE OutboxInv'
<1>1. /\ EnsuredGeneration \in Nat
      /\ generation # NoGeneration => EnsuredGeneration = generation
      /\ generation <= EnsuredGeneration
  BY EnsuredIsNext
<1>2. /\ generation' = EnsuredGeneration
      /\ dispatch' = dispatch /\ floor' = floor /\ issuing' = issuing /\ credentials' = credentials
  BY DEF RecordSuspension
<1> USE DEF OutboxInv
<1>3. CASE pointer \in {NotSuspended, NullPointer}
  <2> DEFINE ev == [generation |-> EnsuredGeneration, delivered |-> FALSE]
  <2>1. outbox' = Append(outbox, ev) /\ pointer' = Len(outbox) + 1
    BY <1>3 DEF RecordSuspension
  <2>2. ev \in Event /\ ev.generation = EnsuredGeneration /\ ~ev.delivered
    BY <1>1 DEF Event
  <2> HIDE DEF ev
  <2>3. /\ outbox' \in Seq(Event)
        /\ DOMAIN outbox' = DOMAIN outbox \cup {pointer'}
        /\ outbox'[pointer'] = ev
        /\ \A e \in DOMAIN outbox : e # pointer' /\ outbox'[e] = outbox[e]
        /\ pointer' \in Nat /\ pointer' > 0
    BY <2>1, <2>2 DEF OutboxTypes
  <2>4. OutboxTypes'
    BY <1>1, <1>2, <2>3 DEF OutboxTypes
  <2>5. GenerationsRise'
    BY <1>1, <1>2, <2>2, <2>3 DEF GenerationsRise, OutboxTypes, NotSuspended, NoGeneration, Event
  <2>6. FloorIsSent'
    BY <1>1, <1>2, <2>2, <2>3 DEF FloorIsSent, OutboxTypes, NotSuspended, NoGeneration, Event
  <2> QED
    BY <2>4, <2>5, <2>6
<1>4. CASE pointer \notin {NotSuspended, NullPointer}
  <2>1. outbox' = outbox /\ pointer' = pointer
    BY <1>4 DEF RecordSuspension
  <2>2. OutboxTypes'
    BY <1>1, <1>2, <2>1 DEF OutboxTypes
  <2>3. generation # NoGeneration \/ (outbox = <<>> /\ pointer < 0)
    BY <1>4 DEF GenerationsRise, OutboxTypes, NotSuspended, NullPointer
  <2>4. GenerationsRise'
    BY <1>1, <1>2, <1>4, <2>1, <2>3 DEF GenerationsRise, OutboxTypes, NotSuspended, NoGeneration, Event
  <2>5. FloorIsSent'
    BY <1>1, <1>2, <1>4, <2>1 DEF FloorIsSent, OutboxTypes, NotSuspended, NoGeneration, Event
  <2> QED
    BY <2>2, <2>4, <2>5
<1> QED
  BY <1>3, <1>4

(* unsuspend_tenant: the new generation is above every event. *)
LEMMA LiftInv == ASSUME OutboxInv, LiftSuspension PROVE OutboxInv'
<1>1. /\ EnsuredGeneration \in Nat
      /\ generation # NoGeneration => EnsuredGeneration = generation
      /\ generation <= EnsuredGeneration
      /\ generation = NoGeneration /\ pointer = NotSuspended => EnsuredGeneration = 1
  BY EnsuredIsNext
<1>2. /\ generation' = IF Suspended THEN EnsuredGeneration + 1 ELSE EnsuredGeneration
      /\ pointer' = NotSuspended
      /\ outbox' = outbox /\ dispatch' = dispatch /\ floor' = floor
      /\ issuing' = issuing /\ credentials' = credentials
  BY DEF LiftSuspension
<1>3. generation' \in Nat /\ generation <= generation'
  BY <1>1, <1>2 DEF OutboxInv, OutboxTypes, NoGeneration
<1> USE DEF OutboxInv
<1>4. OutboxTypes'
  BY <1>2, <1>3 DEF OutboxTypes, NotSuspended
<1>5. GenerationsRise'
  <2>1. \A e \in DOMAIN outbox : outbox[e].generation < generation'
    BY <1>1, <1>2, <1>3, EventTyped DEF GenerationsRise, OutboxTypes, NoGeneration, Suspended
  <2>2. \A c \in credentials : c.generation <= generation'
    BY <1>3 DEF GenerationsRise, OutboxTypes, NoGeneration
  <2>3. \A i \in Issuers : issuing[i].at = "minted" => issuing[i].generation \in 0 .. generation'
    BY <1>3 DEF GenerationsRise, OutboxTypes, NoGeneration
  <2>4. \A e \in DOMAIN outbox : outbox[e].generation <= generation'
    BY <1>3, <2>1, EventTyped
  <2> QED
    BY <1>2, <1>3, <2>1, <2>2, <2>3, <2>4 DEF GenerationsRise, NotSuspended, NoGeneration
<1>6. FloorIsSent'
  BY <1>1, <1>2, <1>3 DEF FloorIsSent, OutboxTypes, NotSuspended, NoGeneration, Event, Suspended
<1> QED
  BY <1>4, <1>5, <1>6

(* A dispatcher takes an event that exists. *)
LEMMA PickInv ==
  ASSUME OutboxInv, NEW d \in Dispatchers, NEW e \in DOMAIN outbox, PickEvent(d, e)
  PROVE  OutboxInv'
<1> USE DEF OutboxInv
<1>1. /\ dispatch' = [dispatch EXCEPT ![d] = [event |-> e, at |-> "post"]]
      /\ UNCHANGED <<pointer, generation, outbox, floor, issuing, credentials>>
  BY DEF PickEvent, Goto
<1>2. e \in Nat
  BY DEF OutboxTypes
<1>3. OutboxTypes'
  BY <1>1, <1>2 DEF OutboxTypes
<1>4. GenerationsRise'
  BY <1>1 DEF GenerationsRise
<1>5. FloorIsSent'
  BY <1>1 DEF FloorIsSent, OutboxTypes
<1> QED
  BY <1>3, <1>4, <1>5

(* The Worker's floor rises to the generation of an event, never above the    *)
(* current one.                                                               *)
LEMMA PostInv ==
  ASSUME OutboxInv, NEW d \in Dispatchers, PostEvent(d)
  PROVE  OutboxInv'
<1> DEFINE e == dispatch[d].event
           g == outbox[e].generation
<1> USE DEF OutboxInv
<1>1. dispatch[d].at = "post" /\ UNCHANGED <<pointer, generation, outbox, issuing>>
  BY DEF PostEvent
<1>2. /\ e \in DOMAIN outbox /\ g \in Nat /\ g <= generation
      /\ pointer = NotSuspended => g < generation
  <2>1. e \in DOMAIN outbox
    BY <1>1 DEF FloorIsSent
  <2> QED
    BY <2>1, EventTyped DEF GenerationsRise
<1>a. e \in Nat
  BY <1>2, EventTyped
<1>3. GenerationsRise' \/ ~(credentials' \subseteq credentials)
  BY <1>1 DEF GenerationsRise
<1>4. CASE /\ dispatch' = [dispatch EXCEPT ![d] = NoEvent]
           /\ UNCHANGED <<floor, credentials>>
  <2>1. OutboxTypes'
    BY <1>1, <1>4 DEF OutboxTypes, NoEvent
  <2>2. FloorIsSent'
    BY <1>1, <1>4 DEF FloorIsSent, OutboxTypes, NoEvent
  <2> QED
    BY <1>3, <1>4, <2>1, <2>2
<1>5. CASE /\ floor' = IF g > floor THEN g ELSE floor
           /\ credentials' = {c \in credentials : c.generation > g}
           /\ dispatch' \in { [dispatch EXCEPT ![d] = [event |-> e, at |-> "acked"]],
                              [dispatch EXCEPT ![d] = NoEvent] }
  <2>1. /\ floor' \in Nat \cup {NoGeneration} /\ floor <= floor' /\ g <= floor' /\ floor' <= generation
        /\ pointer = NotSuspended /\ generation # NoGeneration => floor' < generation
        /\ floor' \in {g, floor}
    BY <1>2, <1>5 DEF OutboxTypes, FloorIsSent, NoGeneration
  <2>2. credentials' \subseteq credentials /\ \A c \in credentials' : c.generation > floor'
    BY <1>5, <2>1 DEF FloorIsSent
  <2>3. /\ dispatch' \in [Dispatchers -> [event : Nat, at : {"idle", "post", "acked"}]]
        /\ \A r \in Dispatchers \ {d} : dispatch'[r] = dispatch[r]
        /\ dispatch'[d].at # "idle" => dispatch'[d].event = e
    <3> HIDE DEF e, g
    <3>1. dispatch \in [Dispatchers -> [event : Nat, at : {"idle", "post", "acked"}]]
      BY DEF OutboxTypes
    <3>2. CASE dispatch' = [dispatch EXCEPT ![d] = [event |-> e, at |-> "acked"]]
      BY <1>a, <3>1, <3>2
    <3>3. CASE dispatch' = [dispatch EXCEPT ![d] = NoEvent]
      BY <3>1, <3>3 DEF NoEvent
    <3> QED
      BY <1>5, <3>2, <3>3
  <2> HIDE DEF e, g
  <2>4. OutboxTypes'
    BY <1>1, <2>1, <2>2, <2>3 DEF OutboxTypes
  <2>5. \A k \in DOMAIN outbox : outbox[k].generation \in Nat
    BY EventTyped
  <2>6. \A k \in DOMAIN outbox : outbox[k].generation <= floor => outbox[k].generation <= floor'
    BY <2>1, <2>5 DEF OutboxTypes, NoGeneration
  <2>7. \A r \in Dispatchers :
          /\ dispatch'[r].at # "idle" => dispatch'[r].event \in DOMAIN outbox
          /\ dispatch'[r].at = "acked" => outbox[dispatch'[r].event].generation <= floor'
    <3> SUFFICES ASSUME NEW r \in Dispatchers, dispatch'[r].at # "idle"
                 PROVE  /\ dispatch'[r].event \in DOMAIN outbox
                        /\ dispatch'[r].at = "acked" =>
                             outbox[dispatch'[r].event].generation <= floor'
      OBVIOUS
    <3>1. CASE r = d
      BY <1>2, <2>1, <2>3, <3>1 DEF g
    <3>2. CASE r # d
      BY <2>3, <2>6, <3>2 DEF FloorIsSent
    <3> QED
      BY <3>1, <3>2
  <2>8. FloorIsSent'
    BY <1>1, <2>1, <2>2, <2>6, <2>7 DEF FloorIsSent
  <2> QED
    BY <1>3, <2>2, <2>4, <2>8
<1> QED
  BY <1>4, <1>5 DEF PostEvent, Goto, EnvelopeGeneration

(* An event is marked delivered only after the Worker acted on it. *)
LEMMA MarkInv ==
  ASSUME OutboxInv, NEW d \in Dispatchers, MarkDelivered(d)
  PROVE  OutboxInv'
<1> DEFINE e == dispatch[d].event
<1> USE DEF OutboxInv
<1>1. /\ dispatch[d].at = "acked"
      /\ dispatch' = [dispatch EXCEPT ![d] = NoEvent]
      /\ UNCHANGED <<pointer, generation, floor, issuing, credentials>>
  BY DEF MarkDelivered
<1>2. e \in DOMAIN outbox /\ outbox[e].generation <= floor
  BY <1>1 DEF FloorIsSent
<1>3. /\ outbox' \in Seq(Event) /\ DOMAIN outbox' = DOMAIN outbox
      /\ \A k \in DOMAIN outbox : /\ outbox'[k].generation = outbox[k].generation
                                  /\ outbox'[k].delivered => outbox[k].delivered \/ k = e
  <2>1. CASE outbox' = outbox
    BY <2>1 DEF OutboxTypes
  <2>2. CASE outbox' = [outbox EXCEPT ![e].delivered = TRUE]
    <3> DEFINE ev == [outbox[e] EXCEPT !.delivered = TRUE]
    <3>1. ev \in Event /\ ev.generation = outbox[e].generation
      BY <1>2, EventTyped DEF Event
    <3>2. outbox' = [outbox EXCEPT ![e] = ev]
      BY <2>2
    <3> HIDE DEF ev, e
    <3>3. /\ outbox' \in Seq(Event) /\ DOMAIN outbox' = DOMAIN outbox
          /\ outbox'[e] = ev
          /\ \A k \in DOMAIN outbox \ {e} : outbox'[k] = outbox[k]
      BY <1>2, <3>1, <3>2 DEF OutboxTypes
    <3> QED
      BY <3>1, <3>3
  <2> QED
    BY <2>1, <2>2 DEF MarkDelivered
<1> HIDE DEF e
<1>4. OutboxTypes'
  BY <1>1, <1>3 DEF OutboxTypes, NoEvent
<1>5. GenerationsRise'
  BY <1>1, <1>2, <1>3 DEF GenerationsRise
<1>6. FloorIsSent'
  BY <1>1, <1>2, <1>3 DEF FloorIsSent, OutboxTypes, NoEvent
<1> QED
  BY <1>4, <1>5, <1>6

(* An issuer learns the current generation, and only of a tenant that is not  *)
(* suspended.                                                                 *)
LEMMA LookUpInv ==
  ASSUME OutboxInv, NEW i \in Issuers, LookUp(i)
  PROVE  OutboxInv'
<1> USE DEF OutboxInv
<1>1. /\ EnsuredGeneration \in Nat
      /\ generation # NoGeneration => EnsuredGeneration = generation
      /\ generation <= EnsuredGeneration
      /\ generation = NoGeneration /\ pointer = NotSuspended => EnsuredGeneration = 1
  BY EnsuredIsNext
<1>2. /\ generation' = EnsuredGeneration
      /\ issuing' = [issuing EXCEPT ![i] =
           IF Suspended THEN NoLookup ELSE [at |-> "minted", generation |-> EnsuredGeneration]]
      /\ UNCHANGED <<pointer, outbox, dispatch, floor, credentials>>
  BY DEF LookUp
<1>3. /\ issuing' \in [Issuers -> [at : {"idle", "minted"}, generation : Nat \cup {NoGeneration}]]
      /\ \A j \in Issuers \ {i} : issuing'[j] = issuing[j]
      /\ issuing'[i].at = "minted" => issuing'[i].generation = generation'
  BY <1>1, <1>2 DEF OutboxTypes, NoLookup
<1>4. OutboxTypes'
  BY <1>1, <1>2, <1>3 DEF OutboxTypes
<1>5. GenerationsRise'
  <2>1. \A j \in Issuers : issuing'[j].at = "minted" => issuing'[j].generation \in 0 .. generation'
    BY <1>1, <1>2, <1>3 DEF GenerationsRise, OutboxTypes, NoGeneration
  <2> QED
    BY <1>1, <1>2, <2>1 DEF GenerationsRise, OutboxTypes, NotSuspended, NoGeneration, Event
<1>6. FloorIsSent'
  BY <1>1, <1>2 DEF FloorIsSent, OutboxTypes, NotSuspended, NoGeneration
<1> QED
  BY <1>4, <1>5, <1>6

(* A credential is registered above the Worker's floor only. *)
LEMMA RegisterInv ==
  ASSUME OutboxInv, NEW i \in Issuers, Register(i)
  PROVE  OutboxInv'
<1> USE DEF OutboxInv
<1> DEFINE c == [issuer |-> i, generation |-> issuing[i].generation]
<1>1. /\ issuing[i].at = "minted"
      /\ issuing' = [issuing EXCEPT ![i] = NoLookup]
      /\ UNCHANGED <<pointer, generation, outbox, dispatch, floor>>
  BY DEF Register
<1>2. credentials' = credentials \/ (credentials' = credentials \cup {c} /\ c.generation > floor)
  BY DEF Register
<1>3. c \in [issuer : Issuers, generation : Nat] /\ c.generation <= generation
  BY <1>1 DEF GenerationsRise, OutboxTypes, NoGeneration
<1> HIDE DEF c
<1>4. OutboxTypes'
  BY <1>1, <1>2, <1>3 DEF OutboxTypes, NoLookup
<1>5. GenerationsRise'
  BY <1>1, <1>2, <1>3 DEF GenerationsRise, OutboxTypes, NoLookup
<1>6. FloorIsSent'
  BY <1>1, <1>2, <1>3 DEF FloorIsSent
<1> QED
  BY <1>4, <1>5, <1>6

(* For any number of dispatchers, issuers and events, in any order of         *)
(* deliveries and repetitions: a delivered suspension leaves no credential    *)
(* alive, and no delivery reaches a credential of the resumed tenant.         *)
THEOREM SuspensionIsAlwaysExact == OutboxSpec => []SuspensionIsExact
<1>1. OutboxInv /\ [OutboxNext]_outboxVars => OutboxInv'
  <2> SUFFICES ASSUME OutboxInv, [OutboxNext]_outboxVars PROVE OutboxInv'
    OBVIOUS
  <2>1. CASE UNCHANGED outboxVars
    BY <2>1 DEF outboxVars, OutboxInv, OutboxTypes, GenerationsRise, FloorIsSent
  <2> QED
    BY <2>1, RecordInv, LiftInv, PickInv, PostInv, MarkInv, LookUpInv, RegisterInv
       DEF OutboxNext, DispatchStep
<1>2. OutboxInv => SuspensionIsExact
  BY DEF OutboxInv, OutboxTypes, GenerationsRise, FloorIsSent, Event, SuspensionIsExact,
         SuspensionRevokes, ResumedIsNotRevoked, NoGeneration
<1> QED
  BY <1>1, <1>2, OutboxInvInit, PTL DEF OutboxSpec

--------------------------------------------------------------------------------
(* Sharding *)

(* A lease as the routing sees it. *)
Routed == [hash : Nat, exhausted : BOOLEAN, home : Instances, job : RoutedJobs \cup {"none"},
           known : BOOLEAN, live : BOOLEAN]

(* Every instance has the fleet's count from boot, and no shard but its own.  *)
ShardInv ==
  /\ shardOn \in [Instances -> [this : Int, num : Nat]]
  /\ \A k \in Instances : shardOn[k].num = NumShards /\ shardOn[k].this \in {SHARD_UNKNOWN, k}
  /\ routed \subseteq Routed
  /\ LeasesStayHome

(* A shard number is its own remainder. *)
LEMMA SmallMod == ASSUME NEW n \in Nat, NEW k \in Int, 0 <= k, k < n PROVE k % n = k
  OBVIOUS

(* An id minted for the instance's target hashes back to the instance         *)
(* (mint_lease_id_for_shard).                                                 *)
LEMMA AcquireInv ==
  ASSUME ShardInv, NEW k \in Instances, NEW headers \in BOOLEAN,
         NEW j \in RoutedJobs \cup {"none"}, RoutedAcquire(k, headers, j), pgLedger' = pgLedger
  PROVE  ShardInv'
<1> DEFINE target == AcquireShardTarget(k, headers)
           known == headers \/ shardOn[k].this # SHARD_UNKNOWN
<1>1. NumShards \in Nat /\ NumShards > 0 /\ Hashes \subseteq Nat /\ k \in Nat /\ k < NumShards
  BY ShardAssumption DEF Instances
<1>2. k % NumShards = k
  BY <1>1, SmallMod
<1>3. target[2] = NumShards /\ (known => target[1] = k)
  BY <1>2 DEF ShardInv, AcquireShardTarget
<1>4. PICK id \in MintLeaseIdForShard(target[1], target[2]) :
        routed' = routed \cup {[hash |-> id.hash, exhausted |-> id.exhausted, home |-> k, job |-> j,
                                known |-> known, live |-> TRUE]}
  BY DEF RoutedAcquire
<1>5. PICK h \in Hashes :
        id = [hash |-> h, exhausted |-> target[2] > 1 /\ ShardOf(h, target[2]) # target[1] % target[2]]
  BY DEF MintLeaseIdForShard
<1> DEFINE new == [hash |-> id.hash, exhausted |-> id.exhausted, home |-> k, job |-> j,
                   known |-> known, live |-> TRUE]
<1>6. /\ id.hash = h
      /\ id.exhausted = (NumShards > 1 /\ ShardOf(h, NumShards) # target[1] % NumShards)
  BY <1>3, <1>5
<1>7. new \in Routed
  BY <1>1, <1>6 DEF Routed
<1>8. new.known /\ ~new.exhausted => ShardOf(new.hash, NumShards) = new.home
  <2> SUFFICES ASSUME known, ~id.exhausted PROVE ShardOf(h, NumShards) = k
    BY <1>6
  <2>1. CASE NumShards > 1
    BY <1>2, <1>3, <1>6, <2>1
  <2>2. CASE NumShards = 1
    <3>1. h % 1 = 0 /\ k = 0
      BY <1>1, <2>2
    <3> QED
      BY <2>2, <3>1 DEF ShardOf
  <2> QED
    BY <1>1, <2>1, <2>2
<1>9. NumShards > 1 => pgLedger
  BY <1>3 DEF RoutedAcquire
<1>10. routed' = routed \cup {new}
  BY <1>4
<1> HIDE DEF new
<1>11. LeasesStayHome'
  BY <1>8, <1>9, <1>10 DEF ShardInv, LeasesStayHome, LeaseRoutesHome, NoUnsafeAdmission
<1>12. /\ shardOn' \in [Instances -> [this : Int, num : Nat]]
       /\ \A i \in Instances : shardOn'[i].num = NumShards /\ shardOn'[i].this \in {SHARD_UNKNOWN, i}
  BY <1>1 DEF RoutedAcquire, ShardInv
<1> QED
  BY <1>7, <1>10, <1>11, <1>12 DEF ShardInv

(* Every delivery, acquire and header keeps the invariant. *)
LEMMA ShardStep == ShardInv /\ [ShardNext]_shardVars => ShardInv'
<1> SUFFICES ASSUME ShardInv, [ShardNext]_shardVars PROVE ShardInv'
  OBVIOUS
<1>1. NumShards \in Nat /\ Instances \subseteq Int
  BY ShardAssumption DEF Instances
<1>2. CASE UNCHANGED shardVars
  BY <1>2 DEF shardVars, ShardInv, LeasesStayHome, LeaseRoutesHome, NoUnsafeAdmission
<1>3. ASSUME NEW k \in Instances, ObserveCount(k) PROVE ShardInv'
  BY <1>1, <1>3 DEF ObserveCount, ShardInv, LeasesStayHome, LeaseRoutesHome, NoUnsafeAdmission
<1>4. ASSUME NEW k \in Instances, ObserveThis(k) PROVE ShardInv'
  BY <1>1, <1>4 DEF ObserveThis, ShardInv, LeasesStayHome, LeaseRoutesHome, NoUnsafeAdmission
<1>5. ASSUME NEW k \in Instances, ClientAcquire(k) PROVE ShardInv'
  BY <1>5, AcquireInv DEF ClientAcquire
<1>6. ASSUME NEW k \in Instances, NEW j \in RoutedJobs, DeliverQueued(k, j) PROVE ShardInv'
  <2>1. CASE RoutedAcquire(k, NumShards > 1, j)
    <3>1. (NumShards > 1) \in BOOLEAN
      OBVIOUS
    <3> QED
      BY <1>6, <2>1, <3>1, AcquireInv DEF DeliverQueued
  <2>2. CASE UNCHANGED <<shardOn, routed>>
    BY <1>6, <2>2 DEF DeliverQueued, ShardInv, LeasesStayHome, LeaseRoutesHome, NoUnsafeAdmission
  <2> QED
    BY <1>6, <2>1, <2>2 DEF DeliverQueued
<1>7. ASSUME NEW k \in Instances, NEW j \in RoutedJobs, DeliverCompleted(k, j) PROVE ShardInv'
  <2> DEFINE Dead(l) == IF l.job = j /\ l.home = k THEN [l EXCEPT !.live = FALSE] ELSE l
  <2>1. shardOn' = shardOn /\ pgLedger' = pgLedger
    BY <1>7 DEF DeliverCompleted
  <2>2. routed' = routed \/ routed' = {Dead(l) : l \in routed}
    BY <1>7 DEF DeliverCompleted
  <2>3. \A l \in Routed : /\ Dead(l) \in Routed
                          /\ Dead(l).known = l.known /\ Dead(l).exhausted = l.exhausted
                          /\ Dead(l).hash = l.hash /\ Dead(l).home = l.home
    BY DEF Routed
  <2> HIDE DEF Dead
  <2>4. CASE routed' = routed
    BY <2>1, <2>4 DEF ShardInv, LeasesStayHome, LeaseRoutesHome, NoUnsafeAdmission
  <2>5. CASE routed' = {Dead(l) : l \in routed}
    <3>1. routed' \subseteq Routed
      BY <2>3, <2>5 DEF ShardInv
    <3>2. LeaseRoutesHome'
      BY <2>3, <2>5 DEF ShardInv, LeasesStayHome, LeaseRoutesHome
    <3>3. NoUnsafeAdmission'
      BY <2>1, <2>5 DEF ShardInv, LeasesStayHome, NoUnsafeAdmission
    <3> QED
      BY <2>1, <3>1, <3>2, <3>3 DEF ShardInv, LeasesStayHome
  <2> QED
    BY <2>2, <2>4, <2>5
<1> QED
  BY <1>2, <1>3, <1>4, <1>5, <1>6, <1>7 DEF ShardNext

(* For every number of shards: the id of a lease routes back to the instance  *)
(* that minted it, and instances that cannot see each other's leases admit    *)
(* nothing.                                                                   *)
THEOREM LeasesAlwaysStayHome == ShardSpec => []LeasesStayHome
<1>1. ShardInit => ShardInv
  BY ShardAssumption DEF ShardInit, ShardInv, LeasesStayHome, LeaseRoutesHome, NoUnsafeAdmission,
     SHARD_UNKNOWN, BootCount, Instances
<1>2. ShardInv => LeasesStayHome
  BY DEF ShardInv
<1> QED
  BY <1>1, <1>2, ShardStep, PTL DEF ShardSpec
================================================================================
