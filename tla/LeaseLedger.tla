------------------------------ MODULE LeaseLedger ------------------------------
(****************************************************************************)
(* The control plane's lease ledger: crates/corelink-fabric/src/ledger.rs,   *)
(* with ledger/pending_cleanup.rs and ledger/provider_binding.rs.  It is the *)
(* state InMemoryInner keeps and the operations the two lock-based backends  *)
(* drive on it; every operation runs under one mutex, so each is one action. *)
(*                                                                           *)
(* A HashMap is a function whose domain is the set of keys present.  An      *)
(* operation that returns Err, Ok(false) or Ok(None) changes nothing, so     *)
(* only its successful outcome is an action: the guard is the condition      *)
(* under which the code gets past its early returns.                         *)
(*                                                                           *)
(* Callers stamp operations with their own wall clock (several instances     *)
(* share one ledger and clocks may step back), so an operation is given ANY  *)
(* instant of Times, never a global, monotone clock.                         *)
(****************************************************************************)
EXTENDS Integers, FiniteSets, FiniteSetsExt

CONSTANTS
  LeaseIds,          \* lease ids the control plane may mint
  Tenants,
  ProviderRefs,      \* durable provider references a box may be bound to
  Checkpoints,       \* opaque envelope checkpoints
  Times,             \* wall-clock readings, in ms
  MonthMs,           \* length of an accounting period, in the unit of Times
  MaxPendingAge,     \* age after which the sweep takes a Pending row
  Vcpus,             \* vCPU counts of the boxes on offer
  Ttls,              \* clamped lease TTLs
  MaxConcurrency,    \* MaxConcurrency[t]: the plan's concurrency cap
  Ceiling,           \* Ceiling[t]: the plan's vCPU-ms ceiling, 0 when disabled
  MaxLedgerVcpuMs    \* largest value a ledger column holds

ASSUME TimesAssumption    == Times \subseteq Nat
ASSUME PeriodAssumption   == MonthMs \in Nat \ {0} /\ MaxPendingAge \in Nat
ASSUME ComputeAssumption  == Vcpus \subseteq Nat /\ Ttls \subseteq Nat
ASSUME PlanAssumption     == /\ MaxConcurrency \in [Tenants -> Nat]
                             /\ Ceiling \in [Tenants -> Nat]
ASSUME BoundAssumption    == MaxLedgerVcpuMs \in Nat

VARIABLES
  records,       \* lease id -> LeaseRecord
  reservations,  \* lease id -> LeaseReservation
  accruals,      \* <<tenant, period>> -> vCPU-ms charged so far (0 when absent)
  checkpoints,   \* lease id -> envelope checkpoint
  claims         \* lease ids fenced by a pending-cleanup claim

ledgerVars == <<records, reservations, accruals, checkpoints, claims>>

--------------------------------------------------------------------------------
(* Data *)

Terminal == {"Released", "Expired", "Crashed"}

LeaseState == {"Pending", "Held"} \cup Terminal

(* box_ref is "box:<lease id>" until a provider reference is bound.  A lease  *)
(* not Held yet has no billing_acquired_at_ms (None).                         *)
DefaultBoxRef == "default"
NoTime == -1

LeaseRecord == [ tenant                 : Tenants,
                 state                  : LeaseState,
                 box_ref                : ProviderRefs \cup {DefaultBoxRef},
                 created_at_ms          : Times,
                 billing_acquired_at_ms : Times \cup {NoTime} ]

(* Calendar months: equal periods of MonthMs. *)
PeriodKey(ms) == ms \div MonthMs

Periods == {PeriodKey(ms) : ms \in Times}

(* accrued_at_ms is only ever tested for being set: the once-only latch. *)
LeaseReservation == [ box_vcpu_count     : Nat,
                      accrual_period_key : Periods,
                      reserved_vcpu_ms   : Nat,
                      accrued            : BOOLEAN ]

(* HashMap::new, HashMap::insert and HashMap::remove *)
EmptyMap == [k \in {} |-> 0]

Insert(map, key, value) ==
  [k \in DOMAIN map \cup {key} |-> IF k = key THEN value ELSE map[k]]

Delete(map, key) == [k \in DOMAIN map \ {key} |-> map[k]]

SmallerOf(a, b) == IF a <= b THEN a ELSE b

SaturatingSub(a, b) == IF a >= b THEN a - b ELSE 0

--------------------------------------------------------------------------------
(* Admission *)

IsActive(rec) == rec.state \in {"Pending", "Held"}

Active(t) == {l \in DOMAIN records : records[l].tenant = t /\ IsActive(records[l])}

(* What the tenant's active leases of one period have reserved between them. *)
Booked(t, period) ==
  {l \in Active(t) \cap DOMAIN reservations : reservations[l].accrual_period_key = period}

Sigma(t, period) ==
  SumFunctionOnSet([l \in DOMAIN reservations |-> reservations[l].reserved_vcpu_ms],
                   Booked(t, period))

(* The gate of a box with `vcpu' cores leased for `ttl': build_compute_gate.  *)
(* ceiling_vcpu_ms = 0 stands for both a disabled ceiling and no gate.        *)
ComputeGate(ceiling, vcpu, ttl, now) ==
  [ period_key           |-> PeriodKey(now),
    ceiling_vcpu_ms      |-> ceiling,
    box_vcpu_count       |-> vcpu,
    new_reserved_vcpu_ms |-> vcpu * ttl ]

Gates(t, now) ==
  {g \in {ComputeGate(c, v, ttl, now) : c \in {0, Ceiling[t]}, v \in Vcpus, ttl \in Ttls} :
      g.new_reserved_vcpu_ms <= MaxLedgerVcpuMs}

(* Mutant: two admissions that each fit alone may pass the ceiling together. *)
OverCeilingIgnoringReserved(t, gate) ==
  accruals[<<t, gate.period_key>>] + gate.new_reserved_vcpu_ms > gate.ceiling_vcpu_ms

OverCeiling(t, gate) ==
  accruals[<<t, gate.period_key>>] + Sigma(t, gate.period_key) + gate.new_reserved_vcpu_ms
    > gate.ceiling_vcpu_ms

(* Mutant: only Held leases count, so a burst of Pending ones passes the cap. *)
AtCapHeldOnly(t) ==
  Cardinality({l \in Active(t) : records[l].state = "Held"}) >= MaxConcurrency[t]

AtCap(t) == Cardinality(Active(t)) >= MaxConcurrency[t]

(* The ceiling is tested before the cap: over both is OverCompute, a refusal, *)
(* never OverConcurrency, which a caller may queue.                           *)
AdmitDecision(t, gate) ==
  IF gate.ceiling_vcpu_ms > 0 /\ OverCeiling(t, gate) THEN "OverCompute"
  ELSE IF AtCap(t) THEN "OverConcurrency" ELSE "Admitted"

PendingRecord(t, now) ==
  [ tenant |-> t, state |-> "Pending", box_ref |-> DefaultBoxRef,
    created_at_ms |-> now, billing_acquired_at_ms |-> NoTime ]

Reservation(gate) ==
  [ box_vcpu_count     |-> gate.box_vcpu_count,
    accrual_period_key |-> gate.period_key,
    reserved_vcpu_ms   |-> gate.new_reserved_vcpu_ms,
    accrued            |-> FALSE ]

(* try_admit_with_compute; with a ceiling of 0 it is try_admit. *)
TryAdmitWithCompute(l, t, gate, now) ==
  /\ l \notin DOMAIN records
  /\ AdmitDecision(t, gate) = "Admitted"
  /\ records' = Insert(records, l, PendingRecord(t, now))
  /\ reservations' = IF gate.ceiling_vcpu_ms = 0 THEN reservations
                     ELSE Insert(reservations, l, Reservation(gate))
  /\ UNCHANGED <<accruals, checkpoints, claims>>

--------------------------------------------------------------------------------
(* Transitions and the terminal accrual *)

TransitionIsLegal(from, to) ==
  \/ from = "Pending" /\ to = "Held"
  \/ from = "Held" /\ to \in Terminal

(* Mutant: the billing stamp follows every transition. *)
ApplyTransitionRestamping(rec, to, now) ==
  [rec EXCEPT !.state = to, !.billing_acquired_at_ms = now]

ApplyTransition(rec, to, now) ==
  [rec EXCEPT !.state = to,
              !.billing_acquired_at_ms = IF to = "Held" /\ @ = NoTime THEN now ELSE @]

Actual(rec, res, now) ==
  SmallerOf(res.box_vcpu_count * SaturatingSub(now, rec.created_at_ms), res.reserved_vcpu_ms)

Unsettled(l) == l \in DOMAIN reservations /\ ~reservations[l].accrued

Charge(total, actual) == SmallerOf(total + actual, MaxLedgerVcpuMs)

(* Mutant: the fold is not latched. *)
LatchForgotten(res) == res

Latch(res) == [res EXCEPT !.accrued = TRUE]

(* The whole fold, once per lease: charge the period, latch the reservation. *)
AccrueOnTerminal(l, to, now) ==
  IF to \in Terminal /\ Unsettled(l)
  THEN /\ accruals' = [accruals EXCEPT
            ![<<records[l].tenant, reservations[l].accrual_period_key>>] =
               Charge(@, Actual(records[l], reservations[l], now))]
       /\ reservations' = [reservations EXCEPT ![l] = Latch(@)]
  ELSE UNCHANGED <<accruals, reservations>>

(* Mutant: transition does not look at the cleanup claim. *)
CanTransitionUnfenced(l, to) ==
  /\ l \in DOMAIN records
  /\ TransitionIsLegal(records[l].state, to)

CanTransition(l, to) ==
  /\ l \notin claims
  /\ l \in DOMAIN records
  /\ TransitionIsLegal(records[l].state, to)

Transition(l, to, now) ==
  /\ CanTransition(l, to)
  /\ records' = [records EXCEPT ![l] = ApplyTransition(@, to, now)]
  /\ AccrueOnTerminal(l, to, now)
  /\ UNCHANGED <<checkpoints, claims>>

--------------------------------------------------------------------------------
(* Provider binding and envelope checkpoints *)

(* Mutant: a binding may land on a row whose cleanup has begun. *)
CanBindUnfenced(l, ref) ==
  /\ l \in DOMAIN records
  /\ records[l].state = "Pending"
  /\ records[l].box_ref \in {DefaultBoxRef, ref}

CanBind(l, ref) ==
  /\ l \notin claims
  /\ l \in DOMAIN records
  /\ records[l].state = "Pending"
  /\ records[l].box_ref \in {DefaultBoxRef, ref}

BindProviderRef(l, ref) ==
  /\ CanBind(l, ref)
  /\ records' = [records EXCEPT ![l].box_ref = ref]
  /\ UNCHANGED <<reservations, accruals, checkpoints, claims>>

SetEnvelopeCheckpoint(l, c) ==
  /\ l \in DOMAIN records
  /\ checkpoints' = Insert(checkpoints, l, c)
  /\ UNCHANGED <<records, reservations, accruals, claims>>

--------------------------------------------------------------------------------
(* Cleanup of Pending rows: claim, then (after the provider confirmed that no *)
(* box is left) finish.  A claim is never given back.                         *)

IsPending(l) == l \in DOMAIN records /\ records[l].state = "Pending"

Claimable(l) == IsPending(l)

ClaimPendingCleanup(l) ==
  /\ Claimable(l)
  /\ claims' = claims \cup {l}
  /\ UNCHANGED <<records, reservations, accruals, checkpoints>>

StalePending(now) ==
  {l \in DOMAIN records :
     /\ IsPending(l)
     /\ \/ records[l].created_at_ms < SaturatingSub(now, MaxPendingAge)
        \/ l \in claims}

ClaimStalePendingCleanup(now) ==
  /\ claims' = claims \cup StalePending(now)
  /\ UNCHANGED <<records, reservations, accruals, checkpoints>>

(* Deletes a row with everything the side tables hold for it. *)
Erase(l) ==
  /\ records' = Delete(records, l)
  /\ reservations' = Delete(reservations, l)
  /\ checkpoints' = Delete(checkpoints, l)
  /\ claims' = claims \ {l}
  /\ UNCHANGED accruals

CanFinish(l) == l \in claims /\ IsPending(l)

FinishPendingCleanup(l) == CanFinish(l) /\ Erase(l)

(* Mutant: remove drops a Held lease whose compute was never charged. *)
CanRemoveAny(l) == l \notin claims /\ l \in DOMAIN records

CanRemove(l) ==
  /\ l \notin claims
  /\ l \in DOMAIN records
  /\ ~(records[l].state = "Held" /\ l \in DOMAIN reservations)

Remove(l) == CanRemove(l) /\ Erase(l)

RemoveIfPending(l) == IsPending(l) /\ Remove(l)

--------------------------------------------------------------------------------
(* The specification *)

LedgerInit ==
  /\ records = EmptyMap
  /\ reservations = EmptyMap
  /\ accruals = [tp \in Tenants \X Periods |-> 0]
  /\ checkpoints = EmptyMap
  /\ claims = {}

Admit(l) ==
  \E t \in Tenants, now \in Times : \E gate \in Gates(t, now) :
     TryAdmitWithCompute(l, t, gate, now)

Move(l) == \E to \in LeaseState, now \in Times : Transition(l, to, now)

LedgerNext ==
  \/ \E l \in LeaseIds :
       \/ Admit(l)
       \/ Move(l)
       \/ \E ref \in ProviderRefs : BindProviderRef(l, ref)
       \/ \E c \in Checkpoints : SetEnvelopeCheckpoint(l, c)
       \/ ClaimPendingCleanup(l)
       \/ FinishPendingCleanup(l)
       \/ Remove(l)
       \/ RemoveIfPending(l)
  \/ \E now \in Times : ClaimStalePendingCleanup(now)

LedgerSpec == LedgerInit /\ [][LedgerNext]_ledgerVars

--------------------------------------------------------------------------------
(* Properties *)

IsMap(map, keys, values) ==
  /\ map = [k \in DOMAIN map |-> map[k]]
  /\ DOMAIN map \subseteq keys
  /\ \A k \in DOMAIN map : map[k] \in values

(* Every table holds well-formed values under known keys; in particular no    *)
(* charge is ever negative, whatever the callers' clocks read (saturating_sub *)
(* in accrue_on_terminal).                                                    *)
TypeOK ==
  /\ IsMap(records, LeaseIds, LeaseRecord)
  /\ IsMap(reservations, LeaseIds, LeaseReservation)
  /\ accruals \in [Tenants \X Periods -> Nat]
  /\ IsMap(checkpoints, LeaseIds, Checkpoints)
  /\ claims \subseteq LeaseIds

(* A tenant never has more Pending and Held leases than its plan allows:      *)
(* try_admit counts and inserts in one step, and nothing revives a lease.     *)
ConcurrencyCap == \A t \in Tenants : Cardinality(Active(t)) <= MaxConcurrency[t]

(* What the tenant has been charged in a period plus what its active leases   *)
(* still hold reserved in it.                                                 *)
Committed(t, period) == accruals[<<t, period>>] + Sigma(t, period)

(* The hard monthly ceiling: no history of admissions, overdue terminations,  *)
(* rollbacks and clock steps commits more compute than the plan pays for.     *)
(* (ComputeGate: accrued + reserved + new <= ceiling.)                        *)
ComputeCeiling ==
  \A t \in Tenants, p \in Periods : Ceiling[t] > 0 => Committed(t, p) <= Ceiling[t]

(* Side tables never outlive their row, so a lease admitted later under the   *)
(* same id cannot inherit a reservation, a checkpoint or a cleanup claim      *)
(* (remove, finish_pending_cleanup).                                          *)
NoOrphans ==
  /\ DOMAIN reservations \subseteq DOMAIN records
  /\ DOMAIN checkpoints \subseteq DOMAIN records
  /\ claims \subseteq DOMAIN records

(* A cleanup claim only ever fences a Pending row: the box a finished cleanup *)
(* destroyed cannot belong to a lease some client holds.                      *)
ClaimsArePending == \A l \in claims : IsPending(l)

(* Compute is charged exactly when the lease has ended: a terminal row with   *)
(* a reservation has been charged, a live one has not (accrue_on_terminal).   *)
ChargedIffTerminal ==
  \A l \in DOMAIN reservations :
     reservations[l].accrued <=> records[l].state \in Terminal

(* Every row that was ever Held carries the instant billing started, and no   *)
(* other row does (apply_transition stamps the first Held).                   *)
StampedIffHeld ==
  \A l \in DOMAIN records :
     records[l].billing_acquired_at_ms = NoTime <=> records[l].state = "Pending"

(* Once claimed, a row changes in no way at all until its cleanup deletes it: *)
(* no transition, binding or rollback slips in between claim and finish.      *)
ClaimedRowsFrozen ==
  [][\A l \in claims : l \in DOMAIN records' =>
        /\ records'[l] = records[l]
        /\ l \in claims']_ledgerVars

(* The instant billing started, once stamped, is never moved, and a lease     *)
(* that has ended keeps its state for as long as its row exists.              *)
HistoryIsStable ==
  [][\A l \in DOMAIN records \cap DOMAIN records' :
        /\ records[l].billing_acquired_at_ms # NoTime =>
             records'[l].billing_acquired_at_ms = records[l].billing_acquired_at_ms
        /\ records[l].state \in Terminal => records'[l].state = records[l].state]_ledgerVars

(* A lease that has been Held and has a reservation leaves the ledger only    *)
(* after its compute was charged (remove refuses a Held accounted lease).     *)
NoUnchargedDisappearance ==
  [][\A l \in DOMAIN reservations \ DOMAIN reservations' :
        records[l].state # "Pending" => reservations[l].accrued]_ledgerVars

================================================================================
