--------------------------- MODULE LeaseLedgerProofs ---------------------------
(****************************************************************************)
(* Machine-checked proofs about LeaseLedger, for every set of leases,        *)
(* tenants, plans and clock readings.                                        *)
(*                                                                           *)
(* No single property of the ledger is inductive: that a claim only fences   *)
(* Pending rows needs the fence in transition, that compute is charged       *)
(* exactly at the end needs side tables that never outlive their row, and so *)
(* on.  LedgerInv is the conjunction that is.                                *)
(****************************************************************************)
EXTENDS LeaseLedger, FiniteSums

LedgerInv ==
  /\ TypeOK
  /\ NoOrphans
  /\ ClaimsArePending
  /\ ChargedIffTerminal
  /\ StampedIffHeld

--------------------------------------------------------------------------------
(* Maps *)

(* An in-place update (get_mut) replaces the value of an entry that exists.   *)
LEMMA UpdateMap ==
  ASSUME NEW map, NEW K, NEW V, NEW key \in DOMAIN map, NEW value \in V, IsMap(map, K, V)
  PROVE  /\ IsMap([map EXCEPT ![key] = value], K, V)
         /\ DOMAIN [map EXCEPT ![key] = value] = DOMAIN map
         /\ [map EXCEPT ![key] = value][key] = value
         /\ \A k \in DOMAIN map \ {key} : [map EXCEPT ![key] = value][k] = map[k]
  BY DEF IsMap

--------------------------------------------------------------------------------
(* Values *)

(* The charge for a lease is a natural number whatever the two clock readings *)
(* are, and never more than the lease had reserved (accrue_on_terminal).      *)
LEMMA ActualBounded ==
  ASSUME NEW rec \in LeaseRecord, NEW res \in LeaseReservation, NEW now \in Times
  PROVE  /\ Actual(rec, res, now) \in Nat
         /\ Actual(rec, res, now) <= res.reserved_vcpu_ms
<1>1. now \in Nat /\ rec.created_at_ms \in Nat
  BY TimesAssumption DEF LeaseRecord
<1>2. SaturatingSub(now, rec.created_at_ms) \in Nat
  BY <1>1 DEF SaturatingSub
<1>3. res.box_vcpu_count \in Nat /\ res.reserved_vcpu_ms \in Nat
  BY DEF LeaseReservation
<1>4. res.box_vcpu_count * SaturatingSub(now, rec.created_at_ms) \in Nat
  BY <1>2, <1>3
<1> QED
  BY <1>3, <1>4 DEF Actual, SmallerOf

(* A gate built from a tenant's plan (build_compute_gate) reserves a natural  *)
(* number in the period of its own instant.                                   *)
LEMMA GateType ==
  ASSUME NEW t \in Tenants, NEW now \in Times, NEW gate \in Gates(t, now)
  PROVE  /\ gate.ceiling_vcpu_ms \in {0, Ceiling[t]}
         /\ Reservation(gate) \in LeaseReservation
         /\ ~Reservation(gate).accrued
<1>1. PICK c \in {0, Ceiling[t]}, v \in Vcpus, ttl \in Ttls : gate = ComputeGate(c, v, ttl, now)
  BY DEF Gates
<1>2. v \in Nat /\ ttl \in Nat /\ v * ttl \in Nat
  BY ComputeAssumption
<1>3. PeriodKey(now) \in Periods
  BY DEF Periods
<1> QED
  BY <1>1, <1>2, <1>3 DEF ComputeGate, Reservation, LeaseReservation

(* A freshly admitted row is a Pending record without a billing stamp.        *)
LEMMA PendingRecordType ==
  ASSUME NEW t \in Tenants, NEW now \in Times
  PROVE  /\ PendingRecord(t, now) \in LeaseRecord
         /\ PendingRecord(t, now).state = "Pending"
         /\ PendingRecord(t, now).tenant = t
         /\ PendingRecord(t, now).billing_acquired_at_ms = NoTime
  BY DEF PendingRecord, LeaseRecord, LeaseState

(* A transition (apply_transition) changes the state and, the first time the  *)
(* lease is Held, the billing stamp.                                          *)
LEMMA ApplyTransitionType ==
  ASSUME NEW rec \in LeaseRecord, NEW to \in LeaseState, NEW now \in Times
  PROVE  /\ ApplyTransition(rec, to, now) \in LeaseRecord
         /\ ApplyTransition(rec, to, now).state = to
         /\ ApplyTransition(rec, to, now).tenant = rec.tenant
         /\ ApplyTransition(rec, to, now).billing_acquired_at_ms =
              IF to = "Held" /\ rec.billing_acquired_at_ms = NoTime
              THEN now ELSE rec.billing_acquired_at_ms
  BY DEF ApplyTransition, LeaseRecord

--------------------------------------------------------------------------------
(* What each operation does to the tables, for a well-typed ledger.  These    *)
(* lemmas are all later proofs use of the operations' definitions.            *)

(* try_admit_with_compute inserts one Pending row and at most its reservation.*)
LEMMA AdmitEffect ==
  ASSUME TypeOK, NEW l \in LeaseIds, NEW t \in Tenants, NEW now \in Times,
         NEW gate \in Gates(t, now), TryAdmitWithCompute(l, t, gate, now)
  PROVE  /\ TypeOK'
         /\ l \notin DOMAIN records
         /\ ~AtCap(t)
         /\ DOMAIN records' = DOMAIN records \cup {l}
         /\ records'[l] = PendingRecord(t, now)
         /\ \A k \in DOMAIN records : records'[k] = records[k]
         /\ DOMAIN reservations \subseteq DOMAIN reservations'
         /\ DOMAIN reservations' \subseteq DOMAIN reservations \cup {l}
         /\ \A k \in DOMAIN reservations \ {l} : reservations'[k] = reservations[k]
         /\ l \in DOMAIN reservations' /\ l \notin DOMAIN reservations
              => ~reservations'[l].accrued
<1>1. /\ IsMap(records', LeaseIds, LeaseRecord)
      /\ DOMAIN records' = DOMAIN records \cup {l}
      /\ records'[l] = PendingRecord(t, now)
      /\ \A k \in DOMAIN records \ {l} : records'[k] = records[k]
  BY PendingRecordType DEF TypeOK, TryAdmitWithCompute, IsMap, Insert
<1>2. l \notin DOMAIN records
  BY DEF TryAdmitWithCompute
<1>3. ~AtCap(t)
  BY DEF TryAdmitWithCompute, AdmitDecision
<1>4. CASE gate.ceiling_vcpu_ms = 0
  <2>1. reservations' = reservations
    BY <1>4 DEF TryAdmitWithCompute
  <2> QED
    BY <1>1, <1>2, <1>3, <2>1 DEF TypeOK, TryAdmitWithCompute
<1>5. CASE gate.ceiling_vcpu_ms # 0
  <2>1. reservations' = Insert(reservations, l, Reservation(gate))
    BY <1>5 DEF TryAdmitWithCompute
  <2>2. /\ IsMap(reservations', LeaseIds, LeaseReservation)
        /\ DOMAIN reservations' = DOMAIN reservations \cup {l}
        /\ reservations'[l] = Reservation(gate)
        /\ \A k \in DOMAIN reservations \ {l} : reservations'[k] = reservations[k]
    BY <2>1, GateType DEF TypeOK, IsMap, Insert
  <2>3. ~reservations'[l].accrued
    BY <2>2, GateType
  <2> QED
    BY <1>1, <1>2, <1>3, <2>2, <2>3 DEF TypeOK, TryAdmitWithCompute
<1> QED
  BY <1>4, <1>5

(* transition moves one unfenced row along the legal matrix and, when it ends *)
(* the lease, settles its reservation.                                        *)
LEMMA TransitionEffect ==
  ASSUME TypeOK, NoOrphans, NEW l \in LeaseIds, NEW to \in LeaseState, NEW now \in Times,
         Transition(l, to, now)
  PROVE  /\ TypeOK'
         /\ l \notin claims /\ l \in DOMAIN records
         /\ TransitionIsLegal(records[l].state, to)
         /\ DOMAIN records' = DOMAIN records
         /\ records'[l] = ApplyTransition(records[l], to, now)
         /\ \A k \in DOMAIN records \ {l} : records'[k] = records[k]
         /\ DOMAIN reservations' = DOMAIN reservations
         /\ \A k \in DOMAIN reservations \ {l} : reservations'[k] = reservations[k]
         /\ l \in DOMAIN reservations =>
              reservations'[l].accrued = (reservations[l].accrued \/ to \in Terminal)
<1>1. /\ l \notin claims /\ l \in DOMAIN records
      /\ TransitionIsLegal(records[l].state, to)
  BY DEF Transition, CanTransition
<1>2. records[l] \in LeaseRecord
  BY <1>1 DEF TypeOK, IsMap
<1>3. records' = [records EXCEPT ![l] = ApplyTransition(records[l], to, now)]
  BY <1>1 DEF Transition
<1>4. /\ IsMap(records', LeaseIds, LeaseRecord)
      /\ DOMAIN records' = DOMAIN records
      /\ records'[l] = ApplyTransition(records[l], to, now)
      /\ \A k \in DOMAIN records \ {l} : records'[k] = records[k]
  BY <1>1, <1>2, <1>3, ApplyTransitionType, UpdateMap DEF TypeOK
<1>5. checkpoints' = checkpoints /\ claims' = claims /\ AccrueOnTerminal(l, to, now)
  BY DEF Transition
<1>6. CASE ~(to \in Terminal /\ Unsettled(l))
  <2>1. accruals' = accruals /\ reservations' = reservations
    BY <1>5, <1>6 DEF AccrueOnTerminal
  <2>2. l \in DOMAIN reservations => reservations[l].accrued \in BOOLEAN
    BY DEF TypeOK, IsMap, LeaseReservation
  <2>3. l \in DOMAIN reservations /\ to \in Terminal => reservations[l].accrued
    BY <1>6 DEF Unsettled
  <2> QED
    BY <1>1, <1>4, <1>5, <2>1, <2>2, <2>3 DEF TypeOK
<1>7. CASE to \in Terminal /\ Unsettled(l)
  <2> DEFINE tp == <<records[l].tenant, reservations[l].accrual_period_key>>
             total == Charge(accruals[tp], Actual(records[l], reservations[l], now))
  <2>1. l \in DOMAIN reservations /\ reservations[l] \in LeaseReservation
    BY <1>7 DEF Unsettled, TypeOK, IsMap
  <2>2. tp \in Tenants \X Periods
    BY <1>2, <2>1 DEF LeaseRecord, LeaseReservation
  <2>3. accruals[tp] \in Nat
    BY <2>2 DEF TypeOK
  <2>4. total \in Nat
    BY <1>2, <2>1, <2>3, ActualBounded, BoundAssumption DEF Charge, SmallerOf
  <2>5. accruals' = [accruals EXCEPT ![tp] = total]
    BY <1>5, <1>7 DEF AccrueOnTerminal
  <2>6. accruals' \in [Tenants \X Periods -> Nat]
    BY <2>4, <2>5 DEF TypeOK
  <2>7. reservations' = [reservations EXCEPT ![l] = Latch(reservations[l])]
    BY <1>5, <1>7, <2>1 DEF AccrueOnTerminal
  <2>8. Latch(reservations[l]) \in LeaseReservation /\ Latch(reservations[l]).accrued = TRUE
    BY <2>1 DEF Latch, LeaseReservation
  <2>9. /\ IsMap(reservations', LeaseIds, LeaseReservation)
        /\ DOMAIN reservations' = DOMAIN reservations
        /\ reservations'[l] = Latch(reservations[l])
        /\ \A k \in DOMAIN reservations \ {l} : reservations'[k] = reservations[k]
    BY <2>1, <2>7, <2>8, UpdateMap DEF TypeOK
  <2> QED
    BY <1>1, <1>4, <1>5, <1>7, <2>6, <2>8, <2>9 DEF TypeOK
<1> QED
  BY <1>6, <1>7

(* bind_provider_ref changes the box reference of one unfenced Pending row.   *)
LEMMA BindEffect ==
  ASSUME TypeOK, NEW l \in LeaseIds, NEW ref \in ProviderRefs, BindProviderRef(l, ref)
  PROVE  /\ TypeOK'
         /\ l \notin claims /\ l \in DOMAIN records
         /\ DOMAIN records' = DOMAIN records
         /\ \A k \in DOMAIN records :
              /\ records'[k].state = records[k].state
              /\ records'[k].tenant = records[k].tenant
              /\ records'[k].billing_acquired_at_ms = records[k].billing_acquired_at_ms
              /\ k # l => records'[k] = records[k]
<1> DEFINE rec == [records[l] EXCEPT !.box_ref = ref]
<1>1. l \notin claims /\ l \in DOMAIN records
  BY DEF BindProviderRef, CanBind
<1>2. records[l] \in LeaseRecord
  BY <1>1 DEF TypeOK, IsMap
<1>3. /\ rec \in LeaseRecord
      /\ rec.state = records[l].state
      /\ rec.tenant = records[l].tenant
      /\ rec.billing_acquired_at_ms = records[l].billing_acquired_at_ms
  BY <1>2 DEF LeaseRecord
<1>4. records' = [records EXCEPT ![l] = rec]
  BY DEF BindProviderRef
<1> HIDE DEF rec
<1>5. /\ IsMap(records', LeaseIds, LeaseRecord)
      /\ DOMAIN records' = DOMAIN records
      /\ records'[l] = rec
      /\ \A k \in DOMAIN records \ {l} : records'[k] = records[k]
  BY <1>1, <1>3, <1>4, UpdateMap DEF TypeOK
<1> QED
  BY <1>1, <1>3, <1>5 DEF TypeOK, BindProviderRef

(* Erasing a row (remove, finish_pending_cleanup) deletes it from every table *)
(* but the accruals.                                                          *)
LEMMA EraseEffect ==
  ASSUME TypeOK, NEW l \in LeaseIds, Erase(l)
  PROVE  /\ TypeOK'
         /\ DOMAIN records' = DOMAIN records \ {l}
         /\ \A k \in DOMAIN records \ {l} : records'[k] = records[k]
         /\ DOMAIN reservations' = DOMAIN reservations \ {l}
         /\ \A k \in DOMAIN reservations \ {l} : reservations'[k] = reservations[k]
         /\ DOMAIN checkpoints' = DOMAIN checkpoints \ {l}
         /\ claims' = claims \ {l}
  BY DEF TypeOK, Erase, IsMap, Delete

--------------------------------------------------------------------------------
(* The inductive invariant *)

(* The empty ledger satisfies the invariant.                                  *)
LEMMA LedgerInvInit == LedgerInit => LedgerInv
<1> SUFFICES ASSUME LedgerInit PROVE LedgerInv
  OBVIOUS
<1>1. /\ DOMAIN records = {} /\ DOMAIN reservations = {} /\ DOMAIN checkpoints = {}
      /\ claims = {}
      /\ accruals = [tp \in Tenants \X Periods |-> 0]
  BY DEF LedgerInit, EmptyMap
<1>2. TypeOK
  BY <1>1 DEF TypeOK, IsMap, LedgerInit, EmptyMap
<1> QED
  BY <1>1, <1>2 DEF LedgerInv, NoOrphans, ClaimsArePending, ChargedIffTerminal, StampedIffHeld

(* An admission (try_admit_with_compute) preserves the invariant: nothing was *)
(* left over under the new id.                                                *)
LEMMA AdmitInv ==
  ASSUME LedgerInv, NEW l \in LeaseIds, Admit(l)
  PROVE  LedgerInv'
<1>1. PICK t \in Tenants, now \in Times : \E gate \in Gates(t, now) :
         TryAdmitWithCompute(l, t, gate, now)
  BY DEF Admit
<1>2. PICK gate \in Gates(t, now) : TryAdmitWithCompute(l, t, gate, now)
  BY <1>1
<1>3. checkpoints' = checkpoints /\ claims' = claims
  BY <1>2 DEF TryAdmitWithCompute
<1>4. /\ TypeOK'
      /\ l \notin DOMAIN records
      /\ DOMAIN records' = DOMAIN records \cup {l}
      /\ records'[l] = PendingRecord(t, now)
      /\ \A k \in DOMAIN records : records'[k] = records[k]
      /\ DOMAIN reservations \subseteq DOMAIN reservations'
      /\ DOMAIN reservations' \subseteq DOMAIN reservations \cup {l}
      /\ \A k \in DOMAIN reservations \ {l} : reservations'[k] = reservations[k]
      /\ l \in DOMAIN reservations' /\ l \notin DOMAIN reservations => ~reservations'[l].accrued
  BY <1>2, AdmitEffect DEF LedgerInv
<1>5. l \notin DOMAIN reservations /\ l \notin claims
  BY <1>4 DEF LedgerInv, NoOrphans
<1>6. records'[l].state = "Pending" /\ records'[l].billing_acquired_at_ms = NoTime
  BY <1>4, PendingRecordType
<1>7. NoOrphans'
  BY <1>3, <1>4 DEF LedgerInv, NoOrphans
<1>8. ClaimsArePending'
  BY <1>3, <1>4, <1>5 DEF LedgerInv, NoOrphans, ClaimsArePending, IsPending
<1>9. ChargedIffTerminal'
  <2> SUFFICES ASSUME NEW k \in DOMAIN reservations'
               PROVE  reservations'[k].accrued <=> records'[k].state \in Terminal
    BY DEF ChargedIffTerminal
  <2>1. CASE k = l
    BY <1>4, <1>5, <1>6, <2>1 DEF Terminal
  <2>2. CASE k # l
    <3>1. k \in DOMAIN reservations /\ k \in DOMAIN records
      BY <1>4, <2>2 DEF LedgerInv, NoOrphans
    <3>2. reservations'[k] = reservations[k] /\ records'[k] = records[k]
      BY <1>4, <2>2, <3>1
    <3> QED
      BY <3>1, <3>2 DEF LedgerInv, ChargedIffTerminal
  <2> QED
    BY <2>1, <2>2
<1>10. StampedIffHeld'
  BY <1>4, <1>6 DEF LedgerInv, StampedIffHeld
<1> QED
  BY <1>4, <1>7, <1>8, <1>9, <1>10 DEF LedgerInv

(* A transition preserves the invariant: a fenced row does not move, and the  *)
(* step that ends a lease is the step that charges it.                        *)
LEMMA MoveInv ==
  ASSUME LedgerInv, NEW l \in LeaseIds, Move(l)
  PROVE  LedgerInv'
<1>1. PICK to \in LeaseState, now \in Times : Transition(l, to, now)
  BY DEF Move
<1>2. checkpoints' = checkpoints /\ claims' = claims
  BY <1>1 DEF Transition
<1>3. /\ TypeOK'
      /\ l \notin claims /\ l \in DOMAIN records
      /\ TransitionIsLegal(records[l].state, to)
      /\ DOMAIN records' = DOMAIN records
      /\ records'[l] = ApplyTransition(records[l], to, now)
      /\ \A k \in DOMAIN records \ {l} : records'[k] = records[k]
      /\ DOMAIN reservations' = DOMAIN reservations
      /\ \A k \in DOMAIN reservations \ {l} : reservations'[k] = reservations[k]
      /\ l \in DOMAIN reservations =>
           reservations'[l].accrued = (reservations[l].accrued \/ to \in Terminal)
  BY <1>1, TransitionEffect DEF LedgerInv
<1>4. records[l] \in LeaseRecord
  BY <1>3 DEF LedgerInv, TypeOK, IsMap
<1>5. /\ records'[l].state = to
      /\ records'[l].billing_acquired_at_ms =
           IF to = "Held" /\ records[l].billing_acquired_at_ms = NoTime
           THEN now ELSE records[l].billing_acquired_at_ms
  BY <1>3, <1>4, ApplyTransitionType
<1>6. to # "Pending"
  BY <1>3 DEF TransitionIsLegal, Terminal
<1>7. NoOrphans'
  BY <1>2, <1>3 DEF LedgerInv, NoOrphans
<1>8. ClaimsArePending'
  BY <1>2, <1>3 DEF LedgerInv, ClaimsArePending, IsPending
<1>9. ChargedIffTerminal'
  <2> SUFFICES ASSUME NEW k \in DOMAIN reservations'
               PROVE  reservations'[k].accrued <=> records'[k].state \in Terminal
    BY DEF ChargedIffTerminal
  <2>0. k \in DOMAIN reservations /\ k \in DOMAIN records
    BY <1>3 DEF LedgerInv, NoOrphans
  <2>1. reservations[k].accrued <=> records[k].state \in Terminal
    BY <2>0 DEF LedgerInv, ChargedIffTerminal
  <2>2. CASE k = l
    <3>1. records[l].state \notin Terminal
      BY <1>3 DEF TransitionIsLegal, Terminal
    <3>2. reservations'[l].accrued <=> to \in Terminal
      BY <1>3, <2>0, <2>1, <2>2, <3>1
    <3> QED
      BY <1>5, <2>2, <3>2
  <2>3. CASE k # l
    BY <1>3, <2>0, <2>1, <2>3
  <2> QED
    BY <2>2, <2>3
<1>10. StampedIffHeld'
  <2>1. now # NoTime
    BY TimesAssumption DEF NoTime
  <2>2. records[l].state = "Pending" <=> to = "Held"
    BY <1>3 DEF TransitionIsLegal, Terminal
  <2>3. records'[l].billing_acquired_at_ms # NoTime
    BY <1>3, <1>5, <2>1, <2>2 DEF LedgerInv, StampedIffHeld
  <2> QED
    BY <1>3, <1>5, <1>6, <2>3 DEF LedgerInv, StampedIffHeld
<1> QED
  BY <1>3, <1>7, <1>8, <1>9, <1>10 DEF LedgerInv

(* Binding a provider reference preserves the invariant.                      *)
LEMMA BindInv ==
  ASSUME LedgerInv, NEW l \in LeaseIds, NEW ref \in ProviderRefs, BindProviderRef(l, ref)
  PROVE  LedgerInv'
<1>1. /\ reservations' = reservations /\ checkpoints' = checkpoints /\ claims' = claims
  BY DEF BindProviderRef
<1>2. /\ TypeOK'
      /\ DOMAIN records' = DOMAIN records
      /\ \A k \in DOMAIN records :
           /\ records'[k].state = records[k].state
           /\ records'[k].billing_acquired_at_ms = records[k].billing_acquired_at_ms
  BY BindEffect DEF LedgerInv
<1> QED
  BY <1>1, <1>2
  DEF LedgerInv, NoOrphans, ClaimsArePending, IsPending, ChargedIffTerminal, StampedIffHeld

(* Writing an envelope checkpoint preserves the invariant.                    *)
LEMMA CheckpointInv ==
  ASSUME LedgerInv, NEW l \in LeaseIds, NEW c \in Checkpoints, SetEnvelopeCheckpoint(l, c)
  PROVE  LedgerInv'
<1>1. /\ l \in DOMAIN records
      /\ records' = records /\ reservations' = reservations /\ claims' = claims
      /\ accruals' = accruals
      /\ checkpoints' = Insert(checkpoints, l, c)
  BY DEF SetEnvelopeCheckpoint
<1>2. DOMAIN checkpoints' = DOMAIN checkpoints \cup {l}
  BY <1>1 DEF Insert
<1>3. IsMap(checkpoints', LeaseIds, Checkpoints)
  BY <1>1 DEF LedgerInv, TypeOK, IsMap, Insert
<1> QED
  BY <1>1, <1>2, <1>3
  DEF LedgerInv, TypeOK, NoOrphans, ClaimsArePending, IsPending, ChargedIffTerminal, StampedIffHeld

(* Claiming Pending rows, one by name or all stale ones, preserves the        *)
(* invariant.                                                                 *)
LEMMA ClaimInv ==
  ASSUME LedgerInv, NEW S \in SUBSET DOMAIN records, \A l \in S : IsPending(l),
         claims' = claims \cup S, UNCHANGED <<records, reservations, accruals, checkpoints>>
  PROVE  LedgerInv'
<1>1. DOMAIN records \subseteq LeaseIds
  BY DEF LedgerInv, TypeOK, IsMap
<1> QED
  BY <1>1
  DEF LedgerInv, TypeOK, NoOrphans, ClaimsArePending, IsPending, ChargedIffTerminal, StampedIffHeld

(* Erasing a row preserves the invariant: its side tables go with it.         *)
LEMMA EraseInv ==
  ASSUME LedgerInv, NEW l \in LeaseIds, Erase(l)
  PROVE  LedgerInv'
<1>1. /\ TypeOK'
      /\ DOMAIN records' = DOMAIN records \ {l}
      /\ \A k \in DOMAIN records \ {l} : records'[k] = records[k]
      /\ DOMAIN reservations' = DOMAIN reservations \ {l}
      /\ \A k \in DOMAIN reservations \ {l} : reservations'[k] = reservations[k]
      /\ DOMAIN checkpoints' = DOMAIN checkpoints \ {l}
      /\ claims' = claims \ {l}
  BY EraseEffect DEF LedgerInv
<1>2. NoOrphans'
  BY <1>1 DEF LedgerInv, NoOrphans
<1>3. ClaimsArePending'
  BY <1>1 DEF LedgerInv, ClaimsArePending, IsPending
<1>4. ChargedIffTerminal'
  BY <1>1 DEF LedgerInv, NoOrphans, ChargedIffTerminal
<1>5. StampedIffHeld'
  BY <1>1 DEF LedgerInv, StampedIffHeld
<1> QED
  BY <1>1, <1>2, <1>3, <1>4, <1>5 DEF LedgerInv

(* Every operation of the ledger preserves the invariant.                     *)
LEMMA LedgerInvStep == LedgerInv /\ [LedgerNext]_ledgerVars => LedgerInv'
<1> SUFFICES ASSUME LedgerInv, [LedgerNext]_ledgerVars PROVE LedgerInv'
  OBVIOUS
<1>1. ASSUME NEW l \in LeaseIds, Admit(l) PROVE LedgerInv'
  BY <1>1, AdmitInv
<1>2. ASSUME NEW l \in LeaseIds, Move(l) PROVE LedgerInv'
  BY <1>2, MoveInv
<1>3. ASSUME NEW l \in LeaseIds, NEW ref \in ProviderRefs, BindProviderRef(l, ref)
      PROVE  LedgerInv'
  BY <1>3, BindInv
<1>4. ASSUME NEW l \in LeaseIds, NEW c \in Checkpoints, SetEnvelopeCheckpoint(l, c)
      PROVE  LedgerInv'
  BY <1>4, CheckpointInv
<1>5. ASSUME NEW l \in LeaseIds, ClaimPendingCleanup(l) PROVE LedgerInv'
  <2>1. {l} \in SUBSET DOMAIN records /\ \A k \in {l} : IsPending(k)
    BY <1>5 DEF ClaimPendingCleanup, Claimable, IsPending
  <2> QED
    BY <1>5, <2>1, ClaimInv DEF ClaimPendingCleanup
<1>6. ASSUME NEW now \in Times, ClaimStalePendingCleanup(now) PROVE LedgerInv'
  <2>1. StalePending(now) \in SUBSET DOMAIN records /\ \A k \in StalePending(now) : IsPending(k)
    BY DEF StalePending
  <2> QED
    BY <1>6, <2>1, ClaimInv DEF ClaimStalePendingCleanup
<1>7. ASSUME NEW l \in LeaseIds, FinishPendingCleanup(l) \/ Remove(l) \/ RemoveIfPending(l)
      PROVE  LedgerInv'
  BY <1>7, EraseInv DEF FinishPendingCleanup, Remove, RemoveIfPending
<1>8. CASE UNCHANGED ledgerVars
  BY <1>8 DEF ledgerVars, LedgerInv, TypeOK, NoOrphans, ClaimsArePending, IsPending,
              ChargedIffTerminal, StampedIffHeld
<1> QED
  BY <1>1, <1>2, <1>3, <1>4, <1>5, <1>6, <1>7, <1>8 DEF LedgerNext

(* The ledger invariant holds in every reachable state.                       *)
THEOREM LedgerInvariance == LedgerSpec => []LedgerInv
  BY LedgerInvInit, LedgerInvStep, PTL DEF LedgerSpec

(* Type correctness, for every instance: in particular no accrual is ever     *)
(* negative, whatever clocks the callers of transition read.                  *)
THEOREM TypeCorrect == LedgerSpec => []TypeOK
<1>1. LedgerInv => TypeOK
  BY DEF LedgerInv
<1> QED
  BY <1>1, LedgerInvariance, PTL

(* A cleanup claim never fences anything but a Pending row, so no lease a     *)
(* client holds can be erased by finish_pending_cleanup.                      *)
THEOREM ClaimsSafe == LedgerSpec => []ClaimsArePending
<1>1. LedgerInv => ClaimsArePending
  BY DEF LedgerInv
<1> QED
  BY <1>1, LedgerInvariance, PTL

(* A lease's compute is charged exactly when the lease has ended              *)
(* (accrue_on_terminal and its latch).                                        *)
THEOREM ChargedExactlyAtEnd == LedgerSpec => []ChargedIffTerminal
<1>1. LedgerInv => ChargedIffTerminal
  BY DEF LedgerInv
<1> QED
  BY <1>1, LedgerInvariance, PTL

(* Side tables never outlive their row (remove, finish_pending_cleanup).      *)
THEOREM SideTablesFollowRows == LedgerSpec => []NoOrphans
<1>1. LedgerInv => NoOrphans
  BY DEF LedgerInv
<1> QED
  BY <1>1, LedgerInvariance, PTL

(* A row carries the instant billing started exactly when it was ever Held.   *)
THEOREM StampFollowsHeld == LedgerSpec => []StampedIffHeld
<1>1. LedgerInv => StampedIffHeld
  BY DEF LedgerInv
<1> QED
  BY <1>1, LedgerInvariance, PTL

--------------------------------------------------------------------------------
(* The concurrency cap.  Counting needs finitely many rows, which holds       *)
(* although LeaseIds may be infinite: each step adds one row at most.         *)

CapInv == IsFiniteSet(DOMAIN records) /\ ConcurrencyCap

(* Where no row becomes active, no tenant's count of active leases grows.     *)
LEMMA NoNewActive ==
  ASSUME CapInv, DOMAIN records' \subseteq DOMAIN records,
         \A k \in DOMAIN records' : /\ records'[k].tenant = records[k].tenant
                                    /\ IsActive(records'[k]) => IsActive(records[k])
  PROVE  CapInv'
<1>1. IsFiniteSet(DOMAIN records')
  BY FS_Subset DEF CapInv
<1>2. ASSUME NEW t \in Tenants PROVE Cardinality(Active(t)') <= MaxConcurrency[t]
  <2>1. Active(t)' \subseteq Active(t)
    BY DEF Active
  <2>2. IsFiniteSet(Active(t))
    BY FS_Subset DEF CapInv, Active
  <2>3. /\ IsFiniteSet(Active(t)')
        /\ Cardinality(Active(t)') <= Cardinality(Active(t))
    BY <2>1, <2>2, FS_Subset
  <2>4. Cardinality(Active(t)) <= MaxConcurrency[t]
    BY DEF CapInv, ConcurrencyCap
  <2>5. Cardinality(Active(t)) \in Nat /\ Cardinality(Active(t)') \in Nat
    BY <2>2, <2>3, FS_CardinalityType
  <2>6. MaxConcurrency[t] \in Nat
    BY PlanAssumption
  <2> QED
    BY <2>3, <2>4, <2>5, <2>6
<1> QED
  BY <1>1, <1>2 DEF CapInv, ConcurrencyCap

(* An admission adds one row, to a tenant below its cap (try_admit).          *)
LEMMA AdmitCap ==
  ASSUME LedgerInv, CapInv, NEW l \in LeaseIds, Admit(l)
  PROVE  CapInv'
<1>1. PICK t \in Tenants, now \in Times : \E gate \in Gates(t, now) :
         TryAdmitWithCompute(l, t, gate, now)
  BY DEF Admit
<1>2. /\ l \notin DOMAIN records
      /\ ~AtCap(t)
      /\ DOMAIN records' = DOMAIN records \cup {l}
      /\ records'[l] = PendingRecord(t, now)
      /\ \A k \in DOMAIN records : records'[k] = records[k]
  BY <1>1, AdmitEffect DEF LedgerInv
<1>3. records'[l].tenant = t /\ IsActive(records'[l])
  BY <1>2, PendingRecordType DEF IsActive
<1>4. IsFiniteSet(DOMAIN records')
  BY <1>2, FS_AddElement DEF CapInv
<1>5. ASSUME NEW u \in Tenants PROVE Cardinality(Active(u)') <= MaxConcurrency[u]
  <2>1. IsFiniteSet(Active(u))
    BY FS_Subset DEF CapInv, Active
  <2>2. Cardinality(Active(u)) \in Nat /\ MaxConcurrency[u] \in Nat
    BY <2>1, FS_CardinalityType, PlanAssumption
  <2>3. Cardinality(Active(u)) <= MaxConcurrency[u]
    BY DEF CapInv, ConcurrencyCap
  <2>4. CASE u = t
    <3>1. Active(u)' = Active(u) \cup {l}
      BY <1>2, <1>3, <2>4 DEF Active
    <3>2. l \notin Active(u)
      BY <1>2 DEF Active
    <3>3. Cardinality(Active(u)') = Cardinality(Active(u)) + 1
      BY <2>1, <3>1, <3>2, FS_AddElement
    <3>4. Cardinality(Active(u)) < MaxConcurrency[u]
      BY <1>2, <2>2, <2>4 DEF AtCap
    <3> QED
      BY <2>2, <3>3, <3>4
  <2>5. CASE u # t
    <3>1. Active(u)' = Active(u)
      BY <1>2, <1>3, <2>5 DEF Active
    <3> QED
      BY <2>3, <3>1
  <2> QED
    BY <2>4, <2>5
<1> QED
  BY <1>4, <1>5 DEF CapInv, ConcurrencyCap

(* Every operation of the ledger keeps every tenant within its cap.           *)
LEMMA CapStep == LedgerInv /\ CapInv /\ [LedgerNext]_ledgerVars => CapInv'
<1> SUFFICES ASSUME LedgerInv, CapInv, [LedgerNext]_ledgerVars PROVE CapInv'
  OBVIOUS
<1>1. ASSUME NEW l \in LeaseIds, Admit(l) PROVE CapInv'
  BY <1>1, AdmitCap
<1>2. ASSUME NEW l \in LeaseIds, Move(l) PROVE CapInv'
  <2>1. PICK to \in LeaseState, now \in Times : Transition(l, to, now)
    BY <1>2 DEF Move
  <2>2. /\ l \in DOMAIN records
        /\ TransitionIsLegal(records[l].state, to)
        /\ DOMAIN records' = DOMAIN records
        /\ records'[l] = ApplyTransition(records[l], to, now)
        /\ \A k \in DOMAIN records \ {l} : records'[k] = records[k]
    BY <2>1, TransitionEffect DEF LedgerInv
  <2>3. records[l] \in LeaseRecord
    BY <2>2 DEF LedgerInv, TypeOK, IsMap
  <2>4. records'[l].tenant = records[l].tenant
    BY <2>2, <2>3, ApplyTransitionType
  <2>5. IsActive(records[l])
    BY <2>2 DEF TransitionIsLegal, IsActive
  <2> QED
    BY <2>2, <2>4, <2>5, NoNewActive
<1>3. ASSUME NEW l \in LeaseIds, NEW ref \in ProviderRefs, BindProviderRef(l, ref)
      PROVE  CapInv'
  <2>1. /\ DOMAIN records' = DOMAIN records
        /\ \A k \in DOMAIN records : /\ records'[k].state = records[k].state
                                     /\ records'[k].tenant = records[k].tenant
    BY <1>3, BindEffect DEF LedgerInv
  <2> QED
    BY <2>1, NoNewActive DEF IsActive
<1>4. ASSUME NEW l \in LeaseIds, FinishPendingCleanup(l) \/ Remove(l) \/ RemoveIfPending(l)
      PROVE  CapInv'
  <2>1. /\ DOMAIN records' = DOMAIN records \ {l}
        /\ \A k \in DOMAIN records \ {l} : records'[k] = records[k]
    BY <1>4, EraseEffect DEF FinishPendingCleanup, Remove, RemoveIfPending, LedgerInv
  <2> QED
    BY <2>1, NoNewActive
<1>5. CASE UNCHANGED records
  BY <1>5 DEF CapInv, ConcurrencyCap, Active
<1>6. ASSUME NEW l \in LeaseIds, NEW c \in Checkpoints, SetEnvelopeCheckpoint(l, c)
      PROVE  UNCHANGED records
  BY <1>6 DEF SetEnvelopeCheckpoint
<1>7. ASSUME NEW l \in LeaseIds, ClaimPendingCleanup(l) PROVE UNCHANGED records
  BY <1>7 DEF ClaimPendingCleanup
<1>8. ASSUME NEW now \in Times, ClaimStalePendingCleanup(now) PROVE UNCHANGED records
  BY <1>8 DEF ClaimStalePendingCleanup
<1>9. CASE UNCHANGED ledgerVars
  BY <1>5, <1>9 DEF ledgerVars
<1> QED
  BY <1>1, <1>2, <1>3, <1>4, <1>5, <1>6, <1>7, <1>8, <1>9 DEF LedgerNext

(* The rows are finitely many, and within the caps, in every reachable ledger. *)
LEMMA CapInvariance == LedgerSpec => []CapInv
<1>1. LedgerInit => CapInv
  <2> SUFFICES ASSUME LedgerInit PROVE CapInv
    OBVIOUS
  <2>1. DOMAIN records = {}
    BY DEF LedgerInit, EmptyMap
  <2>2. \A t \in Tenants : Active(t) = {}
    BY <2>1 DEF Active
  <2>3. IsFiniteSet({}) /\ Cardinality({}) = 0
    BY FS_EmptySet
  <2>4. ASSUME NEW t \in Tenants PROVE Cardinality(Active(t)) <= MaxConcurrency[t]
    <3>1. MaxConcurrency[t] \in Nat
      BY PlanAssumption
    <3>2. Cardinality(Active(t)) = 0
      BY <2>2, <2>3
    <3> QED
      BY <3>1, <3>2
  <2> QED
    BY <2>1, <2>3, <2>4 DEF CapInv, ConcurrencyCap
<1> QED
  BY <1>1, CapStep, LedgerInvariance, PTL DEF LedgerSpec

(* No tenant ever has more Pending and Held leases than its plan's cap, for   *)
(* any number of tenants, leases and plans.                                   *)
THEOREM CapNeverExceeded == LedgerSpec => []ConcurrencyCap
<1>1. CapInv => ConcurrencyCap
  BY DEF CapInv
<1> QED
  BY <1>1, CapInvariance, PTL

--------------------------------------------------------------------------------
(* The compute ceiling.  An admission checks charged + reserved + new against *)
(* the ceiling; afterwards a lease's reservation only turns into a charge no  *)
(* larger than it, or goes away with its row.                                 *)

(* What the leases of S have reserved by the table rs: Sigma is one of these. *)
Total(rs, S) == SumFunctionOnSet([l \in DOMAIN rs |-> rs[l].reserved_vcpu_ms], S)

(* A total of reservations is a natural number. *)
LEMMA TotalNat ==
  ASSUME NEW rs, NEW S, IsFiniteSet(S), S \subseteq DOMAIN rs,
         \A l \in S : rs[l].reserved_vcpu_ms \in Nat
  PROVE  Total(rs, S) \in Nat
  BY SumNat DEF Total

(* Fewer leases with the reservations they had reserve no more. *)
LEMMA TotalShrinks ==
  ASSUME NEW rs, NEW rs2, NEW S, NEW R, IsFiniteSet(S), S \subseteq DOMAIN rs, R \subseteq S,
         R \subseteq DOMAIN rs2, \A l \in S : rs[l].reserved_vcpu_ms \in Nat,
         \A l \in R : rs2[l].reserved_vcpu_ms = rs[l].reserved_vcpu_ms
  PROVE  Total(rs2, R) <= Total(rs, S) /\ Total(rs2, R) \in Nat
<1>1. IsFiniteSet(R)
  BY FS_Subset
<1>2. Total(rs2, R) = Total(rs, R)
  BY <1>1, SumSame DEF Total
<1>3. Total(rs, R) \in Nat
  BY <1>1, TotalNat
<1>4. Total(rs, R) <= Total(rs, S)
  BY SumSubset DEF Total
<1> QED
  BY <1>2, <1>3, <1>4

(* A lease that leaves lowers the total by its own reservation. *)
LEMMA TotalSplits ==
  ASSUME NEW rs, NEW rs2, NEW S, NEW y \in S, IsFiniteSet(S), S \subseteq DOMAIN rs,
         S \ {y} \subseteq DOMAIN rs2, \A l \in S : rs[l].reserved_vcpu_ms \in Nat,
         \A l \in S \ {y} : rs2[l].reserved_vcpu_ms = rs[l].reserved_vcpu_ms
  PROVE  /\ Total(rs, S) = rs[y].reserved_vcpu_ms + Total(rs2, S \ {y})
         /\ Total(rs2, S \ {y}) \in Nat
<1>1. IsFiniteSet(S \ {y})
  BY FS_RemoveElement
<1>2. Total(rs, S) = rs[y].reserved_vcpu_ms + Total(rs, S \ {y})
  BY SumRemove DEF Total
<1>3. Total(rs2, S \ {y}) = Total(rs, S \ {y})
  BY <1>1, SumSame DEF Total
<1>4. Total(rs, S \ {y}) \in Nat
  BY <1>1, TotalNat
<1> QED
  BY <1>2, <1>3, <1>4

(* A lease that joins adds its own reservation. *)
LEMMA TotalJoins ==
  ASSUME NEW rs, NEW rs2, NEW S, NEW y, y \notin S, IsFiniteSet(S), S \subseteq DOMAIN rs,
         S \cup {y} \subseteq DOMAIN rs2, rs2[y].reserved_vcpu_ms \in Nat,
         \A l \in S : rs[l].reserved_vcpu_ms \in Nat,
         \A l \in S : rs2[l].reserved_vcpu_ms = rs[l].reserved_vcpu_ms
  PROVE  /\ Total(rs2, S \cup {y}) = rs2[y].reserved_vcpu_ms + Total(rs, S)
         /\ Total(rs, S) \in Nat
<1>1. IsFiniteSet(S \cup {y})
  BY FS_AddElement
<1>2. (S \cup {y}) \ {y} = S
  OBVIOUS
<1>3. \A l \in S \cup {y} : rs2[l].reserved_vcpu_ms \in Nat
  OBVIOUS
<1>4. Total(rs2, S \cup {y}) = rs2[y].reserved_vcpu_ms + Total(rs2, S)
  BY <1>1, <1>2, <1>3, SumRemove DEF Total
<1>5. Total(rs2, S) = Total(rs, S)
  BY SumSame DEF Total
<1> QED
  BY <1>4, <1>5, TotalNat

(* What is booked in a period is a finite part of the reservations. *)
LEMMA BookedFinite ==
  ASSUME TypeOK, IsFiniteSet(DOMAIN records), NEW t \in Tenants, NEW p \in Periods
  PROVE  /\ IsFiniteSet(Booked(t, p))
         /\ Booked(t, p) \subseteq DOMAIN reservations
         /\ \A l \in Booked(t, p) : reservations[l].reserved_vcpu_ms \in Nat
         /\ Sigma(t, p) = Total(reservations, Booked(t, p))
         /\ Sigma(t, p) \in Nat
         /\ accruals[<<t, p>>] \in Nat
         /\ Ceiling[t] \in Nat
<1>1. IsFiniteSet(Booked(t, p)) /\ Booked(t, p) \subseteq DOMAIN reservations
  BY FS_Subset DEF Booked, Active
<1>2. \A l \in Booked(t, p) : reservations[l].reserved_vcpu_ms \in Nat
  BY <1>1 DEF TypeOK, IsMap, LeaseReservation
<1>3. Sigma(t, p) = Total(reservations, Booked(t, p))
  BY DEF Sigma, Total
<1>4. accruals[<<t, p>>] \in Nat
  BY DEF TypeOK
<1> QED
  BY <1>1, <1>2, <1>3, <1>4, TotalNat, PlanAssumption

(* Where no row becomes active and nothing is charged, no period's commitment *)
(* grows.                                                                     *)
LEMMA NoNewCommitment ==
  ASSUME LedgerInv, CapInv, ComputeCeiling, accruals' = accruals,
         DOMAIN records' \subseteq DOMAIN records,
         \A k \in DOMAIN records' : /\ records'[k].tenant = records[k].tenant
                                    /\ IsActive(records'[k]) => IsActive(records[k]),
         DOMAIN reservations' \subseteq DOMAIN reservations,
         \A k \in DOMAIN reservations' : reservations'[k] = reservations[k]
  PROVE  ComputeCeiling'
<1> SUFFICES ASSUME NEW t \in Tenants, NEW p \in Periods, Ceiling[t] > 0
             PROVE  Committed(t, p)' <= Ceiling[t]
  BY DEF ComputeCeiling
<1>1. /\ IsFiniteSet(Booked(t, p))
      /\ Booked(t, p) \subseteq DOMAIN reservations
      /\ \A l \in Booked(t, p) : reservations[l].reserved_vcpu_ms \in Nat
      /\ Sigma(t, p) = Total(reservations, Booked(t, p))
      /\ Sigma(t, p) \in Nat
      /\ accruals[<<t, p>>] \in Nat
      /\ Ceiling[t] \in Nat
  BY BookedFinite DEF LedgerInv, CapInv
<1>2. Booked(t, p)' \subseteq Booked(t, p) /\ Booked(t, p)' \subseteq DOMAIN reservations'
  BY DEF Booked, Active
<1>3. Sigma(t, p)' = Total(reservations', Booked(t, p)')
  BY DEF Sigma, Total
<1>4. Sigma(t, p)' <= Sigma(t, p) /\ Sigma(t, p)' \in Nat
  BY <1>1, <1>2, <1>3, TotalShrinks
<1>5. accruals[<<t, p>>] + Sigma(t, p) <= Ceiling[t]
  BY DEF ComputeCeiling, Committed
<1>6. accruals[<<t, p>>] + Sigma(t, p)' <= Ceiling[t]
  BY <1>1, <1>4, <1>5
<1> QED
  BY <1>6 DEF Committed

(* An admission that reserves compute found room for it (admit_decision), and *)
(* one without a gate reserves none.                                          *)
LEMMA AdmitCeiling ==
  ASSUME LedgerInv, CapInv, ComputeCeiling, NEW l \in LeaseIds, Admit(l)
  PROVE  ComputeCeiling'
<1>0. PICK t \in Tenants, now \in Times : \E gate \in Gates(t, now) :
         TryAdmitWithCompute(l, t, gate, now)
  BY DEF Admit
<1>1. PICK gate \in Gates(t, now) : TryAdmitWithCompute(l, t, gate, now)
  BY <1>0
<1>2. /\ l \notin DOMAIN records
      /\ DOMAIN records' = DOMAIN records \cup {l}
      /\ records'[l] = PendingRecord(t, now)
      /\ \A k \in DOMAIN records : records'[k] = records[k]
  BY <1>1, AdmitEffect DEF LedgerInv
<1>3. l \notin DOMAIN reservations
  BY <1>2 DEF LedgerInv, NoOrphans
<1>4. accruals' = accruals
  BY <1>1 DEF TryAdmitWithCompute
<1>5. records'[l].tenant = t /\ IsActive(records'[l])
  BY <1>2, PendingRecordType DEF IsActive
<1> SUFFICES ASSUME NEW u \in Tenants, NEW p \in Periods, Ceiling[u] > 0
             PROVE  Committed(u, p)' <= Ceiling[u]
  BY DEF ComputeCeiling
<1>6. Committed(u, p) <= Ceiling[u]
  BY DEF ComputeCeiling
<1>7. Sigma(u, p)' = Total(reservations', Booked(u, p)')
  BY DEF Sigma, Total
<1>8. /\ IsFiniteSet(Booked(u, p))
      /\ Booked(u, p) \subseteq DOMAIN reservations
      /\ \A k \in Booked(u, p) : reservations[k].reserved_vcpu_ms \in Nat
      /\ Sigma(u, p) = Total(reservations, Booked(u, p))
      /\ Sigma(u, p) \in Nat
      /\ accruals[<<u, p>>] \in Nat
      /\ Ceiling[u] \in Nat
  BY BookedFinite DEF LedgerInv, CapInv
<1>9. CASE gate.ceiling_vcpu_ms = 0
  <2>1. reservations' = reservations
    BY <1>1, <1>9 DEF TryAdmitWithCompute
  <2>2. Booked(u, p)' = Booked(u, p)
    BY <1>2, <1>3, <2>1 DEF Booked, Active
  <2> QED
    BY <1>4, <1>6, <1>7, <1>8, <2>1, <2>2 DEF Committed
<1>10. CASE gate.ceiling_vcpu_ms # 0
  <2>1. reservations' = Insert(reservations, l, Reservation(gate))
    BY <1>1, <1>10 DEF TryAdmitWithCompute
  <2>2. /\ DOMAIN reservations' = DOMAIN reservations \cup {l}
        /\ reservations'[l] = Reservation(gate)
        /\ \A k \in DOMAIN reservations : reservations'[k] = reservations[k]
    BY <1>3, <2>1 DEF Insert
  <2>3. CASE u = t /\ p = gate.period_key
    <3>1. Booked(u, p)' = Booked(u, p) \cup {l} /\ l \notin Booked(u, p)
      BY <1>2, <1>3, <1>5, <2>2, <2>3 DEF Booked, Active, Reservation
    <3>2. IsFiniteSet(Booked(u, p)') /\ Booked(u, p)' \subseteq DOMAIN reservations'
      BY <1>8, <2>2, <3>1, FS_AddElement
    <3>3. Reservation(gate) \in LeaseReservation
      BY GateType
    <3>4. /\ reservations'[l].reserved_vcpu_ms = gate.new_reserved_vcpu_ms
          /\ gate.new_reserved_vcpu_ms \in Nat
      BY <2>2, <3>3 DEF Reservation, LeaseReservation
    <3>5. \A k \in Booked(u, p)' : reservations'[k].reserved_vcpu_ms \in Nat
      BY <1>8, <2>2, <3>1, <3>4
    <3>6. Booked(u, p)' \ {l} = Booked(u, p)
      BY <3>1
    <3>7. Sigma(u, p)' = gate.new_reserved_vcpu_ms + Sigma(u, p)
      <4>1. \A k \in Booked(u, p) :
              reservations'[k].reserved_vcpu_ms = reservations[k].reserved_vcpu_ms
        BY <1>8, <2>2
      <4>2. IsFiniteSet(Booked(u, p)) /\ Booked(u, p) \subseteq DOMAIN reservations
        BY <1>8
      <4>3. Booked(u, p) \cup {l} \subseteq DOMAIN reservations'
        BY <3>1, <3>2
      <4>4. \A k \in Booked(u, p) : reservations[k].reserved_vcpu_ms \in Nat
        BY <1>8
      <4>5. l \notin Booked(u, p) /\ reservations'[l].reserved_vcpu_ms \in Nat
        BY <3>1, <3>4
      <4>6. /\ Total(reservations', Booked(u, p) \cup {l})
                 = reservations'[l].reserved_vcpu_ms + Total(reservations, Booked(u, p))
            /\ Total(reservations, Booked(u, p)) \in Nat
        BY <4>1, <4>2, <4>3, <4>4, <4>5, TotalJoins
      <4> QED
        BY <1>7, <1>8, <3>1, <3>4, <4>6
    <3>8. gate.ceiling_vcpu_ms = Ceiling[u]
      BY <1>10, <2>3, GateType
    <3>9. ~OverCeiling(t, gate)
      BY <1>1, <1>8, <3>8 DEF TryAdmitWithCompute, AdmitDecision
    <3>10. accruals[<<u, p>>] + Sigma(u, p) + gate.new_reserved_vcpu_ms <= Ceiling[u]
      BY <1>8, <2>3, <3>4, <3>8, <3>9 DEF OverCeiling
    <3>11. accruals[<<u, p>>] + Sigma(u, p)' <= Ceiling[u]
      BY <1>8, <3>4, <3>7, <3>10
    <3> QED
      BY <1>4, <3>11 DEF Committed
  <2>4. CASE ~(u = t /\ p = gate.period_key)
    <3>1. Booked(u, p)' = Booked(u, p)
      BY <1>2, <1>3, <1>5, <2>2, <2>4 DEF Booked, Active, Reservation
    <3>2. Sigma(u, p)' <= Sigma(u, p) /\ Sigma(u, p)' \in Nat
      BY <1>7, <1>8, <2>2, <3>1, TotalShrinks
    <3>3. accruals[<<u, p>>] + Sigma(u, p)' <= Ceiling[u]
      BY <1>6, <1>8, <3>2 DEF Committed
    <3> QED
      BY <1>4, <3>3 DEF Committed
  <2> QED
    BY <2>3, <2>4
<1> QED
  BY <1>9, <1>10

(* A transition that ends a lease turns its reservation into a charge of at   *)
(* most that; any other transition moves no compute (accrue_on_terminal).     *)
LEMMA MoveCeiling ==
  ASSUME LedgerInv, CapInv, ComputeCeiling, NEW l \in LeaseIds, Move(l)
  PROVE  ComputeCeiling'
<1>1. PICK to \in LeaseState, now \in Times : Transition(l, to, now)
  BY DEF Move
<1>2. /\ l \in DOMAIN records
      /\ TransitionIsLegal(records[l].state, to)
      /\ DOMAIN records' = DOMAIN records
      /\ records'[l] = ApplyTransition(records[l], to, now)
      /\ \A k \in DOMAIN records \ {l} : records'[k] = records[k]
  BY <1>1, TransitionEffect DEF LedgerInv
<1>3. records[l] \in LeaseRecord
  BY <1>2 DEF LedgerInv, TypeOK, IsMap
<1>4. records'[l].tenant = records[l].tenant /\ records'[l].state = to
  BY <1>2, <1>3, ApplyTransitionType
<1>5. IsActive(records[l])
  BY <1>2 DEF TransitionIsLegal, IsActive
<1>6. AccrueOnTerminal(l, to, now)
  BY <1>1 DEF Transition
<1>7. CASE ~(to \in Terminal /\ Unsettled(l))
  <2>1. accruals' = accruals /\ reservations' = reservations
    BY <1>6, <1>7 DEF AccrueOnTerminal
  <2> QED
    BY <1>2, <1>4, <1>5, <2>1, NoNewCommitment
<1>8. CASE to \in Terminal /\ Unsettled(l)
  <2> DEFINE t == records[l].tenant
             p == reservations[l].accrual_period_key
             actual == Actual(records[l], reservations[l], now)
             reserved == reservations[l].reserved_vcpu_ms
  <2>1. l \in DOMAIN reservations /\ reservations[l] \in LeaseReservation
    BY <1>8 DEF Unsettled, LedgerInv, TypeOK, IsMap
  <2>2. t \in Tenants /\ p \in Periods /\ reserved \in Nat
    BY <1>3, <2>1 DEF LeaseRecord, LeaseReservation
  <2>3. actual \in Nat /\ actual <= reserved
    BY <1>3, <2>1, ActualBounded
  <2>4. accruals' = [accruals EXCEPT ![<<t, p>>] = Charge(accruals[<<t, p>>], actual)]
    BY <1>6, <1>8 DEF AccrueOnTerminal
  <2>5. reservations' = [reservations EXCEPT ![l] = Latch(reservations[l])]
    BY <1>6, <1>8, <2>1 DEF AccrueOnTerminal
  <2>6. DOMAIN reservations' = DOMAIN reservations
    BY <2>5
  <2>7. \A k \in DOMAIN reservations \ {l} : reservations'[k] = reservations[k]
    BY <2>5
  <2>8. l \in Booked(t, p)
    BY <1>2, <1>5, <2>1 DEF Booked, Active
  <2>9. ~IsActive(records'[l])
    BY <1>4, <1>8 DEF IsActive, Terminal
  <2> HIDE DEF t, p, actual, reserved
  <2> SUFFICES ASSUME NEW u \in Tenants, NEW q \in Periods, Ceiling[u] > 0
               PROVE  Committed(u, q)' <= Ceiling[u]
    BY DEF ComputeCeiling
  <2>10. Committed(u, q) <= Ceiling[u]
    BY DEF ComputeCeiling
  <2>11. Sigma(u, q)' = Total(reservations', Booked(u, q)')
    BY DEF Sigma, Total
  <2>12. /\ IsFiniteSet(Booked(u, q))
         /\ Booked(u, q) \subseteq DOMAIN reservations
         /\ \A k \in Booked(u, q) : reservations[k].reserved_vcpu_ms \in Nat
         /\ Sigma(u, q) = Total(reservations, Booked(u, q))
         /\ Sigma(u, q) \in Nat
         /\ accruals[<<u, q>>] \in Nat
         /\ Ceiling[u] \in Nat
    BY BookedFinite DEF LedgerInv, CapInv
  <2>13. Booked(u, q)' = Booked(u, q) \ {l}
    <3>1. Active(u)' = Active(u) \ {l}
      BY <1>2, <2>9 DEF Active
    <3> QED
      BY <2>6, <2>7, <3>1 DEF Booked
  <2>14. Booked(u, q) \ {l} \subseteq DOMAIN reservations'
    BY <2>6, <2>12
  <2>15. \A k \in Booked(u, q) \ {l} :
           reservations'[k].reserved_vcpu_ms = reservations[k].reserved_vcpu_ms
    BY <2>7, <2>12
  <2>16. CASE u = t /\ q = p
    <3>1. Sigma(u, q) = reserved + Sigma(u, q)' /\ Sigma(u, q)' \in Nat
      <4> DEFINE B == Booked(u, q)
      <4>1. l \in B
        BY <2>8, <2>16
      <4>2. B \ {l} \subseteq DOMAIN reservations'
        BY <2>14
      <4>3. \A k \in B \ {l} : reservations'[k].reserved_vcpu_ms = reservations[k].reserved_vcpu_ms
        BY <2>15
      <4>4. IsFiniteSet(B) /\ B \subseteq DOMAIN reservations
        BY <2>12
      <4>5. \A k \in B : reservations[k].reserved_vcpu_ms \in Nat
        BY <2>12
      <4> HIDE DEF B
      <4>6. /\ Total(reservations, B) = reservations[l].reserved_vcpu_ms + Total(reservations', B \ {l})
            /\ Total(reservations', B \ {l}) \in Nat
        BY <4>1, <4>2, <4>3, <4>4, <4>5, TotalSplits
      <4> QED
        BY <2>11, <2>12, <2>13, <4>6 DEF B, reserved
    <3>2. accruals'[<<u, q>>] = Charge(accruals[<<u, q>>], actual)
      BY <2>2, <2>4, <2>16 DEF LedgerInv, TypeOK
    <3>3. /\ Charge(accruals[<<u, q>>], actual) \in Nat
          /\ Charge(accruals[<<u, q>>], actual) <= accruals[<<u, q>>] + actual
      BY <2>3, <2>12, BoundAssumption DEF Charge, SmallerOf
    <3>4. accruals[<<u, q>>] + (reserved + Sigma(u, q)') <= Ceiling[u]
      BY <2>10, <3>1 DEF Committed
    <3>5. accruals'[<<u, q>>] + Sigma(u, q)' <= Ceiling[u]
      BY <2>2, <2>3, <2>12, <3>1, <3>2, <3>3, <3>4
    <3> QED
      BY <3>5 DEF Committed
  <2>17. CASE ~(u = t /\ q = p)
    <3>1. accruals'[<<u, q>>] = accruals[<<u, q>>]
      BY <2>4, <2>17 DEF LedgerInv, TypeOK
    <3>2. Sigma(u, q)' <= Sigma(u, q) /\ Sigma(u, q)' \in Nat
      BY <2>11, <2>12, <2>13, <2>14, <2>15, TotalShrinks
    <3>3. accruals[<<u, q>>] + Sigma(u, q)' <= Ceiling[u]
      BY <2>10, <2>12, <3>2 DEF Committed
    <3> QED
      BY <3>1, <3>3 DEF Committed
  <2> QED
    BY <2>16, <2>17
<1> QED
  BY <1>7, <1>8

(* Every operation of the ledger keeps every tenant within its ceiling. *)
LEMMA CeilingStep ==
  LedgerInv /\ CapInv /\ ComputeCeiling /\ [LedgerNext]_ledgerVars => ComputeCeiling'
<1> SUFFICES ASSUME LedgerInv, CapInv, ComputeCeiling, [LedgerNext]_ledgerVars
             PROVE  ComputeCeiling'
  OBVIOUS
<1>1. ASSUME NEW l \in LeaseIds, Admit(l) PROVE ComputeCeiling'
  BY <1>1, AdmitCeiling
<1>2. ASSUME NEW l \in LeaseIds, Move(l) PROVE ComputeCeiling'
  BY <1>2, MoveCeiling
<1>3. ASSUME NEW l \in LeaseIds, NEW ref \in ProviderRefs, BindProviderRef(l, ref)
      PROVE  ComputeCeiling'
  <2>1. /\ DOMAIN records' = DOMAIN records
        /\ \A k \in DOMAIN records : /\ records'[k].state = records[k].state
                                     /\ records'[k].tenant = records[k].tenant
    BY <1>3, BindEffect DEF LedgerInv
  <2>2. accruals' = accruals /\ reservations' = reservations
    BY <1>3 DEF BindProviderRef
  <2> QED
    BY <2>1, <2>2, NoNewCommitment DEF IsActive
<1>4. ASSUME NEW l \in LeaseIds, Erase(l) PROVE ComputeCeiling'
  <2>1. /\ DOMAIN records' = DOMAIN records \ {l}
        /\ \A k \in DOMAIN records \ {l} : records'[k] = records[k]
    BY <1>4, EraseEffect DEF LedgerInv
  <2>2. /\ DOMAIN reservations' = DOMAIN reservations \ {l}
        /\ \A k \in DOMAIN reservations' : reservations'[k] = reservations[k]
        /\ accruals' = accruals
    BY <1>4 DEF Erase, Delete
  <2> QED
    BY <2>1, <2>2, NoNewCommitment
<1>5. CASE UNCHANGED <<records, reservations, accruals>>
  BY <1>5 DEF ComputeCeiling, Committed, Sigma, Booked, Active
<1>6. ASSUME NEW l \in LeaseIds, NEW c \in Checkpoints, SetEnvelopeCheckpoint(l, c)
      PROVE  UNCHANGED <<records, reservations, accruals>>
  BY <1>6 DEF SetEnvelopeCheckpoint
<1>7. ASSUME NEW l \in LeaseIds, ClaimPendingCleanup(l)
      PROVE  UNCHANGED <<records, reservations, accruals>>
  BY <1>7 DEF ClaimPendingCleanup
<1>8. ASSUME NEW now \in Times, ClaimStalePendingCleanup(now)
      PROVE  UNCHANGED <<records, reservations, accruals>>
  BY <1>8 DEF ClaimStalePendingCleanup
<1>9. CASE UNCHANGED ledgerVars
  BY <1>5, <1>9 DEF ledgerVars
<1>10. ASSUME NEW l \in LeaseIds, FinishPendingCleanup(l) \/ Remove(l) \/ RemoveIfPending(l)
       PROVE  Erase(l)
  BY <1>10 DEF FinishPendingCleanup, Remove, RemoveIfPending
<1> QED
  BY <1>1, <1>2, <1>3, <1>4, <1>5, <1>6, <1>7, <1>8, <1>9, <1>10 DEF LedgerNext

(* No tenant with a compute ceiling ever has more charged and reserved in a   *)
(* period than the ceiling, for any plans, boxes, TTLs and clock readings.    *)
THEOREM CeilingNeverExceeded == LedgerSpec => []ComputeCeiling
<1>1. LedgerInit => ComputeCeiling
  <2> SUFFICES ASSUME LedgerInit, NEW t \in Tenants, NEW p \in Periods
               PROVE  Committed(t, p) <= Ceiling[t]
    BY DEF ComputeCeiling
  <2>1. Booked(t, p) = {}
    BY DEF LedgerInit, EmptyMap, Booked, Active
  <2>2. Sigma(t, p) = 0
    BY <2>1, SumEmpty DEF Sigma
  <2>3. accruals[<<t, p>>] = 0
    BY DEF LedgerInit
  <2>4. Ceiling[t] \in Nat
    BY PlanAssumption
  <2> QED
    BY <2>2, <2>3, <2>4 DEF Committed
<1> QED
  BY <1>1, CapInvariance, CeilingStep, LedgerInvariance, PTL DEF LedgerSpec

--------------------------------------------------------------------------------
(* What a step may never do *)

(* No step changes a claimed row except the one that deletes it: neither      *)
(* transition nor bind_provider_ref nor remove gets past the fence.           *)
LEMMA FrozenStep ==
  ASSUME LedgerInv, LedgerNext, NEW k \in claims, k \in DOMAIN records'
  PROVE  records'[k] = records[k] /\ k \in claims'
<1>0. k \in DOMAIN records
  BY DEF LedgerInv, NoOrphans
<1>1. ASSUME NEW l \in LeaseIds, Admit(l)
      PROVE  records'[k] = records[k] /\ k \in claims'
  <2>1. PICK t \in Tenants, now \in Times : \E gate \in Gates(t, now) :
           TryAdmitWithCompute(l, t, gate, now)
    BY <1>1 DEF Admit
  <2>2. claims' = claims
    BY <2>1 DEF TryAdmitWithCompute
  <2>3. \A j \in DOMAIN records : records'[j] = records[j]
    BY <2>1, AdmitEffect DEF LedgerInv
  <2> QED
    BY <1>0, <2>2, <2>3
<1>2. ASSUME NEW l \in LeaseIds, Move(l)
      PROVE  records'[k] = records[k] /\ k \in claims'
  <2>1. PICK to \in LeaseState, now \in Times : Transition(l, to, now)
    BY <1>2 DEF Move
  <2>2. claims' = claims
    BY <2>1 DEF Transition
  <2>3. l \notin claims /\ \A j \in DOMAIN records \ {l} : records'[j] = records[j]
    BY <2>1, TransitionEffect DEF LedgerInv
  <2> QED
    BY <1>0, <2>2, <2>3
<1>3. ASSUME NEW l \in LeaseIds, NEW ref \in ProviderRefs, BindProviderRef(l, ref)
      PROVE  records'[k] = records[k] /\ k \in claims'
  <2>1. claims' = claims
    BY <1>3 DEF BindProviderRef
  <2>2. l \notin claims /\ \A j \in DOMAIN records : j # l => records'[j] = records[j]
    BY <1>3, BindEffect DEF LedgerInv
  <2> QED
    BY <1>0, <2>1, <2>2
<1>4. ASSUME NEW l \in LeaseIds, FinishPendingCleanup(l) \/ Remove(l) \/ RemoveIfPending(l)
      PROVE  records'[k] = records[k] /\ k \in claims'
  <2>1. /\ DOMAIN records' = DOMAIN records \ {l}
        /\ \A j \in DOMAIN records \ {l} : records'[j] = records[j]
        /\ claims' = claims \ {l}
    BY <1>4, EraseEffect DEF FinishPendingCleanup, Remove, RemoveIfPending, LedgerInv
  <2> QED
    BY <1>0, <2>1
<1>5. ASSUME NEW l \in LeaseIds, \/ \E c \in Checkpoints : SetEnvelopeCheckpoint(l, c)
                                 \/ ClaimPendingCleanup(l)
      PROVE  records'[k] = records[k] /\ k \in claims'
  BY <1>5 DEF SetEnvelopeCheckpoint, ClaimPendingCleanup
<1>6. ASSUME NEW now \in Times, ClaimStalePendingCleanup(now)
      PROVE  records'[k] = records[k] /\ k \in claims'
  BY <1>6 DEF ClaimStalePendingCleanup
<1> QED
  BY <1>1, <1>2, <1>3, <1>4, <1>5, <1>6 DEF LedgerNext

(* Between claim and finish a fenced row is frozen, for every instance.       *)
THEOREM ClaimFreezesRow == LedgerSpec => ClaimedRowsFrozen
<1>1. LedgerInv /\ [LedgerNext]_ledgerVars =>
        [\A l \in claims : l \in DOMAIN records' =>
            /\ records'[l] = records[l]
            /\ l \in claims']_ledgerVars
  <2>1. ASSUME LedgerInv, LedgerNext, NEW l \in claims, l \in DOMAIN records'
        PROVE  records'[l] = records[l] /\ l \in claims'
    BY <2>1, FrozenStep
  <2> QED
    BY <2>1
<1> QED
  BY <1>1, LedgerInvariance, PTL DEF LedgerSpec, ClaimedRowsFrozen

(* A reservation only ever disappears with a Pending row or with one that has *)
(* been charged (remove refuses a Held accounted lease).                      *)
LEMMA UnchargedStaysStep ==
  ASSUME LedgerInv, LedgerNext, NEW k \in DOMAIN reservations, k \notin DOMAIN reservations',
         records[k].state # "Pending"
  PROVE  reservations[k].accrued
<1>0. k \in DOMAIN records /\ (reservations[k].accrued <=> records[k].state \in Terminal)
  BY DEF LedgerInv, NoOrphans, ChargedIffTerminal
<1>1. ASSUME NEW l \in LeaseIds, Admit(l) PROVE FALSE
  <2>1. PICK t \in Tenants, now \in Times : \E gate \in Gates(t, now) :
           TryAdmitWithCompute(l, t, gate, now)
    BY <1>1 DEF Admit
  <2>2. DOMAIN reservations \subseteq DOMAIN reservations'
    BY <2>1, AdmitEffect DEF LedgerInv
  <2> QED
    BY <2>2
<1>2. ASSUME NEW l \in LeaseIds, Move(l) PROVE FALSE
  <2>1. DOMAIN reservations' = DOMAIN reservations
    BY <1>2, TransitionEffect DEF Move, LedgerInv
  <2> QED
    BY <2>1
<1>3. ASSUME NEW l \in LeaseIds, FinishPendingCleanup(l) \/ Remove(l) \/ RemoveIfPending(l)
      PROVE  reservations[k].accrued
  <2>1. DOMAIN reservations' = DOMAIN reservations \ {l}
    BY <1>3, EraseEffect DEF FinishPendingCleanup, Remove, RemoveIfPending, LedgerInv
  <2>2. k = l
    BY <2>1
  <2>3. records[k].state # "Held"
    BY <1>3, <2>2 DEF FinishPendingCleanup, Remove, RemoveIfPending, CanFinish, CanRemove, IsPending
  <2>4. records[k].state \in LeaseState
    BY <1>0 DEF LedgerInv, TypeOK, IsMap, LeaseRecord
  <2> QED
    BY <1>0, <2>3, <2>4 DEF LeaseState
<1>4. ASSUME NEW l \in LeaseIds, \/ \E ref \in ProviderRefs : BindProviderRef(l, ref)
                                 \/ \E c \in Checkpoints : SetEnvelopeCheckpoint(l, c)
                                 \/ ClaimPendingCleanup(l)
      PROVE  FALSE
  BY <1>4 DEF BindProviderRef, SetEnvelopeCheckpoint, ClaimPendingCleanup
<1>5. ASSUME NEW now \in Times, ClaimStalePendingCleanup(now) PROVE FALSE
  BY <1>5 DEF ClaimStalePendingCleanup
<1> QED
  BY <1>1, <1>2, <1>3, <1>4, <1>5 DEF LedgerNext

(* No lease that ever ran leaves the ledger uncharged, for every instance.    *)
THEOREM NothingLeavesUncharged == LedgerSpec => NoUnchargedDisappearance
<1>1. LedgerInv /\ [LedgerNext]_ledgerVars =>
        [\A l \in DOMAIN reservations \ DOMAIN reservations' :
            records[l].state # "Pending" => reservations[l].accrued]_ledgerVars
  <2>1. ASSUME LedgerInv, LedgerNext, NEW l \in DOMAIN reservations \ DOMAIN reservations',
               records[l].state # "Pending"
        PROVE  reservations[l].accrued
    BY <2>1, UnchargedStaysStep
  <2> QED
    BY <2>1
<1> QED
  BY <1>1, LedgerInvariance, PTL DEF LedgerSpec, NoUnchargedDisappearance

(* A billing stamp is never moved and an ended lease never changes state.     *)
LEMMA HistoryStep ==
  ASSUME LedgerInv, LedgerNext, NEW k \in DOMAIN records, k \in DOMAIN records'
  PROVE  /\ records[k].billing_acquired_at_ms # NoTime =>
              records'[k].billing_acquired_at_ms = records[k].billing_acquired_at_ms
         /\ records[k].state \in Terminal => records'[k].state = records[k].state
<1> DEFINE Stable ==
      /\ records[k].billing_acquired_at_ms # NoTime =>
           records'[k].billing_acquired_at_ms = records[k].billing_acquired_at_ms
      /\ records[k].state \in Terminal => records'[k].state = records[k].state
<1>1. ASSUME NEW l \in LeaseIds, Admit(l) PROVE Stable
  <2>1. PICK t \in Tenants, now \in Times : \E gate \in Gates(t, now) :
           TryAdmitWithCompute(l, t, gate, now)
    BY <1>1 DEF Admit
  <2>2. \A j \in DOMAIN records : records'[j] = records[j]
    BY <2>1, AdmitEffect DEF LedgerInv
  <2> QED
    BY <2>2
<1>2. ASSUME NEW l \in LeaseIds, Move(l) PROVE Stable
  <2>1. PICK to \in LeaseState, now \in Times : Transition(l, to, now)
    BY <1>2 DEF Move
  <2>2. /\ l \in DOMAIN records
        /\ TransitionIsLegal(records[l].state, to)
        /\ records'[l] = ApplyTransition(records[l], to, now)
        /\ \A j \in DOMAIN records \ {l} : records'[j] = records[j]
    BY <2>1, TransitionEffect DEF LedgerInv
  <2>3. CASE k # l
    BY <2>2, <2>3
  <2>4. CASE k = l
    <3>1. records[l] \in LeaseRecord
      BY <2>2 DEF LedgerInv, TypeOK, IsMap
    <3>2. records[l].state \notin Terminal
      BY <2>2 DEF TransitionIsLegal, Terminal
    <3>3. records'[l].billing_acquired_at_ms =
            IF to = "Held" /\ records[l].billing_acquired_at_ms = NoTime
            THEN now ELSE records[l].billing_acquired_at_ms
      BY <2>2, <3>1, ApplyTransitionType
    <3> QED
      BY <2>4, <3>2, <3>3
  <2> QED
    BY <2>3, <2>4
<1>3. ASSUME NEW l \in LeaseIds, NEW ref \in ProviderRefs, BindProviderRef(l, ref) PROVE Stable
  BY <1>3, BindEffect DEF LedgerInv
<1>4. ASSUME NEW l \in LeaseIds, FinishPendingCleanup(l) \/ Remove(l) \/ RemoveIfPending(l)
      PROVE  Stable
  <2>1. /\ DOMAIN records' = DOMAIN records \ {l}
        /\ \A j \in DOMAIN records \ {l} : records'[j] = records[j]
    BY <1>4, EraseEffect DEF FinishPendingCleanup, Remove, RemoveIfPending, LedgerInv
  <2> QED
    BY <2>1
<1>5. ASSUME NEW l \in LeaseIds, \/ \E c \in Checkpoints : SetEnvelopeCheckpoint(l, c)
                                 \/ ClaimPendingCleanup(l)
      PROVE  Stable
  BY <1>5 DEF SetEnvelopeCheckpoint, ClaimPendingCleanup
<1>6. ASSUME NEW now \in Times, ClaimStalePendingCleanup(now) PROVE Stable
  BY <1>6 DEF ClaimStalePendingCleanup
<1> QED
  BY <1>1, <1>2, <1>3, <1>4, <1>5, <1>6 DEF LedgerNext

(* The history a row records is stable, for every instance: the matrix has no *)
(* way out of a terminal state and the stamp is written once.                 *)
THEOREM HistoryNeverRewritten == LedgerSpec => HistoryIsStable
<1>1. LedgerInv /\ [LedgerNext]_ledgerVars =>
        [\A l \in DOMAIN records \cap DOMAIN records' :
            /\ records[l].billing_acquired_at_ms # NoTime =>
                 records'[l].billing_acquired_at_ms = records[l].billing_acquired_at_ms
            /\ records[l].state \in Terminal => records'[l].state = records[l].state]_ledgerVars
  <2>1. ASSUME LedgerInv, LedgerNext, NEW l \in DOMAIN records \cap DOMAIN records'
        PROVE  /\ records[l].billing_acquired_at_ms # NoTime =>
                    records'[l].billing_acquired_at_ms = records[l].billing_acquired_at_ms
               /\ records[l].state \in Terminal => records'[l].state = records[l].state
    BY <2>1, HistoryStep
  <2> QED
    BY <2>1
<1> QED
  BY <1>1, LedgerInvariance, PTL DEF LedgerSpec, HistoryIsStable

================================================================================
