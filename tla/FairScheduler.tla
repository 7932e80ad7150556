---------------------------- MODULE FairScheduler -----------------------------
(****************************************************************************)
(* The deficit-round-robin dispatcher (crates/corelink-fabric/scheduler.rs). *)
(* A tick runs under the scheduler's mutex, so nothing is enqueued while it   *)
(* scans, but it consults cap_check before every dispatch and the caps move   *)
(* underneath it: every visit of a tenant is a step of its own.               *)
(* The operators take the answers of cap_check and dispatch as parameters;    *)
(* AdmissionQueue supplies the real ones.                                     *)
(****************************************************************************)
EXTENDS Naturals, Sequences, FiniteSets

CONSTANTS
  NumTenants,           \* tenants are numbered in the sorted order of their ids
  GlobalSlots,          \* dispatch budget of a tick, at least 1
  MaxTenantQueueDepth   \* MAX_TENANT_QUEUE_DEPTH

ASSUME SchedulerAssumption ==
  {NumTenants, GlobalSlots, MaxTenantQueueDepth} \subseteq Nat \ {0}

VARIABLES
  queues,      \* queues[t]: FIFO of t's pending work items
  cursor,      \* the tenant that dispatched last, or NoTenant
  owed_skip,   \* tenants whose turn a cap skip deferred
  scan         \* what a running tick has still to visit, and its budget

schedulerVars == <<queues, cursor, owed_skip, scan>>

SchedTenants == 1..NumTenants

NoTenant == 0

NoScan == [on |-> FALSE, order |-> <<>>, parked |-> {}, remaining |-> 0, progressed |-> FALSE]

SchedulerInit ==
  /\ queues = [t \in SchedTenants |-> <<>>]
  /\ cursor = NoTenant
  /\ owed_skip = {}
  /\ scan = NoScan

--------------------------------------------------------------------------------
(* TenantQueues *)

HasRoom(t) == Len(queues[t]) < MaxTenantQueueDepth

TenantsWithWork == {t \in SchedTenants : queues[t] # <<>>}

(* The scheduler lock is held for the whole scan. *)
TryEnqueue(t, item) ==
  /\ ~scan.on
  /\ queues' = IF HasRoom(t) THEN [queues EXCEPT ![t] = Append(@, item)] ELSE queues

--------------------------------------------------------------------------------
(* tick *)

(* In the order of their ids: the i-th has i ids up to its own. *)
Rank(tenants, t) == Cardinality({u \in tenants : u <= t})

Sorted(tenants) == [i \in 1..Cardinality(tenants) |-> CHOOSE t \in tenants : Rank(tenants, t) = i]

(* Mutant: the cursor alone decides; a deferred turn is forgotten. *)
RotationOrderWithoutOwed(parked) ==
  LET eligible == TenantsWithWork \ parked
      after    == {t \in eligible : t > cursor}
  IN  Sorted(after) \o Sorted(eligible \ after)

(* Mutant: no rotation, the smallest tenant id always goes first. *)
RotationOrderFromStart(parked) ==
  LET eligible == TenantsWithWork \ parked
      owed     == eligible \cap owed_skip
  IN  Sorted(owed) \o Sorted(eligible \ owed)

(* Tenants owed a turn first, then the others from the one after the cursor. *)
RotationOrder(parked) ==
  LET eligible == TenantsWithWork \ parked
      owed     == eligible \cap owed_skip
      rest     == eligible \ owed
      after    == {t \in rest : t > cursor}
  IN  Sorted(owed) \o Sorted(after) \o Sorted(rest \ after)

BeginScan ==
  /\ ~scan.on
  /\ scan' = [NoScan EXCEPT !.on = TRUE, !.order = RotationOrder({}), !.remaining = GlobalSlots]
  /\ UNCHANGED <<queues, cursor, owed_skip>>

Visiting(t) == scan.on /\ scan.remaining > 0 /\ scan.order # <<>> /\ t = Head(scan.order)

(* cap_check said no: parked for this tick, owed a turn, the cursor stays. *)
CapSkip(t) ==
  /\ Visiting(t)
  /\ owed_skip' = owed_skip \cup {t}
  /\ scan' = [scan EXCEPT !.order = Tail(@), !.parked = @ \cup {t}]
  /\ UNCHANGED <<queues, cursor>>

(* dispatch took the head of t's queue. *)
Select(t) ==
  /\ Visiting(t) /\ queues[t] # <<>>
  /\ queues' = [queues EXCEPT ![t] = Tail(@)]
  /\ owed_skip' = owed_skip \ {t}
  /\ cursor' = t
  /\ scan' = [scan EXCEPT !.order = Tail(@), !.remaining = @ - 1, !.progressed = TRUE]

(* dispatch refused (backpressure): parked, not owed, nothing consumed. *)
Refuse(t) ==
  /\ Visiting(t) /\ queues[t] # <<>>
  /\ scan' = [scan EXCEPT !.order = Tail(@), !.parked = @ \cup {t}]
  /\ UNCHANGED <<queues, cursor, owed_skip>>

PassOver == scan.on /\ (scan.order = <<>> \/ scan.remaining = 0)

AnotherPass ==
  PassOver /\ scan.remaining > 0 /\ scan.progressed /\ RotationOrder(scan.parked) # <<>>

NextPass ==
  /\ AnotherPass
  /\ scan' = [scan EXCEPT !.order = RotationOrder(scan.parked), !.progressed = FALSE]
  /\ UNCHANGED <<queues, cursor, owed_skip>>

EndScan ==
  /\ PassOver /\ ~AnotherPass
  /\ scan' = NoScan
  /\ owed_skip' = owed_skip \cap TenantsWithWork
  /\ UNCHANGED <<queues, cursor>>

--------------------------------------------------------------------------------
(* The scheduler alone: any work, any caps except for the tenants that are    *)
(* never over theirs, and dispatch may refuse.                                *)

CONSTANT NeverOverCap

SchedulerNext ==
  \/ \E t \in SchedTenants : TryEnqueue(t, t) /\ UNCHANGED <<cursor, owed_skip, scan>>
  \/ BeginScan
  \/ \E t \in SchedTenants \ NeverOverCap : CapSkip(t) \/ Refuse(t)
  \/ \E t \in SchedTenants : Select(t)
  \/ NextPass
  \/ EndScan

(* The admission loop ticks for ever and a tick runs to its end. *)
SchedulerFairness ==
  /\ WF_schedulerVars(BeginScan)
  /\ WF_schedulerVars(\/ \E t \in SchedTenants : CapSkip(t) \/ Refuse(t) \/ Select(t)
                      \/ NextPass \/ EndScan)

SchedulerSpec == SchedulerInit /\ [][SchedulerNext]_schedulerVars /\ SchedulerFairness

SchedulerTypeOK ==
  /\ queues \in [SchedTenants -> Seq(SchedTenants)]
  /\ \A t \in SchedTenants : Len(queues[t]) <= MaxTenantQueueDepth
  /\ cursor \in SchedTenants \cup {NoTenant}
  /\ owed_skip \subseteq SchedTenants
  /\ scan.parked \subseteq SchedTenants /\ scan.remaining \in 0..GlobalSlots

(* rotation_order and its cursor: with a budget of one dispatch per tick, and *)
(* whatever the caps of the others do, a tenant that always has work and is   *)
(* never over its cap is served again and again.                              *)
NoStarvation ==
  \A t \in NeverOverCap : <>[](queues[t] # <<>>) => []<><<Select(t)>>_schedulerVars

(* owed_skip: a turn that a cap skip deferred is redeemed first.  A tenant    *)
(* that is owed nothing is only served when every tenant that is owed a turn  *)
(* and has work was visited in this tick and turned away again.               *)
OwedGoFirst ==
  [][\A u \in SchedTenants \ owed_skip :
       Select(u) => (owed_skip \cap TenantsWithWork) \subseteq scan.parked]_schedulerVars
===============================================================================
