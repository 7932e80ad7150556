------------------------------ MODULE GlobalGate ------------------------------
(****************************************************************************)
(* The fabric-wide admission gate (crates/corelink-fabric/global_gate.rs),    *)
(* which no live path constructs yet.  try_admit_global hands out a guard     *)
(* that gives its slot back on release and again, without effect, when it is  *)
(* dropped.                                                                   *)
(****************************************************************************)
EXTENDS Naturals, FiniteSets

CONSTANTS
  Guards,         \* admission attempts
  GuardTenant,    \* GuardTenant[g]: the tenant that makes it
  Wall,           \* the global wall
  Share           \* the per-tenant share asked for

ASSUME GateAssumption == Wall \in Nat /\ Share \in Nat

VARIABLES
  policy,     \* "Advisory" or "HardReject"
  total,      \* Inner.total
  per_tenant, \* Inner.per_tenant
  guard,      \* guard[g]: "none", "held", "released", "dropped" or "rejected"
  breaches    \* wall and share breaches metered

gateVars == <<policy, total, per_tenant, guard, breaches>>

GateTenants == {GuardTenant[g] : g \in Guards}

(* GlobalGate::new: the share is clamped into 1..wall, and to 0 without one. *)
PerTenantShare == IF Wall = 0 THEN 0 ELSE IF Share < 1 THEN 1 ELSE IF Share > Wall THEN Wall ELSE Share

GateInit ==
  /\ policy \in {"Advisory", "HardReject"}
  /\ total = 0
  /\ per_tenant = [t \in GateTenants |-> 0]
  /\ guard = [g \in Guards |-> "none"]
  /\ breaches = [wall |-> 0, share |-> 0]

ShareBreached(g) == per_tenant[GuardTenant[g]] >= PerTenantShare

WallBreached == total >= Wall

(* The share is tested first, and only one breach is metered on a rejection;  *)
(* Advisory meters both and admits.                                           *)
Meter(g) ==
  LET both == policy = "Advisory" IN
  breaches' = [share |-> breaches.share + (IF ShareBreached(g) THEN 1 ELSE 0),
               wall  |-> breaches.wall + (IF WallBreached /\ (both \/ ~ShareBreached(g)) THEN 1 ELSE 0)]

TryAdmitGlobal(g) ==
  /\ guard[g] = "none"
  /\ Meter(g)
  /\ IF policy = "HardReject" /\ (ShareBreached(g) \/ WallBreached)
     THEN guard' = [guard EXCEPT ![g] = "rejected"] /\ UNCHANGED <<total, per_tenant>>
     ELSE /\ guard' = [guard EXCEPT ![g] = "held"]
          /\ total' = total + 1
          /\ per_tenant' = [per_tenant EXCEPT ![GuardTenant[g]] = @ + 1]
  /\ UNCHANGED policy

Less(n) == IF n > 0 THEN n - 1 ELSE 0

(* GlobalAdmitGuard::release, idempotent. *)
Release(g) ==
  IF guard[g] = "held"
  THEN /\ total' = Less(total)
       /\ per_tenant' = [per_tenant EXCEPT ![GuardTenant[g]] = Less(@)]
  ELSE UNCHANGED <<total, per_tenant>>

ReleaseEarly(g) ==
  /\ guard[g] = "held"
  /\ Release(g)
  /\ guard' = [guard EXCEPT ![g] = "released"]
  /\ UNCHANGED <<policy, breaches>>

DropGuard(g) ==
  /\ guard[g] \in {"held", "released"}
  /\ Release(g)
  /\ guard' = [guard EXCEPT ![g] = "dropped"]
  /\ UNCHANGED <<policy, breaches>>

GateNext == \E g \in Guards : TryAdmitGlobal(g) \/ ReleaseEarly(g) \/ DropGuard(g)

GateSpec == GateInit /\ [][GateNext]_gateVars

HeldGuards(t) == {g \in Guards : guard[g] = "held" /\ GuardTenant[g] = t}

(* Early releases and drops never free somebody else's slot: the counters are *)
(* the guards in use, so the wall and the share bound what is in flight.      *)
GateCountsGuards ==
  /\ \A t \in GateTenants : per_tenant[t] = Cardinality(HeldGuards(t))
  /\ total = Cardinality({g \in Guards : guard[g] = "held"})
  /\ policy = "HardReject" => total <= Wall /\ \A t \in GateTenants : per_tenant[t] <= PerTenantShare
===============================================================================
