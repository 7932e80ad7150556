------------------------------ MODULE TenantPlans -----------------------------
(****************************************************************************)
(* Tenant plans: the live registry the operator onboards tenants into         *)
(* (plans.rs, handlers/admin.rs), the durable repository of caps              *)
(* (tenant_plan_repo.rs) with its signed 32-bit columns, and the grace of a   *)
(* downgrade (downgrade_grace.rs).  The repository and the grace decision are *)
(* not wired into a live path.  Width is the number of values of a column.    *)
(****************************************************************************)
EXTENDS Integers

CONSTANTS
  PlanTenants,   \* tenants
  Tiers,         \* the tiers
  PlanFor,       \* PlanFor[tier]: its max_concurrency
  PlanCaps,      \* max_concurrency values a caller of upsert may pass; u32
  Width,         \* 2^32
  MaxHeld        \* bound on the leases of a tenant

ASSUME PlanAssumption ==
  /\ Width \in Nat \ {0, 1} /\ PlanCaps \subseteq 0..Width - 1 /\ MaxHeld \in Nat
  /\ PlanFor \in [Tiers -> Nat]

VARIABLES
  tierOf,     \* PlanRegistry.tiers, NoTier for an absent tenant
  column,     \* tenant_plans.max_concurrency, NoRow for an absent row
  persisted,  \* the plan of the last upsert of the tenant
  planLoaded, \* the answer of the last load_all
  slotsHeld   \* slotsHeld[t]: held leases

planVars == <<tierOf, column, persisted, planLoaded, slotsHeld>>

NoTier == "none"
NoPlanRow == 0 - Width

NoPlans == [t \in PlanTenants |-> NoPlanRow]

PlanInit ==
  /\ tierOf = [t \in PlanTenants |-> NoTier]
  /\ column = NoPlans
  /\ persisted = NoPlans
  /\ planLoaded = [ok |-> TRUE, caps |-> NoPlans]
  /\ slotsHeld = [t \in PlanTenants |-> 0]

(* tenant_plan: a tenant that is not in the registry has no slots. *)
TierCap(t) == IF tierOf[t] = NoTier THEN 0 ELSE PlanFor[tierOf[t]]

(* onboard_tenant: with the operator's key, a tenant id and a tier that parse; *)
(* every other request is refused without a change.  The tier takes effect at  *)
(* once, downgrade or not, and no lease is touched.                            *)
OnboardTenant(t, tier) ==
  /\ tierOf' = [tierOf EXCEPT ![t] = tier]
  /\ UNCHANGED <<column, persisted, planLoaded, slotsHeld>>

(* The registry is in memory. *)
RegistryLost ==
  /\ tierOf' = [t \in PlanTenants |-> NoTier]
  /\ UNCHANGED <<column, persisted, planLoaded, slotsHeld>>

(* "as i32" *)
AsSigned(n) == IF n < Width \div 2 THEN n ELSE n - Width

Upsert(t, cap) ==
  /\ column' = [column EXCEPT ![t] = AsSigned(cap)]
  /\ persisted' = [persisted EXCEPT ![t] = cap]
  /\ UNCHANGED <<tierOf, planLoaded, slotsHeld>>

(* A negative value in a row that is there. *)
Corrupt(t) == column[t] # NoPlanRow /\ column[t] < 0

(* Mutant: a negative column is taken as an empty plan. *)
LoadedLenient ==
  [ok |-> TRUE, caps |-> [t \in PlanTenants |-> IF Corrupt(t) THEN 0 ELSE column[t]]]

(* load_all: one negative column fails the whole load. *)
Loaded ==
  IF \E t \in PlanTenants : Corrupt(t) THEN [ok |-> FALSE, caps |-> NoPlans] ELSE [ok |-> TRUE, caps |-> column]

LoadAll ==
  /\ planLoaded' = Loaded
  /\ UNCHANGED <<tierOf, column, persisted, slotsHeld>>

(* evaluate_downgrade_admit: nothing is evicted, nothing new comes in. *)
DowngradeAdmits(t) == slotsHeld[t] < TierCap(t)

HoldSlot(t) ==
  /\ DowngradeAdmits(t) /\ slotsHeld[t] < MaxHeld
  /\ slotsHeld' = [slotsHeld EXCEPT ![t] = @ + 1]
  /\ UNCHANGED <<tierOf, column, persisted, planLoaded>>

SlotExpires(t) ==
  /\ slotsHeld[t] > 0
  /\ slotsHeld' = [slotsHeld EXCEPT ![t] = @ - 1]
  /\ UNCHANGED <<tierOf, column, persisted, planLoaded>>

PlanNext ==
  \/ \E t \in PlanTenants : HoldSlot(t) \/ SlotExpires(t)
  \/ \E t \in PlanTenants, cap \in PlanCaps : Upsert(t, cap)
  \/ \E t \in PlanTenants, tier \in Tiers : OnboardTenant(t, tier)
  \/ LoadAll \/ RegistryLost

PlanSpec == PlanInit /\ [][PlanNext]_planVars

(* A load is exact or it fails: a cap that does not fit the signed column     *)
(* never comes back as another cap, whichever tenants were written between    *)
(* (tenant_plan_repo.rs, upsert and load_all).                                *)
LoadIsExactOrFails ==
  [][LoadAll /\ planLoaded'.ok => planLoaded'.caps = persisted]_planVars
===============================================================================
