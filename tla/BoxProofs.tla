------------------------------- MODULE BoxProofs -------------------------------
(****************************************************************************)
(* Proofs about what happens in and around a box: the providers' side of it,  *)
(* the executions there, the exec server and the clw driver, runner batches,  *)
(* layer hydration, the capture hook, the workspace registry, the file fence  *)
(* and the workflow shim.  They share no state; each section states the       *)
(* inductive invariant of one of them, shows that every action keeps it and   *)
(* ends with the property the run of MCBoxes checks.                          *)
(****************************************************************************)
EXTENDS MCBoxes, FiniteSums, FiniteSetTheorems, SequenceTheorems, TLAPS

--------------------------------------------------------------------------------
(* The providers' boxes *)

(* The fields of the registry and of the fleet. *)
RegistryFields == {"boxes", "modes", "noBox"}
FleetFields == {"kind", "backend", "lowDisk", "domain"}

(* The provider has no box of lease l, or only this one. *)
Gone(l) == \A b \in provider : b.lease # l
Only(l, box) == \A b \in provider : b.lease = l => b = box

(* The box a provider reference speaks of. *)
BoxOfRef(l, ref) ==
  IF ref.engine = "northflank"
  THEN [lease |-> l, engine |-> "northflank", domain |-> ref.domain, mode |-> "job"]
  ELSE [lease |-> l, engine |-> "cloudflare", domain |-> ref.domain, mode |-> ref.route]

(* What the registry, the routes and the ledger's reference say of a lease is true of the provider. *)
LeaseFits(l) ==
  /\ lease[l] \in {"new", "failed"} => l \notin registry.boxes /\ l \notin registry.noBox /\ boxRef[l] = NoRef
  /\ lease[l] \in {"new", "confirmed", "forgotten"} => Gone(l)
  /\ l \in registry.noBox => Gone(l)
  /\ Bound(l) => Only(l, BoxOf(l, KnownRoute(l)))
  /\ boxRef[l] # NoRef => IF boxRef[l].route = "nobox" THEN Gone(l) ELSE Only(l, BoxOfRef(l, boxRef[l]))
  /\ fleet.backend = "hybrid" =>
       /\ routes[l] \in {NoRoute, RouteOf(l)}
       /\ boxRef[l] # NoRef => boxRef[l].route \in {"nobox", RouteOf(l)}

(* The shapes of the maps. *)
ProviderShape ==
  /\ fleet = [i \in FleetFields |-> fleet[i]] /\ fleet.domain \in Nat
  /\ registry = [i \in RegistryFields |-> registry[i]]
  /\ registry.modes = [l \in BoxedLeases |-> registry.modes[l]]
  /\ routes = [l \in BoxedLeases |-> routes[l]]
  /\ boxRef = [l \in BoxedLeases |-> boxRef[l]]
  /\ lease = [l \in BoxedLeases |-> lease[l]]

(* The inductive invariant of the providers' boxes. *)
BoxesFit == ProviderShape /\ \A l \in BoxedLeases : LeaseFits(l)

(* Without boxes it holds. *)
LEMMA BoxesStart == ProviderInit => BoxesFit
<1> SUFFICES ASSUME ProviderInit PROVE BoxesFit
  OBVIOUS
<1>1. ProviderShape
  <2>1. fleet = [i \in FleetFields |-> fleet[i]] /\ fleet.domain = 0
    BY DEF ProviderInit, FleetFields
  <2>2. /\ registry = [i \in RegistryFields |-> registry[i]]
        /\ registry.modes = [l \in BoxedLeases |-> registry.modes[l]]
    BY DEF ProviderInit, RegistryFields
  <2>3. routes = [l \in BoxedLeases |-> routes[l]] /\ lease = [l \in BoxedLeases |-> lease[l]]
    BY DEF ProviderInit
  <2>4. boxRef = [l \in BoxedLeases |-> boxRef[l]]
    BY DEF ProviderInit
  <2> QED  BY <2>1, <2>2, <2>3, <2>4 DEF ProviderShape
<1>2. \A l \in BoxedLeases : LeaseFits(l)
  BY DEF ProviderInit, LeaseFits, Gone, Bound
<1> QED  BY <1>1, <1>2 DEF BoxesFit

(* It implies the property. *)
LEMMA BoxesSafe == BoxesFit => ConfirmedIsGone
BY DEF BoxesFit, LeaseFits, ConfirmedIsGone, ProbeOf, Gone, Only

(* A step for one lease leaves the others as they are. *)
LEMMA OthersFit ==
  ASSUME NEW m \in BoxedLeases, LeaseFits(m), UNCHANGED fleet,
         m \in registry'.boxes <=> m \in registry.boxes, m \in registry'.noBox <=> m \in registry.noBox,
         registry'.modes[m] = registry.modes[m], routes'[m] = routes[m], boxRef'[m] = boxRef[m],
         lease'[m] = lease[m],
         \A b \in provider' : b.lease = m => b \in provider
  PROVE  LeaseFits(m)'
<1>1. /\ Gone(m) => Gone(m)'
      /\ \A x : Only(m, x) => \A b \in provider' : b.lease = m => b = x
  BY DEF Gone, Only
<1>2. (Bound(m)' <=> Bound(m)) /\ KnownRoute(m)' = KnownRoute(m) /\ RouteOf(m)' = RouteOf(m)
  BY DEF Bound, KnownRoute, RouteOf
<1>3. BoxOf(m, KnownRoute(m))' = BoxOf(m, KnownRoute(m))
  BY <1>2 DEF BoxOf, KnownRoute, EngineOfRoute, JobOf, WorkerBoxOf
<1>4. BoxOfRef(m, boxRef[m])' = BoxOfRef(m, boxRef[m])
  BY DEF BoxOfRef
<1> QED  BY <1>1, <1>2, <1>3, <1>4 DEF LeaseFits, Only

(* Nothing this part is about changes. *)
LEMMA BoxesStay ==
  ASSUME BoxesFit, UNCHANGED <<fleet, registry, routes, provider, boxRef, lease>> PROVE BoxesFit'
<1>1. ProviderShape'
  BY DEF BoxesFit, ProviderShape, FleetFields, RegistryFields
<1>2. \A l \in BoxedLeases : LeaseFits(l)'
  BY OthersFit DEF BoxesFit
<1> QED  BY <1>1, <1>2 DEF BoxesFit

(* The registry's updates. *)
Registers(r, boxes, modes, noBox) ==
  r = [i \in RegistryFields |-> r[i]] /\ r.boxes = boxes /\ r.modes = modes /\ r.noBox = noBox

(* What the updates of the registry leave of it. *)
LEMMA RegistryUpdates ==
  ASSUME ProviderShape, NEW l, NEW route, NEW r
  PROVE  /\ r = [registry EXCEPT !.noBox = @ \cup {l}] 
              => Registers(r, registry.boxes, registry.modes, registry.noBox \cup {l})
         /\ r = [registry EXCEPT !.boxes = @ \cup {l}, !.modes[l] = route] =>
              Registers(r, registry.boxes \cup {l}, [registry.modes EXCEPT ![l] = route], registry.noBox)
         /\ r = [registry EXCEPT !.boxes = @ \ {l}, !.modes[l] = route, !.noBox = @ \ {l}] =>
              Registers(r, registry.boxes \ {l}, [registry.modes EXCEPT ![l] = route], registry.noBox \ {l})
<1> PICK p : p = registry
  OBVIOUS
<1>1. p = [i \in RegistryFields |-> p[i]]
  BY DEF ProviderShape
<1> QED  BY <1>1 DEF RegistryFields, Registers

(* A step for lease l that leaves the fleet as it is. *)
LEMMA LeaseStepFits ==
  ASSUME BoxesFit, NEW l \in BoxedLeases, UNCHANGED fleet, LeaseFits(l)', ProviderShape',
         \A m \in BoxedLeases \ {l} :
           /\ m \in registry'.boxes <=> m \in registry.boxes
           /\ m \in registry'.noBox <=> m \in registry.noBox
           /\ registry'.modes[m] = registry.modes[m] /\ routes'[m] = routes[m] /\ boxRef'[m] = boxRef[m]
           /\ lease'[m] = lease[m],
         \A b \in provider' : b \in provider \/ b.lease = l
  PROVE  BoxesFit'
<1>1. \A m \in BoxedLeases \ {l} : LeaseFits(m)'
  BY OthersFit DEF BoxesFit
<1> QED  BY <1>1 DEF BoxesFit

(* A provision, complete or failed half-way, keeps the invariant. *)
LEMMA ProvisionFits ==
  ASSUME BoxesFit, NEW l \in BoxedLeases, ProvisionNoBox(l) \/ Provision(l) \/ ProvisionError(l) PROVE BoxesFit'
<1>0. ProviderShape /\ LeaseFits(l)
  BY DEF BoxesFit
<1>1. UNCHANGED <<fleet, boxRef>> /\ lease[l] = "new" /\ RecordRoute(l)
  BY DEF ProvisionNoBox, Provision, ProvisionError
<1>2. PICK st \in {"provisioned", "failed"} : lease' = [lease EXCEPT ![l] = st]
  BY DEF ProvisionNoBox, Provision, ProvisionError
<1>3. Gone(l) /\ l \notin registry.boxes /\ l \notin registry.noBox /\ boxRef[l] = NoRef /\ boxRef'[l] = NoRef
  BY <1>0, <1>1 DEF LeaseFits
<1>4. /\ routes' = [m \in BoxedLeases |-> routes'[m]] /\ \A m \in BoxedLeases \ {l} : routes'[m] = routes[m]
      /\ fleet.backend = "hybrid" => routes'[l] = RouteOf(l)
  BY <1>0, <1>1 DEF ProviderShape, RecordRoute
<1>r. RouteOf(l)' = RouteOf(l)
  BY <1>1 DEF RouteOf
<1>l. /\ lease' = [m \in BoxedLeases |-> lease'[m]] /\ lease'[l] = st
      /\ \A m \in BoxedLeases \ {l} : lease'[m] = lease[m]
  <2>1. lease' = [lease EXCEPT ![l] = st] /\ lease = [m \in BoxedLeases |-> lease[m]]
    BY <1>0, <1>2 DEF ProviderShape
  <2> QED  BY <2>1
<1>5. /\ RouteOf(l)' = RouteOf(l) /\ lease' = [m \in BoxedLeases |-> lease'[m]] /\ lease'[l] = st
      /\ \A m \in BoxedLeases \ {l} : lease'[m] = lease[m]
  BY <1>r, <1>l
<1>6. CASE ProvisionNoBox(l)
  <2>1. PICK r : r = [registry EXCEPT !.noBox = @ \cup {l}]
    OBVIOUS
  <2>2. registry' = r /\ UNCHANGED provider
    BY <1>6, <2>1 DEF ProvisionNoBox
  <2>u. Registers(r, registry.boxes, registry.modes, registry.noBox \cup {l})
    BY <1>0, <2>1, RegistryUpdates
  <2>3. /\ r = [i \in RegistryFields |-> r[i]] /\ r.boxes = registry.boxes /\ r.modes = registry.modes
        /\ r.noBox = registry.noBox \cup {l}
    BY <2>u DEF Registers
  <2>4. ProviderShape'
    BY <1>0, <1>1, <1>4, <1>5, <2>2, <2>3 DEF ProviderShape, FleetFields
  <2>5. st = "provisioned"
    BY <1>0, <1>5, <1>6 DEF ProvisionNoBox, ProviderShape
  <2>6. LeaseFits(l)'
    BY <1>1, <1>3, <1>4, <1>5, <2>2, <2>3, <2>5 DEF LeaseFits, Gone, Bound
  <2> QED  BY <1>1, <1>4, <1>5, <2>2, <2>3, <2>4, <2>6, LeaseStepFits
<1>7. CASE Provision(l)
  <2>1. PICK r : r = [registry EXCEPT !.boxes = @ \cup {l}, !.modes[l] = RouteOf(l)]
    OBVIOUS
  <2>2. registry' = r /\ provider' = provider \cup {BoxOf(l, RouteOf(l))}
    BY <1>7, <2>1 DEF Provision, BindWithRoute
  <2>u. Registers(r, registry.boxes \cup {l}, [registry.modes EXCEPT ![l] = RouteOf(l)], registry.noBox)
    BY <1>0, <2>1, RegistryUpdates
  <2>3. /\ r = [i \in RegistryFields |-> r[i]] /\ r.boxes = registry.boxes \cup {l} /\ r.noBox = registry.noBox
        /\ r.modes = [registry.modes EXCEPT ![l] = RouteOf(l)]
    BY <2>u DEF Registers
  <2>m. /\ r.modes = [m \in BoxedLeases |-> r.modes[m]] /\ r.modes[l] = RouteOf(l)
        /\ \A m \in BoxedLeases \ {l} : r.modes[m] = registry.modes[m]
    BY <1>0, <2>3 DEF ProviderShape
  <2>4. ProviderShape'
    BY <1>0, <1>1, <1>4, <1>5, <2>2, <2>3, <2>m DEF ProviderShape, FleetFields
  <2>5. st = "provisioned"
    BY <1>0, <1>5, <1>7 DEF Provision, ProviderShape
  <2>6. KnownRoute(l)' = RouteOf(l)
    BY <1>1, <1>4, <2>2, <2>m DEF KnownRoute
  <2>7. BoxOf(l, KnownRoute(l))' = BoxOf(l, RouteOf(l)) /\ BoxOf(l, RouteOf(l)).lease = l
    BY <1>1, <2>6 DEF BoxOf, EngineOfRoute, JobOf, WorkerBoxOf
  <2>8. Only(l, BoxOf(l, KnownRoute(l)))'
    BY <1>3, <2>2, <2>7 DEF Only, Gone
  <2>9. LeaseFits(l)'
    BY <1>1, <1>3, <1>4, <1>5, <2>2, <2>3, <2>5, <2>8 DEF LeaseFits
  <2> QED  BY <1>1, <1>4, <1>5, <2>2, <2>3, <2>m, <2>4, <2>7, <2>9, LeaseStepFits
<1>8. CASE ProvisionError(l)
  <2>1. UNCHANGED registry /\ \A b \in provider' : b \in provider \/ b.lease = l
    BY <1>8 DEF ProvisionError, SpawnJobFails, SpawnWorkerFails, JobOf, WorkerBoxOf
  <2>2. ProviderShape'
    BY <1>0, <1>1, <1>4, <1>5, <2>1 DEF ProviderShape, FleetFields, RegistryFields
  <2>3. st = "failed"
    BY <1>2, <1>5, <1>8 DEF ProvisionError
  <2>4. LeaseFits(l)'
    BY <1>1, <1>3, <1>4, <1>5, <2>1, <2>3 DEF LeaseFits, Bound
  <2> QED  BY <1>1, <1>4, <1>5, <2>1, <2>2, <2>4, LeaseStepFits
<1> QED  BY <1>6, <1>7, <1>8

(* So does writing the provider reference to the ledger, *)
LEMMA BindFits == ASSUME BoxesFit, NEW l \in BoxedLeases, BindProviderRef(l) PROVE BoxesFit'
<1>0. ProviderShape /\ LeaseFits(l)
  BY DEF BoxesFit
<1>1. PICK ref : ref = BindingRef(l)
  OBVIOUS
<1>2. /\ UNCHANGED <<fleet, registry, routes, provider, lease>> /\ lease[l] = "provisioned"
      /\ Bound(l) \/ l \in registry.noBox
      /\ WellFormedRef(ref) /\ boxRef' = [boxRef EXCEPT ![l] = ref]
  BY <1>1 DEF BindProviderRef
<1>3. /\ boxRef' = [m \in BoxedLeases |-> boxRef'[m]] /\ boxRef'[l] = ref
      /\ \A m \in BoxedLeases \ {l} : boxRef'[m] = boxRef[m]
  BY <1>0, <1>2 DEF ProviderShape
<1>4. ProviderShape'
  BY <1>0, <1>2, <1>3 DEF ProviderShape, FleetFields, RegistryFields
<1>5. /\ IF ref.route = "nobox" THEN Gone(l) ELSE Only(l, BoxOfRef(l, ref))
      /\ fleet.backend = "hybrid" => ref.route \in {"nobox", RouteOf(l)}
  <2>1. CASE l \in registry.noBox
    <3>1. ref = NoBoxRef
      BY <1>1, <2>1 DEF BindingRef
    <3> QED  BY <1>0, <2>1, <3>1 DEF LeaseFits, NoBoxRef
  <2>2. CASE l \notin registry.noBox
    <3>1. Bound(l) /\ Only(l, BoxOf(l, KnownRoute(l)))
      BY <1>0, <1>2, <2>2 DEF LeaseFits
    <3>2. /\ ref.route = KnownRoute(l) /\ ref.engine = EngineOfRoute(KnownRoute(l)) /\ ref.domain = fleet.domain
      BY <1>1, <2>2 DEF BindingRef, HybridRef, BoxedRef, EngineOfRoute, KnownRoute
    <3>3. ref.route # "nobox" /\ (ref.engine = "off" => FALSE)
      BY <1>0, <1>2, <3>2 DEF WellFormedRef, NoBoxRef, ProviderShape, LocalDomain
    <3>4. BoxOfRef(l, ref) = BoxOf(l, KnownRoute(l))
      BY <3>2 DEF BoxOfRef, BoxOf, JobOf, WorkerBoxOf
    <3>5. fleet.backend = "hybrid" => ref.route = RouteOf(l)
      BY <1>0, <3>1, <3>2 DEF LeaseFits, Bound, KnownRoute
    <3> QED  BY <3>1, <3>3, <3>4, <3>5
  <2> QED  BY <2>1, <2>2
<1>6. LeaseFits(l)'
  <2>1. /\ RouteOf(l)' = RouteOf(l) /\ (Gone(l) => Gone(l)') /\ (Bound(l)' <=> Bound(l))
        /\ BoxOf(l, KnownRoute(l))' = BoxOf(l, KnownRoute(l))
    BY <1>2 DEF RouteOf, Gone, Bound, KnownRoute, BoxOf, EngineOfRoute, JobOf, WorkerBoxOf
  <2>2. \A x : Only(l, x) => \A b \in provider' : b.lease = l => b = x
    BY <1>2 DEF Only
  <2> QED  BY <1>0, <1>2, <1>3, <1>5, <2>1, <2>2 DEF LeaseFits, Only, BoxOfRef
<1> QED  BY <1>2, <1>3, <1>4, <1>6, LeaseStepFits

(* reading it back at boot, *)
LEMMA RestoreFits == ASSUME BoxesFit, NEW l \in BoxedLeases, Restore(l) PROVE BoxesFit'
<1>0. ProviderShape /\ LeaseFits(l)
  BY DEF BoxesFit
<1>1. PICK ref : ref = boxRef[l]
  OBVIOUS
<1>2. /\ UNCHANGED <<fleet, provider, boxRef, lease>> /\ ref # NoRef /\ WellFormedRef(ref)
      /\ lease[l] = "provisioned"
  BY <1>0, <1>1 DEF Restore, LeaseFits
<1>3. RouteOf(l)' = RouteOf(l) /\ (Gone(l) => Gone(l)') /\ BoxOfRef(l, boxRef[l])' = BoxOfRef(l, ref)
  BY <1>1, <1>2 DEF RouteOf, Gone, BoxOfRef
<1>4. \A x : Only(l, x) => \A b \in provider' : b.lease = l => b = x
  BY <1>2 DEF Only
<1>5. CASE /\ Restorable(l, ref) /\ BindWithRoute(l, ref.route)
           /\ routes' = IF fleet.backend = "hybrid" THEN [routes EXCEPT ![l] = ref.route] ELSE routes
  <2>1. PICK r : r = [registry EXCEPT !.boxes = @ \cup {l}, !.modes[l] = ref.route]
    OBVIOUS
  <2>2. registry' = r
    BY <1>5, <2>1 DEF BindWithRoute
  <2>u. Registers(r, registry.boxes \cup {l}, [registry.modes EXCEPT ![l] = ref.route], registry.noBox)
    BY <1>0, <2>1, RegistryUpdates
  <2>3. /\ r = [i \in RegistryFields |-> r[i]] /\ r.boxes = registry.boxes \cup {l} /\ r.noBox = registry.noBox
        /\ r.modes = [registry.modes EXCEPT ![l] = ref.route]
    BY <2>u DEF Registers
  <2>m. /\ r.modes = [m \in BoxedLeases |-> r.modes[m]] /\ r.modes[l] = ref.route
        /\ \A m \in BoxedLeases \ {l} : r.modes[m] = registry.modes[m]
    BY <1>0, <2>3 DEF ProviderShape
  <2>4. /\ routes' = [m \in BoxedLeases |-> routes'[m]] /\ \A m \in BoxedLeases \ {l} : routes'[m] = routes[m]
        /\ fleet.backend = "hybrid" => routes'[l] = ref.route
    BY <1>0, <1>5 DEF ProviderShape
  <2>5. ProviderShape'
    BY <1>0, <1>2, <2>2, <2>3, <2>m, <2>4 DEF ProviderShape, FleetFields
  <2>6. /\ ref.route # "nobox" /\ fleet.backend \in {"hybrid", "northflank", "cloudflare"}
        /\ ref.domain = fleet.domain
    BY <1>2, <1>5 DEF Restorable, HybridRestorable, RestorableJob, RestorableWorkerBox, WellFormedRef
  <2>7. ref.engine = EngineOfRoute(ref.route) /\ ref.engine \in {"northflank", "cloudflare"}
    BY <1>5, <2>6 DEF Restorable, HybridRestorable, RestorableJob, RestorableWorkerBox, EngineOfRoute
  <2>8. Only(l, BoxOfRef(l, ref))
    BY <1>0, <1>1, <1>2, <2>6 DEF LeaseFits
  <2>9. KnownRoute(l)' = ref.route
    BY <1>2, <2>2, <2>m, <2>4 DEF KnownRoute
  <2>10. BoxOf(l, KnownRoute(l))' = BoxOfRef(l, ref)
    BY <1>2, <2>6, <2>7, <2>9 DEF BoxOf, BoxOfRef, EngineOfRoute, JobOf, WorkerBoxOf
  <2>11. Only(l, BoxOf(l, KnownRoute(l)))' /\ Only(l, BoxOfRef(l, boxRef[l]))'
    BY <1>3, <1>4, <2>8, <2>10 DEF Only
  <2>12. fleet.backend = "hybrid" => ref.route = RouteOf(l)
    BY <1>0, <1>1, <1>2, <2>6 DEF LeaseFits
  <2>13. LeaseFits(l)'
    BY <1>0, <1>1, <1>2, <1>3, <2>2, <2>3, <2>4, <2>6, <2>11, <2>12 DEF LeaseFits
  <2> QED  BY <1>2, <2>2, <2>3, <2>m, <2>4, <2>5, <2>13, LeaseStepFits
<1>6. CASE ref.route = "nobox" /\ registry' = [registry EXCEPT !.noBox = @ \cup {l}] /\ UNCHANGED routes
  <2>1. PICK r : r = [registry EXCEPT !.noBox = @ \cup {l}]
    OBVIOUS
  <2>2. registry' = r
    BY <1>6, <2>1
  <2>u. Registers(r, registry.boxes, registry.modes, registry.noBox \cup {l})
    BY <1>0, <2>1, RegistryUpdates
  <2>3. /\ r = [i \in RegistryFields |-> r[i]] /\ r.boxes = registry.boxes /\ r.modes = registry.modes
        /\ r.noBox = registry.noBox \cup {l}
    BY <2>u DEF Registers
  <2>4. ProviderShape'
    BY <1>0, <1>2, <1>6, <2>2, <2>3 DEF ProviderShape, FleetFields
  <2>5. Gone(l)'
    BY <1>0, <1>1, <1>2, <1>3, <1>6 DEF LeaseFits
  <2>6. LeaseFits(l)'
    BY <1>0, <1>1, <1>2, <1>3, <1>6, <2>2, <2>3, <2>5 DEF LeaseFits, Gone, Only
  <2> QED  BY <1>2, <1>6, <2>2, <2>3, <2>4, <2>6, LeaseStepFits
<1> QED  BY <1>1, <1>5, <1>6 DEF Restore, RestoredRoute

(* a teardown, confirmed or not, *)
LEMMA TeardownFits ==
  ASSUME BoxesFit, NEW l \in BoxedLeases,
         Teardown(l) \/ TeardownRetryable(l) \/ ForgetPendingCleanup(l) PROVE BoxesFit'
<1>0. ProviderShape /\ LeaseFits(l)
  BY DEF BoxesFit
<1>1. UNCHANGED <<fleet, boxRef>> /\ provider' \subseteq provider
  BY DEF Teardown, TeardownRetryable, ForgetPendingCleanup
<1>2. RouteOf(l)' = RouteOf(l) /\ (Gone(l) => Gone(l)') /\ BoxOfRef(l, boxRef[l])' = BoxOfRef(l, boxRef[l])
  BY <1>1 DEF RouteOf, Gone, BoxOfRef
<1>3. \A x : Only(l, x) => \A b \in provider' : b.lease = l => b = x
  BY <1>1 DEF Only
<1>4. CASE Teardown(l)
  <2>1. /\ UNCHANGED <<registry, routes>> /\ lease' = [lease EXCEPT ![l] = "confirmed"] /\ lease[l] # "new"
        /\ Bound(l) \/ l \in registry.noBox
        /\ Bound(l) => provider' = provider \ {BoxOf(l, KnownRoute(l))}
    BY <1>4 DEF Teardown, Confirms
  <2>2. Gone(l)'
    <3>1. CASE Bound(l)
      BY <1>0, <2>1, <3>1 DEF LeaseFits, Only, Gone
    <3>2. CASE l \in registry.noBox
      BY <1>0, <1>2, <3>2 DEF LeaseFits
    <3> QED  BY <2>1, <3>1, <3>2
  <2>3. /\ lease' = [m \in BoxedLeases |-> lease'[m]] /\ lease'[l] = "confirmed"
        /\ \A m \in BoxedLeases \ {l} : lease'[m] = lease[m]
    BY <1>0, <2>1 DEF ProviderShape
  <2>4. ProviderShape'
    BY <1>0, <1>1, <2>1, <2>3 DEF ProviderShape, FleetFields, RegistryFields
  <2>5. LeaseFits(l)'
    BY <1>0, <1>1, <1>2, <2>1, <2>2, <2>3 DEF LeaseFits, Only, Gone
  <2> QED  BY <1>1, <2>1, <2>3, <2>4, <2>5, LeaseStepFits
<1>5. CASE TeardownRetryable(l)
  <2>1. UNCHANGED <<registry, routes, lease>>
    BY <1>5 DEF TeardownRetryable
  <2>2. ProviderShape'
    BY <1>0, <1>1, <2>1 DEF ProviderShape, FleetFields, RegistryFields
  <2>3. LeaseFits(l)'
    BY <1>0, <1>1, <2>1, OthersFit
  <2> QED  BY <1>1, <2>1, <2>2, <2>3, LeaseStepFits
<1>6. CASE ForgetPendingCleanup(l)
  <2>1. PICK r : r = [registry EXCEPT !.boxes = @ \ {l}, !.modes[l] = NoRoute, !.noBox = @ \ {l}]
    OBVIOUS
  <2>2. /\ registry' = r /\ routes' = [routes EXCEPT ![l] = NoRoute]
        /\ lease' = [lease EXCEPT ![l] = "forgotten"]
        /\ lease[l] = "confirmed"
    BY <1>6, <2>1 DEF ForgetPendingCleanup
  <2>u. Registers(r, registry.boxes \ {l}, [registry.modes EXCEPT ![l] = NoRoute], registry.noBox \ {l})
    BY <1>0, <2>1, RegistryUpdates
  <2>3. /\ r = [i \in RegistryFields |-> r[i]] /\ r.boxes = registry.boxes \ {l}
        /\ r.noBox = registry.noBox \ {l}
        /\ r.modes = [registry.modes EXCEPT ![l] = NoRoute]
    BY <2>u DEF Registers
  <2>4. /\ r.modes = [m \in BoxedLeases |-> r.modes[m]]
        /\ \A m \in BoxedLeases \ {l} : r.modes[m] = registry.modes[m]
        /\ routes' = [m \in BoxedLeases |-> routes'[m]] /\ routes'[l] = NoRoute
        /\ \A m \in BoxedLeases \ {l} : routes'[m] = routes[m]
        /\ lease' = [m \in BoxedLeases |-> lease'[m]] /\ lease'[l] = "forgotten"
        /\ \A m \in BoxedLeases \ {l} : lease'[m] = lease[m]
    BY <1>0, <2>2, <2>3 DEF ProviderShape
  <2>5. ProviderShape'
    BY <1>0, <1>1, <2>2, <2>3, <2>4 DEF ProviderShape, FleetFields
  <2>6. Gone(l)' /\ ~Bound(l)' /\ l \notin registry'.noBox
    BY <1>0, <1>2, <2>2, <2>3 DEF LeaseFits, Bound
  <2>7. LeaseFits(l)'
    BY <1>0, <1>1, <1>2, <2>2, <2>4, <2>6 DEF LeaseFits, Only, Gone
  <2> QED  BY <1>1, <2>2, <2>3, <2>4, <2>5, <2>7, LeaseStepFits
<1> QED  BY <1>4, <1>5, <1>6

(* and a restart of the server, which forgets the registry and may move to    *)
(* another fault domain.                                                      *)
LEMMA RestartFits == ASSUME BoxesFit, NEW domain \in 0..MaxRestarts, Restart(domain) PROVE BoxesFit'
<1>0. ProviderShape /\ \A l \in BoxedLeases : LeaseFits(l)
  BY DEF BoxesFit
<1>1. PICK f : f = [fleet EXCEPT !.domain = domain]
  OBVIOUS
<1>2. /\ fleet' = f /\ UNCHANGED <<provider, boxRef, lease>>
      /\ registry' = [boxes |-> {}, modes |-> [l \in BoxedLeases |-> NoRoute], noBox |-> {}]
      /\ routes' = [l \in BoxedLeases |-> NoRoute]
  BY <1>1 DEF Restart
<1>3. f = [i \in FleetFields |-> f[i]] /\ f.domain = domain /\ f.kind = fleet.kind /\ f.backend = fleet.backend
  BY <1>0, <1>1 DEF ProviderShape, FleetFields
<1>4. domain \in Nat
  BY ProviderAssumption
<1>5. ProviderShape'
  BY <1>0, <1>2, <1>3, <1>4 DEF ProviderShape, FleetFields, RegistryFields
<1>6. ASSUME NEW l \in BoxedLeases PROVE LeaseFits(l)'
  <2>1. RouteOf(l)' = RouteOf(l) /\ (Gone(l) => Gone(l)') /\ BoxOfRef(l, boxRef[l])' = BoxOfRef(l, boxRef[l])
    BY <1>2, <1>3 DEF RouteOf, Gone, BoxOfRef
  <2>2. \A x : Only(l, x) => \A b \in provider' : b.lease = l => b = x
    BY <1>2 DEF Only
  <2>3. ~Bound(l)' /\ l \notin registry'.boxes /\ l \notin registry'.noBox /\ routes'[l] = NoRoute
    BY <1>2 DEF Bound
  <2> QED  BY <1>0, <1>2, <1>3, <2>1, <2>2, <2>3 DEF LeaseFits, Only
<1> QED  BY <1>5, <1>6 DEF BoxesFit

(* Every step keeps the invariant. *)
LEMMA BoxesKeep == BoxesFit /\ [ProviderNext]_providerVars => BoxesFit'
<1> SUFFICES ASSUME BoxesFit, [ProviderNext]_providerVars PROVE BoxesFit'
  OBVIOUS
<1>1. ASSUME NEW c \in DOMAIN ExecCalls,
             \/ ExecStart(c) \/ SetCommand(c) \/ TriggerRun(c) \/ PollRun(c)
             \/ FetchLogs(c) \/ WorkerExec(c) \/ ExecFails(c)
             \/ \E fate \in {"succeeded", "failed"} : RunEnds(c, fate)
      PROVE  UNCHANGED <<fleet, registry, routes, provider, boxRef, lease>>
  BY <1>1 DEF ExecStart, SetCommand, TriggerRun, PollRun, FetchLogs, WorkerExec, ExecFails, RunEnds
<1>2. CASE UNCHANGED providerVars
  BY <1>2, BoxesStay DEF providerVars
<1> QED  BY <1>1, <1>2, BoxesStay, ProvisionFits, BindFits, RestoreFits, TeardownFits, RestartFits
  DEF ProviderNext

(* The invariant of the providers' boxes, for any leases, executions and      *)
(* number of restarts.                                                        *)
THEOREM ProviderInvariance == ProviderSpec => []BoxesFit
BY BoxesStart, BoxesKeep, PTL DEF ProviderSpec

(* A teardown that the provisioners call confirmed, and a probe that answers  *)
(* Dead, leave no box of the lease at either engine or in any domain, across  *)
(* restarts, rebinds from the ledger and lost answers.                        *)
THEOREM ConfirmedAlwaysGone == ProviderSpec => []ConfirmedIsGone
BY ProviderInvariance, BoxesSafe, PTL

--------------------------------------------------------------------------------
(* Executions at a provider *)

(* The fields of an execution. *)
ExecFields == {"at", "ran", "logs", "polls", "fate", "code"}
(* Where an execution that goes on can be. *)
ExecBusy == {"set", "trigger", "poll", "logs", "worker"}

(* The hybrid fleet executes on no runner. *)
MayExecute(c) == fleet.backend = "hybrid" => RouteOf(ExecCalls[c]) # "runner"

(* A code of 0 came from a run that succeeded, and only a lease that may execute has a run. *)
ExecFits(c, r) ==
  /\ r = [i \in ExecFields |-> r[i]]
  /\ r.code = "0" => r.fate = "succeeded"
  /\ r.at \in {"idle", "set", "trigger", "worker"} => r.code = "none"
  /\ r.at \in ExecBusy \/ r.ran # "none" => MayExecute(c)

(* The invariant of the executions. *)
ExecsFit == exec = [c \in DOMAIN ExecCalls |-> exec[c]] /\ \A c \in DOMAIN ExecCalls : ExecFits(c, exec[c])

(* Before any execution it holds. *)
LEMMA ExecStarts == ProviderInit => ExecsFit
BY DEF ProviderInit, ExecsFit, ExecFits, ExecFields, ExecBusy

(* One execution takes a step. *)
LEMMA ExecMoves ==
  ASSUME ExecsFit, UNCHANGED fleet, NEW c \in DOMAIN ExecCalls, NEW r, exec' = [exec EXCEPT ![c] = r],
         ExecFits(c, r) PROVE ExecsFit'
<1>1. /\ exec' = [d \in DOMAIN ExecCalls |-> exec'[d]] /\ exec'[c] = r
      /\ \A d \in DOMAIN ExecCalls \ {c} : exec'[d] = exec[d]
  BY DEF ExecsFit
<1>2. \A d \in DOMAIN ExecCalls : ExecFits(d, exec'[d])
  BY <1>1 DEF ExecsFit
<1>3. \A d \in DOMAIN ExecCalls : ExecFits(d, exec[d])'
  BY <1>2 DEF ExecFits, MayExecute, RouteOf
<1> QED  BY <1>1, <1>3 DEF ExecsFit

(* No execution does. *)
LEMMA ExecStays == ASSUME ExecsFit, UNCHANGED <<fleet, exec>> PROVE ExecsFit'
BY DEF ExecsFit, ExecFits, MayExecute, RouteOf

(* classify_run_status reads success only from a run that succeeded. *)
LEMMA SuccessBody ==
  ASSUME NEW fate, NEW body \in StatusBodies(fate),
         ClassifyRunStatus(body) = "succeeded" PROVE fate = "succeeded"
<1>1. body \cap FailTokens = {} /\ "SUCCESS" \in body
  BY DEF ClassifyRunStatus
<1>2. CASE fate = "failed"
  <2>1. "FAILED" \in body \/ "CRASHED" \in body
    BY <1>2 DEF StatusBodies
  <2> QED  BY <1>1, <2>1 DEF FailTokens
<1>3. CASE fate \notin {"failed", "succeeded"}
  <2>1. "SUCCESS" \notin body
    BY <1>3 DEF StatusBodies
  <2> QED  BY <1>1, <2>1
<1> QED  BY <1>2, <1>3

(* Every step of a provider, of a run and of its polls keeps the invariant. *)
LEMMA ExecKeeps == BoxesFit /\ ExecsFit /\ [ProviderNext]_providerVars => ExecsFit'
<1> SUFFICES ASSUME BoxesFit, ExecsFit, [ProviderNext]_providerVars PROVE ExecsFit'
  OBVIOUS
<1>0. \A c \in DOMAIN ExecCalls : ExecFits(c, exec[c])
  BY DEF ExecsFit
<1>g. ASSUME NEW c \in DOMAIN ExecCalls, NEW at, ExecGoes(c, at), UNCHANGED fleet,
             \/ at = "done" \/ (at \in {"set", "worker"} /\ MayExecute(c) /\ exec[c].at = "idle")
             \/ (at = "trigger" /\ exec[c].at = "set")
      PROVE  ExecsFit'
  <2>1. PICK q : q = exec[c] /\ ExecFits(c, q)
    BY <1>0
  <2>2. PICK r : r = [q EXCEPT !.at = at]
    OBVIOUS
  <2>3. exec' = [exec EXCEPT ![c] = r]
    BY <1>g, <2>1, <2>2 DEF ExecGoes
  <2>4. r = [i \in ExecFields |-> r[i]] /\ r.at = at /\ r.code = q.code /\ r.fate = q.fate /\ r.ran = q.ran
    BY <2>1, <2>2 DEF ExecFits, ExecFields
  <2>5. ExecFits(c, r)
    BY <1>g, <2>1, <2>4 DEF ExecFits, ExecBusy
  <2> QED  BY <1>g, <2>3, <2>5, ExecMoves
<1>1. ASSUME NEW c \in DOMAIN ExecCalls, ExecStart(c) PROVE ExecsFit'
  <2>1. exec[c].at = "idle" /\ UNCHANGED fleet
    BY <1>1 DEF ExecStart
  <2>2. CASE ExecGoes(c, "done")
    BY <1>g, <2>1, <2>2
  <2>3. CASE Executes(ExecCalls[c]) /\ (ExecGoes(c, "set") \/ ExecGoes(c, "worker"))
    <3>1. LeaseFits(ExecCalls[c])
      BY ProviderAssumption DEF BoxesFit
    <3>2. MayExecute(c)
      BY <2>3, <3>1 DEF Executes, Bound, KnownRoute, LeaseFits, MayExecute
    <3> QED  BY <1>g, <2>1, <2>3, <3>2
  <2> QED  BY <1>1, <2>2, <2>3 DEF ExecStart
<1>2. ASSUME NEW c \in DOMAIN ExecCalls, SetCommand(c) PROVE ExecsFit'
  BY <1>2, <1>g DEF SetCommand
<1>3. ASSUME NEW c \in DOMAIN ExecCalls, TriggerRun(c) PROVE ExecsFit'
  <2>1. PICK q : q = exec[c] /\ ExecFits(c, q) /\ q.at = "trigger"
    BY <1>0, <1>3 DEF TriggerRun
  <2>2. PICK run : run = command[ExecCalls[c]].set
    OBVIOUS
  <2>3. PICK r : r = [q EXCEPT !.at = "poll", !.ran = run, !.fate = "running"]
    OBVIOUS
  <2>4. exec' = [exec EXCEPT ![c] = r] /\ UNCHANGED fleet
    BY <1>3, <2>1, <2>2, <2>3 DEF TriggerRun
  <2>5. r = [i \in ExecFields |-> r[i]] /\ r.at = "poll" /\ r.code = q.code /\ r.fate = "running"
    BY <2>1, <2>3 DEF ExecFits, ExecFields
  <2>6. ExecFits(c, r)
    BY <2>1, <2>5 DEF ExecFits, ExecBusy
  <2> QED  BY <2>4, <2>6, ExecMoves
<1>4. ASSUME NEW c \in DOMAIN ExecCalls, NEW fate \in {"succeeded", "failed"}, RunEnds(c, fate) PROVE ExecsFit'
  <2>1. PICK q : q = exec[c] /\ ExecFits(c, q) /\ q.at = "poll" /\ q.fate = "running"
    BY <1>0, <1>4 DEF RunEnds
  <2>2. PICK r : r = [q EXCEPT !.fate = fate]
    OBVIOUS
  <2>3. exec' = [exec EXCEPT ![c] = r] /\ UNCHANGED fleet
    BY <1>4, <2>1, <2>2 DEF RunEnds
  <2>4. r = [i \in ExecFields |-> r[i]] /\ r.at = "poll" /\ r.code = q.code /\ r.fate = fate /\ r.ran = q.ran
    BY <2>1, <2>2 DEF ExecFits, ExecFields
  <2>5. ExecFits(c, r)
    BY <2>1, <2>4 DEF ExecFits, ExecBusy
  <2> QED  BY <2>3, <2>5, ExecMoves
<1>5. ASSUME NEW c \in DOMAIN ExecCalls, PollRun(c) PROVE ExecsFit'
  <2>1. PICK q : q = exec[c] /\ ExecFits(c, q) /\ q.at = "poll"
    BY <1>0, <1>5 DEF PollRun
  <2>b. PICK body \in StatusBodies(q.fate) :
          exec' = [exec EXCEPT ![c].polls = @ + 1,
             ![c].at = IF ClassifyRunStatus(body) # "running" THEN "logs"
                       ELSE IF exec[c].polls + 1 = MaxPollAttempts THEN "done" ELSE @,
             ![c].code = CASE ClassifyRunStatus(body) = "succeeded" -> "0"
                           [] ClassifyRunStatus(body) = "failed" -> "1"
                           [] OTHER -> @]
    BY <1>5, <2>1 DEF PollRun
  <2>s. PICK state, n : state = ClassifyRunStatus(body) /\ n = q.polls + 1
    OBVIOUS
  <2>c. PICK at, code :
          /\ at = (IF state # "running" THEN "logs" ELSE IF n = MaxPollAttempts THEN "done" ELSE q.at)
          /\ code = (CASE state = "succeeded" -> "0" [] state = "failed" -> "1" [] OTHER -> q.code)
    OBVIOUS
  <2>2. exec' = [exec EXCEPT ![c].polls = n, ![c].at = at, ![c].code = code]
    BY <2>1, <2>b, <2>s, <2>c
  <2>3. state = "succeeded" => q.fate = "succeeded"
    BY <2>b, <2>s, SuccessBody
  <2>4. at \in {"logs", "done", "poll"} /\ (code = "0" => q.fate = "succeeded")
    BY <2>1, <2>c, <2>3 DEF ExecFits
  <2>5. PICK r : r = [q EXCEPT !.polls = n, !.at = at, !.code = code]
    OBVIOUS
  <2>6. exec' = [exec EXCEPT ![c] = r] /\ UNCHANGED fleet
    BY <1>5, <2>1, <2>2, <2>5 DEF PollRun
  <2>7. r = [i \in ExecFields |-> r[i]] /\ r.at = at /\ r.code = code /\ r.fate = q.fate /\ r.ran = q.ran
    BY <2>1, <2>5 DEF ExecFits, ExecFields
  <2>8. ExecFits(c, r)
    BY <2>1, <2>4, <2>7 DEF ExecFits, ExecBusy
  <2> QED  BY <2>6, <2>8, ExecMoves
<1>6. ASSUME NEW c \in DOMAIN ExecCalls, FetchLogs(c) PROVE ExecsFit'
  <2>1. PICK q : q = exec[c] /\ ExecFits(c, q) /\ q.at = "logs"
    BY <1>0, <1>6 DEF FetchLogs
  <2>2. PICK x : x = command[ExecCalls[c]].last
    OBVIOUS
  <2>3. PICK r : r = [q EXCEPT !.at = "returned", !.logs = x]
    OBVIOUS
  <2>4. exec' = [exec EXCEPT ![c] = r] /\ UNCHANGED fleet
    BY <1>6, <2>1, <2>2, <2>3 DEF FetchLogs
  <2>5. r = [i \in ExecFields |-> r[i]] /\ r.at = "returned" /\ r.code = q.code /\ r.fate = q.fate /\ r.ran = q.ran
    BY <2>1, <2>3 DEF ExecFits, ExecFields
  <2>6. ExecFits(c, r)
    BY <2>1, <2>5 DEF ExecFits, ExecBusy
  <2> QED  BY <2>4, <2>6, ExecMoves
<1>7. ASSUME NEW c \in DOMAIN ExecCalls, WorkerExec(c) PROVE ExecsFit'
  <2>1. PICK q : q = exec[c] /\ ExecFits(c, q) /\ q.at = "worker"
    BY <1>0, <1>7 DEF WorkerExec
  <2>f. PICK fate \in {"succeeded", "failed", "killed"} :
          exec' = [exec EXCEPT ![c].at = "returned", ![c].ran = c, ![c].logs = c, ![c].fate = fate,
                    ![c].code = CASE fate = "succeeded" -> "0" [] fate = "failed" -> "1" [] OTHER -> "none"]
    BY <1>7 DEF WorkerExec
  <2>c. PICK code : code = (CASE fate = "succeeded" -> "0" [] fate = "failed" -> "1" [] OTHER -> "none")
    OBVIOUS
  <2>2. exec' = [exec EXCEPT ![c].at = "returned", ![c].ran = c, ![c].logs = c, ![c].fate = fate, ![c].code = code]
    BY <2>f, <2>c
  <2>3. PICK r : r = [q EXCEPT !.at = "returned", !.ran = c, !.logs = c, !.fate = fate, !.code = code]
    OBVIOUS
  <2>4. exec' = [exec EXCEPT ![c] = r] /\ UNCHANGED fleet
    BY <1>7, <2>1, <2>2, <2>3 DEF WorkerExec
  <2>5. r = [i \in ExecFields |-> r[i]] /\ r.at = "returned" /\ r.code = code /\ r.fate = fate
    BY <2>1, <2>3 DEF ExecFits, ExecFields
  <2>6. code = "0" => fate = "succeeded"
    BY <2>c
  <2>7. ExecFits(c, r)
    BY <2>1, <2>5, <2>6 DEF ExecFits, ExecBusy
  <2> QED  BY <2>4, <2>7, ExecMoves
<1>8. ASSUME NEW c \in DOMAIN ExecCalls, ExecFails(c) PROVE ExecsFit'
  BY <1>8, <1>g DEF ExecFails
<1>9. ASSUME NEW domain \in 0..MaxRestarts, Restart(domain) PROVE ExecsFit'
  <2>1. PICK f : f = [fleet EXCEPT !.domain = domain]
    OBVIOUS
  <2>2. fleet' = f /\ f.kind = fleet.kind /\ f.backend = fleet.backend
    BY <1>9, <2>1 DEF Restart, BoxesFit, ProviderShape, FleetFields
  <2>3. exec' = [c \in DOMAIN ExecCalls |-> [exec[c] EXCEPT !.at = IF @ \in {"idle", "returned"} THEN @ ELSE "done"]]
    BY <1>9 DEF Restart
  <2>4. ASSUME NEW c \in DOMAIN ExecCalls PROVE ExecFits(c, exec[c])'
    <3>1. PICK q : q = exec[c] /\ ExecFits(c, q)
      BY <1>0
    <3>2. PICK r : r = [q EXCEPT !.at = IF @ \in {"idle", "returned"} THEN @ ELSE "done"]
      OBVIOUS
    <3>3. exec'[c] = r
      BY <2>3, <3>1, <3>2
    <3>4. /\ r = [i \in ExecFields |-> r[i]] /\ r.at \in {"idle", "returned", "done"}
          /\ (r.at = "idle" => q.at = "idle") /\ r.code = q.code
          /\ r.fate = q.fate /\ r.ran = q.ran
      BY <3>1, <3>2 DEF ExecFits, ExecFields
    <3>5. MayExecute(c) => MayExecute(c)'
      BY <2>2 DEF MayExecute, RouteOf
    <3>6. ExecFits(c, r) /\ (r.ran # "none" => MayExecute(c)') /\ r.at \notin ExecBusy
      BY <3>1, <3>4, <3>5 DEF ExecFits, ExecBusy
    <3> QED  BY <3>3, <3>6 DEF ExecFits
  <2>5. exec' = [c \in DOMAIN ExecCalls |-> exec'[c]]
    BY <2>3
  <2> QED  BY <2>4, <2>5 DEF ExecsFit
<1>10. ASSUME NEW l \in BoxedLeases,
              \/ ProvisionNoBox(l) \/ Provision(l) \/ ProvisionError(l) \/ BindProviderRef(l) \/ Restore(l)
                                     \/ Teardown(l) \/ TeardownRetryable(l) \/ ForgetPendingCleanup(l)
       PROVE  ExecsFit'
  BY <1>10, ExecStays DEF ProvisionNoBox, Provision, ProvisionError, BindProviderRef, Restore, Teardown,
     TeardownRetryable, ForgetPendingCleanup
<1>11. CASE UNCHANGED providerVars
  BY <1>11, ExecStays DEF providerVars
<1> QED  BY <1>1, <1>2, <1>3, <1>4, <1>5, <1>6, <1>7, <1>8, <1>9, <1>10, <1>11 DEF ProviderNext

(* A provider execution that reports exit code 0 saw its run succeed (a poll  *)
(* that times out, a run that fails, a status that names both and a lost      *)
(* connection never read as success), and a lease that the hybrid fleet       *)
(* routes to a runner never executes.                                         *)
THEOREM SuccessIsAlwaysEvidence == ProviderSpec => []SuccessIsEvidence
<1>1. ProviderSpec => []ExecsFit
  BY ExecStarts, ExecKeeps, ProviderInvariance, PTL DEF ProviderSpec
<1>2. ExecsFit => SuccessIsEvidence
  BY DEF ExecsFit, ExecFits, MayExecute, SuccessIsEvidence
<1> QED  BY <1>1, <1>2, PTL

--------------------------------------------------------------------------------
(* The clw driver *)

(* The fields of a drive. *)
DriveFields == {"at", "code", "receipt", "child", "outcome"}

(* What is known of clw's exit is known of the command's: without a verdict   *)
(* yet, a code that clw can only have                                         *)
(* from the command is the command's.                                         *)
DriveFits(r) ==
  /\ r = [i \in DriveFields |-> r[i]]
  /\ r.at \in {"snapshot", "hydrate", "mktemp", "run"} => r.code = NoCode /\ r.child = NoCode /\ r.outcome = "none"
  /\ r.at \in {"cat", "judge"} =>
       /\ r.outcome = "none"
       /\ r.code # NoCode /\ (r.code = InternalExit => r.receipt = "EXECUTED") => r.child = r.code
  /\ r.outcome = "Ran" => r.child = r.code /\ r.code # NoCode

(* The inductive invariant of the clw driver. *)
DriveInv == drive = [d \in Drives |-> drive[d]] /\ \A d \in Drives : DriveFits(drive[d])

(* Before any drive it holds. *)
LEMMA DriveStarts == DriveInit => DriveInv
BY DEF DriveInit, DriveInv, DriveFits, DriveFields, NoDrive

(* One drive takes a step. *)
LEMMA DriveMoves == ASSUME DriveInv, NEW d \in Drives, NEW r, DriveGoes(d, r), DriveFits(r) PROVE DriveInv'
BY DEF DriveInv, DriveGoes

(* The updates of a drive. *)
DriveIs(s, r, at, code, receipt, child, outcome) ==
  /\ s = [i \in DriveFields |-> s[i]] /\ s.at = at /\ s.code = code /\ s.receipt = receipt /\ s.child = child
  /\ s.outcome = outcome

(* What the updates of a drive leave of it. *)
LEMMA DriveUpdates ==
  ASSUME NEW r, DriveFits(r), NEW at, NEW x, NEW y, NEW z, NEW s
  PROVE  /\ s = [r EXCEPT !.at = at] => DriveIs(s, r, at, r.code, r.receipt, r.child, r.outcome)
         /\ s = [r EXCEPT !.at = at, !.outcome = x] => DriveIs(s, r, at, r.code, r.receipt, r.child, x)
         /\ s = [r EXCEPT !.at = at, !.receipt = x] => DriveIs(s, r, at, r.code, x, r.child, r.outcome)
         /\ s = [r EXCEPT !.at = at, !.code = x, !.receipt = y] => DriveIs(s, r, at, x, y, r.child, r.outcome)
         /\ s = [r EXCEPT !.at = at, !.code = x, !.child = y, !.receipt = z] => DriveIs(s, r, at, x, z, y, r.outcome)
<1> PICK q : q = r
  OBVIOUS
<1>1. q = [i \in DriveFields |-> q[i]]
  BY DEF DriveFits
<1> QED  BY <1>1 DEF DriveFields, DriveIs

(* Every step of clw and of the command under it keeps the invariant. *)
LEMMA DriveKeeps == DriveInv /\ [DriveNext]_drive => DriveInv'
<1> SUFFICES ASSUME DriveInv, [DriveNext]_drive PROVE DriveInv'
  OBVIOUS
<1>0. \A d \in Drives : DriveFits(drive[d])
  BY DEF DriveInv
<1>f. ASSUME NEW d \in Drives, NEW x, x # "Ran", DriveGoes(d, [drive[d] EXCEPT !.at = "done", !.outcome = x])
      PROVE DriveInv'
  <2>1. PICK s : s = [drive[d] EXCEPT !.at = "done", !.outcome = x]
    OBVIOUS
  <2>2. DriveIs(s, drive[d], "done", drive[d].code, drive[d].receipt, drive[d].child, x)
    BY <1>0, <2>1, DriveUpdates
  <2>3. DriveFits(s)
    BY <1>f, <2>2 DEF DriveIs, DriveFits
  <2> QED  BY <1>f, <2>1, <2>3, DriveMoves
<1>1. ASSUME NEW d \in Drives, Prepare(d) PROVE DriveInv'
  <2>1. CASE ClwFailed(d)
    BY <1>f, <2>1 DEF ClwFailed
  <2>2. CASE ~ClwFailed(d)
    <3>1. PICK at \in {"hydrate", "mktemp", "run"} : DriveGoes(d, [drive[d] EXCEPT !.at = at])
      BY <1>1, <2>2 DEF Prepare
    <3>2. drive[d].at \in {"snapshot", "hydrate", "mktemp"}
      BY <1>1 DEF Prepare
    <3>3. PICK s : s = [drive[d] EXCEPT !.at = at]
      OBVIOUS
    <3>4. DriveIs(s, drive[d], at, drive[d].code, drive[d].receipt, drive[d].child, drive[d].outcome)
      BY <1>0, <3>3, DriveUpdates
    <3>5. DriveFits(s)
      BY <1>0, <3>2, <3>4 DEF DriveIs, DriveFits
    <3> QED  BY <3>1, <3>3, <3>5, DriveMoves
  <2> QED  BY <2>1, <2>2
<1>2. ASSUME NEW d \in Drives, ClwRuns(d) PROVE DriveInv'
  <2>0. drive[d].code = NoCode /\ drive[d].child = NoCode /\ drive[d].outcome = "none"
    BY <1>0, <1>2 DEF ClwRuns, DriveFits
  <2>1. CASE \E c \in ChildCodes :
               DriveGoes(d, [drive[d] EXCEPT !.at = "cat", !.code = c, !.child = c, !.receipt = "EXECUTED"])
    <3>1. PICK c \in ChildCodes :
            DriveGoes(d, [drive[d] EXCEPT !.at = "cat", !.code = c, !.child = c, !.receipt = "EXECUTED"])
      BY <2>1
    <3>2. PICK s : s = [drive[d] EXCEPT !.at = "cat", !.code = c, !.child = c, !.receipt = "EXECUTED"]
      OBVIOUS
    <3>3. DriveIs(s, drive[d], "cat", c, "EXECUTED", c, drive[d].outcome)
      BY <1>0, <3>2, DriveUpdates
    <3>4. DriveFits(s)
      BY <2>0, <3>3 DEF DriveIs, DriveFits
    <3> QED  BY <3>1, <3>2, <3>4, DriveMoves
  <2>2. CASE DriveGoes(d, [drive[d] EXCEPT !.at = "cat", !.code = InternalExit, !.receipt = "NOT_STARTED"])
    <3>1. PICK s : s = [drive[d] EXCEPT !.at = "cat", !.code = InternalExit, !.receipt = "NOT_STARTED"]
      OBVIOUS
    <3>2. DriveIs(s, drive[d], "cat", InternalExit, "NOT_STARTED", drive[d].child, drive[d].outcome)
      BY <1>0, <3>1, DriveUpdates
    <3>3. DriveFits(s)
      BY <2>0, <3>2 DEF DriveIs, DriveFits
    <3> QED  BY <2>2, <3>1, <3>3, DriveMoves
  <2>3. CASE \E r \in {"none", "NOT_STARTED", "EXECUTED"} : DriveGoes(d, [drive[d] EXCEPT !.at = "cat", !.receipt = r])
    <3>1. PICK r : DriveGoes(d, [drive[d] EXCEPT !.at = "cat", !.receipt = r])
      BY <2>3
    <3>2. PICK s : s = [drive[d] EXCEPT !.at = "cat", !.receipt = r]
      OBVIOUS
    <3>3. DriveIs(s, drive[d], "cat", drive[d].code, r, drive[d].child, drive[d].outcome)
      BY <1>0, <3>2, DriveUpdates
    <3>4. DriveFits(s)
      BY <2>0, <3>3 DEF DriveIs, DriveFits
    <3> QED  BY <3>1, <3>2, <3>4, DriveMoves
  <2>4. CASE DriveGoes(d, [drive[d] EXCEPT !.at = "done", !.outcome = "Error"])
    BY <1>f, <2>4
  <2> QED  BY <1>2, <2>1, <2>2, <2>3, <2>4 DEF ClwRuns
<1>3. ASSUME NEW d \in Drives, ReadReceipt(d) PROVE DriveInv'
  <2>1. PICK r : /\ r \in {"none", drive[d].receipt}
                 /\ DriveGoes(d, [drive[d] EXCEPT !.at = "judge", !.receipt = r]) /\ drive[d].at = "cat"
    BY <1>3 DEF ReadReceipt
  <2>2. PICK s : s = [drive[d] EXCEPT !.at = "judge", !.receipt = r]
    OBVIOUS
  <2>3. DriveIs(s, drive[d], "judge", drive[d].code, r, drive[d].child, drive[d].outcome)
    BY <1>0, <2>2, DriveUpdates
  <2>4. DriveFits(s)
    BY <1>0, <2>1, <2>3 DEF DriveIs, DriveFits
  <2> QED  BY <2>1, <2>2, <2>4, DriveMoves
<1>4. ASSUME NEW d \in Drives, Judge(d) PROVE DriveInv'
  <2>1. PICK o : o = Outcome(drive[d])
    OBVIOUS
  <2>2. PICK s : s = [drive[d] EXCEPT !.at = "done", !.outcome = o]
    OBVIOUS
  <2>3. DriveIs(s, drive[d], "done", drive[d].code, drive[d].receipt, drive[d].child, o)
    BY <1>0, <2>2, DriveUpdates
  <2>4. drive[d].at = "judge" /\ DriveGoes(d, s)
    BY <1>4, <2>1, <2>2 DEF Judge
  <2>5. o = "Ran" => drive[d].child = drive[d].code /\ drive[d].code # NoCode
    BY <1>0, <2>1, <2>4 DEF Outcome, DriveFits
  <2>6. DriveFits(s)
    BY <2>3, <2>5 DEF DriveIs, DriveFits
  <2> QED  BY <2>4, <2>6, DriveMoves
<1>5. CASE UNCHANGED drive
  BY <1>5 DEF DriveInv
<1> QED  BY <1>1, <1>2, <1>3, <1>4, <1>5 DEF DriveNext

(* A verdict of the clw driver is the command's own: a code that clw itself   *)
(* may exit with is never taken for the command's without a receipt.          *)
THEOREM VerdictsAreTheChilds == DriveSpec => []VerdictIsTheChilds
<1>1. DriveInv => VerdictIsTheChilds
  BY DEF DriveInv, DriveFits, VerdictIsTheChilds
<1> QED  BY <1>1, DriveStarts, DriveKeeps, PTL DEF DriveSpec

--------------------------------------------------------------------------------
(* The exec server of a box *)

(* The fields of a call and of its process. *)
CallFields == {"at", "buf", "code", "out"}
ProcFields == {"child", "kid", "holds", "written", "pipe"}
(* As much of n bytes as the server keeps. *)
Capped(n) == IF n < MaxCaptureBytes THEN n ELSE MaxCaptureBytes

(* The buffer has what was read, up to the cap; an answer has all that was    *)
(* written; a killed group stays dead.                                        *)
CallFits(r, p) ==
  /\ r = [i \in CallFields |-> r[i]] /\ p = [i \in ProcFields |-> p[i]]
  /\ p.written \in Nat /\ p.pipe \in Nat /\ p.pipe <= p.written
  /\ r.at \in {"idle", "running", "killed", "answered", "timedout", "refused", "gone"}
  /\ r.at = "idle" => p.written = 0 /\ r.buf = 0
  /\ r.at = "running" => r.buf = Capped(p.written - p.pipe)
  /\ r.at \in {"idle", "killed", "answered", "timedout", "refused", "gone"} => p.child # "alive"
  /\ r.at \in {"killed", "timedout"} => p.kid # "group"
  /\ r.at = "timedout" => r.code = "null"
  /\ r.code \in {"0", "1"} => r.at = "answered" /\ p.child = r.code /\ r.out = Capped(p.written)

(* The inductive invariant of the exec server. *)
CallInv ==
  /\ boxCall = [c \in BoxCalls |-> boxCall[c]] /\ boxProc = [c \in BoxCalls |-> boxProc[c]]
  /\ \A c \in BoxCalls : CallFits(boxCall[c], boxProc[c])

(* Before any call it holds. *)
LEMMA CallStarts == BoxExecInit => CallInv
BY DEF BoxExecInit, CallInv, CallFits, CallFields, ProcFields, NoProc

(* One call and its process take a step. *)
LEMMA CallMoves ==
  ASSUME CallInv, NEW c \in BoxCalls, NEW r, NEW p, boxCall' = [boxCall EXCEPT ![c] = r],
         boxProc' = [boxProc EXCEPT ![c] = p], CallFits(r, p)
  PROVE  CallInv'
BY DEF CallInv

(* A step of the process alone, or of the call alone, as an update. *)
LEMMA CallStays ==
  ASSUME CallInv, NEW c \in BoxCalls, UNCHANGED boxCall PROVE boxCall' = [boxCall EXCEPT ![c] = boxCall[c]]
BY DEF CallInv
(* The same for the process. *)
LEMMA ProcStays ==
  ASSUME CallInv, NEW c \in BoxCalls, UNCHANGED boxProc PROVE boxProc' = [boxProc EXCEPT ![c] = boxProc[c]]
BY DEF CallInv

(* Every step of the server, of the command and of its children keeps the     *)
(* invariant.                                                                 *)
LEMMA CallKeeps == CallInv /\ [BoxExecNext]_boxExecVars => CallInv'
<1> SUFFICES ASSUME CallInv, [BoxExecNext]_boxExecVars PROVE CallInv'
  OBVIOUS
<1>0. \A c \in BoxCalls : CallFits(boxCall[c], boxProc[c])
  BY DEF CallInv
<1>1. ASSUME NEW c \in BoxCalls, NEW bearer, NEW header, NEW clw, NEW spawns, NEW expected,
             BoxRequest(c, bearer, header, clw, expected, spawns)
      PROVE  CallInv'
  <2>0. PICK q, t : q = boxCall[c] /\ t = boxProc[c] /\ CallFits(q, t) /\ q.at = "idle"
    BY <1>0, <1>1 DEF BoxRequest
  <2>1. CASE AnswerWith(c, "running") /\ boxProc' = [boxProc EXCEPT ![c].child = "alive"]
    <3>1. PICK r, p : r = [q EXCEPT !.at = "running"] /\ p = [t EXCEPT !.child = "alive"]
      OBVIOUS
    <3>2. boxCall' = [boxCall EXCEPT ![c] = r] /\ boxProc' = [boxProc EXCEPT ![c] = p]
      BY <2>0, <2>1, <3>1 DEF AnswerWith
    <3>3. CallFits(r, p)
      <4>1. /\ p = [i \in ProcFields |-> p[i]] /\ p.written = t.written /\ p.pipe = t.pipe /\ p.child = "alive"
            /\ p.kid = t.kid
        BY <2>0, <3>1 DEF CallFits, ProcFields
      <4>2. r = [i \in CallFields |-> r[i]] /\ r.at = "running" /\ r.code = q.code /\ r.buf = q.buf
        BY <2>0, <3>1 DEF CallFits, CallFields
      <4>3. t.written = 0 /\ t.pipe = 0 /\ q.buf = 0 /\ q.code \notin {"0", "1"}
        BY <2>0 DEF CallFits
      <4>4. Capped(0 - 0) = 0
        BY BoxExecAssumption DEF Capped
      <4> QED  BY <4>1, <4>2, <4>3, <4>4 DEF CallFits
    <3> QED  BY <3>2, <3>3, CallMoves
  <2>2. CASE AnswerWith(c, "refused") /\ UNCHANGED boxProc
    <3>1. PICK r : r = [q EXCEPT !.at = "refused"]
      OBVIOUS
    <3>2. boxCall' = [boxCall EXCEPT ![c] = r]
      BY <2>0, <2>2, <3>1 DEF AnswerWith
    <3>3. CallFits(r, t)
      BY <2>0, <3>1 DEF CallFits, CallFields
    <3> QED  BY <2>0, <2>2, <3>2, <3>3, CallMoves, ProcStays
  <2> QED  BY <1>1, <2>1, <2>2 DEF BoxRequest
<1>2. ASSUME NEW c \in BoxCalls, CommandWrites(c) PROVE CallInv'
  <2>0. PICK q, t : q = boxCall[c] /\ t = boxProc[c] /\ CallFits(q, t) /\ t.child = "alive"
    BY <1>0, <1>2 DEF CommandWrites
  <2>1. PICK p : p = [t EXCEPT !.written = @ + 1, !.pipe = @ + 1]
    OBVIOUS
  <2>2. boxProc' = [boxProc EXCEPT ![c] = p] /\ UNCHANGED boxCall
    BY <1>2, <2>0, <2>1 DEF CommandWrites
  <2>3. /\ p = [i \in ProcFields |-> p[i]] /\ p.written = t.written + 1 /\ p.pipe = t.pipe + 1
        /\ p.child = t.child /\ p.kid = t.kid
    BY <2>0, <2>1 DEF CallFits, ProcFields
  <2>4. p.written \in Nat /\ p.pipe \in Nat /\ p.pipe <= p.written /\ p.written - p.pipe = t.written - t.pipe
    BY <2>0, <2>3 DEF CallFits
  <2>5. q.at = "running" /\ q.code \notin {"0", "1"}
    BY <2>0 DEF CallFits
  <2>6. CallFits(q, p)
    BY <2>0, <2>3, <2>4, <2>5 DEF CallFits
  <2> QED  BY <2>0, <2>2, <2>6, CallMoves, CallStays
<1>3. ASSUME NEW c \in BoxCalls, NEW kid, NEW holds, CommandForks(c, kid, holds) PROVE CallInv'
  <2>0. PICK q, t : q = boxCall[c] /\ t = boxProc[c] /\ CallFits(q, t) /\ t.child = "alive"
    BY <1>0, <1>3 DEF CommandForks
  <2>1. PICK p : p = [t EXCEPT !.kid = kid, !.holds = holds]
    OBVIOUS
  <2>2. boxProc' = [boxProc EXCEPT ![c] = p] /\ UNCHANGED boxCall
    BY <1>3, <2>0, <2>1 DEF CommandForks
  <2>3. p = [i \in ProcFields |-> p[i]] /\ p.written = t.written /\ p.pipe = t.pipe /\ p.child = t.child
    BY <2>0, <2>1 DEF CallFits, ProcFields
  <2>4. CallFits(q, p)
    BY <2>0, <2>3 DEF CallFits
  <2> QED  BY <2>0, <2>2, <2>4, CallMoves, CallStays
<1>4. ASSUME NEW c \in BoxCalls, NEW how, how # "alive", CommandExits(c, how) PROVE CallInv'
  <2>0. PICK q, t : q = boxCall[c] /\ t = boxProc[c] /\ CallFits(q, t) /\ t.child = "alive"
    BY <1>0, <1>4 DEF CommandExits
  <2>1. PICK p : p = [t EXCEPT !.child = how]
    OBVIOUS
  <2>2. boxProc' = [boxProc EXCEPT ![c] = p] /\ UNCHANGED boxCall
    BY <1>4, <2>0, <2>1 DEF CommandExits
  <2>3. /\ p = [i \in ProcFields |-> p[i]] /\ p.written = t.written /\ p.pipe = t.pipe /\ p.child = how
        /\ p.kid = t.kid
    BY <2>0, <2>1 DEF CallFits, ProcFields
  <2>4. q.code \notin {"0", "1"}
    BY <2>0 DEF CallFits
  <2>5. CallFits(q, p)
    BY <1>4, <2>0, <2>3, <2>4 DEF CallFits
  <2> QED  BY <2>0, <2>2, <2>5, CallMoves, CallStays
<1>5. ASSUME NEW c \in BoxCalls, KidExits(c) PROVE CallInv'
  <2>0. PICK q, t : q = boxCall[c] /\ t = boxProc[c] /\ CallFits(q, t)
    BY <1>0
  <2>1. PICK p : p = [t EXCEPT !.kid = "dead"]
    OBVIOUS
  <2>2. boxProc' = [boxProc EXCEPT ![c] = p] /\ UNCHANGED boxCall
    BY <1>5, <2>0, <2>1 DEF KidExits
  <2>3. /\ p = [i \in ProcFields |-> p[i]] /\ p.written = t.written /\ p.pipe = t.pipe /\ p.child = t.child
        /\ p.kid = "dead"
    BY <2>0, <2>1 DEF CallFits, ProcFields
  <2>4. CallFits(q, p)
    BY <2>0, <2>3 DEF CallFits
  <2> QED  BY <2>0, <2>2, <2>4, CallMoves, CallStays
<1>6. ASSUME NEW c \in BoxCalls, ReadCapped(c) PROVE CallInv'
  <2>0. PICK q, t : q = boxCall[c] /\ t = boxProc[c] /\ CallFits(q, t) /\ q.at \in {"running", "killed"} /\ t.pipe > 0
    BY <1>0, <1>6 DEF ReadCapped
  <2>1. PICK r, p : r = [q EXCEPT !.buf = IF @ < MaxCaptureBytes THEN @ + 1 ELSE @] /\ p = [t EXCEPT !.pipe = @ - 1]
    OBVIOUS
  <2>2. boxCall' = [boxCall EXCEPT ![c] = r] /\ boxProc' = [boxProc EXCEPT ![c] = p]
    BY <1>6, <2>0, <2>1 DEF ReadCapped
  <2>3. /\ p = [i \in ProcFields |-> p[i]] /\ p.written = t.written /\ p.pipe = t.pipe - 1 /\ p.child = t.child
        /\ p.kid = t.kid
    BY <2>0, <2>1 DEF CallFits, ProcFields
  <2>4. /\ r = [i \in CallFields |-> r[i]] /\ r.buf = (IF q.buf < MaxCaptureBytes THEN q.buf + 1 ELSE q.buf)
        /\ r.at = q.at
        /\ r.code = q.code /\ r.out = q.out
    BY <2>0, <2>1 DEF CallFits, CallFields
  <2>5. p.pipe \in Nat /\ p.pipe <= p.written /\ p.written \in Nat
    BY <2>0, <2>3 DEF CallFits
  <2>6. q.at = "running" => r.buf = Capped(p.written - p.pipe)
    BY <2>0, <2>3, <2>4, <2>5, BoxExecAssumption DEF CallFits, Capped
  <2>7. CallFits(r, p)
    BY <2>0, <2>3, <2>4, <2>5, <2>6 DEF CallFits
  <2> QED  BY <2>2, <2>7, CallMoves
<1>7. ASSUME NEW c \in BoxCalls, AnswerCompleted(c) PROVE CallInv'
  <2>0. PICK q, t : /\ q = boxCall[c] /\ t = boxProc[c] /\ CallFits(q, t) /\ q.at = "running"
                    /\ t.child # "alive" /\ t.pipe = 0
    BY <1>0, <1>7 DEF AnswerCompleted, PipesJoined, AtEof
  <2>1. PICK code : code = ExitCode(c)
    OBVIOUS
  <2>2. PICK r : r = [q EXCEPT !.at = "answered", !.code = code, !.out = q.buf]
    OBVIOUS
  <2>3. boxCall' = [boxCall EXCEPT ![c] = r] /\ UNCHANGED boxProc
    BY <1>7, <2>0, <2>1, <2>2 DEF AnswerCompleted
  <2>4. r = [i \in CallFields |-> r[i]] /\ r.at = "answered" /\ r.code = code /\ r.out = q.buf
    BY <2>0, <2>2 DEF CallFits, CallFields
  <2>5. code \in {"0", "1"} => t.child = code
    BY <2>0, <2>1 DEF ExitCode
  <2>6. q.buf = Capped(t.written)
    BY <2>0 DEF CallFits, Capped
  <2>7. CallFits(r, t)
    BY <2>0, <2>4, <2>5, <2>6 DEF CallFits
  <2> QED  BY <2>0, <2>3, <2>7, CallMoves, ProcStays
<1>8. ASSUME NEW c \in BoxCalls, DeadlineHits(c) PROVE CallInv'
  <2>0. PICK q, t : q = boxCall[c] /\ t = boxProc[c] /\ CallFits(q, t) /\ q.at = "running"
    BY <1>0, <1>8 DEF DeadlineHits
  <2>1. PICK r, p : r = [q EXCEPT !.at = "killed", !.buf = 0] /\ p = KillGroup(t)
    OBVIOUS
  <2>2. boxCall' = [boxCall EXCEPT ![c] = r] /\ boxProc' = [boxProc EXCEPT ![c] = p]
    BY <1>8, <2>0, <2>1 DEF DeadlineHits
  <2>3. /\ p = [i \in ProcFields |-> p[i]] /\ p.written = t.written /\ p.pipe = t.pipe /\ p.child # "alive"
        /\ p.kid # "group"
    BY <2>0, <2>1 DEF CallFits, ProcFields, KillGroup
  <2>4. r = [i \in CallFields |-> r[i]] /\ r.at = "killed" /\ r.code = q.code /\ r.out = q.out
    BY <2>0, <2>1 DEF CallFits, CallFields
  <2>5. CallFits(r, p)
    BY <2>0, <2>3, <2>4 DEF CallFits
  <2> QED  BY <2>2, <2>5, CallMoves
<1>9. ASSUME NEW c \in BoxCalls, AnswerTimeout(c) PROVE CallInv'
  <2>0. PICK q, t : q = boxCall[c] /\ t = boxProc[c] /\ CallFits(q, t) /\ q.at = "killed"
    BY <1>0, <1>9 DEF AnswerTimeout
  <2>1. PICK r : r = [q EXCEPT !.at = "timedout", !.code = "null", !.out = q.buf]
    OBVIOUS
  <2>2. boxCall' = [boxCall EXCEPT ![c] = r] /\ UNCHANGED boxProc
    BY <1>9, <2>0, <2>1 DEF AnswerTimeout
  <2>3. r = [i \in CallFields |-> r[i]] /\ r.at = "timedout" /\ r.code = "null"
    BY <2>0, <2>1 DEF CallFits, CallFields
  <2>4. CallFits(r, t)
    BY <2>0, <2>3 DEF CallFits
  <2> QED  BY <2>0, <2>2, <2>4, CallMoves, ProcStays
<1>10. ASSUME NEW c \in BoxCalls, CallerHangsUp(c) PROVE CallInv'
  <2>0. PICK q, t : q = boxCall[c] /\ t = boxProc[c] /\ CallFits(q, t) /\ q.at \in {"running", "killed"}
    BY <1>0, <1>10 DEF CallerHangsUp
  <2>1. PICK r, p : r = [q EXCEPT !.at = "gone"] /\ p = [t EXCEPT !.child = IF @ = "alive" THEN "killed" ELSE @]
    OBVIOUS
  <2>2. boxCall' = [boxCall EXCEPT ![c] = r] /\ boxProc' = [boxProc EXCEPT ![c] = p]
    BY <1>10, <2>0, <2>1 DEF CallerHangsUp, AnswerWith
  <2>3. p = [i \in ProcFields |-> p[i]] /\ p.written = t.written /\ p.pipe = t.pipe /\ p.child # "alive"
    BY <2>0, <2>1 DEF CallFits, ProcFields
  <2>4. r = [i \in CallFields |-> r[i]] /\ r.at = "gone" /\ r.code = q.code
    BY <2>0, <2>1 DEF CallFits, CallFields
  <2>5. CallFits(r, p)
    BY <2>0, <2>3, <2>4 DEF CallFits
  <2> QED  BY <2>2, <2>5, CallMoves
<1>11. CASE UNCHANGED boxExecVars
  BY <1>11 DEF boxExecVars, CallInv
<1> QED  BY <1>1, <1>2, <1>3, <1>4, <1>5, <1>6, <1>7, <1>8, <1>9, <1>10, <1>11 DEF BoxExecNext

(* An exit code the exec server answers is that of a command that ended by    *)
(* itself, with all it wrote up to the cap, and after a timeout nothing of    *)
(* its process group is alive and the answer has no code.                     *)
THEOREM ExecAnswersAreTrue == BoxExecSpec => []ExecAnswerIsTrue
<1>1. CallInv => ExecAnswerIsTrue
  BY DEF CallInv, CallFits, Capped, ExecAnswerIsTrue
<1> QED  BY <1>1, CallStarts, CallKeeps, PTL DEF BoxExecSpec

(* Results, wherever they come from: a provider, the exec server and the clw  *)
(* driver, each for any number of its own calls, report the code and the      *)
(* output of the command that was asked for.                                  *)
THEOREM ResultsAlwaysTrue == ProviderSpec /\ BoxExecSpec /\ DriveSpec => []ResultsAreTrue
<1>1. SuccessIsEvidence /\ ExecAnswerIsTrue /\ VerdictIsTheChilds => ResultsAreTrue
  BY DEF ResultsAreTrue
<1> QED  BY <1>1, SuccessIsAlwaysEvidence, ExecAnswersAreTrue, VerdictsAreTheChilds, PTL

--------------------------------------------------------------------------------
(* Runner batches *)

(* The fields of a worker thread. *)
WorkerFields == {"at", "attempt", "ok"}
(* Where a thread holds the lock of its digest. *)
Verifying == {"pull", "inspect"}

(* A thread that verifies a digest holds its lock, and one that is past the   *)
(* verification runs genuine content.                                         *)
WorkerFits(j, r) ==
  /\ r = [i \in WorkerFields |-> r[i]]
  /\ r.at \in Verifying => digestLock[DigestOf[j]] = j
  /\ r.at \in {"run", "exec"} \/ r.ok => DigestOf[j] \notin Tampered

(* The invariant of the verification: one thread at a time verifies a digest, *)
(* and a digest on record is genuine.                                         *)
BatchVerifies ==
  /\ worker = [j \in BatchJobs |-> worker[j]] /\ digestLock = [d \in Digests |-> digestLock[d]]
  /\ images = [d \in Digests |-> images[d]]
  /\ \A j \in BatchJobs : WorkerFits(j, worker[j])
  /\ \A d \in Digests : images[d] = "genuine" => d \notin Tampered
  /\ \A j \in boxUp : j \in BatchJobs /\ DigestOf[j] \notin Tampered

(* Before the batch it holds. *)
LEMMA VerifyStarts == BatchInit => BatchVerifies
BY DEF BatchInit, BatchVerifies, WorkerFits, WorkerFields, Verifying

(* It implies that a job runs on verified content only. *)
LEMMA VerifySafe == BatchVerifies => VerifiedBeforeRun
BY BatchAssumption DEF BatchVerifies, WorkerFits, VerifiedBeforeRun, Verifying

(* Containers only go away. *)
LEMMA BoxesVanish ==
  ASSUME BatchVerifies, UNCHANGED <<worker, digestLock, images>>, boxUp' \subseteq boxUp PROVE BatchVerifies'
BY DEF BatchVerifies, WorkerFits

(* One thread moves. *)
LEMMA WorkerMoves ==
  ASSUME BatchVerifies, NEW j \in BatchJobs, NEW r, worker' = [worker EXCEPT ![j] = r], WorkerFits(j, r)',
         digestLock' = [d \in Digests |-> digestLock'[d]], images' = [d \in Digests |-> images'[d]],
         \A i \in BatchJobs \ {j} : worker[i].at \in Verifying => digestLock'[DigestOf[i]] = i,
         \A d \in Digests : images'[d] = "genuine" => d \notin Tampered,
         \A i \in boxUp' : i \in BatchJobs /\ DigestOf[i] \notin Tampered
  PROVE  BatchVerifies'
<1>1. /\ worker' = [i \in BatchJobs |-> worker'[i]] /\ worker'[j] = r
      /\ \A i \in BatchJobs \ {j} : worker'[i] = worker[i]
  BY DEF BatchVerifies
<1>2. ASSUME NEW i \in BatchJobs PROVE WorkerFits(i, worker[i])'
  <2>1. CASE i = j
    BY <1>1, <2>1 DEF WorkerFits
  <2>2. CASE i # j
    <3>1. PICK q : q = worker[i] /\ q = worker'[i]
      BY <1>1, <2>2
    <3>2. WorkerFits(i, q)
      BY <3>1 DEF BatchVerifies
    <3> QED  BY <2>2, <3>1, <3>2 DEF WorkerFits
  <2> QED  BY <2>1, <2>2
<1> QED  BY <1>1, <1>2 DEF BatchVerifies

(* The updates of a thread's record. *)
WorkerIs(r, at, ok) == r = [i \in WorkerFields |-> r[i]] /\ r.at = at /\ r.ok = ok

(* What the updates of a thread leave of it. *)
LEMMA WorkerUpdates ==
  ASSUME BatchVerifies, NEW j \in BatchJobs, NEW at, NEW x, NEW r
  PROVE  /\ r = [worker[j] EXCEPT !.at = at] => WorkerIs(r, at, worker[j].ok)
         /\ r = [worker[j] EXCEPT !.at = at, !.ok = x] => WorkerIs(r, at, x)
         /\ r = [worker[j] EXCEPT !.at = at, !.attempt = x] => WorkerIs(r, at, worker[j].ok)
         /\ r = [worker[j] EXCEPT !.attempt = x] => WorkerIs(r, worker[j].at, worker[j].ok)
<1> PICK q : q = worker[j]
  OBVIOUS
<1>1. q = [i \in WorkerFields |-> q[i]]
  BY DEF BatchVerifies, WorkerFits
<1> QED  BY <1>1 DEF WorkerFields, WorkerIs

(* The lock of job j is given back. *)
LEMMA Unlocks ==
  ASSUME BatchVerifies, NEW j \in BatchJobs, worker[j].at \in Verifying, Unlock(j)
  PROVE  /\ digestLock' = [d \in Digests |-> digestLock'[d]]
         /\ \A i \in BatchJobs \ {j} : worker[i].at \in Verifying => digestLock'[DigestOf[i]] = i
<1>1. /\ DigestOf[j] \in Digests /\ digestLock = [d \in Digests |-> digestLock[d]]
      /\ \A i \in BatchJobs : WorkerFits(i, worker[i])
  BY BatchAssumption DEF BatchVerifies
<1>2. digestLock[DigestOf[j]] = j
  BY <1>1 DEF WorkerFits
<1>3. ASSUME NEW i \in BatchJobs \ {j}, worker[i].at \in Verifying
      PROVE DigestOf[i] # DigestOf[j] /\ digestLock[DigestOf[i]] = i
  BY <1>1, <1>2, <1>3 DEF WorkerFits
<1> QED  BY <1>1, <1>3 DEF Unlock

(* A thread that ends gives its lock back. *)
LEMMA WorkerEnded ==
  ASSUME BatchVerifies, NEW j \in BatchJobs, NEW ok, WorkerEnds(j, ok), ok => DigestOf[j] \notin Tampered,
         UNCHANGED images,
         digestLock' = [d \in Digests |-> digestLock'[d]],
         \A i \in BatchJobs \ {j} : worker[i].at \in Verifying => digestLock'[DigestOf[i]] = i,
         \A i \in boxUp' : i \in BatchJobs /\ DigestOf[i] \notin Tampered
  PROVE  BatchVerifies'
<1>1. PICK r : r = [worker[j] EXCEPT !.at = "finished", !.ok = ok]
  OBVIOUS
<1>2. worker' = [worker EXCEPT ![j] = r]
  BY <1>1 DEF WorkerEnds
<1>3. WorkerIs(r, "finished", ok)
  BY <1>1, WorkerUpdates
<1>4. WorkerFits(j, r)'
  BY <1>3 DEF WorkerIs, WorkerFits, Verifying
<1> QED  BY <1>2, <1>4, WorkerMoves DEF BatchVerifies

(* Every step of the batch keeps the verification's invariant. *)
LEMMA VerifyKeeps == BatchVerifies /\ [BatchNext]_batchVars => BatchVerifies'
<1> SUFFICES ASSUME BatchVerifies, [BatchNext]_batchVars PROVE BatchVerifies'
  OBVIOUS
<1>0. /\ worker = [j \in BatchJobs |-> worker[j]] /\ digestLock = [d \in Digests |-> digestLock[d]]
      /\ images = [d \in Digests |-> images[d]] /\ \A j \in BatchJobs : WorkerFits(j, worker[j])
      /\ \A d \in Digests : images[d] = "genuine" => d \notin Tampered
      /\ \A j \in boxUp : j \in BatchJobs /\ DigestOf[j] \notin Tampered
      /\ \A j \in BatchJobs : DigestOf[j] \in Digests
  BY BatchAssumption DEF BatchVerifies
<1>l. \A j \in BatchJobs : worker[j].at \in Verifying => digestLock[DigestOf[j]] = j
  BY <1>0 DEF WorkerFits
<1>1. CASE FanOut
  <2>1. UNCHANGED <<boxUp, digestLock, images>>
    BY <1>1 DEF FanOut
  <2>2. CASE UNCHANGED worker
    BY <2>1, <2>2, BoxesVanish
  <2>3. CASE worker' = [j \in BatchJobs |-> [worker[j] EXCEPT !.at = "lock"]]
    <3>1. ASSUME NEW j \in BatchJobs PROVE WorkerFits(j, worker[j])'
      <4>1. PICK r : r = [worker[j] EXCEPT !.at = "lock"]
        OBVIOUS
      <4>2. worker'[j] = r
        BY <2>3, <4>1
      <4>3. WorkerIs(r, "lock", worker[j].ok)
        BY <4>1, WorkerUpdates
      <4> QED  BY <1>0, <4>2, <4>3 DEF WorkerIs, WorkerFits, Verifying
    <3> QED  BY <1>0, <2>1, <2>3, <3>1 DEF BatchVerifies
  <2> QED  BY <1>1, <2>2, <2>3 DEF FanOut
<1>2. ASSUME NEW j \in BatchJobs, TakeLock(j) PROVE BatchVerifies'
  <2>1. PICK r : r = [worker[j] EXCEPT !.at = "pull", !.attempt = 1]
    OBVIOUS
  <2>2. /\ worker' = [worker EXCEPT ![j] = r] /\ UNCHANGED <<boxUp, images>> /\ worker[j].at = "lock"
        /\ digestLock[DigestOf[j]] = 0 /\ digestLock' = [digestLock EXCEPT ![DigestOf[j]] = j]
    BY <1>2, <2>1 DEF TakeLock, LockFree, Nobody
  <2>3. WorkerIs(r, "pull", worker[j].ok)
    BY <2>1, WorkerUpdates
  <2>4. /\ digestLock' = [d \in Digests |-> digestLock'[d]] /\ digestLock'[DigestOf[j]] = j
        /\ \A d \in Digests : d # DigestOf[j] => digestLock'[d] = digestLock[d]
    BY <1>0, <2>2
  <2>5. 0 \notin BatchJobs
    BY BatchAssumption DEF BatchJobs
  <2>6. \A i \in BatchJobs \ {j} : worker[i].at \in Verifying => digestLock'[DigestOf[i]] = i
    BY <1>0, <1>l, <2>2, <2>4, <2>5
  <2>7. WorkerFits(j, r)'
    BY <1>0, <2>3, <2>4 DEF WorkerIs, WorkerFits
  <2> QED  BY <1>0, <2>2, <2>4, <2>6, <2>7, WorkerMoves
<1>3. ASSUME NEW j \in BatchJobs, PullOk(j) PROVE BatchVerifies'
  <2>1. PICK r : r = [worker[j] EXCEPT !.at = "inspect"]
    OBVIOUS
  <2>2. worker' = [worker EXCEPT ![j] = r] /\ UNCHANGED <<boxUp, digestLock>> /\ worker[j].at = "pull"
    BY <1>3, <2>1 DEF PullOk, WorkerGoes
  <2>3. WorkerIs(r, "inspect", worker[j].ok)
    BY <2>1, WorkerUpdates
  <2>4. /\ images' = [d \in Digests |-> images'[d]]
        /\ \A d \in Digests : images'[d] = "genuine" => d \notin Tampered
    BY <1>0, <1>3 DEF PullOk
  <2>5. digestLock[DigestOf[j]] = j
    BY <1>l, <2>2 DEF Verifying
  <2>6. WorkerFits(j, r)'
    BY <1>0, <2>2, <2>3, <2>5 DEF WorkerIs, WorkerFits
  <2>7. digestLock' = [d \in Digests |-> digestLock'[d]]
    BY <1>0, <2>2
  <2> QED  BY <1>0, <1>l, <2>2, <2>4, <2>6, <2>7, WorkerMoves
<1>4. ASSUME NEW j \in BatchJobs, PullTransient(j) \/ PullRefused(j) PROVE BatchVerifies'
  <2>1. worker[j].at = "pull" /\ worker[j].at \in Verifying /\ UNCHANGED <<boxUp, images>>
    BY <1>4 DEF PullTransient, PullRefused, Verifying
  <2>2. CASE WorkerEnds(j, FALSE) /\ Unlock(j)
    BY <1>0, <2>1, <2>2, Unlocks, WorkerEnded
  <2>3. CASE worker' = [worker EXCEPT ![j].attempt = @ + 1] /\ UNCHANGED digestLock
    <3>1. PICK x : x = worker[j].attempt + 1
      OBVIOUS
    <3>2. PICK r : r = [worker[j] EXCEPT !.attempt = x]
      OBVIOUS
    <3>3. worker' = [worker EXCEPT ![j] = r]
      BY <2>3, <3>1, <3>2
    <3>4. WorkerIs(r, worker[j].at, worker[j].ok)
      BY <3>2, WorkerUpdates
    <3>5. WorkerFits(j, r)'
      BY <1>0, <2>1, <2>3, <3>4 DEF WorkerIs, WorkerFits
    <3>6. images' = [d \in Digests |-> images'[d]] /\ digestLock' = [d \in Digests |-> digestLock'[d]]
      BY <1>0, <2>1, <2>3
    <3> QED  BY <1>0, <1>l, <2>1, <2>3, <3>3, <3>5, <3>6, WorkerMoves
  <2> QED  BY <1>4, <2>2, <2>3 DEF PullTransient, PullRefused
<1>5. ASSUME NEW j \in BatchJobs, Inspect(j) PROVE BatchVerifies'
  <2>1. worker[j].at \in Verifying /\ Unlock(j) /\ UNCHANGED <<boxUp, images>>
    BY <1>5 DEF Inspect, Verifying
  <2>2. CASE WorkerEnds(j, FALSE)
    BY <1>0, <2>1, <2>2, Unlocks, WorkerEnded
  <2>3. CASE Resolves(j) /\ WorkerGoes(j, "run")
    <3>1. PICK r : r = [worker[j] EXCEPT !.at = "run"]
      OBVIOUS
    <3>2. worker' = [worker EXCEPT ![j] = r]
      BY <2>3, <3>1 DEF WorkerGoes
    <3>3. WorkerIs(r, "run", worker[j].ok)
      BY <3>1, WorkerUpdates
    <3>4. DigestOf[j] \notin Tampered
      BY <1>0, <2>3 DEF Resolves
    <3>5. WorkerFits(j, r)'
      BY <3>3, <3>4 DEF WorkerIs, WorkerFits, Verifying
    <3>6. images' = [d \in Digests |-> images'[d]]
      BY <1>0, <2>1
    <3> QED  BY <1>0, <2>1, <3>2, <3>5, <3>6, Unlocks, WorkerMoves
  <2> QED  BY <1>5, <2>2, <2>3 DEF Inspect
<1>6. ASSUME NEW j \in BatchJobs, SpawnContainer(j) PROVE BatchVerifies'
  <2>1. /\ worker[j].at = "run" /\ UNCHANGED <<images, digestLock>> /\ boxUp' \subseteq boxUp \cup {j}
        /\ (WorkerGoes(j, "exec") \/ WorkerEnds(j, FALSE))
    BY <1>6 DEF SpawnContainer
  <2>2. DigestOf[j] \notin Tampered
    BY <1>0, <2>1 DEF WorkerFits
  <2>3. digestLock' = [d \in Digests |-> digestLock'[d]] /\ images' = [d \in Digests |-> images'[d]]
    BY <1>0, <2>1
  <2>4. /\ \A i \in boxUp' : i \in BatchJobs /\ DigestOf[i] \notin Tampered
        /\ \A i \in BatchJobs \ {j} : worker[i].at \in Verifying => digestLock'[DigestOf[i]] = i
    BY <1>0, <1>l, <2>1, <2>2
  <2>5. CASE WorkerEnds(j, FALSE)
    BY <2>1, <2>3, <2>4, <2>5, WorkerEnded
  <2>6. CASE WorkerGoes(j, "exec")
    <3>1. PICK r : r = [worker[j] EXCEPT !.at = "exec"]
      OBVIOUS
    <3>2. worker' = [worker EXCEPT ![j] = r]
      BY <2>6, <3>1 DEF WorkerGoes
    <3>3. WorkerIs(r, "exec", worker[j].ok)
      BY <3>1, WorkerUpdates
    <3>4. WorkerFits(j, r)'
      BY <2>2, <3>3 DEF WorkerIs, WorkerFits, Verifying
    <3> QED  BY <1>0, <2>1, <2>3, <2>4, <3>2, <3>4, WorkerMoves
  <2> QED  BY <2>1, <2>5, <2>6
<1>7. ASSUME NEW j \in BatchJobs, ExecJob(j) PROVE BatchVerifies'
  <2>1. /\ worker[j].at = "exec" /\ UNCHANGED <<boxUp, images, digestLock>>
        /\ (WorkerEnds(j, TRUE) \/ WorkerEnds(j, FALSE))
    BY <1>7 DEF ExecJob
  <2>2. DigestOf[j] \notin Tampered /\ digestLock' = [d \in Digests |-> digestLock'[d]]
    BY <1>0, <2>1 DEF WorkerFits
  <2>3. \A i \in BatchJobs \ {j} : worker[i].at \in Verifying => digestLock'[DigestOf[i]] = i
    BY <1>l, <2>1
  <2> QED  BY <1>0, <2>1, <2>2, <2>3, WorkerEnded
<1>8. ASSUME NEW j \in BatchJobs, BoxCrash(j) \/ HardKill(j) \/ DetectAndRecover(j) PROVE BatchVerifies'
  BY <1>8, BoxesVanish DEF BoxCrash, HardKill, DetectAndRecover, Removed
<1>9. CASE Poll \/ Join \/ TeardownRemove \/ TeardownScan
  BY <1>9, BoxesVanish DEF Poll, Join, TeardownRemove, TeardownScan, Removed
<1>10. CASE UNCHANGED batchVars
  BY <1>10, BoxesVanish DEF batchVars
<1> QED  BY <1>1, <1>2, <1>3, <1>4, <1>5, <1>6, <1>7, <1>8, <1>9, <1>10 DEF BatchNext

(* The fields of the scheduler and of its report. *)
BatchFields == {"at", "shape", "polls", "peak", "job", "scan"}
ReportFields == {"residue", "scanFailures", "failures"}
(* Where the scheduler tears down, and what it scans. *)
TearingDown == {"remove", "scan", "reported"}
Surfaces == {"processes", "mounts", "network"}

(* Nothing is left of job j, and nothing is on the report. *)
Spotless(j) == j \notin boxUp /\ left[j] = {}
NothingFound == report.residue = {} /\ report.scanFailures = {} /\ report.failures = {}

(* The surfaces before the n-th were found clean for job j. *)
Scanned(j, n) ==
  /\ n > 1 => j \notin boxUp
  /\ n > 2 => "processes" \notin left[j]
  /\ n > 3 => "mounts" \notin left[j]

(* Where the scheduler is. *)
SchedulerFits(b) ==
  /\ b = [i \in BatchFields |-> b[i]]
  /\ b.at \in {"specs", "polling", "bailed"} \cup TearingDown
  /\ b.at \in {"specs", "polling"} => b.job = 1 /\ b.scan = 1
  /\ b.at \in {"remove", "scan"} => b.job \in BatchJobs
  /\ b.at = "remove" => b.scan = 1
  /\ b.at = "scan" => b.scan \in 1..4
  /\ b.at = "reported" => b.job = NumJobs + 1

(* The invariant of the teardown: while the report is empty, every container  *)
(* the scheduler has passed is gone without residue.                          *)
BatchCleans ==
  /\ SchedulerFits(batch)
  /\ report = [i \in ReportFields |-> report[i]] /\ left = [j \in BatchJobs |-> left[j]]
  /\ \A j \in BatchJobs : left[j] \subseteq Surfaces
  /\ batch.at \in TearingDown => Finished
  /\ batch.at \in TearingDown /\ NothingFound =>
       /\ \A j \in BatchJobs : j < batch.job => Spotless(j)
       /\ batch.at = "scan" => Scanned(batch.job, batch.scan)

(* Before the batch it holds. *)
LEMMA CleanStarts == BatchInit => BatchCleans
<1> SUFFICES ASSUME BatchInit PROVE BatchCleans
  OBVIOUS
<1>1. batch = [i \in BatchFields |-> batch[i]] /\ batch.at = "specs" /\ batch.job = 1 /\ batch.scan = 1
  BY DEF BatchInit, BatchFields
<1>2. SchedulerFits(batch)
  BY <1>1 DEF SchedulerFits, TearingDown
<1>3. report = [i \in ReportFields |-> report[i]]
  BY DEF BatchInit, CleanReport, ReportFields
<1> QED  BY <1>1, <1>2, <1>3 DEF BatchInit, BatchCleans, TearingDown

(* It implies that a batch reported clean is. *)
LEMMA CleanSafe == BatchVerifies /\ BatchCleans => CleanBatchIsClean
<1> SUFFICES ASSUME BatchVerifies, BatchCleans, batch.at = "reported", report = CleanReport
             PROVE  boxUp = {} /\ \A j \in BatchJobs : left[j] = {}
  BY DEF CleanBatchIsClean
<1>1. NothingFound
  BY DEF NothingFound, CleanReport
<1>2. batch.job = NumJobs + 1 /\ \A j \in BatchJobs : j < batch.job
  BY BatchAssumption DEF BatchCleans, SchedulerFits, BatchJobs
<1>3. \A j \in BatchJobs : Spotless(j)
  BY <1>1, <1>2 DEF BatchCleans, TearingDown
<1> QED  BY <1>3 DEF BatchVerifies, Spotless

(* Before the teardowns nothing is claimed. *)
LEMMA CleanBefore ==
  ASSUME BatchCleans, SchedulerFits(batch'), batch'.at \notin TearingDown, UNCHANGED report,
         left' = [j \in BatchJobs |-> left'[j]], \A j \in BatchJobs : left'[j] \subseteq Surfaces
  PROVE  BatchCleans'
<1>1. SchedulerFits(batch)'
  BY DEF SchedulerFits
<1>2. report' = [i \in ReportFields |-> report'[i]]
  BY DEF BatchCleans
<1> QED  BY <1>1, <1>2 DEF BatchCleans

(* Nothing of this changes, or containers go away. *)
LEMMA CleanStays ==
  ASSUME BatchCleans, UNCHANGED <<worker, batch, report, left>>, boxUp' \subseteq boxUp PROVE BatchCleans'
<1>1. /\ SchedulerFits(batch)' /\ report' = [i \in ReportFields |-> report'[i]]
      /\ left' = [j \in BatchJobs |-> left'[j]]
  BY DEF BatchCleans, SchedulerFits
<1>2. (NothingFound' => NothingFound) /\ (Finished => Finished')
  BY DEF NothingFound, Finished
<1>3. \A j \in BatchJobs : Spotless(j) => Spotless(j)'
  BY DEF Spotless
<1>4. Scanned(batch.job, batch.scan) => Scanned(batch.job, batch.scan)'
  BY DEF Scanned
<1> QED  BY <1>1, <1>2, <1>3, <1>4 DEF BatchCleans

(* A container is removed and the kernel keeps some of it. *)
LEMMA RemovedFits ==
  ASSUME BatchCleans, NEW j \in BatchJobs, Removed(j)
  PROVE  /\ left' = [i \in BatchJobs |-> left'[i]] /\ \A i \in BatchJobs : left'[i] \subseteq Surfaces
         /\ boxUp' = boxUp \ {j} /\ \A i \in BatchJobs \ {j} : left'[i] = left[i]
<1>1. PICK some \in Leftovers : left' = [left EXCEPT ![j] = IF j \in boxUp THEN some ELSE @]
  BY DEF Removed
<1>2. some \subseteq Surfaces
  BY BatchAssumption DEF Surfaces
<1>3. left = [i \in BatchJobs |-> left[i]] /\ \A i \in BatchJobs : left[i] \subseteq Surfaces
  BY DEF BatchCleans
<1> QED  BY <1>1, <1>2, <1>3 DEF Removed

(* What is recorded. *)
LEMMA ReportUpdates ==
  ASSUME report = [i \in ReportFields |-> report[i]], NEW x, NEW r
  PROVE  /\ r = [report EXCEPT !.failures = @ \cup {x}] => r = [i \in ReportFields |-> r[i]] /\ r.failures # {}
         /\ r = [report EXCEPT !.scanFailures = @ \cup {x}] => r = [i \in ReportFields |-> r[i]] /\ r.scanFailures # {}
         /\ r = [report EXCEPT !.residue = @ \cup x] =>
              /\ r = [i \in ReportFields |-> r[i]] /\ r.residue = report.residue \cup x
              /\ r.scanFailures = report.scanFailures /\ r.failures = report.failures
<1> PICK q : q = report
  OBVIOUS
<1>1. q = [i \in ReportFields |-> q[i]]
  OBVIOUS
<1> QED  BY <1>1 DEF ReportFields

(* On to the next container. *)
LEMMA TornDownFits ==
  ASSUME BatchCleans, batch.at \in {"remove", "scan"}, NEW b, b = TornDown(batch.job)
  PROVE  SchedulerFits(b) /\ b.job = batch.job + 1 /\ b.at \in {"remove", "reported"}
<1>1. SchedulerFits(batch) /\ batch.job \in BatchJobs
  BY DEF BatchCleans, SchedulerFits
<1>2. PICK q, at : q = batch /\ at = IF batch.job = NumJobs THEN "reported" ELSE "remove"
  OBVIOUS
<1>3. b = [q EXCEPT !.job = q.job + 1, !.scan = 1, !.at = at]
  BY <1>2 DEF TornDown
<1>4. q = [i \in BatchFields |-> q[i]]
  BY <1>1, <1>2 DEF SchedulerFits
<1>5. b = [i \in BatchFields |-> b[i]] /\ b.job = q.job + 1 /\ b.scan = 1 /\ b.at = at
  BY <1>3, <1>4 DEF BatchFields
<1>6. q.job \in 1..NumJobs /\ NumJobs \in Nat
  BY <1>1, <1>2, BatchAssumption DEF BatchJobs
<1>7. CASE q.job = NumJobs
  BY <1>2, <1>5, <1>7 DEF SchedulerFits, TearingDown
<1>8. CASE q.job # NumJobs
  <2>1. b.job \in BatchJobs /\ b.at = "remove"
    BY <1>2, <1>5, <1>6, <1>8 DEF BatchJobs
  <2> QED  BY <1>2, <1>5, <2>1 DEF SchedulerFits, TearingDown
<1> QED  BY <1>7, <1>8

(* Every step of the batch keeps the teardown's invariant. *)
LEMMA CleanKeeps == BatchCleans /\ [BatchNext]_batchVars => BatchCleans'
<1> SUFFICES ASSUME BatchCleans, [BatchNext]_batchVars PROVE BatchCleans'
  OBVIOUS
<1>0. /\ SchedulerFits(batch) /\ batch = [i \in BatchFields |-> batch[i]]
      /\ report = [i \in ReportFields |-> report[i]] /\ left = [j \in BatchJobs |-> left[j]]
      /\ \A j \in BatchJobs : left[j] \subseteq Surfaces
  BY DEF BatchCleans, SchedulerFits
<1>1. CASE FanOut
  <2>1. PICK at : /\ at \in {"polling", "bailed"} /\ batch' = [batch EXCEPT !.at = at]
                  /\ batch.at = "specs" /\ UNCHANGED <<left, report>>
    BY <1>1 DEF FanOut
  <2>2. PICK b : b = [batch EXCEPT !.at = at]
    OBVIOUS
  <2>3. b = [i \in BatchFields |-> b[i]] /\ b.at = at /\ b.job = batch.job /\ b.scan = batch.scan
    BY <1>0, <2>2 DEF BatchFields
  <2>4. SchedulerFits(b) /\ b.at \notin TearingDown
    BY <1>0, <2>1, <2>3 DEF SchedulerFits, TearingDown
  <2>5. left' = [j \in BatchJobs |-> left'[j]] /\ \A j \in BatchJobs : left'[j] \subseteq Surfaces
    BY <1>0, <2>1
  <2> QED  BY <2>1, <2>2, <2>4, <2>5, CleanBefore
<1>2. CASE Poll
  <2>1. PICK n, m : batch' = [batch EXCEPT !.polls = n, !.peak = m] /\ batch.at = "polling" /\ UNCHANGED <<left, report>>
    BY <1>2 DEF Poll
  <2>2. PICK b : b = [batch EXCEPT !.polls = n, !.peak = m]
    OBVIOUS
  <2>3. b = [i \in BatchFields |-> b[i]] /\ b.at = batch.at /\ b.job = batch.job /\ b.scan = batch.scan
    BY <1>0, <2>2 DEF BatchFields
  <2>4. SchedulerFits(b) /\ b.at \notin TearingDown
    BY <1>0, <2>1, <2>3 DEF SchedulerFits, TearingDown
  <2>5. left' = [j \in BatchJobs |-> left'[j]] /\ \A j \in BatchJobs : left'[j] \subseteq Surfaces
    BY <1>0, <2>1
  <2> QED  BY <2>1, <2>2, <2>4, <2>5, CleanBefore
<1>3. CASE Join
  <2>1. batch.at = "polling" /\ Finished /\ UNCHANGED <<boxUp, left, worker, report>>
    BY <1>3 DEF Join, Joined
  <2>2. PICK b : /\ b = batch'
                 /\ (\E m : b = [batch EXCEPT !.at = "remove", !.peak = m]) \/ b = [batch EXCEPT !.at = "remove"]
    BY <1>3 DEF Join
  <2>3. b = [i \in BatchFields |-> b[i]] /\ b.at = "remove" /\ b.job = batch.job /\ b.scan = batch.scan
    BY <1>0, <2>2 DEF BatchFields
  <2>4. b.job = 1 /\ b.scan = 1 /\ 1 \in BatchJobs
    BY <1>0, <2>1, <2>3, BatchAssumption DEF SchedulerFits, BatchJobs
  <2>5. SchedulerFits(b)
    BY <2>3, <2>4 DEF SchedulerFits, TearingDown
  <2>6. \A j \in BatchJobs : ~(j < 1)
    BY BatchAssumption DEF BatchJobs
  <2>7. /\ SchedulerFits(batch)' /\ Finished' /\ report' = [i \in ReportFields |-> report'[i]]
        /\ left' = [j \in BatchJobs |-> left'[j]]
    BY <1>0, <2>1, <2>2, <2>5 DEF SchedulerFits, Finished
  <2> QED  BY <1>0, <2>1, <2>2, <2>3, <2>4, <2>6, <2>7 DEF BatchCleans
<1>4. ASSUME NEW j \in BatchJobs, worker[j].at # "finished", UNCHANGED <<batch, report>>, (UNCHANGED left) \/ Removed(j)
      PROVE BatchCleans'
  <2>1. batch.at \notin TearingDown
    BY <1>4 DEF BatchCleans, Finished
  <2>2. left' = [i \in BatchJobs |-> left'[i]] /\ \A i \in BatchJobs : left'[i] \subseteq Surfaces
    BY <1>0, <1>4, RemovedFits
  <2> QED  BY <1>0, <1>4, <2>1, <2>2, CleanBefore
<1>5. ASSUME NEW j \in BatchJobs,
             TakeLock(j) \/ PullOk(j) \/ PullTransient(j) \/ PullRefused(j) \/ Inspect(j) \/ SpawnContainer(j)
                                  \/ ExecJob(j) \/ HardKill(j) \/ DetectAndRecover(j)
      PROVE  BatchCleans'
  BY <1>4, <1>5 DEF TakeLock, PullOk, PullTransient, PullRefused, Inspect, SpawnContainer, ExecJob, HardKill,
     DetectAndRecover
<1>6. ASSUME NEW j \in BatchJobs, BoxCrash(j) PROVE BatchCleans'
  BY <1>6, CleanStays DEF BoxCrash
<1>7. ASSUME batch.at \in {"remove", "scan"}, batch' = TornDown(batch.job),
             report' = [i \in ReportFields |-> report'[i]], ~NothingFound',
             left' = [j \in BatchJobs |-> left'[j]], \A j \in BatchJobs : left'[j] \subseteq Surfaces, UNCHANGED worker
      PROVE  BatchCleans'
  <2>1. SchedulerFits(batch') /\ Finished'
    BY <1>7, TornDownFits DEF BatchCleans, TearingDown, Finished
  <2>2. SchedulerFits(batch)'
    BY <2>1 DEF SchedulerFits
  <2> QED  BY <1>7, <2>1, <2>2 DEF BatchCleans
<1>8. CASE TeardownRemove
  <2>1. batch.at = "remove" /\ batch.job \in BatchJobs /\ batch.scan = 1 /\ UNCHANGED worker
    BY <1>0, <1>8 DEF TeardownRemove, SchedulerFits
  <2>2. CASE Removed(batch.job) /\ batch' = [batch EXCEPT !.at = "scan"] /\ UNCHANGED report
    <3>1. PICK b : b = [batch EXCEPT !.at = "scan"]
      OBVIOUS
    <3>2. b = [i \in BatchFields |-> b[i]] /\ b.at = "scan" /\ b.job = batch.job /\ b.scan = batch.scan
      BY <1>0, <3>1 DEF BatchFields
    <3>3. batch' = b /\ SchedulerFits(b)
      <4>1. batch' = b
        BY <2>2, <3>1
      <4>2. SchedulerFits(b)
        BY <2>1, <3>2 DEF SchedulerFits, TearingDown
      <4> QED  BY <4>1, <4>2
    <3>4. SchedulerFits(batch)' /\ Finished' /\ report' = [i \in ReportFields |-> report'[i]]
      BY <1>0, <2>1, <2>2, <3>3 DEF SchedulerFits, Finished, BatchCleans, TearingDown
    <3>5. /\ left' = [i \in BatchJobs |-> left'[i]] /\ \A i \in BatchJobs : left'[i] \subseteq Surfaces
          /\ boxUp' = boxUp \ {batch.job} /\ \A i \in BatchJobs \ {batch.job} : left'[i] = left[i]
      BY <2>1, <2>2, RemovedFits
    <3>6. NothingFound' => \A j \in BatchJobs : j < batch.job => Spotless(j)
      BY <2>1, <2>2 DEF BatchCleans, NothingFound, TearingDown
    <3>7. \A j \in BatchJobs : j < batch.job => j # batch.job
      BY BatchAssumption DEF BatchJobs
    <3>8. NothingFound' => \A j \in BatchJobs : j < batch'.job => Spotless(j)'
      BY <3>2, <3>3, <3>5, <3>6, <3>7 DEF Spotless
    <3>9. Scanned(batch.job, batch.scan)'
      BY <2>1, <3>2, <3>3 DEF Scanned
    <3> QED  BY <3>4, <3>5, <3>8, <3>9 DEF BatchCleans
  <2>3. CASE /\ Removed(batch.job) \/ UNCHANGED <<boxUp, left>>
             /\ report' = [report EXCEPT !.failures = @ \cup {batch.job}] /\ batch' = TornDown(batch.job)
    <3>1. left' = [i \in BatchJobs |-> left'[i]] /\ \A i \in BatchJobs : left'[i] \subseteq Surfaces
      BY <1>0, <2>1, <2>3, RemovedFits
    <3>2. report' = [i \in ReportFields |-> report'[i]] /\ report'.failures # {}
      BY <1>0, <2>3, ReportUpdates
    <3>3. ~NothingFound'
      BY <3>2 DEF NothingFound
    <3> QED  BY <1>7, <2>1, <2>3, <3>1, <3>2, <3>3
  <2> QED  BY <1>8, <2>2, <2>3 DEF TeardownRemove
<1>9. CASE TeardownScan
  <2>1. /\ batch.at = "scan" /\ batch.job \in BatchJobs /\ batch.scan \in 1..4
        /\ UNCHANGED <<boxUp, left, worker>>
    BY <1>0, <1>9 DEF TeardownScan, SchedulerFits
  <2>2. PICK j, n : j = batch.job /\ n = batch.scan
    OBVIOUS
  <2>3. Len(Scans) = 4
    BY DEF Scans
  <2>4. batch' = IF n = 4 THEN TornDown(j) ELSE [batch EXCEPT !.scan = @ + 1]
    BY <1>9, <2>2, <2>3 DEF TeardownScan
  <2>5. /\ left' = [i \in BatchJobs |-> left'[i]] /\ (\A i \in BatchJobs : left'[i] \subseteq Surfaces)
        /\ Finished /\ Finished'
    BY <1>0, <2>1 DEF BatchCleans, TearingDown, Finished
  <2>6. /\ report' = [i \in ReportFields |-> report'[i]]
        /\ NothingFound' => NothingFound /\ (n = 1 => j \notin boxUp) /\ (n \in 2..4 => Scans[n] \notin left[j])
    <3>1. CASE ScanFailed(j, Scans[n])
      <4>1. report' = [i \in ReportFields |-> report'[i]] /\ report'.scanFailures # {}
        BY <1>0, <3>1, ReportUpdates DEF ScanFailed
      <4> QED  BY <4>1 DEF NothingFound
    <3>2. CASE report' = [report EXCEPT !.residue = @ \cup
                 (IF (Scans[n] = "containers" /\ j \in boxUp) \/ Scans[n] \in left[j] THEN {<<j, Scans[n]>>} ELSE {})]
      <4>1. PICK x : x = IF (Scans[n] = "containers" /\ j \in boxUp) \/ Scans[n] \in left[j] THEN {<<j, Scans[n]>>} ELSE {}
        OBVIOUS
      <4>2. report' = [report EXCEPT !.residue = @ \cup x]
        BY <3>2, <4>1
      <4>3. /\ report' = [i \in ReportFields |-> report'[i]] /\ report'.residue = report.residue \cup x
            /\ report'.scanFailures = report.scanFailures /\ report'.failures = report.failures
        BY <1>0, <4>2, ReportUpdates
      <4>4. NothingFound' => NothingFound /\ x = {}
        BY <4>3 DEF NothingFound
      <4>5. Scans[1] = "containers"
        BY DEF Scans
      <4> QED  BY <4>1, <4>3, <4>4, <4>5
    <3> QED  BY <1>9, <2>2, <3>1, <3>2 DEF TeardownScan
  <2>7. NothingFound' => (\A i \in BatchJobs : i < j => Spotless(i)) /\ Scanned(j, n)
    BY <2>1, <2>2, <2>6 DEF BatchCleans, TearingDown
  <2>8. NothingFound' => Scanned(j, n + 1)
    BY <2>1, <2>2, <2>6, <2>7 DEF Scanned, Scans
  <2>9. CASE n # 4
    <3>1. PICK b : b = [batch EXCEPT !.scan = @ + 1]
      OBVIOUS
    <3>2. b = [i \in BatchFields |-> b[i]] /\ b.at = batch.at /\ b.job = batch.job /\ b.scan = batch.scan + 1
      BY <1>0, <3>1 DEF BatchFields
    <3>3. batch' = b /\ SchedulerFits(b)
      <4>1. batch' = b
        BY <2>4, <2>9, <3>1
      <4>2. b.scan \in 1..4
        BY <2>1, <2>2, <2>9, <3>2
      <4>3. SchedulerFits(b)
        BY <2>1, <3>2, <4>2 DEF SchedulerFits, TearingDown
      <4> QED  BY <4>1, <4>3
    <3>4. SchedulerFits(batch)'
      BY <3>3 DEF SchedulerFits
    <3>5. NothingFound' => (\A i \in BatchJobs : i < batch'.job => Spotless(i)') /\ Scanned(batch.job, batch.scan)'
      BY <2>1, <2>2, <2>7, <2>8, <3>2, <3>3 DEF Spotless, Scanned
    <3> QED  BY <2>5, <2>6, <3>4, <3>5 DEF BatchCleans
  <2>10. CASE n = 4
    <3>1. SchedulerFits(batch') /\ batch'.job = j + 1 /\ batch'.at \in {"remove", "reported"}
      BY <2>1, <2>2, <2>4, <2>10, TornDownFits
    <3>2. SchedulerFits(batch)'
      BY <3>1 DEF SchedulerFits
    <3>3. NothingFound' => Spotless(j)
      BY <1>0, <2>1, <2>2, <2>6, <2>8, <2>10 DEF Spotless, Scanned, Surfaces, Scans
    <3>4. \A i \in BatchJobs : i < j + 1 => i < j \/ i = j
      BY <2>1, <2>2, BatchAssumption DEF BatchJobs
    <3>5. NothingFound' => \A i \in BatchJobs : i < batch'.job => Spotless(i)'
      BY <2>1, <2>7, <3>1, <3>3, <3>4 DEF Spotless
    <3> QED  BY <2>5, <2>6, <3>1, <3>2, <3>5 DEF BatchCleans
  <2> QED  BY <2>9, <2>10
<1>10. CASE UNCHANGED batchVars
  BY <1>10, CleanStays DEF batchVars
<1> QED  BY <1>1, <1>2, <1>3, <1>5, <1>6, <1>8, <1>9, <1>10 DEF BatchNext

(* Both invariants, for any number of jobs, slots and retries. *)
THEOREM BatchInvariance == BatchSpec => [](BatchVerifies /\ BatchCleans)
<1>1. BatchInit => BatchVerifies /\ BatchCleans
  BY VerifyStarts, CleanStarts
<1>2. BatchVerifies /\ BatchCleans /\ [BatchNext]_batchVars => (BatchVerifies /\ BatchCleans)'
  BY VerifyKeeps, CleanKeeps
<1> QED  BY <1>1, <1>2, PTL DEF BatchSpec

(* Threads that share a digest never pull it together, a job of a batch runs  *)
(* only on content that matched its pin, and a batch that the teardown        *)
(* reports clean leaves no container, process, mount or network behind.       *)
THEOREM BatchesAlwaysHold == BatchSpec => []BatchesHold
<1>1. BatchVerifies /\ BatchCleans => BatchesHold
  BY VerifySafe, CleanSafe DEF BatchesHold
<1> QED  BY <1>1, BatchInvariance, PTL

--------------------------------------------------------------------------------
(* Layer hydration *)

(* The fields of a hydration, and of what it has seen. *)
BootFields == {"at", "cold", "layer", "fetched", "outcome"}
SeenFields == {"ready", "missed", "failed"}
(* Where a hydration that goes on can be. *)
Hydrating == {"look", "fetch", "write"}

(* A hydration has accounted for every layer before the one it is at, writes  *)
(* only what it has fetched, and met no failure while it goes on.             *)
BootFits(r, s) ==
  /\ r = [i \in BootFields |-> r[i]] /\ s = [i \in SeenFields |-> s[i]]
  /\ r.at \in Hydrating \cup {"idle", "done"}
  /\ s.ready \cup s.missed \subseteq Layers
  /\ r.at # "done" => r.outcome = "none" /\ ~s.failed
  /\ r.at = "idle" => r.layer = 1
  /\ r.at \in Hydrating => r.layer \in DOMAIN Plan /\ \A i \in 1..r.layer - 1 : Plan[i] \in s.ready \cup s.missed
  /\ r.at = "write" => Plan[r.layer] \in s.ready \ s.missed
  /\ r.outcome = "hydrated" => ~s.failed /\ s.ready \cup s.missed = Layers

(* The store has real bytes only, and the cache only layers that some         *)
(* hydration fetched or found.                                                *)
StoreIsHonest ==
  /\ \A k \in DOMAIN casStore : casStore[k] = "bytes"
  /\ \A k \in casCache : \E b \in Boots : k \in seen[b].ready

(* The inductive invariant of layer hydration. *)
LayerInv ==
  /\ boot = [b \in Boots |-> boot[b]] /\ seen = [b \in Boots |-> seen[b]]
  /\ \A b \in Boots : BootFits(boot[b], seen[b])
  /\ StoreIsHonest

(* Before any hydration it holds. *)
LEMMA LayerStarts == LayerInit => LayerInv
<1> SUFFICES ASSUME LayerInit PROVE LayerInv
  OBVIOUS
<1>1. \A b \in Boots : BootFits(boot[b], seen[b])
  BY DEF LayerInit, BootFits, BootFields, SeenFields, Hydrating
<1>2. StoreIsHonest
  BY DEF LayerInit, StoreIsHonest
<1> QED  BY <1>1, <1>2 DEF LayerInit, LayerInv

(* It implies the property. *)
LEMMA LayerSafe == LayerInv => HonestHydration
BY DEF LayerInv, StoreIsHonest, HonestHydration, BootFits

(* One hydration takes a step. *)
LEMMA BootStepKeeps ==
  ASSUME LayerInv, NEW b \in Boots, NEW r, NEW s, BootFits(r, s), boot' = [boot EXCEPT ![b] = r],
         seen' = [seen EXCEPT ![b] = s],
         seen[b].ready \subseteq s.ready, \A k \in DOMAIN casStore' : casStore'[k] = "bytes",
         casCache' \subseteq casCache \cup s.ready
  PROVE  LayerInv'
<1>1. /\ boot' = [c \in Boots |-> boot'[c]] /\ boot'[b] = r /\ \A c \in Boots \ {b} : boot'[c] = boot[c]
      /\ seen' = [c \in Boots |-> seen'[c]] /\ seen'[b] = s /\ \A c \in Boots \ {b} : seen'[c] = seen[c]
  BY DEF LayerInv
<1>2. \A c \in Boots : BootFits(boot'[c], seen'[c])
  BY <1>1 DEF LayerInv
<1>3. StoreIsHonest'
  BY <1>1 DEF LayerInv, StoreIsHonest
<1>4. \A c \in Boots : BootFits(boot[c], seen[c])'
  BY <1>2 DEF BootFits, Layers, Hydrating, BootFields, SeenFields
<1> QED  BY <1>1, <1>3, <1>4 DEF LayerInv

(* A step that sees nothing new, as an update. *)
LEMMA SeenStays == ASSUME LayerInv, NEW b \in Boots, UNCHANGED seen PROVE seen' = [seen EXCEPT ![b] = seen[b]]
BY DEF LayerInv

(* The hydration is done with its layer. *)
LEMMA NextLayerKeeps ==
  ASSUME LayerInv, NEW b \in Boots, NEW n, NextLayer(b, n), boot[b].at \in Hydrating, NEW s,
         seen' = [seen EXCEPT ![b] = s],
         s = [i \in SeenFields |-> s[i]], s.ready \cup s.missed \subseteq Layers, ~s.failed,
         seen[b].ready \subseteq s.ready,
         seen[b].missed \subseteq s.ready \cup s.missed, Plan[boot[b].layer] \in s.ready \cup s.missed,
         \A k \in DOMAIN casStore' : casStore'[k] = "bytes",
         casCache' \subseteq casCache \cup s.ready
  PROVE  LayerInv'
<1>1. PICK q : q = boot[b]
  OBVIOUS
<1>2. BootFits(q, seen[b])
  BY <1>1 DEF LayerInv
<1>3. PICK last : last = (q.layer = Len(Plan))
  OBVIOUS
<1>4. PICK r : r = [q EXCEPT !.fetched = @ + n, !.layer = IF @ = Len(Plan) THEN @ ELSE @ + 1,
                    !.at = IF q.layer = Len(Plan) THEN "done" ELSE IF q.cold THEN "fetch" ELSE "look",
                    !.outcome = IF q.layer = Len(Plan) THEN "hydrated" ELSE @]
  OBVIOUS
<1>5. boot' = [boot EXCEPT ![b] = r]
  BY <1>1, <1>4 DEF NextLayer
<1>6. q = [i \in BootFields |-> q[i]]
  BY <1>2 DEF BootFits
<1>7. /\ r = [i \in BootFields |-> r[i]] /\ r.layer = IF q.layer = Len(Plan) THEN q.layer ELSE q.layer + 1
      /\ r.at = IF q.layer = Len(Plan) THEN "done" ELSE IF q.cold THEN "fetch" ELSE "look"
      /\ r.outcome = IF q.layer = Len(Plan) THEN "hydrated" ELSE q.outcome
  BY <1>4, <1>6 DEF BootFields
<1>p. Len(Plan) \in Nat /\ DOMAIN Plan = 1..Len(Plan)
  BY LayerAssumption
<1>h. q.at \in Hydrating /\ q.at # "done"
  BY <1>1 DEF Hydrating
<1>8. /\ q.layer \in 1..Len(Plan) /\ Len(Plan) \in Nat /\ DOMAIN Plan = 1..Len(Plan) /\ q.outcome = "none"
      /\ \A i \in 1..q.layer - 1 : Plan[i] \in seen[b].ready \cup seen[b].missed
  BY <1>2, <1>p, <1>h DEF BootFits
<1>9. \A i \in 1..q.layer : Plan[i] \in s.ready \cup s.missed
  <2> SUFFICES ASSUME NEW i \in 1..q.layer PROVE Plan[i] \in s.ready \cup s.missed
    OBVIOUS
  <2>1. CASE i = q.layer  BY <1>1, <2>1
  <2>2. CASE i # q.layer
    <3>1. i \in 1..q.layer - 1
      BY <1>8, <2>2
    <3> QED  BY <1>8, <3>1
  <2> QED  BY <2>1, <2>2
<1>10. BootFits(r, s)
  <2>1. CASE q.layer = Len(Plan)
    <3>1. \A k \in Layers : k \in s.ready \cup s.missed
      BY <1>8, <1>9, <2>1 DEF Layers
    <3> QED  BY <1>7, <2>1, <3>1 DEF BootFits, Hydrating
  <2>2. CASE q.layer # Len(Plan)
    <3>1. r.layer = q.layer + 1 /\ r.layer \in DOMAIN Plan /\ r.layer - 1 = q.layer
      BY <1>7, <1>8, <2>2
    <3> QED  BY <1>7, <1>8, <1>9, <2>2, <3>1 DEF BootFits, Hydrating
  <2> QED  BY <2>1, <2>2
<1> QED  BY <1>5, <1>10, BootStepKeeps

(* Record updates of a hydration. *)
Stands(r, at, layer, outcome) == r = [i \in BootFields |-> r[i]] /\ r.at = at /\ r.layer = layer /\ r.outcome = outcome

(* What the updates of a hydration leave of it. *)
LEMMA BootUpdates ==
  ASSUME NEW q, NEW t, BootFits(q, t), NEW at, NEW x, NEW r
  PROVE  /\ r = [q EXCEPT !.at = at] => Stands(r, at, q.layer, q.outcome)
         /\ r = [q EXCEPT !.at = at, !.outcome = x] => Stands(r, at, q.layer, x)
         /\ r = [q EXCEPT !.at = at, !.cold = x] => Stands(r, at, q.layer, q.outcome)
<1> PICK p : p = q
  OBVIOUS
<1>1. p = [i \in BootFields |-> p[i]]
  BY DEF BootFits
<1> QED  BY <1>1 DEF Stands, BootFields

(* A hydration may end with any error. *)
LEMMA BootEndsKeeps ==
  ASSUME LayerInv, NEW b \in Boots, NEW outcome, BootEnds(b, outcome), NEW s, seen' = [seen EXCEPT ![b] = s],
         s = [i \in SeenFields |-> s[i]], s.ready = seen[b].ready, s.missed = seen[b].missed,
         outcome = "hydrated" => Layers = {} /\ ~s.failed,
         \A k \in DOMAIN casStore' : casStore'[k] = "bytes",
         casCache' \subseteq casCache \cup s.ready
  PROVE  LayerInv'
<1>1. PICK r : r = [boot[b] EXCEPT !.at = "done", !.outcome = outcome]
  OBVIOUS
<1>2. boot' = [boot EXCEPT ![b] = r]
  BY <1>1 DEF BootEnds
<1>4. BootFits(boot[b], seen[b])
  BY DEF LayerInv
<1>3. Stands(r, "done", boot[b].layer, outcome)
  BY <1>1, <1>4, BootUpdates
<1>5. BootFits(r, s)
  BY <1>3, <1>4 DEF Stands, BootFits, Hydrating
<1> QED  BY <1>2, <1>5, BootStepKeeps

(* Every look, fetch and write of a hydration, and every outage and eviction  *)
(* of the store, keeps the invariant.                                         *)
LEMMA LayerKeeps == LayerInv /\ [LayerNext]_layerVars => LayerInv'
<1> SUFFICES ASSUME LayerInv, [LayerNext]_layerVars PROVE LayerInv'
  OBVIOUS
<1>0. \A b \in Boots : BootFits(boot[b], seen[b])
  BY DEF LayerInv
<1>s. /\ \A k \in DOMAIN casStore : casStore[k] = "bytes"
  BY DEF LayerInv, StoreIsHonest
<1>1. ASSUME NEW b \in Boots, NEW cold \in BOOLEAN, NEW blankLease \in BOOLEAN, StartBoot(b, cold, blankLease)
      PROVE LayerInv'
  <2>1. boot[b].at = "idle" /\ UNCHANGED <<casStore, casCache, seen>>
    BY <1>1 DEF StartBoot
  <2>2. /\ seen' = [seen EXCEPT ![b] = seen[b]] /\ seen[b] = [i \in SeenFields |-> seen[b][i]]
        /\ ~seen[b].failed
        /\ boot[b].layer = 1 /\ boot[b].outcome = "none"
    BY <1>0, <2>1, SeenStays DEF BootFits
  <2>3. CASE BootEnds(b, "invalid")
    BY <1>s, <2>1, <2>2, <2>3, BootEndsKeeps
  <2>4. CASE Plan = <<>> /\ BootEnds(b, "hydrated")
    <3>1. Layers = {}
      BY <2>4 DEF Layers
    <3> QED  BY <1>s, <2>1, <2>2, <2>4, <3>1, BootEndsKeeps
  <2>5. CASE Plan # <<>> /\ boot' = [boot EXCEPT ![b].at = IF cold THEN "fetch" ELSE "look", ![b].cold = cold]
    <3>1. PICK at : at = IF cold THEN "fetch" ELSE "look"
      OBVIOUS
    <3>2. PICK r : r = [boot[b] EXCEPT !.at = at, !.cold = cold]
      OBVIOUS
    <3>3. boot' = [boot EXCEPT ![b] = r]
      BY <2>5, <3>1, <3>2
    <3>4. Stands(r, at, boot[b].layer, boot[b].outcome)
      BY <1>0, <3>2, BootUpdates
    <3>5. 1 \in DOMAIN Plan
      BY <2>5, LayerAssumption
    <3>6. \A i \in 1..1 - 1 : FALSE
      OBVIOUS
    <3>7. BootFits(r, seen[b])
      BY <1>0, <2>1, <2>2, <3>1, <3>4, <3>5, <3>6 DEF Stands, BootFits, Hydrating
    <3> QED  BY <1>s, <2>1, <2>2, <3>3, <3>7, BootStepKeeps
  <2> QED  BY <1>1, <2>3, <2>4, <2>5 DEF StartBoot
<1>2. ASSUME NEW b \in Boots, boot[b].at \in Hydrating
      PROVE  /\ LayerOf(b) = Plan[boot[b].layer] /\ LayerOf(b) \in Layers
             /\ seen[b] = [i \in SeenFields |-> seen[b][i]] /\ ~seen[b].failed
             /\ seen[b].ready \cup seen[b].missed \subseteq Layers
             /\ boot[b].layer \in DOMAIN Plan /\ boot[b].outcome = "none"
             /\ \A i \in 1..boot[b].layer - 1 : Plan[i] \in seen[b].ready \cup seen[b].missed
  BY <1>0, <1>2 DEF BootFits, LayerOf, Layers, Hydrating
<1>3. ASSUME NEW b \in Boots, LookUp(b) PROVE LayerInv'
  <2>1. boot[b].at = "look" /\ UNCHANGED <<casStore, casCache>>
    BY <1>3 DEF LookUp
  <2>2. boot[b].at \in Hydrating
    BY <2>1 DEF Hydrating
  <2>3. CASE NextLayer(b, 0) /\ seen' = [seen EXCEPT ![b].ready = @ \cup {LayerOf(b)}]
    <3>1. PICK s : s = [seen[b] EXCEPT !.ready = @ \cup {LayerOf(b)}]
      OBVIOUS
    <3>2. seen' = [seen EXCEPT ![b] = s]
      BY <2>3, <3>1
    <3>3. /\ s = [i \in SeenFields |-> s[i]] /\ s.ready = seen[b].ready \cup {LayerOf(b)}
          /\ s.missed = seen[b].missed /\ (s.failed <=> seen[b].failed)
      BY <1>2, <2>2, <3>1 DEF SeenFields
    <3>4. /\ s.ready \cup s.missed \subseteq Layers /\ ~s.failed /\ seen[b].ready \subseteq s.ready
          /\ seen[b].missed \subseteq s.ready \cup s.missed /\ Plan[boot[b].layer] \in s.ready \cup s.missed
      BY <1>2, <2>2, <3>3
    <3>5. (\A k \in DOMAIN casStore' : casStore'[k] = "bytes") /\ casCache' \subseteq casCache \cup s.ready
      BY <1>s, <2>1
    <3> QED  BY <2>2, <2>3, <3>2, <3>3, <3>4, <3>5, NextLayerKeeps
  <2>4. CASE boot' = [boot EXCEPT ![b].at = "fetch"] /\ UNCHANGED seen
    <3>1. PICK r : r = [boot[b] EXCEPT !.at = "fetch"]
      OBVIOUS
    <3>2. boot' = [boot EXCEPT ![b] = r] /\ seen' = [seen EXCEPT ![b] = seen[b]]
      BY <2>4, <3>1, SeenStays
    <3>3. Stands(r, "fetch", boot[b].layer, boot[b].outcome)
      BY <1>0, <3>1, BootUpdates
    <3>4. BootFits(r, seen[b])
      BY <1>2, <2>2, <3>3 DEF Stands, BootFits, Hydrating
    <3> QED  BY <1>s, <2>1, <3>2, <3>4, BootStepKeeps
  <2> QED  BY <1>3, <2>3, <2>4 DEF LookUp
<1>4. ASSUME NEW b \in Boots, FetchLayer(b) PROVE LayerInv'
  <2>1. boot[b].at = "fetch" /\ UNCHANGED <<casStore, casCache>>
    BY <1>4 DEF FetchLayer
  <2>2. boot[b].at \in Hydrating
    BY <2>1 DEF Hydrating
  <2>3. CASE /\ boot' = [boot EXCEPT ![b].at = "write"]
             /\ seen' = [seen EXCEPT ![b].ready = @ \cup {LayerOf(b)}, ![b].missed = @ \ {LayerOf(b)}]
    <3>1. PICK s : s = [seen[b] EXCEPT !.ready = @ \cup {LayerOf(b)}, !.missed = @ \ {LayerOf(b)}]
      OBVIOUS
    <3>2. PICK r : r = [boot[b] EXCEPT !.at = "write"]
      OBVIOUS
    <3>3. seen' = [seen EXCEPT ![b] = s] /\ boot' = [boot EXCEPT ![b] = r]
      BY <2>3, <3>1, <3>2
    <3>4. /\ s = [i \in SeenFields |-> s[i]] /\ s.ready = seen[b].ready \cup {LayerOf(b)}
          /\ s.missed = seen[b].missed \ {LayerOf(b)}
          /\ s.failed <=> seen[b].failed
      BY <1>2, <2>2, <3>1 DEF SeenFields
    <3>5. Stands(r, "write", boot[b].layer, boot[b].outcome)
      BY <1>0, <3>2, BootUpdates
    <3>6. BootFits(r, s)
      BY <1>2, <2>2, <3>4, <3>5 DEF Stands, BootFits, Hydrating
    <3> QED  BY <1>s, <2>1, <3>3, <3>4, <3>6, BootStepKeeps
  <2>4. CASE \E status : /\ StatusToOutcome(status) = "miss" /\ AfterMiss(b)
                         /\ seen' = [seen EXCEPT ![b].missed = @ \cup {LayerOf(b)},
                                                  ![b].failed = IF status = 404 THEN @ ELSE TRUE]
    <3>1. PICK status : /\ StatusToOutcome(status) = "miss" /\ AfterMiss(b)
                        /\ seen' = [seen EXCEPT ![b].missed = @ \cup {LayerOf(b)},
                                                  ![b].failed = IF status = 404 THEN @ ELSE TRUE]
      BY <2>4
    <3>2. status = 404
      BY <3>1 DEF StatusToOutcome
    <3>3. PICK s : s = [seen[b] EXCEPT !.missed = @ \cup {LayerOf(b)}, !.failed = IF status = 404 THEN @ ELSE TRUE]
      OBVIOUS
    <3>4. seen' = [seen EXCEPT ![b] = s]
      BY <3>1, <3>3
    <3>5. /\ s = [i \in SeenFields |-> s[i]] /\ s.ready = seen[b].ready
          /\ s.missed = seen[b].missed \cup {LayerOf(b)}
          /\ s.failed => seen[b].failed
      BY <1>2, <2>2, <3>2, <3>3 DEF SeenFields
    <3>6. NextLayer(b, 0)
      BY <3>1 DEF AfterMiss
    <3> QED  BY <1>2, <1>s, <2>1, <2>2, <3>4, <3>5, <3>6, NextLayerKeeps
  <2>5. CASE BootEnds(b, "substrate down") /\ seen' = [seen EXCEPT ![b].failed = TRUE]
    <3>1. PICK s : s = [seen[b] EXCEPT !.failed = TRUE]
      OBVIOUS
    <3>2. seen' = [seen EXCEPT ![b] = s]
      BY <2>5, <3>1
    <3>3. s = [i \in SeenFields |-> s[i]] /\ s.ready = seen[b].ready /\ s.missed = seen[b].missed
      BY <1>2, <2>2, <3>1 DEF SeenFields
    <3>4. "substrate down" # "hydrated"
      OBVIOUS
    <3>5. (\A k \in DOMAIN casStore' : casStore'[k] = "bytes") /\ casCache' \subseteq casCache \cup s.ready
      BY <1>s, <2>1
    <3> QED  BY <2>5, <3>2, <3>3, <3>4, <3>5, BootEndsKeeps
  <2> QED  BY <1>4, <2>3, <2>4, <2>5 DEF FetchLayer
<1>5. ASSUME NEW b \in Boots, WriteLayer(b) PROVE LayerInv'
  <2>1. boot[b].at = "write" /\ UNCHANGED seen
    BY <1>5 DEF WriteLayer
  <2>2. boot[b].at \in Hydrating
    BY <2>1 DEF Hydrating
  <2>3. LayerOf(b) \in seen[b].ready /\ LayerOf(b) \notin seen[b].missed
    BY <1>0, <2>1 DEF BootFits, LayerOf
  <2>4. PICK stored : stored = [x \in DOMAIN casStore \cup {LayerOf(b)} |-> IF x # LayerOf(b) THEN casStore[x]
                                  ELSE IF LayerOf(b) \in seen[b].missed THEN "empty" ELSE "bytes"]
    OBVIOUS
  <2>5. \A k \in DOMAIN stored : stored[k] = "bytes"
    BY <1>s, <2>3, <2>4
  <2>6. \/ casStore' = stored /\ casCache' = casCache \cup {LayerOf(b)} /\ NextLayer(b, 1)
        \/ casStore' \in {casStore, stored} /\ UNCHANGED casCache /\ BootEnds(b, "forced cold")
    BY <1>5, <2>4 DEF WriteLayer
  <2>7. \A k \in DOMAIN casStore' : casStore'[k] = "bytes"
    BY <1>s, <2>5, <2>6
  <2>8. seen' = [seen EXCEPT ![b] = seen[b]] /\ casCache' \subseteq casCache \cup seen[b].ready
    BY <2>1, <2>3, <2>6, SeenStays
  <2>9. CASE NextLayer(b, 1)
    BY <1>2, <2>2, <2>3, <2>7, <2>8, <2>9, NextLayerKeeps
  <2>10. CASE BootEnds(b, "forced cold")
    <3>1. "forced cold" # "hydrated" /\ seen[b] = [i \in SeenFields |-> seen[b][i]]
      BY <1>2, <2>2
    <3> QED  BY <2>7, <2>8, <2>10, <3>1, BootEndsKeeps
  <2> QED  BY <2>6, <2>9, <2>10
<1>6. ASSUME NEW k \in Layers, Evict(k) PROVE LayerInv'
  <2>1. UNCHANGED <<casCache, boot, seen>> /\ \A x \in DOMAIN casStore' : casStore'[x] = "bytes"
    BY <1>6, <1>s DEF Evict
  <2> QED  BY <2>1 DEF LayerInv, StoreIsHonest, BootFits, Layers
<1>7. CASE UNCHANGED layerVars
  BY <1>7 DEF layerVars, LayerInv, StoreIsHonest, BootFits, Layers
<1> QED  BY <1>1, <1>3, <1>4, <1>5, <1>6, <1>7 DEF LayerNext

(* The invariant of layer hydration, for any plan, set of hydrations and      *)
(* cache.                                                                     *)
THEOREM LayerInvariance == LayerSpec => []LayerInv
BY LayerStarts, LayerKeeps, PTL DEF LayerSpec

(* A boot that reports Hydrated met no failed fetch and accounted for every   *)
(* layer of its plan as found or missed, and the store and the cache hold     *)
(* only bytes that were fetched, although the hydrations share them and the   *)
(* store may answer anything.                                                 *)
THEOREM HydrationAlwaysHonest == LayerSpec => []HonestHydration
BY LayerInvariance, LayerSafe, PTL

--------------------------------------------------------------------------------
(* The capture hook *)

(* The fields of the hook and of its metrics. *)
HookFields == {"phase", "raw", "meta", "raw_overflow", "meta_overflow", "next_turn_index", "close_signal",
               "ack_window_open", "acked", "close_done"}
MetricFields == {"turns", "calls", "breakdown", "finalized"}

(* The close attempt the hook accepted. *)
Active(c) == closing[c].at \in {"waiting", "done"}

(* Event n is in a buffer. *)
Holds(buffer, n) == \E i \in DOMAIN buffer : buffer[i] = n

(* A surface that has not overflowed has lost nothing: what it accepted was   *)
(* drained or is still in its buffer.                                         *)
SurfaceFits(buffer, overflow, drained, next) ==
  /\ buffer \in Seq(Nat)
  /\ ~overflow => \A n \in Nat : n < next => n \in drained \/ Holds(buffer, n)

(* Both surfaces of every accepted event were taken by the forwarder. *)
AllDrained == \A n \in Nat : n < hook.next_turn_index => n \in taken.raw /\ n \in taken.meta

(* The hook counts what it accepted, on both surfaces. *)
HookFits ==
  /\ hook = [i \in HookFields |-> hook[i]] /\ metrics = [i \in MetricFields |-> metrics[i]]
  /\ taken = [i \in {"raw", "meta"} |-> taken[i]]
  /\ hook.next_turn_index \in Nat /\ metrics.turns \in Nat /\ metrics.calls \in Nat
  /\ metrics.turns + metrics.calls = hook.next_turn_index
  /\ SurfaceFits(hook.raw, hook.raw_overflow, taken.raw, hook.next_turn_index)
  /\ SurfaceFits(hook.meta, hook.meta_overflow, taken.meta, hook.next_turn_index)

(* A close attempt whose outcome is r.outcome. *)
CloserFits(c, r) ==
  /\ r = [i \in {"at", "outcome"} |-> r[i]]
  /\ r.outcome = [i \in {"incomplete", "metrics"} |-> r.outcome[i]]
  /\ r.at = "new" => r.outcome.incomplete
  /\ r.at = "waiting" => c \in NormalClosers
  /\ r.at \in {"waiting", "done"} =>
       /\ hook.close_signal /\ hook.phase = "Closed"
       /\ r.outcome.metrics.turns + r.outcome.metrics.calls = hook.next_turn_index
  /\ r.at = "done" /\ ~r.outcome.incomplete => AllDrained /\ c \in NormalClosers

(* The inductive invariant of the capture hook. *)
CaptureInv ==
  /\ HookFits
  /\ closing = [c \in Closers |-> closing[c]]
  /\ \A c \in Closers : CloserFits(c, closing[c])
  /\ \A c, d \in Closers : Active(c) /\ Active(d) => c = d

(* A new hook satisfies it. *)
LEMMA CaptureStarts == CaptureInit => CaptureInv
<1> SUFFICES ASSUME CaptureInit PROVE CaptureInv
  OBVIOUS
<1>1. /\ hook = [i \in HookFields |-> hook[i]] /\ metrics = [i \in MetricFields |-> metrics[i]]
      /\ taken = [i \in {"raw", "meta"} |-> taken[i]]
      /\ hook.next_turn_index = 0 /\ metrics.turns = 0 /\ metrics.calls = 0 /\ hook.raw = <<>>
      /\ hook.meta = <<>>
  BY DEF CaptureInit, HookFields, MetricFields
<1>2. SurfaceFits(<<>>, hook.raw_overflow, taken.raw, 0) /\ SurfaceFits(<<>>, hook.meta_overflow, taken.meta, 0)
  BY DEF SurfaceFits
<1>3. HookFits
  BY <1>1, <1>2 DEF HookFits
<1>4. /\ closing = [c \in Closers |-> closing[c]]
      /\ \A c \in Closers : closing[c] = [at |-> "new", outcome |-> NoOutcome]
  BY DEF CaptureInit
<1>5. \A c \in Closers : CloserFits(c, closing[c])
  BY <1>4 DEF CloserFits, NoOutcome
<1> QED  BY <1>3, <1>4, <1>5 DEF CaptureInv, Active

(* It implies the property. *)
LEMMA CaptureSafe == CaptureInv => CaptureIsHonest
<1> SUFFICES ASSUME CaptureInv PROVE CaptureIsHonest
  OBVIOUS
<1>1. CompleteIsComplete
  <2> SUFFICES ASSUME NEW c \in Closers, closing[c].at = "done", ~closing[c].outcome.incomplete
               PROVE  Accepted \subseteq taken.raw \cap taken.meta /\ c \in NormalClosers
    BY DEF CompleteIsComplete, HookFinished
  <2>1. AllDrained /\ c \in NormalClosers /\ hook.next_turn_index \in Nat
    BY DEF CaptureInv, HookFits, CloserFits
  <2> QED  BY <2>1 DEF Accepted, AllDrained
<1>2. Cardinality({c \in Closers : Active(c)}) <= 1
  <2>1. CASE {c \in Closers : Active(c)} = {}
    BY <2>1, FS_EmptySet
  <2>2. CASE {c \in Closers : Active(c)} # {}
    <3>1. PICK c \in Closers : Active(c)
      BY <2>2
    <3>2. {d \in Closers : Active(d)} = {c}
      BY <3>1 DEF CaptureInv
    <3> QED  BY <3>2, FS_Singleton
  <2> QED  BY <2>1, <2>2
<1>3. OneOutcome
  BY <1>2 DEF CaptureInv, CloserFits, OneOutcome, Active
<1> QED  BY <1>1, <1>3 DEF CaptureIsHonest

(* An event at the end of a buffer. *)
LEMMA AppendKeeps ==
  ASSUME NEW s \in Seq(Nat), NEW n \in Nat
  PROVE  /\ Append(s, n) \in Seq(Nat) /\ Holds(Append(s, n), n)
         /\ \A m : Holds(s, m) => Holds(Append(s, n), m)
<1>1. /\ Append(s, n) \in Seq(Nat) /\ DOMAIN Append(s, n) = 1..Len(s) + 1 /\ DOMAIN s = 1..Len(s)
      /\ Len(s) \in Nat
      /\ Append(s, n)[Len(s) + 1] = n /\ \A i \in 1..Len(s) : Append(s, n)[i] = s[i]
  OBVIOUS
<1>2. Holds(Append(s, n), n)
  BY <1>1 DEF Holds
<1>3. ASSUME NEW m, NEW i \in DOMAIN s, s[i] = m PROVE Holds(Append(s, n), m)
  <2>1. i \in DOMAIN Append(s, n) /\ Append(s, n)[i] = m
    BY <1>1, <1>3
  <2> QED  BY <2>1 DEF Holds
<1> QED  BY <1>1, <1>2, <1>3 DEF Holds

(* The oldest event of a buffer that overflows is dropped. *)
LEMMA TailKeeps ==
  ASSUME NEW s \in Seq(Nat), s # <<>>
  PROVE  Tail(s) \in Seq(Nat) /\ \A m : Holds(s, m) => m = Head(s) \/ Holds(Tail(s), m)
<1>1. /\ Tail(s) \in Seq(Nat) /\ Len(Tail(s)) = Len(s) - 1 /\ Len(s) \in Nat \ {0}
      /\ \A i \in 1..Len(s) - 1 : Tail(s)[i] = s[i + 1]
  OBVIOUS
<1>2. ASSUME NEW m, NEW i \in DOMAIN s, s[i] = m, m # Head(s) PROVE Holds(Tail(s), m)
  <2>1. i \in 1..Len(s) /\ i # 1
    BY <1>2
  <2>2. i - 1 \in 1..Len(s) - 1 /\ i - 1 + 1 = i
    BY <1>1, <2>1
  <2>3. Tail(s)[i - 1] = m /\ i - 1 \in DOMAIN Tail(s)
    BY <1>1, <1>2, <2>2
  <2> QED  BY <2>3 DEF Holds
<1> QED  BY <1>1, <1>2 DEF Holds

(* A bounded push keeps what was there, or says that it overflowed. *)
LEMMA BufferKeeps ==
  ASSUME NEW s, NEW flag, NEW drained, NEW n \in Nat, SurfaceFits(s, flag, drained, n), NEW t, t = Buffered(s,
         flag, n)
  PROVE  SurfaceFits(t[1], t[2], drained, n + 1)
<1>1. s \in Seq(Nat)
  BY DEF SurfaceFits
<1>2. CASE t = <<Append(s, n), flag>>
  <2>1. t[1] = Append(s, n) /\ t[2] = flag
    BY <1>2
  <2>2. ASSUME ~flag, NEW m \in Nat, m < n + 1 PROVE m \in drained \/ Holds(Append(s, n), m)
    <3>1. CASE m < n  BY <1>1, <2>2, <3>1, AppendKeeps DEF SurfaceFits
    <3>2. CASE m = n  BY <1>1, <3>2, AppendKeeps
    <3> QED  BY <2>2, <3>1, <3>2
  <2> QED  BY <1>1, <2>1, <2>2, AppendKeeps DEF SurfaceFits
<1>3. CASE t = <<s, TRUE>>
  BY <1>1, <1>3 DEF SurfaceFits
<1> QED  BY <1>2, <1>3 DEF Buffered

(* A drain takes all there is. *)
LEMMA DrainKeeps ==
  ASSUME NEW s, NEW flag, NEW drained, NEW n, SurfaceFits(s, flag, drained, n), s # <<>>
  PROVE  SurfaceFits(Tail(s), flag, drained \cup {Head(s)}, n)
BY TailKeeps DEF SurfaceFits

(* The hook moves on for an attempt that stays where it is. *)
LEMMA CloserStays ==
  ASSUME NEW c, NEW r, CloserFits(c, r),
         r.at \in {"waiting", "done"}
           => hook'.close_signal /\ hook'.phase = "Closed" /\ hook'.next_turn_index = hook.next_turn_index,
         taken.raw \subseteq taken'.raw, taken.meta \subseteq taken'.meta
  PROVE  CloserFits(c, r)'
BY DEF CloserFits, AllDrained

(* The attempts stay where they are. *)
LEMMA ClosersStay ==
  ASSUME CaptureInv, HookFits', UNCHANGED closing,
         \A c \in Closers : Active(c) =>
           hook'.close_signal /\ hook'.phase = "Closed" /\ hook'.next_turn_index = hook.next_turn_index,
         taken.raw \subseteq taken'.raw, taken.meta \subseteq taken'.meta
  PROVE  CaptureInv'
<1>1. \A c \in Closers : CloserFits(c, closing[c]) /\ CloserFits(c, closing[c])'
  BY CloserStays DEF CaptureInv, Active
<1> QED  BY <1>1 DEF CaptureInv, Active

(* One attempt moves. *)
LEMMA CloserMoves ==
  ASSUME CaptureInv, HookFits', NEW c \in Closers, NEW r, closing' = [closing EXCEPT ![c] = r], CloserFits(c,
         r)', UNCHANGED taken,
         \A d \in Closers : Active(d) =>
           hook'.close_signal /\ hook'.phase = "Closed" /\ hook'.next_turn_index = hook.next_turn_index,
         r.at \in {"waiting", "done"} => \A d \in Closers \ {c} : ~Active(d)
  PROVE  CaptureInv'
<1>1. /\ closing' = [d \in Closers |-> closing'[d]] /\ closing'[c] = r
      /\ \A d \in Closers \ {c} : closing'[d] = closing[d]
  BY DEF CaptureInv
<1>2. ASSUME NEW d \in Closers PROVE CloserFits(d, closing[d])'
  <2>1. CASE d = c
    BY <1>1, <2>1 DEF CloserFits
  <2>2. CASE d # c
    <3>1. CloserFits(d, closing[d])
      BY DEF CaptureInv
    <3>2. PICK q : q = closing[d] /\ q = closing'[d]
      BY <1>1, <2>2
    <3>3. CloserFits(d, q)'
      BY <3>1, <3>2, CloserStays DEF Active
    <3> QED  BY <3>2, <3>3 DEF CloserFits
  <2> QED  BY <2>1, <2>2
<1>3. \A d, e \in Closers : Active(d)' /\ Active(e)' => d = e
  BY <1>1 DEF CaptureInv, Active
<1> QED  BY <1>1, <1>2, <1>3 DEF CaptureInv

(* Nothing but the phase, the latches or the attempts changes. *)
HookAlike(h) ==
  /\ h = [i \in HookFields |-> h[i]] /\ h.raw = hook.raw /\ h.meta = hook.meta
  /\ h.raw_overflow = hook.raw_overflow /\ h.meta_overflow = hook.meta_overflow
  /\ h.next_turn_index = hook.next_turn_index

(* The updates of the phase and the latches. *)
LEMMA HookUpdates ==
  ASSUME hook = [i \in HookFields |-> hook[i]], NEW h
  PROVE  /\ h = [hook EXCEPT !.phase = "Open"] => HookAlike(h)
         /\ h = [hook EXCEPT !.acked = TRUE]
              => HookAlike(h) /\ h.phase = hook.phase /\ (h.close_signal <=> hook.close_signal)
         /\ h = [hook EXCEPT !.phase = "Closed", !.close_signal = TRUE, !.ack_window_open = TRUE] =>
              HookAlike(h) /\ h.phase = "Closed" /\ h.close_signal
         /\ h = [hook EXCEPT !.phase = "Closed", !.close_signal = TRUE, !.close_done = TRUE] =>
              HookAlike(h) /\ h.phase = "Closed" /\ h.close_signal
         /\ h = [hook EXCEPT !.ack_window_open = FALSE, !.close_done = TRUE] =>
              HookAlike(h) /\ h.phase = hook.phase /\ (h.close_signal <=> hook.close_signal)
<1> PICK q : q = hook
  OBVIOUS
<1>1. q = [i \in HookFields |-> q[i]]
  OBVIOUS
<1> QED  BY <1>1 DEF HookFields, HookAlike

(* Nothing but the phase and the latches changes. *)
LEMMA AlikeFits == ASSUME HookFits, HookAlike(hook'), UNCHANGED <<metrics, taken>> PROVE HookFits'
BY DEF HookFits, HookAlike, HookFields, MetricFields

(* Finalizing the metrics changes no count. *)
LEMMA FinalizeFits == ASSUME HookFits, HookAlike(hook'), Finalize, UNCHANGED taken PROVE HookFits'
<1>1. PICK m : m = [metrics EXCEPT !.finalized = TRUE]
  OBVIOUS
<1>2. metrics' = m
  BY <1>1 DEF Finalize
<1>3. m = [i \in MetricFields |-> m[i]] /\ m.turns = metrics.turns /\ m.calls = metrics.calls
  BY <1>1 DEF HookFits, MetricFields
<1> QED  BY <1>2, <1>3 DEF HookFits, HookAlike, HookFields, MetricFields

(* An event is accepted on both surfaces, or on neither. *)
LEMMA WriteFits == ASSUME HookFits, NEW ev, Write(ev), UNCHANGED taken PROVE HookFits'
<1>0. /\ hook.next_turn_index \in Nat /\ hook = [i \in HookFields |-> hook[i]]
      /\ metrics = [i \in MetricFields |-> metrics[i]]
  BY DEF HookFits
<1>1. PICK q, n : q = hook /\ n = hook.next_turn_index
  OBVIOUS
<1>2. PICK raw, meta : /\ raw = Buffered(hook.raw, hook.raw_overflow, n)
                       /\ meta = Buffered(hook.meta, hook.meta_overflow, n)
  OBVIOUS
<1>3. PICK h : h = [q EXCEPT !.next_turn_index = n + 1, !.raw = raw[1], !.raw_overflow = raw[2],
                             !.meta = meta[1], !.meta_overflow = meta[2]]
  OBVIOUS
<1>4. hook' = h
  BY <1>1, <1>2, <1>3 DEF Write
<1>5. q = [i \in HookFields |-> q[i]]
  BY <1>0, <1>1
<1>6. /\ h = [i \in HookFields |-> h[i]] /\ h.next_turn_index = n + 1 /\ h.raw = raw[1]
      /\ h.raw_overflow = raw[2]
      /\ h.meta = meta[1] /\ h.meta_overflow = meta[2]
  BY <1>3, <1>5 DEF HookFields
<1>7. SurfaceFits(raw[1], raw[2], taken.raw, n + 1) /\ SurfaceFits(meta[1], meta[2], taken.meta, n + 1)
  BY <1>0, <1>1, <1>2, BufferKeeps DEF HookFits
<1>8. PICK p : p = metrics
  OBVIOUS
<1>9. /\ metrics' = [i \in MetricFields |-> metrics'[i]] /\ metrics'.turns \in Nat /\ metrics'.calls \in Nat
      /\ metrics'.turns + metrics'.calls = n + 1
  <2>1. p = [i \in MetricFields |-> p[i]] /\ p.turns \in Nat /\ p.calls \in Nat /\ p.turns + p.calls = n
    BY <1>0, <1>1, <1>8 DEF HookFits
  <2>2. CASE ev = Turn
    <3>1. PICK m : m = [p EXCEPT !.turns = @ + 1]
      OBVIOUS
    <3>2. metrics' = m
      BY <1>8, <2>2, <3>1 DEF Write, Observe
    <3>3. m = [i \in MetricFields |-> m[i]] /\ m.turns = p.turns + 1 /\ m.calls = p.calls
      BY <2>1, <3>1 DEF MetricFields
    <3> QED  BY <2>1, <3>2, <3>3, <1>0, <1>1
  <2>3. CASE ev # Turn
    <3>1. PICK b : b = Bump(ev)
      OBVIOUS
    <3>2. PICK m : m = [p EXCEPT !.calls = @ + 1, !.breakdown = b]
      OBVIOUS
    <3>3. metrics' = m
      BY <1>8, <2>3, <3>1, <3>2 DEF Write, Observe
    <3>4. m = [i \in MetricFields |-> m[i]] /\ m.turns = p.turns /\ m.calls = p.calls + 1
      BY <2>1, <3>2 DEF MetricFields
    <3> QED  BY <2>1, <3>3, <3>4, <1>0, <1>1
  <2> QED  BY <2>2, <2>3
<1>10. hook' = [i \in HookFields |-> hook'[i]]
  BY <1>4, <1>6
<1> QED  BY <1>0, <1>1, <1>4, <1>6, <1>7, <1>9, <1>10 DEF HookFits

(* Every event, drain, acknowledgement, abort, timeout and close keeps the    *)
(* invariant.                                                                 *)
LEMMA CaptureKeeps == CaptureInv /\ [CaptureNext]_captureVars => CaptureInv'
<1> SUFFICES ASSUME CaptureInv, [CaptureNext]_captureVars PROVE CaptureInv'
  OBVIOUS
<1>0. /\ HookFits /\ closing = [c \in Closers |-> closing[c]] /\ \A c \in Closers : CloserFits(c, closing[c])
      /\ hook = [i \in HookFields |-> hook[i]] /\ taken = [i \in {"raw", "meta"} |-> taken[i]]
  BY DEF CaptureInv, HookFits
<1>a. \A c \in Closers : Active(c) => hook.close_signal /\ hook.phase = "Closed"
  BY <1>0 DEF Active, CloserFits
<1>s. ASSUME UNCHANGED <<hook, metrics, closing, taken>> PROVE CaptureInv'
  <2>1. HookAlike(hook')
    BY <1>0, <1>s DEF HookAlike, HookFields
  <2> QED  BY <1>0, <1>a, <1>s, <2>1, AlikeFits, ClosersStay
<1>1. CASE CompleteOpen
  <2>1. PICK h : h = [hook EXCEPT !.phase = "Open"]
    OBVIOUS
  <2>2. hook' = h /\ hook.phase = "NotOpen" /\ UNCHANGED <<metrics, closing, taken>>
    BY <1>1, <2>1 DEF CompleteOpen
  <2>3. HookAlike(h)
    BY <1>0, <2>1, HookUpdates
  <2>4. \A c \in Closers : ~Active(c)
    BY <1>a, <2>2
  <2> QED  BY <1>0, <2>2, <2>3, <2>4, AlikeFits, ClosersStay
<1>2. CASE Ack
  <2>1. PICK h : h = [hook EXCEPT !.acked = TRUE]
    OBVIOUS
  <2>2. hook' = h /\ UNCHANGED <<metrics, closing, taken>>
    BY <1>2, <2>1 DEF Ack
  <2>3. HookAlike(h) /\ h.phase = hook.phase /\ (h.close_signal <=> hook.close_signal)
    BY <1>0, <2>1, HookUpdates
  <2>4. h.next_turn_index = hook.next_turn_index
    BY <2>3 DEF HookAlike
  <2> QED  BY <1>0, <1>a, <2>2, <2>3, <2>4, AlikeFits, ClosersStay
<1>3. CASE NextEvent
  <2>1. PICK h : h = [hook EXCEPT !.raw = Tail(@)]
    OBVIOUS
  <2>2. PICK t : t = [taken EXCEPT !.raw = @ \cup {Head(hook.raw)}]
    OBVIOUS
  <2>3. hook' = h /\ taken' = t /\ hook.raw # <<>> /\ UNCHANGED <<metrics, closing>>
    BY <1>3, <2>1, <2>2 DEF NextEvent
  <2>4. /\ h = [i \in HookFields |-> h[i]] /\ h.raw = Tail(hook.raw) /\ h.meta = hook.meta
        /\ h.phase = hook.phase
        /\ (h.raw_overflow <=> hook.raw_overflow) /\ (h.meta_overflow <=> hook.meta_overflow)
        /\ (h.close_signal <=> hook.close_signal) /\ h.next_turn_index = hook.next_turn_index
    BY <1>0, <2>1 DEF HookFields
  <2>5. t = [i \in {"raw", "meta"} |-> t[i]] /\ t.raw = taken.raw \cup {Head(hook.raw)} /\ t.meta = taken.meta
    BY <1>0, <2>2
  <2>6. SurfaceFits(h.raw, hook.raw_overflow, t.raw, h.next_turn_index)
    BY <1>0, <2>3, <2>4, <2>5, DrainKeeps DEF HookFits
  <2>7. /\ SurfaceFits(h.raw, h.raw_overflow, t.raw, h.next_turn_index)
        /\ SurfaceFits(h.meta, h.meta_overflow, t.meta, h.next_turn_index)
    BY <1>0, <2>4, <2>5, <2>6 DEF HookFits, SurfaceFits
  <2>8. HookFits'
    BY <1>0, <2>3, <2>4, <2>5, <2>7 DEF HookFits, MetricFields
  <2> QED  BY <1>a, <2>3, <2>4, <2>5, <2>8, ClosersStay
<1>4. CASE NextMeta
  <2>1. PICK h : h = [hook EXCEPT !.meta = Tail(@)]
    OBVIOUS
  <2>2. PICK t : t = [taken EXCEPT !.meta = @ \cup {Head(hook.meta)}]
    OBVIOUS
  <2>3. hook' = h /\ taken' = t /\ hook.meta # <<>> /\ UNCHANGED <<metrics, closing>>
    BY <1>4, <2>1, <2>2 DEF NextMeta
  <2>4. /\ h = [i \in HookFields |-> h[i]] /\ h.meta = Tail(hook.meta) /\ h.raw = hook.raw
        /\ h.phase = hook.phase
        /\ (h.raw_overflow <=> hook.raw_overflow) /\ (h.meta_overflow <=> hook.meta_overflow)
        /\ (h.close_signal <=> hook.close_signal) /\ h.next_turn_index = hook.next_turn_index
    BY <1>0, <2>1 DEF HookFields
  <2>5. t = [i \in {"raw", "meta"} |-> t[i]] /\ t.meta = taken.meta \cup {Head(hook.meta)} /\ t.raw = taken.raw
    BY <1>0, <2>2
  <2>6. SurfaceFits(h.meta, hook.meta_overflow, t.meta, h.next_turn_index)
    BY <1>0, <2>3, <2>4, <2>5, DrainKeeps DEF HookFits
  <2>7. /\ SurfaceFits(h.raw, h.raw_overflow, t.raw, h.next_turn_index)
        /\ SurfaceFits(h.meta, h.meta_overflow, t.meta, h.next_turn_index)
    BY <1>0, <2>4, <2>5, <2>6 DEF HookFits, SurfaceFits
  <2>8. HookFits'
    BY <1>0, <2>3, <2>4, <2>5, <2>7 DEF HookFits, MetricFields
  <2> QED  BY <1>a, <2>3, <2>4, <2>5, <2>8, ClosersStay
<1>5. ASSUME NEW f \in Forwarders, IngestWrites(f) PROVE CaptureInv'
  <2>1. hook.phase = "Open" /\ UNCHANGED <<closing, taken>> /\ Write(Head(ingest[f].left))
    BY <1>5 DEF IngestWrites
  <2>2. HookFits'
    BY <1>0, <2>1, WriteFits
  <2>3. \A c \in Closers : ~Active(c)
    BY <1>a, <2>1
  <2> QED  BY <2>1, <2>2, <2>3, ClosersStay
<1>6. ASSUME NEW f \in Forwarders, IngestBegins(f) \/ IngestStops(f) \/ Snapshots(f) \/ Checkpoints(f)
      PROVE CaptureInv'
  BY <1>6, <1>s DEF IngestBegins, IngestStops, Snapshots, Checkpoints
<1>7. ASSUME NEW c \in Closers, CloseRefused(c) PROVE CaptureInv'
  <2>1. PICK r : r = [closing[c] EXCEPT !.at = "refused"]
    OBVIOUS
  <2>2. closing' = [closing EXCEPT ![c] = r] /\ UNCHANGED <<hook, metrics, taken>>
    BY <1>7, <2>1 DEF CloseRefused
  <2>3. r = [i \in {"at", "outcome"} |-> r[i]] /\ r.at = "refused" /\ r.outcome = closing[c].outcome
    BY <1>0, <2>1 DEF CloserFits
  <2>4. HookAlike(hook')
    BY <1>0, <2>2 DEF HookAlike, HookFields
  <2>5. CloserFits(c, r)'
    BY <1>0, <2>3 DEF CloserFits
  <2> QED  BY <1>0, <1>a, <2>2, <2>3, <2>4, <2>5, AlikeFits, CloserMoves
<1>8. ASSUME NEW c \in Closers, CloseSignals(c) \/ CloseAbnormal(c) PROVE CaptureInv'
  <2>1. /\ closing[c].at = "new" /\ ~AlreadyClosing /\ Finalize /\ UNCHANGED taken
        /\ \/ hook' = [hook EXCEPT !.phase = "Closed", !.close_signal = TRUE, !.ack_window_open = TRUE]
           \/ hook' = [hook EXCEPT !.phase = "Closed", !.close_signal = TRUE, !.close_done = TRUE]
    BY <1>8 DEF CloseSignals, CloseAbnormal
  <2>2. PICK at : /\ at \in {"waiting", "done"} /\ (at = "waiting" => c \in NormalClosers)
                  /\ closing' = [closing EXCEPT ![c].at = at, ![c].outcome.metrics = Final]
    BY <1>8 DEF CloseSignals, CloseAbnormal
  <2>3. PICK m, o, q : m = Final /\ q = closing[c] /\ o = [q.outcome EXCEPT !.metrics = m]
    OBVIOUS
  <2>4. PICK r : r = [q EXCEPT !.at = at, !.outcome = o]
    OBVIOUS
  <2>5. closing' = [closing EXCEPT ![c] = r]
    BY <2>2, <2>3, <2>4
  <2>6. /\ q = [i \in {"at", "outcome"} |-> q[i]]
        /\ q.outcome = [i \in {"incomplete", "metrics"} |-> q.outcome[i]]
        /\ q.outcome.incomplete
    BY <1>0, <2>1, <2>3 DEF CloserFits
  <2>7. o = [i \in {"incomplete", "metrics"} |-> o[i]] /\ o.incomplete /\ o.metrics = m
    BY <2>3, <2>6
  <2>8. r = [i \in {"at", "outcome"} |-> r[i]] /\ r.at = at /\ r.outcome = o
    BY <2>4, <2>6
  <2>9. HookAlike(hook') /\ hook'.phase = "Closed" /\ hook'.close_signal
    BY <1>0, <2>1, HookUpdates
  <2>10. m.turns + m.calls = hook.next_turn_index /\ hook'.next_turn_index = hook.next_turn_index
    BY <1>0, <2>3, <2>9 DEF Final, HookFits, HookAlike
  <2>11. CloserFits(c, r)'
    BY <2>2, <2>7, <2>8, <2>9, <2>10 DEF CloserFits
  <2>12. \A d \in Closers : ~Active(d)
    BY <1>a, <2>1 DEF AlreadyClosing
  <2> QED  BY <1>0, <2>1, <2>5, <2>9, <2>11, <2>12, FinalizeFits, CloserMoves
<1>9. ASSUME NEW c \in Closers, CloseEnds(c) PROVE CaptureInv'
  <2>1. PICK b : b = (Lossy \/ ~hook.acked)
    OBVIOUS
  <2>2. /\ closing[c].at = "waiting" /\ UNCHANGED <<metrics, taken>>
        /\ hook' = [hook EXCEPT !.ack_window_open = FALSE, !.close_done = TRUE]
    BY <1>9 DEF CloseEnds
  <2>3. closing' = [closing EXCEPT ![c].at = "done", ![c].outcome.incomplete = b]
    BY <1>9, <2>1, Zenon DEF CloseEnds
  <2>4. ~b => ~Lossy
    BY <2>1
  <2>5. PICK o, q : q = closing[c] /\ o = [q.outcome EXCEPT !.incomplete = b]
    OBVIOUS
  <2>6. PICK r : r = [q EXCEPT !.at = "done", !.outcome = o]
    OBVIOUS
  <2>7. closing' = [closing EXCEPT ![c] = r]
    BY <2>3, <2>5, <2>6
  <2>8. /\ q = [i \in {"at", "outcome"} |-> q[i]]
        /\ q.outcome = [i \in {"incomplete", "metrics"} |-> q.outcome[i]]
        /\ q.outcome.metrics.turns + q.outcome.metrics.calls = hook.next_turn_index /\ c \in NormalClosers
    BY <1>0, <2>2, <2>5 DEF CloserFits
  <2>9. o = [i \in {"incomplete", "metrics"} |-> o[i]] /\ o.incomplete = b /\ o.metrics = q.outcome.metrics
    BY <2>5, <2>8
  <2>10. r = [i \in {"at", "outcome"} |-> r[i]] /\ r.at = "done" /\ r.outcome = o
    BY <2>6, <2>8
  <2>11. HookAlike(hook') /\ hook'.phase = hook.phase /\ (hook'.close_signal <=> hook.close_signal)
    BY <1>0, <2>2, HookUpdates
  <2>12. hook'.next_turn_index = hook.next_turn_index
    BY <2>11 DEF HookAlike
  <2>13. Active(c)
    BY <2>2 DEF Active
  <2>14. ~b => AllDrained
    <3> SUFFICES ASSUME ~Lossy PROVE AllDrained
      BY <2>4
    <3>1. hook.raw = <<>> /\ hook.meta = <<>> /\ ~hook.raw_overflow /\ ~hook.meta_overflow
      BY DEF Lossy
    <3>2. \A n : ~Holds(<<>>, n)
      BY DEF Holds
    <3> QED  BY <1>0, <3>1, <3>2 DEF HookFits, SurfaceFits, AllDrained
  <2>15. ~b => AllDrained'
    BY <2>2, <2>12, <2>14 DEF AllDrained
  <2>16. CloserFits(c, r)'
    BY <1>a, <2>8, <2>9, <2>10, <2>11, <2>12, <2>13, <2>15 DEF CloserFits
  <2>17. \A d \in Closers \ {c} : ~Active(d)
    BY <2>13 DEF CaptureInv
  <2> QED  BY <1>0, <1>a, <2>2, <2>7, <2>11, <2>12, <2>16, <2>17, AlikeFits, CloserMoves
<1>10. CASE Unregister
  BY <1>10, <1>s DEF Unregister
<1>11. CASE UNCHANGED captureVars
  BY <1>11, <1>s DEF captureVars
<1> QED  BY <1>1, <1>2, <1>3, <1>4, <1>5, <1>6, <1>7, <1>8, <1>9, <1>10, <1>11 DEF CaptureNext

(* The invariant of the capture hook, for any forwarders, closers and         *)
(* capacity of the buffers.                                                   *)
THEOREM CaptureInvariance == CaptureSpec => []CaptureInv
BY CaptureStarts, CaptureKeeps, PTL DEF CaptureSpec

(* At most one close of a hook has an outcome, with the metrics of every      *)
(* accepted event, and one that is called complete is: every event the hook   *)
(* accepted was drained from both surfaces before, although close races the   *)
(* forwarders, an abort and the ack window.                                   *)
THEOREM CaptureAlwaysHonest == CaptureSpec => []CaptureIsHonest
BY CaptureInvariance, CaptureSafe, PTL

--------------------------------------------------------------------------------
(* The workspace registry *)

(* Where a thread of each operation can be. *)
SpawnSteps == {"reap", "claim", "probe", "discard", "waiting", "publish"}
CallerSteps == SpawnSteps \cup {"idle", "run", "teardown", "restore", "attach", "evict", "done", "failed", "refused"}

(* The fields of a thread. *)
CallerFields == {"op", "at", "lease", "fence", "box", "reaped"}

(* A thread, as far as the slots are concerned. *)
CallerFits(r) ==
  /\ r = [i \in CallerFields |-> r[i]]
  /\ r.at \in CallerSteps
  /\ r.at # "idle" => r.lease \in WsLeases
  /\ r.at \in SpawnSteps => r.op = "spawn"
  /\ r.at = "run" => r.op \in {"spawn", "resume"}
  /\ r.at = "teardown" => r.op \in {"spawn", "evict"}
  /\ r.at = "evict" => r.op = "evict"

(* A thread that is still to publish the slot of lease l. *)
Publishes(d, l) == wsCaller[d].at \in {"run", "publish"} /\ wsCaller[d].op = "spawn" /\ wsCaller[d].lease = l

(* A pending slot has a thread that publishes it, and nobody waits for another. *)
WsInv ==
  /\ wsSlots = [l \in WsLeases |-> wsSlots[l]]
  /\ wsCaller = [c \in WsCallers |-> wsCaller[c]]
  /\ \A c \in WsCallers : CallerFits(wsCaller[c])
  /\ \A l \in WsLeases : wsSlots[l].kind = "pending" => \E d \in WsCallers : Publishes(d, l)
  /\ \A c \in WsCallers : wsCaller[c].at = "waiting" => wsSlots[wsCaller[c].lease].kind = "pending"

(* With every slot empty and every thread idle the invariant holds. *)
LEMMA WsStarts == WsInit => WsInv
BY DEF WsInit, WsInv, CallerFits, CallerFields, SpawnSteps, CallerSteps, WsEntry

(* It implies the property. *)
LEMMA WsSafe == WsInv => WaitersHaveASpawner
BY DEF WsInv, WaitersHaveASpawner, Publishes, CallerFits, LeaseOf

(* One thread takes a step, and the slots do not change. *)
LEMMA CallerStepKeeps ==
  ASSUME WsInv, NEW c \in WsCallers, NEW r, CallerFits(r), wsCaller' = [wsCaller EXCEPT ![c] = r],
         UNCHANGED wsSlots,
         wsCaller[c].at \in {"run", "publish"} /\ wsCaller[c].op = "spawn"
           => r.at \in {"run", "publish"} /\ r.op = "spawn" /\ r.lease = wsCaller[c].lease,
         r.at = "waiting" => wsSlots[r.lease].kind = "pending"
  PROVE  WsInv'
<1>1. wsCaller' = [d \in WsCallers |-> wsCaller'[d]] /\ wsCaller'[c] = r
  BY DEF WsInv
<1>2. \A d \in WsCallers \ {c} : wsCaller'[d] = wsCaller[d]
  BY DEF WsInv
<1>3. \A d \in WsCallers : CallerFits(wsCaller'[d])
  BY <1>1, <1>2 DEF WsInv
<1>4. \A l \in WsLeases : \A d \in WsCallers : Publishes(d, l) => Publishes(d, l)'
  BY <1>1, <1>2 DEF Publishes
<1> QED  BY <1>1, <1>2, <1>3, <1>4 DEF WsInv

(* Record updates of a thread. *)
Looks(s, op, at, l) == s = [i \in CallerFields |-> s[i]] /\ s.op = op /\ s.at = at /\ s.lease = l

(* What the updates of a thread leave of it. *)
LEMMA CallerUpdates ==
  ASSUME NEW r, CallerFits(r), NEW at, NEW x, NEW op, NEW l, NEW f, NEW s
  PROVE  /\ s = [r EXCEPT !.at = at] => Looks(s, r.op, at, r.lease)
         /\ s = [r EXCEPT !.at = at, !.reaped = x] => Looks(s, r.op, at, r.lease)
         /\ s = [r EXCEPT !.reaped = x, !.at = at] => Looks(s, r.op, at, r.lease)
         /\ s = [r EXCEPT !.at = at, !.box = x] => Looks(s, r.op, at, r.lease)
         /\ s = [r EXCEPT !.box = x, !.at = at] => Looks(s, r.op, at, r.lease)
         /\ s = [r EXCEPT !.op = op, !.lease = l, !.fence = f, !.at = at] => Looks(s, op, at, l)
<1> PICK q : q = r
  OBVIOUS
<1>1. q = [i \in CallerFields |-> q[i]]
  BY DEF CallerFits
<1> QED  BY <1>1 DEF Looks, CallerFields

(* Every step of spawn_or_join, resume, attach, restore and evict, a crash of *)
(* a container and the clock keep the invariant.                              *)
LEMMA WsKeeps == WsInv /\ [WsNext]_wsVars => WsInv'
<1> SUFFICES ASSUME WsInv, [WsNext]_wsVars PROVE WsInv'
  OBVIOUS
<1>0. /\ wsSlots = [l \in WsLeases |-> wsSlots[l]] /\ wsCaller = [c \in WsCallers |-> wsCaller[c]]
      /\ \A c \in WsCallers : CallerFits(wsCaller[c])
  BY DEF WsInv
<1>1. ASSUME NEW c \in WsCallers, NEW op \in WsOps, NEW l \in WsLeases, NEW fence \in WsFences,
             WsStart(c, op, l, fence)
      PROVE  WsInv'
  <2>1. PICK at : at = FirstStep(op, fence)
    OBVIOUS
  <2>2. PICK f : f = IF op = "evict" THEN wsCaller[c].fence ELSE fence
    OBVIOUS
  <2>3. PICK r : r = [wsCaller[c] EXCEPT !.op = op, !.lease = l, !.fence = f, !.at = at]
    OBVIOUS
  <2>4. wsCaller' = [wsCaller EXCEPT ![c] = r] /\ wsCaller[c].at = "idle" /\ UNCHANGED wsSlots
    BY <1>1, <2>1, <2>2, <2>3 DEF WsStart
  <2>5. Looks(r, op, at, l)
    BY <1>0, <2>3, CallerUpdates
  <2>6. CallerFits(r) /\ r.at # "waiting"
    BY <2>1, <2>5 DEF FirstStep, Looks, CallerFits, WsOps, SpawnSteps, CallerSteps
  <2> QED  BY <2>4, <2>6, CallerStepKeeps
<1>2. ASSUME NEW c \in WsCallers, NEW at, WsGoto(c, at), UNCHANGED wsSlots,
             wsCaller[c].at \notin {"idle", "run", "publish"},
             at \in {"probe", "discard", "done", "failed", "waiting"},
             at \in SpawnSteps => wsCaller[c].op = "spawn",
             at = "waiting" => wsSlots[wsCaller[c].lease].kind = "pending"
      PROVE  WsInv'
  <2>1. PICK r : r = [wsCaller[c] EXCEPT !.at = at]
    OBVIOUS
  <2>2. wsCaller' = [wsCaller EXCEPT ![c] = r]
    BY <1>2, <2>1 DEF WsGoto
  <2>3. /\ Looks(r, wsCaller[c].op, at, wsCaller[c].lease)
    BY <1>0, <2>1, CallerUpdates
  <2>4. wsCaller[c].at \in CallerSteps /\ wsCaller[c].lease \in WsLeases
    BY <1>0, <1>2 DEF CallerFits
  <2>5. CallerFits(r)
    BY <1>2, <2>3, <2>4 DEF Looks, CallerFits, SpawnSteps, CallerSteps
  <2> QED  BY <1>2, <2>2, <2>3, <2>5, CallerStepKeeps DEF Looks
<1>3. ASSUME NEW c \in WsCallers, ReapLocked(c) PROVE WsInv'
  <2>1. wsCaller[c].at = "reap"
    BY <1>3 DEF ReapLocked
  <2>2. PICK reaped, at :
          /\ at \in {"claim", "teardown"}
          /\ wsCaller' = [wsCaller EXCEPT ![c].at = at, ![c].reaped = reaped]
    BY <1>3 DEF ReapLocked
  <2>3. /\ wsSlots' = [l \in WsLeases |-> wsSlots'[l]]
        /\ \A l \in WsLeases : wsSlots[l].kind = "pending" => wsSlots'[l] = wsSlots[l]
        /\ \A l \in WsLeases : wsSlots'[l].kind = "pending" => wsSlots[l].kind = "pending"
    BY <1>3 DEF ReapLocked, WsEntry, Expired
  <2>4. PICK r : r = [wsCaller[c] EXCEPT !.at = at, !.reaped = reaped]
    OBVIOUS
  <2>5. wsCaller' = [wsCaller EXCEPT ![c] = r]
    BY <2>2, <2>4
  <2>6. Looks(r, wsCaller[c].op, at, wsCaller[c].lease)
    BY <1>0, <2>4, CallerUpdates
  <2>7. CallerFits(r)
    BY <1>0, <2>1, <2>2, <2>6 DEF Looks, CallerFits, SpawnSteps, CallerSteps
  <2>8. /\ wsCaller' = [d \in WsCallers |-> wsCaller'[d]] /\ wsCaller'[c] = r
        /\ \A d \in WsCallers \ {c} : wsCaller'[d] = wsCaller[d]
    BY <1>0, <2>5
  <2>9. \A l \in WsLeases : \A d \in WsCallers : Publishes(d, l) => Publishes(d, l)'
    BY <2>1, <2>8 DEF Publishes
  <2>10. \A d \in WsCallers : CallerFits(wsCaller'[d])
    BY <1>0, <2>7, <2>8
  <2>11. \A d \in WsCallers : wsCaller'[d].at = "waiting"
           => d # c /\ wsCaller[d].at = "waiting" /\ wsCaller[d].lease \in WsLeases
    BY <1>0, <2>2, <2>6, <2>8 DEF CallerFits
  <2> QED  BY <2>3, <2>8, <2>9, <2>10, <2>11 DEF WsInv
<1>4. ASSUME NEW c \in WsCallers, TeardownHook(c) PROVE WsInv'
  <2>1. PICK reaped, at :
          /\ at \in {"teardown", "done", "claim"} /\ (at = "claim" => wsCaller[c].op # "evict")
          /\ wsCaller[c].at = "teardown" /\ UNCHANGED wsSlots
          /\ wsCaller' = [wsCaller EXCEPT ![c].reaped = reaped, ![c].at = at]
    BY <1>4 DEF TeardownHook
  <2>2. PICK r : r = [wsCaller[c] EXCEPT !.reaped = reaped, !.at = at]
    OBVIOUS
  <2>3. wsCaller' = [wsCaller EXCEPT ![c] = r]
    BY <2>1, <2>2
  <2>4. Looks(r, wsCaller[c].op, at, wsCaller[c].lease)
    BY <1>0, <2>2, CallerUpdates
  <2>5. CallerFits(r) /\ r.at # "waiting"
    BY <1>0, <2>1, <2>4 DEF Looks, CallerFits, SpawnSteps, CallerSteps
  <2> QED  BY <2>1, <2>3, <2>5, CallerStepKeeps
<1>5. ASSUME NEW c \in WsCallers, ClaimReady(c) PROVE WsInv'
  <2>1. PICK box, at :
          /\ at \in {"probe", "refused"} /\ wsCaller[c].at = "claim" /\ UNCHANGED wsSlots
          /\ wsCaller' = [wsCaller EXCEPT ![c].box = box, ![c].at = at]
    BY <1>5 DEF ClaimReady
  <2>2. PICK r : r = [wsCaller[c] EXCEPT !.box = box, !.at = at]
    OBVIOUS
  <2>3. wsCaller' = [wsCaller EXCEPT ![c] = r]
    BY <2>1, <2>2
  <2>4. Looks(r, wsCaller[c].op, at, wsCaller[c].lease)
    BY <1>0, <2>2, CallerUpdates
  <2>5. CallerFits(r) /\ r.at # "waiting"
    BY <1>0, <2>1, <2>4 DEF Looks, CallerFits, SpawnSteps, CallerSteps
  <2> QED  BY <2>1, <2>3, <2>5, CallerStepKeeps
<1>6. ASSUME NEW c \in WsCallers, WaitForPending(c) PROVE WsInv'
  <2>1. /\ wsCaller[c].at = "claim" /\ WsGoto(c, "waiting") /\ UNCHANGED wsSlots
        /\ wsSlots[wsCaller[c].lease].kind = "pending"
    BY <1>6 DEF WaitForPending, LeaseOf
  <2>2. wsCaller[c].op = "spawn"
    BY <1>0, <2>1 DEF CallerFits, SpawnSteps
  <2> QED  BY <1>2, <2>1, <2>2
<1>7. ASSUME NEW c \in WsCallers, wsCaller[c].at \in {"claim", "discard"}, TakeSlot(c) PROVE WsInv'
  <2>1. PICK l : l = wsCaller[c].lease
    OBVIOUS
  <2>2. l \in WsLeases /\ wsCaller[c].op = "spawn"
    BY <1>0, <1>7, <2>1 DEF CallerFits, SpawnSteps
  <2>3. PICK r : r = [wsCaller[c] EXCEPT !.at = "run"]
    OBVIOUS
  <2>4. wsSlots' = [wsSlots EXCEPT ![l] = WsEntry("pending")] /\ wsCaller' = [wsCaller EXCEPT ![c] = r]
    BY <1>7, <2>1, <2>3 DEF TakeSlot, WsGoto, LeaseOf
  <2>5. Looks(r, wsCaller[c].op, "run", l)
    BY <1>0, <2>1, <2>3, CallerUpdates
  <2>6. CallerFits(r)
    BY <2>2, <2>5 DEF Looks, CallerFits, SpawnSteps, CallerSteps
  <2>7. /\ wsCaller' = [d \in WsCallers |-> wsCaller'[d]] /\ wsCaller'[c] = r
        /\ \A d \in WsCallers \ {c} : wsCaller'[d] = wsCaller[d]
    BY <1>0, <2>4
  <2>8. /\ wsSlots' = [k \in WsLeases |-> wsSlots'[k]] /\ wsSlots'[l].kind = "pending"
        /\ \A k \in WsLeases \ {l} : wsSlots'[k] = wsSlots[k]
    BY <1>0, <2>2, <2>4 DEF WsEntry
  <2>9. Publishes(c, l)'
    BY <2>2, <2>5, <2>7 DEF Looks, Publishes
  <2>10. \A k \in WsLeases : \A d \in WsCallers : Publishes(d, k) => Publishes(d, k)'
    BY <1>7, <2>7 DEF Publishes
  <2>11. \A d \in WsCallers : CallerFits(wsCaller'[d])
    BY <1>0, <2>6, <2>7
  <2>12. \A d \in WsCallers : wsCaller'[d].at = "waiting"
           => d # c /\ wsCaller[d].at = "waiting" /\ wsCaller[d].lease \in WsLeases
    BY <1>0, <2>5, <2>7 DEF Looks, CallerFits
  <2> QED  BY <2>7, <2>8, <2>9, <2>10, <2>11, <2>12 DEF WsInv
<1>8. ASSUME NEW c \in WsCallers, ClaimFree(c) PROVE WsInv'
  BY <1>7, <1>8 DEF ClaimFree
<1>9. ASSUME NEW c \in WsCallers, ProbeCached(c) PROVE WsInv'
  <2>1. wsCaller[c].at = "probe" /\ UNCHANGED wsSlots /\ \E at \in {"done", "discard", "failed"} : WsGoto(c, at)
    BY <1>9 DEF ProbeCached
  <2>2. wsCaller[c].op = "spawn"
    BY <1>0, <2>1 DEF CallerFits, SpawnSteps
  <2> QED  BY <1>2, <2>1, <2>2
<1>10. ASSUME NEW c \in WsCallers, DiscardDead(c) PROVE WsInv'
  <2>1. wsCaller[c].at = "discard"
    BY <1>10 DEF DiscardDead
  <2>2. wsCaller[c].op = "spawn"
    BY <1>0, <2>1 DEF CallerFits, SpawnSteps
  <2>3. \/ WsGoto(c, "waiting") /\ UNCHANGED wsSlots /\ wsSlots[wsCaller[c].lease].kind = "pending"
        \/ TakeSlot(c)
    BY <1>10 DEF DiscardDead, LeaseOf
  <2> QED  BY <1>2, <1>7, <2>1, <2>2, <2>3
<1>11. ASSUME NEW c \in WsCallers, DockerRun(c) PROVE WsInv'
  <2>1. PICK box, at :
          /\ at = (IF wsCaller[c].op = "resume" THEN "restore" ELSE "publish") /\ wsCaller[c].at = "run"
          /\ UNCHANGED wsSlots
          /\ wsCaller' = [wsCaller EXCEPT ![c].at = at, ![c].box = box]
    BY <1>11 DEF DockerRun
  <2>2. PICK r : r = [wsCaller[c] EXCEPT !.at = at, !.box = box]
    OBVIOUS
  <2>3. wsCaller' = [wsCaller EXCEPT ![c] = r]
    BY <2>1, <2>2
  <2>4. Looks(r, wsCaller[c].op, at, wsCaller[c].lease)
    BY <1>0, <2>2, CallerUpdates
  <2>5. /\ CallerFits(r) /\ r.at # "waiting"
        /\ (wsCaller[c].op = "spawn" => r.at = "publish" /\ r.op = "spawn" /\ r.lease = wsCaller[c].lease)
    BY <1>0, <2>1, <2>4 DEF Looks, CallerFits, SpawnSteps, CallerSteps
  <2> QED  BY <2>1, <2>3, <2>5, CallerStepKeeps
<1>12. ASSUME NEW c \in WsCallers, NEW l \in WsLeases, NEW entry, NEW r, wsCaller[c].lease = l, CallerFits(r),
              entry.kind # "pending",
              wsSlots' = [wsSlots EXCEPT ![l] = entry], wsCaller' = WakeAll([wsCaller EXCEPT ![c] = r]),
              r.at \notin SpawnSteps,
              wsCaller[c].at \in {"publish", "evict"}
       PROVE  WsInv'
  <2>1. /\ wsSlots' = [k \in WsLeases |-> wsSlots'[k]] /\ wsSlots'[l].kind # "pending"
        /\ \A k \in WsLeases \ {l} : wsSlots'[k] = wsSlots[k]
    BY <1>0, <1>12
  <2>2. PICK callers : callers = [wsCaller EXCEPT ![c] = r]
    OBVIOUS
  <2>3. callers[c] = r /\ \A d \in WsCallers \ {c} : callers[d] = wsCaller[d]
    BY <1>0, <2>2
  <2>4. /\ wsCaller' = [d \in WsCallers |-> wsCaller'[d]]
        /\ \A d \in WsCallers :
             wsCaller'[d] = IF callers[d].at = "waiting" THEN [callers[d] EXCEPT !.at = "claim"] ELSE callers[d]
    BY <1>12, <2>2 DEF WakeAll
  <2>5. \A d \in WsCallers : CallerFits(callers[d])
    BY <1>0, <1>12, <2>3
  <2>6. ASSUME NEW d \in WsCallers PROVE CallerFits(wsCaller'[d]) /\ wsCaller'[d].at # "waiting"
    <3>1. CASE callers[d].at # "waiting"
      BY <2>4, <2>5, <3>1
    <3>2. CASE callers[d].at = "waiting"
      <4>1. PICK s : s = [callers[d] EXCEPT !.at = "claim"]
        OBVIOUS
      <4>2. Looks(s, callers[d].op, "claim", callers[d].lease)
        BY <2>5, <4>1, CallerUpdates
      <4>3. CallerFits(s) /\ s.at # "waiting"
        BY <2>5, <3>2, <4>2 DEF Looks, CallerFits, SpawnSteps, CallerSteps
      <4> QED  BY <2>4, <3>2, <4>1, <4>3
    <3> QED  BY <3>1, <3>2
  <2>7. \A k \in WsLeases \ {l} : \A d \in WsCallers : Publishes(d, k) => Publishes(d, k)'
    BY <1>12, <2>3, <2>4 DEF Publishes
  <2> QED  BY <2>1, <2>4, <2>6, <2>7 DEF WsInv
<1>13. ASSUME NEW c \in WsCallers, PublishSpawn(c) PROVE WsInv'
  <2>1. PICK l : l = wsCaller[c].lease
    OBVIOUS
  <2>2. PICK entry : entry = IF wsCaller[c].box = 0 THEN WsEntry("failed") ELSE WsReady(wsCaller[c].box, wsCaller[c].fence)
    OBVIOUS
  <2>3. PICK at : at = IF wsCaller[c].box = 0 THEN "failed" ELSE "done"
    OBVIOUS
  <2>4. PICK r : r = [wsCaller[c] EXCEPT !.at = at]
    OBVIOUS
  <2>5. /\ wsCaller[c].at = "publish" /\ wsSlots' = [wsSlots EXCEPT ![l] = entry]
        /\ wsCaller' = WakeAll([wsCaller EXCEPT ![c] = r])
    BY <1>13, <2>1, <2>2, <2>3, <2>4 DEF PublishSpawn, LeaseOf, Published
  <2>6. l \in WsLeases /\ entry.kind # "pending"
    BY <1>0, <2>1, <2>2, <2>5 DEF CallerFits, WsEntry, WsReady
  <2>7. Looks(r, wsCaller[c].op, at, wsCaller[c].lease)
    BY <1>0, <2>4, CallerUpdates
  <2>8. CallerFits(r) /\ r.at \notin SpawnSteps
    BY <2>1, <2>3, <2>6, <2>7 DEF Looks, CallerFits, SpawnSteps, CallerSteps
  <2> QED  BY <1>12, <2>1, <2>5, <2>6, <2>8
<1>14. ASSUME NEW c \in WsCallers, EvictChecked(c) PROVE WsInv'
  <2>1. PICK l : l = wsCaller[c].lease
    OBVIOUS
  <2>2. PICK at : at = IF wsSlots[l].kind = "ready" THEN "teardown" ELSE "done"
    OBVIOUS
  <2>3. PICK r : r = [wsCaller[c] EXCEPT !.at = at, !.reaped = {l}]
    OBVIOUS
  <2>4. PICK entry : entry = WsEntry("none")
    OBVIOUS
  <2>5. /\ wsCaller[c].at = "evict" /\ wsSlots' = [wsSlots EXCEPT ![l] = entry]
        /\ wsCaller' = WakeAll([wsCaller EXCEPT ![c] = r])
    BY <1>14, <2>1, <2>2, <2>3, <2>4 DEF EvictChecked, LeaseOf, EvictWakes
  <2>6. l \in WsLeases /\ entry.kind # "pending"
    BY <1>0, <2>1, <2>4, <2>5 DEF CallerFits, WsEntry
  <2>7. Looks(r, wsCaller[c].op, at, wsCaller[c].lease)
    BY <1>0, <2>3, CallerUpdates
  <2>8. CallerFits(r) /\ r.at \notin SpawnSteps
    BY <1>0, <2>1, <2>2, <2>5, <2>6, <2>7 DEF Looks, CallerFits, SpawnSteps, CallerSteps
  <2> QED  BY <1>12, <2>1, <2>5, <2>6, <2>8
<1>15. ASSUME NEW c \in WsCallers, AttachWorkspace(c) \/ RestoreStatePayload(c) PROVE WsInv'
  <2>1. /\ wsCaller[c].at \in {"attach", "restore"} /\ UNCHANGED wsSlots
        /\ \E at \in {"done", "failed"} : WsGoto(c, at)
    BY <1>15 DEF AttachWorkspace, RestoreStatePayload
  <2> QED  BY <1>2, <2>1 DEF SpawnSteps
<1>16. ASSUME UNCHANGED <<wsSlots, wsCaller>> PROVE WsInv'
  BY <1>16 DEF WsInv, Publishes
<1>17. ASSUME NEW l \in WsLeases, WsCrash(l) PROVE WsInv'
  BY <1>16, <1>17 DEF WsCrash
<1>18. CASE WsTick
  BY <1>16, <1>18 DEF WsTick
<1>19. CASE UNCHANGED wsVars
  BY <1>16, <1>19 DEF wsVars
<1> QED  BY <1>1, <1>3, <1>4, <1>5, <1>6, <1>8, <1>9, <1>10, <1>11, <1>13, <1>14, <1>15, <1>17, <1>18,
  <1>19 DEF WsNext

(* The invariant of the workspace registry, for any threads, leases and       *)
(* boxes.                                                                     *)
THEOREM WsInvariance == WsSpec => []WsInv
BY WsStarts, WsKeeps, PTL DEF WsSpec

(* A thread that waits on the condition variable waits for a pending slot     *)
(* that some thread is about to publish: spawn_or_join never leaves a waiter  *)
(* to a slot nobody owns, whatever fails or is evicted meanwhile.             *)
THEOREM WaitersAlwaysHaveASpawner == WsSpec => []WaitersHaveASpawner
BY WsInvariance, WsSafe, PTL

--------------------------------------------------------------------------------
(* The file fence: what is left of a sequence *)

(* kept is the table of the loop over s that drops the elements of D. *)
IsKept(s, D, kept) ==
  kept = [n \in 0..Len(s) |-> IF n = 0 THEN <<>>
                              ELSE IF s[n] \in D THEN kept[n - 1] ELSE Append(kept[n - 1], s[n])]

(* Such a table exists. *)
LEMMA KeptExists ==
  ASSUME NEW s, NEW D, Len(s) \in Nat
  PROVE  \E kept : IsKept(s, D, kept)
<1> DEFINE Go(n, x) == IF s[n] \in D THEN x ELSE Append(x, s[n])
           P(k) == \E f : f = [n \in 0..k |-> IF n = 0 THEN <<>> ELSE Go(n, f[n - 1])]
           T == {k \in Nat : P(k)}
<1> HIDE DEF Go
<1>1. 0 \in T
  <2>1. [n \in 0..0 |-> <<>>] = [n \in 0..0 |-> IF n = 0 THEN <<>> ELSE Go(n, [m \in 0..0 |-> <<>>][n - 1])]
    OBVIOUS
  <2> QED
    BY <2>1
<1>2. ASSUME NEW k \in Nat, k \in T PROVE k + 1 \in T
  <2>1. PICK f : f = [n \in 0..k |-> IF n = 0 THEN <<>> ELSE Go(n, f[n - 1])]
    BY <1>2
  <2> DEFINE g == [n \in 0..(k + 1) |-> IF n = k + 1 THEN Go(k + 1, f[k]) ELSE f[n]]
  <2>2. \A n \in 0..k : f[n] = IF n = 0 THEN <<>> ELSE Go(n, f[n - 1])
    BY <2>1
  <2>3. ASSUME NEW n \in 0..(k + 1) PROVE g[n] = IF n = 0 THEN <<>> ELSE Go(n, g[n - 1])
    <3>1. CASE n = k + 1
      <4>1. n # 0 /\ n - 1 = k /\ k \in 0..(k + 1) /\ k # k + 1
        BY <3>1
      <4>2. g[n - 1] = f[k]
        BY <4>1
      <4> QED
        BY <3>1, <4>1, <4>2
    <3>2. CASE n # k + 1
      <4>1. n \in 0..k
        BY <3>2
      <4>2. n # 0 => n - 1 \in 0..(k + 1) /\ n - 1 # k + 1
        BY <4>1
      <4> QED
        BY <3>2, <4>1, <4>2, <2>2
    <3> QED
      BY <3>1, <3>2
  <2>4. g = [n \in 0..(k + 1) |-> IF n = 0 THEN <<>> ELSE Go(n, g[n - 1])]
    <3> HIDE DEF g
    <3>1. g = [n \in 0..(k + 1) |-> g[n]]
      BY DEF g
    <3> QED
      BY <2>3, <3>1
  <2> HIDE DEF g
  <2>5. P(k + 1)
    BY <2>4, Zenon
  <2> HIDE DEF P
  <2> QED
    BY <2>5
<1> HIDE DEF T
<1>3. \A k \in Nat : k \in T
  BY <1>1, <1>2, NatSetInduction
<1> QED
  BY <1>3 DEF T, IsKept, Go

(* What the loop has kept after each element. *)
Keeps(s, D, kept) ==
  /\ kept[0] = <<>>
  /\ \A n \in 1..Len(s) : kept[n] = IF s[n] \in D THEN kept[n - 1] ELSE Append(kept[n - 1], s[n])

(* Without is the last entry of the table. *)
LEMMA WithoutIs ==
  ASSUME NEW s, NEW D, Len(s) \in Nat
  PROVE  \E kept : Without(s, D) = kept[Len(s)] /\ Keeps(s, D, kept)
<1> DEFINE o == CHOOSE kept : IsKept(s, D, kept)
<1>1. Without(s, D) = o[Len(s)]
  BY DEF Without, IsKept
<1>2. IsKept(s, D, o)
  BY KeptExists
<1> HIDE DEF o
<1>3. \A n \in 0..Len(s) : o[n] = IF n = 0 THEN <<>>
                                  ELSE IF s[n] \in D THEN o[n - 1] ELSE Append(o[n - 1], s[n])
  BY <1>2 DEF IsKept
<1>4. o[0] = <<>>
  BY <1>3
<1>5. ASSUME NEW n \in 1..Len(s) PROVE o[n] = IF s[n] \in D THEN o[n - 1] ELSE Append(o[n - 1], s[n])
  <2>1. n \in 0..Len(s) /\ n # 0
    OBVIOUS
  <2> QED
    BY <2>1, <1>3, Zenon
<1> QED
  BY <1>1, <1>4, <1>5 DEF Keeps

(* What is kept is not in D. *)
LEMMA KeepsType ==
  ASSUME NEW S, NEW s \in Seq(S), NEW D, NEW kept, Keeps(s, D, kept)
  PROVE  \A n \in 0..Len(s) : kept[n] \in Seq(S \ D)
<1>0. Len(s) \in Nat /\ \A n \in 1..Len(s) : s[n] \in S
  BY LenProperties, ElementOfSeq
<1> DEFINE T == {n \in Nat : n <= Len(s) => kept[n] \in Seq(S \ D)}
<1>1. 0 \in T
  <2>1. kept[0] \in Seq(S \ D)
    BY EmptySeq DEF Keeps
  <2> QED
    BY <2>1
<1>2. ASSUME NEW k \in Nat, k \in T PROVE k + 1 \in T
  <2> SUFFICES ASSUME k + 1 <= Len(s) PROVE kept[k + 1] \in Seq(S \ D)
    OBVIOUS
  <2>1. k + 1 \in 1..Len(s) /\ (k + 1) - 1 = k /\ kept[k] \in Seq(S \ D)
    BY <1>0, <1>2
  <2>2. kept[k + 1] = IF s[k + 1] \in D THEN kept[k] ELSE Append(kept[k], s[k + 1])
    BY <2>1 DEF Keeps
  <2>3. s[k + 1] \notin D => Append(kept[k], s[k + 1]) \in Seq(S \ D)
    BY <1>0, <2>1
  <2> QED
    BY <2>1, <2>2, <2>3
<1> HIDE DEF T
<1>3. \A n \in Nat : n \in T
  BY <1>1, <1>2, NatSetInduction
<1> QED
  BY <1>0, <1>3 DEF T

(* A prefix, element by element. *)
LEMMA StartsWithIs ==
  ASSUME NEW S, NEW s \in Seq(S), NEW t \in Seq(S)
  PROVE  StartsWith(s, t) <=> Len(t) <= Len(s) /\ \A i \in 1..Len(t) : s[i] = t[i]
<1>0. Len(s) \in Nat /\ Len(t) \in Nat
  BY LenProperties
<1>1. ASSUME Len(t) <= Len(s)
      PROVE  /\ SubSeq(s, 1, Len(t)) \in Seq(S) /\ Len(SubSeq(s, 1, Len(t))) = Len(t)
             /\ \A i \in 1..Len(t) : SubSeq(s, 1, Len(t))[i] = s[i]
  <2>1. 1 \in Int /\ Len(t) \in Int /\ \A i \in 1..Len(t) : s[i] \in S
    BY <1>0, <1>1, ElementOfSeq
  <2> QED
    BY <1>0, <2>1, SubSeqProperties
<1>2. ASSUME StartsWith(s, t) PROVE Len(t) <= Len(s) /\ \A i \in 1..Len(t) : s[i] = t[i]
  BY <1>0, <1>1, <1>2 DEF StartsWith
<1>3. ASSUME Len(t) <= Len(s), \A i \in 1..Len(t) : s[i] = t[i] PROVE StartsWith(s, t)
  <2>1. SubSeq(s, 1, Len(t)) = t
    BY <1>0, <1>1, <1>3, SeqEqual
  <2> QED
    BY <1>0, <1>3, <2>1 DEF StartsWith
<1> QED
  BY <1>2, <1>3

(* The loop only adds at the end. *)
LEMMA KeepsGrows ==
  ASSUME NEW S, NEW s \in Seq(S), NEW D, NEW kept, Keeps(s, D, kept), NEW m \in 0..Len(s)
  PROVE  StartsWith(kept[Len(s)], kept[m])
<1>0. Len(s) \in Nat /\ m \in Nat /\ \A n \in 1..Len(s) : s[n] \in S
  BY LenProperties, ElementOfSeq
<1>1. \A n \in 0..Len(s) : kept[n] \in Seq(S)
  <2>1. \A n \in 0..Len(s) : kept[n] \in Seq(S \ D)
    BY KeepsType
  <2> QED
    BY <2>1
<1> DEFINE T == {n \in Nat : m + n <= Len(s) => StartsWith(kept[m + n], kept[m])}
<1>2. 0 \in T
  <2>1. kept[m] \in Seq(S) /\ m + 0 = m
    BY <1>0, <1>1
  <2>2. Len(kept[m]) \in Nat
    BY <2>1, LenProperties
  <2>3. StartsWith(kept[m], kept[m])
    BY <2>1, <2>2, StartsWithIs
  <2> QED
    BY <2>1, <2>3
<1>3. ASSUME NEW k \in Nat, k \in T PROVE k + 1 \in T
  <2> SUFFICES ASSUME m + (k + 1) <= Len(s) PROVE StartsWith(kept[m + (k + 1)], kept[m])
    OBVIOUS
  <2>1. PICK n : n = m + (k + 1)
    OBVIOUS
  <2>2. n \in 1..Len(s) /\ n - 1 \in 0..Len(s) /\ n - 1 = m + k /\ m + k <= Len(s)
    BY <1>0, <2>1
  <2>3. StartsWith(kept[n - 1], kept[m])
    BY <1>3, <2>2
  <2>4. kept[n] = IF s[n] \in D THEN kept[n - 1] ELSE Append(kept[n - 1], s[n])
    BY <2>2 DEF Keeps
  <2>5. kept[n - 1] \in Seq(S) /\ kept[m] \in Seq(S) /\ s[n] \in S
    BY <1>0, <1>1, <2>2
  <2>6. StartsWith(Append(kept[n - 1], s[n]), kept[m])
    <3>1. PICK a \in Seq(S), b \in Seq(S), x \in S : a = kept[n - 1] /\ b = kept[m] /\ x = s[n]
      BY <2>5
    <3>2. Len(b) <= Len(a) /\ \A i \in 1..Len(b) : a[i] = b[i]
      BY <2>3, <3>1, StartsWithIs
    <3>3. /\ Append(a, x) \in Seq(S) /\ Len(Append(a, x)) = Len(a) + 1
          /\ \A i \in 1..Len(a) : Append(a, x)[i] = a[i]
      BY AppendProperties
    <3>4. Len(a) \in Nat /\ Len(b) \in Nat
      BY LenProperties
    <3>5. Len(b) <= Len(Append(a, x)) /\ \A i \in 1..Len(b) : Append(a, x)[i] = b[i]
      BY <3>2, <3>3, <3>4
    <3> QED
      BY <3>1, <3>3, <3>5, StartsWithIs
  <2> QED
    BY <2>1, <2>3, <2>4, <2>6
<1> HIDE DEF T
<1>4. \A n \in Nat : n \in T
  BY <1>2, <1>3, NatSetInduction
<1>5. PICK r \in Nat : m + r = Len(s)
  <2>1. Len(s) - m \in Nat /\ m + (Len(s) - m) = Len(s)
    BY <1>0
  <2> QED
    BY <2>1
<1>6. r \in T
  BY <1>4
<1> QED
  BY <1>5, <1>6 DEF T

(* Two loops that have kept the same and go on alike keep the same. *)
LEMMA KeepsAlike ==
  ASSUME NEW s, NEW t, NEW D, NEW k, NEW j, Len(s) \in Nat, Len(t) \in Nat, Keeps(s, D, k), Keeps(t, D, j),
         NEW a \in Nat, NEW m \in Nat, a + m <= Len(s), m <= Len(t),
         k[a] = <<>>, \A n \in 1..m : s[a + n] = t[n]
  PROVE  k[a + m] = j[m]
<1> DEFINE T == {n \in Nat : n <= m => k[a + n] = j[n]}
<1>1. 0 \in T
  <2>1. k[a + 0] = j[0]
    BY DEF Keeps
  <2> QED
    BY <2>1
<1>2. ASSUME NEW n \in Nat, n \in T PROVE n + 1 \in T
  <2> SUFFICES ASSUME n + 1 <= m PROVE k[a + (n + 1)] = j[n + 1]
    OBVIOUS
  <2>1. /\ n + 1 \in 1..m /\ n + 1 \in 1..Len(t) /\ a + (n + 1) \in 1..Len(s)
        /\ (n + 1) - 1 = n /\ (a + (n + 1)) - 1 = a + n
    OBVIOUS
  <2>2. k[a + n] = j[n] /\ s[a + (n + 1)] = t[n + 1]
    BY <1>2, <2>1
  <2>3. j[n + 1] = IF t[n + 1] \in D THEN j[n] ELSE Append(j[n], t[n + 1])
    BY <2>1 DEF Keeps
  <2>4. k[a + (n + 1)] = IF s[a + (n + 1)] \in D THEN k[a + n] ELSE Append(k[a + n], s[a + (n + 1)])
    BY <2>1 DEF Keeps
  <2> QED
    BY <2>2, <2>3, <2>4
<1> HIDE DEF T
<1>3. m \in T
  BY <1>1, <1>2, NatSetInduction
<1> QED
  BY <1>3 DEF T

(* The loop keeps nothing of a run of dropped elements. *)
LEMMA KeepsRun ==
  ASSUME NEW s, NEW D, NEW k, Len(s) \in Nat, Keeps(s, D, k),
         NEW a \in Nat, NEW b \in Nat, a <= b, b <= Len(s), \A n \in (a + 1)..b : s[n] \in D
  PROVE  k[b] = k[a]
<1> DEFINE T == {n \in Nat : a <= n /\ n <= b => k[n] = k[a]}
<1>1. 0 \in T
  OBVIOUS
<1>2. ASSUME NEW n \in Nat, n \in T PROVE n + 1 \in T
  <2> SUFFICES ASSUME a <= n + 1, n + 1 <= b, a # n + 1 PROVE k[n + 1] = k[a]
    OBVIOUS
  <2>1. n + 1 \in (a + 1)..b /\ n + 1 \in 1..Len(s) /\ (n + 1) - 1 = n /\ a <= n /\ n <= b
    OBVIOUS
  <2>2. k[n] = k[a] /\ s[n + 1] \in D
    BY <1>2, <2>1
  <2>3. k[n + 1] = IF s[n + 1] \in D THEN k[n] ELSE Append(k[n], s[n + 1])
    BY <2>1 DEF Keeps
  <2> QED
    BY <2>2, <2>3
<1> HIDE DEF T
<1>3. b \in T
  BY <1>1, <1>2, NatSetInduction
<1> QED
  BY <1>3 DEF T

(* A sequence with nothing in D stays as it is. *)
LEMMA WithoutNothing ==
  ASSUME NEW S, NEW s \in Seq(S), NEW D, \A n \in 1..Len(s) : s[n] \notin D
  PROVE  Without(s, D) = s
<1>0. Len(s) \in Nat /\ s \in [1..Len(s) -> S]
  BY LenProperties
<1>1. PICK k : Without(s, D) = k[Len(s)] /\ Keeps(s, D, k)
  BY <1>0, WithoutIs
<1> DEFINE T == {n \in Nat : n <= Len(s) => k[n] = SubSeq(s, 1, n)}
<1>2. 0 \in T
  <2>1. SubSeq(s, 1, 0) = <<>>
    BY SubSeqEmpty
  <2> QED
    BY <1>1, <2>1 DEF Keeps
<1>3. ASSUME NEW n \in Nat, n \in T PROVE n + 1 \in T
  <2> SUFFICES ASSUME n + 1 <= Len(s) PROVE k[n + 1] = SubSeq(s, 1, n + 1)
    OBVIOUS
  <2>1. n + 1 \in 1..Len(s) /\ (n + 1) - 1 = n /\ k[n] = SubSeq(s, 1, n)
    BY <1>0, <1>3
  <2>2. k[n + 1] = Append(SubSeq(s, 1, n), s[n + 1])
    BY <1>1, <2>1 DEF Keeps
  <2>3. PICK a \in Seq(S), x \in S : a = SubSeq(s, 1, n) /\ x = s[n + 1] /\ Len(a) = n /\ \A i \in 1..n : a[i] = s[i]
    <3>1. 1 \in Int /\ n \in Int /\ \A i \in 1..n : s[i] \in S
      BY <1>0, <2>1
    <3>2. /\ SubSeq(s, 1, n) \in Seq(S) /\ Len(SubSeq(s, 1, n)) = n
          /\ \A i \in 1..n : SubSeq(s, 1, n)[i] = s[i]
      BY <3>1, SubSeqProperties
    <3> QED
      BY <1>0, <2>1, <3>2
  <2>4. PICK b \in Seq(S) : b = SubSeq(s, 1, n + 1) /\ Len(b) = n + 1 /\ \A i \in 1..(n + 1) : b[i] = s[i]
    <3>1. 1 \in Int /\ n + 1 \in Int /\ \A i \in 1..(n + 1) : s[i] \in S
      BY <1>0, <2>1
    <3>2. /\ SubSeq(s, 1, n + 1) \in Seq(S) /\ Len(SubSeq(s, 1, n + 1)) = n + 1
          /\ \A i \in 1..(n + 1) : SubSeq(s, 1, n + 1)[i] = s[i]
      BY <3>1, SubSeqProperties
    <3> QED
      BY <3>2
  <2>5. /\ Append(a, x) \in Seq(S) /\ Len(Append(a, x)) = n + 1
        /\ \A i \in 1..n : Append(a, x)[i] = a[i]
        /\ Append(a, x)[n + 1] = x
    BY <2>3, AppendProperties
  <2>6. \A i \in 1..(n + 1) : Append(a, x)[i] = b[i]
    BY <2>3, <2>4, <2>5
  <2>7. Append(a, x) = b
    BY <2>4, <2>5, <2>6, SeqEqual
  <2> QED
    BY <2>2, <2>3, <2>4, <2>7
<1> HIDE DEF T
<1>4. \A n \in Nat : n \in T
  BY <1>2, <1>3, NatSetInduction
<1>5. k[Len(s)] = SubSeq(s, 1, Len(s))
  BY <1>0, <1>4 DEF T
<1> QED
  BY <1>1, <1>5, SubSeqFull

(* What a sequence without D is made of. *)
LEMMA WithoutType ==
  ASSUME NEW S, NEW s \in Seq(S), NEW D
  PROVE  Without(s, D) \in Seq(S \ D)
<1>0. Len(s) \in Nat
  BY LenProperties
<1>1. PICK k : Without(s, D) = k[Len(s)] /\ Keeps(s, D, k)
  BY <1>0, WithoutIs
<1>2. \A n \in 0..Len(s) : k[n] \in Seq(S \ D)
  BY <1>1, KeepsType
<1> QED
  BY <1>0, <1>1, <1>2

(* What is dropped at the front, or at the end, makes no difference. *)
LEMMA WithoutFront ==
  ASSUME NEW S, NEW s \in Seq(S), NEW D, NEW a \in Nat, a < Len(s), \A n \in 1..a : s[n] \in D
  PROVE  Without(SubSeq(s, a + 1, Len(s)), D) = Without(s, D)
<1>0. Len(s) \in Nat /\ \A n \in 1..Len(s) : s[n] \in S
  BY LenProperties, ElementOfSeq
<1>1. PICK m \in Nat : m = Len(s) - a
  BY <1>0
<1>2. PICK t \in Seq(S) : t = SubSeq(s, a + 1, Len(s)) /\ Len(t) = m /\ \A n \in 1..m : t[n] = s[a + n]
  <2>1. a + 1 \in Int /\ Len(s) \in Int /\ \A i \in (a + 1)..Len(s) : s[i] \in S
    BY <1>0
  <2>2. /\ SubSeq(s, a + 1, Len(s)) \in Seq(S)
        /\ Len(SubSeq(s, a + 1, Len(s))) = IF a + 1 <= Len(s) THEN Len(s) - (a + 1) + 1 ELSE 0
        /\ \A i \in 1..(Len(s) - (a + 1) + 1) : SubSeq(s, a + 1, Len(s))[i] = s[a + 1 + i - 1]
    BY <2>1, SubSeqProperties
  <2>3. Len(SubSeq(s, a + 1, Len(s))) = m
    BY <1>0, <1>1, <2>2
  <2>4. ASSUME NEW n \in 1..m PROVE SubSeq(s, a + 1, Len(s))[n] = s[a + n]
    BY <1>0, <1>1, <2>2
  <2> QED
    BY <2>2, <2>3, <2>4
<1>3. PICK k : Without(s, D) = k[Len(s)] /\ Keeps(s, D, k)
  BY <1>0, WithoutIs
<1>4. PICK j : Without(t, D) = j[m] /\ Keeps(t, D, j)
  BY <1>2, WithoutIs
<1>5. k[a] = <<>>
  <2>1. 0 \in Nat /\ 0 <= a /\ a <= Len(s) /\ \A n \in (0 + 1)..a : s[n] \in D
    BY <1>0
  <2>2. k[a] = k[0]
    BY <1>0, <1>3, <2>1, KeepsRun
  <2> QED
    BY <1>3, <2>2 DEF Keeps
<1>6. k[a + m] = j[m]
  <2>1. a + m <= Len(s) /\ m <= Len(t) /\ Len(t) \in Nat /\ \A n \in 1..m : s[a + n] = t[n]
    BY <1>0, <1>1, <1>2
  <2> QED
    BY <1>0, <1>3, <1>4, <1>5, <2>1, KeepsAlike
<1> QED
  BY <1>0, <1>1, <1>2, <1>3, <1>4, <1>6

(* The same of what comes before m: the rest only adds to it. *)
LEMMA WithoutPrefix ==
  ASSUME NEW S, NEW s \in Seq(S), NEW t \in Seq(S), NEW D, StartsWith(s, t)
  PROVE  /\ StartsWith(Without(s, D), Without(t, D))
         /\ (\A n \in (Len(t) + 1)..Len(s) : s[n] \in D) => Without(s, D) = Without(t, D)
<1>0. Len(s) \in Nat /\ Len(t) \in Nat /\ Len(t) <= Len(s) /\ \A n \in 1..Len(t) : s[n] = t[n]
  BY LenProperties, StartsWithIs
<1>1. PICK m \in Nat : m = Len(t)
  BY <1>0
<1>3. PICK k : Without(s, D) = k[Len(s)] /\ Keeps(s, D, k)
  BY <1>0, WithoutIs
<1>4. PICK j : Without(t, D) = j[m] /\ Keeps(t, D, j)
  BY <1>0, <1>1, WithoutIs
<1>5. k[m] = j[m]
  <2>1. 0 \in Nat /\ 0 + m <= Len(s) /\ 0 + m = m /\ m <= Len(t) /\ k[0] = <<>> /\ \A n \in 1..m : s[0 + n] = t[n]
    BY <1>0, <1>1, <1>3 DEF Keeps
  <2>2. k[0 + m] = j[m]
    BY <1>0, <1>3, <1>4, <2>1, KeepsAlike
  <2> QED
    BY <2>1, <2>2
<1>6. StartsWith(k[Len(s)], k[m])
  BY <1>0, <1>1, <1>3, KeepsGrows
<1>7. ASSUME \A n \in (Len(t) + 1)..Len(s) : s[n] \in D PROVE k[Len(s)] = k[m]
  <2>1. Len(s) \in Nat /\ m <= Len(s) /\ \A n \in (m + 1)..Len(s) : s[n] \in D
    BY <1>0, <1>1, <1>7
  <2> QED
    BY <1>3, <2>1, KeepsRun
<1> QED
  BY <1>3, <1>4, <1>5, <1>6, <1>7

--------------------------------------------------------------------------------
(* The file fence: paths *)

(* What a path is made of once it is normalised. *)
Segment == STRING
NoName == ""
Parent == ".."
Dropped == {"", "."}
Plain == Segment \ {"", ".", ".."}

(* A path string, by its segments. *)
LEMMA PathStringIs == PathString = Seq(Segment) \ {<<>>}
  BY DEF PathString, Segment

(* Absolute, or with a parent component. *)
Escapes(path) == (path[1] = "" /\ Len(path) > 1) \/ (\E i \in DOMAIN path : path[i] = "..")

(* A sequence over a set is one over a larger set. *)
LEMMA SeqOfMore ==
  ASSUME NEW S, NEW R, S \subseteq R, NEW s \in Seq(S)
  PROVE  s \in Seq(R)
OBVIOUS

(* The length of a sequence that is not empty. *)
LEMMA SomeLength ==
  ASSUME NEW S, NEW s \in Seq(S), s # <<>>
  PROVE  Len(s) \in Nat /\ 1 <= Len(s)
<1>1. Len(s) \in Nat \ {0}
  BY EmptySeq
<1>2. Len(s) \in Nat /\ Len(s) # 0
  BY <1>1
<1> QED
  BY <1>2

(* Escapes, by positions. *)
LEMMA EscapesIs ==
  ASSUME NEW path \in PathString
  PROVE  ~Escapes(path) <=> (path[1] # NoName \/ Len(path) = 1) /\ \A i \in 1..Len(path) : path[i] # Parent
<1>1. path \in Seq(Segment) /\ path # <<>>
  BY PathStringIs
<1>2. DOMAIN path = 1..Len(path)
  BY <1>1, LenProperties
<1>3. Len(path) > 1 <=> Len(path) # 1
  <2>1. Len(path) \in Nat /\ 1 <= Len(path)
    BY <1>1, SomeLength
  <2>2. \A n \in Nat : 1 <= n => (n > 1 <=> n # 1)
    OBVIOUS
  <2> QED
    BY <2>1, <2>2, Zenon
<1> QED
  BY <1>2, <1>3, Zenon DEF Escapes, NoName, Parent

(* What normalize_segments returns. *)
LEMMA NormalizeIs ==
  ASSUME NEW path \in PathString
  PROVE  /\ NormalizeSegments(path) # Escape <=> ~Escapes(path)
         /\ ~Escapes(path) => /\ NormalizeSegments(path) = Without(path, Dropped)
                              /\ NormalizeSegments(path) \in Seq(Plain)
<1>0. path \in Seq(Segment) /\ Len(path) \in Nat
  BY LenProperties, PathStringIs
<1>1. Escapes(path) => NormalizeSegments(path) = Escape
  BY DEF NormalizeSegments, Escapes
<1>2. ~Escapes(path) => NormalizeSegments(path) = Without(path, Dropped)
  BY DEF NormalizeSegments, Escapes, Dropped
<1>3. ASSUME ~Escapes(path) PROVE Without(path, Dropped) \in Seq(Plain)
  <2>1. path \in Seq(Segment \ {Parent})
    <3>1. \A i \in 1..Len(path) : path[i] \in Segment \ {Parent}
      BY <1>0, <1>3, ElementOfSeq, EscapesIs
    <3> QED
      BY <1>0, <3>1, LenProperties
  <2>2. Without(path, Dropped) \in Seq((Segment \ {Parent}) \ Dropped)
    BY <2>1, WithoutType
  <2>3. (Segment \ {Parent}) \ Dropped = Plain
    BY DEF Dropped, Plain, Parent
  <2> QED
    BY <2>2, <2>3
<1>4. Escape \notin Seq(Plain)
  <2> SUFFICES ASSUME Escape \in Seq(Plain) PROVE FALSE
    OBVIOUS
  <2>1. 1 \in 1..Len(Escape) /\ Escape[1] = ".."
    BY DEF Escape
  <2>2. Escape[1] \in Plain
    BY <2>1, ElementOfSeq
  <2> QED
    BY <2>1, <2>2 DEF Plain
<1> QED
  BY <1>1, <1>2, <1>3, <1>4

(* A normalised path is its own normal form. *)
LEMMA NormalizePlain ==
  ASSUME NEW f \in Seq(Plain), f # <<>>
  PROVE  f \in PathString /\ ~Escapes(f) /\ NormalizeSegments(f) = f
<1>0. /\ Len(f) \in Nat /\ 1 <= Len(f)
      /\ \A i \in 1..Len(f) : f[i] \in Plain
  BY SomeLength, ElementOfSeq
<1>1. f \in PathString
  <2>1. Plain \subseteq Segment
    BY DEF Plain
  <2> QED
    BY <2>1, SeqOfMore, PathStringIs
<1>2. ~Escapes(f)
  <2>1. NoName \notin Plain /\ Parent \notin Plain
    BY DEF Plain, NoName, Parent
  <2>2. 1 \in 1..Len(f)
    BY <1>0
  <2>3. f[1] # NoName /\ \A i \in 1..Len(f) : f[i] # Parent
    BY <1>0, <2>1, <2>2, Zenon
  <2> QED
    BY <1>1, <2>3, EscapesIs
<1>3. Without(f, Dropped) = f
  <2>1. \A i \in 1..Len(f) : f[i] \notin Dropped
    BY <1>0 DEF Plain, Dropped
  <2> QED
    BY <2>1, WithoutNothing
<1> QED
  BY <1>1, <1>2, <1>3, NormalizeIs

(* A non-empty set of numbers has a least one. *)
LEMMA LeastNumber ==
  ASSUME NEW S \in SUBSET Nat, S # {}
  PROVE  \E i \in S : \A j \in S : i <= j
<1>1. PICK x \in S : \A y \in S : ~(<<y, x>> \in OpToRel(<, Nat))
  BY NatLessThanWellFounded, WFMin
<1>2. ASSUME NEW y \in S PROVE x <= y
  <2>1. ~(y < x)
    BY <1>1 DEF OpToRel
  <2> QED
    BY <2>1
<1> QED
  BY <1>2

(* What TrimLeading cuts off. *)
LEMMA TrimLeadingIs ==
  ASSUME NEW S, NEW path \in Seq(S), path # <<>>, NEW s
  PROVE  \E a \in Nat : /\ a < Len(path) /\ TrimLeading(path, s) = SubSeq(path, a + 1, Len(path))
                        /\ \A n \in 1..a : path[n] = s
                        /\ a + 1 = Len(path) \/ path[a + 1] # s
<1>0. Len(path) \in Nat /\ 1 <= Len(path)
  BY SomeLength
<1> DEFINE kept == {i \in 1..Len(path) : i = Len(path) \/ path[i] # s}
           first == CHOOSE i \in kept : \A j \in kept : i <= j
<1>1. Len(path) \in kept /\ kept \in SUBSET Nat
  BY <1>0
<1>2. \E i \in kept : \A j \in kept : i <= j
  <2> HIDE DEF kept
  <2> QED
    BY <1>1, LeastNumber
<1>3. first \in kept /\ \A j \in kept : first <= j
  <2> HIDE DEF kept
  <2> QED
    BY <1>2
<1>4. TrimLeading(path, s) = SubSeq(path, first, Len(path))
  BY DEF TrimLeading
<1> HIDE DEF first
<1>5. first \in 1..Len(path) /\ (first = Len(path) \/ path[first] # s)
  BY <1>3
<1>6. \A n \in 1..(first - 1) : path[n] = s
  BY <1>0, <1>3, <1>5
<1>7. PICK a \in Nat : a = first - 1
  BY <1>0, <1>5
<1>8. a + 1 = first /\ a < Len(path)
  BY <1>0, <1>5, <1>7
<1> QED
  BY <1>4, <1>5, <1>6, <1>7, <1>8

(* So it does not change the components, and the result is a path again.      *)
LEMMA TrimLeadingKeeps ==
  ASSUME NEW path \in PathString, NEW s \in Dropped
  PROVE  /\ TrimLeading(path, s) \in PathString
         /\ Without(TrimLeading(path, s), Dropped) = Without(path, Dropped)
         /\ Len(TrimLeading(path, s)) = 1 \/ TrimLeading(path, s)[1] # s
         /\ \A i \in 1..Len(TrimLeading(path, s)) : \E j \in 1..Len(path) : TrimLeading(path, s)[i] = path[j]
<1>0. path \in Seq(Segment) /\ path # <<>> /\ Len(path) \in Nat /\ 1 <= Len(path)
  BY SomeLength, PathStringIs
<1>1. PICK a \in Nat : /\ a < Len(path) /\ TrimLeading(path, s) = SubSeq(path, a + 1, Len(path))
                       /\ \A n \in 1..a : path[n] = s
                       /\ a + 1 = Len(path) \/ path[a + 1] # s
  BY <1>0, TrimLeadingIs
<1>2. PICK m \in Nat : m = Len(path) - a /\ m # 0
  <2>1. Len(path) - a \in Nat /\ Len(path) - a # 0
    BY <1>0, <1>1
  <2> QED
    BY <2>1
<1>3. PICK t : t = TrimLeading(path, s)
  OBVIOUS
<1>4. t \in Seq(Segment) /\ Len(t) = m /\ \A i \in 1..m : t[i] = path[a + i]
  <2>1. a + 1 \in Int /\ Len(path) \in Int /\ \A i \in (a + 1)..Len(path) : path[i] \in Segment
    BY <1>0, ElementOfSeq
  <2>2. /\ SubSeq(path, a + 1, Len(path)) \in Seq(Segment)
        /\ Len(SubSeq(path, a + 1, Len(path))) = IF a + 1 <= Len(path) THEN Len(path) - (a + 1) + 1 ELSE 0
        /\ \A i \in 1..(Len(path) - (a + 1) + 1) : SubSeq(path, a + 1, Len(path))[i] = path[a + 1 + i - 1]
    BY <2>1, SubSeqProperties
  <2>3. Len(SubSeq(path, a + 1, Len(path))) = m
    BY <1>0, <1>1, <1>2, <2>2
  <2>4. ASSUME NEW n \in 1..m PROVE SubSeq(path, a + 1, Len(path))[n] = path[a + n]
    BY <1>0, <1>1, <1>2, <2>2
  <2> QED
    BY <1>1, <1>3, <2>2, <2>3, <2>4
<1>5. t \in PathString
  BY <1>2, <1>4, EmptySeq, PathStringIs
<1>6. Without(t, Dropped) = Without(path, Dropped)
  <2>1. \A n \in 1..a : path[n] \in Dropped
    BY <1>1
  <2> QED
    BY <1>0, <1>1, <1>3, <2>1, WithoutFront
<1>7. Len(t) = 1 \/ t[1] # s
  BY <1>0, <1>1, <1>2, <1>4
<1>8. ASSUME NEW i \in 1..Len(t) PROVE \E j \in 1..Len(path) : t[i] = path[j]
  <2>1. a + i \in 1..Len(path) /\ t[i] = path[a + i]
    BY <1>0, <1>1, <1>2, <1>4, <1>5
  <2> QED
    BY <2>1
<1> QED
  BY <1>3, <1>4, <1>5, <1>6, <1>7, <1>8

(* What place_file hands to the shell names the file the fence admitted. *)
LEMMA TrimStartNames ==
  ASSUME NEW path \in PathString, ~Escapes(path)
  PROVE  NormalizeSegments(TrimStart(path)) = NormalizeSegments(path)
<1>0. path \in Seq(Segment) /\ path # <<>>
  BY PathStringIs
<1>1. PICK t : t = TrimLeading(path, ".")
  OBVIOUS
<1>2. /\ t \in PathString /\ Without(t, Dropped) = Without(path, Dropped)
      /\ \A i \in 1..Len(t) : \E j \in 1..Len(path) : t[i] = path[j]
  <2>1. "." \in Dropped
    BY DEF Dropped
  <2>2. /\ TrimLeading(path, ".") \in PathString
        /\ Without(TrimLeading(path, "."), Dropped) = Without(path, Dropped)
        /\ \A i \in 1..Len(TrimLeading(path, ".")) : \E j \in 1..Len(path) : TrimLeading(path, ".")[i] = path[j]
    BY <2>1, TrimLeadingKeeps, Zenon
  <2> QED
    BY <1>1, <2>2, Zenon
<1>3. PICK r : r = TrimLeading(t, NoName)
  OBVIOUS
<1>4. /\ r \in PathString /\ Without(r, Dropped) = Without(t, Dropped)
      /\ Len(r) = 1 \/ r[1] # NoName
      /\ \A i \in 1..Len(r) : \E j \in 1..Len(t) : r[i] = t[j]
  <2>1. NoName \in Dropped
    BY DEF Dropped, NoName
  <2>3. /\ TrimLeading(t, NoName) \in PathString
        /\ Without(TrimLeading(t, NoName), Dropped) = Without(t, Dropped)
        /\ Len(TrimLeading(t, NoName)) = 1 \/ TrimLeading(t, NoName)[1] # NoName
        /\ \A i \in 1..Len(TrimLeading(t, NoName)) : \E j \in 1..Len(t) : TrimLeading(t, NoName)[i] = t[j]
    BY <1>2, <2>1, TrimLeadingKeeps, Zenon
  <2> QED
    BY <1>3, <2>3, Zenon
<1>5. \A i \in 1..Len(r) : r[i] # Parent
  <2>1. \A i \in 1..Len(path) : path[i] # Parent
    BY EscapesIs
  <2>2. \A i \in 1..Len(t) : t[i] # Parent
    BY <1>2, <2>1
  <2> QED
    BY <1>4, <2>2
<1>6. ~Escapes(r)
  BY <1>4, <1>5, EscapesIs
<1>7. NormalizeSegments(r) = Without(r, Dropped) /\ NormalizeSegments(path) = Without(path, Dropped)
  BY <1>4, <1>6, NormalizeIs
<1>8. TrimStart(path) = r
  BY <1>1, <1>3 DEF TrimStart, NoName
<1> QED
  BY <1>2, <1>4, <1>7, <1>8

(* What TrimEnd cuts off. *)
LEMMA TrimEndIs ==
  ASSUME NEW entry \in PathString
  PROVE  /\ TrimEnd(entry) \in PathString /\ StartsWith(entry, TrimEnd(entry))
         /\ \A n \in (Len(TrimEnd(entry)) + 1)..Len(entry) : entry[n] = NoName
<1>0. entry \in Seq(Segment) /\ entry # <<>> /\ Len(entry) \in Nat /\ 1 <= Len(entry)
  BY SomeLength, PathStringIs
<1> DEFINE kept == {i \in 1..Len(entry) : i = 1 \/ entry[i] # NoName}
           last == CHOOSE i \in kept : \A j \in kept : j <= i
           fromEnd == {n \in Nat : \E i \in kept : n = Len(entry) - i}
<1>1. kept \in SUBSET (1..Len(entry)) /\ 1 \in kept
  BY <1>0
<1>2. \E i \in kept : \A j \in kept : j <= i
  <2>0. Len(entry) - 1 \in fromEnd
    BY <1>0, <1>1
  <2>1. fromEnd \in SUBSET Nat /\ fromEnd # {}
    BY <2>0
  <2>2. PICK n \in fromEnd : \A k \in fromEnd : n <= k
    <3> HIDE DEF fromEnd
    <3> QED
      BY <2>1, LeastNumber
  <2> HIDE DEF kept
  <2>3. PICK i \in kept : n = Len(entry) - i
    BY <2>2
  <2>4. ASSUME NEW j \in kept PROVE j <= i
    <3>1. Len(entry) - j \in fromEnd
      BY <1>0, <1>1
    <3>2. n <= Len(entry) - j
      BY <2>2, <3>1
    <3> QED
      BY <1>0, <1>1, <2>3, <3>2
  <2> QED
    BY <2>4
<1>3. last \in kept /\ \A j \in kept : j <= last
  <2> HIDE DEF kept
  <2> QED
    BY <1>2
<1>4. TrimEnd(entry) = SubSeq(entry, 1, last)
  BY DEF TrimEnd, NoName
<1> HIDE DEF last
<1>5. PICK m \in Nat : m = last
  BY <1>1, <1>3
<1>6. 1 <= m /\ m <= Len(entry) /\ \A n \in (m + 1)..Len(entry) : entry[n] = NoName
  BY <1>0, <1>3, <1>5
<1>7. PICK t : t = SubSeq(entry, 1, m)
  OBVIOUS
<1>8. t \in Seq(Segment) /\ Len(t) = m /\ \A i \in 1..m : t[i] = entry[i]
  <2>1. 1 \in Int /\ m \in Int /\ \A i \in 1..m : entry[i] \in Segment
    BY <1>0, <1>6, ElementOfSeq
  <2>2. /\ SubSeq(entry, 1, m) \in Seq(Segment)
        /\ Len(SubSeq(entry, 1, m)) = IF 1 <= m THEN m - 1 + 1 ELSE 0
        /\ \A i \in 1..(m - 1 + 1) : SubSeq(entry, 1, m)[i] = entry[1 + i - 1]
    BY <2>1, SubSeqProperties
  <2> QED
    BY <1>6, <1>7, <2>2
<1>9. t # <<>>
  BY <1>6, <1>8, EmptySeq
<1>10. StartsWith(entry, t)
  BY <1>0, <1>6, <1>8, StartsWithIs
<1> QED
  BY <1>4, <1>5, <1>6, <1>7, <1>8, <1>9, <1>10, PathStringIs

(* An entry that a directory of the ceiling covers as a string lies below it  *)
(* once both are normalised.                                                  *)
LEMMA CoveredLiesBelow ==
  ASSUME NEW entry \in PathString, NEW path \in PathString, EndsInSlash(entry), ~Escapes(path),
         StartsWith(path, TrimEnd(entry)), path[1] # NoName
  PROVE  ~Escapes(entry) /\ StartsWith(NormalizeSegments(path), NormalizeSegments(entry))
<1>1. PICK t \in PathString : /\ t = TrimEnd(entry) /\ StartsWith(entry, t)
                              /\ \A n \in (Len(t) + 1)..Len(entry) : entry[n] = NoName
  BY TrimEndIs
<1>2. /\ t \in Seq(Segment) /\ entry \in Seq(Segment) /\ path \in Seq(Segment)
      /\ Len(t) \in Nat /\ 1 <= Len(t) /\ Len(entry) \in Nat /\ Len(path) \in Nat
  BY SomeLength, PathStringIs
<1>3. Len(t) <= Len(entry) /\ \A i \in 1..Len(t) : entry[i] = t[i]
  BY <1>1, <1>2, StartsWithIs
<1>4. Len(t) <= Len(path) /\ \A i \in 1..Len(t) : path[i] = t[i]
  BY <1>1, <1>2, StartsWithIs
<1>5. entry[1] # NoName
  <2>1. 1 \in 1..Len(t)
    BY <1>2
  <2> QED
    BY <1>3, <1>4, <2>1
<1>6. ASSUME NEW i \in 1..Len(entry) PROVE entry[i] # Parent
  <2>1. CASE i \in 1..Len(t)
    <3>1. i \in 1..Len(path)
      BY <1>2, <1>4, <2>1
    <3>2. path[i] # Parent
      BY <3>1, EscapesIs
    <3> QED
      BY <1>3, <1>4, <2>1, <3>2
  <2>2. CASE i \notin 1..Len(t)
    <3>1. i \in (Len(t) + 1)..Len(entry)
      BY <1>2, <2>2
    <3>2. entry[i] = NoName
      BY <1>1, <3>1
    <3> QED
      BY <3>2 DEF NoName, Parent
  <2> QED
    BY <2>1, <2>2
<1>7. ~Escapes(entry)
  BY <1>5, <1>6, EscapesIs
<1>8. NormalizeSegments(entry) = Without(t, Dropped)
  <2>1. \A n \in (Len(t) + 1)..Len(entry) : entry[n] \in Dropped
    BY <1>1 DEF Dropped, NoName
  <2>2. Without(entry, Dropped) = Without(t, Dropped)
    BY <1>1, <1>2, <2>1, WithoutPrefix
  <2> QED
    BY <1>7, <2>2, NormalizeIs
<1>9. StartsWith(Without(path, Dropped), Without(t, Dropped))
  BY <1>1, <1>2, WithoutPrefix
<1>10. NormalizeSegments(path) = Without(path, Dropped)
  BY NormalizeIs
<1> QED
  BY <1>7, <1>8, <1>9, <1>10

(* A prefix of a prefix is a prefix. *)
LEMMA StartsWithChains ==
  ASSUME NEW S, NEW a \in Seq(S), NEW b \in Seq(S), NEW c \in Seq(S), StartsWith(a, b), StartsWith(b, c)
  PROVE  StartsWith(a, c)
<1>1. Len(b) <= Len(a) /\ \A i \in 1..Len(b) : a[i] = b[i]
  BY StartsWithIs
<1>2. Len(c) <= Len(b) /\ \A i \in 1..Len(c) : b[i] = c[i]
  BY StartsWithIs
<1>3. Len(a) \in Nat /\ Len(b) \in Nat /\ Len(c) \in Nat
  BY LenProperties
<1>4. Len(c) <= Len(a) /\ \A i \in 1..Len(c) : a[i] = c[i]
  BY <1>1, <1>2, <1>3
<1> QED
  BY <1>4, StartsWithIs

(* Every sequence begins with itself. *)
LEMMA StartsWithSelf ==
  ASSUME NEW S, NEW a \in Seq(S)
  PROVE  StartsWith(a, a)
<1>1. Len(a) \in Nat
  BY LenProperties
<1> QED
  BY <1>1, StartsWithIs

(* What a resumed fence admits, the fence it was covered by admits as well. *)
LEMMA CoveredIsAdmitted ==
  ASSUME NEW paths, NEW ceiling, \A p \in paths : p \in PathString, \A p \in ceiling : p \in PathString,
         \A p \in paths : PathCoveredBy(p, ceiling),
         NEW f \in Seq(Plain), f # <<>>, Classify(paths, f)
  PROVE  Classify(ceiling, f)
<1>1. NormalizeSegments(f) = f /\ f # Escape
  BY NormalizePlain, NormalizeIs
<1>2. PICK e \in paths :
        /\ NormalizeSegments(e) # Escape
        /\ IF EndsInSlash(e) THEN StartsWith(f, NormalizeSegments(e)) ELSE f = NormalizeSegments(e)
  BY <1>1 DEF Classify
<1>3. e \in PathString /\ ~Escapes(e) /\ NormalizeSegments(e) \in Seq(Plain)
  BY <1>2, NormalizeIs
<1>4. PICK o \in ceiling : IF EndsInSlash(o) THEN StartsWith(e, TrimEnd(o)) ELSE e = o
  BY DEF PathCoveredBy
<1>5. o \in PathString
  OBVIOUS
<1>6. CASE ~EndsInSlash(o)
  <2>1. e = o
    BY <1>4, <1>6
  <2> QED
    BY <1>1, <1>2, <1>4, <2>1 DEF Classify
<1>7. CASE EndsInSlash(o)
  <2>1. e[1] # NoName
    <3> SUFFICES ASSUME e[1] = NoName PROVE FALSE
      OBVIOUS
    <3>1. Len(e) = 1
      BY <1>3, EscapesIs
    <3>2. ~EndsInSlash(e)
      BY <3>1 DEF EndsInSlash
    <3>3. f = Without(e, Dropped)
      BY <1>2, <1>3, <3>2, NormalizeIs
    <3>4. PICK k : Without(e, Dropped) = k[Len(e)] /\ Keeps(e, Dropped, k)
      <4>1. Len(e) \in Nat
        BY <3>1
      <4> QED
        BY <4>1, WithoutIs
    <3>5. e[1] \in Dropped /\ 1 \in 1..Len(e) /\ 1 - 1 = 0
      <4>1. NoName \in Dropped
        BY DEF Dropped, NoName
      <4> QED
        BY <3>1, <4>1
    <3>6. k[1] = <<>>
      BY <3>4, <3>5 DEF Keeps
    <3> QED
      BY <3>1, <3>3, <3>4, <3>6
  <2>2. ~Escapes(o) /\ StartsWith(NormalizeSegments(e), NormalizeSegments(o))
    BY <1>3, <1>4, <1>5, <1>7, <2>1, CoveredLiesBelow
  <2>3. NormalizeSegments(o) \in Seq(Plain) /\ NormalizeSegments(o) # Escape
    BY <1>5, <2>2, NormalizeIs
  <2>4. StartsWith(f, NormalizeSegments(e))
    BY <1>2, StartsWithSelf
  <2>5. StartsWith(f, NormalizeSegments(o))
    BY <1>3, <2>2, <2>3, <2>4, StartsWithChains
  <2> QED
    BY <1>1, <1>7, <2>3, <2>5 DEF Classify
<1> QED
  BY <1>6, <1>7

--------------------------------------------------------------------------------
(* The file fence: its invariant *)

(* What the fences, the candidates still to be placed and the files look like. *)
FenceInv ==
  /\ originalFence.paths \in PathSets /\ liveFence.paths \in PathSets
  /\ \/ liveFence.paths = originalFence.paths
     \/ \A path \in liveFence.paths : PathCoveredBy(path, originalFence.paths)
  /\ fenceTodo \in Seq({path \in PathString : IsAdmitted(liveFence, path)})
  /\ \A file \in fenceFiles : file \in Seq(Plain) /\ file # <<>> /\ Classify(liveFence.paths, file)

(* Two spellings of one path are both inside or both outside. *)
LEMMA ClassifyBySegments ==
  ASSUME NEW paths, NEW p, NEW q, NormalizeSegments(p) = NormalizeSegments(q)
  PROVE  Classify(paths, p) = Classify(paths, q)
BY DEF Classify

(* Before anything is placed it holds. *)
LEMMA FenceStarts == FenceInit => FenceInv
<1> SUFFICES ASSUME FenceInit PROVE FenceInv
  OBVIOUS
<1>1. originalFence.paths \in PathSets /\ liveFence = originalFence /\ fenceFiles = {} /\ fenceTodo = <<>>
  BY DEF FenceInit
<1>2. <<>> \in Seq({path \in PathString : IsAdmitted(liveFence, path)})
  BY EmptySeq
<1> QED
  BY <1>1, <1>2 DEF FenceInv

(* What the fence selects of the candidates, it admits. *)
LEMMA SelectedIsAdmitted ==
  ASSUME NEW fence, NEW candidates \in CandidateLists
  PROVE  SelectInFence(fence, candidates) \in Seq({path \in PathString : IsAdmitted(fence, path)})
<1>1. candidates \in Seq(PathString)
  BY FenceAssumption
<1> DEFINE Those == {candidates[i] : i \in DOMAIN candidates}
           Out == {path \in Those : ~IsAdmitted(fence, path)}
           In == {path \in PathString : IsAdmitted(fence, path)}
<1>2. candidates \in Seq(Those)
  <2>1. Len(candidates) \in Nat /\ candidates \in [1..Len(candidates) -> PathString]
    BY <1>1, LenProperties
  <2>2. DOMAIN candidates = 1..Len(candidates)
    BY <1>1, LenProperties
  <2>3. candidates \in [1..Len(candidates) -> Those]
    BY <2>1, <2>2
  <2> HIDE DEF Those
  <2> QED
    BY <2>1, <2>3
<1>3. Those \ Out \subseteq In
  <2>1. Those \subseteq PathString
    BY <1>1, LenProperties
  <2> HIDE DEF Those
  <2> QED
    BY <2>1
<1>4. SelectInFence(fence, candidates) = Without(candidates, Out)
  BY DEF SelectInFence
<1> HIDE DEF Those, Out, In
<1>5. Without(candidates, Out) \in Seq(Those \ Out)
  BY <1>2, WithoutType
<1>6. Without(candidates, Out) \in Seq(In)
  BY <1>3, <1>5, SeqOfMore
<1> QED
  BY <1>4, <1>6 DEF In

(* Every step keeps it: a candidate is placed under the name the fence has    *)
(* admitted, and a resume starts from an empty workspace.                     *)
LEMMA FenceKeeps == FenceInv /\ [FenceNext]_fenceVars => FenceInv'
<1> SUFFICES ASSUME FenceInv, [FenceNext]_fenceVars PROVE FenceInv'
  OBVIOUS
<1>0. /\ originalFence.paths \in PathSets /\ liveFence.paths \in PathSets
      /\ \/ liveFence.paths = originalFence.paths
         \/ \A path \in liveFence.paths : PathCoveredBy(path, originalFence.paths)
      /\ fenceTodo \in Seq({path \in PathString : IsAdmitted(liveFence, path)})
      /\ \A file \in fenceFiles : file \in Seq(Plain) /\ file # <<>> /\ Classify(liveFence.paths, file)
  BY DEF FenceInv
<1>1. ASSUME NEW candidates \in CandidateLists, MaterializeSparse(candidates) PROVE FenceInv'
  <2>1. UNCHANGED <<originalFence, liveFence, fenceFiles>>
    BY <1>1 DEF MaterializeSparse
  <2>2. fenceTodo' \in Seq({path \in PathString : IsAdmitted(liveFence, path)})
    <3>1. fenceTodo' = <<>> \/ fenceTodo' = SelectInFence(liveFence, candidates)
      BY <1>1 DEF MaterializeSparse
    <3> QED
      BY <3>1, EmptySeq, SelectedIsAdmitted
  <2> QED
    BY <1>0, <2>1, <2>2 DEF FenceInv
<1>2. CASE PlaceFile
  <2>1. UNCHANGED <<originalFence, liveFence>> /\ fenceTodo # <<>>
    BY <1>2 DEF PlaceFile
  <2> DEFINE In == {path \in PathString : IsAdmitted(liveFence, path)}
  <2>2. fenceTodo \in Seq(In)
    BY <1>0
  <2>3. Head(fenceTodo) \in In /\ Tail(fenceTodo) \in Seq(In) /\ <<>> \in Seq(In)
    <3> HIDE DEF In
    <3> QED
      BY <2>1, <2>2, HeadTailProperties, EmptySeq
  <2>4. fenceTodo' \in Seq(In)
    BY <1>2, <2>3 DEF PlaceFile
  <2>5. PICK path \in PathString : path = Head(fenceTodo) /\ IsAdmitted(liveFence, path)
    BY <2>3
  <2>6. CASE UNCHANGED fenceFiles
    BY <1>0, <2>1, <2>4, <2>6 DEF FenceInv
  <2>7. CASE /\ NormalizeSegments(path) # Escape /\ NormalizeSegments(TrimStart(path)) # <<>>
             /\ fenceFiles' = fenceFiles \cup {NormalizeSegments(TrimStart(path))}
    <3>1. ~Escapes(path) /\ NormalizeSegments(path) \in Seq(Plain)
      BY <2>7, NormalizeIs
    <3>2. PICK f \in Seq(Plain) : f = NormalizeSegments(path) /\ f = NormalizeSegments(TrimStart(path))
      BY <3>1, TrimStartNames
    <3>3. f # <<>> /\ fenceFiles' = fenceFiles \cup {f}
      BY <2>7, <3>2
    <3>4. NormalizeSegments(f) = f
      BY <3>3, NormalizePlain
    <3>5. Classify(liveFence.paths, f)
      BY <2>5, <3>2, <3>4, ClassifyBySegments DEF IsAdmitted
    <3> QED
      BY <1>0, <2>1, <2>4, <3>3, <3>5 DEF FenceInv
  <2> QED
    BY <1>2, <2>5, <2>6, <2>7 DEF PlaceFile
<1>3. CASE MaterializeDone
  BY <1>0, <1>3 DEF MaterializeDone, FenceInv
<1>4. ASSUME NEW paths \in PathSets, ResumeUnder([paths |-> paths, denyDefault |-> TRUE]) PROVE FenceInv'
  <2>1. PICK fence : fence = [paths |-> paths, denyDefault |-> TRUE]
    OBVIOUS
  <2>2. /\ UNCHANGED originalFence /\ fenceTodo' = <<>> /\ fence.paths = paths
        /\ \/ /\ \A path \in paths : PathCoveredBy(path, originalFence.paths)
              /\ liveFence' = fence /\ fenceFiles' = {}
           \/ UNCHANGED <<liveFence, fenceFiles>>
    BY <1>4, <2>1 DEF ResumeUnder
  <2>3. fenceTodo' \in Seq({path \in PathString : IsAdmitted(liveFence', path)})
    BY <2>2, EmptySeq
  <2> QED
    BY <1>0, <2>2, <2>3 DEF FenceInv
<1>5. CASE UNCHANGED fenceVars
  BY <1>0, <1>5 DEF fenceVars, FenceInv
<1> QED
  BY <1>1, <1>2, <1>3, <1>4, <1>5 DEF FenceNext

(* It is what FenceHolds says. *)
LEMMA FenceSafe == FenceInv => FenceHolds
<1> SUFFICES ASSUME FenceInv PROVE FenceHolds
  OBVIOUS
<1>1. /\ \A p \in originalFence.paths : p \in PathString
      /\ \A p \in liveFence.paths : p \in PathString
  BY FenceAssumption DEF FenceInv
<1>2. ASSUME NEW file \in fenceFiles
      PROVE  /\ Classify(originalFence.paths, file) /\ Classify(liveFence.paths, file)
             /\ NormalizeSegments(file) = file
  <2>1. file \in Seq(Plain) /\ file # <<>> /\ Classify(liveFence.paths, file)
    BY DEF FenceInv
  <2>2. Classify(originalFence.paths, file)
    <3>1. CASE liveFence.paths = originalFence.paths
      BY <2>1, <3>1
    <3>2. CASE \A path \in liveFence.paths : PathCoveredBy(path, originalFence.paths)
      BY <1>1, <2>1, <3>2, CoveredIsAdmitted
    <3> QED
      BY <3>1, <3>2 DEF FenceInv
  <2> QED
    BY <2>1, <2>2, NormalizePlain
<1>3. ASSUME NEW path, ~IsAdmitted(liveFence, path) PROVE ProbeOutsideEnoent(path) # "PRESENT_FILE"
  <2>1. NormalizeSegments(path) \notin fenceFiles
    <3> SUFFICES ASSUME NormalizeSegments(path) \in fenceFiles PROVE FALSE
      OBVIOUS
    <3>1. PICK file \in fenceFiles : NormalizeSegments(path) = file
      OBVIOUS
    <3>2. NormalizeSegments(path) = NormalizeSegments(file) /\ Classify(liveFence.paths, file)
      BY <1>2, <3>1
    <3> QED
      BY <1>3, <3>2, ClassifyBySegments DEF IsAdmitted
  <2> QED
    BY <2>1 DEF ProbeOutsideEnoent
<1> QED
  BY <1>2, <1>3 DEF FenceHolds

(* The invariant of the file fence, for any paths, entries and candidates.    *)
THEOREM FenceInvariance == FenceSpec => []FenceInv
BY FenceStarts, FenceKeeps, PTL DEF FenceSpec

(* Whatever is placed, under the fence of the spawn or of a resume, lies      *)
(* inside the original and the live fence, however paths and entries are      *)
(* spelt: path_covered_by compares strings, classify segments, place_file     *)
(* trims, and the three agree.                                                *)
THEOREM FenceAlwaysHolds == FenceSpec => []FenceHolds
BY FenceInvariance, FenceSafe, PTL

--------------------------------------------------------------------------------
(* The workflow shim: what a step refers to *)

(* The lines of the step that begins at `from`, and the secrets they name. *)
Body(lines, from) ==
  {i \in from..Len(lines) : \A j \in (from + 1)..i : ~EndsStep(lines[j])}
Named(lines, from) == {lines[i].val : i \in Body(lines, from)} \cap ShimSecrets

StepFields ==
  {"named", "run", "uses", "env", "with", "continues", "cond", "block", "text", "open", "reports", "stop"}

(* All references of a step are to secrets of N. *)
StepFits(s, N) ==
  /\ s = [i \in StepFields |-> s[i]]
  /\ s.run \in Seq(Seq(N)) /\ s.text \in Seq(Seq(N))
  /\ \A k \in DOMAIN s.env : s.env[k] \in ShimSecrets => s.env[k] \in N

(* Of a line, N has the secret if it names one. *)
Covers(N, l) == l.val \in ShimSecrets => l.val \in N

(* A reference is to what the line names. *)
LEMMA RefsFit ==
  ASSUME NEW N, NEW l, Covers(N, l)
  PROVE  SecretRefs(l.val) \in Seq(N) /\ <<SecretRefs(l.val)>> \in Seq(Seq(N)) /\ <<>> \in Seq(N)
<1>1. PICK v : v = l.val
  OBVIOUS
<1>2. SecretRefs(v) \in Seq(N)
  BY <1>1 DEF SecretRefs, Covers
<1>3. PICK r : r = SecretRefs(v)
  OBVIOUS
<1>4. <<r>> \in Seq(Seq(N))
  BY <1>2, <1>3
<1> QED
  BY <1>1, <1>2, <1>3, <1>4

(* A step of which nothing is known. *)
LEMMA NoStepFits == ASSUME NEW N PROVE StepFits(NoStep, N) /\ ~NoStep.stop
<1>1. NoStep = [i \in StepFields |-> NoStep[i]]
  BY DEF NoStep, StepFields
<1>2. NoStep.run = <<>> /\ NoStep.text = <<>> /\ NoStep.env = NoEntries /\ ~NoStep.stop
  BY DEF NoStep
<1>3. DOMAIN NoEntries = {}
  BY DEF NoEntries
<1>4. <<>> \in Seq(Seq(N))
  BY EmptySeq
<1> QED
  BY <1>1, <1>2, <1>3, <1>4 DEF StepFits

(* Fields that hold no reference may change. *)
LEMMA OtherFields ==
  ASSUME NEW s, NEW N, StepFits(s, N), NEW r,
         r = [i \in StepFields |-> r[i]], r.run = s.run, r.text = s.text, r.env = s.env
  PROVE  StepFits(r, N)
BY DEF StepFits

(* A run: key. *)
LEMMA StepRunFits ==
  ASSUME NEW s, NEW N, StepFits(s, N), NEW l, Covers(N, l)
  PROVE  StepFits(StepRun(s, l), N) /\ StepRun(s, l).stop = s.stop
<1>1. PICK r : r = <<SecretRefs(l.val)>>
  OBVIOUS
<1>2. r \in Seq(Seq(N)) /\ <<>> \in Seq(Seq(N))
  BY <1>1, RefsFit, EmptySeq
<1>3. StepFits([s EXCEPT !.block = TRUE, !.text = <<>>], N) /\ [s EXCEPT !.block = TRUE, !.text = <<>>].stop = s.stop
  <2>1. PICK t : t = [s EXCEPT !.block = TRUE, !.text = <<>>]
    OBVIOUS
  <2>2. t = [i \in StepFields |-> t[i]] /\ t.run = s.run /\ t.text = <<>> /\ t.env = s.env /\ t.stop = s.stop
    BY <2>1 DEF StepFits, StepFields
  <2>3. StepFits(t, N)
    BY <1>2, <2>2 DEF StepFits
  <2> QED
    BY <2>1, <2>2, <2>3
<1>4. StepFits([s EXCEPT !.run = r], N) /\ [s EXCEPT !.run = r].stop = s.stop
  <2>1. PICK t : t = [s EXCEPT !.run = r]
    OBVIOUS
  <2>2. t = [i \in StepFields |-> t[i]] /\ t.run = r /\ t.text = s.text /\ t.env = s.env /\ t.stop = s.stop
    BY <2>1 DEF StepFits, StepFields
  <2>3. StepFits(t, N)
    BY <1>2, <2>2 DEF StepFits
  <2> QED
    BY <2>1, <2>2, <2>3
<1> QED
  BY <1>1, <1>3, <1>4 DEF StepRun

(* The line with the dash. *)
LEMMA FirstLineFits ==
  ASSUME NEW N, NEW l, Covers(N, l)
  PROVE  StepFits(FirstLineOfStep(l), N) /\ ~FirstLineOfStep(l).stop
<1>1. StepFits(NoStep, N) /\ ~NoStep.stop
  BY NoStepFits
<1>2. StepFits(StepRun(NoStep, l), N) /\ ~StepRun(NoStep, l).stop
  BY <1>1, StepRunFits
<1>3. StepFits([NoStep EXCEPT !.named = TRUE], N) /\ ~[NoStep EXCEPT !.named = TRUE].stop
  <2>1. PICK r : r = [NoStep EXCEPT !.named = TRUE]
    OBVIOUS
  <2>2. r = [i \in StepFields |-> r[i]] /\ r.run = NoStep.run /\ r.text = NoStep.text /\ r.env = NoStep.env /\ r.stop = NoStep.stop
    BY <1>1, <2>1 DEF StepFits, StepFields
  <2> QED
    BY <1>1, <2>1, <2>2, OtherFields
<1>4. StepFits([NoStep EXCEPT !.uses = <<l.val>>], N) /\ ~[NoStep EXCEPT !.uses = <<l.val>>].stop
  <2>1. PICK u : u = <<l.val>>
    OBVIOUS
  <2>2. PICK r : r = [NoStep EXCEPT !.uses = u]
    OBVIOUS
  <2>3. r = [i \in StepFields |-> r[i]] /\ r.run = NoStep.run /\ r.text = NoStep.text /\ r.env = NoStep.env /\ r.stop = NoStep.stop
    BY <1>1, <2>2 DEF StepFits, StepFields
  <2> QED
    BY <1>1, <2>1, <2>2, <2>3, OtherFields
<1>5. FirstLineOfStep(l) \in {NoStep, StepRun(NoStep, l), [NoStep EXCEPT !.named = TRUE], [NoStep EXCEPT !.uses = <<l.val>>]}
  BY DEF FirstLineOfStep
<1> QED
  BY <1>1, <1>2, <1>3, <1>4, <1>5

(* A map with one more entry. *)
LEMMA EntryFits ==
  ASSUME NEW N, NEW l, Covers(N, l), NEW map, \A k \in DOMAIN map : map[k] \in ShimSecrets => map[k] \in N
  PROVE  \A k \in DOMAIN WithEntry(map, l) : WithEntry(map, l)[k] \in ShimSecrets => WithEntry(map, l)[k] \in N
BY DEF WithEntry, Covers

(* What one update of a step does to the fields that matter. *)
KeepsReferences(r, s) ==
  /\ r = [i \in StepFields |-> r[i]] /\ r.run = s.run /\ r.text = s.text /\ r.env = s.env /\ r.stop = s.stop

(* A key of the step. *)
LEMMA StepKeyFits ==
  ASSUME NEW s, NEW N, StepFits(s, N), NEW l, Covers(N, l)
  PROVE  StepFits(StepKey(s, l), N) /\ StepKey(s, l).stop = s.stop
<1>0. s = [i \in StepFields |-> s[i]]
  BY DEF StepFits
<1>1. ASSUME NEW r, KeepsReferences(r, s) PROVE StepFits(r, N) /\ r.stop = s.stop
  BY <1>1, OtherFields DEF KeepsReferences
<1>2. StepFits(StepRun(s, l), N) /\ StepRun(s, l).stop = s.stop
  BY StepRunFits
<1>3. KeepsReferences(s, s)
  BY <1>0 DEF KeepsReferences
<1>4. KeepsReferences([s EXCEPT !.named = TRUE, !.open = "none"], s)
  BY <1>0 DEF KeepsReferences, StepFields
<1>5. StepFits([StepRun(s, l) EXCEPT !.open = "none"], N) /\ [StepRun(s, l) EXCEPT !.open = "none"].stop = s.stop
  <2>1. PICK t : t = StepRun(s, l)
    OBVIOUS
  <2>2. PICK r : r = [t EXCEPT !.open = "none"]
    OBVIOUS
  <2>3. StepFits(t, N) /\ t.stop = s.stop
    BY <1>2, <2>1
  <2>4. KeepsReferences(r, t)
    BY <2>2, <2>3 DEF KeepsReferences, StepFields, StepFits
  <2> QED
    BY <2>1, <2>2, <2>3, <2>4, OtherFields DEF KeepsReferences
<1>6. KeepsReferences([s EXCEPT !.uses = <<l.val>>, !.open = "none"], s)
  <2>1. PICK u : u = <<l.val>>
    OBVIOUS
  <2>2. KeepsReferences([s EXCEPT !.uses = u, !.open = "none"], s)
    BY <1>0 DEF KeepsReferences, StepFields
  <2> QED
    BY <2>1, <2>2
<1>7. KeepsReferences([s EXCEPT !.continues = (l.val = "true"), !.open = "none"], s)
  <2>1. PICK u : u = (l.val = "true")
    OBVIOUS
  <2>2. KeepsReferences([s EXCEPT !.continues = u, !.open = "none"], s)
    BY <1>0 DEF KeepsReferences, StepFields
  <2> QED
    BY <2>1, <2>2
<1>8. KeepsReferences([s EXCEPT !.cond = <<l.val>>, !.open = "none"], s)
  <2>1. PICK u : u = <<l.val>>
    OBVIOUS
  <2>2. KeepsReferences([s EXCEPT !.cond = u, !.open = "none"], s)
    BY <1>0 DEF KeepsReferences, StepFields
  <2> QED
    BY <2>1, <2>2
<1>9. KeepsReferences([s EXCEPT !.open = l.key], s)
  <2>1. PICK u : u = l.key
    OBVIOUS
  <2>2. KeepsReferences([s EXCEPT !.open = u], s)
    BY <1>0 DEF KeepsReferences, StepFields
  <2> QED
    BY <2>1, <2>2
<1>10. KeepsReferences([s EXCEPT !.with = WithEntry(@, l)], s)
  <2>1. PICK u : u = WithEntry(s.with, l)
    OBVIOUS
  <2>2. KeepsReferences([s EXCEPT !.with = u], s)
    BY <1>0 DEF KeepsReferences, StepFields
  <2> QED
    BY <2>1, <2>2
<1>11. StepFits([s EXCEPT !.env = WithEntry(@, l)], N) /\ [s EXCEPT !.env = WithEntry(@, l)].stop = s.stop
  <2>1. PICK u : u = WithEntry(s.env, l)
    OBVIOUS
  <2>2. \A k \in DOMAIN u : u[k] \in ShimSecrets => u[k] \in N
    BY <2>1, EntryFits DEF StepFits
  <2>3. PICK r : r = [s EXCEPT !.env = u]
    OBVIOUS
  <2>4. r = [i \in StepFields |-> r[i]] /\ r.run = s.run /\ r.text = s.text /\ r.env = u /\ r.stop = s.stop
    BY <1>0, <2>3 DEF StepFields
  <2>5. StepFits(r, N)
    BY <2>2, <2>4 DEF StepFits
  <2> QED
    BY <2>1, <2>3, <2>4, <2>5
<1>12. KeepsReferences([s EXCEPT !.reports = @ \cup {<<"step", l.key>>}], s)
  <2>1. PICK u : u = s.reports \cup {<<"step", l.key>>}
    OBVIOUS
  <2>2. KeepsReferences([s EXCEPT !.reports = u], s)
    BY <1>0 DEF KeepsReferences, StepFields
  <2> QED
    BY <2>1, <2>2
<1> DEFINE Entry == l.key \notin StepKeys /\ HasColon(l)
           Report == l.key \in {"timeout-minutes", "retry"} /\ s.open = "none"
<1>13. CASE l.key = "name"
  <2>1. StepKey(s, l) = [s EXCEPT !.named = TRUE, !.open = "none"]
    BY <1>13 DEF StepKey, StepKeys
  <2> QED
    BY <1>1, <1>4, <2>1
<1>14. CASE l.key = "run"
  <2>1. StepKey(s, l) = [StepRun(s, l) EXCEPT !.open = "none"]
    BY <1>14 DEF StepKey, StepKeys
  <2> QED
    BY <1>5, <2>1
<1>15. CASE l.key = "uses"
  <2>1. StepKey(s, l) = [s EXCEPT !.uses = <<l.val>>, !.open = "none"]
    BY <1>15 DEF StepKey, StepKeys
  <2> QED
    BY <1>1, <1>6, <2>1
<1>16. CASE l.key = "continue-on-error"
  <2>1. StepKey(s, l) = [s EXCEPT !.continues = (l.val = "true"), !.open = "none"]
    BY <1>16 DEF StepKey, StepKeys
  <2> QED
    BY <1>1, <1>7, <2>1
<1>17. CASE l.key = "if"
  <2>1. StepKey(s, l) = [s EXCEPT !.cond = <<l.val>>, !.open = "none"]
    BY <1>17 DEF StepKey, StepKeys
  <2> QED
    BY <1>1, <1>8, <2>1
<1>18. CASE l.key \in {"with", "env"}
  <2>1. StepKey(s, l) = [s EXCEPT !.open = l.key]
    BY <1>18 DEF StepKey, StepKeys
  <2> QED
    BY <1>1, <1>9, <2>1
<1>19. CASE Entry /\ s.open = "with"
  <2>1. StepKey(s, l) = [s EXCEPT !.with = WithEntry(@, l)]
    BY <1>19 DEF StepKey, StepKeys
  <2> QED
    BY <1>1, <1>10, <2>1
<1>20. CASE Entry /\ s.open = "env"
  <2>1. StepKey(s, l) = [s EXCEPT !.env = WithEntry(@, l)]
    BY <1>20 DEF StepKey, StepKeys
  <2> QED
    BY <1>11, <2>1
<1>21. CASE Report
  <2>1. StepKey(s, l) = [s EXCEPT !.reports = @ \cup {<<"step", l.key>>}]
    BY <1>21 DEF StepKey, StepKeys
  <2> QED
    BY <1>1, <1>12, <2>1
<1>22. CASE l.key \notin StepKeys /\ ~(Entry /\ s.open = "with") /\ ~(Entry /\ s.open = "env") /\ ~Report
  <2>1. StepKey(s, l) = s
    BY <1>22 DEF StepKey, StepKeys
  <2> QED
    BY <1>1, <1>3, <2>1
<1> QED
  BY <1>13, <1>14, <1>15, <1>16, <1>17, <1>18, <1>19, <1>20, <1>21, <1>22 DEF StepKeys

(* One more line of the step: N has the secrets of its body. *)
LEMMA StepLineFits ==
  ASSUME NEW s, NEW N, StepFits(s, N), NEW l, ~s.stop /\ ~EndsStep(l) => Covers(N, l)
  PROVE  StepFits(StepLine(s, l), N) /\ (~StepLine(s, l).stop => ~s.stop /\ ~EndsStep(l))
<1>0. s = [i \in StepFields |-> s[i]] /\ s.text \in Seq(Seq(N))
  BY DEF StepFits
<1>1. CASE s.stop \/ EndsStep(l)
  <2>1. PICK r : r = [s EXCEPT !.stop = TRUE]
    OBVIOUS
  <2>2. r = [i \in StepFields |-> r[i]] /\ r.run = s.run /\ r.text = s.text /\ r.env = s.env /\ r.stop
    BY <1>0, <2>1 DEF StepFields
  <2>3. StepLine(s, l) = r
    BY <1>1, <2>1 DEF StepLine
  <2> QED
    BY <2>2, <2>3, OtherFields
<1>2. CASE ~(s.stop \/ EndsStep(l))
  <2>0. Covers(N, l)
    BY <1>2
  <2>1. ASSUME NEW x \in Seq(N), StepLine(s, l) = [s EXCEPT !.text = Append(@, x)]
        PROVE  StepFits(StepLine(s, l), N)
    <3>1. PICK t : t = Append(s.text, x)
      OBVIOUS
    <3>2. t \in Seq(Seq(N))
      BY <1>0, <3>1, AppendProperties
    <3>3. PICK r : r = [s EXCEPT !.text = t]
      OBVIOUS
    <3>4. r = [i \in StepFields |-> r[i]] /\ r.run = s.run /\ r.text = t /\ r.env = s.env
      BY <1>0, <3>3 DEF StepFields
    <3>5. StepFits(r, N)
      BY <3>2, <3>4 DEF StepFits
    <3> QED
      BY <2>1, <3>1, <3>3, <3>5
  <2>2. CASE s.block /\ ~IsBlank(l)
    <3>1. StepLine(s, l) = [s EXCEPT !.text = Append(@, SecretRefs(l.val))]
      BY <1>2, <2>2 DEF StepLine
    <3> QED
      BY <1>2, <2>0, <2>1, <3>1, RefsFit
  <2>3. CASE s.block /\ IsBlank(l)
    <3>1. StepLine(s, l) = [s EXCEPT !.text = Append(@, <<>>)]
      BY <1>2, <2>3 DEF StepLine
    <3> QED
      BY <1>2, <2>0, <2>1, <3>1, RefsFit
  <2>4. CASE ~s.block
    <3>1. StepLine(s, l) = StepKey(s, l)
      BY <1>2, <2>4 DEF StepLine
    <3> QED
      BY <1>2, <2>0, <3>1, StepKeyFits
  <2> QED
    BY <1>2, <2>2, <2>3, <2>4
<1> QED
  BY <1>1, <1>2

--------------------------------------------------------------------------------
(* The workflow shim: the walk over the lines *)

(* known is the table of what parse_step knows after each line. *)
IsStepTable(lines, start, known) ==
  known = [n \in 0..(Len(lines) - start) |-> IF n = 0 THEN FirstLineOfStep(lines[start]) ELSE StepLine(known[n - 1], lines[start + n])]

(* Such a table exists. *)
LEMMA StepTableExists ==
  ASSUME NEW lines, NEW start, Len(lines) - start \in Nat
  PROVE  \E known : IsStepTable(lines, start, known)
<1> DEFINE Base == FirstLineOfStep(lines[start])
           Go(n, x) == StepLine(x, lines[start + n])
           P(k) == \E f : f = [n \in 0..k |-> IF n = 0 THEN Base ELSE Go(n, f[n - 1])]
           T == {k \in Nat : P(k)}
<1> HIDE DEF Base, Go
<1>1. 0 \in T
  <2>1. [n \in 0..0 |-> Base] = [n \in 0..0 |-> IF n = 0 THEN Base ELSE Go(n, [m \in 0..0 |-> Base][n - 1])]
    OBVIOUS
  <2> QED
    BY <2>1
<1>2. ASSUME NEW k \in Nat, k \in T PROVE k + 1 \in T
  <2>1. PICK f : f = [n \in 0..k |-> IF n = 0 THEN Base ELSE Go(n, f[n - 1])]
    BY <1>2
  <2> DEFINE g == [n \in 0..(k + 1) |-> IF n = k + 1 THEN Go(k + 1, f[k]) ELSE f[n]]
  <2>2. \A n \in 0..k : f[n] = IF n = 0 THEN Base ELSE Go(n, f[n - 1])
    BY <2>1
  <2>3. ASSUME NEW n \in 0..(k + 1) PROVE g[n] = IF n = 0 THEN Base ELSE Go(n, g[n - 1])
    <3>1. CASE n = k + 1
      <4>1. n # 0 /\ n - 1 = k /\ k \in 0..(k + 1) /\ k # k + 1
        BY <3>1
      <4>2. g[n - 1] = f[k]
        BY <4>1
      <4> QED
        BY <3>1, <4>1, <4>2
    <3>2. CASE n # k + 1
      <4>1. n \in 0..k
        BY <3>2
      <4>2. n # 0 => n - 1 \in 0..(k + 1) /\ n - 1 # k + 1
        BY <4>1
      <4> QED
        BY <3>2, <4>1, <4>2, <2>2
    <3> QED
      BY <3>1, <3>2
  <2>4. g = [n \in 0..(k + 1) |-> IF n = 0 THEN Base ELSE Go(n, g[n - 1])]
    <3> HIDE DEF g
    <3>1. g = [n \in 0..(k + 1) |-> g[n]]
      BY DEF g
    <3> QED
      BY <2>3, <3>1
  <2> HIDE DEF g
  <2>5. P(k + 1)
    BY <2>4, Zenon
  <2> HIDE DEF P
  <2> QED
    BY <2>5
<1> HIDE DEF T
<1>3. \A k \in Nat : k \in T
  BY <1>1, <1>2, NatSetInduction
<1> QED
  BY <1>3 DEF T, IsStepTable, Base, Go

(* What parse_step returns refers to secrets of the step's own lines only. *)
LEMMA ParseStepFits ==
  ASSUME NEW lines \in Seq(ShimLine), NEW start \in 1..Len(lines)
  PROVE  StepFits(ParseStep(lines, start), Named(lines, start))
<1>0. PICK h \in Nat : h = Len(lines) - start
  <2>1. Len(lines) \in Nat
    BY LenProperties
  <2>2. Len(lines) - start \in Nat
    BY <2>1
  <2> QED
    BY <2>2
<1>1. PICK N : N = Named(lines, start)
  OBVIOUS
<1> DEFINE t == CHOOSE known : IsStepTable(lines, start, known)
<1>2. ParseStep(lines, start) = t[h]
  BY <1>0 DEF ParseStep, IsStepTable
<1>3. IsStepTable(lines, start, t)
  BY <1>0, StepTableExists
<1> HIDE DEF t
<1>4. /\ t[0] = FirstLineOfStep(lines[start])
      /\ \A n \in 1..h : t[n] = StepLine(t[n - 1], lines[start + n])
  <2>1. t = [n \in 0..h |-> IF n = 0 THEN FirstLineOfStep(lines[start]) ELSE StepLine(t[n - 1], lines[start + n])]
    BY <1>0, <1>3 DEF IsStepTable
  <2>2. \A n \in 0..h : t[n] = IF n = 0 THEN FirstLineOfStep(lines[start]) ELSE StepLine(t[n - 1], lines[start + n])
    BY <2>1
  <2>3. 0 \in 0..h /\ \A n \in 1..h : n \in 0..h /\ n # 0
    OBVIOUS
  <2> QED
    BY <2>2, <2>3, Zenon
<1>5. ASSUME NEW i \in Body(lines, start) PROVE Covers(N, lines[i])
  BY <1>1, <1>5 DEF Covers, Named
<1>6. ASSUME NEW n \in 0..h, \A j \in (start + 1)..(start + n) : ~EndsStep(lines[j])
      PROVE  start + n \in Body(lines, start)
  <2>1. Len(lines) \in Nat
    BY LenProperties
  <2>2. start + n \in start..Len(lines)
    BY <1>0, <2>1
  <2> QED
    BY <1>6, <2>2 DEF Body
<1> DEFINE Fit(n) == /\ StepFits(t[n], N)
                     /\ ~t[n].stop => \A j \in (start + 1)..(start + n) : ~EndsStep(lines[j])
           T == {n \in Nat : n <= h => Fit(n)}
<1>7. 0 \in T
  <2>1. 0 \in 0..h /\ \A j \in (start + 1)..(start + 0) : ~EndsStep(lines[j])
    OBVIOUS
  <2>2. start \in Body(lines, start)
    <3>1. start + 0 \in Body(lines, start)
      BY <1>6, <2>1
    <3> QED
      BY <3>1
  <2>3. Fit(0)
    BY <1>4, <1>5, <2>1, <2>2, FirstLineFits
  <2> HIDE DEF Fit
  <2> QED
    BY <2>3
<1>8. ASSUME NEW n \in Nat, n \in T PROVE n + 1 \in T
  <2> SUFFICES ASSUME n + 1 <= h PROVE Fit(n + 1)
    OBVIOUS
  <2>0. n + 1 \in 1..h /\ n + 1 \in 0..h /\ (n + 1) - 1 = n
    OBVIOUS
  <2>1. StepFits(t[n], N) /\ (~t[n].stop => \A j \in (start + 1)..(start + n) : ~EndsStep(lines[j]))
    BY <1>8
  <2>2. PICK l : l = lines[start + (n + 1)]
    OBVIOUS
  <2>3. t[n + 1] = StepLine(t[n], l)
    BY <1>4, <2>0, <2>2
  <2>4. ASSUME ~t[n].stop, ~EndsStep(l)
        PROVE  /\ \A j \in (start + 1)..(start + (n + 1)) : ~EndsStep(lines[j])
               /\ Covers(N, l)
    <3>1. ASSUME NEW j \in (start + 1)..(start + (n + 1)) PROVE ~EndsStep(lines[j])
      <4>1. j \in (start + 1)..(start + n) \/ j = start + (n + 1)
        OBVIOUS
      <4> QED
        BY <2>1, <2>2, <2>4, <4>1
    <3>2. start + (n + 1) \in Body(lines, start)
      BY <1>6, <2>0, <3>1
    <3> QED
      BY <1>5, <2>2, <3>1, <3>2
  <2>5. StepFits(StepLine(t[n], l), N) /\ (~StepLine(t[n], l).stop => ~t[n].stop /\ ~EndsStep(l))
    BY <2>1, <2>4, StepLineFits
  <2> QED
    BY <2>3, <2>4, <2>5
<1> HIDE DEF T
<1>9. h \in T
  BY <1>7, <1>8, NatSetInduction
<1>10. StepFits(t[h], N)
  BY <1>9 DEF T
<1> QED
  BY <1>0, <1>1, <1>2, <1>10

(* The references of a parsed step. *)
LEMMA StepOfRefs ==
  ASSUME NEW s, NEW N, StepFits(s, N)
  PROVE  RunRefs(StepOf(s)) \subseteq N /\ EnvRefs(StepOf(s)) \subseteq N
<1>1. PICK step : step = StepOf(s)
  OBVIOUS
<1>2. step.run \in Seq(Seq(N)) /\ step.env = s.env
  BY <1>1 DEF StepOf, StepFits
<1>3. ASSUME NEW i \in DOMAIN step.run PROVE ToSet(step.run[i]) \subseteq N
  <2>1. DOMAIN step.run = 1..Len(step.run)
    BY <1>2, LenProperties
  <2>2. step.run[i] \in Seq(N)
    BY <1>2, <2>1, ElementOfSeq
  <2>3. PICK r : r = step.run[i]
    OBVIOUS
  <2>4. \A j \in DOMAIN r : r[j] \in N
    BY <2>2, <2>3, LenProperties
  <2> QED
    BY <2>3, <2>4 DEF ToSet
<1>4. RunRefs(step) \subseteq N
  BY <1>3 DEF RunRefs
<1>5. EnvRefs(step) \subseteq N
  BY <1>2 DEF EnvRefs, StepFits
<1> QED
  BY <1>1, <1>4, <1>5

JobFields == {"env", "cond", "steps", "from", "open", "reports", "stop"}
Parsed(lines) == {StepOf(ParseStep(lines, i)) : i \in 1..Len(lines)}

(* The steps of a job, each at the line its dash is on. *)
StepsFit(steps, from, lines) ==
  /\ steps \in Seq(Parsed(lines)) /\ from \in Seq(1..Len(lines)) /\ Len(steps) = Len(from)
  /\ \A k \in 1..Len(from) : steps[k] = StepOf(ParseStep(lines, from[k]))

JobFits(job, lines) ==
  job = [i \in JobFields |-> job[i]] /\ StepsFit(job.steps, job.from, lines)

(* A job with one more step. *)
LEMMA StepsGrow ==
  ASSUME NEW steps, NEW from, NEW lines, StepsFit(steps, from, lines), NEW i \in 1..Len(lines), NEW x,
         x = StepOf(ParseStep(lines, i))
  PROVE  StepsFit(Append(steps, x), Append(from, i), lines)
<1>1. x \in Parsed(lines)
  BY DEF Parsed
<1>2. PICK m \in Nat : m = Len(steps) /\ m = Len(from)
  <2>1. Len(steps) \in Nat
    BY LenProperties DEF StepsFit
  <2> QED
    BY <2>1 DEF StepsFit
<1>3. PICK a : a = Append(steps, x)
  OBVIOUS
<1>4. PICK b : b = Append(from, i)
  OBVIOUS
<1>5. /\ a \in Seq(Parsed(lines)) /\ Len(a) = m + 1 /\ a[m + 1] = x
      /\ \A k \in 1..m : a[k] = steps[k]
  BY <1>1, <1>2, <1>3, AppendProperties DEF StepsFit
<1>6. /\ b \in Seq(1..Len(lines)) /\ Len(b) = m + 1 /\ b[m + 1] = i
      /\ \A k \in 1..m : b[k] = from[k]
  BY <1>2, <1>4, AppendProperties DEF StepsFit
<1>7. ASSUME NEW k \in 1..(m + 1) PROVE a[k] = StepOf(ParseStep(lines, b[k]))
  <2>1. CASE k = m + 1
    BY <1>5, <1>6, <2>1
  <2>2. CASE k # m + 1
    <3>1. k \in 1..m
      BY <2>2
    <3>2. steps[k] = StepOf(ParseStep(lines, from[k]))
      BY <1>2, <3>1 DEF StepsFit
    <3> QED
      BY <1>5, <1>6, <3>1, <3>2
  <2> QED
    BY <2>1, <2>2
<1>8. StepsFit(a, b, lines)
  BY <1>5, <1>6, <1>7 DEF StepsFit
<1> QED
  BY <1>3, <1>4, <1>8

(* One more line of the job. *)
LEMMA JobLineFits ==
  ASSUME NEW job, NEW lines, JobFits(job, lines), NEW i \in 1..Len(lines)
  PROVE  JobFits(JobLine(job, lines, i), lines)
<1>0. job = [f \in JobFields |-> job[f]]
  BY DEF JobFits
<1>1. ASSUME NEW r, r = [f \in JobFields |-> r[f]], r.steps = job.steps, r.from = job.from
      PROVE  JobFits(r, lines)
  BY <1>1 DEF JobFits
<1>2. PICK l : l = lines[i]
  OBVIOUS
<1>3. JobFits(job, lines)
  OBVIOUS
<1>4. ASSUME NEW x PROVE JobFits([job EXCEPT !.stop = x], lines)
  <2>1. PICK r : r = [job EXCEPT !.stop = x]
    OBVIOUS
  <2>2. r = [f \in JobFields |-> r[f]] /\ r.steps = job.steps /\ r.from = job.from
    BY <1>0, <2>1 DEF JobFields
  <2> QED
    BY <1>1, <2>1, <2>2
<1>7. ASSUME NEW x PROVE JobFits([job EXCEPT !.open = x], lines)
  <2>1. PICK r : r = [job EXCEPT !.open = x]
    OBVIOUS
  <2>2. r = [f \in JobFields |-> r[f]] /\ r.steps = job.steps /\ r.from = job.from
    BY <1>0, <2>1 DEF JobFields
  <2> QED
    BY <1>1, <2>1, <2>2
<1>8. ASSUME NEW x PROVE JobFits([job EXCEPT !.env = x], lines)
  <2>1. PICK r : r = [job EXCEPT !.env = x]
    OBVIOUS
  <2>2. r = [f \in JobFields |-> r[f]] /\ r.steps = job.steps /\ r.from = job.from
    BY <1>0, <2>1 DEF JobFields
  <2> QED
    BY <1>1, <2>1, <2>2
<1>9. ASSUME NEW x PROVE JobFits([job EXCEPT !.reports = x], lines)
  <2>1. PICK r : r = [job EXCEPT !.reports = x]
    OBVIOUS
  <2>2. r = [f \in JobFields |-> r[f]] /\ r.steps = job.steps /\ r.from = job.from
    BY <1>0, <2>1 DEF JobFields
  <2> QED
    BY <1>1, <2>1, <2>2
<1>11. CASE job.stop \/ EndsJob(l)
  BY <1>2, <1>4, <1>11 DEF JobLine
<1>12. CASE ~(job.stop \/ EndsJob(l))
  <2>0. JobLine(job, lines, i) = JobKey(job, lines, i)
    BY <1>2, <1>12 DEF JobLine
  <2> DEFINE Keys == {"runs-on", "if", "env", "steps"}
             Odd == {"strategy", "services", "container", "timeout-minutes"}
  <2>1. CASE l.key = "runs-on" /\ ~l.dash
    <3>1. PICK y : y = IF l.val = "ubuntu" THEN job.reports ELSE job.reports \cup {<<"runs-on", l.val>>}
      OBVIOUS
    <3>2. PICK r : r = [job EXCEPT !.open = "none", !.reports = y]
      OBVIOUS
    <3>3. JobKey(job, lines, i) = r
      BY <1>2, <2>1, <3>1, <3>2 DEF JobKey
    <3>4. r = [f \in JobFields |-> r[f]] /\ r.steps = job.steps /\ r.from = job.from
      BY <1>0, <3>2 DEF JobFields
    <3> QED
      BY <1>1, <2>0, <3>3, <3>4
  <2>2. CASE l.key = "if" /\ ~l.dash
    <3>1. PICK y : y = <<l.val>>
      OBVIOUS
    <3>2. PICK r : r = [job EXCEPT !.open = "none", !.cond = y]
      OBVIOUS
    <3>3. JobKey(job, lines, i) = r
      BY <1>2, <2>2, <3>1, <3>2 DEF JobKey
    <3>4. r = [f \in JobFields |-> r[f]] /\ r.steps = job.steps /\ r.from = job.from
      BY <1>0, <3>2 DEF JobFields
    <3> QED
      BY <1>1, <2>0, <3>3, <3>4
  <2>3. CASE l.key \in {"env", "steps"} /\ ~l.dash
    <3>1. JobKey(job, lines, i) = [job EXCEPT !.open = l.key]
      BY <1>2, <2>3 DEF JobKey
    <3> QED
      BY <1>7, <2>0, <3>1
  <2>4. CASE l.key \notin Keys /\ ~l.dash /\ job.open = "env" /\ HasColon(l)
    <3>1. JobKey(job, lines, i) = [job EXCEPT !.env = WithEntry(@, l)]
      BY <1>2, <2>4 DEF JobKey
    <3>2. PICK x : x = WithEntry(job.env, l)
      OBVIOUS
    <3>3. JobKey(job, lines, i) = [job EXCEPT !.env = x]
      BY <3>1, <3>2
    <3> QED
      BY <1>8, <2>0, <3>3
  <2>5. CASE l.key \in Odd /\ ~l.dash /\ job.open # "env"
    <3>1. PICK x : x = job.reports \cup {<<"job", l.key>>}
      OBVIOUS
    <3>2. JobKey(job, lines, i) = [job EXCEPT !.reports = x]
      BY <1>2, <2>5, <3>1 DEF JobKey
    <3> QED
      BY <1>9, <2>0, <3>2
  <2>6. CASE l.dash /\ job.open = "steps"
    <3>1. PICK s : s = ParseStep(lines, i)
      OBVIOUS
    <3>2. PICK x, y, z : x = Append(job.steps, StepOf(s)) /\ y = Append(job.from, i) /\ z = job.reports \cup StepReports(s)
      OBVIOUS
    <3>3. PICK r : r = [job EXCEPT !.steps = x, !.from = y, !.reports = z]
      OBVIOUS
    <3>4. JobKey(job, lines, i) = r
      BY <1>2, <2>6, <3>1, <3>2, <3>3 DEF JobKey
    <3>5. StepsFit(x, y, lines)
      BY <3>1, <3>2, StepsGrow DEF JobFits
    <3>6. r = [f \in JobFields |-> r[f]] /\ r.steps = x /\ r.from = y
      BY <1>0, <3>3 DEF JobFields
    <3>7. JobFits(r, lines)
      BY <3>5, <3>6 DEF JobFits
    <3> QED
      BY <2>0, <3>4, <3>7
  <2>7. CASE /\ ~(l.key = "runs-on" /\ ~l.dash) /\ ~(l.key = "if" /\ ~l.dash) /\ ~(l.key \in {"env", "steps"} /\ ~l.dash)
             /\ ~(l.key \notin Keys /\ ~l.dash /\ job.open = "env" /\ HasColon(l))
             /\ ~(l.key \in Odd /\ ~l.dash /\ job.open # "env") /\ ~(l.dash /\ job.open = "steps")
    <3>1. JobKey(job, lines, i) = job
      BY <1>2, <2>7 DEF JobKey
    <3> QED
      BY <1>3, <2>0, <3>1
  <2> QED
    BY <2>1, <2>2, <2>3, <2>4, <2>5, <2>6, <2>7
<1> QED
  BY <1>11, <1>12

(* known is the table of what parse_single_job knows after each line. *)
IsJobTable(lines, start, known) ==
  known = [n \in 0..(Len(lines) - start + 1) |-> IF n = 0 THEN NoJob ELSE JobLine(known[n - 1], lines, start + n - 1)]

(* Such a table exists. *)
LEMMA JobTableExists ==
  ASSUME NEW lines, NEW start, Len(lines) - start + 1 \in Nat
  PROVE  \E known : IsJobTable(lines, start, known)
<1> DEFINE Base == NoJob
           Go(n, x) == JobLine(x, lines, start + n - 1)
           P(k) == \E f : f = [n \in 0..k |-> IF n = 0 THEN Base ELSE Go(n, f[n - 1])]
           T == {k \in Nat : P(k)}
<1> HIDE DEF Base, Go
<1>1. 0 \in T
  <2>1. [n \in 0..0 |-> Base] = [n \in 0..0 |-> IF n = 0 THEN Base ELSE Go(n, [m \in 0..0 |-> Base][n - 1])]
    OBVIOUS
  <2> QED
    BY <2>1
<1>2. ASSUME NEW k \in Nat, k \in T PROVE k + 1 \in T
  <2>1. PICK f : f = [n \in 0..k |-> IF n = 0 THEN Base ELSE Go(n, f[n - 1])]
    BY <1>2
  <2> DEFINE g == [n \in 0..(k + 1) |-> IF n = k + 1 THEN Go(k + 1, f[k]) ELSE f[n]]
  <2>2. \A n \in 0..k : f[n] = IF n = 0 THEN Base ELSE Go(n, f[n - 1])
    BY <2>1
  <2>3. ASSUME NEW n \in 0..(k + 1) PROVE g[n] = IF n = 0 THEN Base ELSE Go(n, g[n - 1])
    <3>1. CASE n = k + 1
      <4>1. n # 0 /\ n - 1 = k /\ k \in 0..(k + 1) /\ k # k + 1
        BY <3>1
      <4>2. g[n - 1] = f[k]
        BY <4>1
      <4> QED
        BY <3>1, <4>1, <4>2
    <3>2. CASE n # k + 1
      <4>1. n \in 0..k
        BY <3>2
      <4>2. n # 0 => n - 1 \in 0..(k + 1) /\ n - 1 # k + 1
        BY <4>1
      <4> QED
        BY <3>2, <4>1, <4>2, <2>2
    <3> QED
      BY <3>1, <3>2
  <2>4. g = [n \in 0..(k + 1) |-> IF n = 0 THEN Base ELSE Go(n, g[n - 1])]
    <3> HIDE DEF g
    <3>1. g = [n \in 0..(k + 1) |-> g[n]]
      BY DEF g
    <3> QED
      BY <2>3, <3>1
  <2> HIDE DEF g
  <2>5. P(k + 1)
    BY <2>4, Zenon
  <2> HIDE DEF P
  <2> QED
    BY <2>5
<1> HIDE DEF T
<1>3. \A k \in Nat : k \in T
  BY <1>1, <1>2, NatSetInduction
<1> QED
  BY <1>3 DEF T, IsJobTable, Base, Go

(* The steps of a parsed job. *)
LEMMA ParseSingleJobFits ==
  ASSUME NEW lines \in Seq(ShimLine), NEW start \in 1..(Len(lines) + 1)
  PROVE  JobFits(ParseSingleJob(lines, start), lines)
<1>0. PICK h \in Nat : h = Len(lines) - start + 1
  <2>1. Len(lines) \in Nat
    BY LenProperties
  <2>2. Len(lines) - start + 1 \in Nat
    BY <2>1
  <2> QED
    BY <2>2
<1> DEFINE t == CHOOSE known : IsJobTable(lines, start, known)
<1>1. ParseSingleJob(lines, start) = t[h]
  BY <1>0 DEF ParseSingleJob, IsJobTable
<1>2. IsJobTable(lines, start, t)
  BY <1>0, JobTableExists
<1> HIDE DEF t
<1>3. t[0] = NoJob /\ \A n \in 1..h : t[n] = JobLine(t[n - 1], lines, start + n - 1)
  <2>1. t = [n \in 0..h |-> IF n = 0 THEN NoJob ELSE JobLine(t[n - 1], lines, start + n - 1)]
    BY <1>0, <1>2 DEF IsJobTable
  <2>2. \A n \in 0..h : t[n] = IF n = 0 THEN NoJob ELSE JobLine(t[n - 1], lines, start + n - 1)
    BY <2>1
  <2>3. 0 \in 0..h /\ \A n \in 1..h : n \in 0..h /\ n # 0
    OBVIOUS
  <2> QED
    BY <2>2, <2>3, Zenon
<1> DEFINE T == {n \in Nat : n <= h => JobFits(t[n], lines)}
<1>4. 0 \in T
  <2>1. NoJob = [f \in JobFields |-> NoJob[f]] /\ NoJob.steps = <<>> /\ NoJob.from = <<>>
    BY DEF NoJob, JobFields
  <2>2. StepsFit(<<>>, <<>>, lines)
    BY EmptySeq DEF StepsFit
  <2>3. JobFits(t[0], lines)
    BY <1>3, <2>1, <2>2 DEF JobFits
  <2> QED
    BY <2>3
<1>5. ASSUME NEW n \in Nat, n \in T PROVE n + 1 \in T
  <2> SUFFICES ASSUME n + 1 <= h PROVE JobFits(t[n + 1], lines)
    OBVIOUS
  <2>1. n + 1 \in 1..h /\ (n + 1) - 1 = n /\ JobFits(t[n], lines)
    BY <1>5
  <2>2. Len(lines) \in Nat
    BY LenProperties
  <2>3. PICK i \in 1..Len(lines) : i = start + (n + 1) - 1
    BY <1>0, <2>2
  <2>4. t[n + 1] = JobLine(t[n], lines, i)
    BY <1>3, <2>1, <2>3
  <2> QED
    BY <2>1, <2>4, JobLineFits
<1> HIDE DEF T
<1>6. h \in T
  BY <1>4, <1>5, NatSetInduction
<1> QED
  BY <1>1, <1>6 DEF T

(* The first job of a file. *)
LEMMA FirstJobFits ==
  ASSUME NEW lines \in Seq(ShimLine), ParseJobs(lines) # <<>>
  PROVE  JobFits(ParseJobs(lines)[1], lines)
<1> DEFINE ids == {i \in DOMAIN lines : OpensJob(lines[i]) /\ InJobs(lines, i)}
           nth(n) == CHOOSE i \in ids : Cardinality({j \in ids : j <= i}) = n
<1>1. ParseJobs(lines) = [n \in 1..Cardinality(ids) |-> ParseSingleJob(lines, nth(n) + 1)]
  BY DEF ParseJobs
<1>2. Len(lines) \in Nat /\ ids \subseteq 1..Len(lines)
  <2>1. DOMAIN lines = 1..Len(lines)
    BY LenProperties
  <2>2. Len(lines) \in Nat
    BY LenProperties
  <2> QED
    BY <2>1, <2>2
<1> HIDE DEF ids
<1>3. IsFiniteSet(ids) /\ Cardinality(ids) \in Nat
  <2>1. IsFiniteSet(1..Len(lines))
    BY <1>2, FS_Interval
  <2> QED
    BY <1>2, <2>1, FS_Subset, FS_CardinalityType
<1>4. Cardinality(ids) # 0
  <2> SUFFICES ASSUME Cardinality(ids) = 0 PROVE FALSE
    OBVIOUS
  <2>1. 1..Cardinality(ids) = {}
    OBVIOUS
  <2>2. ParseJobs(lines) = <<>>
    BY <1>1, <2>1
  <2> QED
    BY <2>2
<1>5. 1 \in 1..Cardinality(ids) /\ ids # {}
  BY <1>3, <1>4, FS_EmptySet
<1>6. PICK i \in ids : \A j \in ids : i <= j
  <2>1. ids \in SUBSET Nat
    BY <1>2
  <2> QED
    BY <1>5, <2>1, LeastNumber
<1>7. {j \in ids : j <= i} = {i}
  <2>1. i \in Nat /\ \A j \in ids : j \in Nat
    BY <1>2
  <2>2. \A j \in ids : j <= i => j = i
    <3> SUFFICES ASSUME NEW j \in ids, j <= i PROVE j = i
      OBVIOUS
    <3>1. i <= j /\ j \in Nat
      BY <1>6, <2>1
    <3> QED
      BY <2>1, <3>1
  <2>3. i <= i
    BY <2>1
  <2> QED
    BY <2>2, <2>3, Zenon
<1>8. Cardinality({j \in ids : j <= i}) = 1
  BY <1>7, FS_Singleton
<1>9. nth(1) \in ids
  BY <1>8
<1>10. nth(1) + 1 \in 1..(Len(lines) + 1)
  <2>1. PICK m \in 1..Len(lines) : m = nth(1)
    BY <1>2, <1>9
  <2>2. m + 1 \in 1..(Len(lines) + 1)
    BY <1>2
  <2> HIDE DEF nth
  <2> QED
    BY <2>1, <2>2
<1>11. ParseJobs(lines)[1] = ParseSingleJob(lines, nth(1) + 1)
  BY <1>1, <1>5
<1> HIDE DEF nth
<1> QED
  BY <1>10, <1>11, ParseSingleJobFits

--------------------------------------------------------------------------------
(* The workflow shim: the execution *)

ShimOutcome == [kind : {"Skipped", "OutOfContract", "SecretDenied", "Success"}, secret : ShimSecrets \cup {""}]

(* What a reader of the k-th outcome may rely on; N are the secrets that the lines of its step name. *)
OutcomeFits(k, run, N, reports) ==
  /\ run.outcomes[k].kind = "Success" => \A n \in ShimSecrets : <<k, n>> \notin run.denied
  /\ run.outcomes[k].kind = "SecretDenied" =>
        /\ run.outcomes[k].secret \in N
        /\ k = Len(run.outcomes) /\ ~run.ok
        /\ <<"secret", run.outcomes[k].secret>> \in reports

ShimInv ==
  /\ shimFile.lines \in Seq(ShimLine)
  /\ shimRun.outcomes \in Seq(ShimOutcome)
  /\ shimRun = [f \in {"outcomes", "ok", "denied"} |-> shimRun[f]]
  /\ shimWork = [f \in {"phase", "jobs", "triggers", "error"} |-> shimWork[f]]
  /\ \A d \in shimRun.denied : \E j \in 1..Len(shimRun.outcomes) : \E n \in ShimSecrets : d = <<j, n>>
  /\ shimWork.phase = "writing" => shimRun.outcomes = <<>>
  /\ shimWork.phase = "parsed" => shimWork.jobs = ParseJobs(shimFile.lines)
  /\ \A k \in 1..Len(shimRun.outcomes) :
        OutcomeFits(k, shimRun, Named(shimFile.lines, shimWork.jobs[1].from[k]), shimReports)

(* The outcomes a step can have, and what they say of the answers. *)
LEMMA OutcomeOfStep ==
  ASSUME NEW step, NEW N \in SUBSET ShimSecrets, RunRefs(step) \subseteq N, EnvRefs(step) \subseteq N, NEW broker,
         NEW a \in AnswersOf(broker, step), NEW o \in Outcomes(step, a)
  PROVE  /\ o \in ShimOutcome
         /\ o.kind = "Success" => \A n \in ShimSecrets :
                a["run"][n] \in {"unasked", "resolved"} /\ a["env"][n] \in {"unasked", "resolved"}
         /\ o.kind = "SecretDenied" => o.secret \in N
<1> DEFINE runDenied == {n \in RunRefs(step) : ~RunAccepts(a["run"][n])}
           envDenied == {n \in EnvRefs(step) : ~EnvAccepts(a["env"][n])}
           denied == IF runDenied # {} THEN runDenied ELSE envDenied
<1>1. \/ o = [kind |-> "Skipped", secret |-> ""] \/ o = [kind |-> "OutOfContract", secret |-> ""]
      \/ \E n \in denied : o = [kind |-> "SecretDenied", secret |-> n]
      \/ denied = {} /\ o = [kind |-> "Success", secret |-> ""]
  BY Zenon DEF Outcomes
<1>2. runDenied \subseteq N /\ envDenied \subseteq N
  OBVIOUS
<1>3. ASSUME denied = {}, NEW n \in ShimSecrets
      PROVE  a["run"][n] \in {"unasked", "resolved"} /\ a["env"][n] \in {"unasked", "resolved"}
  <2>1. /\ n \notin RunRefs(step) => a["run"][n] = "unasked"
        /\ n \notin EnvRefs(step) => a["env"][n] = "unasked"
    BY DEF AnswersOf
  <2>2. runDenied = {} /\ envDenied = {}
    BY <1>3
  <2>3. /\ n \in RunRefs(step) => a["run"][n] = "resolved"
        /\ n \in EnvRefs(step) => a["env"][n] = "resolved"
    BY <2>2 DEF RunAccepts, EnvAccepts
  <2> QED
    BY <2>1, <2>3
<1>4. denied \subseteq N
  BY <1>2
<1> HIDE DEF denied
<1>5. CASE \E n \in denied : o = [kind |-> "SecretDenied", secret |-> n]
  <2>1. PICK n \in denied : o = [kind |-> "SecretDenied", secret |-> n]
    BY <1>5
  <2>2. n \in N /\ n \in ShimSecrets
    BY <1>4, <2>1
  <2> QED
    BY <2>1, <2>2 DEF ShimOutcome
<1>6. CASE denied = {} /\ o = [kind |-> "Success", secret |-> ""]
  BY <1>3, <1>6 DEF ShimOutcome
<1>7. CASE o = [kind |-> "Skipped", secret |-> ""] \/ o = [kind |-> "OutOfContract", secret |-> ""]
  <2>1. CASE o = [kind |-> "Skipped", secret |-> ""]
    BY <2>1 DEF ShimOutcome
  <2>2. CASE o = [kind |-> "OutOfContract", secret |-> ""]
    BY <2>2 DEF ShimOutcome
  <2> QED
    BY <1>7, <2>1, <2>2
<1> QED
  BY <1>1, <1>5, <1>6, <1>7

(* The references of the k-th step of the first job are among the secrets its own lines name. *)
LEMMA StepRefsAreNamed ==
  ASSUME NEW lines \in Seq(ShimLine), NEW job, JobFits(job, lines), NEW k \in 1..Len(job.steps)
  PROVE  /\ RunRefs(job.steps[k]) \subseteq Named(lines, job.from[k])
         /\ EnvRefs(job.steps[k]) \subseteq Named(lines, job.from[k])
<1>1. k \in 1..Len(job.from)
  BY DEF JobFits, StepsFit
<1>2. job.steps[k] = StepOf(ParseStep(lines, job.from[k]))
  BY <1>1 DEF JobFits, StepsFit
<1>3. job.from[k] \in 1..Len(lines)
  BY <1>1, ElementOfSeq DEF JobFits, StepsFit
<1>4. PICK i \in 1..Len(lines) : i = job.from[k]
  BY <1>3
<1>5. StepFits(ParseStep(lines, i), Named(lines, i))
  BY ParseStepFits
<1>6. RunRefs(StepOf(ParseStep(lines, i))) \subseteq Named(lines, i) /\ EnvRefs(StepOf(ParseStep(lines, i))) \subseteq Named(lines, i)
  BY <1>5, StepOfRefs
<1> QED
  BY <1>2, <1>4, <1>6

(* What execute_step adds to the run. *)
LEMMA ExecuteStepKeepsInv == ASSUME ShimInv, ExecuteStep PROVE ShimInv'
<1> DEFINE m == Len(shimRun.outcomes)
<1>1. PICK lines, jobs : lines = shimFile.lines /\ jobs = shimWork.jobs
  OBVIOUS
<1>2. JobFits(jobs[1], lines) /\ lines \in Seq(ShimLine)
  <2>1. jobs = ParseJobs(lines) /\ jobs # <<>> /\ lines \in Seq(ShimLine)
    BY <1>1 DEF ShimInv, ExecuteStep
  <2> QED
    BY <2>1, FirstJobFits
<1>3. m \in Nat /\ shimRun.outcomes \in Seq(ShimOutcome)
  BY LenProperties DEF ShimInv
<1>4. m + 1 \in 1..Len(jobs[1].steps)
  <2>1. Len(jobs[1].steps) \in Nat
    BY <1>2, LenProperties DEF JobFits, StepsFit
  <2>2. m < Len(jobs[1].steps)
    BY <1>1 DEF ExecuteStep
  <2> QED
    BY <1>3, <2>1, <2>2
<1>5. PICK step, N : step = jobs[1].steps[m + 1] /\ N = Named(lines, jobs[1].from[m + 1])
  OBVIOUS
<1>6. RunRefs(step) \subseteq N /\ EnvRefs(step) \subseteq N /\ N \in SUBSET ShimSecrets
  BY <1>2, <1>4, <1>5, StepRefsAreNamed DEF Named
<1> DEFINE Step(a, o) ==
         /\ shimRun' = [outcomes |-> Append(shimRun.outcomes, o),
                        ok |-> o.kind \notin {"SecretDenied", "OutOfContract"},
                        denied |-> shimRun.denied \cup
                           {<<m + 1, n>> : n \in {s \in ShimSecrets :
                               \/ a["run"][s] \notin {"unasked", "resolved"}
                               \/ a["env"][s] \notin {"unasked", "resolved"}}}]
         /\ shimReports' = shimReports \cup
               CASE o.kind = "SecretDenied" -> {<<"secret", o.secret>>}
                 [] o.kind = "OutOfContract" -> {<<"uses", step.uses[1]>>}
                 [] OTHER -> {}
<1>7. PICK a \in AnswersOf(shimBroker, step) : \E o \in Outcomes(step, a) : Step(a, o)
  BY <1>1, <1>5, Zenon DEF ExecuteStep
<1>8. PICK o \in Outcomes(step, a) : Step(a, o)
  BY <1>7
<1>9. /\ o \in ShimOutcome
      /\ o.kind = "Success" => \A n \in ShimSecrets :
             a["run"][n] \in {"unasked", "resolved"} /\ a["env"][n] \in {"unasked", "resolved"}
      /\ o.kind = "SecretDenied" => o.secret \in N
  BY <1>6, OutcomeOfStep
<1>10. shimRun.ok /\ UNCHANGED <<shimFile, shimWork>> /\ shimWork.phase = "parsed"
  BY DEF ExecuteStep
<1> DEFINE bad == {s \in ShimSecrets :
               \/ a["run"][s] \notin {"unasked", "resolved"}
               \/ a["env"][s] \notin {"unasked", "resolved"}}
<1>11. /\ shimRun'.outcomes = Append(shimRun.outcomes, o)
       /\ shimRun'.ok = (o.kind \notin {"SecretDenied", "OutOfContract"})
       /\ shimRun'.denied = shimRun.denied \cup {<<m + 1, n>> : n \in bad}
       /\ shimRun' = [f \in {"outcomes", "ok", "denied"} |-> shimRun'[f]]
  BY <1>8
<1>12. o.kind = "Success" => bad = {}
  BY <1>9
<1>13. bad \subseteq ShimSecrets
  OBVIOUS
<1>14. shimReports \subseteq shimReports' /\ (o.kind = "SecretDenied" => <<"secret", o.secret>> \in shimReports')
  <2>1. o.kind = "SecretDenied" => shimReports' = shimReports \cup {<<"secret", o.secret>>}
    BY <1>8
  <2>2. shimReports \subseteq shimReports'
    BY <1>8
  <2> QED
    BY <2>1, <2>2
<1> HIDE DEF bad
<1>15. /\ shimRun'.outcomes \in Seq(ShimOutcome) /\ Len(shimRun'.outcomes) = m + 1
       /\ shimRun'.outcomes[m + 1] = o
       /\ \A k \in 1..m : shimRun'.outcomes[k] = shimRun.outcomes[k]
  BY <1>3, <1>9, <1>11, AppendProperties
<1>16. \A d \in shimRun.denied : \E j \in 1..m : \E n \in ShimSecrets : d = <<j, n>>
  BY DEF ShimInv
<1>17. \A d \in shimRun'.denied : \E j \in 1..(m + 1) : \E n \in ShimSecrets : d = <<j, n>>
  <2> SUFFICES ASSUME NEW d \in shimRun'.denied PROVE \E j \in 1..(m + 1) : \E n \in ShimSecrets : d = <<j, n>>
    OBVIOUS
  <2>1. CASE d \in shimRun.denied
    <3>1. PICK j \in 1..m : \E n \in ShimSecrets : d = <<j, n>>
      BY <1>16, <2>1
    <3>2. j \in 1..(m + 1)
      BY <1>3
    <3> QED
      BY <3>1, <3>2
  <2>2. CASE d \in {<<m + 1, n>> : n \in bad}
    <3>1. m + 1 \in 1..(m + 1)
      BY <1>3
    <3> QED
      BY <1>13, <2>2, <3>1
  <2> QED
    BY <1>11, <2>1, <2>2
<1>18. ASSUME NEW k \in 1..m
       PROVE  OutcomeFits(k, shimRun', Named(lines, jobs[1].from[k]), shimReports')
  <2>1. OutcomeFits(k, shimRun, Named(lines, jobs[1].from[k]), shimReports)
    BY <1>1 DEF ShimInv
  <2>2. shimRun.outcomes[k].kind # "SecretDenied" /\ shimRun'.outcomes[k] = shimRun.outcomes[k]
    BY <1>10, <1>15, <2>1 DEF OutcomeFits
  <2>3. \A n : <<k, n>> \in shimRun'.denied => <<k, n>> \in shimRun.denied
    <3>1. k # m + 1
      BY <1>3
    <3> QED
      BY <1>11, <3>1
  <2> QED
    BY <2>1, <2>2, <2>3 DEF OutcomeFits
<1>19. OutcomeFits(m + 1, shimRun', N, shimReports')
  <2>1. ASSUME o.kind = "Success", NEW n \in ShimSecrets PROVE <<m + 1, n>> \notin shimRun'.denied
    <3>1. <<m + 1, n>> \notin shimRun.denied
      <4> SUFFICES ASSUME <<m + 1, n>> \in shimRun.denied PROVE FALSE
        OBVIOUS
      <4>1. PICK j \in 1..m : \E p \in ShimSecrets : <<m + 1, n>> = <<j, p>>
        BY <1>16
      <4>2. m + 1 = j
        BY <4>1
      <4> QED
        BY <1>3, <4>2
    <3> QED
      BY <1>11, <1>12, <2>1, <3>1
  <2>2. o.kind = "SecretDenied" => ~shimRun'.ok
    BY <1>11
  <2> QED
    BY <1>9, <1>14, <1>15, <2>1, <2>2 DEF OutcomeFits
<1>20. \A k \in 1..(m + 1) : OutcomeFits(k, shimRun', Named(lines, jobs[1].from[k]), shimReports')
  <2> SUFFICES ASSUME NEW k \in 1..(m + 1) PROVE OutcomeFits(k, shimRun', Named(lines, jobs[1].from[k]), shimReports')
    OBVIOUS
  <2>1. k \in 1..m \/ k = m + 1
    BY <1>3
  <2> QED
    BY <1>5, <1>18, <1>19, <2>1
<1>21. lines = shimFile'.lines /\ jobs = shimWork'.jobs
  BY <1>1, <1>10
<1> HIDE DEF m
<1>22. \A k \in 1..Len(shimRun'.outcomes) : OutcomeFits(k, shimRun', Named(shimFile'.lines, shimWork'.jobs[1].from[k]), shimReports')
  BY <1>15, <1>20, <1>21, Zenon
<1>23. \A d \in shimRun'.denied : \E j \in 1..Len(shimRun'.outcomes) : \E n \in ShimSecrets : d = <<j, n>>
  BY <1>15, <1>17, Zenon
<1>24. /\ shimFile'.lines \in Seq(ShimLine)
       /\ shimWork' = [f \in {"phase", "jobs", "triggers", "error"} |-> shimWork'[f]]
       /\ shimWork'.phase # "writing"
       /\ shimWork'.phase = "parsed" => shimWork'.jobs = ParseJobs(shimFile'.lines)
  BY <1>10 DEF ShimInv
<1> QED
  BY <1>11, <1>15, <1>22, <1>23, <1>24 DEF ShimInv

(* ShimInv is inductive. *)
THEOREM ShimInvariance == ShimSpec => []ShimInv
<1>1. ShimInit => ShimInv
  <2> SUFFICES ASSUME ShimInit PROVE ShimInv
    OBVIOUS
  <2>1. shimFile.lines \in Seq(ShimLine)
    BY ShimAssumption DEF ShimInit
  <2>2. shimRun.outcomes = <<>> /\ shimRun.denied = {} /\ shimRun = [f \in {"outcomes", "ok", "denied"} |-> shimRun[f]]
    BY DEF ShimInit, NoRun
  <2>3. shimWork.phase = "writing" /\ shimWork = [f \in {"phase", "jobs", "triggers", "error"} |-> shimWork[f]]
    BY DEF ShimInit
  <2>4. <<>> \in Seq(ShimOutcome) /\ Len(<<>>) = 0
    BY EmptySeq
  <2>5. 1..Len(shimRun.outcomes) = {}
    BY <2>2, <2>4
  <2> QED
    BY <2>1, <2>2, <2>3, <2>4, <2>5 DEF ShimInv
<1>2. ShimInv /\ [ShimNext]_shimVars => ShimInv'
  <2> SUFFICES ASSUME ShimInv, [ShimNext]_shimVars PROVE ShimInv'
    OBVIOUS
  <2>1. CASE WriteLine
    <3>1. PICK l \in ShimLines : shimFile' = [lines |-> Append(shimFile.lines, l), added |-> shimFile.added + 1]
      BY <2>1 DEF WriteLine
    <3>2. shimFile'.lines = Append(shimFile.lines, l) /\ l \in ShimLine
      BY <3>1, ShimAssumption
    <3>3. shimFile'.lines \in Seq(ShimLine)
      BY <3>2, AppendProperties DEF ShimInv
    <3>4. UNCHANGED <<shimWork, shimRun, shimReports>> /\ shimWork.phase = "writing"
      BY <2>1 DEF WriteLine
    <3>5. shimRun.outcomes = <<>>
      BY <3>4 DEF ShimInv
    <3>6. 1..Len(shimRun'.outcomes) = {}
      BY <3>4, <3>5, EmptySeq
    <3> QED
      BY <3>3, <3>4, <3>5, <3>6 DEF ShimInv
  <2>2. CASE ParseFails
    <3>1. UNCHANGED <<shimFile, shimRun, shimReports>>
      BY <2>2 DEF ParseFails
    <3>2. /\ shimWork' = [f \in {"phase", "jobs", "triggers", "error"} |-> shimWork'[f]]
          /\ shimWork'.phase = "refused" /\ shimWork'.jobs = shimWork.jobs
      BY <2>2 DEF ParseFails, ShimInv
    <3> QED
      BY <3>1, <3>2 DEF ShimInv
  <2>3. CASE ParseWorkflow
    <3>1. UNCHANGED <<shimFile, shimRun>> /\ shimWork.phase = "writing"
      BY <2>3 DEF ParseWorkflow
    <3>2. shimWork' = [phase |-> "parsed", jobs |-> ParseJobs(shimFile.lines), error |-> "none", triggers |-> ParseTriggers(shimFile.lines)]
      BY <2>3 DEF ParseWorkflow
    <3>3. /\ shimWork' = [f \in {"phase", "jobs", "triggers", "error"} |-> shimWork'[f]]
          /\ shimWork'.phase = "parsed" /\ shimWork'.jobs = ParseJobs(shimFile'.lines)
      BY <3>1, <3>2
    <3>4. shimRun.outcomes = <<>>
      BY <3>1 DEF ShimInv
    <3>5. 1..Len(shimRun'.outcomes) = {}
      BY <3>1, <3>4, EmptySeq
    <3> QED
      BY <3>1, <3>3, <3>5 DEF ShimInv
  <2>4. CASE ExecuteNoJob
    <3>1. UNCHANGED <<shimFile, shimReports>>
      BY <2>4 DEF ExecuteNoJob
    <3>2. /\ shimWork' = [f \in {"phase", "jobs", "triggers", "error"} |-> shimWork'[f]]
          /\ shimWork'.phase = "done" /\ shimWork'.jobs = shimWork.jobs
      BY <2>4 DEF ExecuteNoJob, ShimInv
    <3>3. /\ shimRun' = [f \in {"outcomes", "ok", "denied"} |-> shimRun'[f]]
          /\ shimRun'.outcomes = shimRun.outcomes /\ shimRun'.denied = shimRun.denied /\ ~shimRun'.ok
      BY <2>4 DEF ExecuteNoJob, ShimInv
    <3>4. ASSUME NEW k \in 1..Len(shimRun'.outcomes)
          PROVE  OutcomeFits(k, shimRun', Named(shimFile'.lines, shimWork'.jobs[1].from[k]), shimReports')
      <4>1. OutcomeFits(k, shimRun, Named(shimFile.lines, shimWork.jobs[1].from[k]), shimReports)
        BY <3>3 DEF ShimInv
      <4> QED
        BY <3>1, <3>2, <3>3, <4>1 DEF OutcomeFits
    <3> QED
      BY <3>1, <3>2, <3>3, <3>4 DEF ShimInv
  <2>5. CASE ExecuteStep
    BY <2>5, ExecuteStepKeepsInv
  <2>6. CASE ExecuteReturns
    <3>1. UNCHANGED <<shimFile, shimRun, shimReports>>
      BY <2>6 DEF ExecuteReturns
    <3>2. /\ shimWork' = [f \in {"phase", "jobs", "triggers", "error"} |-> shimWork'[f]]
          /\ shimWork'.phase = "done" /\ shimWork'.jobs = shimWork.jobs
      BY <2>6 DEF ExecuteReturns, ShimInv
    <3> QED
      BY <3>1, <3>2 DEF ShimInv
  <2>7. CASE CompareGated \/ CompareRan
    <3>1. UNCHANGED <<shimFile, shimRun, shimReports>>
      BY <2>7 DEF CompareGated, CompareRan
    <3>2. /\ shimWork' = [f \in {"phase", "jobs", "triggers", "error"} |-> shimWork'[f]]
          /\ shimWork'.phase = "compared" /\ shimWork'.jobs = shimWork.jobs
      BY <2>7 DEF CompareGated, CompareRan, ShimInv
    <3> QED
      BY <3>1, <3>2 DEF ShimInv
  <2>8. CASE UNCHANGED shimVars
    BY <2>8 DEF ShimInv, shimVars
  <2> QED
    BY <2>1, <2>2, <2>3, <2>4, <2>5, <2>6, <2>7, <2>8 DEF ShimNext
<1> QED
  BY <1>1, <1>2, PTL DEF ShimSpec

(* SecretsFailClosed: a step that is reported as run had its secrets granted, a denied one ends the job and is     *)
(* reported, whatever the workflow file and the broker.                                                             *)
THEOREM SecretsAlwaysFailClosed == ShimSpec => []SecretsFailClosed
<1>1. ShimInv => SecretsFailClosed
  <2> SUFFICES ASSUME ShimInv, NEW k \in DOMAIN shimRun.outcomes
               PROVE  LET o == shimRun.outcomes[k]
                          named == {shimFile.lines[i].val : i \in StepBody(k)} \cap ShimSecrets
                      IN  /\ o.kind = "Success" => \A n \in ShimSecrets : <<k, n>> \notin shimRun.denied
                          /\ o.kind = "SecretDenied" =>
                                /\ o.secret \in named
                                /\ k = Len(shimRun.outcomes) /\ ~shimRun.ok
                                /\ <<"secret", o.secret>> \in shimReports
    BY DEF SecretsFailClosed
  <2>1. k \in 1..Len(shimRun.outcomes)
    BY LenProperties DEF ShimInv
  <2>2. OutcomeFits(k, shimRun, Named(shimFile.lines, shimWork.jobs[1].from[k]), shimReports)
    BY <2>1 DEF ShimInv
  <2>3. Named(shimFile.lines, shimWork.jobs[1].from[k]) = {shimFile.lines[i].val : i \in StepBody(k)} \cap ShimSecrets
    BY Zenon DEF Named, Body, StepBody
  <2> QED
    BY <2>2, <2>3 DEF OutcomeFits
<1> QED
  BY <1>1, ShimInvariance, PTL

(* ContainmentHolds: a job writes only inside its fence, and no secret that was not granted reaches a step. *)
THEOREM ContainmentAlwaysHolds == FenceSpec /\ ShimSpec => []ContainmentHolds
<1>1. FenceHolds /\ SecretsFailClosed => ContainmentHolds
  BY DEF ContainmentHolds
<1> QED
  BY <1>1, FenceAlwaysHolds, SecretsAlwaysFailClosed, PTL
================================================================================
