--------------------------- MODULE SuspensionOutbox ---------------------------
(****************************************************************************)
(* The durable suspension of a tenant (pg_ledger/suspension.rs), its delivery *)
(* to the spawn Worker by every instance's reaper (reaper.rs) and the         *)
(* lifecycle lookup credential issuers make (credential_lifecycle_api.rs).    *)
(* Suspending writes the row and an outbox event with the tenant's current    *)
(* generation in one transaction; lifting the suspension raises the           *)
(* generation.  The Worker (external) closes every credential of the tenant   *)
(* up to the generation of the event it receives, those that are registered   *)
(* later included.  Every transaction runs under the tenant's suspension      *)
(* fence, so each is one step.                                                *)
(****************************************************************************)
EXTENDS Integers, Sequences, FiniteSets

CONSTANTS
  Dispatchers,     \* running dispatch_tenant_suspension_events calls
  Issuers,         \* credential issuers
  MaxEvents,       \* bound on the events ever written
  MaxGeneration    \* bound on the lifecycle generation

ASSUME OutboxAssumption == MaxEvents \in Nat /\ MaxGeneration \in Nat

VARIABLES
  pointer,     \* fabric_suspended_tenants: NotSuspended, NullPointer, or the event
  generation,  \* tenant_lifecycle_generations, NoGeneration for no row
  outbox,      \* tenant_suspension_events: [generation, delivered]
  dispatch,    \* dispatch[d]: the event d is delivering
  floor,       \* the Worker: credentials up to this generation are closed
  issuing,       \* issuing[i]: the lifecycle an issuer looked up
  credentials  \* generations of the live credentials

outboxVars == <<pointer, generation, outbox, dispatch, floor, issuing, credentials>>

NotSuspended == 0
NullPointer == 0 - 1
NoGeneration == 0 - 1
NoEvent == [event |-> 0, at |-> "idle"]
NoLookup == [at |-> "idle", generation |-> NoGeneration]

(* A database from before the outbox may have a suspended tenant without an   *)
(* event and without a generation.                                            *)
OutboxInit ==
  /\ pointer \in {NotSuspended, NullPointer}
  /\ generation = NoGeneration
  /\ outbox = <<>>
  /\ dispatch = [d \in Dispatchers |-> NoEvent]
  /\ floor = NoGeneration
  /\ issuing = [i \in Issuers |-> NoLookup]
  /\ credentials = {}

Suspended == pointer # NotSuspended

(* ensure_generation: a first row starts at 0 for a tenant that was suspended *)
(* without one, and at 1 otherwise.                                           *)
EnsuredGeneration ==
  IF generation # NoGeneration THEN generation ELSE IF Suspended THEN 0 ELSE 1

Pending(e) == e \in DOMAIN outbox /\ ~outbox[e].delivered

(* Mutant: one event per tenant; a second suspension finds the first one's. *)
RecordSuspensionOnce ==
  /\ Len(outbox) < MaxEvents
  /\ generation' = EnsuredGeneration
  /\ outbox' = IF outbox = <<>> THEN <<[generation |-> EnsuredGeneration, delivered |-> FALSE]>> ELSE outbox
  /\ pointer' = 1
  /\ UNCHANGED <<dispatch, floor, issuing, credentials>>

(* record_tenant_suspension: a suspension that has its event keeps it. *)
RecordSuspension ==
  /\ Len(outbox) < MaxEvents
  /\ generation' = EnsuredGeneration
  /\ IF pointer \in {NotSuspended, NullPointer}
     THEN /\ outbox' = Append(outbox, [generation |-> EnsuredGeneration, delivered |-> FALSE])
          /\ pointer' = Len(outbox) + 1
     ELSE UNCHANGED <<outbox, pointer>>
  /\ UNCHANGED <<dispatch, floor, issuing, credentials>>

(* set_tenant_suspended(tenant, false): unsuspend_tenant. *)
LiftSuspension ==
  /\ EnsuredGeneration < MaxGeneration
  /\ generation' = IF Suspended THEN EnsuredGeneration + 1 ELSE EnsuredGeneration
  /\ pointer' = NotSuspended
  /\ UNCHANGED <<outbox, dispatch, floor, issuing, credentials>>

--------------------------------------------------------------------------------
(* dispatch_tenant_suspension_events; several run at once, on one instance    *)
(* after a slow delivery and on different instances.                          *)

Goto(d, e, at) == dispatch' = [dispatch EXCEPT ![d] = [event |-> e, at |-> at]]

(* The pending list, and the attempt stamp. *)
PickEvent(d, e) ==
  /\ dispatch[d] = NoEvent /\ Pending(e)
  /\ Goto(d, e, "post")
  /\ UNCHANGED <<pointer, generation, outbox, floor, issuing, credentials>>

(* suspension_envelope_body: the generation the event was written with. *)
EnvelopeGeneration(e) == outbox[e].generation

(* The Worker closes what the event covers; its answer may be lost. *)
PostEvent(d) ==
  LET e == dispatch[d].event
      g == EnvelopeGeneration(e)
  IN  /\ dispatch[d].at = "post"
      /\ \/ /\ floor' = IF g > floor THEN g ELSE floor
            /\ credentials' = {c \in credentials : c.generation > g}
            /\ \/ Goto(d, e, "acked")
               \/ dispatch' = [dispatch EXCEPT ![d] = NoEvent]
         \/ /\ dispatch' = [dispatch EXCEPT ![d] = NoEvent]
            /\ UNCHANGED <<floor, credentials>>
      /\ UNCHANGED <<pointer, generation, outbox, issuing>>

(* mark_tenant_suspension_event_delivered, or the instance dies before. *)
MarkDelivered(d) ==
  /\ dispatch[d].at = "acked"
  /\ \/ outbox' = [outbox EXCEPT ![dispatch[d].event].delivered = TRUE]
     \/ UNCHANGED outbox
  /\ dispatch' = [dispatch EXCEPT ![d] = NoEvent]
  /\ UNCHANGED <<pointer, generation, floor, issuing, credentials>>

--------------------------------------------------------------------------------
(* An issuer asks for the tenant's lifecycle and registers what it minted. *)
LookUp(i) ==
  /\ issuing[i] = NoLookup
  /\ generation' = EnsuredGeneration
  /\ issuing' = [issuing EXCEPT ![i] =
       IF Suspended THEN NoLookup ELSE [at |-> "minted", generation |-> EnsuredGeneration]]
  /\ UNCHANGED <<pointer, outbox, dispatch, floor, credentials>>

(* The Worker refuses a credential its floor covers. *)
Register(i) ==
  /\ issuing[i].at = "minted"
  /\ credentials' = IF issuing[i].generation > floor
                    THEN credentials \cup {[issuer |-> i, generation |-> issuing[i].generation]}
                    ELSE credentials
  /\ issuing' = [issuing EXCEPT ![i] = NoLookup]
  /\ UNCHANGED <<pointer, generation, outbox, dispatch, floor>>

DispatchStep(d) == PostEvent(d) \/ MarkDelivered(d)

OutboxNext ==
  \/ RecordSuspension \/ LiftSuspension
  \/ \E d \in Dispatchers : DispatchStep(d) \/ \E e \in DOMAIN outbox : PickEvent(d, e)
  \/ \E i \in Issuers : LookUp(i) \/ Register(i)

OutboxSpec == OutboxInit /\ [][OutboxNext]_outboxVars

--------------------------------------------------------------------------------
(* Properties *)

(* Once the event of a suspension is delivered, no credential of the tenant   *)
(* is alive, and none becomes alive until the suspension is lifted, although  *)
(* issuers that looked before the suspension register after it.               *)
SuspensionRevokes ==
  pointer > 0 => (outbox[pointer].delivered => credentials = {})

(* Delivering again what was already acted on, or delivering it after the     *)
(* tenant was resumed, never reaches a credential of the resumed tenant.      *)
ResumedIsNotRevoked == pointer = NotSuspended /\ generation # NoGeneration => floor < generation

(* A delivered suspension leaves no live credential, and a late or repeated   *)
(* delivery reaches no credential of the resumed tenant.                      *)
SuspensionIsExact == SuspensionRevokes /\ ResumedIsNotRevoked
===============================================================================
