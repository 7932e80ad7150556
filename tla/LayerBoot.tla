------------------------------- MODULE LayerBoot -------------------------------
(***************************************************************************)
(* Cache-warm boot: hydrate and cold_hydrate over the HTTP CAS client,     *)
(* several jobs at a time sharing one HttpBootCas and its in-process set   *)
(* of cached keys.  A request is answered by a status or not at all, and   *)
(* the store may evict a layer between two requests.                       *)
(***************************************************************************)
EXTENDS Integers, Sequences, FiniteSets

CONSTANTS
  Boots,       \* the hydrations
  Plan,        \* the layers of the plan, in order; "" is an empty content key
  MaxOutages,  \* requests that meet a failing substrate
  MaxEvictions

ASSUME LayerAssumption == Plan \in Seq(STRING) /\ MaxOutages \in Nat /\ MaxEvictions \in Nat

VARIABLES
  casStore,  \* what the CAS holds: layer -> "bytes", or "empty" if a miss was stored
  casCache,  \* HttpBootCas.cache
  boot,      \* per hydration: where it is, the layer, how many were fetched, the outcome
  seen,      \* per hydration, the layers it found or fetched, and those it missed (a plan may
             \* name a layer twice)
  outages,
  evictions

layerVars == <<casStore, casCache, boot, seen, outages, evictions>>

Layers == {Plan[i] : i \in DOMAIN Plan}
LayerOf(b) == Plan[boot[b].layer]

--------------------------------------------------------------------------------
(* The client: a status, or no answer, and what the caller makes of it. *)

NoAnswer == 0
Statuses == {200, 404, 401, 403, 503, 302, NoAnswer}

(* Mutant: an outage reads like an absent layer. *)
StatusToOutcomeLenient(status) == CASE status = 200 -> "hit" [] status \in {404, 503} -> "miss" [] OTHER -> "fail"

(* status_to_outcome; execute and fetch_layer treat a transport error alike. *)
StatusToOutcome(status) == CASE status = 200 -> "hit" [] status = 404 -> "miss" [] OTHER -> "fail"

(* The service's own answer about a layer, or an outage. *)
Answers(truthful, status) ==
  \/ status = truthful /\ UNCHANGED outages
  \/ status \in Statuses \ {200, 404} /\ outages < MaxOutages /\ outages' = outages + 1

Held(k) == IF k \in DOMAIN casStore THEN 200 ELSE 404

--------------------------------------------------------------------------------
(* validate_plan *)
ValidPlan(blankLease) == ~blankLease /\ "" \notin Layers

LayerInit ==
  /\ \E present \in SUBSET (Layers \ {""}) : casStore = [k \in present |-> "bytes"]
  /\ casCache = {} /\ outages = 0 /\ evictions = 0
  /\ boot = [b \in Boots |-> [at |-> "idle", cold |-> FALSE, layer |-> 1, fetched |-> 0, outcome |-> "none"]]
  /\ seen = [b \in Boots |-> [ready |-> {}, missed |-> {}, failed |-> FALSE]]

BootEnds(b, outcome) == boot' = [boot EXCEPT ![b].at = "done", ![b].outcome = outcome]

(* On to the next layer, or to the end: Hydrated. *)
NextLayer(b, fetched) ==
  boot' = [boot EXCEPT ![b].fetched = @ + fetched,
    ![b].layer = IF @ = Len(Plan) THEN @ ELSE @ + 1,
    ![b].at = IF boot[b].layer = Len(Plan) THEN "done" ELSE IF boot[b].cold THEN "fetch" ELSE "look",
    ![b].outcome = IF boot[b].layer = Len(Plan) THEN "hydrated" ELSE @]

(* hydrate looks first, cold_hydrate fetches every layer; a plan without *)
(* layers is hydrated at once.                                           *)
StartBoot(b, cold, blankLease) ==
  /\ boot[b].at = "idle"
  /\ CASE ~ValidPlan(blankLease) -> BootEnds(b, "invalid")
       [] ValidPlan(blankLease) /\ Plan = <<>> -> BootEnds(b, "hydrated")
       [] OTHER -> boot' = [boot EXCEPT ![b].at = IF cold THEN "fetch" ELSE "look", ![b].cold = cold]
  /\ UNCHANGED <<casStore, casCache, seen, outages, evictions>>

(* is_cached: the in-process set, else any 2xx of the CAS; an outage is "no". *)
LookUp(b) ==
  LET k == LayerOf(b)
  IN  /\ boot[b].at = "look"
      /\ \E status \in Statuses :
           /\ IF k \in casCache THEN status = 200 /\ UNCHANGED outages ELSE Answers(Held(k), status)
           /\ IF status = 200
              THEN NextLayer(b, 0) /\ seen' = [seen EXCEPT ![b].ready = @ \cup {k}]
              ELSE boot' = [boot EXCEPT ![b].at = "fetch"] /\ UNCHANGED seen
      /\ UNCHANGED <<casStore, casCache, evictions>>

(* On None the layer is skipped: no write-back, the key is not cached. *)
AfterMiss(b) == NextLayer(b, 0)

(* fetch_layer: bytes, None for a miss, an error that ends the boot. *)
FetchLayer(b) ==
  LET k == LayerOf(b)
  IN  /\ boot[b].at = "fetch"
      /\ \E status \in Statuses :
           /\ Answers(Held(k), status)
           /\ CASE StatusToOutcome(status) = "hit" ->
                     /\ boot' = [boot EXCEPT ![b].at = "write"]
                     /\ seen' = [seen EXCEPT ![b].ready = @ \cup {k}, ![b].missed = @ \ {k}]
                [] StatusToOutcome(status) = "miss" ->
                     AfterMiss(b) /\ seen' = [seen EXCEPT ![b].missed = @ \cup {k}, ![b].failed = IF status = 404 THEN @ ELSE TRUE]
                [] OTHER -> BootEnds(b, "substrate down") /\ seen' = [seen EXCEPT ![b].failed = TRUE]
      /\ UNCHANGED <<casStore, casCache, evictions>>

(* write_layer: stored under the hash of the bytes, the key is cached only on  *)
(* a 2xx.  A failed write ends the boot as ForcedCold; it may have happened.   *)
WriteLayer(b) ==
  LET k == LayerOf(b)
      stored == [x \in DOMAIN casStore \cup {k} |-> IF x # k THEN casStore[x]
                                                    ELSE IF k \in seen[b].missed THEN "empty" ELSE "bytes"]
  IN  /\ boot[b].at = "write"
      /\ \E status \in Statuses :
           /\ Answers(200, status)
           /\ IF StatusToOutcome(status) = "hit"
              THEN casStore' = stored /\ casCache' = casCache \cup {k} /\ NextLayer(b, 1)
              ELSE casStore' \in {casStore, stored} /\ UNCHANGED casCache /\ BootEnds(b, "forced cold")
      /\ UNCHANGED <<seen, evictions>>

(* The CAS drops a layer nobody announced. *)
Evict(k) ==
  /\ evictions < MaxEvictions /\ k \in DOMAIN casStore
  /\ casStore' = [x \in DOMAIN casStore \ {k} |-> casStore[x]]
  /\ evictions' = evictions + 1
  /\ UNCHANGED <<casCache, boot, seen, outages>>

LayerNext ==
  \/ \E b \in Boots :
       \/ \E cold, blankLease \in BOOLEAN : StartBoot(b, cold, blankLease)
       \/ LookUp(b) \/ FetchLayer(b) \/ WriteLayer(b)
  \/ \E k \in Layers : Evict(k)

LayerSpec == LayerInit /\ [][LayerNext]_layerVars

--------------------------------------------------------------------------------
(* Jobs sharing the store never poison it for each other and never report a  *)
(* boot as good over a failing substrate: only bytes that were fetched are   *)
(* stored or remembered, a hydrated boot met no failed fetch and accounted   *)
(* for every layer as found or missed.                                       *)
HonestHydration ==
  /\ \A k \in DOMAIN casStore : casStore[k] = "bytes"
  /\ casCache \subseteq UNION {seen[b].ready : b \in Boots}
  /\ \A b \in Boots : boot[b].outcome = "hydrated" =>
       ~seen[b].failed /\ seen[b].ready \cup seen[b].missed = Layers

(* "All required layers are materialized and ready", the doc of Hydrated. *)
HydratedIsReady == \A b \in Boots : boot[b].outcome = "hydrated" => seen[b].ready = Layers
===============================================================================
