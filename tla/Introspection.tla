---------------------------- MODULE Introspection -----------------------------
(****************************************************************************)
(* How a request is authenticated and its plan resolved against the CoreLink  *)
(* introspect endpoint (auth.rs, corelink_auth.rs, introspect_cache.rs,       *)
(* introspect_coalesce.rs, introspect_breaker.rs, corelink_plans.rs).  The    *)
(* auth leg looks in the TTL cache, then joins or leads a single flight per   *)
(* token; the leader takes an introspect permit, asks the circuit breaker and *)
(* retries.  The plan leg reads the body the auth leg captured, or, when the  *)
(* auth store is static, introspects itself in a flight of its own.  The plan *)
(* store keeps the ceiling of the tenant's last resolve, which                *)
(* build_compute_gate reads back.  A client that hangs up drops its handler;  *)
(* the blocking call the handler started runs on without it.                  *)
(* All requests are of one tenant; the endpoint is external.                  *)
(****************************************************************************)
EXTENDS Integers, FiniteSets

CONSTANTS
  AuthRequests,     \* requests
  TokenOf,          \* TokenOf[r]: the bearer token of r
  GoodTokens,       \* tokens the endpoint knows
  IntrospectPermits,\* FABRIC_INTROSPECT_MAX_INFLIGHT
  Threshold,        \* breaker threshold
  Cooldown,         \* breaker cooldown
  Attempts,         \* INTROSPECT_ATTEMPTS
  CacheTtl,         \* FABRIC_INTROSPECT_CACHE_TTL_MS, 0 is off
  CacheMax,         \* FABRIC_INTROSPECT_CACHE_MAX
  MaxNow            \* bound on the clock

ASSUME IntrospectionAssumption ==
  /\ {Cooldown, Attempts, CacheTtl, MaxNow} \subseteq Nat
  /\ {Threshold, CacheMax} \subseteq Nat \ {0}

VARIABLES
  clockNow,    \* Instant::now
  breaker,     \* [open, consecutive, openedAt]
  flight,      \* flight[leg][t]: the leader of token t in that leg, or NoLeader
  asked,       \* asked[r]: where request r is
  authCache,   \* authCache[t]: [body, expires]
  planCache,   \* the ceiling cached for the tenant, NoCeiling when absent
  entitlement, \* the endpoint's ceiling of the tenant, NoCeiling for a plan without a cap
  backend      \* FABRIC_AUTH_BACKEND: "static" or "corelink"

introVars == <<clockNow, breaker, flight, asked, authCache, planCache, entitlement, backend>>

NoLeader == "none"
NoCeiling == 0 - 1
NoBody == [valid |-> FALSE, ceiling |-> NoCeiling, known |-> FALSE]
NoEntry == [body |-> NoBody, expires |-> 0]
NewRequest == [at |-> "new", leg |-> "auth", tries |-> 0, probe |-> NoCeiling, body |-> NoBody, ceiling |-> NoCeiling]

Legs == {"auth", "plan"}

Tokens == {TokenOf[r] : r \in AuthRequests}

IntroInit ==
  /\ clockNow = 0
  /\ breaker = [open |-> FALSE, consecutive |-> 0, openedAt |-> 0]
  /\ flight = [leg \in Legs |-> [t \in Tokens |-> NoLeader]]
  /\ asked = [r \in AuthRequests |-> NewRequest]
  /\ authCache = [t \in Tokens |-> NoEntry]
  /\ planCache = NoCeiling
  /\ entitlement = 2
  /\ backend \in {"static", "corelink"}

--------------------------------------------------------------------------------
(* introspect_cache.rs *)

Cached(t) == authCache[t] # NoEntry /\ authCache[t].expires > clockNow

LiveTokens == {t \in Tokens : Cached(t)}

(* put: a full cache drops what expired, and then stores nothing. *)
CachePut(t, body) ==
  LET kept == IF Cardinality({u \in Tokens : authCache[u] # NoEntry}) >= CacheMax /\ authCache[t] = NoEntry
              THEN [u \in Tokens |-> IF u \in LiveTokens THEN authCache[u] ELSE NoEntry]
              ELSE authCache
      full == Cardinality({u \in Tokens : kept[u] # NoEntry}) >= CacheMax /\ kept[t] = NoEntry
  IN  authCache' = IF CacheTtl = 0 \/ full THEN kept
                   ELSE [kept EXCEPT ![t] = [body |-> body, expires |-> clockNow + CacheTtl]]

(* get evicts an entry that expired. *)
CacheGet(t) == authCache' = IF Cached(t) THEN authCache ELSE [authCache EXCEPT ![t] = NoEntry]

--------------------------------------------------------------------------------
(* require_tenant *)

AskGoes(r, at) == asked' = [asked EXCEPT ![r].at = at]

AskRefused(r) == AskGoes(r, "refused")

CacheHit(r) ==
  /\ asked[r].at = "new" /\ backend = "corelink" /\ Cached(TokenOf[r])
  /\ asked' = [asked EXCEPT ![r] = [@ EXCEPT !.at = "plan", !.body = authCache[TokenOf[r]].body]]
  /\ UNCHANGED <<clockNow, breaker, flight, authCache, planCache, entitlement, backend>>

StaticAuth(r) ==
  /\ asked[r].at = "new" /\ backend = "static"
  /\ AskGoes(r, IF TokenOf[r] \in GoodTokens THEN "plan" ELSE "refused")
  /\ UNCHANGED <<clockNow, breaker, flight, authCache, planCache, entitlement, backend>>

(* Who has to ask the endpoint: an auth leg without a cached answer, a plan   *)
(* leg without a captured body.                                               *)
Asks(r, leg) ==
  \/ leg = "auth" /\ asked[r].at = "new" /\ backend = "corelink" /\ ~Cached(TokenOf[r])
  \/ leg = "plan" /\ asked[r].at = "plan" /\ ~asked[r].body.known

EntersLeg(r, leg, at) ==
  /\ asked' = [asked EXCEPT ![r].at = at, ![r].leg = leg]
  /\ IF leg = "auth" THEN CacheGet(TokenOf[r]) ELSE UNCHANGED authCache

(* SingleFlight::run: the flight of the token is joined or begun. *)
Join(r, leg) ==
  /\ Asks(r, leg) /\ flight[leg][TokenOf[r]] # NoLeader
  /\ EntersLeg(r, leg, "follow")
  /\ UNCHANGED <<clockNow, breaker, flight, planCache, entitlement, backend>>

Lead(r, leg) ==
  /\ Asks(r, leg) /\ flight[leg][TokenOf[r]] = NoLeader
  /\ flight' = [flight EXCEPT ![leg][TokenOf[r]] = r]
  /\ EntersLeg(r, leg, "permit")
  /\ UNCHANGED <<clockNow, breaker, planCache, entitlement, backend>>

Calling == {r \in AuthRequests : asked[r].at \in {"gate", "post"}}

(* The permit is the handler's: it goes with the handler, not with the call. *)
Inflight == {r \in Calling : asked[r].leg # "orphan"}

(* try_acquire_owned of the introspect gate; a full gate sheds. *)
TakePermit(r) ==
  /\ asked[r].at = "permit"
  /\ IF Cardinality(Inflight) < IntrospectPermits
     THEN AskGoes(r, "gate")
     ELSE asked' = [asked EXCEPT ![r].at = "answered", ![r].body = NoBody]
  /\ UNCHANGED <<clockNow, breaker, flight, authCache, planCache, entitlement, backend>>

--------------------------------------------------------------------------------
(* run_introspect *)

BreakerCooling == clockNow - breaker.openedAt < Cooldown

(* Mutant: the probe does not restart the cooldown. *)
OnCallKeepsWindow(r) ==
  /\ asked[r].at = "gate"
  /\ asked' = [asked EXCEPT ![r] =
       IF ~breaker.open THEN [@ EXCEPT !.at = "post", !.tries = 0]
       ELSE IF BreakerCooling THEN [@ EXCEPT !.at = "answered", !.body = NoBody]
       ELSE [@ EXCEPT !.at = "post", !.tries = 0, !.probe = clockNow]]
  /\ UNCHANGED <<clockNow, breaker, flight, authCache, planCache, entitlement, backend>>

(* on_call: closed, rejected while cooling, or the one probe. *)
OnCall(r) ==
  /\ asked[r].at = "gate"
  /\ asked' = [asked EXCEPT ![r] =
       IF ~breaker.open THEN [@ EXCEPT !.at = "post", !.tries = 0]
       ELSE IF BreakerCooling THEN [@ EXCEPT !.at = "answered", !.body = NoBody]
       ELSE [@ EXCEPT !.at = "post", !.tries = 0, !.probe = clockNow]]
  /\ breaker' = IF breaker.open /\ ~BreakerCooling THEN [breaker EXCEPT !.openedAt = clockNow] ELSE breaker
  /\ UNCHANGED <<clockNow, flight, authCache, planCache, entitlement, backend>>

ClosedBreaker == [open |-> FALSE, consecutive |-> 0, openedAt |-> 0]

EndpointAnswer(r) ==
  [valid |-> TokenOf[r] \in GoodTokens, ceiling |-> entitlement, known |-> TRUE]

(* The endpoint answers 200, or an authoritative error. *)
Responded(r) ==
  /\ asked[r].at = "post"
  /\ breaker' = ClosedBreaker
  /\ \E body \in {EndpointAnswer(r), NoBody} :
       asked' = [asked EXCEPT ![r] = [@ EXCEPT !.at = "answered", !.body = body, !.probe = NoCeiling]]
  /\ UNCHANGED <<clockNow, flight, authCache, planCache, entitlement, backend>>

Trip ==
  IF breaker.open \/ breaker.consecutive + 1 >= Threshold
  THEN [open |-> TRUE, consecutive |-> 0, openedAt |-> clockNow]
  ELSE [breaker EXCEPT !.consecutive = @ + 1]

(* A transport error or a 5xx: the next attempt, or on_transient_failure. *)
Transient(r) ==
  /\ asked[r].at = "post"
  /\ IF asked[r].tries + 1 < Attempts
     THEN asked' = [asked EXCEPT ![r].tries = @ + 1] /\ UNCHANGED breaker
     ELSE /\ asked' = [asked EXCEPT ![r] = [@ EXCEPT !.at = "answered", !.body = NoBody, !.probe = NoCeiling]]
          /\ breaker' = Trip
  /\ UNCHANGED <<clockNow, flight, authCache, planCache, entitlement, backend>>

--------------------------------------------------------------------------------
(* The end of a flight *)

Followers(r) ==
  {f \in AuthRequests : asked[f].at = "follow" /\ TokenOf[f] = TokenOf[r] /\ asked[f].leg = asked[r].leg}

Flight(r, at, body) ==
  /\ asked' = [f \in AuthRequests |->
       IF f \in Followers(r) \cup {r} THEN [asked[f] EXCEPT !.at = at, !.body = body] ELSE asked[f]]
  /\ flight' = [flight EXCEPT ![asked[r].leg][TokenOf[r]] = NoLeader]

Resolved(body) == IF body.known /\ body.valid THEN "plan" ELSE "refused"

(* The leader publishes its outcome to every follower and the slot goes. *)
Publish(r) ==
  LET body == asked[r].body IN
  /\ asked[r].at = "answered" /\ asked[r].leg = "auth"
  /\ Flight(r, Resolved(body), body)
  /\ IF Resolved(body) = "plan" THEN CachePut(TokenOf[r], body) ELSE UNCHANGED authCache
  /\ UNCHANGED <<clockNow, breaker, planCache, entitlement, backend>>

DroppedLeader(r) == IF asked[r].at = "permit" THEN [asked[r] EXCEPT !.at = "refused"]
                                        ELSE [asked[r] EXCEPT !.leg = "orphan"]

FreesFlight(r) ==
  /\ asked[r].at \in {"permit", "gate", "post"} /\ asked[r].leg \in Legs
  /\ flight' = [flight EXCEPT ![asked[r].leg][TokenOf[r]] = NoLeader]

(* The leader's client hangs up: the sender drops and the followers fail      *)
(* closed.  The blocking call goes on, and its result is nobody's.            *)
LeaderDrops(r) ==
  /\ FreesFlight(r)
  /\ asked' = [f \in AuthRequests |-> IF f = r THEN DroppedLeader(r)
                ELSE IF f \in Followers(r) THEN [asked[f] EXCEPT !.at = "refused"] ELSE asked[f]]
  /\ UNCHANGED <<clockNow, breaker, authCache, planCache, entitlement, backend>>

OrphanEnds(r) ==
  /\ asked[r].at = "answered" /\ asked[r].leg = "orphan"
  /\ AskRefused(r)
  /\ UNCHANGED <<clockNow, breaker, flight, authCache, planCache, entitlement, backend>>

--------------------------------------------------------------------------------
(* corelink_plans.rs *)

HasPlan(body) == body.known /\ body.valid /\ body.ceiling # NoCeiling

(* parse_plan_200: a plan without a cap, and an answer that cannot be used,   *)
(* take the tenant out of the cache.                                          *)
ParsePlan(body) == planCache' = IF HasPlan(body) THEN body.ceiling ELSE NoCeiling

Planned(body) == IF HasPlan(body) THEN "admit" ELSE "refused"

(* plan_of_resolving_cached with the captured body, or with a resolve of the  *)
(* leader's own, which answers its followers too.                             *)
PlanFromBody(r) ==
  /\ asked[r].at = "plan" /\ asked[r].body.known
  /\ ParsePlan(asked[r].body)
  /\ AskGoes(r, Planned(asked[r].body))
  /\ UNCHANGED <<clockNow, breaker, flight, authCache, entitlement, backend>>

PlanResolved(r) ==
  /\ asked[r].at = "answered" /\ asked[r].leg = "plan"
  /\ ParsePlan(asked[r].body)
  /\ Flight(r, Planned(asked[r].body), asked[r].body)
  /\ UNCHANGED <<clockNow, breaker, authCache, entitlement, backend>>

(* build_compute_gate: tenant_ceiling_vcpu_ms reads the cache back, 0 when    *)
(* the tenant is not in it, and 0 turns the compute check off.                *)
BuildGate(r) ==
  /\ asked[r].at = "admit"
  /\ asked' = [asked EXCEPT ![r].at = "done", ![r].ceiling = IF planCache = NoCeiling THEN 0 ELSE planCache]
  /\ UNCHANGED <<clockNow, breaker, flight, authCache, planCache, entitlement, backend>>

--------------------------------------------------------------------------------
(* Time, and the tenant's entitlement at the endpoint. *)
ClockTicks ==
  /\ clockNow < MaxNow
  /\ clockNow' = clockNow + 1
  /\ UNCHANGED <<breaker, flight, asked, authCache, planCache, entitlement, backend>>

EntitlementChanges ==
  /\ entitlement' \in {1, NoCeiling} /\ entitlement = 2
  /\ UNCHANGED <<clockNow, breaker, flight, asked, authCache, planCache, backend>>

IntroNext ==
  \/ \E r \in AuthRequests :
       \/ CacheHit(r) \/ StaticAuth(r) \/ TakePermit(r)
       \/ \E leg \in Legs : Join(r, leg) \/ Lead(r, leg)
       \/ OnCall(r) \/ Responded(r) \/ Transient(r) \/ Publish(r) \/ LeaderDrops(r)
       \/ OrphanEnds(r) \/ PlanFromBody(r) \/ PlanResolved(r) \/ BuildGate(r)
  \/ ClockTicks \/ EntitlementChanges

IntroSpec == IntroInit /\ [][IntroNext]_introVars

--------------------------------------------------------------------------------
(* Properties *)

(* However calls, late failures and recoveries interleave on the shared       *)
(* breaker, two probes are never sent within one cooldown.                    *)
ProbesAreSpaced ==
  \A r, q \in AuthRequests :
    r # q /\ asked[r].probe # NoCeiling /\ asked[q].probe # NoCeiling =>
      asked[r].probe - asked[q].probe >= Cooldown \/ asked[q].probe - asked[r].probe >= Cooldown

(* No follower hangs: whoever waits on a flight waits on one whose leader is  *)
(* still working, also after a leader was cancelled.                          *)
FollowersHaveALeader ==
  \A f \in AuthRequests : asked[f].at = "follow" =>
    LET l == flight[asked[f].leg][TokenOf[f]] IN
      l # NoLeader /\ asked[l].leg = asked[f].leg /\ asked[l].at \in {"permit", "gate", "post", "answered"}

(* Fail closed: sheds, brownouts, cancelled leaders, evictions and shared     *)
(* answers never let a token through that the endpoint does not know.         *)
OnlyKnownTokensPass ==
  \A r \in AuthRequests : asked[r].at \in {"plan", "admit", "done"} => TokenOf[r] \in GoodTokens

(* Introspection: probes of a broken endpoint are a cooldown apart, and no     *)
(* shed, shared or cached answer lets an unknown token through.                *)
IntrospectionFailsClosed == ProbesAreSpaced /\ OnlyKnownTokensPass

(* auth.rs:161: "the total number of concurrent introspect round-trips ... is *)
(* bounded fabric-wide by one knob".                                          *)
RoundTripsBounded == Cardinality(Calling) <= IntrospectPermits

(* build_compute_gate reads the ceiling "cached on THIS acquire's plan        *)
(* resolution": an acquire whose plan has a ceiling is gated by it.           *)
MeteredIsGated ==
  \A r \in AuthRequests : asked[r].at = "done" /\ asked[r].body.ceiling > 0 => asked[r].ceiling > 0
===============================================================================
