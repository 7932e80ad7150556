------------------------------- MODULE RateGate -------------------------------
(****************************************************************************)
(* The per-minute rate ceiling of acquire (caps.rs and handlers/leases.rs).   *)
(* Every instance keeps a RateWindow per tenant.  The handler reads the clock *)
(* when it starts and uses that instant after its awaits, so the instants of  *)
(* concurrent acquires reach the window out of order and late.                *)
(****************************************************************************)
EXTENDS Naturals, FiniteSets

CONSTANTS
  RateAcquires,   \* acquire attempts
  RateTenant,     \* RateTenant[r]: who makes it
  RateShards,     \* instances
  RateCeiling,    \* rate_ceiling_per_min
  Minute,         \* the window: 60 s
  MaxLag,         \* bound on the time from reading the clock to the rate check
  RateMaxNow      \* bound on the clock

ASSUME RateAssumption ==
  /\ {RateCeiling, Minute, MaxLag, RateMaxNow} \subseteq Nat /\ MaxLag < Minute
  /\ IsFiniteSet(RateShards)

VARIABLES
  rateNow,    \* the clock
  windows,    \* windows[s][t]: the acquires whose instants tenant t's RateWindow holds on s
  attempt     \* attempt[r]: [at, shard, now_ms, checked]

rateVars == <<rateNow, windows, attempt>>

RateTenants == {RateTenant[r] : r \in RateAcquires}

RateInit ==
  /\ rateNow = 0
  /\ windows = [s \in RateShards |-> [t \in RateTenants |-> {}]]
  /\ attempt = [r \in RateAcquires |-> [at |-> "new", shard |-> 0, now_ms |-> 0, checked |-> 0]]

(* saturating_sub *)
Since(now, then) == IF now > then THEN now - then ELSE 0

(* Every acquire pushes its own instant once; neither the pruning nor the      *)
(* count depends on the order of the instants, so the window is the set of     *)
(* the acquires it holds an instant of.                                        *)
Within(held, now) == {r \in held : Since(now, attempt[r].now_ms) < Minute}

CountWithin60s(held, now) == Cardinality(Within(held, now))

(* div_ceil over the shards the fleet is known to have. *)
EffectiveCeiling ==
  LET n == Cardinality(RateShards) IN IF n > 1 THEN (RateCeiling + n - 1) \div n ELSE RateCeiling

(* The clock is read; plan, suspension and cache lookups follow. *)
StartAcquire(r, s) ==
  /\ attempt[r].at = "new"
  /\ attempt' = [attempt EXCEPT ![r] = [@ EXCEPT !.at = "started", !.shard = s, !.now_ms = rateNow]]
  /\ UNCHANGED <<rateNow, windows>>

(* Mutant: one too many. *)
OverRateOffByOne(held, now) == CountWithin60s(held, now) > EffectiveCeiling

OverRate(held, now) == CountWithin60s(held, now) >= EffectiveCeiling

(* The tenant's window is pruned and pushed, admitted or not; the windows of  *)
(* the idle others are dropped.                                               *)
CheckRate(r) ==
  LET s   == attempt[r].shard
      now == attempt[r].now_ms
  IN  /\ attempt[r].at = "started"
      /\ windows' = [windows EXCEPT ![s] = [t \in RateTenants |->
                       IF t = RateTenant[r] THEN Within(@[t], now) \cup {r}
                       ELSE IF CountWithin60s(@[t], now) = 0 THEN {} ELSE @[t]]]
      /\ attempt' = [attempt EXCEPT ![r].checked = rateNow,
                       ![r].at = IF OverRate(windows[s][RateTenant[r]], now) THEN "refused" ELSE "passed"]
      /\ UNCHANGED rateNow

(* Time passes, and no handler is older than MaxLag. *)
RateClock ==
  /\ rateNow < RateMaxNow
  /\ \A r \in RateAcquires : attempt[r].at = "started" => rateNow - attempt[r].now_ms < MaxLag
  /\ rateNow' = rateNow + 1
  /\ UNCHANGED <<windows, attempt>>

RateNext ==
  \/ \E r \in RateAcquires : CheckRate(r) \/ \E s \in RateShards : StartAcquire(r, s)
  \/ RateClock

RateSpec == RateInit /\ [][RateNext]_rateVars

--------------------------------------------------------------------------------
(* Properties *)

Passed(t, from, len) ==
  {r \in RateAcquires : /\ attempt[r].at = "passed" /\ RateTenant[r] = t
                        /\ from <= attempt[r].checked /\ attempt[r].checked < from + len}

(* The ceiling holds over a real interval, although late handlers push old    *)
(* instants and prune newer ones: an instance lets no more than its slice     *)
(* through in any interval that is a minute less the handlers' lag.           *)
RateCeilingHolds ==
  \A t \in RateTenants, s \in RateShards : \A from \in 0..rateNow :
    Cardinality({r \in Passed(t, from, Minute - MaxLag) : attempt[r].shard = s}) <= EffectiveCeiling

(* handlers/leases.rs:580, on the slice every shard gets: "the aggregate      *)
(* across N shards is then <= the paid ceiling".                              *)
AggregateWithinCeiling ==
  \A t \in RateTenants : \A from \in 0..rateNow : Cardinality(Passed(t, from, 1)) <= RateCeiling
===============================================================================
