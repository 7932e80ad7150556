---------------------------- MODULE LeaseLifecycle ----------------------------
(****************************************************************************)
(* The life of a lease across a fleet of fabricd instances that share one    *)
(* durable ledger (crates/corelink-fabric-server): acquire and its rollback, *)
(* the two always-on sweeps of the reaper task, the opt-in crash sweep, and   *)
(* the close, cancel and suspend requests, all racing for the same row.       *)
(*                                                                           *)
(* No lock is held across an await, so every ledger call, provider call and   *)
(* side-table update is a step of its own and anything may run in between.    *)
(* A loop over a snapshot of rows treats each row by itself: it is one task   *)
(* per row.  The provider may fail, and may fail after it did the work; a     *)
(* ledger write may be refused or fail; an instance may die at any step and   *)
(* loses its side tables and every task it was running.                       *)
(*                                                                           *)
(* Leases are not metered here (try_admit without a gate).  A request that    *)
(* is refused before it has reserved a row changes nothing and is not a step. *)
(****************************************************************************)
EXTENDS LeaseLedger

CONSTANTS
  Instances,    \* fabricd processes; each runs one reaper task
  Requests,     \* concurrent requests and crash sweeps, served by any instance
  Ttl,          \* the clamped TTL: deadline_ms = created_at_ms + Ttl
  MaxTime,      \* bound on the clock
  LastAdmit,    \* last instant at which the model still admits a lease
  MaxCrashes    \* bound on how often instances die

ASSUME FleetAssumption == /\ Times = 0..MaxTime
                          /\ {Ttl, MaxTime, LastAdmit, MaxCrashes} \subseteq Nat
                          /\ Instances \cap Requests = {}

VARIABLES
  now,         \* the wall clock
  up,          \* instances that are running
  crashes,     \* how many have died so far
  suspended,   \* durably suspended tenants
  cached,      \* cached[i]: suspended_tenants, i's own view of them
  evidence,    \* evidence[i]: leases BoxRegistry of i holds a handle for
  hooks,       \* hooks[i][l]: the capture hook in i's HookRegistry
  patIds,      \* patIds[i]: leases whose PAT id i remembers
  pat,         \* pat[l]: the lease's CAS credential
  box,         \* box[l]: the lease's box at the provider
  acq,         \* acq[l]: the acquire that minted l, and its rollback
  task,        \* task[w]: the row a reaper task or a request is working on
  slots,       \* slots[l]: slot-occupancy events emitted
  envelopes    \* envelopes[l]: final envelopes published for the lease

localVars   == <<evidence, hooks, patIds>>
worldVars   == <<pat, box>>
outputVars  == <<slots, envelopes>>
fleetVars   == <<now, up, crashes, suspended, cached>>
vars == <<ledgerVars, localVars, worldVars, outputVars, fleetVars, acq, task>>

Workers == Instances \cup Requests

None == "none"

Idle == [kind |-> "idle", at |-> None, lease |-> None, pc |-> "idle"]

(* The terminal state each terminalizer asks the ledger for. *)
Target == [ close |-> "Released", cancel |-> "Released", reap |-> "Expired",
            crash |-> "Crashed", kill |-> "Crashed" ]

Held(l) == l \in DOMAIN records /\ records[l].state = "Held"

--------------------------------------------------------------------------------
(* The provider, seen through one instance *)

(* Mutant: no restore_for_operation, so only the local registry counts. *)
ResolvesLocally(i, l) == l \in evidence[i]

(* restore_for_operation puts a durable binding back into the registry. *)
Resolves(i, l) ==
  \/ l \in evidence[i]
  \/ l \in DOMAIN records /\ records[l].box_ref # DefaultBoxRef

Restore(i, l) ==
  evidence' = [evidence EXCEPT ![i] = IF Resolves(i, l) THEN @ \cup {l} ELSE @]

(* Mutant: a lease this process knows nothing about counts as destroyed. *)
UnknownIsDestroyed(i, l) == l \in DOMAIN records

(* What must hold before the provider is asked at all. *)
CanTeardown(i, l) == l \in DOMAIN records /\ Resolves(i, l)

(* The provider confirms: 2xx, or 404 for a box that is already gone. *)
TeardownConfirmed(i, l) ==
  /\ CanTeardown(i, l)
  /\ Restore(i, l)
  /\ box' = IF Resolves(i, l) THEN [box EXCEPT ![l] = "deleted"] ELSE box

(* Unknown handle, or the call failed, possibly after the box was deleted. *)
TeardownUnconfirmed(i, l) ==
  /\ Restore(i, l)
  /\ \/ UNCHANGED box
     \/ /\ CanTeardown(i, l)
        /\ box[l] \in {"live", "dead"}
        /\ box' = [box EXCEPT ![l] = "deleted"]

(* revoke_pat_for: only the instance that minted the PAT knows its id. *)
RevokePatFor(i, l) ==
  /\ pat' = IF l \in patIds[i] THEN [pat EXCEPT ![l] = "revoked"] ELSE pat
  /\ patIds' = [patIds EXCEPT ![i] = @ \ {l}]

(* The registry and hook part of forget_lease; pat_ids goes with the revoke. *)
ForgetLease(i, l) ==
  /\ evidence' = [evidence EXCEPT ![i] = @ \ {l}]
  /\ hooks' = [hooks EXCEPT ![i][l] = None]

--------------------------------------------------------------------------------
(* Acquire: the suspension gate, the reserve, finalize_admitted_lease *)

Acquiring(l, pc) == acq[l].pc = pc

Proceed(l, pc) == acq' = [acq EXCEPT ![l].pc = pc]

RollBack(l, phase) == acq' = [acq EXCEPT ![l].pc = "claim", ![l].phase = phase]

(* A cache miss asks the ledger only when there is more than one instance,    *)
(* and a ledger that cannot be read counts as "not suspended".                *)
MayPassGate(t, i, readFails) ==
  /\ t \notin cached[i]
  /\ Cardinality(Instances) > 1 => readFails \/ t \notin suspended

CheckSuspension(l, t, i) ==
  /\ Acquiring(l, "idle") /\ i \in up
  /\ \E readFails \in BOOLEAN : MayPassGate(t, i, readFails)
  /\ acq' = [acq EXCEPT ![l] = [pc |-> "checked", at |-> i, tenant |-> t, phase |-> None]]
  /\ UNCHANGED <<ledgerVars, localVars, worldVars, outputVars, fleetVars, task>>

Reserve(l) ==
  /\ Acquiring(l, "checked") /\ now <= LastAdmit
  /\ \E gate \in Gates(acq[l].tenant, now) : TryAdmitWithCompute(l, acq[l].tenant, gate, now)
  /\ Proceed(l, "reserved")
  /\ UNCHANGED <<localVars, worldVars, outputVars, fleetVars, task>>

(* The runner registration and CAS PAT mints; neither has touched a box. *)
Mint(l) ==
  /\ Acquiring(l, "reserved")
  /\ pat' = [pat EXCEPT ![l] = "live"]
  /\ patIds' = [patIds EXCEPT ![acq[l].at] = @ \cup {l}]
  /\ Proceed(l, "minted")
  /\ UNCHANGED <<ledgerVars, evidence, hooks, box, outputVars, fleetVars, task>>

MintFails(l) ==
  /\ Acquiring(l, "reserved")
  /\ RollBack(l, "BeforeProvision")
  /\ UNCHANGED <<ledgerVars, localVars, worldVars, outputVars, fleetVars, task>>

Provision(l) ==
  /\ Acquiring(l, "minted")
  /\ box' = [box EXCEPT ![l] = "live"]
  /\ evidence' = [evidence EXCEPT ![acq[l].at] = @ \cup {l}]
  /\ Proceed(l, "provisioned")
  /\ UNCHANGED <<ledgerVars, hooks, patIds, pat, outputVars, fleetVars, task>>

(* spawn failed: before the provider made a box, or after it made one whose   *)
(* handle never came back.                                                    *)
ProvisionFails(l) ==
  /\ Acquiring(l, "minted")
  /\ box' \in {box, [box EXCEPT ![l] = "live"]}
  /\ RollBack(l, "AfterProvision")
  /\ UNCHANGED <<ledgerVars, localVars, pat, outputVars, fleetVars, task>>

Bind(l) ==
  /\ Acquiring(l, "provisioned")
  /\ \E ref \in ProviderRefs : BindProviderRef(l, ref)
  /\ Proceed(l, "bound")
  /\ UNCHANGED <<localVars, worldVars, outputVars, fleetVars, task>>

(* finalize's now_ms was read when it started, right after the reserve. *)
Hold(l) ==
  /\ Acquiring(l, "bound")
  /\ l \in DOMAIN records
  /\ Transition(l, "Held", records[l].created_at_ms)
  /\ Proceed(l, "held")
  /\ UNCHANGED <<localVars, worldVars, outputVars, fleetVars, task>>

(* The binding or the Held transition is refused, or the ledger is down. *)
LedgerRefuses(l) ==
  /\ acq[l].pc \in {"provisioned", "bound"}
  /\ RollBack(l, "AfterProvision")
  /\ UNCHANGED <<ledgerVars, localVars, worldVars, outputVars, fleetVars, task>>

EmitAcquired(l) ==
  /\ Acquiring(l, "held")
  /\ slots' = [slots EXCEPT ![l].acquired = @ + 1]
  /\ Proceed(l, "emitted")
  /\ UNCHANGED <<ledgerVars, localVars, worldVars, envelopes, fleetVars, task>>

RegisterHook(l) ==
  /\ Acquiring(l, "emitted")
  /\ hooks' = [hooks EXCEPT ![acq[l].at][l] = "open"]
  /\ Proceed(l, "done")
  /\ UNCHANGED <<ledgerVars, evidence, patIds, worldVars, outputVars, fleetVars, task>>

--------------------------------------------------------------------------------
(* rollback_pending_admission, then the caller's revoke *)

RollbackClaim(l) ==
  /\ Acquiring(l, "claim")
  /\ ClaimPendingCleanup(l)
  /\ Proceed(l, IF acq[l].phase = "BeforeProvision" THEN "finish" ELSE "teardown")
  /\ UNCHANGED <<localVars, worldVars, outputVars, fleetVars, task>>

(* The claim or the finish was refused, or the ledger is down. *)
RollbackRefused(l) ==
  /\ acq[l].pc \in {"claim", "finish"}
  /\ Proceed(l, "revoke")
  /\ UNCHANGED <<ledgerVars, localVars, worldVars, outputVars, fleetVars, task>>

RollbackTeardown(l) ==
  /\ Acquiring(l, "teardown")
  /\ \/ TeardownConfirmed(acq[l].at, l) /\ Proceed(l, "finish")
     \/ TeardownUnconfirmed(acq[l].at, l) /\ Proceed(l, "revoke")
  /\ UNCHANGED <<ledgerVars, hooks, patIds, pat, outputVars, fleetVars, task>>

RollbackFinish(l) ==
  /\ Acquiring(l, "finish")
  /\ FinishPendingCleanup(l)
  /\ evidence' = [evidence EXCEPT ![acq[l].at] = @ \ {l}]
  /\ Proceed(l, "revoke")
  /\ UNCHANGED <<hooks, patIds, worldVars, outputVars, fleetVars, task>>

(* Mutant: a failed acquire leaves its credential alive. *)
RollbackWithoutRevoke(l) ==
  /\ Acquiring(l, "revoke")
  /\ Proceed(l, "done")
  /\ UNCHANGED <<ledgerVars, localVars, worldVars, outputVars, fleetVars, task>>

RollbackRevoke(l) ==
  /\ Acquiring(l, "revoke")
  /\ RevokePatFor(acq[l].at, l)
  /\ Proceed(l, "done")
  /\ UNCHANGED <<ledgerVars, evidence, hooks, box, outputVars, fleetVars, task>>

--------------------------------------------------------------------------------
(* Terminalizers.  Each starts from a row it read as Held, tears the box down *)
(* first, and asks the ledger for the terminal state last; only the winner of *)
(* that transition emits, revokes and forgets.                                *)

Working(w, pc) == task[w].pc = pc

Step(w, pc) == task' = [task EXCEPT ![w].pc = pc]

Stop(w) == task' = [task EXCEPT ![w] = Idle]

Begin(w, kind, i, l, pc) ==
  /\ task[w] = Idle /\ i \in up
  /\ task' = [task EXCEPT ![w] = [kind |-> kind, at |-> i, lease |-> l, pc |-> pc]]

Overdue(l) == now >= records[l].created_at_ms + Ttl

StartReap(i, l) ==
  /\ Held(l) /\ Overdue(l)
  /\ Begin(i, "reap", i, l, "teardown")
  /\ UNCHANGED <<ledgerVars, localVars, worldVars, outputVars, fleetVars, acq>>

StartCrashSweep(w, i, l) ==
  /\ Held(l)
  /\ Begin(w, "crash", i, l, "probe")
  /\ UNCHANGED <<ledgerVars, localVars, worldVars, outputVars, fleetVars, acq>>

(* close and cancel *)
StartRelease(w, i, l) ==
  /\ Held(l)
  /\ \E kind \in {"close", "cancel"} : Begin(w, kind, i, l, "teardown")
  /\ UNCHANGED <<ledgerVars, localVars, worldVars, outputVars, fleetVars, acq>>

(* The suspend request first makes the suspension durable and caches it ... *)
Suspend(t, i) ==
  /\ i \in up
  /\ suspended' = suspended \cup {t}
  /\ cached' = [cached EXCEPT ![i] = @ \cup {t}]
  /\ UNCHANGED <<ledgerVars, localVars, worldVars, outputVars, now, up, crashes, acq, task>>

(* ... and then kills the tenant's Held leases (again, when it is repeated). *)
StartKill(w, i, l) ==
  /\ Held(l) /\ records[l].tenant \in suspended
  /\ Begin(w, "kill", i, l, "teardown")
  /\ UNCHANGED <<ledgerVars, localVars, worldVars, outputVars, fleetVars, acq>>

(* Only the instance that serves the request forgets its cached entry. *)
Unsuspend(t, i) ==
  /\ i \in up
  /\ suspended' = suspended \ {t}
  /\ cached' = [cached EXCEPT ![i] = @ \ {t}]
  /\ UNCHANGED <<ledgerVars, localVars, worldVars, outputVars, now, up, crashes, acq, task>>

(* Only an authoritative Dead goes on; Alive, Unbound and Err leave the row. *)
Probe(w) ==
  /\ Working(w, "probe")
  /\ Restore(task[w].at, task[w].lease)
  /\ \/ /\ CanTeardown(task[w].at, task[w].lease)
        /\ box[task[w].lease] \in {"dead", "deleted"}
        /\ Step(w, "teardown")
     \/ Stop(w)
  /\ UNCHANGED <<ledgerVars, hooks, patIds, worldVars, outputVars, fleetVars, acq>>

(* kill revokes the PAT whether or not the box is confirmed gone. *)
RevokeIfKill(w) ==
  IF task[w].kind = "kill" THEN RevokePatFor(task[w].at, task[w].lease)
  ELSE UNCHANGED <<pat, patIds>>

Teardown(w) ==
  /\ Working(w, "teardown") /\ task[w].kind # "sweep"
  /\ TeardownConfirmed(task[w].at, task[w].lease)
  /\ RevokeIfKill(w)
  /\ Step(w, IF task[w].kind = "close" THEN "close_hook" ELSE "transition")
  /\ UNCHANGED <<ledgerVars, hooks, outputVars, fleetVars, acq>>

TeardownFails(w) ==
  /\ Working(w, "teardown") /\ task[w].kind # "sweep"
  /\ TeardownUnconfirmed(task[w].at, task[w].lease)
  /\ RevokeIfKill(w)
  /\ Stop(w)
  /\ UNCHANGED <<ledgerVars, hooks, outputVars, fleetVars, acq>>

(* JobClose::close fires the hook's once-only latch and publishes the signal; *)
(* a hook that is closed already refuses; a lease without one closes plain.   *)
CloseHook(w) ==
  /\ Working(w, "close_hook")
  /\ LET l == task[w].lease  i == task[w].at IN
       CASE hooks[i][l] = "open" ->
              /\ hooks' = [hooks EXCEPT ![i][l] = "closed"]
              /\ envelopes' = [envelopes EXCEPT ![l] = @ + 1]
              /\ Step(w, "transition")
         [] hooks[i][l] = "closed" -> Stop(w) /\ UNCHANGED <<hooks, envelopes>>
         [] OTHER -> Step(w, "transition") /\ UNCHANGED <<hooks, envelopes>>
  /\ UNCHANGED <<ledgerVars, evidence, patIds, worldVars, slots, fleetVars, acq>>

(* Without a reservation the instant of a terminal transition is not kept. *)
Win(w) ==
  /\ Working(w, "transition")
  /\ Transition(task[w].lease, Target[task[w].kind], now)
  /\ Step(w, "won")
  /\ UNCHANGED <<localVars, worldVars, outputVars, fleetVars, acq>>

(* Mutant: the result of the transition is discarded. *)
LoseButSettle(w) ==
  /\ Working(w, "transition")
  /\ Step(w, "won")
  /\ UNCHANGED <<ledgerVars, localVars, worldVars, outputVars, fleetVars, acq>>

(* Another terminalizer won, or the ledger is down. *)
Lose(w) ==
  /\ Working(w, "transition")
  /\ Stop(w)
  /\ UNCHANGED <<ledgerVars, localVars, worldVars, outputVars, fleetVars, acq>>

EmitTerminal(l) == slots' = [slots EXCEPT ![l].terminal = @ + 1]

(* flush_partial_envelope: tier 1 through the local hook unless it is closed, *)
(* tiers 2 and 3 (checkpoint, no_capture) only where there is no local hook.  *)
FlushPartialEnvelope(i, l) ==
  envelopes' = IF hooks[i][l] = "closed" THEN envelopes
               ELSE [envelopes EXCEPT ![l] = @ + 1]

(* The winner's first step: close, cancel and kill emit at once (close drops  *)
(* its hook, kill forgets as well); reap and crash revoke first.              *)
SettleFirst(w) ==
  /\ Working(w, "won")
  /\ LET l == task[w].lease  i == task[w].at IN
       CASE task[w].kind \in {"reap", "crash"} ->
              /\ RevokePatFor(i, l)
              /\ Step(w, "revoked")
              /\ UNCHANGED <<evidence, hooks, slots>>
         [] task[w].kind = "kill" ->
              /\ EmitTerminal(l) /\ ForgetLease(i, l)
              /\ Stop(w)
              /\ UNCHANGED <<pat, patIds>>
         [] OTHER ->
              /\ EmitTerminal(l)
              /\ hooks' = IF task[w].kind = "close" THEN [hooks EXCEPT ![i][l] = None] ELSE hooks
              /\ Step(w, "emitted")
              /\ UNCHANGED <<evidence, pat, patIds>>
  /\ UNCHANGED <<ledgerVars, box, envelopes, fleetVars, acq>>

SettleRelease(w) ==
  /\ Working(w, "emitted")
  /\ RevokePatFor(task[w].at, task[w].lease)
  /\ ForgetLease(task[w].at, task[w].lease)
  /\ Stop(w)
  /\ UNCHANGED <<ledgerVars, box, outputVars, fleetVars, acq>>

SettleReclaim(w) ==
  /\ Working(w, "revoked")
  /\ FlushPartialEnvelope(task[w].at, task[w].lease)
  /\ ForgetLease(task[w].at, task[w].lease)
  /\ EmitTerminal(task[w].lease)
  /\ Stop(w)
  /\ UNCHANGED <<ledgerVars, patIds, worldVars, fleetVars, acq>>

--------------------------------------------------------------------------------
(* sweep_stale_pending, the reaper task's second sweep *)

StartSweep(i, l) ==
  /\ l \in StalePending(now)
  /\ ClaimStalePendingCleanup(now)
  /\ Begin(i, "sweep", i, l, "teardown")
  /\ UNCHANGED <<localVars, worldVars, outputVars, fleetVars, acq>>

SweepTeardown(w) ==
  /\ Working(w, "teardown") /\ task[w].kind = "sweep"
  /\ TeardownConfirmed(task[w].at, task[w].lease)
  /\ Step(w, "finish")
  /\ UNCHANGED <<ledgerVars, hooks, patIds, pat, outputVars, fleetVars, acq>>

SweepUnconfirmed(w) ==
  /\ Working(w, "teardown") /\ task[w].kind = "sweep"
  /\ TeardownUnconfirmed(task[w].at, task[w].lease)
  /\ Stop(w)
  /\ UNCHANGED <<ledgerVars, hooks, patIds, pat, outputVars, fleetVars, acq>>

SweepFinish(w) ==
  /\ Working(w, "finish")
  /\ FinishPendingCleanup(task[w].lease)
  /\ RevokePatFor(task[w].at, task[w].lease)
  /\ ForgetLease(task[w].at, task[w].lease)
  /\ Stop(w)
  /\ UNCHANGED <<box, outputVars, fleetVars, acq>>

SweepRefused(w) ==
  /\ Working(w, "finish")
  /\ Stop(w)
  /\ UNCHANGED <<ledgerVars, localVars, worldVars, outputVars, fleetVars, acq>>

--------------------------------------------------------------------------------
(* The environment *)

Tick ==
  /\ now < MaxTime
  /\ now' = now + 1
  /\ UNCHANGED <<ledgerVars, localVars, worldVars, outputVars, up, crashes, suspended, cached, acq, task>>

BoxDies(l) ==
  /\ box[l] = "live"
  /\ box' = [box EXCEPT ![l] = "dead"]
  /\ UNCHANGED <<ledgerVars, localVars, pat, outputVars, fleetVars, acq, task>>

Crash(i) ==
  /\ i \in up /\ crashes < MaxCrashes
  /\ up' = up \ {i}
  /\ crashes' = crashes + 1
  /\ evidence' = [evidence EXCEPT ![i] = {}]
  /\ hooks' = [hooks EXCEPT ![i] = [l \in LeaseIds |-> None]]
  /\ patIds' = [patIds EXCEPT ![i] = {}]
  /\ cached' = [cached EXCEPT ![i] = {}]
  /\ acq' = [l \in LeaseIds |->
               IF acq[l].at = i THEN [acq[l] EXCEPT !.pc = "done"] ELSE acq[l]]
  /\ task' = [w \in Workers |-> IF task[w].at = i THEN Idle ELSE task[w]]
  /\ UNCHANGED <<ledgerVars, worldVars, outputVars, now, suspended>>

Restart(i) ==
  /\ i \in Instances \ up
  /\ up' = up \cup {i}
  /\ UNCHANGED <<ledgerVars, localVars, worldVars, outputVars, now, crashes, suspended, cached, acq, task>>

--------------------------------------------------------------------------------
(* The specification *)

Init ==
  /\ LedgerInit
  /\ now = 0 /\ up = Instances /\ crashes = 0
  /\ suspended = {} /\ cached = [i \in Instances |-> {}]
  /\ evidence = [i \in Instances |-> {}]
  /\ hooks = [i \in Instances |-> [l \in LeaseIds |-> None]]
  /\ patIds = [i \in Instances |-> {}]
  /\ pat = [l \in LeaseIds |-> None]
  /\ box = [l \in LeaseIds |-> None]
  /\ acq = [l \in LeaseIds |-> [pc |-> "idle", at |-> None, tenant |-> None, phase |-> None]]
  /\ task = [w \in Workers |-> Idle]
  /\ slots = [l \in LeaseIds |-> [acquired |-> 0, terminal |-> 0]]
  /\ envelopes = [l \in LeaseIds |-> 0]

Acquire(l) ==
  \/ \E t \in Tenants, i \in Instances : CheckSuspension(l, t, i)
  \/ Reserve(l) \/ Mint(l) \/ MintFails(l)
  \/ Provision(l) \/ ProvisionFails(l)
  \/ Bind(l) \/ Hold(l) \/ LedgerRefuses(l)
  \/ EmitAcquired(l) \/ RegisterHook(l)
  \/ RollbackClaim(l) \/ RollbackRefused(l) \/ RollbackTeardown(l)
  \/ RollbackFinish(l) \/ RollbackRevoke(l)

Request(w) ==
  \E i \in Instances, l \in LeaseIds :
     StartCrashSweep(w, i, l) \/ StartRelease(w, i, l) \/ StartKill(w, i, l)

(* The steps a task takes once it has started. *)
Work(w) ==
  \/ Probe(w) \/ Teardown(w) \/ TeardownFails(w) \/ CloseHook(w)
  \/ Win(w) \/ Lose(w)
  \/ SettleFirst(w) \/ SettleRelease(w) \/ SettleReclaim(w)
  \/ SweepTeardown(w) \/ SweepUnconfirmed(w) \/ SweepFinish(w) \/ SweepRefused(w)

Next ==
  \/ \E l \in LeaseIds : Acquire(l) \/ BoxDies(l)
  \/ \E w \in Requests : Request(w)
  \/ \E w \in Workers : Work(w)
  \/ \E i \in Instances, l \in LeaseIds : StartReap(i, l) \/ StartSweep(i, l)
  \/ \E t \in Tenants, i \in Instances : Suspend(t, i) \/ Unsuspend(t, i)
  \/ \E i \in Instances : Crash(i) \/ Restart(i)
  \/ Tick

Spec == Init /\ [][Next]_vars

(* The clock runs, dead instances are restarted, and every instance's reaper  *)
(* task keeps ticking: both sweeps run on every tick, so neither is starved   *)
(* by the other (strong), and a provider or ledger that is asked again and    *)
(* again does not fail for ever (strong).  Nothing is assumed of requests.    *)
Fairness ==
  /\ WF_vars(Tick)
  /\ \A i \in Instances :
       /\ WF_vars(Restart(i))
       /\ WF_vars(Work(i))
       /\ SF_vars(\E l \in LeaseIds : StartReap(i, l))
       /\ SF_vars(\E l \in LeaseIds : StartSweep(i, l))
       /\ SF_vars(Teardown(i) \/ SweepTeardown(i))
       /\ SF_vars(Win(i) \/ SweepFinish(i))

LiveSpec == Spec /\ Fairness

--------------------------------------------------------------------------------
(* Properties *)

(* Every table of the fleet is well formed, and no acquire emits twice. *)
FleetTypeOK ==
  /\ now \in Times /\ up \subseteq Instances /\ crashes \in 0..MaxCrashes
  /\ suspended \subseteq Tenants /\ cached \in [Instances -> SUBSET Tenants]
  /\ evidence \in [Instances -> SUBSET LeaseIds]
  /\ hooks \in [Instances -> [LeaseIds -> {None, "open", "closed"}]]
  /\ patIds \in [Instances -> SUBSET LeaseIds]
  /\ pat \in [LeaseIds -> {None, "live", "revoked"}]
  /\ box \in [LeaseIds -> {None, "live", "dead", "deleted"}]
  /\ slots \in [LeaseIds -> [acquired : 0..1, terminal : Nat]]
  /\ envelopes \in [LeaseIds -> Nat]

(* A box that exists at the provider always belongs to a row that is Pending  *)
(* or Held: whatever fails or dies, no path erases or ends the row while a    *)
(* box may still be running, so no box leaks out of the control plane's       *)
(* sight (teardown-first; claims kept until destruction is confirmed).        *)
NoUnownedBox ==
  \A l \in LeaseIds : box[l] \in {"live", "dead"} =>
     l \in DOMAIN records /\ IsActive(records[l])

(* The sweep or a rollback at work on a lease. *)
Cleaning(l) ==
  \/ acq[l].pc \in {"teardown", "finish"}
  \/ \E w \in Workers : task[w].kind = "sweep" /\ task[w].lease = l

(* A cleanup at work never meets a row that became Held: "A Pending -> Held   *)
(* winner is never torn down by this rollback", nor by the stale sweep.       *)
CleanupFence == \A l \in LeaseIds : Cleaning(l) => ~Held(l)

(* Each lease frees its slot at most once, and only after its row ended: the  *)
(* losers of the race between close, cancel, kill and the sweeps never emit.  *)
SlotFreedOnce ==
  \A l \in LeaseIds :
     /\ slots[l].terminal <= 1
     /\ slots[l].terminal = 1 => l \in DOMAIN records /\ records[l].state \in Terminal

(* Nothing is at work on the lease. *)
Quiet(l) == acq[l].pc = "done" /\ \A w \in Workers : task[w].lease # l

(* On a single instance that does not die, every way a lease can end, failed  *)
(* acquires included, revokes the credential minted for it.                   *)
PatRevokedAtEnd ==
  \A l \in LeaseIds : Quiet(l) /\ ~(l \in DOMAIN records /\ IsActive(records[l])) =>
     pat[l] # "live"

(* While instances stay alive, a lease that ends Expired leaves a final       *)
(* envelope behind, "never silently dropped": the reaper's, or the one of a   *)
(* close that fired the latch, which the reaper's flush then skips.           *)
ExpiredLeavesEnvelope ==
  \A l \in LeaseIds :
     Quiet(l) /\ l \in DOMAIN records /\ records[l].state = "Expired" => envelopes[l] >= 1

(* Both, on one instance that has not died: the cleanup after an end runs to  *)
(* its last step, whichever of the handlers and sweeps ended the lease.       *)
EndsAreComplete == crashes = 0 => PatRevokedAtEnd /\ ExpiredLeavesEnvelope

(* "a normal close and this abnormal flush can never both fire": a lease has  *)
(* at most one final envelope, although close fires its latch before it knows *)
(* whether it wins the ledger transition.                                     *)
EnvelopeAtMostOnce == \A l \in LeaseIds : envelopes[l] <= 1

(* "Durably record a tenant's AUP1 suspension so it survives a shard          *)
(* restart": the gate turns away every tenant the ledger has as suspended.    *)
SuspensionSurvivesRestart ==
  [][\A l \in LeaseIds :
       acq[l].pc = "idle" /\ acq'[l].pc = "checked" => acq'[l].tenant \notin suspended]_vars

(* An overdue lease does not stay Held, whichever instance served it and      *)
(* whether or not that instance is still the process it was.                  *)
OverdueIsReclaimed ==
  \A l \in LeaseIds : (Held(l) /\ Overdue(l)) ~> ~Held(l)

(* A Pending row whose box was bound leaves Pending: its acquire makes it     *)
(* Held, or some instance's sweep rebuilds the handle and cleans it up.       *)
BoundPendingIsResolved ==
  \A l \in LeaseIds :
     (IsPending(l) /\ records[l].box_ref # DefaultBoxRef) ~> ~IsPending(l)

(* No row holds its slot, and no box runs, for ever. *)
NoLeaseIsStuck == OverdueIsReclaimed /\ BoundPendingIsResolved

(* The instance died in mid-acquire, before any rollback: acquires that end   *)
(* otherwise are Held or have been through the rollback.                      *)
Abandoned(l) == IsPending(l) /\ acq[l].pc = "done" /\ acq[l].phase = None

(* "reclaim cap slots leaked by a Pending whose instance died between reserve *)
(* and the Held transition": the stale-Pending sweep gets rid of such a row.  *)
AbandonedPendingIsReclaimed ==
  \A l \in LeaseIds : Abandoned(l) ~> ~IsPending(l)

==============================================================================
