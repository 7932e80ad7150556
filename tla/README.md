# A TLA+ model of the corelink runner fabric

The fabric hands out *leases* on short-lived compute boxes. `fabricd`
(`crates/corelink-fabric-server`) is the control plane: it admits a lease
against a tenant's plan, mints credentials, has a cloud provider create a box,
and ends the lease by close, cancel, suspension, expiry or crash. Its record of
what exists is a *lease ledger* (`crates/corelink-fabric`), kept in memory, in a
journal file or in Postgres. Several `fabricd` instances can share one ledger.
`crates/corelink-runner` works on the box's side, `crates/corelink-cloud-engine`
talks to Northflank and Cloudflare, and `crates/corelink-check-exec-server` runs
commands inside a box.

This directory models these parts, checks them with TLC on small instances, and
proves with TLAPS, for every instance, every safety property that the runs
check: of the ledger in memory, in its journal and in Postgres, of the fleet
that drives it, and of the components around it (see *Proofs*).

## Inventory

| Part | State | Operations | What is hard about it |
|---|---|---|---|
| Lease ledger (`ledger.rs`, `ledger/*`) | rows, reservations, accruals, checkpoints, cleanup claims | `try_admit[_with_compute]`, `transition`, `bind_provider_ref`, `set_envelope_checkpoint`, `claim_*_cleanup`, `finish_pending_cleanup`, `remove[_if_pending]` | check-and-insert against cap and ceiling; charging once; claims that fence rows; reuse of ids |
| Journalled ledger (`FileLedger`) | the same, over an append-only file | the same, plus `open` | crash in mid-append, torn lines, failing appends |
| Postgres ledger (`pg_ledger.rs`, `pg_ledger/*`) | the same in tables, external reservations, suspension outbox | the same in transactions under advisory and row locks | instances admitting at once, lock order, settlement |
| Acquire (`handlers/leases.rs`) | per-process side tables, one row | gate, reserve, mint, provision, bind, hold, register; rollback on every failure | awaits between reading and writing; death in between; answers lost after the work was done |
| Reaper (`reaper.rs`, `pending_cleanup.rs`) | nothing of its own | `reap_once`, `sweep_stale_pending`, `surface_crashes` | runs on every instance, on leases other instances made |
| close, cancel, suspend (`handlers/*`) | capture hooks, suspended tenants | end a lease | all race the sweeps for the same row |
| Admission queue (`admission.rs`, `scheduler.rs`, `pg_queue.rs`) | parked waiters, fair queues, durable rows | park, time out, tick, requeue | timeout against a late dispatch; starvation |
| Gates and plans (`caps.rs`, `global_gate.rs`, `plans.rs`, `tenant_plan_repo.rs`) | rate windows, guards, caps | check, admit, release, upsert, load | late clocks, double release, column width |
| Introspection (`introspect_*.rs`, `corelink_auth.rs`, `corelink_plans.rs`, `mint_readiness.rs`) | breaker, caches, flights, probe | call, coalesce, trip, probe, wake | cancelled leaders, one half-open probe, lost wake-ups |
| Billing and compute budgets (`billing*.rs`, `corelink_billing.rs`, `compute_*.rs`, `decimal.rs`) | slot journal, export buffer, grants, permits | record, flush, shed, reserve, settle | buffers at their cap while a flush is in flight, restarts, month ends |
| Webhook autoscaler and sharding (`handlers/webhook.rs`, `shard.rs`) | job map, seen deliveries, shard identity | queued, completed, route | deliveries repeated, reordered, on another instance |
| Exec and attestation (`exec*.rs`, `agent_exec.rs`, `queue.rs`, `attestation.rs`) | dedup map, steps, markers | gate, run, attest | the lease ends while the command runs |
| Credentials and registration (`runner_cas_mint.rs`, `cred_ticket.rs`, `handlers/cas_cred.rs`, `runner_broker.rs`) | PAT ids, stash, tickets, runner names | mint, redeem, revoke, register | lost answers, clock skew, redeem against the end |
| Boot and shutdown (`server.rs`, `main.rs`) | configuration, tasks | read, refuse, spawn, drain, flush | legal settings that are unsafe together |
| Cloud engines and provisioners (`corelink-cloud-engine`, `cloud_exec*`) | registry, routes, references | provision, exec, probe, tear down, restore | restart between any two requests; shared jobs |
| Runner on the box (`corelink-runner`) | containers, image locks, layers, workspaces, fence, hook | run a batch, recover, hydrate, spawn or join, materialise, capture | threads, ssh answers lost, waiters, path spelling |
| Workers, canary, cost monitor (`deploy/*`), CLI, API types | durable objects, outboxes; data | spawn, contain, reconcile | outside the Rust system, see *Not modelled* |

Handlers and sweeps call the ledger (each call is atomic under the ledger's own
lock or transaction) and the provider (each call may fail before or after its
effect). They share nothing else but per-process tables: the registry of box
handles, the capture hooks, the ids of minted PATs, the set of suspended
tenants. No lock is held across an await, so between any two of those steps any
other handler, sweep or instance can run. The queue, the gates, introspection,
billing, the autoscaler, exec and the credentials each keep state of their own
that only they change; what they do to each other is an input of the other's
operations (an answer, a delivery, the end of a lease).

What makes the system correct: a tenant never exceeds its plan; what ends is
charged once; a box never runs without a row that accounts for it; a box is
never destroyed under a client that holds it; a slot is freed once; credentials
do not outlive their lease; a parked request is answered once; what is signed
ran; usage is not lost without being counted; nothing overdue stays and nobody
starves.

## Modules

| Module | Models | State and actions |
|---|---|---|
| `LeaseLedger` | `InMemoryInner`, cleanup, binding | the five maps; one action per operation |
| `FileLedger` | the journal, `open`, crashes, failing appends | extends `LeaseLedger` and refines it |
| `LeaseLifecycle` | acquire, rollback, reaper, sweeps, close, cancel, suspend over a fleet | extends `LeaseLedger`, whose operations are its ledger calls |
| `PgLedger` | one tenant's transactions, statement by statement | committed tables, lock owners, `txn[s]` per connection; READ COMMITTED; external reservations |
| `SuspensionOutbox` | durable suspension, its delivery, the lifecycle lookup | pointer, generation, outbox, dispatchers of several instances, live credentials |
| `ShardRouting` | shard identity, minted ids, the safety gate, routed webhooks | per instance, the two stores of its identity |
| `FairScheduler` | the deficit round robin of `scheduler.rs` | queues, cursor, owed turns; every visit of a tick is a step |
| `AdmissionQueue` | parked acquires, the tick, requeues, the durable queue | extends `FairScheduler` and supplies its cap checks and dispatches |
| `RateGate`, `GlobalGate`, `TenantPlans` | rate windows; guards; registry, repository and downgrades | one action per call, with the clock the handler read earlier |
| `Introspection`, `MintReadiness` | cache, single flight, permits, breaker, both legs; the shared probe | one record per request; a dropped handler's blocking call lives on |
| `SlotBilling`, `ComputeMeter` | journal, export and usage push; calendar and decimals, and the budget API | both loops work on copies while events arrive; the calendar is walked day by day as the reference |
| `Autoscaler` | the webhook's handlers | job map with eviction, seen deliveries, handlers that await or are dropped |
| `Execution`, `Attestation`, `ClwDrive` | exec, trigger, agent exec; what is signed; the clw drive | the gates read ledger and side tables one by one; the pre-images at byte framing |
| `RunnerCredentials`, `RunnerRegistration` | mint, stash, ticket, redeem, revoke, test mint; GitHub registration | the mint service and GitHub may fail before or after their effect and keep their own clocks |
| `ServerBoot` | start and stop of `fabricd` | one action per decision, in the code's order; the environment is chosen as it is read |
| `ProviderBoxes` | provisioners, engines, references | truth at the provider against registry, routes and ledger reference; restarts |
| `BoxBatch`, `LayerBoot`, `Workspaces`, `Fence`, `WorkflowShim`, `CaptureHook` | the runner: batch, recovery and teardown; hydration; workspace registry; path fence; Actions shim; transcript capture | one thread per job, caller or forwarder; ssh, CAS and docker answers may be lost |
| `BoxExecServer` | the server inside a check-host box | process, descendant, pipe, deadline |
| `MC*` | values for the constants, and the compositions | |
| `LeaseLedgerProofs`, `LeaseLifecycleProofs` | theorems about `LeaseLedger` and `LeaseLifecycle` | the second extends the first: the fleet implements the ledger |
| `FileLedgerProofs` | theorems about `FileLedger` | takes the ledger's own facts from `LeaseLedgerProofs` |
| `FiniteSums` | sums over finite sets, induction on sets of numbers | the lemmas the other proof modules share |
| `SharedStateProofs` | theorems about `PgLedger`, `SuspensionOutbox`, `ShardRouting` | |
| `AdmissionProofs` | theorems about `AdmissionQueue`, `FairScheduler`, `TenantPlans`, `Introspection`, `MintReadiness`, `GlobalGate`, `RateGate` | |
| `ServiceProofs` | theorems about `ServerBoot`, `RunnerRegistration`, `Execution`, `Autoscaler`, `RunnerCredentials`, `SlotBilling`, `ComputeMeter`, `Attestation` | |
| `BoxProofs` | theorems about `ProviderBoxes`, `BoxExecServer`, `ClwDrive`, `BoxBatch`, `LayerBoot`, `CaptureHook`, `Workspaces`, `Fence`, `WorkflowShim` | |

### LeaseLedger

The five variables are the five maps of `InMemoryInner`. Each operation is one
action, guarded by the conditions under which the Rust method returns `Ok` with
a change; a refused call changes nothing and is not a step. `now` is a parameter
of every call and is *not* monotone: the code takes whatever its caller's clock
reads, and two instances' clocks differ. A `ComputeGate` with ceiling 0 stands
for "no gate". Calendar months (`period_key`) are equal periods of `MonthMs`;
`ComputeMeter` has the real calendar. `vcpu_ms` values are bounded by
`MaxLedgerVcpuMs`, where the code saturates. `put` is left out: outside tests
nothing calls it.

### FileLedger

The variables of `LeaseLedger` are the live index; `journal` is the file.
An operation computes its lines (`inflight`), and `AppendLine` writes and syncs
them one by one, as `append` does. Before any of them the process can crash,
leaving any part of the next line, or the append can fail and the process
live on (`AppendFails`; `fallback` is the index each operation leaves in that
case: `transition` changes it before it appends, everything else after). The
lines of a claim over several rows come in any order (`NewClaims`,
`Enumerations`: the code walks a hash map). A line that does not parse is
`Garbage`. `ended` records whether the last line has its terminator, because
`open` looks only at whether a line parses. `Durable`, what `open` would replay,
is the refinement mapping to `LeaseLedger`: a claim of three rows that crashes
after two lines is, on disk, a claim of two rows.

### LeaseLifecycle

`acq[l]` is the program counter of the acquire that minted `l`; `task[w]` is the
row a reaper task or request `w` is working on, on instance `task[w].at`. Every
ledger call, provider call and side-table update of the handlers is an action
of its own. A loop over a snapshot of rows treats rows independently and is one
task per row. `box[l]` is the truth at the provider and is never read by a
guard except through a probe; `evidence[i]` is the registry through which
instance `i` can name the box, and `Resolves` is what `restore_for_operation`
adds from the durable binding. `Crash` empties everything an instance keeps in
memory and drops its tasks. Requests that are refused before they have reserved
or read a row change nothing and are not steps. The module covers reject-mode
acquires without a compute gate; metering is `LeaseLedger`'s subject and the
queue is `AdmissionQueue`'s.

### Compositions, and sums of components

Two compositions share state: `LeaseLifecycle` calls the operations of
`LeaseLedger`, and `AdmissionQueue` drives `FairScheduler`. `FileLedger`
implements `LeaseLedger`.

The other components share no state: what one does to another is already an
input that the other's actions quantify over. Their product would only multiply
states, so `MCSharedState`, `MCAdmission`, `MCServices`, `MCBoxes` and
`MCLiveness` check them as a *sum*: a variable `part`, chosen in the initial
state and never changed, names the component that moves; the others stay in one
initial state. The reachable states of a component are then exactly those of
its own specification, and an invariant over several components holds of the
sum if and only if each component keeps its part. In `MCAdmission` the
scheduler appears twice, driven by the admission loop ("queue") and under any
load ("scheduler"). `MCLiveness` assumes only the fairness of the part that
moves. A property such as `PgLedgerIsSerial` is the conjunction of what one
module promises about one concern and stands in that module; one that joins the
promises of several modules (`UsageSurvives`, `BudgetsHold`,
`AttestationsAreReal`, `GatesHold`, `NoWaiterIsStranded`, `ResultsAreTrue`,
`ContainmentHolds`) stands in the MC module. The named conjuncts are stated, with
their meaning, in the components' modules.

## Runs

| Run | Checks | What it shows, and why the bounds are enough |
|---|---|---|
| `ledger_compute` | `ConcurrencyCap`, `ComputeCeiling`, `ChargedIffTerminal`, `NoUnchargedDisappearance` | three leases of one tenant, cap 2, ceiling 5 with boxes of 2, times 0..2 over two months: cap and ceiling can each be the binding limit, leases run past their TTL, clocks step back |
| `ledger_cleanup` | `ClaimedRowsFrozen`, `HistoryIsStable` | two leases and tenants, two references, a checkpoint: every order of bind, claim, finish, remove and reuse of an id |
| `file_ledger` | `RecoversEverything`, refinement `DurableIsALedger` | two leases, four journal lines, any number of crashes: a lease lives its whole life, or is erased and admitted again |
| `file_damaged` | `SoundHoweverDamaged` | three lines with the two further faults: a cut terminator and an append that fails while the process lives |
| `fleet_safety` | `NoUnownedBox`, `CleanupFence`, `SlotFreedOnce` | one lease, two instances with their reapers, one request of any kind, one crash: three terminalizers, a rollback and a sweep meet on one row, and the owner can be dead |
| `liveness` | `EndsAreComplete`, `NoLeaseIsStuck`, `NoStarvation` | one instance that dies once at any step, with two requests; its successor starts with empty tables like any other instance. Three tenants on one slot, one always within its cap, the others' caps moving at every visit |
| `shared_state` | `PgLedgerIsSerial`, `AccrualExact`, `SuspensionIsExact`, `LeasesStayHome` | two connections over a metered and an unmetered lease and a grant, cap 1, ceiling 2: every pair of operations of the ledger interleaves statement by statement. Two dispatchers, two issuers, three events: a delivery is repeated across a resume. Two shards, all hashes |
| `admission` | `QueueConservesWaiters`, `QueueAdmitsForOwners`, `GatesHold`, `IntrospectionFailsClosed`, `NoWaiterIsStranded`, `LoadIsExactOrFails`, `OwedGoFirst` | three requests for a cap of 1 and two park permits: one holds, one is dispatched, one times out, with and without the durable queue. Three requests with two tokens, one permit, a threshold of one failure and a cache of one entry. Columns of 8 values: caps above 3 wrap |
| `services` | `UsageSurvives`, `BudgetsHold`, `JobsOwnTheirBox`, `AttestationsAreReal`, `CredentialsDieWithTheLease`, `MintRefusedForCause`, `ServesOnlySafely` | two slots and buffers of one and two events, so that both shed during a flush, with a restart; 800 days from three anchors that cover leap years and the century that has none; seven grant requests on two permits; three jobs on a map of one entry; two exec calls racing the end of two leases; GitHub clocks 10 and 9 minutes behind and 1 and 2 ahead, on both sides of what GitHub tolerates; every combination of the boot settings |
| `boxes` | `BatchesHold`, `HonestHydration`, `ConfirmedIsGone`, `ResultsAreTrue`, `ContainmentHolds`, `CaptureIsHonest`, `WaitersHaveASpawner` | one lease on either engine with two executions and a restart; three jobs, two of one digest and one forged; two hydrations of a plan that names a layer twice, with an outage and an eviction; all paths of up to three segments; workflow files grown by up to two odd lines; two forwarders and three closes on buffers of two; three callers of one workspace |

One lease is enough for the lifecycle properties: rows of different leases share
only the cap, which `ledger_compute` covers. Symmetry is used in runs without
liveness only. Deadlock checking is off: with bounded time, crashes and journal every
model reaches states in which nothing more happens, and so does the system when
there is no work. That no two transactions wait for each other is
`LocksNeverCycle` (in `PgLedgerIsSerial`), that nobody waits for one who is gone
`NoWaiterIsStranded` and `WaitersHaveASpawner`.

Fairness, of the fleet: the clock runs, a dead instance is restarted, and each
instance's reaper task keeps taking steps (weak: a tokio task on a ticker); both
of its sweeps start again and again while they have work (strong: they
alternate on one ticker), and a provider or ledger call that is repeated
for ever succeeds at some time (strong; a provider that refuses every delete
for ever keeps the row, by design). Clients are assumed to do nothing: requests
and acquires have no fairness. The crash sweep is opt-in and has none either. Of
the scheduler: the admission loop ticks for ever and a tick runs to its end
(weak). Nothing is assumed of the caps of other tenants.

### Statements of the repository the code does not keep

Two have a run of their own:

| Run | Statement | What happens |
|---|---|---|
| `file_torn_line` | "every put/transition/remove that returns Ok is committed to disk" (`ledger.rs:1537`) | a crash cuts only the newline; the line parses and is kept; the next append continues it; the next open drops both |
| `exec_runs_mixed` | "there is no ambiguity between runs of the same job" (`northflank.rs:826`) | two executions of one Held lease: the second sets the job's command before the first triggers its run |

The following are stated as definitions beside the properties that hold. TLC
finds a counterexample to each when it is added to the run in the last column.

| Definition | The code's statement | What happens | Run |
|---|---|---|---|
| `JournalFollowsMatrix` with failing appends | the journal never holds an illegal transition (`ledger.rs:1587`) | a failed append leaves the index ahead of the journal | `file_damaged` |
| `SuspensionSurvivesRestart` | a suspension "survives a shard restart" (`ledger.rs:293`) | with one instance the gate reads only memory, which a restart empties | `liveness` |
| `EnvelopeAtMostOnce` | close and the abnormal flush "can never both fire" (`reaper.rs:388`) | the latch lives on one instance, the winning reaper on another | `fleet_safety` |
| `AbandonedPendingIsReclaimed` | the sweep reclaims a Pending "whose instance died between reserve and the Held transition" (`reaper.rs:825`) | before the binding there is nothing to resolve; the slot is kept. It is the price of `NoUnownedBox`, which holds | `liveness` |
| `CompletedIsReclaimed` | a completed job's lease is cancelled (`webhook.rs:573`) | the delivery reaches another shard, which does not know the job | `shared_state` |
| `ParkedIsRetried`, `GivenUpHoldsNoPat`, `ParkBound` | what is not claimed is retried, a waiter's PAT is revoked on every path, at most `park_cap` wait (`admission.rs`) | with the durable queue a candidate the tick popped and did not claim is in no FIFO any more; without it the loser of a race for the cap is put back with `let _ = sched.enqueue(cand.item)` (`admission.rs:1048`), which drops it when its FIFO has filled meanwhile, although it should drain "as a slot frees" (`admission.rs:928`); a timeout that revokes before the tick mints evicts the requeued context with its new PAT; a semaphore pruned while a request has it in hand is made again, and both count to `park_cap` | `admission` (`ParkBound` with a fourth request and `ParkCap = 1`; the full FIFO with five requests, or four and a FIFO of two) |
| `RoundTripsBounded`, `MeteredIsGated` | round trips are bounded by one knob (`auth.rs:161`); the gate reads the ceiling "cached on THIS acquire's plan resolution" (`leases.rs:186`) | a dropped handler frees its permit while its blocking call goes on; another acquire's resolve replaces the ceiling | `admission` |
| `AggregateWithinCeiling` | the shards' slices together stay within the ceiling (`leases.rs:580`) | slices are rounded up | `admission` |
| `EvictedClaimIsCancelled` | a lease whose claim was evicted is cancelled (`webhook.rs:290`) | after the eviction the job's completed writes a new entry, Done; `record_lease` takes it for a double record and cancels nothing | `services` |
| `OnlyCheckBoxesAttest` | nothing memoizable is minted in an egress or runner box (`exec_handler.rs:116`) | trigger has no marker gate, and exec's reads a marker that is written after Held | `services` |
| `TestMintSelfExpires` | a test mint expires by itself (`test_mint.rs`) | the PAT is recorded after the lease can have ended | `services` |
| `NoFalseRecovery` | "no false-positive recovery" (`recovery/mod.rs:143`) | a lost ssh answer reads as a container that is gone | `boxes` |
| `HydratedIsReady` | all required layers are ready (`boot/mod.rs:193`) | a missed layer is counted and the outcome is the same | `boxes` |
| `PartialOutputKept` | partial output is returned after a timeout (`lib.rs:528`) | what the readers had already taken from the pipe is dropped with them | `boxes` |
| `NoSilentSkip` | nothing is skipped silently (`shim/parser.rs:98`) | some layouts drop a step without a report | `boxes` |
| `DiscardsOnlyTheDead` | "Only remove if it is still the same dead entry" (`ws/mod.rs:362`) | the slot is compared by kind; a new container took it meanwhile | `boxes` |

## Proofs

Every theorem below holds for every value of the constants that satisfies the
assumptions its modules state. Each section of a proof module has the same
shape: the inductive invariant, the lemma that the initial states satisfy it,
lemmas on what the operators and updates do, one step per action that it is
kept, and the theorem. The invariants that were not already checked as
properties were first run through TLC.

**The ledger** (`LeaseLedgerProofs`). For all sets of leases, tenants, references,
checkpoints and times and all plans (times and amounts are naturals, months are
not empty, caps and ceilings are naturals per tenant; `LeaseIds` may be
infinite, because the invariant behind the cap, `CapInv`, carries that the set of
rows is finite):

* `[]TypeOK`, `[]NoOrphans`, `[]ClaimsArePending`, `[]ChargedIffTerminal` and
  `[]StampedIffHeld`. Their conjunction `LedgerInv` is inductive and none of the
  parts is so alone: that a new row starts uncharged needs `NoOrphans` (nothing
  was left over under its id), that a claimed row stays Pending needs the fence
  and the types, that the end of a lease sets its latch needs that the latch was
  not set before.
* `[]ConcurrencyCap`, from `LedgerInv` and the fact that only an admission adds
  an active row, one at a time.
* `[]ComputeCeiling` (`CeilingNeverExceeded`): what a tenant was charged in a
  month and what its live leases have reserved never pass its ceiling. The sums
  are folds over sets; `FiniteSums` shows, by induction on the size of the
  subsets, that such a fold exists, is a natural number, and changes by exactly
  the one value that changes.
* the action properties `ClaimedRowsFrozen`, `NoUnchargedDisappearance` and
  `HistoryIsStable`, from `LedgerInv`.

**The fleet** (`LeaseLifecycleProofs`). For any number of instances, requests,
leases and crashes: `[]FleetTypeOK`, `[]NoUnownedBox`, `[]SlotFreedOnce`,
`[]CleanupFence`, and `FleetImplementsLedger`: whatever the instances do, crash or race,
the shared ledger goes through a behaviour of `LedgerSpec`, so that
`FleetKeepsLedgerPromises` gives the ledger's properties for every fleet without
proving them again. `FleetInv` adds to `LedgerInv` where an acquire is when its
row has a state (`AcquireInv`), that nobody can name a box before it is
provisioned (`BoxInv`), what a task knows of its row (`TaskInv`: a cleanup works
on a claimed row or none, a terminalizer on one that was Held, teardown precedes
the end), and that a row has one winner.

How an end is completed is shown of behaviours in which no instance has died,
since one that dies takes its unfinished ends with it. `ExpiredAlwaysLeaveEnvelopes`
holds in a fleet of any size, from `EnvelopeInv`: a closed latch has published,
and an expired row has its envelope or a reaper that is about to publish it.
`EndsAlwaysComplete` is `[]EndsAreComplete` with one instance, as the property says:
with several, a reaper may win whose process never saw the PAT id. It needs
`PatInv`: a live credential is known to the instance, its lease is still being
acquired, Held, or in the hands of a winner that is still to revoke, and no kill
has passed its teardown without revoking.

**The journal** (`FileLedgerProofs`). For any journal length, any leases and any
number of crashes. What `open` replays is a fold over the lines; that the fold
exists and that one more line applies one more update is shown by induction on
the number of lines (the table of intermediate indices is the object of the
induction, so that no operator has to be instantiated).

* `SoundAfterDamage`: `[]SoundHoweverDamaged` under every fault, the failing appends
  and cut terminators included. `FileInv` says that every prefix of the
  journal without a broken line replays to a sound index, and that the journal
  misses at most moves of leases whose append failed (`Lag`); `Fits` names the
  lines an operation may append.
* `NothingAcknowledgedIsLost` (`[]RecoversEverything`) and `DiskImplementsLedger`
  (the file implements `LedgerSpec` under `Durable`), without the two further
  faults (`Faults = {}`), with which they are false: see `file_torn_line`. Crashes
  in mid-append remain. The step simulation rests on `CanAppend`: each line still
  to be written is, on what the disk holds, a legal operation of the ledger or
  changes nothing.

**What instances share** (`SharedStateProofs`).

* `[]PgLedgerIsSerial` and `[]AccrualExact`, for any number of connections, leases
  and grants (`PgAssumption`: finitely many leases and grants, and no connection
  is called "nobody"). `PgInv` ties locks to statements (`LockInv`) and says
  that the sums a session has read are still current when it writes (`ReadInv`):
  every write that changes them needs the advisory lock the reader holds.
* `[]SuspensionIsExact`: generations only rise, and the Worker's floor lies
  between the delivered and the current one (`GenerationsRise`, `FloorIsSent`).
* `[]LeasesStayHome`, for any number of shards and any hash.

**The way in** (`AdmissionProofs`).

* `QueueConservesWaiters` (two invariants and the action property that a waiter
  keeps its place) and `[]QueueAdmitsForOwners`, for any requests, tenants and cap
  (`AdmissionAssumption`). `QueueInv` says that a request is in one place at most,
  what the durable rows, the row in the ledger and the answer say of each other,
  and that a request without an answer still has its waiter or the tick's
  attention. The attempt to prove "exactly one place" failed on the dropped
  re-enqueue described under `ParkedIsRetried`; the property now says what the
  code does: a waiter loses its place only to a full FIFO.
* `[]IntrospectionFailsClosed`, `[]FollowersHaveALeader`, `[]NoReadinessWakeupLost` and
  with them `[]NoWaiterIsStranded`; `[]GateCountsGuards` for any set of guards.
* `[]RateCeilingHolds`, and with it `[]GatesHold`, for any clock readings and any
  ceiling: a window is a set of stamps, of which the code counts those young
  enough, and readings may arrive late.
* `OwedGoFirst`, of the scheduler alone and of the one the admission loop drives,
  for any number of tenants and any budget. `ScanInv` says that what a tick has
  still to visit names nobody twice, has the owed tenants first and misses none
  of them that has work. That `Sorted` lists every tenant once is the pigeonhole
  principle on ranks.
* `LoadIsExactOrFails`, for any column width from 2 on (`PlanAssumption`; the code's
  is 2^32): with a width of 1 every cap would be read as the mark of an absent row.

**Services** (`ServiceProofs`).

* `[]ServesOnlySafely` and `[]NoUsageForgotten`: `BootInv` records, for each
  decision of the boot, what the earlier ones have established.
* `[]MintRefusedForCause`, for any clock skews that are integers.
* `[]SignedResultsAreReal`: a call that passed the gates keeps what they
  guaranteed, although nothing is locked while its command runs.
* `[]JobsOwnTheirBox`: every box of a job that was not evicted has an entry, a
  handler or a lost lease that accounts for it.
* `[]CredentialsDieWithTheLease`, for any TTL, margin and drift in `Nat`: a mint
  asks for no more than the rest of the lease (`AsksInTime`), and every accepted
  PAT is on record until a revoke was tried (`PatsAreRecorded`).
* `[]UsageSurvives`, for any capacities. `BillInv` numbers the events, so
  that what a journal still holds of the copy that an export is writing stands in
  both under one number; then draining by the copy's watermark removes nothing
  that is not in the table.
* `[]BudgetsHold`. Of the calendar: `civil_from_days` inverts the day number of
  every date (by era, century, four-year cycle and year, as the code computes it)
  and a period is the days of one month. Of the allowance: the decimal is the
  quotient it should be, for any number of digits. Of the grants: permits are the
  blocking calls that run, and work stays in its period.
* `[]AttestationsAreReal`: nothing is accepted that was not signed. A pre-image is
  read back from the front: length-prefixed pieces determine each other
  (`LpReads`), a concatenation determines its parts (`ConcatReads`, by induction on
  their number), and the six pairs of kinds differ in what they begin with. The
  counters are below 2^32 (the high word of a length is 0), and the chain link has
  the empty model and one principal, as the code always passes.

**Boxes** (`BoxProofs`).

* `[]ConfirmedIsGone`: what registry, routes and the ledger's reference say of a
  lease is true of the provider (`LeaseFits`), also right after a restart into
  another domain.
* `[]ResultsAreTrue`, of the three specifications together: a code of 0 comes
  from a run that succeeded (`ExecsFit`); the buffer of an exec call has what was
  read from the pipe, up to the cap, and a killed group stays dead (`CallFits`);
  what is known of clw's exit is known of the command's (`DriveFits`).
* `[]BatchesHold`: a thread that verifies holds the lock of its digest
  (`BatchVerifies`); while the report is empty, what the teardown has passed is
  gone (`BatchCleans`).
* `[]HonestHydration`: a hydration has accounted for every layer before the one
  it is at, for any plan.
* `[]CaptureIsHonest`: a surface that has not overflowed has lost nothing, and
  the hook has accepted one close at most.
* `[]WaitersHaveASpawner`: a pending slot has a thread that will publish it.
* `[]ContainmentHolds`, for any path strings and any workflow files. Of the fence:
  dropping segments keeps prefixes, the trimming before a file is placed changes
  nothing that normalisation sees, and what the ceiling of a resume covers as a
  string the original fence covers as segments. Of the shim: by induction on the
  lines the parser has read, whatever a step refers to is named by a line of its
  own body (`ParseStepFits`), whatever the layout; so a denial names a secret of
  that step and ends the job, and a step that ran was denied none (`ShimInv`).

Trying to prove also corrected the model where no run had looked: a plan may
repeat a layer or be empty (`LayerBoot`); in `ProviderBoxes` a few `CASE`s had
overlapping guards, which TLC reads in order and the logic does not; and in
`FileLedger` several claim lines were written in one step, which made
`DurableIsALedger` false for three stale leases (two are all a run has), while
the code appends and syncs line by line.

Only model-checked: liveness (`NoLeaseIsStuck`, `NoStarvation`), which is out of
the prover's reach. The two runs that expect a violation show their
counterexample and have no theorem.

## Not modelled

* The TypeScript workers under `deploy/` (spawn worker, canary, cost monitor):
  services of their own with their own storage; the fabric sees them as a
  provider or receiver that may lose answers, and so do the models.
* API types, wire contracts, HTTP transport, CLI, dashboards, read-only
  handlers and metrics: data, formatting and I/O.
* Hashes, signatures and HMAC are ideal; JSON and header syntax, prices and
  token arithmetic, image policy and request validation are left out.
* `lifecycle.rs`, `interference.rs` and `tenant_audit.rs`, which no live path
  calls; `put` and the journal lines only older versions wrote.
* In `FileLedger`, an fsync that fails although the line is on disk is not a
  fault of the model. In `PgLedger`, pooling and migrations.

## Plan

A refinement of `LeaseLedger` by `PgLedger` at commit points. What it would add
to `PgLedgerIsSerial` and `AccrualExact` is that every operation of the Postgres
ledger, the cleanup claims included, is one that the ledger in memory has.
