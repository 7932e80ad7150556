---------------------------- MODULE AdmissionQueue ----------------------------
(****************************************************************************)
(* Queued fair admission (admission.rs): an acquire that is over its tenant's *)
(* cap takes a park permit, leaves its context in `waiters` and a work item   *)
(* in the FairScheduler, and waits on a oneshot until the admission loop      *)
(* answers it, it times out, or its client goes away.  The tick selects under *)
(* the scheduler lock, then reserves, rejects and finalizes without it, one   *)
(* ledger or provider call at a time; handlers run in between.                *)
(*                                                                           *)
(* The ledger is seen through row[r]: Claimed is a Pending row whose cleanup  *)
(* is not confirmed, Abandoned a Held row whose teardown is not confirmed;    *)
(* both are the sweeps' business (LeaseLifecycle).  `durable` says whether a  *)
(* PgAdmissionQueue is attached; drows and admits are its two tables.         *)
(****************************************************************************)
EXTENDS FairScheduler, SequencesExt

CONSTANTS
  AcquireRequests,   \* acquire requests; each mints one lease id
  Owner,             \* Owner[r]: its tenant
  Cap,               \* max_concurrency of every tenant
  ParkCap            \* park_cap

ASSUME AdmissionAssumption ==
  /\ Owner \in [AcquireRequests -> SchedTenants]
  /\ Cap \in Nat
  /\ "none" \notin AcquireRequests

VARIABLES
  conn,       \* conn[r]: where the handler of r is
  mail,       \* mail[r]: what was sent on its oneshot
  handle,     \* handle[r]: the park semaphore r holds a reference to, 0 for none
  sem,        \* sem[t]: the semaphore park_permits has for t, 0 for none
  made,       \* made[t]: how many semaphores were created for t
  waiters,    \* requests whose deferred context is in the map
  arrived,    \* the requests in the order they were first enqueued
  row,        \* row[r]: the ledger row of r's lease
  pat,        \* pat[r]: the CAS PAT minted for it
  tick,       \* the running admission tick
  recorded,   \* recorded[r]: waits fed to wait_stats and to the p95 ring
  durable, drows, admits

handlerVars == <<conn, mail, handle, sem, made, arrived>>
durableVars == <<durable, drows, admits>>
admissionVars == <<schedulerVars, handlerVars, waiters, row, pat, tick, recorded, durableVars>>

NoJob == [id |-> "none", at |-> "none"]

IdleTick == [phase |-> "idle", cands |-> <<>>, claimed |-> <<>>, rejects |-> <<>>,
             finalize |-> <<>>, job |-> NoJob, report |-> {}, genuine |-> {}]

AdmissionInit ==
  /\ SchedulerInit
  /\ conn = [r \in AcquireRequests |-> "new"]
  /\ mail = [r \in AcquireRequests |-> "none"]
  /\ handle = [r \in AcquireRequests |-> 0]
  /\ sem = [t \in SchedTenants |-> 0]
  /\ made = [t \in SchedTenants |-> 0]
  /\ waiters = {} /\ arrived = <<>>
  /\ row = [r \in AcquireRequests |-> "none"]
  /\ pat = [r \in AcquireRequests |-> "none"]
  /\ tick = IdleTick
  /\ recorded = [r \in AcquireRequests |-> 0]
  /\ durable \in BOOLEAN /\ drows = {} /\ admits = [t \in SchedTenants |-> 0]

Active(t) == {r \in AcquireRequests :
                Owner[r] = t /\ row[r] \in {"Pending", "Claimed", "Held", "Abandoned"}}

(* The receiver of r's oneshot still exists. *)
Alive(r) == conn[r] \in {"enqueued", "parked"}

Revoke(r) == pat' = [pat EXCEPT ![r] = IF @ = "live" THEN "revoked" ELSE @]

SetRow(r, s) == row' = [row EXCEPT ![r] = s]

Goto(r, s) == conn' = [conn EXCEPT ![r] = s]

--------------------------------------------------------------------------------
(* The acquire handler: the immediate path *)

Admit(r) ==
  /\ conn[r] = "new" /\ Cardinality(Active(Owner[r])) < Cap
  /\ SetRow(r, "Pending") /\ Goto(r, "handler")
  /\ UNCHANGED <<schedulerVars, mail, handle, sem, made, arrived, waiters, pat, tick, recorded, durableVars>>

(* finalize on the handler's own task; CapacityError gives up here, so every  *)
(* failure revokes.                                                           *)
FinalizeInHandler(r) ==
  /\ conn[r] = "handler"
  /\ \/ SetRow(r, "Held") /\ pat' = [pat EXCEPT ![r] = "live"] /\ Goto(r, "lease")
     \/ \E left \in {"none", "Claimed"} :
          SetRow(r, left) /\ pat' = [pat EXCEPT ![r] = "revoked"] /\ Goto(r, "refused")
  /\ UNCHANGED <<schedulerVars, mail, handle, sem, made, arrived, waiters, tick, recorded, durableVars>>

--------------------------------------------------------------------------------
(* acquire_queued *)

Pending(t) == Len(queues[t])

Holders(g, t) == {r \in AcquireRequests : Owner[r] = t /\ handle[r] = g /\ conn[r] # "taking"}

(* park_semaphore: a reference to the tenant's semaphore, made when missing. *)
ParkSemaphore(r) ==
  LET t == Owner[r]
      g == IF sem[t] = 0 THEN made[t] + 1 ELSE sem[t]
  IN  /\ conn[r] = "new" /\ Cardinality(Active(t)) >= Cap
      /\ handle' = [handle EXCEPT ![r] = g]
      /\ sem' = [sem EXCEPT ![t] = g]
      /\ made' = [made EXCEPT ![t] = IF sem[t] = 0 THEN g ELSE @]
      /\ Goto(r, "taking")
      /\ UNCHANGED <<schedulerVars, mail, arrived, waiters, row, pat, tick, recorded, durableVars>>

CanPark(r) ==
  Cardinality(Holders(handle[r], Owner[r])) < ParkCap /\ HasRoom(Owner[r])

(* try_acquire_owned, the context, the work item.  *)
Enqueue(r) ==
  /\ conn[r] = "taking" /\ CanPark(r)
  /\ TryEnqueue(Owner[r], r)
  /\ waiters' = waiters \cup {r}
  /\ arrived' = Append(arrived, r)
  /\ Goto(r, IF durable THEN "enqueued" ELSE "parked")
  /\ UNCHANGED <<cursor, owed_skip, scan, mail, handle, sem, made, row, pat, tick, recorded, durableVars>>

Shed(r) ==
  /\ conn[r] = "taking" /\ ~CanPark(r) /\ ~scan.on
  /\ handle' = [handle EXCEPT ![r] = 0]
  /\ Goto(r, "refused")
  /\ UNCHANGED <<schedulerVars, mail, sem, made, arrived, waiters, row, pat, tick, recorded, durableVars>>

QueuedRow(r) == {d \in drows : d.id = r}

(* PgAdmissionQueue::enqueue stamps the tenant's admit count and keeps the    *)
(* instant of the first enqueue; a row that is there already is an error.     *)
DurableRow(r) ==
  [id |-> r, deficit |-> admits[Owner[r]], at |-> CHOOSE n \in DOMAIN arrived : arrived[n] = r]

DurableEnqueue(r) ==
  /\ conn[r] = "enqueued"
  /\ \/ /\ drows' = drows \cup {DurableRow(r)}
        /\ Goto(r, "parked")
        /\ UNCHANGED <<waiters, handle>>
     \/ /\ waiters' = waiters \ {r}
        /\ handle' = [handle EXCEPT ![r] = 0]
        /\ Goto(r, "refused")
        /\ UNCHANGED drows
  /\ UNCHANGED <<schedulerVars, mail, sem, made, arrived, row, pat, tick, recorded, durable, admits>>

(* The answer is polled before the timer. *)
Receive(r) ==
  /\ conn[r] = "parked" /\ mail[r] # "none"
  /\ Goto(r, mail[r])
  /\ UNCHANGED <<schedulerVars, mail, handle, sem, made, arrived, waiters, row, pat, tick, recorded, durableVars>>

(* The timeout drops the receiver and revokes ... *)
TimeOut(r) ==
  /\ conn[r] = "parked" /\ mail[r] = "none"
  /\ Goto(r, "timing") /\ Revoke(r)
  /\ UNCHANGED <<schedulerVars, mail, handle, sem, made, arrived, waiters, row, tick, recorded, durableVars>>

(* PgAdmissionQueue::remove: the row goes, the admit counts stay. *)
DurableRemove(r) == drows' = drows \ QueuedRow(r)

(* ... and then evict_waiter drops the context and the durable row; the work  *)
(* item stays in the FIFO.                                                    *)
Evict(r) ==
  /\ conn[r] = "timing"
  /\ waiters' = waiters \ {r}
  /\ DurableRemove(r)
  /\ Goto(r, "timeout")
  /\ UNCHANGED <<schedulerVars, mail, handle, sem, made, arrived, row, pat, tick, recorded, durable, admits>>

(* The permit is dropped, then maybe_prune_park_semaphore. *)
Leave(r) ==
  LET t == Owner[r] IN
  /\ handle[r] # 0 /\ conn[r] \in {"lease", "refused", "timeout"} /\ ~scan.on
  /\ handle' = [handle EXCEPT ![r] = 0]
  /\ sem' = [sem EXCEPT ![t] = IF Pending(t) = 0 /\ Holders(@, t) \subseteq {r} THEN 0 ELSE @]
  /\ UNCHANGED <<schedulerVars, conn, mail, made, arrived, waiters, row, pat, tick, recorded, durableVars>>

(* The client hangs up: the handler future is dropped where it waits. *)
Disconnect(r) ==
  /\ conn[r] = "parked"
  /\ Goto(r, "gone") /\ handle' = [handle EXCEPT ![r] = 0]
  /\ UNCHANGED <<schedulerVars, mail, sem, made, arrived, waiters, row, pat, tick, recorded, durableVars>>

--------------------------------------------------------------------------------
(* run_admission_tick *)

InPhase(p) == tick.phase = p /\ ~scan.on

TickBegin ==
  /\ InPhase("idle")
  /\ BeginScan
  /\ tick' = [tick EXCEPT !.phase = "scan"]
  /\ UNCHANGED <<handlerVars, waiters, row, pat, recorded, durableVars>>

(* under_cap: strictly below the cap, and an unreadable ledger is not. *)
TickSkip(t) ==
  /\ CapSkip(t)
  /\ UNCHANGED <<handlerVars, waiters, row, pat, tick, recorded, durableVars>>

TickSelect(t) ==
  /\ Cardinality(Active(t)) < Cap
  /\ Select(t)
  /\ LET r == Head(queues[t]) IN
       tick' = [tick EXCEPT !.cands = Append(@, [id |-> r, live |-> r \in waiters]),
                            !.report = @ \cup {r}]
  /\ UNCHANGED <<handlerVars, waiters, row, pat, recorded, durableVars>>

TickPass ==
  /\ NextPass
  /\ UNCHANGED <<handlerVars, waiters, row, pat, tick, recorded, durableVars>>

TickSelected ==
  /\ EndScan
  /\ tick' = [tick EXCEPT !.phase = IF durable THEN "claim" ELSE "reserve"]
  /\ UNCHANGED <<handlerVars, waiters, row, pat, recorded, durableVars>>

(* fair_order, over a table whose instants differ. *)
FairHead(rows) ==
  CHOOSE d \in rows : \A e \in rows : d.deficit < e.deficit \/ (d.deficit = e.deficit /\ d.at <= e.at)

(* dequeue_head: the fair head is selected and deleted in one transaction. *)
DequeueHead(rows, d) ==
  /\ d \in rows /\ d = FairHead(rows)
  /\ drows' = drows \ {d}

(* dequeue_next_local: only rows whose waiter lives on this instance. *)
DequeueNextLocal(ids, d) == DequeueHead({e \in drows : e.id \in ids}, d)

(* The live candidates of this tick. *)
LocalIds == {c.id : c \in {tick.cands[n] : n \in {m \in DOMAIN tick.cands : tick.cands[m].live}}}

ClaimNext ==
  /\ InPhase("claim")
  /\ \E d \in drows :
       /\ DequeueNextLocal(LocalIds, d)
       /\ tick' = [tick EXCEPT !.claimed = Append(@, [id |-> d.id, live |-> TRUE])]
  /\ UNCHANGED <<schedulerVars, handlerVars, waiters, row, pat, recorded, durable, admits>>

(* Nothing left to claim, or the database failed: the unclaimed are dropped. *)
ClaimDone ==
  /\ InPhase("claim")
  /\ tick' = [tick EXCEPT !.phase = "reserve", !.cands = tick.claimed, !.claimed = <<>>]
  /\ UNCHANGED <<schedulerVars, handlerVars, waiters, row, pat, recorded, durableVars>>

Reserving(r) == InPhase("reserve") /\ tick.cands # <<>> /\ r = Head(tick.cands).id

(* An item whose waiter was gone when it was selected. *)
ReserveOrphan(r) ==
  /\ Reserving(r) /\ ~Head(tick.cands).live
  /\ tick' = [tick EXCEPT !.cands = Tail(@)]
  /\ UNCHANGED <<schedulerVars, handlerVars, waiters, row, pat, recorded, durableVars>>

(* PgAdmissionQueue::admit counts the tenant's win. *)
DurableAdmit(t) == admits' = IF durable THEN [admits EXCEPT ![t] = @ + 1] ELSE admits

ReserveAdmitted(r) ==
  /\ Reserving(r) /\ Head(tick.cands).live
  /\ row[r] = "none" /\ Cardinality(Active(Owner[r])) < Cap
  /\ SetRow(r, "Pending")
  /\ DurableAdmit(Owner[r])
  /\ tick' = [tick EXCEPT !.cands = Tail(@), !.finalize = Append(@, r)]
  /\ UNCHANGED <<schedulerVars, handlerVars, waiters, pat, recorded, durable, drows>>

(* Mutant: the loser of the cap race is dropped. *)
ReserveLoserDropped(r) ==
  /\ Reserving(r) /\ Head(tick.cands).live /\ Cardinality(Active(Owner[r])) >= Cap
  /\ tick' = [tick EXCEPT !.cands = Tail(@)]
  /\ UNCHANGED <<schedulerVars, handlerVars, waiters, row, pat, recorded, durableVars>>

(* OverConcurrency: back into the durable queue and to the end of the FIFO. *)
ReserveLost(r) ==
  /\ Reserving(r) /\ Head(tick.cands).live
  /\ Cardinality(Active(Owner[r])) >= Cap
  /\ TryEnqueue(Owner[r], r)
  /\ \/ drows' = IF durable THEN drows \cup {DurableRow(r)} ELSE drows
     \/ UNCHANGED drows
  /\ tick' = [tick EXCEPT !.cands = Tail(@)]
  /\ UNCHANGED <<cursor, owed_skip, scan, handlerVars, waiters, row, pat, recorded, durable, admits>>

(* OverCompute, a reservation that overflows, a ledger that fails. *)
ReserveRejected(r) ==
  /\ Reserving(r) /\ Head(tick.cands).live
  /\ tick' = [tick EXCEPT !.cands = Tail(@), !.rejects = Append(@, r)]
  /\ UNCHANGED <<schedulerVars, handlerVars, waiters, row, pat, recorded, durableVars>>

ReserveDone ==
  /\ InPhase("reserve") /\ tick.cands = <<>>
  /\ tick' = [tick EXCEPT !.phase = "reject"]
  /\ UNCHANGED <<schedulerVars, handlerVars, waiters, row, pat, recorded, durableVars>>

Send(r, answer) == mail' = IF Alive(r) THEN [mail EXCEPT ![r] = answer] ELSE mail

(* Wake and reject, and drop what the queue still holds of it. *)
RejectNext ==
  /\ InPhase("reject") /\ tick.rejects # <<>>
  /\ LET r == Head(tick.rejects) IN
       /\ IF r \in waiters THEN Send(r, "refused") ELSE UNCHANGED mail
       /\ waiters' = waiters \ {r}
       /\ DurableRemove(r)
  /\ tick' = [tick EXCEPT !.rejects = Tail(@)]
  /\ UNCHANGED <<schedulerVars, conn, handle, sem, made, arrived, row, pat, recorded, durable, admits>>

RejectDone ==
  /\ InPhase("reject") /\ tick.rejects = <<>>
  /\ tick' = [tick EXCEPT !.phase = "finalize"]
  /\ UNCHANGED <<schedulerVars, handlerVars, waiters, row, pat, recorded, durableVars>>

--------------------------------------------------------------------------------
(* Finalizing the reserved leases, one after the other *)

Finalizing(r, at) == InPhase("finalize") /\ tick.job = [id |-> r, at |-> at]

JobAt(r, at) == tick' = [tick EXCEPT !.job = [id |-> r, at |-> at]]

EndJob == tick' = [tick EXCEPT !.job = NoJob]

TakeJob ==
  /\ InPhase("finalize") /\ tick.job = NoJob /\ tick.finalize # <<>>
  /\ LET r == Head(tick.finalize) IN
       /\ waiters' = waiters \ {r}
       /\ tick' = [tick EXCEPT !.finalize = Tail(@),
                               !.job = [id |-> r, at |-> IF r \in waiters THEN "mint" ELSE "unwanted"]]
  /\ UNCHANGED <<schedulerVars, handlerVars, row, pat, recorded, durableVars>>

(* The stale PAT of an earlier attempt is revoked before the new mint. *)
MintStep(r) ==
  /\ Finalizing(r, "mint")
  /\ \/ /\ pat' = [pat EXCEPT ![r] = "live"]
        /\ JobAt(r, "provision")
        /\ UNCHANGED row
     \/ /\ Revoke(r)
        /\ \E left \in {"none", "Claimed"} : SetRow(r, left)
        /\ JobAt(r, "failed")
  /\ UNCHANGED <<schedulerVars, handlerVars, waiters, recorded, durableVars>>

ProvisionStep(r) ==
  /\ Finalizing(r, "provision")
  /\ \/ SetRow(r, "Held") /\ UNCHANGED pat /\ JobAt(r, "served")
     \/ \E left \in {"none", "Claimed"} : SetRow(r, left) /\ Revoke(r) /\ JobAt(r, "failed")
     \/ SetRow(r, "none") /\ UNCHANGED pat /\ JobAt(r, "capacity")
  /\ UNCHANGED <<schedulerVars, handlerVars, waiters, recorded, durableVars>>

(* CapacityError and the slot is free again: the waiter goes back, without a  *)
(* durable row; a full FIFO sheds it.                                         *)
Requeue(r) ==
  /\ Finalizing(r, "capacity")
  /\ TryEnqueue(Owner[r], r)
  /\ IF HasRoom(Owner[r])
     THEN waiters' = waiters \cup {r} /\ UNCHANGED <<mail, pat>>
     ELSE Send(r, "refused") /\ Revoke(r) /\ UNCHANGED waiters
  /\ EndJob
  /\ UNCHANGED <<cursor, owed_skip, scan, conn, handle, sem, made, arrived, row, recorded, durableVars>>

Deliver(r) ==
  /\ tick.job.at \in {"served", "failed"} /\ Finalizing(r, tick.job.at) /\ Alive(r)
  /\ Send(r, IF tick.job.at = "served" THEN "lease" ELSE "refused")
  /\ tick' = [tick EXCEPT !.job = NoJob, !.genuine = @ \cup {r}]
  /\ UNCHANGED <<schedulerVars, conn, handle, sem, made, arrived, waiters, row, pat, recorded, durableVars>>

(* Mutant: ledger.remove, which refuses a Held row. *)
RollbackByRemove(r) ==
  row' = [row EXCEPT ![r] = IF @ \in {"Pending", "Claimed"} THEN "none" ELSE @]

(* rollback_undispatched_lease: nobody will own this lease. *)
RollbackUndispatched(r) ==
  CASE row[r] = "Held" -> \E left \in {"Terminal", "Abandoned"} : SetRow(r, left)
    [] row[r] \in {"Pending", "Claimed"} -> \E left \in {"none", "Claimed"} : SetRow(r, left)
    [] OTHER -> UNCHANGED row

Undo(r) ==
  /\ tick.job.at \in {"served", "failed", "unwanted"} /\ Finalizing(r, tick.job.at)
  /\ tick.job.at # "unwanted" => ~Alive(r)
  /\ RollbackUndispatched(r)
  /\ IF row[r] \in {"Held", "Pending", "Claimed"} THEN Revoke(r) ELSE UNCHANGED pat
  /\ EndJob
  /\ UNCHANGED <<schedulerVars, handlerVars, waiters, recorded, durableVars>>

RecordGenuine == recorded' = [r \in AcquireRequests |-> recorded[r] + IF r \in tick.genuine THEN 1 ELSE 0]

TickEnd ==
  /\ InPhase("finalize") /\ tick.job = NoJob /\ tick.finalize = <<>>
  /\ RecordGenuine
  /\ tick' = IdleTick
  /\ UNCHANGED <<schedulerVars, handlerVars, waiters, row, pat, durableVars>>

--------------------------------------------------------------------------------
(* close, the reaper and the sweeps give slots back. *)
FreeSlot(r) ==
  /\ \/ row[r] = "Held" /\ "lease" \in {conn[r], mail[r]} /\ SetRow(r, "Terminal")
     \/ row[r] = "Abandoned" /\ SetRow(r, "Terminal")
     \/ row[r] = "Claimed" /\ SetRow(r, "none")
  /\ tick.job.id # r
  /\ UNCHANGED <<schedulerVars, handlerVars, waiters, pat, tick, recorded, durableVars>>

HandlerStep(r) ==
  \/ Admit(r) \/ FinalizeInHandler(r) \/ ParkSemaphore(r) \/ Enqueue(r) \/ Shed(r)
  \/ DurableEnqueue(r) \/ Receive(r) \/ TimeOut(r) \/ Evict(r) \/ Leave(r) \/ Disconnect(r)

LoopStep ==
  \/ TickBegin \/ TickPass \/ TickSelected \/ ClaimNext \/ ClaimDone
  \/ ReserveDone \/ RejectNext \/ RejectDone \/ TakeJob \/ TickEnd
  \/ \E t \in SchedTenants : TickSkip(t) \/ TickSelect(t)
  \/ \E r \in AcquireRequests :
       \/ ReserveOrphan(r) \/ ReserveAdmitted(r) \/ ReserveLost(r) \/ ReserveRejected(r)
       \/ MintStep(r) \/ ProvisionStep(r) \/ Requeue(r) \/ Deliver(r) \/ Undo(r)

AdmissionNext ==
  \/ \E r \in AcquireRequests : HandlerStep(r) \/ FreeSlot(r)
  \/ LoopStep

AdmissionSpec == AdmissionInit /\ [][AdmissionNext]_admissionVars

--------------------------------------------------------------------------------
(* Properties *)

(* What the tick still holds of r, besides the FIFO. *)
InTick(r) ==
  \/ \E n \in DOMAIN tick.cands : tick.cands[n] = [id |-> r, live |-> TRUE]
  \/ \E n \in DOMAIN tick.claimed : tick.claimed[n].id = r
  \/ r \in ToSet(tick.rejects) \cup ToSet(tick.finalize)
  \/ tick.job.id = r

(* The client of r was told no, or left without an answer. *)
GivenUp(r) == conn[r] \in {"timeout", "refused"} \/ (conn[r] = "gone" /\ mail[r] = "none")

Forgotten(r) == GivenUp(r) /\ r \notin waiters /\ ~InTick(r)

(* The types of the admission queue's state. *)
AdmissionTypeOK ==
  /\ conn \in [AcquireRequests -> {"new", "handler", "taking", "enqueued", "parked", "lease",
                                   "refused", "timing", "timeout", "gone"}]
  /\ mail \in [AcquireRequests -> {"none", "lease", "refused"}]
  /\ waiters \subseteq AcquireRequests
  /\ row \in [AcquireRequests -> {"none", "Pending", "Claimed", "Held", "Abandoned", "Terminal"}]
  /\ pat \in [AcquireRequests -> {"none", "live", "revoked"}]
  /\ \A t \in SchedTenants : /\ Pending(t) <= MaxTenantQueueDepth
                             /\ \A n \in DOMAIN queues[t] : Owner[queues[t][n]] = t

(* Dispatch and timeout exclude each other: once a request that was refused,  *)
(* timed out or was hung up on has left the queue and the tick, no row is     *)
(* kept for it as if it had an owner, in whatever order the timeout, the      *)
(* reservation and finalize happened.                                         *)
NoPhantomLease == ~durable => \A r \in AcquireRequests : Forgotten(r) => row[r] \notin {"Pending", "Held"}

(* A parked request that nobody answered yet, and whether the FIFO or the     *)
(* tick has it.                                                               *)
Unanswered(r) == conn[r] = "parked" /\ mail[r] = "none"

Placed(r) == InTick(r) \/ r \in ToSet(queues[Owner[r]])

(* A parked request that nobody answered yet has its context, and at most one *)
(* place, in the FIFO or in the hands of the tick: the loop does not serve it *)
(* twice.                                                                     *)
EachWaiterOnce ==
  ~durable => \A r \in AcquireRequests : Unanswered(r) =>
    LET places == Cardinality({n \in DOMAIN queues[Owner[r]] : queues[Owner[r]][n] = r})
    IN  places + (IF InTick(r) THEN 1 ELSE 0) <= 1 /\ (r \in waiters \/ tick.job.id = r)

(* The loop loses a waiter in one way only: somebody took its slot between    *)
(* selection and reservation and, when it is put back, its tenant's FIFO is   *)
(* full, with others or with the items of requests that timed out.            *)
WaitersKeepTheirPlace ==
  [][~durable => \A r \in AcquireRequests :
       Unanswered(r)' /\ ~Placed(r)' => Unanswered(r) /\ (Placed(r) => ~HasRoom(Owner[r]))]_admissionVars

(* try_admit is the only gate: however selection, requeues and immediate      *)
(* acquires interleave, no tenant has more rows than its cap.                 *)
QueueNeverOverAdmits == \A t \in SchedTenants : Cardinality(Active(t)) <= Cap

(* Wait statistics: a request contributes at most one wait, and only when its *)
(* answer went out; retries, orphans and rolled back dispatches do not count. *)
WaitsAreHonest ==
  \A r \in AcquireRequests : recorded[r] <= 1 /\ (recorded[r] = 1 => mail[r] # "none")

(* Admission queue: the loop neither doubles nor, while there is room, loses a *)
(* parked request, and feeds its wait statistics with answered requests only,  *)
(* each once.                                                                  *)
QueueConservesWaiters == [](EachWaiterOnce /\ WaitsAreHonest) /\ WaitersKeepTheirPlace

(* Admission queue: selection, requeues and immediate acquires together never  *)
(* pass the cap, and no row is kept for a request that was given up.           *)
QueueAdmitsForOwners == NoPhantomLease /\ QueueNeverOverAdmits

(* A7b, stated at the re-enqueue: the PAT a waiter carries across a capacity  *)
(* retry is revoked on every path on which the request is given up.           *)
GivenUpHoldsNoPat == \A r \in AcquireRequests : Forgotten(r) => pat[r] # "live"

(* park_permits: at most park_cap of one tenant's requests are parked.        *)
ParkBound ==
  \A t \in SchedTenants : Cardinality({r \in AcquireRequests : Owner[r] = t /\ Alive(r)}) <= ParkCap

(* A parked request is still in the FIFO or in the tick, with a durable queue *)
(* as well: what is not claimed in one tick is retried in the next.           *)
ParkedIsRetried ==
  \A r \in AcquireRequests :
    conn[r] = "parked" /\ mail[r] = "none" => InTick(r) \/ r \in ToSet(queues[Owner[r]])
===============================================================================
