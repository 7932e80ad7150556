------------------------------ MODULE Autoscaler ------------------------------
(****************************************************************************)
(* The GitHub autoscaler (handlers/webhook.rs): a `queued` delivery claims the *)
(* job in a bounded map, acquires a runner lease and records it; a `completed` *)
(* delivery takes the lease and cancels it.  Deliveries arrive more than once, *)
(* in any order and concurrently, and an awaiting handler may be dropped when  *)
(* its caller hangs up.  GitHub and the acquire path are external here.        *)
(****************************************************************************)
EXTENDS Integers, Sequences, FiniteSets, SequencesExt

CONSTANTS
  Jobs,            \* workflow jobs GitHub reports
  ManagedJobs,     \* those whose labels and repository this fabric serves
  Handlers,        \* concurrent webhook requests
  MaxTrackedJobs,  \* FABRIC_AUTOSCALER_MAX_TRACKED_JOBS
  MaxDeliveries,   \* capacity of the replay guard
  MaxBoxes         \* bound on the leases ever acquired

ASSUME AutoscalerAssumption ==
  ManagedJobs \subseteq Jobs /\ MaxTrackedJobs \in Nat \ {0} /\ MaxDeliveries \in Nat \ {0}

VARIABLES
  tracked,    \* JobLeaseMap.map: state of the tracked jobs
  trackOrder, \* JobLeaseMap.order, oldest first
  seen,       \* SeenDeliveries.order, oldest first
  handler,    \* handler[h]: where a delivery is in its handler
  box,        \* live runner leases, with the job each was acquired for
  boxes,      \* how many were ever acquired
  history     \* jobs completed, jobs whose entry was evicted, boxes left to the reaper

scalerVars == <<tracked, trackOrder, seen, handler, box, boxes, history>>

Deliveries == [action : {"queued", "completed"}, job : Jobs]
Free == [at |-> "free"]
Entry(state, lease) == [state |-> state, lease |-> lease]
NoBox == 0

ScalerInit ==
  /\ tracked = <<>>
  /\ trackOrder = <<>>
  /\ seen = <<>>
  /\ handler = [h \in Handlers |-> Free]
  /\ box = {}
  /\ boxes = 0
  /\ history = [completed |-> {}, evicted |-> {}, left |-> {}]

IsTracked(j) == j \in DOMAIN tracked

(* evict_one: at capacity the oldest tombstone goes, the oldest entry if there is none. *)
Victim ==
  IF Len(trackOrder) < MaxTrackedJobs THEN {}
  ELSE LET done == SelectSeq(trackOrder, LAMBDA j : tracked[j].state = "Done")
       IN  {IF done # <<>> THEN Head(done) ELSE Head(trackOrder)}

(* A new entry, after evict_one. *)
Insert(j, entry) ==
  /\ tracked' = [i \in (DOMAIN tracked \ Victim) \cup {j} |-> IF i = j THEN entry ELSE tracked[i]]
  /\ trackOrder' = Append(SelectSeq(trackOrder, LAMBDA i : i \notin Victim), j)

Update(j, entry) ==
  /\ tracked' = [tracked EXCEPT ![j] = entry]
  /\ UNCHANGED trackOrder

Moves(h, to) == handler' = [handler EXCEPT ![h] = to]

(* check_and_record: the oldest delivery is forgotten at capacity. *)
RecordDelivery(d) ==
  seen' = Append(IF Len(seen) >= MaxDeliveries THEN Tail(seen) ELSE seen, d)

--------------------------------------------------------------------------------
(* handle_queued up to the first await: a job tracked in any state is left alone. *)
Claim(h, j) ==
  IF IsTracked(j)
  THEN UNCHANGED <<tracked, trackOrder, handler, history>>
  ELSE /\ Insert(j, Entry("Provisioning", NoBox))
       /\ Moves(h, [at |-> "acquire", job |-> j])
       /\ history' = [history EXCEPT !.evicted = @ \cup Victim]

Queued(h, j) ==
  /\ ~Contains(seen, [action |-> "queued", job |-> j])
  /\ handler[h] = Free
  /\ RecordDelivery([action |-> "queued", job |-> j])
  /\ IF j \in ManagedJobs
     THEN Claim(h, j)
     ELSE UNCHANGED <<tracked, trackOrder, handler, history>>
  /\ UNCHANGED <<box, boxes>>

(* Mutant: a `completed` during the acquire is only acknowledged. *)
TakeForgetsAcquire(h, j) ==
  /\ history' = [history EXCEPT !.completed = @ \cup {j}]
  /\ IF IsTracked(j) /\ tracked[j].state = "Held"
     THEN /\ Update(j, Entry("Done", NoBox))
          /\ Moves(h, [at |-> "cancel", job |-> j, lease |-> tracked[j].lease])
     ELSE UNCHANGED <<tracked, trackOrder, handler>>

(* JobLeaseMap::take: a held lease is cancelled by this handler, one being    *)
(* acquired by the handler that acquires it; an unknown job, ours or not, is  *)
(* remembered as finished.                                                    *)
Take(h, j) ==
  /\ history' = [history EXCEPT
       !.completed = @ \cup {j}, !.evicted = IF IsTracked(j) THEN @ ELSE @ \cup Victim]
  /\ \/ /\ ~IsTracked(j)
        /\ Insert(j, Entry("Done", NoBox))
        /\ UNCHANGED handler
     \/ /\ IsTracked(j) /\ tracked[j].state = "Held"
        /\ Update(j, Entry("Done", NoBox))
        /\ Moves(h, [at |-> "cancel", job |-> j, lease |-> tracked[j].lease])
     \/ /\ IsTracked(j) /\ tracked[j].state = "Provisioning"
        /\ Update(j, Entry("CancelRequested", NoBox))
        /\ UNCHANGED handler
     \/ /\ IsTracked(j) /\ tracked[j].state \in {"CancelRequested", "Done"}
        /\ UNCHANGED <<tracked, trackOrder, handler>>

Completed(h, j) ==
  /\ ~Contains(seen, [action |-> "completed", job |-> j])
  /\ handler[h] = Free
  /\ RecordDelivery([action |-> "completed", job |-> j])
  /\ Take(h, j)
  /\ UNCHANGED <<box, boxes>>

--------------------------------------------------------------------------------
(* provision_runner: the lease exists before the handler sees the answer. *)
Acquired(h) ==
  /\ handler[h].at = "acquire" /\ boxes < MaxBoxes
  /\ boxes' = boxes + 1
  /\ box' = box \cup {[lease |-> boxes', job |-> handler[h].job]}
  /\ Moves(h, [at |-> "record", job |-> handler[h].job, lease |-> boxes'])
  /\ UNCHANGED <<tracked, trackOrder, seen, history>>

(* provision_failed: whatever the entry is by now becomes a tombstone. *)
AcquireFails(h) ==
  /\ handler[h].at = "acquire"
  /\ IF IsTracked(handler[h].job)
     THEN Update(handler[h].job, Entry("Done", NoBox))
     ELSE UNCHANGED <<tracked, trackOrder>>
  /\ Moves(h, Free)
  /\ UNCHANGED <<seen, box, boxes, history>>

(* JobLeaseMap::record_lease *)
RecordLease(h) ==
  LET j == handler[h].job
      l == handler[h].lease
      cancels == [at |-> "cancel", job |-> j, lease |-> l]
  IN  /\ handler[h].at = "record"
      /\ \/ /\ IsTracked(j) /\ tracked[j].state = "Provisioning"
            /\ Update(j, Entry("Held", l)) /\ Moves(h, Free)
         \/ /\ IsTracked(j) /\ tracked[j].state = "CancelRequested"
            /\ Update(j, Entry("Done", NoBox)) /\ Moves(h, cancels)
         \/ /\ ~IsTracked(j)
            /\ Moves(h, cancels) /\ UNCHANGED <<tracked, trackOrder>>
         \/ /\ IsTracked(j) /\ tracked[j].state \in {"Held", "Done"}
            /\ Moves(h, Free) /\ UNCHANGED <<tracked, trackOrder>>
      /\ UNCHANGED <<seen, box, boxes, history>>

(* cancel_lease: nothing is cancelled when the tenant of the PAT cannot be resolved. *)
CancelLease(h) ==
  /\ handler[h].at = "cancel"
  /\ Moves(h, Free)
  /\ \/ box' = {b \in box : b.lease # handler[h].lease} /\ UNCHANGED history
     \/ history' = [history EXCEPT !.left = @ \cup {handler[h].lease}] /\ UNCHANGED box
  /\ UNCHANGED <<tracked, trackOrder, seen, boxes>>

(* The caller hangs up: the handler stops at its await. *)
Dropped(h) ==
  /\ handler[h].at \in {"acquire", "record", "cancel"}
  /\ Moves(h, Free)
  /\ history' = [history EXCEPT !.left = IF handler[h].at = "acquire" THEN @ ELSE @ \cup {handler[h].lease}]
  /\ UNCHANGED <<tracked, trackOrder, seen, box, boxes>>

(* The deadline reaper, or a close of its own, ends a lease. *)
Reaped(b) ==
  /\ box' = box \ {b}
  /\ UNCHANGED <<tracked, trackOrder, seen, handler, boxes, history>>

ScalerNext ==
  \/ \E h \in Handlers, j \in Jobs : Queued(h, j) \/ Completed(h, j)
  \/ \E h \in Handlers : Acquired(h) \/ AcquireFails(h) \/ RecordLease(h) \/ CancelLease(h) \/ Dropped(h)
  \/ \E b \in box : Reaped(b)

ScalerSpec == ScalerInit /\ [][ScalerNext]_scalerVars

--------------------------------------------------------------------------------
(* Properties *)

ScalerTypeOK ==
  /\ DOMAIN tracked \subseteq Jobs /\ Len(trackOrder) <= MaxTrackedJobs
  /\ Range(trackOrder) = DOMAIN tracked
  /\ Range(seen) \subseteq Deliveries /\ Len(seen) <= MaxDeliveries
  /\ \A b \in box : b.lease \in 1..boxes /\ b.job \in ManagedJobs

InFlight(l) == \E h \in Handlers : handler[h].at \in {"record", "cancel"} /\ handler[h].lease = l

(* Once GitHub reported a job as completed, no runner box of that job stays   *)
(* alive without a handler about to cancel it, although the report may arrive *)
(* before, during or after the acquire.  The exceptions are the ones the code *)
(* names: an entry that was evicted at capacity, a PAT that did not resolve,  *)
(* a handler that was dropped.                                                *)
CompletedJobsFreeTheirBox ==
  \A b \in box : b.job \in history.completed /\ b.job \notin history.evicted /\ b.lease \notin history.left
                 => InFlight(b.lease)

(* However often and in whatever order its deliveries arrive, after the replay *)
(* guard forgot them too, a job whose entry was never evicted has one box.     *)
OneBoxPerJob ==
  \A a, b \in box : a.job = b.job /\ a.job \notin history.evicted => a = b

(* Autoscaler: a completed job frees its box, and no job gets two, in whatever *)
(* order and however often GitHub delivers.                                    *)
JobsOwnTheirBox == CompletedJobsFreeTheirBox /\ OneBoxPerJob

(* record_lease cancels a lease whose claim was evicted while it was acquired. *)
EvictedClaimIsCancelled ==
  \A b \in box : b.job \in history.completed /\ b.lease \notin history.left /\ ~InFlight(b.lease)
                 => \E j \in DOMAIN tracked : tracked[j] = Entry("Held", b.lease)
===============================================================================
