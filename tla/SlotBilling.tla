----------------------------- MODULE SlotBilling -----------------------------
(****************************************************************************)
(* Slot metering and its two ways out (billing.rs, billing_sink.rs,           *)
(* billing_export.rs, corelink_billing.rs): record_slot appends to a bounded   *)
(* journal that the export loop copies to the billing table and then drains,   *)
(* and taps the usage push, which pairs acquire and end of a lease, buffers a  *)
(* usage event and posts batches to corelink-billing (external).  Both loops   *)
(* work on a copy while new events arrive; a restart loses all of it.          *)
(****************************************************************************)
EXTENDS Integers, Sequences, FiniteSets, SequencesExt

CONSTANTS
  Slots,       \* leases whose occupancy is metered
  JournalCap,  \* JOURNAL_CAP
  BufferCap,   \* MAX_BILLING_BUFFER
  MaxBatch,    \* MAX_BATCH of flush_now
  MaxClock,    \* bound on the clock
  MaxRestarts  \* bound on the restarts

ASSUME BillingAssumption == {JournalCap, BufferCap, MaxBatch} \subseteq Nat \ {0}

VARIABLES
  clock,
  slot,      \* slot[s]: the lease's life in the ledger, with its billing_acquired_at_ms
  meter,     \* SlotMeter: occupied, peak, total_recorded, journal_dropped
  journal,   \* SlotMeter.journal
  billedEvents,     \* billing_events
  export,    \* the export loop's tick: its snapshot and watermark
  open,      \* CorelinkBillingTarget.open: slots acquired here -> acquire time
  buffer,    \* CorelinkBillingTarget.buffer
  flush,     \* the batch flush_now has posted
  charged,   \* corelink-billing: idempotency key -> seconds
  shed,      \* usage events the buffer dropped at its cap
  tapped,    \* since the start: usage ever buffered, events ever journalled, events evicted
  restarts

billVars == <<clock, slot, meter, journal, billedEvents, export, open, buffer, flush, charged, shed, tapped, restarts>>
meterVars == <<meter, journal, billedEvents, export>>
pushVars == <<open, buffer, flush, charged, shed>>

NoExport == [at |-> "idle", events |-> <<>>, watermark |-> 0]
NoFlush == [at |-> "idle", batch |-> <<>>]
NoMeter == [occupied |-> 0, peak |-> 0, total |-> 0, dropped |-> 0]
NoTaps == [usage |-> {}, events |-> {}, evicted |-> {}]

BillInit ==
  /\ clock = 0
  /\ slot = [s \in Slots |-> [state |-> "none", acquired |-> 0]]
  /\ meter = NoMeter
  /\ journal = <<>>
  /\ billedEvents = {}
  /\ export = NoExport
  /\ open = <<>>
  /\ buffer = <<>>
  /\ flush = NoFlush
  /\ charged = <<>>
  /\ shed = {}
  /\ tapped = NoTaps
  /\ restarts = 0

MaxOf(a, b) == IF a > b THEN a ELSE b

Evicted == IF Len(journal) >= JournalCap THEN {Head(journal)} ELSE {}

(* SlotMeter::record: at the cap the oldest event goes, and is counted. *)
Record(event) ==
  LET occupied == IF event.kind = "Acquired" THEN meter.occupied + 1 ELSE MaxOf(meter.occupied - 1, 0)
      full == Len(journal) >= JournalCap
  IN  /\ meter' = [occupied |-> occupied, peak |-> MaxOf(meter.peak, occupied),
                   total |-> meter.total + 1, dropped |-> IF full THEN meter.dropped + 1 ELSE meter.dropped]
      /\ journal' = Append(IF full THEN Tail(journal) ELSE journal, event)

(* The Acquired event of a lease that became Held. *)
SlotAcquired(s) ==
  LET event == [slot |-> s, kind |-> "Acquired", at |-> clock]
  IN  /\ slot[s].state = "none"
      /\ slot' = [slot EXCEPT ![s] = [state |-> "held", acquired |-> clock]]
      /\ Record(event)
      /\ open' = [o \in DOMAIN open \cup {s} |-> IF o = s THEN clock ELSE open[o]]
      /\ tapped' = [tapped EXCEPT !.events = @ \cup {event}, !.evicted = @ \cup Evicted]
      /\ UNCHANGED <<clock, billedEvents, export, buffer, flush, charged, shed, restarts>>

(* idem_key: the lease and the period it ended in; a lease ends once. *)
IdemKey(s) == s

(* enqueue_terminal *)
Usage(s, acquired) == [key |-> IdemKey(s), qty |-> clock - acquired]

(* export: this process's cache, or the ledger's stamp after a restart. *)
AcquireTime(s) == IF s \in DOMAIN open THEN open[s] ELSE slot[s].acquired

(* The terminal event, from a close or the reaper. *)
SlotEnds(s) ==
  LET event == [slot |-> s, kind |-> "Ended", at |-> clock]
      usage == Usage(s, AcquireTime(s))
      full == Len(buffer) >= BufferCap
  IN  /\ slot[s].state = "held"
      /\ slot' = [slot EXCEPT ![s].state = "ended"]
      /\ Record(event)
      /\ open' = [o \in DOMAIN open \ {s} |-> open[o]]
      /\ buffer' = Append(IF full THEN Tail(buffer) ELSE buffer, usage)
      /\ shed' = IF full THEN shed \cup {Head(buffer)} ELSE shed
      /\ tapped' = [usage |-> tapped.usage \cup {usage}, events |-> tapped.events \cup {event},
                  evicted |-> tapped.evicted \cup Evicted]
      /\ UNCHANGED <<clock, billedEvents, export, flush, charged, restarts>>

--------------------------------------------------------------------------------
(* spawn_export_loop *)

(* The snapshot and the watermark, under the meter's lock. *)
Snapshot ==
  /\ export = NoExport /\ journal # <<>>
  /\ export' = [at |-> "persist", events |-> journal, watermark |-> meter.total]
  /\ UNCHANGED <<clock, slot, meter, journal, billedEvents, pushVars, tapped, restarts>>

(* event_key, the primary key of billing_events. *)
EventKey(event) == <<event.slot, event.kind, event.at>>

(* ON CONFLICT (tenant, lease_id, kind, at_ms) DO NOTHING *)
Upserted(events) == billedEvents \cup {EventKey(e) : e \in Range(events)}

(* PgBillingSink::persist: one INSERT ... ON CONFLICT DO NOTHING; its answer *)
(* may be lost after it committed.                                           *)
Persist ==
  /\ export.at = "persist"
  /\ \/ billedEvents' = Upserted(export.events) /\ export' \in {NoExport, [export EXCEPT !.at = "drain"]}
     \/ export' = NoExport /\ UNCHANGED billedEvents
  /\ UNCHANGED <<clock, slot, meter, journal, pushVars, tapped, restarts>>

(* Mutant: as many events are drained as were exported. *)
DrainedByCount == SubSeq(journal, Len(export.events) + 1, Len(journal))

(* drain_through: the front event's number is total_recorded less the length. *)
Drained ==
  LET front == meter.total - Len(journal)
  IN  SubSeq(journal, MaxOf(export.watermark - front, 0) + 1, Len(journal))

Drain ==
  /\ export.at = "drain"
  /\ journal' = Drained
  /\ export' = NoExport
  /\ UNCHANGED <<clock, slot, meter, billedEvents, pushVars, tapped, restarts>>

--------------------------------------------------------------------------------
(* spawn_push_flush_loop over flush_now, one flush at a time *)

PostBatch ==
  /\ flush = NoFlush /\ buffer # <<>>
  /\ flush' = [at |-> "post", batch |-> SubSeq(buffer, 1, IF Len(buffer) < MaxBatch THEN Len(buffer) ELSE MaxBatch)]
  /\ UNCHANGED <<clock, slot, meterVars, open, buffer, charged, shed, tapped, restarts>>

(* The ingest (external) charges a key once; the post or its answer may fail, *)
(* and validate_billing_ack may refuse the answer.                            *)
Ingest ==
  /\ flush.at = "post"
  /\ \/ /\ charged' = [k \in DOMAIN charged \cup {u.key : u \in Range(flush.batch)} |->
             IF k \in DOMAIN charged THEN charged[k]
             ELSE (CHOOSE u \in Range(flush.batch) : u.key = k).qty]
        /\ flush' \in {NoFlush, [flush EXCEPT !.at = "acked"]}
     \/ flush' = NoFlush /\ UNCHANGED charged
  /\ UNCHANGED <<clock, slot, meterVars, open, buffer, shed, tapped, restarts>>

(* The batch leaves the buffer if it is still its beginning; else all stays. *)
Acknowledge ==
  /\ flush.at = "acked"
  /\ buffer' = IF IsPrefix(flush.batch, buffer) THEN SubSeq(buffer, Len(flush.batch) + 1, Len(buffer)) ELSE buffer
  /\ flush' = NoFlush
  /\ UNCHANGED <<clock, slot, meterVars, open, charged, shed, tapped, restarts>>

--------------------------------------------------------------------------------
(* The instance restarts: the ledger, the table and the ingest remain. *)
Restart ==
  /\ restarts < MaxRestarts
  /\ restarts' = restarts + 1
  /\ meter' = NoMeter /\ journal' = <<>> /\ export' = NoExport
  /\ open' = <<>> /\ buffer' = <<>> /\ flush' = NoFlush
  /\ tapped' = NoTaps
  /\ UNCHANGED <<clock, slot, billedEvents, charged, shed>>

BillTick ==
  /\ clock < MaxClock
  /\ clock' = clock + 1
  /\ UNCHANGED <<slot, meterVars, pushVars, tapped, restarts>>

BillNext ==
  \/ \E s \in Slots : SlotAcquired(s) \/ SlotEnds(s)
  \/ Snapshot \/ Persist \/ Drain
  \/ PostBatch \/ Ingest \/ Acknowledge
  \/ Restart \/ BillTick

BillSpec == BillInit /\ [][BillNext]_billVars

--------------------------------------------------------------------------------
BillTypeOK ==
  /\ Len(journal) <= JournalCap /\ Len(buffer) <= BufferCap
  /\ meter.occupied <= meter.peak /\ Len(journal) + meter.dropped <= meter.total

(* An event that is neither in the journal nor in the billing table was       *)
(* evicted at the cap and counted, although the journal moves while its copy  *)
(* is written, the write may commit without an answer, and is then repeated.  *)
NoEventLostSilently ==
  /\ \A e \in tapped.events \ tapped.evicted : e \in Range(journal) \/ EventKey(e) \in billedEvents
  /\ Cardinality(tapped.evicted) = meter.dropped

(* A usage event leaves the buffer only once corelink-billing has it, or when *)
(* the buffer is at its cap, although events arrive during the post.          *)
UsageIsPostedOrShed ==
  \A u \in tapped.usage : u \in Range(buffer) \cup shed \/ u.key \in DOMAIN charged
===============================================================================
