----------------------------- MODULE CaptureHook ------------------------------
(****************************************************************************)
(* The transcript capture of one lease (runner envelope/hook.rs, close.rs,    *)
(* collector.rs and the fabric's handlers/envelope.rs).  In-box forwarders    *)
(* post batches of events, each written under the hook's mutex into a metrics *)
(* collector and into two bounded buffers; the trusted subscriber drains the  *)
(* buffers; a normal close waits for the subscriber's ack with the mutex      *)
(* released, while a reaper may close the same hook abnormally.               *)
(* An event is the tool it calls, or Turn for a model turn.                   *)
(****************************************************************************)
EXTENDS Naturals, Sequences, FiniteSets

CONSTANTS
  Turn,              \* the event that is a model turn
  Forwarders,        \* ingest requests
  BatchOf,           \* BatchOf[f]: the events in the body of f
  Closers,           \* close attempts
  NormalClosers,     \* those by the close handler; the others are abnormal
  BufferCapacity,    \* EnvelopeConfig.buffer_capacity
  MaxDistinctTools   \* MAX_DISTINCT_TOOLS

ASSUME CaptureAssumption ==
  NormalClosers \subseteq Closers /\ BufferCapacity \in Nat /\ MaxDistinctTools \in Nat

VARIABLES
  hook,       \* Inner: phase, buffers, overflow flags, close latches
  metrics,    \* MetricsCollector: turns, tool calls and their breakdown
  ingest,     \* ingest[f]: the events f has still to write, and its snapshot
  closing,    \* closing[c]: where the close attempt is, and its outcome
  taken,      \* what the subscriber drained of the two surfaces
  checkpoint, \* the model turns in the lease row's envelope checkpoint
  registered  \* the registry has the hook

captureVars == <<hook, metrics, ingest, closing, taken, checkpoint, registered>>

Overflow == "<overflow>"

NoOutcome == [incomplete |-> TRUE, metrics |-> [turns |-> 0, calls |-> 0]]

CaptureInit ==
  /\ hook = [phase |-> "NotOpen", raw |-> <<>>, meta |-> <<>>, raw_overflow |-> FALSE,
             meta_overflow |-> FALSE, next_turn_index |-> 0, close_signal |-> FALSE,
             ack_window_open |-> FALSE, acked |-> FALSE, close_done |-> FALSE]
  /\ metrics = [turns |-> 0, calls |-> 0, breakdown |-> [t \in {} |-> 0], finalized |-> FALSE]
  /\ ingest = [f \in Forwarders |-> [at |-> "new", left |-> BatchOf[f], turn |-> FALSE, snapshot |-> 0]]
  /\ closing = [c \in Closers |-> [at |-> "new", outcome |-> NoOutcome]]
  /\ taken = [raw |-> {}, meta |-> {}]
  /\ checkpoint = 0
  /\ registered = TRUE

(* complete_open, at the end of the acquire. *)
CompleteOpen ==
  /\ hook.phase = "NotOpen"
  /\ hook' = [hook EXCEPT !.phase = "Open"]
  /\ UNCHANGED <<metrics, ingest, closing, taken, checkpoint, registered>>

--------------------------------------------------------------------------------
(* Writing *)

(* The key a tool call is counted under. *)
BreakdownKey(tool) ==
  IF tool \in DOMAIN metrics.breakdown \/ Cardinality(DOMAIN metrics.breakdown) < MaxDistinctTools
  THEN tool ELSE Overflow

Bump(tool) ==
  LET key == BreakdownKey(tool)
      old == metrics.breakdown
  IN  [t \in DOMAIN old \cup {key} |-> (IF t \in DOMAIN old THEN old[t] ELSE 0) + (IF t = key THEN 1 ELSE 0)]

Observe(ev) ==
  metrics' = IF ev = Turn THEN [metrics EXCEPT !.turns = @ + 1]
             ELSE [metrics EXCEPT !.calls = @ + 1, !.breakdown = Bump(ev)]

(* Mutant: a full buffer drops the event and nobody knows. *)
BufferedQuietly(buffer, flag, n) ==
  IF Len(buffer) < BufferCapacity THEN <<Append(buffer, n), flag>> ELSE <<buffer, flag>>

Buffered(buffer, flag, n) ==
  IF Len(buffer) < BufferCapacity THEN <<Append(buffer, n), flag>> ELSE <<buffer, TRUE>>

Write(ev) ==
  LET n    == hook.next_turn_index
      raw  == Buffered(hook.raw, hook.raw_overflow, n)
      meta == Buffered(hook.meta, hook.meta_overflow, n)
  IN  /\ Observe(ev)
      /\ hook' = [hook EXCEPT !.next_turn_index = n + 1, !.raw = raw[1], !.raw_overflow = raw[2],
                              !.meta = meta[1], !.meta_overflow = meta[2]]

(* ingest: the handle is looked up once, then every event is written. *)
IngestBegins(f) ==
  /\ ingest[f].at = "new"
  /\ ingest' = [ingest EXCEPT ![f].at = IF registered THEN "writing" ELSE "refused"]
  /\ UNCHANGED <<hook, metrics, closing, taken, checkpoint, registered>>

IngestWrites(f) ==
  /\ ingest[f].at = "writing" /\ ingest[f].left # <<>> /\ hook.phase = "Open"
  /\ Write(Head(ingest[f].left))
  /\ ingest' = [ingest EXCEPT ![f].left = Tail(@), ![f].turn = @ \/ Head(ingest[f].left) = Turn]
  /\ UNCHANGED <<closing, taken, checkpoint, registered>>

(* The hook refuses, or the event does not parse: the rest of the batch is    *)
(* not written, and what was written is not checkpointed.                     *)
IngestStops(f) ==
  /\ ingest[f].at = "writing" /\ ingest[f].left # <<>>
  /\ ingest' = [ingest EXCEPT ![f].at = "refused"]
  /\ UNCHANGED <<hook, metrics, closing, taken, checkpoint, registered>>

(* checkpoint_turn: a snapshot under the mutex, then the ledger write, which  *)
(* may fail.                                                                  *)
Snapshots(f) ==
  /\ ingest[f].at = "writing" /\ ingest[f].left = <<>>
  /\ ingest' = [ingest EXCEPT ![f].at = IF ingest[f].turn THEN "checkpoint" ELSE "done",
                              ![f].snapshot = metrics.turns]
  /\ UNCHANGED <<hook, metrics, closing, taken, checkpoint, registered>>

Checkpoints(f) ==
  /\ ingest[f].at = "checkpoint"
  /\ checkpoint' \in {checkpoint, ingest[f].snapshot}
  /\ ingest' = [ingest EXCEPT ![f].at = "done"]
  /\ UNCHANGED <<hook, metrics, closing, taken, registered>>

--------------------------------------------------------------------------------
(* The subscriber *)

NextEvent ==
  /\ registered /\ hook.raw # <<>>
  /\ hook' = [hook EXCEPT !.raw = Tail(@)]
  /\ taken' = [taken EXCEPT !.raw = @ \cup {Head(hook.raw)}]
  /\ UNCHANGED <<metrics, ingest, closing, checkpoint, registered>>

NextMeta ==
  /\ registered /\ hook.meta # <<>>
  /\ hook' = [hook EXCEPT !.meta = Tail(@)]
  /\ taken' = [taken EXCEPT !.meta = @ \cup {Head(hook.meta)}]
  /\ UNCHANGED <<metrics, ingest, closing, checkpoint, registered>>

(* ack: not before the close signal, inert after the window. *)
Ack ==
  /\ hook.close_signal /\ hook.ack_window_open /\ ~hook.acked
  /\ hook' = [hook EXCEPT !.acked = TRUE]
  /\ UNCHANGED <<metrics, ingest, closing, taken, checkpoint, registered>>

--------------------------------------------------------------------------------
(* JobClose *)

Finalize == metrics' = [metrics EXCEPT !.finalized = TRUE]

Final == [turns |-> metrics.turns, calls |-> metrics.calls]

AlreadyClosing == hook.close_done \/ hook.close_signal

CloseRefused(c) ==
  /\ closing[c].at = "new" /\ AlreadyClosing
  /\ closing' = [closing EXCEPT ![c].at = "refused"]
  /\ UNCHANGED <<hook, metrics, ingest, taken, checkpoint, registered>>

(* close: surfaces shut, metrics final, signal out, and the mutex is given    *)
(* back while it waits for the ack.                                           *)
CloseSignals(c) ==
  /\ c \in NormalClosers /\ closing[c].at = "new" /\ ~AlreadyClosing
  /\ hook' = [hook EXCEPT !.phase = "Closed", !.close_signal = TRUE, !.ack_window_open = TRUE]
  /\ Finalize
  /\ closing' = [closing EXCEPT ![c].at = "waiting", ![c].outcome.metrics = Final]
  /\ UNCHANGED <<ingest, taken, checkpoint, registered>>

Lossy == hook.raw # <<>> \/ hook.meta # <<>> \/ hook.raw_overflow \/ hook.meta_overflow

(* Acked, or the ack timeout. *)
CloseEnds(c) ==
  /\ closing[c].at = "waiting"
  /\ closing' = [closing EXCEPT ![c].at = "done", ![c].outcome.incomplete = Lossy \/ ~hook.acked]
  /\ hook' = [hook EXCEPT !.ack_window_open = FALSE, !.close_done = TRUE]
  /\ UNCHANGED <<metrics, ingest, taken, checkpoint, registered>>

CloseAbnormal(c) ==
  /\ c \notin NormalClosers /\ closing[c].at = "new" /\ ~AlreadyClosing
  /\ hook' = [hook EXCEPT !.phase = "Closed", !.close_signal = TRUE, !.close_done = TRUE]
  /\ Finalize
  /\ closing' = [closing EXCEPT ![c].at = "done", ![c].outcome.metrics = Final]
  /\ UNCHANGED <<ingest, taken, checkpoint, registered>>

(* The close handler and the reaper drop the registry entry afterwards. *)
Unregister ==
  /\ registered /\ \E c \in Closers : closing[c].at = "done"
  /\ registered' = FALSE
  /\ UNCHANGED <<hook, metrics, ingest, closing, taken, checkpoint>>

CaptureNext ==
  \/ CompleteOpen \/ NextEvent \/ NextMeta \/ Ack \/ Unregister
  \/ \E f \in Forwarders : IngestBegins(f) \/ IngestWrites(f) \/ IngestStops(f) \/ Snapshots(f) \/ Checkpoints(f)
  \/ \E c \in Closers : CloseRefused(c) \/ CloseSignals(c) \/ CloseEnds(c) \/ CloseAbnormal(c)

CaptureSpec == CaptureInit /\ [][CaptureNext]_captureVars

--------------------------------------------------------------------------------
(* Properties *)

Accepted == 0..hook.next_turn_index - 1

HookFinished(c) == closing[c].at = "done"

(* capture_incomplete is honest: when a close reports a complete capture,     *)
(* every event the hook accepted, from whichever forwarder and however it     *)
(* raced the close, has left through both surfaces.                           *)
CompleteIsComplete ==
  \A c \in Closers : HookFinished(c) /\ ~closing[c].outcome.incomplete =>
    /\ Accepted \subseteq taken.raw \cap taken.meta
    /\ c \in NormalClosers

(* Exactly-once close: of a close that waits with the mutex released and of   *)
(* the closes that race it, one produces an outcome, and the metrics it       *)
(* reports are those of every event the hook accepted.                        *)
OneOutcome ==
  /\ Cardinality({c \in Closers : closing[c].at \in {"waiting", "done"}}) <= 1
  /\ \A c \in Closers : closing[c].at \in {"waiting", "done"} =>
       closing[c].outcome.metrics.turns + closing[c].outcome.metrics.calls = hook.next_turn_index

(* Capture: one close has the outcome, and what it calls complete is complete. *)
CaptureIsHonest == CompleteIsComplete /\ OneOutcome
===============================================================================
