------------------------------ MODULE FileLedger -------------------------------
(****************************************************************************)
(* The journalled ledger (FileLedger in crates/corelink-fabric/src/          *)
(* ledger.rs): the LeaseLedger state is a live index over an append-only     *)
(* journal that is replayed when the process starts.                         *)
(*                                                                           *)
(* An operation appends one line per durable change, each written and synced *)
(* to the disk by itself, and only then returns; the lock is held            *)
(* throughout, so until it has returned no other operation starts.           *)
(* `inflight' holds the lines it has still to write.  A crash may cut the    *)
(* line being written anywhere, just before its terminator included.         *)
(****************************************************************************)
EXTENDS LeaseLedger, Sequences

CONSTANTS
  Faults,        \* which faults happen: a subset of FaultKinds
  MaxJournal     \* bound on the journal's length

FaultKinds == {"cut_before_newline", "append_error"}

ASSUME FileAssumption == Faults \subseteq FaultKinds /\ MaxJournal \in Nat

VARIABLES
  journal,   \* the physical lines on disk
  ended,     \* whether the last line has its terminator
  inflight,  \* lines the operation that has not returned yet has to write
  fallback,  \* the index that operation leaves if its next append fails
  up         \* whether a process has the ledger open

fileVars == <<ledgerVars, journal, ended, inflight, fallback, up>>

--------------------------------------------------------------------------------
(* Journal lines *)

RecordLine(l, rec) == [kind |-> "record", lease_id |-> l, record |-> rec]
TombstoneLine(l) == [kind |-> "tombstone", lease_id |-> l]
ClaimLine(l) == [kind |-> "pending_cleanup_claim", lease_id |-> l]
CheckpointLine(l, c) == [kind |-> "checkpoint", lease_id |-> l, checkpoint |-> c]
AdmitCommitLine(l, rec, res) ==
  [kind |-> "admit_commit", lease_id |-> l, record |-> rec, reservation |-> res]
TerminalLine(l, rec, total, res) ==
  [kind |-> "terminal_transition", lease_id |-> l, record |-> rec,
   total |-> total, reservation |-> res]

(* A line that does not parse: cut short, or two run together. *)
Garbage == [kind |-> "garbage"]

--------------------------------------------------------------------------------
(* Replay *)

Ledger == [ records |-> records, reservations |-> reservations, accruals |-> accruals,
            checkpoints |-> checkpoints, claims |-> claims ]

EmptyLedger == [ records |-> EmptyMap, reservations |-> EmptyMap,
                 accruals |-> [tp \in Tenants \X Periods |-> 0],
                 checkpoints |-> EmptyMap, claims |-> {} ]

(* Mutant: a tombstone erases the row only. *)
EraseRowOnly(s, l) == [s EXCEPT !.records = Delete(@, l)]

EraseFrom(s, l) ==
  [s EXCEPT !.records = Delete(@, l), !.claims = @ \ {l},
            !.checkpoints = Delete(@, l), !.reservations = Delete(@, l)]

AdmitInto(s, l, rec, res) ==
  [s EXCEPT !.records = Insert(@, l, rec), !.reservations = Insert(@, l, res)]

ReplayLine(s, line) ==
  LET l == line.lease_id IN
  CASE line.kind = "record" -> [s EXCEPT !.records = Insert(@, l, line.record)]
    [] line.kind = "tombstone" -> EraseFrom(s, l)
    [] line.kind = "pending_cleanup_claim" ->
         IF l \in DOMAIN s.records /\ s.records[l].state = "Pending"
         THEN [s EXCEPT !.claims = @ \cup {l}] ELSE s
    [] line.kind = "checkpoint" -> [s EXCEPT !.checkpoints = Insert(@, l, line.checkpoint)]
    [] line.kind = "admit_commit" -> AdmitInto(s, l, line.record, line.reservation)
    [] line.kind = "terminal_transition" ->
         [s EXCEPT !.records = Insert(@, l, line.record),
                   !.reservations = Insert(@, l, line.reservation),
                   !.accruals = [@ EXCEPT ![<<line.record.tenant,
                                    line.reservation.accrual_period_key>>] = line.total]]
    [] line.kind = "garbage" -> s

(* The state after all of the lines, one by one. *)
Replayed(s, lines) ==
  LET state[n \in 0..Len(lines)] == IF n = 0 THEN s ELSE ReplayLine(state[n - 1], lines[n])
  IN  state[Len(lines)]

(* Mutant: the torn tail is dropped from the replay but left in the file. *)
KeepTornTail(lines) == lines

(* An unparseable last line is a torn append: it is dropped, in the file too. *)
DropTornTail(lines) ==
  IF lines # << >> /\ lines[Len(lines)] = Garbage THEN SubSeq(lines, 1, Len(lines) - 1) ELSE lines

(* An unparseable line before the last is corruption: open refuses. *)
Corrupt(lines) == \E i \in 1..(Len(lines) - 1) : lines[i] = Garbage

Replay(lines) == Replayed(EmptyLedger, lines)

--------------------------------------------------------------------------------
(* Appending: writeln! and sync_all of one line after the other, then the     *)
(* operation returns Ok                                                       *)

(* After a line without terminator the next append continues that line.       *)
Written(line) ==
  IF ended THEN Append(journal, line)
  ELSE Append(SubSeq(journal, 1, Len(journal) - 1), Garbage)

Idle == up /\ inflight = << >>

(* Nothing is in flight, so nothing can fall back. *)
Settled == EmptyLedger

Journals(lines, index) ==
  /\ Len(journal) + Len(lines) <= MaxJournal
  /\ inflight' = lines
  /\ fallback' = IF lines = << >> THEN Settled ELSE index
  /\ UNCHANGED <<journal, ended, up>>

(* Append first, then change the index. *)
Writes(lines) == Journals(lines, Ledger)

(* Change the index first, then append. *)
WritesAfter(lines) == Journals(lines, Ledger')

(* append_line.  The operations that append first change the index line by    *)
(* line; transition has changed it already.                                   *)
AppendLine ==
  /\ up /\ inflight # << >>
  /\ journal' = Written(Head(inflight))
  /\ ended' = TRUE
  /\ inflight' = Tail(inflight)
  /\ fallback' = IF Tail(inflight) = << >> THEN Settled ELSE ReplayLine(fallback, Head(inflight))
  /\ UNCHANGED <<ledgerVars, up>>

--------------------------------------------------------------------------------
(* The operations of FileInner: the index operation and the lines it journals *)

FileAdmit(l) ==
  /\ Idle
  /\ Admit(l)
  /\ Writes(<<IF l \in DOMAIN reservations'
              THEN AdmitCommitLine(l, records'[l], reservations'[l])
              ELSE RecordLine(l, records'[l])>>)

(* Mutant: the terminal record is journalled without its charge. *)
TransitionLineUncharged(l) == RecordLine(l, records'[l])

TransitionLine(l) ==
  IF accruals' # accruals \/ reservations' # reservations
  THEN TerminalLine(l, records'[l],
         accruals'[<<records'[l].tenant, reservations'[l].accrual_period_key>>], reservations'[l])
  ELSE RecordLine(l, records'[l])

FileTransition(l) ==
  /\ Idle
  /\ Move(l)
  /\ WritesAfter(<<TransitionLine(l)>>)

FileBind(l) ==
  /\ Idle
  /\ \E ref \in ProviderRefs : BindProviderRef(l, ref)
  /\ Writes(IF records' = records THEN << >> ELSE <<RecordLine(l, records'[l])>>)

FileCheckpoint(l) ==
  /\ Idle
  /\ \E c \in Checkpoints : SetEnvelopeCheckpoint(l, c) /\ Writes(<<CheckpointLine(l, c)>>)

(* The members of a finite set in every order, each once. *)
Enumerations(S) ==
  {rows \in [1..Cardinality(S) -> S] :
     \A i, j \in 1..Cardinality(S) : i # j => rows[i] # rows[j]}

(* One line per row that was not claimed before, in any order (the code sorts *)
(* by lease id).                                                              *)
NewClaims ==
  {[i \in DOMAIN rows |-> ClaimLine(rows[i])] : rows \in Enumerations(claims' \ claims)}

FileClaim(l) ==
  /\ Idle
  /\ ClaimPendingCleanup(l)
  /\ \E lines \in NewClaims : Writes(lines)

FileClaimStale ==
  /\ Idle
  /\ \E now \in Times : ClaimStalePendingCleanup(now)
  /\ \E lines \in NewClaims : Writes(lines)

FileFinish(l) ==
  /\ Idle
  /\ FinishPendingCleanup(l)
  /\ Writes(<<TombstoneLine(l)>>)

FileRemove(l) ==
  /\ Idle
  /\ Remove(l) \/ RemoveIfPending(l)
  /\ Writes(<<TombstoneLine(l)>>)

--------------------------------------------------------------------------------
(* Faults *)

Index(s) ==
  /\ records' = s.records /\ reservations' = s.reservations
  /\ accruals' = s.accruals /\ checkpoints' = s.checkpoints /\ claims' = s.claims

(* writeln! fails, having written nothing or a part of its line, and the      *)
(* process lives on with the index as the operation has left it so far.       *)
AppendFails ==
  /\ up /\ inflight # << >> /\ "append_error" \in Faults
  /\ \/ UNCHANGED <<journal, ended>>
     \/ journal' = Written(Garbage) /\ ended' = FALSE
  /\ Index(fallback)
  /\ inflight' = << >> /\ fallback' = Settled
  /\ UNCHANGED up

(* Of the line being written nothing, a part, or everything but its           *)
(* terminator has reached the disk.                                           *)
Crash ==
  /\ up
  /\ \/ UNCHANGED <<journal, ended>>
     \/ /\ inflight # << >>
        /\ journal' = Written(Garbage) /\ ended' = FALSE
     \/ /\ inflight # << >> /\ "cut_before_newline" \in Faults
        /\ journal' = Written(Head(inflight)) /\ ended' = FALSE
  /\ Index(EmptyLedger)
  /\ inflight' = << >> /\ fallback' = Settled
  /\ up' = FALSE

Open ==
  /\ ~up
  /\ ~Corrupt(journal)
  /\ Index(Replay(journal))
  /\ journal' = DropTornTail(journal)
  /\ ended' = (ended \/ journal' # journal)
  /\ up' = TRUE
  /\ UNCHANGED <<inflight, fallback>>

--------------------------------------------------------------------------------
(* The specification *)

FileInit ==
  /\ LedgerInit
  /\ journal = << >>
  /\ ended = TRUE
  /\ inflight = << >> /\ fallback = Settled
  /\ up = TRUE

FileNext ==
  \/ \E l \in LeaseIds :
       \/ FileAdmit(l) \/ FileTransition(l) \/ FileBind(l) \/ FileCheckpoint(l)
       \/ FileClaim(l) \/ FileFinish(l) \/ FileRemove(l)
  \/ FileClaimStale
  \/ AppendLine \/ AppendFails
  \/ Crash
  \/ Open

FileSpec == FileInit /\ [][FileNext]_fileVars

--------------------------------------------------------------------------------
(* Properties *)

(* What the next open will find: the ledger as the disk has it.               *)
Durable == Replay(journal)

(* Every operation that has returned Ok is on the disk, and nothing else is:  *)
(* between operations the index and a replay of the journal are the same      *)
(* ledger (append_line: "every put/transition/remove that returns Ok is       *)
(* committed to disk").                                                       *)
AcknowledgedIsDurable == Idle => Ledger = Durable

(* However often the process crashes in the middle of an append, the journal  *)
(* it leaves can be opened again.                                             *)
NeverRefusesToOpen == ~Corrupt(journal)

(* However the journal was cut, run together or left behind by failed         *)
(* appends, a ledger that opens is sound in itself: side tables follow rows,  *)
(* claims fence Pending rows, charges and stamps match the states.  (Whole    *)
(* operations may be lost, see the findings; halves of operations never are.) *)
SoundHoweverDamaged ==
  up => NoOrphans /\ ClaimsArePending /\ ChargedIffTerminal /\ StampedIffHeld

(* A line that changes a record starts the lease as Pending, or moves the     *)
(* record that the lines before it left along the matrix of legal moves, or   *)
(* binds a Pending one to its box.                                            *)
FollowsMatrix(s, line) ==
  line.kind \in {"record", "admit_commit", "terminal_transition"} =>
    IF line.lease_id \notin DOMAIN s.records THEN line.record.state = "Pending"
    ELSE LET before == s.records[line.lease_id] IN
         \/ TransitionIsLegal(before.state, line.record.state)
         \/ /\ before.state = "Pending"
            /\ line.record # before
            /\ line.record = [before EXCEPT !.box_ref = line.record.box_ref]

(* "The journal never holds an illegal transition" (FileInner::transition).   *)
JournalFollowsMatrix ==
  \A n \in DOMAIN journal : FollowsMatrix(Replay(SubSeq(journal, 1, n - 1)), journal[n])

(* A journal that no fault damaged gives everything back: whenever the        *)
(* process dies, the next one opens the file, its state holds every operation *)
(* that was acknowledged, and every line it applies is a step the matrix      *)
(* allows.                                                                    *)
RecoversEverything == NeverRefusesToOpen /\ AcknowledgedIsDurable /\ JournalFollowsMatrix

(* The durable state is a lease ledger in its own right: crashes, torn tails  *)
(* and reopening included, what the disk holds only ever moves by one whole   *)
(* ledger operation, never by half of one and never backwards.                *)
DurableLedger == INSTANCE LeaseLedger WITH
  records <- Durable.records, reservations <- Durable.reservations,
  accruals <- Durable.accruals, checkpoints <- Durable.checkpoints, claims <- Durable.claims

DurableIsALedger == DurableLedger!LedgerSpec

================================================================================
