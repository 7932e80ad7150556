--------------------------- MODULE FileLedgerProofs ----------------------------
(****************************************************************************)
(* What replaying a journal gives back, proved for every journal:             *)
(*                                                                           *)
(*  - replay is a fold over the lines (ReplayNone, ReplayOneMore: the         *)
(*    induction over the journal, carried out once);                          *)
(*  - every operation appends lines that fit the index it started from        *)
(*    (AdmitJournals ... ClaimJournals), and a line that fits keeps a journal *)
(*    sound even when earlier appends failed and the journal lags behind the  *)
(*    index (FitsKeepsSound);                                                 *)
(*  - so, with torn lines and failed appends, whatever opens is sound         *)
(*    (SoundAfterDamage); without them nothing acknowledged is lost           *)
(*    (NothingAcknowledgedIsLost) and the disk implements the lease ledger    *)
(*    (DiskImplementsLedger).                                                 *)
(****************************************************************************)
EXTENDS FileLedger, LeaseLedgerProofs, SequenceTheorems

--------------------------------------------------------------------------------
(* Replay *)

(* state gives the ledger after each number of lines, up to m. *)
ReplayUpTo(s, lines, m, state) ==
  state = [n \in 0..m |-> IF n = 0 THEN s ELSE ReplayLine(state[n - 1], lines[n])]

(* ... for the whole journal. *)
IsReplay(s, lines, state) == ReplayUpTo(s, lines, Len(lines), state)

(* The state after all lines, as the recursive function is chosen. *)
LEMMA ReplayedUnfold ==
  ASSUME NEW s, NEW lines
  PROVE  Replayed(s, lines) = (CHOOSE state : IsReplay(s, lines, state))[Len(lines)]
  BY DEF Replayed, IsReplay, ReplayUpTo

(* A table of the states exists, by induction over its length. *)
LEMMA ReplayExists ==
  ASSUME NEW s, NEW lines
  PROVE  \A m \in Nat : \E f : ReplayUpTo(s, lines, m, f)
<1> DEFINE T == {m \in Nat : \E f : ReplayUpTo(s, lines, m, f)}
<1>1. 0 \in T
  <2> DEFINE f == [n \in 0..0 |-> s]
  <2>1. f = [n \in 0..0 |-> IF n = 0 THEN s ELSE ReplayLine(f[n - 1], lines[n])]
    OBVIOUS
  <2> QED
    BY <2>1 DEF ReplayUpTo
<1>2. ASSUME NEW m \in Nat, m \in T PROVE m + 1 \in T
  <2>1. PICK f : f = [n \in 0..m |-> IF n = 0 THEN s ELSE ReplayLine(f[n - 1], lines[n])]
    BY <1>2 DEF ReplayUpTo
  <2> DEFINE g == [n \in 0..(m + 1) |-> IF n = m + 1 THEN ReplayLine(f[m], lines[m + 1]) ELSE f[n]]
  <2>2. ASSUME NEW n \in 0..(m + 1) PROVE g[n] = IF n = 0 THEN s ELSE ReplayLine(g[n - 1], lines[n])
    <3>1. CASE n = m + 1
      <4>1. g[n - 1] = f[m] /\ g[n] = ReplayLine(f[m], lines[m + 1])
        BY <3>1
      <4> QED
        BY <3>1, <4>1
    <3>2. CASE n # m + 1
      <4>1. n \in 0..m /\ g[n] = f[n]
        BY <3>2
      <4>2. n # 0 => n - 1 \in 0..(m + 1) /\ n - 1 # m + 1 /\ g[n - 1] = f[n - 1]
        BY <4>1
      <4>3. f[n] = IF n = 0 THEN s ELSE ReplayLine(f[n - 1], lines[n])
        BY <2>1, <4>1
      <4> HIDE DEF g
      <4> QED
        BY <4>1, <4>2, <4>3
    <3> QED
      BY <3>1, <3>2
  <2>3. DOMAIN g = 0..(m + 1) /\ g = [n \in 0..(m + 1) |-> g[n]]
    OBVIOUS
  <2> HIDE DEF g
  <2>4. g = [n \in 0..(m + 1) |-> IF n = 0 THEN s ELSE ReplayLine(g[n - 1], lines[n])]
    BY <2>2, <2>3
  <2> QED
    BY <2>4 DEF ReplayUpTo
<1> HIDE DEF T
<1>3. \A m \in Nat : m \in T
  BY <1>1, <1>2, NatSetInduction
<1> QED
  BY <1>3 DEF T

(* The chosen table is one. *)
LEMMA ReplayTable ==
  ASSUME NEW s, NEW lines, Len(lines) \in Nat
  PROVE  \E state : IsReplay(s, lines, state) /\ Replayed(s, lines) = state[Len(lines)]
<1>1. \E state : IsReplay(s, lines, state)
  <2>1. PICK m \in Nat : m = Len(lines)
    OBVIOUS
  <2>2. PICK f : ReplayUpTo(s, lines, m, f)
    BY ReplayExists
  <2>3. IsReplay(s, lines, f)
    BY <2>1, <2>2 DEF IsReplay
  <2> QED
    BY <2>3
<1>2. PICK state : state = CHOOSE f : IsReplay(s, lines, f)
  OBVIOUS
<1>3. IsReplay(s, lines, state)
  BY <1>1, <1>2
<1> QED
  BY <1>2, <1>3, ReplayedUnfold

(* Replaying nothing changes nothing. *)
LEMMA ReplayNone ==
  ASSUME NEW s PROVE Replayed(s, << >>) = s
<1>1. Len(<< >>) = 0
  OBVIOUS
<1>2. PICK state : IsReplay(s, << >>, state) /\ Replayed(s, << >>) = state[0]
  BY <1>1, ReplayTable
<1> QED
  BY <1>1, <1>2 DEF IsReplay, ReplayUpTo

(* One more line: the state before it, and then the line. *)
LEMMA ReplayOneMore ==
  ASSUME NEW s, NEW S, NEW lines \in Seq(S), NEW x \in S
  PROVE  Replayed(s, Append(lines, x)) = ReplayLine(Replayed(s, lines), x)
<1> DEFINE more == Append(lines, x)
           m == Len(lines)
<1>1. m \in Nat /\ Len(more) = m + 1 /\ more[m + 1] = x /\ \A i \in 1..m : more[i] = lines[i]
  BY AppendProperties, LenProperties
<1>2. PICK f : IsReplay(s, lines, f) /\ Replayed(s, lines) = f[m]
  BY <1>1, ReplayTable
<1> HIDE DEF more, m
<1>3. PICK g : IsReplay(s, more, g) /\ Replayed(s, more) = g[m + 1]
  <2>1. Len(more) \in Nat
    BY <1>1
  <2>2. PICK g : IsReplay(s, more, g) /\ Replayed(s, more) = g[Len(more)]
    BY <2>1, ReplayTable
  <2> QED
    BY <1>1, <2>2
<1>a. f = [n \in 0..m |-> IF n = 0 THEN s ELSE ReplayLine(f[n - 1], lines[n])]
  BY <1>2 DEF IsReplay, ReplayUpTo, m
<1>b. g = [n \in 0..(m + 1) |-> IF n = 0 THEN s ELSE ReplayLine(g[n - 1], more[n])]
  BY <1>1, <1>3 DEF IsReplay, ReplayUpTo
<1> DEFINE T == {n \in Nat : n \in 0..m => f[n] = g[n]}
<1>4. 0 \in T
  BY <1>1, <1>a, <1>b
<1>5. ASSUME NEW n \in Nat, n \in T PROVE n + 1 \in T
  <2> SUFFICES ASSUME n + 1 \in 0..m PROVE f[n + 1] = g[n + 1]
    OBVIOUS
  <2>1. n \in 0..m /\ f[n] = g[n] /\ n + 1 \in 1..m /\ n + 1 \in 0..(m + 1)
    BY <1>1, <1>5
  <2>2. (n + 1) - 1 = n /\ n + 1 # 0
    OBVIOUS
  <2>3. f[n + 1] = ReplayLine(f[n], lines[n + 1])
    BY <1>a, <2>1, <2>2
  <2>4. g[n + 1] = ReplayLine(g[n], more[n + 1])
    BY <1>b, <2>1, <2>2
  <2> QED
    BY <1>1, <2>1, <2>3, <2>4
<1> HIDE DEF T
<1>6. m \in T
  BY <1>1, <1>4, <1>5, NatSetInduction
<1>7. f[m] = g[m]
  BY <1>1, <1>6 DEF T
<1>8. g[m + 1] = ReplayLine(g[m], more[m + 1])
  <2>1. m + 1 \in 0..(m + 1) /\ m + 1 # 0 /\ (m + 1) - 1 = m
    BY <1>1
  <2> QED
    BY <1>b, <2>1
<1> QED
  BY <1>1, <1>2, <1>3, <1>7, <1>8 DEF more

--------------------------------------------------------------------------------
(* Lines and ledgers as values *)

(* A ledger is the five tables and nothing else. *)
IsLedger(s) ==
  s = [ records |-> s.records, reservations |-> s.reservations, accruals |-> s.accruals,
        checkpoints |-> s.checkpoints, claims |-> s.claims ]

(* What replaying one line of each kind makes of a ledger. *)
LEMMA ReplayRecord ==
  ASSUME NEW s, IsLedger(s), NEW l, NEW rec
  PROVE  ReplayLine(s, RecordLine(l, rec)) =
           [ records |-> Insert(s.records, l, rec), reservations |-> s.reservations,
             accruals |-> s.accruals, checkpoints |-> s.checkpoints, claims |-> s.claims ]
<1>1. PICK x : x = RecordLine(l, rec)
  OBVIOUS
<1>2. x.kind = "record" /\ x.lease_id = l /\ x.record = rec
  BY <1>1 DEF RecordLine
<1>3. ReplayLine(s, x) = [s EXCEPT !.records = Insert(s.records, l, rec)]
  BY <1>2 DEF ReplayLine, IsLedger
<1> QED
  BY <1>1, <1>3 DEF IsLedger

(* A tombstone takes the lease out of every table but the accruals. *)
LEMMA ReplayTombstone ==
  ASSUME NEW s, IsLedger(s), NEW l
  PROVE  ReplayLine(s, TombstoneLine(l)) =
           [ records |-> Delete(s.records, l), reservations |-> Delete(s.reservations, l),
             accruals |-> s.accruals, checkpoints |-> Delete(s.checkpoints, l),
             claims |-> s.claims \ {l} ]
<1>1. PICK x : x = TombstoneLine(l)
  OBVIOUS
<1>2. x.kind = "tombstone" /\ x.lease_id = l
  BY <1>1 DEF TombstoneLine
<1>3. ReplayLine(s, x) = EraseFrom(s, l)
  BY <1>2 DEF ReplayLine
<1>4. EraseFrom(s, l) =
        [s EXCEPT !.records = Delete(s.records, l), !.claims = s.claims \ {l},
                  !.checkpoints = Delete(s.checkpoints, l), !.reservations = Delete(s.reservations, l)]
  BY DEF EraseFrom, IsLedger
<1> QED
  BY <1>1, <1>3, <1>4 DEF IsLedger

(* A claim is kept when its row is Pending. *)
LEMMA ReplayClaim ==
  ASSUME NEW s, IsLedger(s), NEW l, l \in DOMAIN s.records, s.records[l].state = "Pending"
  PROVE  ReplayLine(s, ClaimLine(l)) =
           [ records |-> s.records, reservations |-> s.reservations, accruals |-> s.accruals,
             checkpoints |-> s.checkpoints, claims |-> s.claims \cup {l} ]
<1>1. PICK x : x = ClaimLine(l)
  OBVIOUS
<1>2. x.kind = "pending_cleanup_claim" /\ x.lease_id = l
  BY <1>1 DEF ClaimLine
<1>3. ReplayLine(s, x) = [s EXCEPT !.claims = s.claims \cup {l}]
  BY <1>2 DEF ReplayLine, IsLedger
<1> QED
  BY <1>1, <1>3 DEF IsLedger

(* A checkpoint line sets the checkpoint of its lease. *)
LEMMA ReplayCheckpoint ==
  ASSUME NEW s, IsLedger(s), NEW l, NEW c
  PROVE  ReplayLine(s, CheckpointLine(l, c)) =
           [ records |-> s.records, reservations |-> s.reservations, accruals |-> s.accruals,
             checkpoints |-> Insert(s.checkpoints, l, c), claims |-> s.claims ]
<1>1. PICK x : x = CheckpointLine(l, c)
  OBVIOUS
<1>2. x.kind = "checkpoint" /\ x.lease_id = l /\ x.checkpoint = c
  BY <1>1 DEF CheckpointLine
<1>3. ReplayLine(s, x) = [s EXCEPT !.checkpoints = Insert(s.checkpoints, l, c)]
  BY <1>2 DEF ReplayLine, IsLedger
<1> QED
  BY <1>1, <1>3 DEF IsLedger

(* The combined admission sets the record and its reservation. *)
LEMMA ReplayAdmitCommit ==
  ASSUME NEW s, IsLedger(s), NEW l, NEW rec, NEW res
  PROVE  ReplayLine(s, AdmitCommitLine(l, rec, res)) =
           [ records |-> Insert(s.records, l, rec), reservations |-> Insert(s.reservations, l, res),
             accruals |-> s.accruals, checkpoints |-> s.checkpoints, claims |-> s.claims ]
<1>1. PICK x : x = AdmitCommitLine(l, rec, res)
  OBVIOUS
<1>2. x.kind = "admit_commit" /\ x.lease_id = l /\ x.record = rec /\ x.reservation = res
  BY <1>1 DEF AdmitCommitLine
<1>3. ReplayLine(s, x) = AdmitInto(s, l, rec, res)
  BY <1>2 DEF ReplayLine
<1>4. AdmitInto(s, l, rec, res) =
        [s EXCEPT !.records = Insert(s.records, l, rec), !.reservations = Insert(s.reservations, l, res)]
  BY DEF AdmitInto, IsLedger
<1> QED
  BY <1>1, <1>3, <1>4 DEF IsLedger

(* An accrual line holds the absolute total of a period. *)
SetTotal(acc, tp, total) == [acc EXCEPT ![tp] = total]

(* The combined end of a lease sets the record, the latched reservation and   *)
(* the total of its period.                                                   *)
LEMMA ReplayTerminal ==
  ASSUME NEW s, IsLedger(s), NEW l, NEW rec, NEW total, NEW res
  PROVE  ReplayLine(s, TerminalLine(l, rec, total, res)) =
           [ records |-> Insert(s.records, l, rec), reservations |-> Insert(s.reservations, l, res),
             accruals |-> SetTotal(s.accruals, <<rec.tenant, res.accrual_period_key>>, total),
             checkpoints |-> s.checkpoints, claims |-> s.claims ]
<1>1. PICK x : x = TerminalLine(l, rec, total, res)
  OBVIOUS
<1>2. /\ x.kind = "terminal_transition" /\ x.lease_id = l /\ x.record = rec
      /\ x.total = total /\ x.reservation = res
  BY <1>1 DEF TerminalLine
<1>3. ReplayLine(s, x) =
        [s EXCEPT !.records = Insert(s.records, l, rec), !.reservations = Insert(s.reservations, l, res),
                  !.accruals = [s.accruals EXCEPT ![<<rec.tenant, res.accrual_period_key>>] = total]]
  BY <1>2 DEF ReplayLine, IsLedger
<1> QED
  BY <1>1, <1>3 DEF IsLedger, SetTotal

(* A line that does not parse changes nothing. *)
LEMMA ReplayGarbage ==
  ASSUME NEW s PROVE ReplayLine(s, Garbage) = s
<1>1. PICK x : x = Garbage
  OBVIOUS
<1>2. x.kind = "garbage"
  BY <1>1 DEF Garbage
<1>3. ReplayLine(s, x) = s
  BY <1>2 DEF ReplayLine
<1> QED
  BY <1>1, <1>3

--------------------------------------------------------------------------------
(* Sound ledgers, and how far a journal may lag behind *)

(* A record that carries the billing stamp exactly when it was ever Held. *)
WellStamped(rec) == rec \in LeaseRecord /\ (rec.billing_acquired_at_ms = NoTime <=> rec.state = "Pending")

(* LedgerInv of LeaseLedgerProofs, for a ledger as a value. *)
SoundState(s) ==
  /\ IsLedger(s)
  /\ IsMap(s.records, LeaseIds, LeaseRecord)
  /\ IsMap(s.reservations, LeaseIds, LeaseReservation)
  /\ s.accruals \in [Tenants \X Periods -> Nat]
  /\ IsMap(s.checkpoints, LeaseIds, Checkpoints)
  /\ DOMAIN s.reservations \subseteq DOMAIN s.records
  /\ DOMAIN s.checkpoints \subseteq DOMAIN s.records
  /\ s.claims \subseteq DOMAIN s.records
  /\ \A l \in s.claims : s.records[l].state = "Pending"
  /\ \A l \in DOMAIN s.reservations : s.reservations[l].accrued <=> s.records[l].state \in Terminal
  /\ \A l \in DOMAIN s.records : WellStamped(s.records[l])

(* The live index is sound exactly when the ledger's invariant holds. *)
LEMMA LedgerIsSound == LedgerInv <=> SoundState(Ledger)
<1>1. PICK s : s = Ledger
  OBVIOUS
<1>2. /\ s.records = records /\ s.reservations = reservations /\ s.accruals = accruals
      /\ s.checkpoints = checkpoints /\ s.claims = claims /\ IsLedger(s)
  BY <1>1 DEF Ledger, IsLedger
<1>3. LedgerInv => SoundState(s)
  <2> SUFFICES ASSUME LedgerInv PROVE SoundState(s)
    OBVIOUS
  <2>1. \A l \in DOMAIN records : WellStamped(records[l])
    BY DEF LedgerInv, TypeOK, IsMap, StampedIffHeld, WellStamped
  <2>2. \A l \in claims : records[l].state = "Pending"
    BY DEF LedgerInv, ClaimsArePending, IsPending
  <2> QED
    BY <1>2, <2>1, <2>2 DEF LedgerInv, TypeOK, NoOrphans, ChargedIffTerminal, SoundState
<1>4. SoundState(s) => LedgerInv
  <2> SUFFICES ASSUME SoundState(s) PROVE LedgerInv
    OBVIOUS
  <2>1. TypeOK
    BY <1>2 DEF SoundState, TypeOK, IsMap
  <2>2. NoOrphans /\ ChargedIffTerminal
    BY <1>2 DEF SoundState, NoOrphans, ChargedIffTerminal
  <2>3. ClaimsArePending
    BY <1>2 DEF SoundState, ClaimsArePending, IsPending
  <2>4. StampedIffHeld
    BY <1>2 DEF SoundState, StampedIffHeld, WellStamped
  <2> QED
    BY <2>1, <2>2, <2>3, <2>4 DEF LedgerInv
<1> QED
  BY <1>1, <1>3, <1>4

(* The ledger of an empty journal. *)
LEMMA EmptyLedgerSound == SoundState(EmptyLedger)
<1>1. PICK s : s = EmptyLedger
  OBVIOUS
<1>2. /\ DOMAIN s.records = {} /\ DOMAIN s.reservations = {} /\ DOMAIN s.checkpoints = {}
      /\ s.claims = {} /\ s.accruals = [tp \in Tenants \X Periods |-> 0] /\ IsLedger(s)
      /\ s.records = EmptyMap /\ s.reservations = EmptyMap /\ s.checkpoints = EmptyMap
  BY <1>1 DEF EmptyLedger, EmptyMap, IsLedger
<1>3. \A K, V : IsMap(EmptyMap, K, V)
  BY DEF IsMap, EmptyMap
<1>4. s.accruals \in [Tenants \X Periods -> Nat]
  BY <1>2
<1> QED
  BY <1>1, <1>2, <1>3, <1>4 DEF SoundState

(* The journal d may miss moves of leases that the index i has seen, when     *)
(* their appends failed; it misses nothing else.                              *)
Lag(d, i) ==
  /\ DOMAIN d.records = DOMAIN i.records
  /\ DOMAIN d.reservations = DOMAIN i.reservations
  /\ DOMAIN d.checkpoints = DOMAIN i.checkpoints
  /\ d.claims = i.claims
  /\ \A l \in DOMAIN i.records : i.records[l].state = "Pending" => d.records[l] = i.records[l]

(* The record of a line may replace what the index i has for the lease. *)
RecordFits(i, l, rec) ==
  \/ l \notin DOMAIN i.records /\ rec.state = "Pending"
  \/ /\ l \in DOMAIN i.records /\ l \notin i.claims
     /\ i.records[l].state = "Pending" /\ rec.state \in {"Pending", "Held"}
  \/ /\ l \in DOMAIN i.records /\ i.records[l].state = "Held"
     /\ rec.state \in Terminal /\ l \notin DOMAIN i.reservations

(* The lines an operation may append when the index is i. *)
Fits(i, x) ==
  \/ \E l \in LeaseIds, rec \in LeaseRecord :
       x = RecordLine(l, rec) /\ WellStamped(rec) /\ RecordFits(i, l, rec)
  \/ \E l \in LeaseIds : x = TombstoneLine(l)
  \/ \E l \in LeaseIds :
       x = ClaimLine(l) /\ l \in DOMAIN i.records /\ i.records[l].state = "Pending"
  \/ \E l \in LeaseIds, c \in Checkpoints : x = CheckpointLine(l, c) /\ l \in DOMAIN i.records
  \/ \E l \in LeaseIds, rec \in LeaseRecord, res \in LeaseReservation :
       /\ x = AdmitCommitLine(l, rec, res)
       /\ WellStamped(rec) /\ rec.state = "Pending" /\ ~res.accrued /\ l \notin DOMAIN i.records
  \/ \E l \in LeaseIds, rec \in LeaseRecord, total \in Nat, res \in LeaseReservation :
       /\ x = TerminalLine(l, rec, total, res)
       /\ WellStamped(rec) /\ rec.state \in Terminal /\ res.accrued
       /\ l \in DOMAIN i.reservations /\ l \in DOMAIN i.records /\ l \notin i.claims

(* Any line of a journal. *)
JournalLine ==
  {RecordLine(l, rec) : l \in LeaseIds, rec \in LeaseRecord}
  \cup {TombstoneLine(l) : l \in LeaseIds}
  \cup {ClaimLine(l) : l \in LeaseIds}
  \cup {CheckpointLine(l, c) : l \in LeaseIds, c \in Checkpoints}
  \cup {AdmitCommitLine(l, rec, res) : l \in LeaseIds, rec \in LeaseRecord, res \in LeaseReservation}
  \cup {TerminalLine(l, rec, total, res) :
          l \in LeaseIds, rec \in LeaseRecord, total \in Nat, res \in LeaseReservation}
  \cup {Garbage}

(* A line that fits parses. *)
LEMMA FitsIsLine ==
  ASSUME NEW i, NEW x, Fits(i, x)
  PROVE  x \in JournalLine /\ x # Garbage
<1>1. x \in JournalLine
  BY DEF Fits, JournalLine
<1>2. x.kind # "garbage"
  BY DEF Fits, RecordLine, TombstoneLine, ClaimLine, CheckpointLine, AdmitCommitLine, TerminalLine
<1>3. Garbage.kind = "garbage"
  BY DEF Garbage
<1> QED
  BY <1>1, <1>2, <1>3

(* A line that fits the index keeps the journal sound, and as close to the    *)
(* index as it was.                                                           *)
LEMMA FitsKeepsSound ==
  ASSUME NEW d, NEW i, NEW x, SoundState(d), SoundState(i), Lag(d, i), Fits(i, x)
  PROVE  SoundState(ReplayLine(d, x)) /\ Lag(ReplayLine(d, x), ReplayLine(i, x))
<1> DEFINE e == ReplayLine(d, x)
           j == ReplayLine(i, x)
<1>0. IsLedger(d) /\ IsLedger(i)
  BY DEF SoundState
<1>a. /\ IsMap(d.records, LeaseIds, LeaseRecord) /\ IsMap(d.reservations, LeaseIds, LeaseReservation)
      /\ IsMap(d.checkpoints, LeaseIds, Checkpoints) /\ IsMap(i.records, LeaseIds, LeaseRecord)
  BY DEF SoundState
<1>1. ASSUME NEW l \in LeaseIds, NEW rec \in LeaseRecord, x = RecordLine(l, rec),
             WellStamped(rec), RecordFits(i, l, rec)
      PROVE  SoundState(e) /\ Lag(e, j)
  <2>1. /\ e = [ records |-> Insert(d.records, l, rec), reservations |-> d.reservations,
                 accruals |-> d.accruals, checkpoints |-> d.checkpoints, claims |-> d.claims ]
        /\ j = [ records |-> Insert(i.records, l, rec), reservations |-> i.reservations,
                 accruals |-> i.accruals, checkpoints |-> i.checkpoints, claims |-> i.claims ]
    BY <1>0, <1>1, ReplayRecord
  <2> HIDE DEF e, j
  <2>2. /\ e.records = Insert(d.records, l, rec) /\ e.reservations = d.reservations
        /\ e.accruals = d.accruals /\ e.checkpoints = d.checkpoints /\ e.claims = d.claims
        /\ IsLedger(e)
        /\ j.records = Insert(i.records, l, rec) /\ j.reservations = i.reservations
        /\ j.accruals = i.accruals /\ j.checkpoints = i.checkpoints /\ j.claims = i.claims
    BY <2>1 DEF IsLedger
  <2>3. /\ IsMap(e.records, LeaseIds, LeaseRecord)
        /\ DOMAIN e.records = DOMAIN d.records \cup {l} /\ e.records[l] = rec
        /\ \A k \in DOMAIN d.records \ {l} : e.records[k] = d.records[k]
    BY <1>a, <2>2 DEF IsMap, Insert
  <2>4. /\ DOMAIN j.records = DOMAIN i.records \cup {l} /\ j.records[l] = rec
        /\ \A k \in DOMAIN i.records \ {l} : j.records[k] = i.records[k]
    BY <1>a, <2>2 DEF IsMap, Insert
  <2>5. Lag(e, j)
    BY <2>2, <2>3, <2>4 DEF Lag
  <2>6. /\ l \in d.claims => FALSE
        /\ l \in DOMAIN d.reservations => d.records[l].state = "Pending" /\ rec.state \in {"Pending", "Held"}
    BY <1>1 DEF RecordFits, Lag, SoundState
  <2>7. \A k \in e.claims : e.records[k].state = "Pending"
    BY <2>2, <2>3, <2>6 DEF SoundState
  <2>8. \A k \in DOMAIN e.reservations : e.reservations[k].accrued <=> e.records[k].state \in Terminal
    <3> SUFFICES ASSUME NEW k \in DOMAIN d.reservations
                 PROVE  d.reservations[k].accrued <=> e.records[k].state \in Terminal
      BY <2>2
    <3>1. d.reservations[k].accrued <=> d.records[k].state \in Terminal
      BY DEF SoundState
    <3>2. CASE k = l
      BY <2>3, <2>6, <3>1, <3>2 DEF Terminal
    <3>3. CASE k # l
      BY <2>3, <3>1, <3>3 DEF SoundState
    <3> QED
      BY <3>2, <3>3
  <2>9. \A k \in DOMAIN e.records : WellStamped(e.records[k])
    BY <1>1, <2>3 DEF SoundState
  <2> QED
    BY <2>2, <2>3, <2>5, <2>7, <2>8, <2>9 DEF SoundState
<1>2. ASSUME NEW l \in LeaseIds, x = TombstoneLine(l)
      PROVE  SoundState(e) /\ Lag(e, j)
  <2>1. /\ e = [ records |-> Delete(d.records, l), reservations |-> Delete(d.reservations, l),
                 accruals |-> d.accruals, checkpoints |-> Delete(d.checkpoints, l),
                 claims |-> d.claims \ {l} ]
        /\ j = [ records |-> Delete(i.records, l), reservations |-> Delete(i.reservations, l),
                 accruals |-> i.accruals, checkpoints |-> Delete(i.checkpoints, l),
                 claims |-> i.claims \ {l} ]
    BY <1>0, <1>2, ReplayTombstone
  <2> HIDE DEF e, j
  <2>2. /\ e.records = Delete(d.records, l) /\ e.reservations = Delete(d.reservations, l)
        /\ e.accruals = d.accruals /\ e.checkpoints = Delete(d.checkpoints, l)
        /\ e.claims = d.claims \ {l} /\ IsLedger(e)
    BY <2>1 DEF IsLedger
  <2>3. /\ j.records = Delete(i.records, l) /\ j.reservations = Delete(i.reservations, l)
        /\ j.checkpoints = Delete(i.checkpoints, l) /\ j.claims = i.claims \ {l}
    BY <2>1
  <2>4. /\ IsMap(e.records, LeaseIds, LeaseRecord) /\ DOMAIN e.records = DOMAIN d.records \ {l}
        /\ \A k \in DOMAIN d.records \ {l} : e.records[k] = d.records[k]
    BY <1>a, <2>2 DEF IsMap, Delete
  <2>5. /\ IsMap(e.reservations, LeaseIds, LeaseReservation)
        /\ DOMAIN e.reservations = DOMAIN d.reservations \ {l}
        /\ \A k \in DOMAIN d.reservations \ {l} : e.reservations[k] = d.reservations[k]
    BY <1>a, <2>2 DEF IsMap, Delete
  <2>6. IsMap(e.checkpoints, LeaseIds, Checkpoints) /\ DOMAIN e.checkpoints = DOMAIN d.checkpoints \ {l}
    BY <1>a, <2>2 DEF IsMap, Delete
  <2>7. /\ DOMAIN j.records = DOMAIN i.records \ {l}
        /\ \A k \in DOMAIN i.records \ {l} : j.records[k] = i.records[k]
        /\ DOMAIN j.reservations = DOMAIN i.reservations \ {l}
        /\ DOMAIN j.checkpoints = DOMAIN i.checkpoints \ {l}
    BY <2>3 DEF Delete
  <2>8. Lag(e, j)
    BY <2>2, <2>3, <2>4, <2>5, <2>6, <2>7 DEF Lag
  <2>9. SoundState(e)
    BY <2>2, <2>4, <2>5, <2>6 DEF SoundState
  <2> QED
    BY <2>8, <2>9
<1>3. ASSUME NEW l \in LeaseIds, x = ClaimLine(l), l \in DOMAIN i.records, i.records[l].state = "Pending"
      PROVE  SoundState(e) /\ Lag(e, j)
  <2>0. l \in DOMAIN d.records /\ d.records[l].state = "Pending"
    BY <1>3 DEF Lag
  <2>1. /\ e = [ records |-> d.records, reservations |-> d.reservations, accruals |-> d.accruals,
                 checkpoints |-> d.checkpoints, claims |-> d.claims \cup {l} ]
        /\ j = [ records |-> i.records, reservations |-> i.reservations, accruals |-> i.accruals,
                 checkpoints |-> i.checkpoints, claims |-> i.claims \cup {l} ]
    BY <1>0, <1>3, <2>0, ReplayClaim
  <2> HIDE DEF e, j
  <2>2. /\ e.records = d.records /\ e.reservations = d.reservations
        /\ e.accruals = d.accruals /\ e.checkpoints = d.checkpoints
        /\ e.claims = d.claims \cup {l} /\ IsLedger(e)
    BY <2>1 DEF IsLedger
  <2>3. /\ j.records = i.records /\ j.reservations = i.reservations
        /\ j.checkpoints = i.checkpoints /\ j.claims = i.claims \cup {l}
    BY <2>1
  <2>4. Lag(e, j)
    BY <2>2, <2>3 DEF Lag
  <2>5. SoundState(e)
    BY <2>0, <2>2 DEF SoundState
  <2> QED
    BY <2>4, <2>5
<1>4. ASSUME NEW l \in LeaseIds, NEW c \in Checkpoints, x = CheckpointLine(l, c), l \in DOMAIN i.records
      PROVE  SoundState(e) /\ Lag(e, j)
  <2>0. l \in DOMAIN d.records
    BY <1>4 DEF Lag
  <2>1. /\ e = [ records |-> d.records, reservations |-> d.reservations, accruals |-> d.accruals,
                 checkpoints |-> Insert(d.checkpoints, l, c), claims |-> d.claims ]
        /\ j = [ records |-> i.records, reservations |-> i.reservations, accruals |-> i.accruals,
                 checkpoints |-> Insert(i.checkpoints, l, c), claims |-> i.claims ]
    BY <1>0, <1>4, ReplayCheckpoint
  <2> HIDE DEF e, j
  <2>2. /\ e.records = d.records /\ e.reservations = d.reservations
        /\ e.accruals = d.accruals /\ e.checkpoints = Insert(d.checkpoints, l, c)
        /\ e.claims = d.claims /\ IsLedger(e)
    BY <2>1 DEF IsLedger
  <2>3. /\ j.records = i.records /\ j.reservations = i.reservations
        /\ j.checkpoints = Insert(i.checkpoints, l, c) /\ j.claims = i.claims
    BY <2>1
  <2>4. IsMap(e.checkpoints, LeaseIds, Checkpoints) /\ DOMAIN e.checkpoints = DOMAIN d.checkpoints \cup {l}
    BY <1>a, <2>2 DEF IsMap, Insert
  <2>5. DOMAIN j.checkpoints = DOMAIN i.checkpoints \cup {l}
    BY <2>3 DEF Insert
  <2>6. Lag(e, j)
    BY <2>2, <2>3, <2>4, <2>5 DEF Lag
  <2>7. SoundState(e)
    BY <2>0, <2>2, <2>4 DEF SoundState
  <2> QED
    BY <2>6, <2>7
<1>5. ASSUME NEW l \in LeaseIds, NEW rec \in LeaseRecord, NEW res \in LeaseReservation,
             x = AdmitCommitLine(l, rec, res), WellStamped(rec), rec.state = "Pending",
             ~res.accrued, l \notin DOMAIN i.records
      PROVE  SoundState(e) /\ Lag(e, j)
  <2>0. l \notin DOMAIN d.records
    BY <1>5 DEF Lag
  <2>1. /\ e = [ records |-> Insert(d.records, l, rec), reservations |-> Insert(d.reservations, l, res),
                 accruals |-> d.accruals, checkpoints |-> d.checkpoints, claims |-> d.claims ]
        /\ j = [ records |-> Insert(i.records, l, rec), reservations |-> Insert(i.reservations, l, res),
                 accruals |-> i.accruals, checkpoints |-> i.checkpoints, claims |-> i.claims ]
    BY <1>0, <1>5, ReplayAdmitCommit
  <2> HIDE DEF e, j
  <2>2. /\ e.records = Insert(d.records, l, rec) /\ e.reservations = Insert(d.reservations, l, res)
        /\ e.accruals = d.accruals /\ e.checkpoints = d.checkpoints
        /\ e.claims = d.claims /\ IsLedger(e)
    BY <2>1 DEF IsLedger
  <2>3. /\ j.records = Insert(i.records, l, rec) /\ j.reservations = Insert(i.reservations, l, res)
        /\ j.checkpoints = i.checkpoints /\ j.claims = i.claims
    BY <2>1
  <2>4. /\ IsMap(e.records, LeaseIds, LeaseRecord)
        /\ DOMAIN e.records = DOMAIN d.records \cup {l} /\ e.records[l] = rec
        /\ \A k \in DOMAIN d.records \ {l} : e.records[k] = d.records[k]
    BY <1>a, <2>2 DEF IsMap, Insert
  <2>5. /\ IsMap(e.reservations, LeaseIds, LeaseReservation)
        /\ DOMAIN e.reservations = DOMAIN d.reservations \cup {l} /\ e.reservations[l] = res
        /\ \A k \in DOMAIN d.reservations \ {l} : e.reservations[k] = d.reservations[k]
    BY <1>a, <2>2 DEF IsMap, Insert
  <2>6. /\ DOMAIN j.records = DOMAIN i.records \cup {l} /\ j.records[l] = rec
        /\ \A k \in DOMAIN i.records \ {l} : j.records[k] = i.records[k]
        /\ DOMAIN j.reservations = DOMAIN i.reservations \cup {l}
    BY <2>3 DEF Insert
  <2>7. Lag(e, j)
    BY <2>2, <2>3, <2>4, <2>5, <2>6 DEF Lag
  <2>8. \A k \in DOMAIN e.reservations : e.reservations[k].accrued <=> e.records[k].state \in Terminal
    BY <1>5, <2>0, <2>4, <2>5 DEF SoundState, Terminal
  <2>9. \A k \in DOMAIN e.records : WellStamped(e.records[k])
    BY <1>5, <2>4 DEF SoundState
  <2>10. \A k \in e.claims : e.records[k].state = "Pending"
    BY <2>0, <2>2, <2>4 DEF SoundState
  <2>11. SoundState(e)
    BY <2>2, <2>4, <2>5, <2>8, <2>9, <2>10 DEF SoundState
  <2> QED
    BY <2>7, <2>11
<1>6. ASSUME NEW l \in LeaseIds, NEW rec \in LeaseRecord, NEW total \in Nat, NEW res \in LeaseReservation,
             x = TerminalLine(l, rec, total, res), WellStamped(rec), rec.state \in Terminal, res.accrued,
             l \in DOMAIN i.reservations, l \in DOMAIN i.records, l \notin i.claims
      PROVE  SoundState(e) /\ Lag(e, j)
  <2>0. l \in DOMAIN d.records /\ l \in DOMAIN d.reservations /\ l \notin d.claims
    BY <1>6 DEF Lag
  <2> DEFINE tp == <<rec.tenant, res.accrual_period_key>>
  <2>1. /\ e = [ records |-> Insert(d.records, l, rec), reservations |-> Insert(d.reservations, l, res),
                 accruals |-> SetTotal(d.accruals, tp, total),
                 checkpoints |-> d.checkpoints, claims |-> d.claims ]
        /\ j = [ records |-> Insert(i.records, l, rec), reservations |-> Insert(i.reservations, l, res),
                 accruals |-> SetTotal(i.accruals, tp, total),
                 checkpoints |-> i.checkpoints, claims |-> i.claims ]
    BY <1>0, <1>6, ReplayTerminal
  <2> HIDE DEF e, j, tp
  <2>2. /\ e.records = Insert(d.records, l, rec) /\ e.reservations = Insert(d.reservations, l, res)
        /\ e.accruals = SetTotal(d.accruals, tp, total) /\ e.checkpoints = d.checkpoints
        /\ e.claims = d.claims /\ IsLedger(e)
    BY <2>1 DEF IsLedger
  <2>3. /\ j.records = Insert(i.records, l, rec) /\ j.reservations = Insert(i.reservations, l, res)
        /\ j.checkpoints = i.checkpoints /\ j.claims = i.claims
    BY <2>1
  <2>4. /\ IsMap(e.records, LeaseIds, LeaseRecord)
        /\ DOMAIN e.records = DOMAIN d.records \cup {l} /\ e.records[l] = rec
        /\ \A k \in DOMAIN d.records \ {l} : e.records[k] = d.records[k]
    BY <1>a, <2>2 DEF IsMap, Insert
  <2>5. /\ IsMap(e.reservations, LeaseIds, LeaseReservation)
        /\ DOMAIN e.reservations = DOMAIN d.reservations \cup {l} /\ e.reservations[l] = res
        /\ \A k \in DOMAIN d.reservations \ {l} : e.reservations[k] = d.reservations[k]
    BY <1>a, <2>2 DEF IsMap, Insert
  <2>6. /\ DOMAIN j.records = DOMAIN i.records \cup {l} /\ j.records[l] = rec
        /\ \A k \in DOMAIN i.records \ {l} : j.records[k] = i.records[k]
        /\ DOMAIN j.reservations = DOMAIN i.reservations \cup {l}
    BY <2>3 DEF Insert
  <2>7. Lag(e, j)
    BY <2>2, <2>3, <2>4, <2>5, <2>6 DEF Lag
  <2>8. \A k \in DOMAIN e.reservations : e.reservations[k].accrued <=> e.records[k].state \in Terminal
    BY <1>6, <2>0, <2>4, <2>5 DEF SoundState
  <2>9. \A k \in DOMAIN e.records : WellStamped(e.records[k])
    BY <1>6, <2>4 DEF SoundState
  <2>10. \A k \in e.claims : e.records[k].state = "Pending"
    BY <2>0, <2>2, <2>4 DEF SoundState
  <2>11. e.accruals \in [Tenants \X Periods -> Nat]
    BY <2>2 DEF SoundState, SetTotal
  <2>12. SoundState(e)
    BY <2>0, <2>2, <2>4, <2>5, <2>8, <2>9, <2>10, <2>11 DEF SoundState
  <2> QED
    BY <2>7, <2>12
<1> QED
  BY <1>1, <1>2, <1>3, <1>4, <1>5, <1>6 DEF Fits

--------------------------------------------------------------------------------
(* What each operation journals *)

(* The operation has one line to write, which fits the index it started from  *)
(* and gives the index it will leave.                                         *)
OneLine(x) == inflight' = <<x>> /\ Fits(Ledger, x) /\ Ledger' = ReplayLine(Ledger, x)

(* The live index is a ledger. *)
LEMMA LedgerShape ==
  /\ IsLedger(Ledger)
  /\ Ledger.records = records /\ Ledger.reservations = reservations /\ Ledger.accruals = accruals
  /\ Ledger.checkpoints = checkpoints /\ Ledger.claims = claims
  BY DEF Ledger, IsLedger

(* An in-place update is an insert over an entry that exists. *)
LEMMA UpdateIsInsert ==
  ASSUME NEW map, NEW K, NEW V, NEW key \in DOMAIN map, NEW value, IsMap(map, K, V)
  PROVE  [map EXCEPT ![key] = value] = Insert(map, key, value)
  BY DEF IsMap, Insert

(* try_admit, try_admit_with_compute: the record alone, or the combined line. *)
LEMMA AdmitJournals ==
  ASSUME LedgerInv, NEW l \in LeaseIds, FileAdmit(l)
  PROVE  \E x : OneLine(x) /\ fallback' = Ledger /\ UNCHANGED <<journal, ended, up>>
<1>1. PICK t \in Tenants, now \in Times : \E gate \in Gates(t, now) :
         TryAdmitWithCompute(l, t, gate, now)
  BY DEF FileAdmit, Admit
<1>2. PICK gate \in Gates(t, now) : TryAdmitWithCompute(l, t, gate, now)
  BY <1>1
<1> DEFINE rec == PendingRecord(t, now)
<1>3. /\ l \notin DOMAIN records /\ records' = Insert(records, l, rec)
      /\ accruals' = accruals /\ checkpoints' = checkpoints /\ claims' = claims
  BY <1>2 DEF TryAdmitWithCompute
<1>4. l \notin DOMAIN reservations /\ l \notin claims
  BY <1>3 DEF LedgerInv, NoOrphans
<1>5. rec \in LeaseRecord /\ WellStamped(rec) /\ rec.state = "Pending"
  BY PendingRecordType DEF WellStamped
<1> HIDE DEF rec
<1>6. records'[l] = rec
  BY <1>3 DEF Insert
<1>7. CASE gate.ceiling_vcpu_ms = 0
  <2>1. reservations' = reservations
    BY <1>2, <1>7 DEF TryAdmitWithCompute
  <2>2. inflight' = <<RecordLine(l, rec)>> /\ fallback' = Ledger /\ UNCHANGED <<journal, ended, up>>
    BY <1>4, <1>6, <2>1 DEF FileAdmit, Writes, Journals
  <2>3. Ledger' = ReplayLine(Ledger, RecordLine(l, rec))
    BY <1>3, <2>1, ReplayRecord, LedgerShape DEF Ledger
  <2>4. RecordFits(Ledger, l, rec)
    BY <1>3, <1>5, LedgerShape DEF RecordFits
  <2>5. Fits(Ledger, RecordLine(l, rec))
    BY <1>5, <2>4 DEF Fits
  <2> QED
    BY <2>2, <2>3, <2>5 DEF OneLine
<1>8. CASE gate.ceiling_vcpu_ms # 0
  <2> DEFINE res == Reservation(gate)
  <2>0. res \in LeaseReservation /\ ~res.accrued
    BY GateType
  <2> HIDE DEF res
  <2>1. reservations' = Insert(reservations, l, res)
    BY <1>2, <1>8 DEF TryAdmitWithCompute, res
  <2>2. l \in DOMAIN reservations' /\ reservations'[l] = res
    BY <2>1 DEF Insert
  <2>3. inflight' = <<AdmitCommitLine(l, rec, res)>> /\ fallback' = Ledger /\ UNCHANGED <<journal, ended, up>>
    BY <1>6, <2>2 DEF FileAdmit, Writes, Journals
  <2>4. Ledger' = ReplayLine(Ledger, AdmitCommitLine(l, rec, res))
    BY <1>3, <2>1, ReplayAdmitCommit, LedgerShape DEF Ledger
  <2>5. Fits(Ledger, AdmitCommitLine(l, rec, res))
    BY <1>3, <1>5, <2>0, LedgerShape DEF Fits
  <2> QED
    BY <2>3, <2>4, <2>5 DEF OneLine
<1> QED
  BY <1>7, <1>8

(* transition: the record alone, or with the charge it made. *)
LEMMA TransitionJournals ==
  ASSUME LedgerInv, NEW l \in LeaseIds, FileTransition(l)
  PROVE  \E x : OneLine(x) /\ fallback' = Ledger' /\ UNCHANGED <<journal, ended, up>>
<1>1. PICK to \in LeaseState, now \in Times : Transition(l, to, now)
  BY DEF FileTransition, Move
<1>2. /\ l \notin claims /\ l \in DOMAIN records
      /\ TransitionIsLegal(records[l].state, to)
      /\ checkpoints' = checkpoints /\ claims' = claims
      /\ records' = [records EXCEPT ![l] = ApplyTransition(records[l], to, now)]
      /\ AccrueOnTerminal(l, to, now)
  BY <1>1 DEF Transition, CanTransition
<1>3. IsMap(records, LeaseIds, LeaseRecord) /\ IsMap(reservations, LeaseIds, LeaseReservation)
  BY DEF LedgerInv, TypeOK
<1>4. records[l] \in LeaseRecord
  BY <1>2, <1>3 DEF IsMap
<1>5. /\ records'[l] = ApplyTransition(records[l], to, now)
      /\ records' = Insert(records, l, records'[l])
  BY <1>2, <1>3, UpdateIsInsert
<1>6. /\ records'[l] \in LeaseRecord /\ records'[l].state = to
      /\ records'[l].tenant = records[l].tenant
  BY <1>4, <1>5, ApplyTransitionType
<1>7. LedgerInv'
  BY MoveInv DEF FileTransition
<1>8. WellStamped(records'[l])
  <2>1. l \in DOMAIN records'
    BY <1>2
  <2> QED
    BY <1>6, <1>7, <2>1 DEF LedgerInv, StampedIffHeld, WellStamped
<1>9. PICK rec : rec = records'[l]
  OBVIOUS
<1>10. /\ inflight' = <<TransitionLine(l)>> /\ fallback' = Ledger' /\ UNCHANGED <<journal, ended, up>>
  BY DEF FileTransition, WritesAfter, Journals
<1>11. CASE to \in Terminal /\ Unsettled(l)
  <2> DEFINE tp == <<records[l].tenant, reservations[l].accrual_period_key>>
             amount == Charge(accruals[tp], Actual(records[l], reservations[l], now))
             res == Latch(reservations[l])
  <2>1. /\ l \in DOMAIN reservations /\ ~reservations[l].accrued
        /\ reservations[l] \in LeaseReservation
    BY <1>3, <1>11 DEF Unsettled, IsMap
  <2>2. /\ accruals' = [accruals EXCEPT ![tp] = amount]
        /\ reservations' = [reservations EXCEPT ![l] = res]
    BY <1>2, <1>11, <2>1 DEF AccrueOnTerminal
  <2>3. /\ res \in LeaseReservation /\ res.accrued = TRUE
        /\ res.accrual_period_key = reservations[l].accrual_period_key
    BY <2>1 DEF Latch, LeaseReservation
  <2>4. tp \in Tenants \X Periods
    BY <1>4, <2>1 DEF LeaseRecord, LeaseReservation
  <2>5. accruals' \in [Tenants \X Periods -> Nat] /\ accruals \in [Tenants \X Periods -> Nat]
    BY <1>7 DEF LedgerInv, TypeOK
  <2> HIDE DEF tp, amount, res
  <2>6. PICK total : total = accruals'[tp]
    OBVIOUS
  <2>7. total \in Nat /\ accruals' = SetTotal(accruals, tp, total)
    BY <2>2, <2>4, <2>5, <2>6 DEF SetTotal
  <2>8. /\ reservations'[l] = res
        /\ reservations' = Insert(reservations, l, res)
        /\ reservations' # reservations
    <3>1. reservations' = Insert(reservations, l, res)
      BY <1>3, <2>1, <2>2, UpdateIsInsert
    <3>2. reservations'[l] = res
      BY <3>1 DEF Insert
    <3> QED
      BY <2>1, <2>3, <3>1, <3>2
  <2>9. <<records'[l].tenant, reservations'[l].accrual_period_key>> = tp
    BY <1>6, <2>3, <2>8 DEF tp
  <2>10. TransitionLine(l) = TerminalLine(l, rec, total, res)
    BY <1>9, <2>6, <2>8, <2>9 DEF TransitionLine
  <2>11. tp = <<rec.tenant, res.accrual_period_key>>
    BY <1>9, <2>8, <2>9
  <2>12. Ledger' = ReplayLine(Ledger, TerminalLine(l, rec, total, res))
    BY <1>2, <1>5, <1>9, <2>7, <2>8, <2>11, ReplayTerminal, LedgerShape DEF Ledger
  <2>13. Fits(Ledger, TerminalLine(l, rec, total, res))
    <3>1. rec \in LeaseRecord /\ rec.state \in Terminal /\ WellStamped(rec)
      BY <1>6, <1>8, <1>9, <1>11
    <3> QED
      BY <1>2, <2>1, <2>3, <2>7, <3>1, LedgerShape DEF Fits
  <2> QED
    BY <1>10, <2>10, <2>12, <2>13 DEF OneLine
<1>12. CASE ~(to \in Terminal /\ Unsettled(l))
  <2>1. accruals' = accruals /\ reservations' = reservations
    BY <1>2, <1>12 DEF AccrueOnTerminal
  <2>2. TransitionLine(l) = RecordLine(l, rec)
    BY <1>9, <2>1 DEF TransitionLine
  <2>3. Ledger' = ReplayLine(Ledger, RecordLine(l, rec))
    BY <1>2, <1>5, <1>9, <2>1, ReplayRecord, LedgerShape DEF Ledger
  <2>4. l \in DOMAIN reservations => (reservations[l].accrued <=> records[l].state \in Terminal)
    BY DEF LedgerInv, ChargedIffTerminal
  <2>5. RecordFits(Ledger, l, rec)
    <3>1. CASE records[l].state = "Pending" /\ to = "Held"
      BY <1>2, <1>6, <1>9, <3>1, LedgerShape DEF RecordFits
    <3>2. CASE records[l].state = "Held" /\ to \in Terminal
      <4>1. l \notin DOMAIN reservations
        BY <1>12, <2>4, <3>2 DEF Unsettled, Terminal
      <4> QED
        BY <1>2, <1>6, <1>9, <3>2, <4>1, LedgerShape DEF RecordFits
    <3> QED
      BY <1>2, <3>1, <3>2 DEF TransitionIsLegal
  <2>6. Fits(Ledger, RecordLine(l, rec))
    BY <1>6, <1>8, <1>9, <2>5 DEF Fits
  <2> QED
    BY <1>10, <2>2, <2>3, <2>6 DEF OneLine
<1> QED
  BY <1>11, <1>12

(* bind_provider_ref: nothing when the row is bound already, else the record. *)
LEMMA BindJournals ==
  ASSUME LedgerInv, NEW l \in LeaseIds, FileBind(l)
  PROVE  \/ inflight' = << >> /\ fallback' = Settled /\ UNCHANGED <<ledgerVars, journal, ended, up>>
         \/ \E x : OneLine(x) /\ fallback' = Ledger /\ UNCHANGED <<journal, ended, up>>
<1>1. PICK r \in ProviderRefs : BindProviderRef(l, r)
  BY DEF FileBind
<1>2. /\ l \notin claims /\ l \in DOMAIN records /\ records[l].state = "Pending"
      /\ records' = [records EXCEPT ![l].box_ref = r]
      /\ reservations' = reservations /\ accruals' = accruals
      /\ checkpoints' = checkpoints /\ claims' = claims
  BY <1>1 DEF BindProviderRef, CanBind
<1>3. IsMap(records, LeaseIds, LeaseRecord)
  BY DEF LedgerInv, TypeOK
<1>4. PICK rec : rec = [records[l] EXCEPT !.box_ref = r]
  OBVIOUS
<1>5. records' = [records EXCEPT ![l] = rec]
  BY <1>2, <1>4
<1>6. records' = Insert(records, l, rec) /\ records'[l] = rec
  BY <1>2, <1>3, <1>5, UpdateIsInsert
<1>7. rec \in LeaseRecord /\ rec.state = "Pending" /\ WellStamped(rec)
  <2>1. records[l] \in LeaseRecord /\ records[l].billing_acquired_at_ms = NoTime
    BY <1>2, <1>3 DEF IsMap, LedgerInv, StampedIffHeld
  <2> QED
    BY <1>2, <1>4, <2>1 DEF LeaseRecord, WellStamped
<1>8. CASE records' = records
  BY <1>2, <1>8 DEF FileBind, Writes, Journals, ledgerVars
<1>9. CASE records' # records
  <2>1. inflight' = <<RecordLine(l, rec)>> /\ fallback' = Ledger /\ UNCHANGED <<journal, ended, up>>
    BY <1>6, <1>9 DEF FileBind, Writes, Journals
  <2>2. Ledger' = ReplayLine(Ledger, RecordLine(l, rec))
    BY <1>2, <1>6, ReplayRecord, LedgerShape DEF Ledger
  <2>3. RecordFits(Ledger, l, rec)
    BY <1>2, <1>7, LedgerShape DEF RecordFits
  <2>4. Fits(Ledger, RecordLine(l, rec))
    BY <1>7, <2>3 DEF Fits
  <2> QED
    BY <2>1, <2>2, <2>4 DEF OneLine
<1> QED
  BY <1>8, <1>9

(* set_envelope_checkpoint *)
LEMMA CheckpointJournals ==
  ASSUME LedgerInv, NEW l \in LeaseIds, FileCheckpoint(l)
  PROVE  \E x : OneLine(x) /\ fallback' = Ledger /\ UNCHANGED <<journal, ended, up>>
<1>1. PICK c \in Checkpoints : SetEnvelopeCheckpoint(l, c) /\ Writes(<<CheckpointLine(l, c)>>)
  BY DEF FileCheckpoint
<1>2. inflight' = <<CheckpointLine(l, c)>> /\ fallback' = Ledger /\ UNCHANGED <<journal, ended, up>>
  BY <1>1 DEF Writes, Journals
<1>3. /\ l \in DOMAIN records /\ checkpoints' = Insert(checkpoints, l, c)
      /\ records' = records /\ reservations' = reservations /\ accruals' = accruals /\ claims' = claims
  BY <1>1 DEF SetEnvelopeCheckpoint
<1>4. Ledger' = ReplayLine(Ledger, CheckpointLine(l, c))
  BY <1>3, ReplayCheckpoint, LedgerShape DEF Ledger
<1>5. Fits(Ledger, CheckpointLine(l, c))
  BY <1>3, LedgerShape DEF Fits
<1> QED
  BY <1>2, <1>4, <1>5 DEF OneLine

(* finish_pending_cleanup, remove, remove_if_pending: a tombstone. *)
LEMMA EraseJournals ==
  ASSUME LedgerInv, NEW l \in LeaseIds, FileFinish(l) \/ FileRemove(l)
  PROVE  \E x : OneLine(x) /\ fallback' = Ledger /\ UNCHANGED <<journal, ended, up>>
<1>1. Erase(l) /\ Writes(<<TombstoneLine(l)>>)
  BY DEF FileFinish, FileRemove, FinishPendingCleanup, Remove, RemoveIfPending
<1>2. inflight' = <<TombstoneLine(l)>> /\ fallback' = Ledger /\ UNCHANGED <<journal, ended, up>>
  BY <1>1 DEF Writes, Journals
<1>3. Ledger' = ReplayLine(Ledger, TombstoneLine(l))
  BY <1>1, ReplayTombstone, LedgerShape DEF Ledger, Erase
<1>4. Fits(Ledger, TombstoneLine(l))
  BY DEF Fits
<1> QED
  BY <1>2, <1>3, <1>4 DEF OneLine

(* Every row of a finite set is in each of its enumerations. *)
LEMMA EnumerationIsOnto ==
  ASSUME NEW S, IsFiniteSet(S), NEW rows \in Enumerations(S)
  PROVE  /\ Cardinality(S) \in Nat
         /\ rows \in [1..Cardinality(S) -> S]
         /\ \A l \in S : \E n \in 1..Cardinality(S) : rows[n] = l
<1>1. Cardinality(S) \in Nat
  BY FS_CardinalityType
<1>2. /\ rows \in [1..Cardinality(S) -> S]
      /\ \A i, j \in 1..Cardinality(S) : i # j => rows[i] # rows[j]
  BY DEF Enumerations
<1>3. rows \in Injection(1..Cardinality(S), S)
  BY <1>2 DEF Injection, IsInjective
<1>4. Cardinality(1..Cardinality(S)) = Cardinality(S)
  BY <1>1, FS_Interval
<1>5. rows \in Surjection(1..Cardinality(S), S)
  BY <1>3, <1>4, FS_Injection
<1> QED
  BY <1>1, <1>2, <1>5 DEF Surjection

(* The lines are claims of rows that are Pending in s. *)
OnlyClaims(s, lines) ==
  \A n \in DOMAIN lines : \E l \in LeaseIds :
     lines[n] = ClaimLine(l) /\ l \in DOMAIN s.records /\ s.records[l].state = "Pending"

(* The leases those lines claim. *)
ClaimedBy(lines) == {l \in LeaseIds : \E n \in DOMAIN lines : lines[n] = ClaimLine(l)}

(* A ledger with more leases claimed. *)
WithClaims(s, S) ==
  [ records |-> s.records, reservations |-> s.reservations, accruals |-> s.accruals,
    checkpoints |-> s.checkpoints, claims |-> s.claims \cup S ]

(* claim_pending_cleanup, claim_stale_pending_cleanup: a line for every row   *)
(* that was not claimed before; none when there is none.                      *)
LEMMA ClaimJournals ==
  ASSUME LedgerInv, IsFiniteSet(DOMAIN records), FileClaimStale \/ \E l \in LeaseIds : FileClaim(l)
  PROVE  /\ UNCHANGED <<journal, ended, up>>
         /\ \/ inflight' = << >> /\ fallback' = Settled /\ UNCHANGED ledgerVars
            \/ /\ inflight' \in Seq(JournalLine) /\ inflight' # << >>
               /\ fallback' = Ledger
               /\ OnlyClaims(Ledger, inflight')
               /\ Ledger' = WithClaims(Ledger, ClaimedBy(inflight'))
<1>1. PICK S \in SUBSET DOMAIN records :
        /\ \A l \in S : IsPending(l)
        /\ claims' = claims \cup S
        /\ UNCHANGED <<records, reservations, accruals, checkpoints>>
  <2>1. CASE FileClaimStale
    <3>1. PICK now \in Times : ClaimStalePendingCleanup(now)
      BY <2>1 DEF FileClaimStale
    <3>2. StalePending(now) \in SUBSET DOMAIN records /\ \A l \in StalePending(now) : IsPending(l)
      BY DEF StalePending
    <3> QED
      BY <3>1, <3>2 DEF ClaimStalePendingCleanup
  <2>2. CASE \E l \in LeaseIds : FileClaim(l)
    <3>1. PICK l \in LeaseIds : ClaimPendingCleanup(l)
      BY <2>2 DEF FileClaim
    <3>2. {l} \in SUBSET DOMAIN records /\ \A k \in {l} : IsPending(k)
      BY <3>1 DEF ClaimPendingCleanup, Claimable, IsPending
    <3> QED
      BY <3>1, <3>2 DEF ClaimPendingCleanup
  <2> QED
    BY <2>1, <2>2
<1>2. PICK lines \in NewClaims : Writes(lines)
  BY DEF FileClaim, FileClaimStale
<1> DEFINE fresh == claims' \ claims
<1>3. fresh \subseteq S /\ fresh \subseteq DOMAIN records /\ claims' = claims \cup fresh
  BY <1>1
<1>4. IsFiniteSet(fresh)
  BY <1>3, FS_Subset
<1>5. PICK rows \in Enumerations(fresh) : lines = [i \in DOMAIN rows |-> ClaimLine(rows[i])]
  BY <1>2 DEF NewClaims
<1> HIDE DEF fresh
<1>6. /\ Cardinality(fresh) \in Nat /\ rows \in [1..Cardinality(fresh) -> fresh]
      /\ \A l \in fresh : \E n \in 1..Cardinality(fresh) : rows[n] = l
  BY <1>4, EnumerationIsOnto
<1>7. PICK m \in Nat : m = Cardinality(fresh)
  BY <1>6
<1>8. DOMAIN lines = 1..m /\ \A n \in 1..m : lines[n] = ClaimLine(rows[n]) /\ rows[n] \in fresh
  BY <1>5, <1>6, <1>7
<1>9. DOMAIN records \subseteq LeaseIds
  BY DEF LedgerInv, TypeOK, IsMap
<1>10. lines \in Seq(JournalLine)
  <2>1. \A n \in 1..m : lines[n] \in JournalLine
    BY <1>3, <1>8, <1>9 DEF JournalLine
  <2>2. lines = [n \in 1..m |-> lines[n]]
    BY <1>5, <1>8
  <2> QED
    BY <2>1, <2>2
<1>11. UNCHANGED <<journal, ended, up>> /\ inflight' = lines
  BY <1>2 DEF Writes, Journals
<1>12. CASE lines = << >>
  <2>1. m = 0
    BY <1>8, <1>12
  <2>2. fresh = {}
    BY <1>6, <1>7, <2>1
  <2>3. UNCHANGED ledgerVars
    BY <1>1, <1>3, <2>2 DEF ledgerVars
  <2> QED
    BY <1>2, <1>11, <1>12, <2>3 DEF Writes, Journals
<1>13. CASE lines # << >>
  <2>1. fallback' = Ledger
    BY <1>2, <1>13 DEF Writes, Journals
  <2>2. OnlyClaims(Ledger, lines)
    BY <1>1, <1>3, <1>8, <1>9, LedgerShape DEF OnlyClaims, IsPending
  <2>3. ClaimedBy(lines) = fresh
    <3>1. \A l, k : ClaimLine(l) = ClaimLine(k) => l = k
      BY DEF ClaimLine
    <3>2. ASSUME NEW l \in fresh PROVE l \in ClaimedBy(lines)
      BY <1>3, <1>6, <1>7, <1>8, <1>9 DEF ClaimedBy
    <3>3. ASSUME NEW l \in ClaimedBy(lines) PROVE l \in fresh
      BY <1>8, <3>1 DEF ClaimedBy
    <3> QED
      BY <3>2, <3>3
  <2>4. Ledger' = WithClaims(Ledger, fresh)
    BY <1>1, <1>3, LedgerShape DEF Ledger, WithClaims
  <2> QED
    BY <1>10, <1>11, <1>13, <2>1, <2>2, <2>3, <2>4
<1> QED
  BY <1>12, <1>13

--------------------------------------------------------------------------------
(* Journals and their prefixes *)

(* The ledger of a journal, and of the journal with one more line. *)
LEMMA ReplayGrows ==
  /\ Replay(<< >>) = EmptyLedger
  /\ \A lines \in Seq(JournalLine), x \in JournalLine :
       Replay(Append(lines, x)) = ReplayLine(Replay(lines), x)
  BY ReplayNone, ReplayOneMore DEF Replay

(* No line is damaged. *)
GarbageFree(lines) == \A n \in 1..Len(lines) : lines[n] # Garbage

(* Sound, and a table that the sweep can list. *)
Solid(s) == SoundState(s) /\ IsFiniteSet(DOMAIN s.records)

(* Whatever is dropped from the end, what is left before the first damaged    *)
(* line replays to a sound ledger.                                            *)
PrefixSound(lines) ==
  \A n \in 0..Len(lines) :
    GarbageFree(SubSeq(lines, 1, n)) => Solid(Replay(SubSeq(lines, 1, n)))

(* The ledger of an empty journal has no rows. *)
LEMMA EmptyLedgerSolid == Solid(EmptyLedger)
<1>1. DOMAIN EmptyLedger.records = {}
  BY DEF EmptyLedger, EmptyMap
<1> QED
  BY <1>1, EmptyLedgerSound, FS_EmptySet DEF Solid

(* Replaying a line adds at most one row. *)
LEMMA FitsKeepsSolid ==
  ASSUME NEW d, NEW i, NEW x, Solid(d), SoundState(i), Lag(d, i), Fits(i, x)
  PROVE  Solid(ReplayLine(d, x)) /\ Lag(ReplayLine(d, x), ReplayLine(i, x))
<1>1. IsLedger(d)
  BY DEF Solid, SoundState
<1>2. \E l \in LeaseIds : DOMAIN ReplayLine(d, x).records \subseteq DOMAIN d.records \cup {l}
  <2>1. ASSUME NEW l \in LeaseIds, NEW rec \in LeaseRecord, x = RecordLine(l, rec)
        PROVE  DOMAIN ReplayLine(d, x).records \subseteq DOMAIN d.records \cup {l}
    <3>1. ReplayLine(d, x).records = Insert(d.records, l, rec)
      BY <1>1, <2>1, ReplayRecord
    <3> QED
      BY <3>1 DEF Insert
  <2>2. ASSUME NEW l \in LeaseIds, x = TombstoneLine(l)
        PROVE  DOMAIN ReplayLine(d, x).records \subseteq DOMAIN d.records \cup {l}
    <3>1. ReplayLine(d, x).records = Delete(d.records, l)
      BY <1>1, <2>2, ReplayTombstone
    <3> QED
      BY <3>1 DEF Delete
  <2>3. ASSUME NEW l \in LeaseIds, x = ClaimLine(l), l \in DOMAIN i.records, i.records[l].state = "Pending"
        PROVE  DOMAIN ReplayLine(d, x).records \subseteq DOMAIN d.records \cup {l}
    <3>1. l \in DOMAIN d.records /\ d.records[l].state = "Pending"
      BY <2>3 DEF Lag
    <3> QED
      BY <1>1, <2>3, <3>1, ReplayClaim
  <2>4. ASSUME NEW l \in LeaseIds, NEW c \in Checkpoints, x = CheckpointLine(l, c)
        PROVE  DOMAIN ReplayLine(d, x).records \subseteq DOMAIN d.records \cup {l}
    BY <1>1, <2>4, ReplayCheckpoint
  <2>5. ASSUME NEW l \in LeaseIds, NEW rec \in LeaseRecord, NEW res \in LeaseReservation,
               x = AdmitCommitLine(l, rec, res)
        PROVE  DOMAIN ReplayLine(d, x).records \subseteq DOMAIN d.records \cup {l}
    <3>1. ReplayLine(d, x).records = Insert(d.records, l, rec)
      BY <1>1, <2>5, ReplayAdmitCommit
    <3> QED
      BY <3>1 DEF Insert
  <2>6. ASSUME NEW l \in LeaseIds, NEW rec \in LeaseRecord, NEW total \in Nat, NEW res \in LeaseReservation,
               x = TerminalLine(l, rec, total, res)
        PROVE  DOMAIN ReplayLine(d, x).records \subseteq DOMAIN d.records \cup {l}
    <3>0. ReplayLine(d, x) =
            [ records |-> Insert(d.records, l, rec), reservations |-> Insert(d.reservations, l, res),
              accruals |-> SetTotal(d.accruals, <<rec.tenant, res.accrual_period_key>>, total),
              checkpoints |-> d.checkpoints, claims |-> d.claims ]
      BY <1>1, <2>6, ReplayTerminal
    <3>1. ReplayLine(d, x).records = Insert(d.records, l, rec)
      BY <3>0
    <3> QED
      BY <3>1 DEF Insert
  <2> QED
    BY <2>1, <2>2, <2>3, <2>4, <2>5, <2>6 DEF Fits
<1>3. PICK l \in LeaseIds : DOMAIN ReplayLine(d, x).records \subseteq DOMAIN d.records \cup {l}
  BY <1>2
<1>4. IsFiniteSet(DOMAIN d.records \cup {l})
  BY FS_AddElement DEF Solid
<1>5. IsFiniteSet(DOMAIN ReplayLine(d, x).records)
  BY <1>3, <1>4, FS_Subset
<1> QED
  BY <1>5, FitsKeepsSound DEF Solid

(* A journal that has replayed itself lags behind nothing. *)
LEMMA LagReflexive == \A s : Lag(s, s)
  BY DEF Lag

(* The beginning of a journal, and the beginning of a longer one. *)
LEMMA PrefixOfAppend ==
  ASSUME NEW lines \in Seq(JournalLine), NEW x \in JournalLine
  PROVE  /\ \A n \in 0..Len(lines) : SubSeq(Append(lines, x), 1, n) = SubSeq(lines, 1, n)
         /\ SubSeq(Append(lines, x), 1, Len(lines) + 1) = Append(lines, x)
  OBVIOUS

(* The beginning of a journal, and its own beginnings. *)
LEMMA PrefixOfPrefix ==
  ASSUME NEW lines \in Seq(JournalLine), NEW k \in 0..Len(lines)
  PROVE  /\ SubSeq(lines, 1, k) \in Seq(JournalLine) /\ Len(SubSeq(lines, 1, k)) = k
         /\ \A n \in 1..k : SubSeq(lines, 1, k)[n] = lines[n]
         /\ \A n \in 0..k : SubSeq(SubSeq(lines, 1, k), 1, n) = SubSeq(lines, 1, n)
  OBVIOUS

(* A journal stays sound when its end is cut off. *)
LEMMA TruncatedSound ==
  ASSUME NEW lines \in Seq(JournalLine), NEW k \in 0..Len(lines), PrefixSound(lines)
  PROVE  PrefixSound(SubSeq(lines, 1, k))
<1>1. Len(lines) \in Nat /\ 0..k \subseteq 0..Len(lines)
  OBVIOUS
<1> QED
  BY <1>1, PrefixOfPrefix DEF PrefixSound

(* It stays sound when a damaged line, or one that gives a sound ledger, is   *)
(* added to it.                                                               *)
LEMMA ExtendedSound ==
  ASSUME NEW lines \in Seq(JournalLine), NEW x \in JournalLine, PrefixSound(lines),
         GarbageFree(lines) /\ x # Garbage => Solid(ReplayLine(Replay(lines), x))
  PROVE  PrefixSound(Append(lines, x))
<1> DEFINE m == Len(lines)
<1>1. m \in Nat /\ Len(Append(lines, x)) = m + 1 /\ Append(lines, x)[m + 1] = x
      /\ \A n \in 1..m : Append(lines, x)[n] = lines[n]
  BY AppendProperties, LenProperties
<1>2. ASSUME NEW n \in 0..(m + 1), GarbageFree(SubSeq(Append(lines, x), 1, n))
      PROVE  Solid(Replay(SubSeq(Append(lines, x), 1, n)))
  <2>1. CASE n \in 0..m
    BY <1>2, <2>1, PrefixOfAppend DEF PrefixSound
  <2>2. CASE n = m + 1
    <3>1. GarbageFree(Append(lines, x))
      BY <1>2, <2>2, PrefixOfAppend
    <3>2. GarbageFree(lines) /\ x # Garbage
      BY <1>1, <3>1 DEF GarbageFree
    <3>3. Solid(Replay(Append(lines, x)))
      BY <3>2, ReplayGrows
    <3> QED
      BY <2>2, <3>3, PrefixOfAppend
  <2> QED
    BY <1>1, <1>2, <2>1, <2>2
<1> HIDE DEF m
<1> QED
  BY <1>1, <1>2 DEF PrefixSound

(* An undamaged journal replays to a sound ledger. *)
LEMMA WholeJournalSound ==
  ASSUME NEW lines \in Seq(JournalLine), PrefixSound(lines), GarbageFree(lines)
  PROVE  Solid(Replay(lines))
<1>1. Len(lines) \in 0..Len(lines) /\ SubSeq(lines, 1, Len(lines)) = lines
  OBVIOUS
<1> QED
  BY <1>1 DEF PrefixSound

(* What open makes of the journal, when it does not refuse it: an undamaged   *)
(* journal that replays to the ledger it had.                                 *)
LEMMA DroppedTail ==
  ASSUME NEW lines \in Seq(JournalLine), ~Corrupt(lines)
  PROVE  /\ DropTornTail(lines) \in Seq(JournalLine)
         /\ GarbageFree(DropTornTail(lines))
         /\ Replay(DropTornTail(lines)) = Replay(lines)
         /\ PrefixSound(lines) => PrefixSound(DropTornTail(lines))
         /\ DropTornTail(lines) = lines => GarbageFree(lines)
         /\ GarbageFree(lines) => DropTornTail(lines) = lines
<1> DEFINE m == Len(lines)
<1>1. m \in Nat /\ (lines # << >> => m # 0) /\ \A n \in 1..(m - 1) : lines[n] # Garbage
  BY DEF Corrupt
<1>2. CASE lines # << >> /\ lines[m] = Garbage
  <2> DEFINE short == SubSeq(lines, 1, m - 1)
  <2>1. DropTornTail(lines) = short
    BY <1>2 DEF DropTornTail
  <2>2. m - 1 \in 0..m
    BY <1>1, <1>2
  <2>3. /\ short \in Seq(JournalLine) /\ Len(short) = m - 1
        /\ \A n \in 1..(m - 1) : short[n] = lines[n]
    BY <2>2, PrefixOfPrefix
  <2>4. Garbage \in JournalLine
    BY DEF JournalLine
  <2>5. lines = Append(short, Garbage)
    <3>1. /\ Append(short, Garbage) \in Seq(JournalLine) /\ Len(Append(short, Garbage)) = m
          /\ Append(short, Garbage)[m] = Garbage
          /\ \A n \in 1..(m - 1) : Append(short, Garbage)[n] = short[n]
      <4> HIDE DEF short
      <4>1. Len(short) + 1 = m
        BY <1>1, <2>3
      <4> QED
        BY <2>3, <2>4, <4>1, AppendProperties
    <3>2. \A n \in 1..m : Append(short, Garbage)[n] = lines[n]
      <4> HIDE DEF short
      <4> SUFFICES ASSUME NEW n \in 1..m PROVE Append(short, Garbage)[n] = lines[n]
        OBVIOUS
      <4>1. n \in 1..(m - 1) \/ n = m
        BY <1>1
      <4> QED
        BY <1>2, <2>3, <3>1, <4>1
    <3> HIDE DEF short
    <3> QED
      BY <3>1, <3>2, SeqEqual
  <2> HIDE DEF short
  <2>6. Replay(lines) = Replay(short)
    BY <2>3, <2>4, <2>5, ReplayGrows, ReplayGarbage
  <2>7. GarbageFree(short)
    BY <1>1, <2>3 DEF GarbageFree
  <2>8. PrefixSound(lines) => PrefixSound(short)
    BY <2>2, TruncatedSound DEF short
  <2>9. short # lines
    BY <1>1, <2>3
  <2>10. ~GarbageFree(lines)
    BY <1>1, <1>2 DEF GarbageFree
  <2> QED
    BY <2>1, <2>3, <2>6, <2>7, <2>8, <2>9, <2>10
<1>3. CASE ~(lines # << >> /\ lines[m] = Garbage)
  <2>1. DropTornTail(lines) = lines
    BY <1>3 DEF DropTornTail
  <2>2. GarbageFree(lines)
    <3> SUFFICES ASSUME NEW n \in 1..m PROVE lines[n] # Garbage
      BY DEF GarbageFree
    <3>1. n \in 1..(m - 1) \/ n = m
      BY <1>1
    <3>2. lines # << >>
      BY <1>1
    <3> QED
      BY <1>1, <1>3, <3>1, <3>2
  <2> QED
    BY <2>1, <2>2
<1> QED
  BY <1>2, <1>3

--------------------------------------------------------------------------------
(* The inductive invariant, whatever faults happen *)

(* The lines on the disk and in flight; a line without terminator is a line. *)
JournalTyped ==
  /\ journal \in Seq(JournalLine) /\ inflight \in Seq(JournalLine)
  /\ ended \in BOOLEAN /\ up \in BOOLEAN
  /\ ~ended => journal # << >>

(* A journal that nothing has damaged lags behind the index at most. *)
IdleLag == up /\ inflight = << >> /\ GarbageFree(journal) => Lag(Durable, Ledger)

(* One line is left to write, and with it the journal has caught up. *)
LastLine ==
  /\ Len(inflight) = 1 /\ inflight[1] # Garbage
  /\ GarbageFree(journal) =>
       Solid(ReplayLine(Durable, inflight[1])) /\ Lag(ReplayLine(Durable, inflight[1]), Ledger)

(* Claims are left to write, and with them the fallback has caught up. *)
ClaimLines ==
  OnlyClaims(fallback, inflight) /\ Ledger = WithClaims(fallback, ClaimedBy(inflight))

(* An operation that fails half-way leaves a sound index too. *)
BusyLag ==
  inflight # << >> =>
    /\ Solid(fallback)
    /\ GarbageFree(journal) => Lag(Durable, fallback)
    /\ LastLine \/ ClaimLines

(* Index and journal are sound, and the journal lags behind the index at most. *)
FileInv ==
  /\ JournalTyped
  /\ Solid(Ledger)
  /\ PrefixSound(journal)
  /\ ~up => inflight = << >>
  /\ IdleLag
  /\ BusyLag

(* The index invariant of the lease ledger is part of it. *)
LEMMA FileInvLedger == FileInv => LedgerInv /\ IsFiniteSet(DOMAIN records)
  BY LedgerIsSound, LedgerShape DEF FileInv, Solid

(* Setting every table to that of a ledger makes it the index. *)
LEMMA IndexIs ==
  ASSUME NEW s, IsLedger(s), Index(s)
  PROVE  Ledger' = s
  BY DEF IsLedger, Index, Ledger

(* What an append makes of a sound journal. *)
LEMMA WrittenSound ==
  ASSUME JournalTyped, PrefixSound(journal), NEW x \in JournalLine,
         ended /\ GarbageFree(journal) /\ x # Garbage => Solid(ReplayLine(Durable, x))
  PROVE  /\ Written(x) \in Seq(JournalLine) /\ Written(x) # << >>
         /\ PrefixSound(Written(x))
         /\ GarbageFree(Written(x)) =>
              ended /\ GarbageFree(journal) /\ x # Garbage /\ Replay(Written(x)) = ReplayLine(Durable, x)
<1>0. journal \in Seq(JournalLine) /\ Garbage \in JournalLine
  BY DEF JournalTyped, JournalLine
<1>1. CASE ended
  <2>1. Written(x) = Append(journal, x)
    BY <1>1 DEF Written
  <2>2. /\ Append(journal, x) \in Seq(JournalLine) /\ Append(journal, x) # << >>
        /\ Len(Append(journal, x)) = Len(journal) + 1 /\ Len(journal) \in Nat
        /\ Append(journal, x)[Len(journal) + 1] = x
        /\ \A n \in 1..Len(journal) : Append(journal, x)[n] = journal[n]
    BY <1>0, AppendProperties, LenProperties
  <2>3. PrefixSound(Append(journal, x))
    BY <1>0, <1>1, ExtendedSound DEF Durable
  <2>4. GarbageFree(Append(journal, x)) => GarbageFree(journal) /\ x # Garbage
    BY <2>2 DEF GarbageFree
  <2>5. Replay(Append(journal, x)) = ReplayLine(Durable, x)
    BY <1>0, ReplayGrows DEF Durable
  <2> QED
    BY <1>1, <2>1, <2>2, <2>3, <2>4, <2>5
<1>2. CASE ~ended
  <2> DEFINE k == Len(journal) - 1
             short == SubSeq(journal, 1, k)
  <2>1. Written(x) = Append(short, Garbage)
    BY <1>2 DEF Written
  <2>2. k \in 0..Len(journal)
    BY <1>0, <1>2 DEF JournalTyped
  <2>3. short \in Seq(JournalLine) /\ PrefixSound(short)
    BY <1>0, <2>2, PrefixOfPrefix, TruncatedSound
  <2> HIDE DEF short
  <2>4. /\ Append(short, Garbage) \in Seq(JournalLine) /\ Append(short, Garbage) # << >>
        /\ Len(Append(short, Garbage)) = Len(short) + 1 /\ Len(short) \in Nat
        /\ Append(short, Garbage)[Len(short) + 1] = Garbage
    BY <1>0, <2>3, AppendProperties, LenProperties
  <2>5. PrefixSound(Append(short, Garbage))
    BY <1>0, <2>3, ExtendedSound
  <2>6. ~GarbageFree(Append(short, Garbage))
    BY <2>4 DEF GarbageFree
  <2> QED
    BY <2>1, <2>4, <2>5, <2>6
<1> QED
  BY <1>1, <1>2

(* The first of several claims fits, and the others are claims still. *)
LEMMA FirstClaim ==
  ASSUME NEW s, IsLedger(s), NEW lines \in Seq(JournalLine), lines # << >>, OnlyClaims(s, lines)
  PROVE  LET t == ReplayLine(s, Head(lines)) IN
         /\ Fits(s, Head(lines))
         /\ OnlyClaims(t, Tail(lines))
         /\ WithClaims(s, ClaimedBy(lines)) = WithClaims(t, ClaimedBy(Tail(lines)))
         /\ Tail(lines) = << >> => WithClaims(s, ClaimedBy(lines)) = t
<1> DEFINE t == ReplayLine(s, Head(lines))
           m == Len(lines)
<1>1. /\ m \in Nat \ {0} /\ DOMAIN lines = 1..m /\ Head(lines) = lines[1]
      /\ DOMAIN Tail(lines) = 1..(m - 1) /\ \A n \in 1..(m - 1) : Tail(lines)[n] = lines[n + 1]
  OBVIOUS
<1>2. PICK l \in LeaseIds :
        lines[1] = ClaimLine(l) /\ l \in DOMAIN s.records /\ s.records[l].state = "Pending"
  BY <1>1 DEF OnlyClaims
<1>3. Fits(s, Head(lines))
  BY <1>1, <1>2 DEF Fits
<1>4. t = [ records |-> s.records, reservations |-> s.reservations, accruals |-> s.accruals,
            checkpoints |-> s.checkpoints, claims |-> s.claims \cup {l} ]
  BY <1>1, <1>2, ReplayClaim
<1> HIDE DEF t, m
<1>5. OnlyClaims(t, Tail(lines))
  <2> SUFFICES ASSUME NEW n \in 1..(m - 1)
               PROVE  \E k \in LeaseIds : /\ Tail(lines)[n] = ClaimLine(k)
                                          /\ k \in DOMAIN t.records /\ t.records[k].state = "Pending"
    BY <1>1 DEF OnlyClaims
  <2>1. n + 1 \in DOMAIN lines
    BY <1>1
  <2>2. PICK k \in LeaseIds :
          lines[n + 1] = ClaimLine(k) /\ k \in DOMAIN s.records /\ s.records[k].state = "Pending"
    BY <2>1 DEF OnlyClaims
  <2>3. t.records = s.records
    BY <1>4
  <2> QED
    BY <1>1, <2>2, <2>3
<1>6. ClaimedBy(lines) = {l} \cup ClaimedBy(Tail(lines))
  <2>1. \A a, b : ClaimLine(a) = ClaimLine(b) => a = b
    BY DEF ClaimLine
  <2>2. ASSUME NEW k \in ClaimedBy(lines) PROVE k = l \/ k \in ClaimedBy(Tail(lines))
    <3>1. PICK n \in 1..m : lines[n] = ClaimLine(k)
      BY <1>1 DEF ClaimedBy
    <3>2. CASE n = 1
      BY <1>2, <2>1, <3>1, <3>2
    <3>3. CASE n # 1
      <4>1. n - 1 \in 1..(m - 1) /\ Tail(lines)[n - 1] = lines[n]
        BY <1>1, <3>3
      <4> QED
        BY <1>1, <3>1, <4>1 DEF ClaimedBy
    <3> QED
      BY <3>2, <3>3
  <2>3. ASSUME NEW k \in ClaimedBy(Tail(lines)) PROVE k \in ClaimedBy(lines)
    <3>1. PICK n \in 1..(m - 1) : Tail(lines)[n] = ClaimLine(k)
      BY <1>1 DEF ClaimedBy
    <3>2. n + 1 \in 1..m /\ lines[n + 1] = ClaimLine(k)
      BY <1>1, <3>1
    <3> QED
      BY <1>1, <3>2 DEF ClaimedBy
  <2>4. l \in ClaimedBy(lines)
    BY <1>1, <1>2 DEF ClaimedBy
  <2> QED
    BY <2>2, <2>3, <2>4
<1>7. WithClaims(s, ClaimedBy(lines)) = WithClaims(t, ClaimedBy(Tail(lines)))
  BY <1>4, <1>6 DEF WithClaims
<1>8. Tail(lines) = << >> => WithClaims(s, ClaimedBy(lines)) = t
  <2>1. Tail(lines) = << >> => ClaimedBy(Tail(lines)) = {}
    BY DEF ClaimedBy
  <2> QED
    BY <1>4, <1>6, <2>1 DEF WithClaims
<1> QED
  BY <1>3, <1>5, <1>7, <1>8 DEF t

(* The line being written parses and keeps an undamaged journal sound.        *)
LEMMA NextLineSound ==
  ASSUME FileInv, inflight # << >>
  PROVE  /\ Head(inflight) \in JournalLine /\ Head(inflight) # Garbage
         /\ GarbageFree(journal) => Solid(ReplayLine(Durable, Head(inflight)))
<1>1. inflight \in Seq(JournalLine) /\ Head(inflight) = inflight[1] /\ Head(inflight) \in JournalLine
  BY DEF FileInv, JournalTyped
<1>2. CASE LastLine
  BY <1>1, <1>2 DEF LastLine
<1>3. CASE ClaimLines
  <2>1. Solid(fallback) /\ SoundState(fallback) /\ IsLedger(fallback) /\ OnlyClaims(fallback, inflight)
    BY <1>3 DEF FileInv, BusyLag, ClaimLines, Solid, SoundState
  <2>2. Fits(fallback, Head(inflight))
    BY <1>1, <2>1, FirstClaim
  <2>3. Head(inflight) # Garbage
    BY <2>2, FitsIsLine
  <2>4. GarbageFree(journal) => Solid(Durable) /\ Lag(Durable, fallback)
    BY WholeJournalSound DEF FileInv, JournalTyped, BusyLag, Durable
  <2> QED
    BY <1>1, <2>1, <2>2, <2>3, <2>4, FitsKeepsSolid
<1> QED
  BY <1>2, <1>3 DEF FileInv, BusyLag

(* An operation that has one line to write. *)
LEMMA StartsOneLine ==
  ASSUME FileInv, Idle, NEW x, OneLine(x), UNCHANGED <<journal, ended, up>>,
         \/ fallback' = Ledger
         \/ fallback' = Ledger' /\ (GarbageFree(journal) => Lag(Durable, Ledger'))
  PROVE  FileInv'
<1>1. Fits(Ledger, x) /\ inflight' = <<x>> /\ Ledger' = ReplayLine(Ledger, x)
  BY DEF OneLine
<1>2. x \in JournalLine /\ x # Garbage
  BY <1>1, FitsIsLine
<1>3. Solid(Ledger) /\ SoundState(Ledger)
  BY DEF FileInv, Solid
<1>4. Solid(Ledger')
  BY <1>1, <1>3, FitsKeepsSolid, LagReflexive
<1>5. GarbageFree(journal) => Solid(Durable) /\ Lag(Durable, Ledger)
  BY WholeJournalSound DEF FileInv, JournalTyped, IdleLag, Idle, Durable
<1>6. GarbageFree(journal) => Solid(ReplayLine(Durable, x)) /\ Lag(ReplayLine(Durable, x), Ledger')
  BY <1>1, <1>3, <1>5, FitsKeepsSolid
<1>7. Durable' = Durable /\ journal' = journal /\ up' /\ up
  BY DEF Durable, Idle
<1>8. <<x>> # << >> /\ Len(<<x>>) = 1 /\ <<x>>[1] = x /\ <<x>> \in Seq(JournalLine)
  BY <1>2
<1>9. LastLine'
  BY <1>1, <1>2, <1>6, <1>7, <1>8 DEF LastLine
<1>10. Solid(fallback') /\ (GarbageFree(journal) => Lag(Durable, fallback'))
  BY <1>3, <1>4, <1>5
<1>11. BusyLag' /\ IdleLag'
  BY <1>1, <1>7, <1>8, <1>9, <1>10 DEF BusyLag, IdleLag
<1>12. JournalTyped'
  BY <1>1, <1>8 DEF JournalTyped, FileInv
<1> QED
  BY <1>4, <1>7, <1>11, <1>12 DEF FileInv

(* A move keeps the journal from before it within the lag. *)
LEMMA MoveLags ==
  ASSUME LedgerInv, NEW l \in LeaseIds, Move(l), NEW d, Lag(d, Ledger)
  PROVE  Lag(d, Ledger')
<1>1. PICK to \in LeaseState, now \in Times : Transition(l, to, now)
  BY DEF Move
<1>2. /\ l \in DOMAIN records /\ TransitionIsLegal(records[l].state, to)
      /\ checkpoints' = checkpoints /\ claims' = claims
      /\ records' = [records EXCEPT ![l] = ApplyTransition(records[l], to, now)]
      /\ AccrueOnTerminal(l, to, now)
  BY <1>1 DEF Transition, CanTransition
<1>3. records[l] \in LeaseRecord
  BY <1>2 DEF LedgerInv, TypeOK, IsMap
<1>4. /\ DOMAIN records' = DOMAIN records /\ records'[l].state = to /\ to # "Pending"
      /\ \A k \in DOMAIN records \ {l} : records'[k] = records[k]
  BY <1>2, <1>3, ApplyTransitionType DEF TransitionIsLegal, Terminal
<1>5. DOMAIN reservations' = DOMAIN reservations
  BY <1>2 DEF AccrueOnTerminal
<1>6. /\ Ledger'.records = records' /\ Ledger'.reservations = reservations'
      /\ Ledger'.checkpoints = checkpoints' /\ Ledger'.claims = claims'
  BY DEF Ledger
<1> QED
  BY <1>2, <1>4, <1>5, <1>6, LedgerShape DEF Lag

(* An operation that has nothing to write. *)
LEMMA WritesNothing ==
  ASSUME FileInv, Idle, inflight' = << >>, UNCHANGED <<ledgerVars, journal, ended, up>>
  PROVE  FileInv'
<1>1. Ledger' = Ledger /\ Durable' = Durable /\ inflight = << >> /\ inflight' = inflight
  BY DEF Ledger, Durable, ledgerVars, Idle
<1>2. JournalTyped' /\ IdleLag' /\ BusyLag'
  BY <1>1 DEF FileInv, JournalTyped, IdleLag, BusyLag
<1> QED
  BY <1>1, <1>2 DEF FileInv

(* Claims of Pending rows keep a ledger sound. *)
LEMMA ClaimsKeepSolid ==
  ASSUME NEW s, Solid(s), NEW lines, OnlyClaims(s, lines)
  PROVE  Solid(WithClaims(s, ClaimedBy(lines)))
<1>1. \A l \in ClaimedBy(lines) : l \in DOMAIN s.records /\ s.records[l].state = "Pending"
  <2>1. \A l, k : ClaimLine(l) = ClaimLine(k) => l = k
    BY DEF ClaimLine
  <2> QED
    BY <2>1 DEF ClaimedBy, OnlyClaims
<1>2. PICK t : t = WithClaims(s, ClaimedBy(lines))
  OBVIOUS
<1>3. /\ t.records = s.records /\ t.reservations = s.reservations /\ t.accruals = s.accruals
      /\ t.checkpoints = s.checkpoints /\ t.claims = s.claims \cup ClaimedBy(lines) /\ IsLedger(t)
  BY <1>2 DEF WithClaims, IsLedger
<1>4. SoundState(t)
  BY <1>1, <1>3 DEF Solid, SoundState
<1> QED
  BY <1>2, <1>3, <1>4 DEF Solid

(* An operation that has claims to write. *)
LEMMA StartsClaims ==
  ASSUME FileInv, Idle, FileClaimStale \/ \E l \in LeaseIds : FileClaim(l)
  PROVE  FileInv'
<1>0. LedgerInv /\ IsFiniteSet(DOMAIN records)
  BY FileInvLedger
<1>1. UNCHANGED <<journal, ended, up>>
  BY <1>0, ClaimJournals
<1>2. CASE inflight' = << >> /\ fallback' = Settled /\ UNCHANGED ledgerVars
  BY <1>1, <1>2, WritesNothing
<1>3. CASE /\ inflight' \in Seq(JournalLine) /\ inflight' # << >>
           /\ fallback' = Ledger
           /\ OnlyClaims(Ledger, inflight')
           /\ Ledger' = WithClaims(Ledger, ClaimedBy(inflight'))
  <2>1. Durable' = Durable /\ journal' = journal /\ up' /\ up
    BY <1>1 DEF Durable, Idle
  <2>2. Solid(Ledger) /\ (GarbageFree(journal) => Lag(Durable, Ledger))
    BY DEF FileInv, IdleLag, Idle
  <2>3. ClaimLines'
    BY <1>3 DEF ClaimLines
  <2>4. BusyLag' /\ IdleLag'
    BY <1>3, <2>1, <2>2, <2>3 DEF BusyLag, IdleLag
  <2>6. Solid(Ledger')
    BY <1>3, <2>2, ClaimsKeepSolid
  <2>7. JournalTyped'
    BY <1>1, <1>3 DEF JournalTyped, FileInv
  <2> QED
    BY <2>1, <2>4, <2>6, <2>7 DEF FileInv
<1> QED
  BY <1>0, <1>2, <1>3, ClaimJournals

(* append_line keeps the invariant: the journal catches up by one line. *)
LEMMA AppendLineInv ==
  ASSUME FileInv, AppendLine PROVE FileInv'
<1> DEFINE x == Head(inflight)
           t == ReplayLine(fallback, x)
<1>0. /\ up /\ inflight # << >> /\ journal' = Written(x) /\ ended' = TRUE /\ up' = up
      /\ inflight' = Tail(inflight)
      /\ fallback' = IF Tail(inflight) = << >> THEN Settled ELSE t
  BY DEF AppendLine
<1>1. /\ JournalTyped /\ PrefixSound(journal) /\ inflight \in Seq(JournalLine)
      /\ x = inflight[1] /\ Tail(inflight) \in Seq(JournalLine) /\ Len(Tail(inflight)) = Len(inflight) - 1
  BY <1>0 DEF FileInv, JournalTyped
<1>2. x \in JournalLine /\ x # Garbage /\ (GarbageFree(journal) => Solid(ReplayLine(Durable, x)))
  BY <1>0, NextLineSound
<1> HIDE DEF x
<1>3. /\ Written(x) \in Seq(JournalLine) /\ Written(x) # << >> /\ PrefixSound(Written(x))
      /\ GarbageFree(Written(x)) => GarbageFree(journal) /\ Replay(Written(x)) = ReplayLine(Durable, x)
  BY <1>1, <1>2, WrittenSound
<1>4. /\ JournalTyped' /\ PrefixSound(journal')
      /\ GarbageFree(journal') => GarbageFree(journal) /\ Durable' = ReplayLine(Durable, x)
  BY <1>0, <1>1, <1>3 DEF JournalTyped, Durable
<1>5. Ledger' = Ledger /\ Solid(Ledger) /\ Solid(fallback) /\ IsLedger(fallback)
  BY <1>0 DEF AppendLine, ledgerVars, Ledger, FileInv, BusyLag, Solid, SoundState
<1>6. GarbageFree(journal) => Solid(Durable) /\ Lag(Durable, fallback)
  <2>1. journal \in Seq(JournalLine)
    BY <1>1 DEF JournalTyped
  <2> QED
    BY <1>0, <1>1, <2>1, WholeJournalSound DEF FileInv, BusyLag, Durable
<1>7. IdleLag' /\ BusyLag'
  <2>1. CASE LastLine
    <3>1. Tail(inflight) = << >>
      <4>1. Len(inflight) = 1
        BY <2>1 DEF LastLine
      <4>2. Len(Tail(inflight)) = 0
        BY <1>1, <4>1
      <4> QED
        BY <1>1, <4>2, EmptySeq
    <3>2. GarbageFree(journal) => Lag(ReplayLine(Durable, x), Ledger)
      BY <1>1, <2>1 DEF LastLine
    <3> QED
      BY <1>0, <1>4, <1>5, <3>1, <3>2 DEF IdleLag, BusyLag
  <2>2. CASE ClaimLines
    <3>1. OnlyClaims(fallback, inflight) /\ Ledger = WithClaims(fallback, ClaimedBy(inflight))
      BY <2>2 DEF ClaimLines
    <3>2. /\ Fits(fallback, x)
          /\ OnlyClaims(t, Tail(inflight))
          /\ WithClaims(fallback, ClaimedBy(inflight)) = WithClaims(t, ClaimedBy(Tail(inflight)))
          /\ Tail(inflight) = << >> => WithClaims(fallback, ClaimedBy(inflight)) = t
      BY <1>0, <1>1, <1>5, <3>1, FirstClaim DEF x
    <3>3. SoundState(fallback)
      BY <1>5 DEF Solid
    <3>4. Solid(t)
      BY <1>5, <3>2, <3>3, FitsKeepsSolid, LagReflexive
    <3>5. GarbageFree(journal) => Lag(ReplayLine(Durable, x), t)
      BY <1>6, <3>2, <3>3, FitsKeepsSolid
    <3> HIDE DEF t
    <3>6. CASE Tail(inflight) = << >>
      BY <1>0, <1>4, <1>5, <3>1, <3>2, <3>5, <3>6 DEF IdleLag, BusyLag
    <3>7. CASE Tail(inflight) # << >>
      <4>1. ClaimLines'
        BY <1>0, <1>5, <3>1, <3>2, <3>7 DEF ClaimLines
      <4> QED
        BY <1>0, <1>4, <3>4, <3>5, <3>7, <4>1 DEF IdleLag, BusyLag
    <3> QED
      BY <3>6, <3>7
  <2> QED
    BY <1>0, <2>1, <2>2 DEF FileInv, BusyLag
<1> QED
  BY <1>0, <1>4, <1>5, <1>7 DEF FileInv

(* A failed append leaves the index of the fallback. *)
LEMMA AppendFailsInv ==
  ASSUME FileInv, AppendFails PROVE FileInv'
<1>0. up /\ inflight # << >> /\ inflight' = << >> /\ up' = up /\ Index(fallback)
  BY DEF AppendFails
<1>1. /\ JournalTyped /\ PrefixSound(journal) /\ Solid(fallback) /\ IsLedger(fallback)
      /\ GarbageFree(journal) => Lag(Durable, fallback)
  BY <1>0 DEF FileInv, BusyLag, Solid, SoundState
<1>2. Ledger' = fallback
  BY <1>0, <1>1, IndexIs
<1>3. << >> \in Seq(JournalLine) /\ Garbage \in JournalLine
  BY DEF JournalLine
<1>4. BusyLag'
  BY <1>0 DEF BusyLag
<1>5. CASE UNCHANGED <<journal, ended>>
  BY <1>0, <1>1, <1>2, <1>3, <1>4, <1>5 DEF FileInv, JournalTyped, IdleLag, Durable
<1>6. CASE journal' = Written(Garbage) /\ ended' = FALSE
  <2>1. /\ journal' \in Seq(JournalLine) /\ journal' # << >> /\ PrefixSound(journal')
        /\ ~GarbageFree(journal')
    BY <1>1, <1>3, <1>6, WrittenSound
  <2> QED
    BY <1>0, <1>1, <1>2, <1>3, <1>4, <1>6, <2>1 DEF FileInv, JournalTyped, IdleLag
<1> QED
  BY <1>5, <1>6 DEF AppendFails

(* A crash leaves nothing in memory and a journal that is sound up to where   *)
(* it is damaged.                                                             *)
LEMMA CrashInv ==
  ASSUME FileInv, Crash PROVE FileInv'
<1>0. inflight' = << >> /\ up' = FALSE /\ Index(EmptyLedger)
  BY DEF Crash
<1>1. JournalTyped /\ PrefixSound(journal)
  BY DEF FileInv
<1>2. Solid(EmptyLedger) /\ Ledger' = EmptyLedger
  BY <1>0, EmptyLedgerSolid, IndexIs DEF Solid, SoundState
<1>3. << >> \in Seq(JournalLine) /\ Garbage \in JournalLine
  BY DEF JournalLine
<1>4. BusyLag' /\ IdleLag'
  BY <1>0 DEF BusyLag, IdleLag
<1>5. CASE UNCHANGED <<journal, ended>>
  BY <1>0, <1>1, <1>2, <1>3, <1>4, <1>5 DEF FileInv, JournalTyped
<1>6. CASE journal' = Written(Garbage) /\ ended' = FALSE
  <2>1. journal' \in Seq(JournalLine) /\ journal' # << >> /\ PrefixSound(journal')
    BY <1>1, <1>3, <1>6, WrittenSound
  <2> QED
    BY <1>0, <1>1, <1>2, <1>3, <1>4, <1>6, <2>1 DEF FileInv, JournalTyped
<1>7. CASE inflight # << >> /\ journal' = Written(Head(inflight)) /\ ended' = FALSE
  <2>1. PICK x : x = Head(inflight)
    OBVIOUS
  <2>2. x \in JournalLine /\ (GarbageFree(journal) => Solid(ReplayLine(Durable, x)))
    BY <1>7, <2>1, NextLineSound
  <2>3. journal' \in Seq(JournalLine) /\ journal' # << >> /\ PrefixSound(journal')
    BY <1>1, <1>7, <2>1, <2>2, WrittenSound
  <2> QED
    BY <1>0, <1>1, <1>2, <1>3, <1>4, <1>7, <2>3 DEF FileInv, JournalTyped
<1> QED
  BY <1>5, <1>6, <1>7 DEF Crash

(* A journal that opens gives a sound index. *)
LEMMA OpenInv ==
  ASSUME FileInv, Open PROVE FileInv'
<1>0. /\ ~up /\ ~Corrupt(journal) /\ Index(Replay(journal)) /\ journal' = DropTornTail(journal)
      /\ ended' = (ended \/ journal' # journal) /\ up' = TRUE /\ inflight' = inflight
  BY DEF Open
<1>1. /\ JournalTyped /\ PrefixSound(journal) /\ inflight = << >> /\ journal \in Seq(JournalLine)
  BY <1>0 DEF FileInv, JournalTyped
<1>2. /\ journal' \in Seq(JournalLine) /\ GarbageFree(journal')
      /\ Replay(journal') = Replay(journal) /\ PrefixSound(journal')
  BY <1>0, <1>1, DroppedTail
<1>3. Solid(Durable') /\ IsLedger(Durable') /\ Index(Durable')
  BY <1>0, <1>2, WholeJournalSound DEF Durable, Solid, SoundState
<1>4. Ledger' = Durable'
  BY <1>0, <1>2, <1>3, IndexIs DEF Durable
<1>5. BusyLag' /\ IdleLag'
  BY <1>0, <1>1, <1>4, LagReflexive DEF BusyLag, IdleLag
<1>6. JournalTyped'
  BY <1>0, <1>1, <1>2 DEF JournalTyped
<1> QED
  BY <1>0, <1>1, <1>2, <1>3, <1>4, <1>5, <1>6 DEF FileInv

(* Every step keeps the invariant. *)
LEMMA FileInvStep == FileInv /\ [FileNext]_fileVars => FileInv'
<1> SUFFICES ASSUME FileInv, [FileNext]_fileVars PROVE FileInv'
  OBVIOUS
<1>0. LedgerInv /\ IsFiniteSet(DOMAIN records)
  BY FileInvLedger
<1>1. ASSUME NEW l \in LeaseIds, FileAdmit(l) PROVE FileInv'
  BY <1>0, <1>1, AdmitJournals, StartsOneLine DEF FileAdmit
<1>2. ASSUME NEW l \in LeaseIds, FileTransition(l) PROVE FileInv'
  <2>1. Idle /\ Move(l)
    BY <1>2 DEF FileTransition
  <2>2. GarbageFree(journal) => Lag(Durable, Ledger')
    BY <1>0, <2>1, MoveLags DEF FileInv, IdleLag, Idle
  <2> QED
    BY <1>0, <1>2, <2>1, <2>2, TransitionJournals, StartsOneLine
<1>3. ASSUME NEW l \in LeaseIds, FileBind(l) PROVE FileInv'
  <2>1. Idle
    BY <1>3 DEF FileBind
  <2>2. CASE inflight' = << >> /\ UNCHANGED <<ledgerVars, journal, ended, up>>
    BY <2>1, <2>2, WritesNothing
  <2>3. CASE \E x : OneLine(x) /\ fallback' = Ledger /\ UNCHANGED <<journal, ended, up>>
    BY <2>1, <2>3, StartsOneLine
  <2> QED
    BY <1>0, <1>3, <2>2, <2>3, BindJournals
<1>4. ASSUME NEW l \in LeaseIds, FileCheckpoint(l) PROVE FileInv'
  BY <1>0, <1>4, CheckpointJournals, StartsOneLine DEF FileCheckpoint
<1>5. ASSUME NEW l \in LeaseIds, FileFinish(l) \/ FileRemove(l) PROVE FileInv'
  BY <1>0, <1>5, EraseJournals, StartsOneLine DEF FileFinish, FileRemove
<1>6. ASSUME FileClaimStale \/ \E l \in LeaseIds : FileClaim(l) PROVE FileInv'
  <2>1. Idle
    BY <1>6 DEF FileClaimStale, FileClaim
  <2> QED
    BY <1>6, <2>1, StartsClaims
<1>7. CASE UNCHANGED fileVars
  <2>1. Ledger' = Ledger /\ Durable' = Durable
    BY <1>7 DEF fileVars, ledgerVars, Ledger, Durable
  <2>2. JournalTyped' /\ IdleLag'
    BY <1>7, <2>1 DEF fileVars, FileInv, JournalTyped, IdleLag
  <2>3. BusyLag'
    BY <1>7, <2>1 DEF fileVars, FileInv, BusyLag, LastLine, ClaimLines
  <2> QED
    BY <1>7, <2>1, <2>2, <2>3 DEF fileVars, FileInv
<1> QED
  BY <1>1, <1>2, <1>3, <1>4, <1>5, <1>6, <1>7, AppendLineInv, AppendFailsInv, CrashInv, OpenInv
  DEF FileNext

(* The empty journal. *)
LEMMA FileInvInit == FileInit => FileInv
<1> SUFFICES ASSUME FileInit PROVE FileInv
  OBVIOUS
<1>1. Ledger = EmptyLedger
  BY DEF FileInit, LedgerInit, Ledger, EmptyLedger
<1>2. journal = << >> /\ inflight = << >> /\ ended = TRUE /\ up = TRUE
  BY DEF FileInit
<1>3. Durable = EmptyLedger
  BY <1>2, ReplayGrows DEF Durable
<1>4. JournalTyped
  BY <1>2 DEF JournalTyped
<1>5. PrefixSound(journal)
  <2>1. \A n \in 0..Len(journal) : SubSeq(journal, 1, n) = << >>
    BY <1>2
  <2> QED
    BY <2>1, ReplayGrows, EmptyLedgerSolid DEF PrefixSound
<1>6. IdleLag /\ BusyLag
  BY <1>1, <1>2, <1>3, LagReflexive DEF IdleLag, BusyLag
<1> QED
  BY <1>1, <1>2, <1>4, <1>5, <1>6, EmptyLedgerSolid DEF FileInv

(* The invariant holds in every run, whatever faults are injected. *)
THEOREM JournalInvariance == FileSpec => []FileInv
  BY FileInvInit, FileInvStep, PTL DEF FileSpec

(* Whatever crashes, torn lines and failed appends do to the journal, a       *)
(* ledger that opens is sound in itself.                                      *)
THEOREM SoundAfterDamage == FileSpec => []SoundHoweverDamaged
<1>1. FileInv => SoundHoweverDamaged
  BY FileInvLedger DEF LedgerInv, SoundHoweverDamaged
<1> QED
  BY <1>1, JournalInvariance, PTL

--------------------------------------------------------------------------------
(* A journal without faults: what an operation writes is a ledger operation   *)
(* on the state that the disk holds                                           *)

(* The leases and the reservations that an admission into s is tested on. *)
ActiveIn(s, t) == {l \in DOMAIN s.records : s.records[l].tenant = t /\ IsActive(s.records[l])}

(* What those leases have reserved in a period. *)
ReservedIn(s, t, period) ==
  SumFunctionOnSet([l \in DOMAIN s.reservations |-> s.reservations[l].reserved_vcpu_ms],
    {l \in ActiveIn(s, t) \cap DOMAIN s.reservations : s.reservations[l].accrual_period_key = period})

(* The ceiling and the cap of try_admit_with_compute, for a ledger as a value. *)
AdmittedTo(s, t, gate) ==
  /\ ~(/\ gate.ceiling_vcpu_ms > 0
       /\ s.accruals[<<t, gate.period_key>>] + ReservedIn(s, t, gate.period_key)
            + gate.new_reserved_vcpu_ms > gate.ceiling_vcpu_ms)
  /\ ~(Cardinality(ActiveIn(s, t)) >= MaxConcurrency[t])

(* try_admit and try_admit_with_compute write the new record. *)
AppendsAdmit(s, l, x) ==
  \E t \in Tenants, now \in Times : \E gate \in Gates(t, now) :
    /\ l \notin DOMAIN s.records /\ AdmittedTo(s, t, gate)
    /\ x = IF gate.ceiling_vcpu_ms = 0 THEN RecordLine(l, PendingRecord(t, now))
           ELSE AdmitCommitLine(l, PendingRecord(t, now), Reservation(gate))

(* The guard of transition. *)
MayMove(s, l, to) ==
  l \notin s.claims /\ l \in DOMAIN s.records /\ TransitionIsLegal(s.records[l].state, to)

(* A lease that ends with its reservation not yet charged. *)
Owes(s, l, to) == to \in Terminal /\ l \in DOMAIN s.reservations /\ ~s.reservations[l].accrued

(* What its period is charged then. *)
ChargeOf(s, l, now) ==
  Charge(s.accruals[<<s.records[l].tenant, s.reservations[l].accrual_period_key>>],
         Actual(s.records[l], s.reservations[l], now))

(* transition writes the record, with the charge when there is one. *)
AppendsMove(s, l, x) ==
  \E to \in LeaseState, now \in Times :
    /\ MayMove(s, l, to)
    /\ x = IF Owes(s, l, to)
           THEN TerminalLine(l, ApplyTransition(s.records[l], to, now), ChargeOf(s, l, now),
                             Latch(s.reservations[l]))
           ELSE RecordLine(l, ApplyTransition(s.records[l], to, now))

(* bind_provider_ref writes the record when the reference is new. *)
AppendsBind(s, l, x) ==
  \E r \in ProviderRefs :
    /\ l \notin s.claims /\ l \in DOMAIN s.records /\ s.records[l].state = "Pending"
    /\ s.records[l].box_ref \in {DefaultBoxRef, r} /\ s.records[l].box_ref # r
    /\ x = RecordLine(l, [s.records[l] EXCEPT !.box_ref = r])

(* set_envelope_checkpoint. *)
AppendsCheckpoint(s, l, x) ==
  \E c \in Checkpoints : l \in DOMAIN s.records /\ x = CheckpointLine(l, c)

(* finish_pending_cleanup, remove and remove_if_pending. *)
AppendsTombstone(s, l, x) ==
  /\ l \in DOMAIN s.records
  /\ \/ l \in s.claims /\ s.records[l].state = "Pending"
     \/ l \notin s.claims /\ ~(s.records[l].state = "Held" /\ l \in DOMAIN s.reservations)
  /\ x = TombstoneLine(l)

(* claim_pending_cleanup and claim_stale_pending_cleanup, row by row. *)
AppendsClaim(s, l, x) ==
  l \in DOMAIN s.records /\ s.records[l].state = "Pending" /\ x = ClaimLine(l)

(* The line x is what some ledger operation makes of s. *)
CanAppend(s, x) ==
  \E l \in LeaseIds :
    \/ AppendsAdmit(s, l, x) \/ AppendsMove(s, l, x) \/ AppendsBind(s, l, x)
    \/ AppendsCheckpoint(s, l, x) \/ AppendsTombstone(s, l, x) \/ AppendsClaim(s, l, x)

(* The decision on the index. *)
LEMMA DecisionOfIndex ==
  ASSUME NEW t, NEW gate, AdmitDecision(t, gate) = "Admitted"
  PROVE  AdmittedTo(Ledger, t, gate)
<1>1. ActiveIn(Ledger, t) = Active(t)
  BY LedgerShape DEF ActiveIn, Active
<1>2. ReservedIn(Ledger, t, gate.period_key) = Sigma(t, gate.period_key)
  BY <1>1, LedgerShape DEF ReservedIn, Sigma, Booked
<1> QED
  BY <1>1, <1>2, LedgerShape DEF AdmitDecision, AdmittedTo, OverCeiling, AtCap

(* Each operation appends a line of its own kind: try_admit. *)
LEMMA AdmitAppends ==
  ASSUME NEW l \in LeaseIds, LedgerInv, FileAdmit(l)
  PROVE  CanAppend(Ledger, inflight'[1])
<1>1. PICK t \in Tenants, now \in Times : \E gate \in Gates(t, now) :
         TryAdmitWithCompute(l, t, gate, now)
  BY DEF FileAdmit, Admit
<1>2. PICK gate \in Gates(t, now) : TryAdmitWithCompute(l, t, gate, now)
  BY <1>1
<1>3. l \notin DOMAIN records /\ AdmittedTo(Ledger, t, gate)
  BY <1>2, DecisionOfIndex DEF TryAdmitWithCompute
<1>4. l \notin DOMAIN reservations
  BY <1>3 DEF LedgerInv, NoOrphans
<1>5. records'[l] = PendingRecord(t, now)
  BY <1>2 DEF TryAdmitWithCompute, Insert
<1>6. CASE gate.ceiling_vcpu_ms = 0
  <2>1. l \notin DOMAIN reservations'
    BY <1>2, <1>4, <1>6 DEF TryAdmitWithCompute
  <2>2. inflight' = <<RecordLine(l, PendingRecord(t, now))>>
    BY <1>5, <2>1 DEF FileAdmit, Writes, Journals
  <2> QED
    BY <1>3, <1>6, <2>2, LedgerShape DEF CanAppend, AppendsAdmit
<1>7. CASE gate.ceiling_vcpu_ms # 0
  <2>1. l \in DOMAIN reservations' /\ reservations'[l] = Reservation(gate)
    BY <1>2, <1>7 DEF TryAdmitWithCompute, Insert
  <2>2. inflight' = <<AdmitCommitLine(l, PendingRecord(t, now), Reservation(gate))>>
    BY <1>5, <2>1 DEF FileAdmit, Writes, Journals
  <2> QED
    BY <1>3, <1>7, <2>2, LedgerShape DEF CanAppend, AppendsAdmit
<1> QED
  BY <1>6, <1>7

(* transition *)
LEMMA TransitionAppends ==
  ASSUME NEW l \in LeaseIds, LedgerInv, FileTransition(l)
  PROVE  CanAppend(Ledger, inflight'[1])
<1>1. PICK to \in LeaseState, now \in Times : Transition(l, to, now)
  BY DEF FileTransition, Move
<1>2. /\ l \notin claims /\ l \in DOMAIN records
      /\ TransitionIsLegal(records[l].state, to)
      /\ records' = [records EXCEPT ![l] = ApplyTransition(records[l], to, now)]
      /\ AccrueOnTerminal(l, to, now)
  BY <1>1 DEF Transition, CanTransition
<1>3. records'[l] = ApplyTransition(records[l], to, now) /\ records[l] \in LeaseRecord
  BY <1>2 DEF LedgerInv, TypeOK, IsMap
<1>4. records'[l].tenant = records[l].tenant
  BY <1>3, ApplyTransitionType
<1>5. inflight' = <<TransitionLine(l)>>
  BY DEF FileTransition, WritesAfter, Journals
<1>6. MayMove(Ledger, l, to)
  BY <1>2, LedgerShape DEF MayMove
<1>7. CASE to \in Terminal /\ Unsettled(l)
  <2> DEFINE tp == <<records[l].tenant, reservations[l].accrual_period_key>>
  <2>1. /\ l \in DOMAIN reservations /\ ~reservations[l].accrued
        /\ reservations[l] \in LeaseReservation
    BY <1>7 DEF Unsettled, LedgerInv, TypeOK, IsMap
  <2>2. /\ accruals' = [accruals EXCEPT ![tp] = Charge(accruals[tp], Actual(records[l], reservations[l], now))]
        /\ reservations' = [reservations EXCEPT ![l] = Latch(reservations[l])]
    BY <1>2, <1>7, <2>1 DEF AccrueOnTerminal
  <2>3. tp \in Tenants \X Periods /\ accruals \in [Tenants \X Periods -> Nat]
    BY <1>3, <2>1 DEF LeaseRecord, LeaseReservation, LedgerInv, TypeOK
  <2>4. accruals'[tp] = ChargeOf(Ledger, l, now)
    BY <2>2, <2>3, LedgerShape DEF ChargeOf
  <2>5. reservations'[l] = Latch(reservations[l]) /\ reservations' # reservations
    BY <2>1, <2>2 DEF Latch, LeaseReservation
  <2>6. <<records'[l].tenant, reservations'[l].accrual_period_key>> = tp
    BY <1>4, <2>1, <2>5 DEF Latch, LeaseReservation
  <2> HIDE DEF tp
  <2>7. inflight'[1] = TerminalLine(l, ApplyTransition(records[l], to, now), ChargeOf(Ledger, l, now),
                                    Latch(reservations[l]))
    BY <1>3, <1>5, <2>4, <2>5, <2>6 DEF TransitionLine
  <2>8. Owes(Ledger, l, to)
    BY <1>7, <2>1, LedgerShape DEF Owes
  <2>9. AppendsMove(Ledger, l, inflight'[1])
    BY <1>6, <2>7, <2>8, LedgerShape DEF AppendsMove
  <2> QED
    BY <2>9 DEF CanAppend
<1>8. CASE ~(to \in Terminal /\ Unsettled(l))
  <2>1. accruals' = accruals /\ reservations' = reservations
    BY <1>2, <1>8 DEF AccrueOnTerminal
  <2>2. inflight'[1] = RecordLine(l, ApplyTransition(records[l], to, now))
    BY <1>3, <1>5, <2>1 DEF TransitionLine
  <2>3. ~Owes(Ledger, l, to)
    BY <1>8, LedgerShape DEF Owes, Unsettled
  <2>4. AppendsMove(Ledger, l, inflight'[1])
    BY <1>6, <2>2, <2>3, LedgerShape DEF AppendsMove
  <2> QED
    BY <2>4 DEF CanAppend
<1> QED
  BY <1>7, <1>8

(* bind_provider_ref *)
LEMMA BindAppends ==
  ASSUME NEW l \in LeaseIds, LedgerInv, FileBind(l), inflight' # << >>
  PROVE  CanAppend(Ledger, inflight'[1])
<1>1. PICK r \in ProviderRefs : BindProviderRef(l, r)
  BY DEF FileBind
<1>2. /\ l \notin claims /\ l \in DOMAIN records /\ records[l].state = "Pending"
      /\ records[l].box_ref \in {DefaultBoxRef, r}
      /\ records' = [records EXCEPT ![l].box_ref = r]
  BY <1>1 DEF BindProviderRef, CanBind
<1>3. records' # records /\ inflight' = <<RecordLine(l, records'[l])>>
  BY DEF FileBind, Writes, Journals
<1>4. IsMap(records, LeaseIds, LeaseRecord) /\ records[l] \in LeaseRecord
  BY <1>2 DEF LedgerInv, TypeOK, IsMap
<1>5. records'[l] = [records[l] EXCEPT !.box_ref = r]
  BY <1>2
<1>6. records[l].box_ref # r
  <2> SUFFICES ASSUME records[l].box_ref = r PROVE FALSE
    OBVIOUS
  <2>1. records'[l] = records[l]
    BY <1>4, <1>5 DEF LeaseRecord
  <2>2. records' = records
    BY <1>2, <1>4, <2>1 DEF IsMap
  <2> QED
    BY <1>3, <2>2
<1>7. AppendsBind(Ledger, l, inflight'[1])
  BY <1>2, <1>3, <1>5, <1>6, LedgerShape DEF AppendsBind
<1> QED
  BY <1>7 DEF CanAppend

(* set_envelope_checkpoint *)
LEMMA CheckpointAppends ==
  ASSUME NEW l \in LeaseIds, FileCheckpoint(l)
  PROVE  CanAppend(Ledger, inflight'[1])
<1>1. PICK c \in Checkpoints : SetEnvelopeCheckpoint(l, c) /\ Writes(<<CheckpointLine(l, c)>>)
  BY DEF FileCheckpoint
<1>2. inflight'[1] = CheckpointLine(l, c) /\ l \in DOMAIN records
  BY <1>1 DEF Writes, Journals, SetEnvelopeCheckpoint
<1> QED
  BY <1>2, LedgerShape DEF CanAppend, AppendsCheckpoint

(* finish_pending_cleanup, remove, remove_if_pending *)
LEMMA EraseAppends ==
  ASSUME NEW l \in LeaseIds, FileFinish(l) \/ FileRemove(l)
  PROVE  CanAppend(Ledger, inflight'[1])
<1>1. CanFinish(l) \/ CanRemove(l)
  BY DEF FileFinish, FileRemove, FinishPendingCleanup, Remove, RemoveIfPending
<1>2. inflight'[1] = TombstoneLine(l)
  BY DEF FileFinish, FileRemove, Writes, Journals
<1>3. AppendsTombstone(Ledger, l, inflight'[1])
  BY <1>1, <1>2, LedgerShape DEF AppendsTombstone, CanFinish, CanRemove, IsPending
<1> QED
  BY <1>3 DEF CanAppend

(* Such a line follows the matrix. *)
LEMMA AppendFollowsMatrix ==
  ASSUME NEW s, SoundState(s), NEW x, CanAppend(s, x)
  PROVE  FollowsMatrix(s, x)
<1>0. PICK l \in LeaseIds :
        \/ AppendsAdmit(s, l, x) \/ AppendsMove(s, l, x) \/ AppendsBind(s, l, x)
        \/ AppendsCheckpoint(s, l, x) \/ AppendsTombstone(s, l, x) \/ AppendsClaim(s, l, x)
  BY DEF CanAppend
<1>1. CASE AppendsAdmit(s, l, x)
  <2>1. /\ l \notin DOMAIN s.records /\ x.lease_id = l /\ x.record.state = "Pending"
    BY <1>1 DEF AppendsAdmit, RecordLine, AdmitCommitLine, PendingRecord
  <2> QED
    BY <2>1 DEF FollowsMatrix
<1>2. CASE AppendsMove(s, l, x)
  <2>1. PICK to \in LeaseState, now \in Times :
          /\ MayMove(s, l, to) /\ x.lease_id = l
          /\ x.record = ApplyTransition(s.records[l], to, now)
    BY <1>2 DEF AppendsMove, TerminalLine, RecordLine
  <2>2. l \in DOMAIN s.records /\ s.records[l] \in LeaseRecord /\ TransitionIsLegal(s.records[l].state, to)
    BY <2>1 DEF MayMove, SoundState, IsMap
  <2>3. x.record.state = to
    BY <2>1, <2>2, ApplyTransitionType
  <2> QED
    BY <2>1, <2>2, <2>3 DEF FollowsMatrix
<1>3. CASE AppendsBind(s, l, x)
  <2>1. PICK r \in ProviderRefs :
          /\ l \in DOMAIN s.records /\ s.records[l].state = "Pending" /\ s.records[l].box_ref # r
          /\ x = RecordLine(l, [s.records[l] EXCEPT !.box_ref = r])
    BY <1>3 DEF AppendsBind
  <2>2. x.lease_id = l /\ x.record = [s.records[l] EXCEPT !.box_ref = r]
    BY <2>1 DEF RecordLine
  <2>3. s.records[l] \in LeaseRecord
    BY <2>1 DEF SoundState, IsMap
  <2>4. x.record.box_ref = r /\ x.record # s.records[l]
    BY <2>1, <2>2, <2>3 DEF LeaseRecord
  <2> QED
    BY <2>1, <2>2, <2>4 DEF FollowsMatrix
<1>4. CASE AppendsCheckpoint(s, l, x) \/ AppendsTombstone(s, l, x) \/ AppendsClaim(s, l, x)
  <2>1. x.kind \in {"checkpoint", "tombstone", "pending_cleanup_claim"}
    BY <1>4 DEF AppendsCheckpoint, AppendsTombstone, AppendsClaim, CheckpointLine, TombstoneLine, ClaimLine
  <2> QED
    BY <2>1 DEF FollowsMatrix
<1> QED
  BY <1>0, <1>1, <1>2, <1>3, <1>4

(* Between operations the index is what the disk holds; during one, what the  *)
(* disk will hold once its lines are written.                                 *)
IndexOfDisk ==
  up => IF inflight = << >> THEN Ledger = Durable
        ELSE \/ /\ Len(inflight) = 1
                /\ CanAppend(Durable, inflight[1]) /\ Ledger = ReplayLine(Durable, inflight[1])
             \/ OnlyClaims(Durable, inflight) /\ Ledger = WithClaims(Durable, ClaimedBy(inflight))

(* An open journal ends with a terminated line and has no damaged one; a      *)
(* closed one has at most its last line damaged.                              *)
CleanDisk ==
  /\ up => ended /\ GarbageFree(journal)
  /\ ~Corrupt(journal)
  /\ ~ended => journal[Len(journal)] = Garbage

(* What holds as long as no append fails and no crash keeps half a line. *)
CleanInv == CleanDisk /\ JournalFollowsMatrix /\ IndexOfDisk

(* The matrix is followed when a line that follows it is added, or the end is *)
(* cut off.                                                                   *)
MatrixFollowed(lines) ==
  \A n \in DOMAIN lines : FollowsMatrix(Replay(SubSeq(lines, 1, n - 1)), lines[n])

(* One more line. *)
LEMMA MatrixExtends ==
  ASSUME NEW lines \in Seq(JournalLine), NEW x \in JournalLine, MatrixFollowed(lines),
         FollowsMatrix(Replay(lines), x)
  PROVE  MatrixFollowed(Append(lines, x))
<1> DEFINE m == Len(lines)
<1>1. m \in Nat /\ Append(lines, x)[m + 1] = x /\ DOMAIN Append(lines, x) = 1..(m + 1)
      /\ DOMAIN lines = 1..m /\ \A n \in 1..m : Append(lines, x)[n] = lines[n]
  BY AppendProperties, LenProperties
<1>2. \A n \in 0..m : SubSeq(Append(lines, x), 1, n) = SubSeq(lines, 1, n)
  BY PrefixOfAppend
<1>3. SubSeq(lines, 1, m) = lines
  OBVIOUS
<1> HIDE DEF m
<1>4. ASSUME NEW n \in 1..(m + 1)
      PROVE  FollowsMatrix(Replay(SubSeq(Append(lines, x), 1, n - 1)), Append(lines, x)[n])
  <2>1. n - 1 \in 0..m /\ SubSeq(Append(lines, x), 1, n - 1) = SubSeq(lines, 1, n - 1)
    BY <1>1, <1>2
  <2>2. CASE n = m + 1
    <3>1. n - 1 = m
      BY <1>1, <2>2
    <3> QED
      BY <1>1, <1>3, <2>1, <2>2, <3>1
  <2>3. CASE n # m + 1
    <3>1. n \in 1..m
      BY <1>1, <2>3
    <3> QED
      BY <1>1, <2>1, <3>1 DEF MatrixFollowed
  <2> QED
    BY <2>2, <2>3
<1> QED
  BY <1>1, <1>4 DEF MatrixFollowed

(* Some lines less. *)
LEMMA MatrixTruncates ==
  ASSUME NEW lines \in Seq(JournalLine), NEW k \in 0..Len(lines), MatrixFollowed(lines)
  PROVE  MatrixFollowed(SubSeq(lines, 1, k))
<1> DEFINE short == SubSeq(lines, 1, k)
<1>1. /\ DOMAIN short = 1..k /\ \A n \in 1..k : short[n] = lines[n]
      /\ DOMAIN lines = 1..Len(lines) /\ 1..k \subseteq 1..Len(lines)
  OBVIOUS
<1>2. \A n \in 0..k : SubSeq(short, 1, n) = SubSeq(lines, 1, n)
  BY PrefixOfPrefix
<1> HIDE DEF short
<1>3. ASSUME NEW n \in 1..k PROVE FollowsMatrix(Replay(SubSeq(short, 1, n - 1)), short[n])
  <2>1. n - 1 \in 0..k /\ n \in DOMAIN lines
    BY <1>1
  <2> QED
    BY <1>1, <1>2, <2>1 DEF MatrixFollowed
<1>4. MatrixFollowed(short)
  BY <1>1, <1>3 DEF MatrixFollowed
<1> QED
  BY <1>4 DEF short

(* An append to a clean, open journal. *)
LEMMA CleanAppend ==
  ASSUME FileInv, CleanInv, up, NEW x \in JournalLine
  PROVE  /\ Written(x) = Append(journal, x) /\ Append(journal, x) \in Seq(JournalLine)
         /\ Replay(Written(x)) = ReplayLine(Durable, x)
         /\ x # Garbage => GarbageFree(Written(x))
         /\ ~Corrupt(Written(x))
         /\ Written(x)[Len(Written(x))] = x
         /\ FollowsMatrix(Durable, x) => MatrixFollowed(Written(x))
<1>0. journal \in Seq(JournalLine) /\ ended /\ GarbageFree(journal) /\ MatrixFollowed(journal)
  BY DEF FileInv, JournalTyped, CleanInv, CleanDisk, JournalFollowsMatrix, MatrixFollowed
<1>1. Written(x) = Append(journal, x)
  BY <1>0 DEF Written
<1> DEFINE m == Len(journal)
<1>2. /\ Append(journal, x) \in Seq(JournalLine)
      /\ Len(Append(journal, x)) = m + 1 /\ m \in Nat
      /\ Append(journal, x)[m + 1] = x
      /\ \A n \in 1..m : Append(journal, x)[n] = journal[n]
  BY <1>0, AppendProperties, LenProperties
<1>3. Replay(Append(journal, x)) = ReplayLine(Durable, x)
  BY <1>0, ReplayGrows DEF Durable
<1>4. \A n \in 1..m : journal[n] # Garbage
  BY <1>0 DEF GarbageFree
<1>5. x # Garbage => GarbageFree(Append(journal, x))
  BY <1>2, <1>4 DEF GarbageFree
<1>6. ~Corrupt(Append(journal, x))
  <2>1. (m + 1) - 1 = m
    BY <1>2
  <2> QED
    BY <1>2, <1>4, <2>1 DEF Corrupt
<1>7. FollowsMatrix(Durable, x) => MatrixFollowed(Append(journal, x))
  BY <1>0, MatrixExtends DEF Durable
<1> QED
  BY <1>1, <1>2, <1>3, <1>5, <1>6, <1>7

(* The line being written: what the disk will hold, and that it follows the   *)
(* matrix.                                                                    *)
LEMMA CleanNextLine ==
  ASSUME FileInv, CleanInv, up, inflight # << >>
  PROVE  /\ CanAppend(Durable, Head(inflight)) /\ FollowsMatrix(Durable, Head(inflight))
         /\ Tail(inflight) = << >> => Ledger = ReplayLine(Durable, Head(inflight))
         /\ Tail(inflight) # << >> =>
              /\ OnlyClaims(ReplayLine(Durable, Head(inflight)), Tail(inflight))
              /\ Ledger = WithClaims(ReplayLine(Durable, Head(inflight)), ClaimedBy(Tail(inflight)))
<1>0. /\ inflight \in Seq(JournalLine) /\ Head(inflight) = inflight[1]
      /\ Tail(inflight) \in Seq(JournalLine) /\ Len(Tail(inflight)) = Len(inflight) - 1
  BY DEF FileInv, JournalTyped
<1>1. SoundState(Durable) /\ IsLedger(Durable)
  BY WholeJournalSound DEF FileInv, JournalTyped, CleanInv, CleanDisk, Durable, Solid, SoundState
<1>2. CanAppend(Durable, Head(inflight)) => FollowsMatrix(Durable, Head(inflight))
  BY <1>1, AppendFollowsMatrix
<1>3. CASE /\ Len(inflight) = 1
           /\ CanAppend(Durable, inflight[1]) /\ Ledger = ReplayLine(Durable, inflight[1])
  <2>1. Tail(inflight) = << >>
    <3>1. Len(Tail(inflight)) = 0
      BY <1>0, <1>3
    <3> QED
      BY <1>0, <3>1, EmptySeq
  <2> QED
    BY <1>0, <1>2, <1>3, <2>1
<1>4. CASE OnlyClaims(Durable, inflight) /\ Ledger = WithClaims(Durable, ClaimedBy(inflight))
  <2> DEFINE t == ReplayLine(Durable, Head(inflight))
  <2>1. /\ OnlyClaims(t, Tail(inflight))
        /\ WithClaims(Durable, ClaimedBy(inflight)) = WithClaims(t, ClaimedBy(Tail(inflight)))
        /\ Tail(inflight) = << >> => WithClaims(Durable, ClaimedBy(inflight)) = t
    BY <1>0, <1>1, <1>4, FirstClaim
  <2>2. 1 \in DOMAIN inflight
    BY <1>0
  <2>3. PICK l \in LeaseIds :
          inflight[1] = ClaimLine(l) /\ l \in DOMAIN Durable.records /\ Durable.records[l].state = "Pending"
    BY <1>4, <2>2 DEF OnlyClaims
  <2>4. CanAppend(Durable, Head(inflight))
    BY <1>0, <2>3 DEF CanAppend, AppendsClaim
  <2> QED
    BY <1>2, <1>4, <2>1, <2>4
<1> QED
  BY <1>3, <1>4 DEF CleanInv, IndexOfDisk

(* An operation that starts on a clean ledger leaves it so. *)
LEMMA CleanStart ==
  ASSUME FileInv, CleanInv, Idle, UNCHANGED <<journal, ended, up>>,
         \/ \E x : OneLine(x) /\ CanAppend(Ledger, inflight'[1])
         \/ inflight' = << >> /\ UNCHANGED ledgerVars
         \/ /\ inflight' # << >> /\ OnlyClaims(Ledger, inflight')
            /\ Ledger' = WithClaims(Ledger, ClaimedBy(inflight'))
  PROVE  CleanInv' /\ Durable' = Durable
<1>1. Durable' = Durable /\ Ledger = Durable /\ up /\ up'
  BY DEF Durable, CleanInv, IndexOfDisk, Idle
<1>2. CleanDisk' /\ JournalFollowsMatrix'
  BY DEF CleanInv, CleanDisk, JournalFollowsMatrix
<1>3. IndexOfDisk'
  <2>1. CASE \E x : OneLine(x) /\ CanAppend(Ledger, inflight'[1])
    <3>1. PICK x : OneLine(x) /\ CanAppend(Ledger, inflight'[1])
      BY <2>1
    <3>2. inflight' = <<x>> /\ inflight' # << >> /\ Len(inflight') = 1 /\ inflight'[1] = x
          /\ Ledger' = ReplayLine(Ledger, x)
      BY <3>1 DEF OneLine
    <3> QED
      BY <1>1, <3>1, <3>2 DEF IndexOfDisk
  <2>2. CASE inflight' = << >> /\ UNCHANGED ledgerVars
    <3>1. Ledger' = Ledger
      BY <2>2 DEF ledgerVars, Ledger
    <3> QED
      BY <1>1, <2>2, <3>1 DEF IndexOfDisk
  <2>3. CASE /\ inflight' # << >> /\ OnlyClaims(Ledger, inflight')
             /\ Ledger' = WithClaims(Ledger, ClaimedBy(inflight'))
    BY <1>1, <2>3 DEF IndexOfDisk
  <2> QED
    BY <2>1, <2>2, <2>3
<1> QED
  BY <1>1, <1>2, <1>3 DEF CleanInv

(* append_line puts one more ledger operation on the disk. *)
LEMMA CleanAppendLine ==
  ASSUME FileInv, CleanInv, AppendLine
  PROVE  CleanInv' /\ \E x : CanAppend(Durable, x) /\ Durable' = ReplayLine(Durable, x)
<1> DEFINE x == Head(inflight)
<1>0. /\ up /\ up' /\ inflight # << >> /\ journal' = Written(x) /\ ended' = TRUE
      /\ inflight' = Tail(inflight) /\ Ledger' = Ledger
  BY DEF AppendLine, ledgerVars, Ledger
<1>1. x \in JournalLine /\ x # Garbage
  BY <1>0, NextLineSound
<1>2. /\ CanAppend(Durable, x) /\ FollowsMatrix(Durable, x)
      /\ Tail(inflight) = << >> => Ledger = ReplayLine(Durable, x)
      /\ Tail(inflight) # << >> =>
              /\ OnlyClaims(ReplayLine(Durable, x), Tail(inflight))
              /\ Ledger = WithClaims(ReplayLine(Durable, x), ClaimedBy(Tail(inflight)))
  BY <1>0, CleanNextLine
<1> HIDE DEF x
<1>3. /\ Replay(journal') = ReplayLine(Durable, x) /\ GarbageFree(journal') /\ ~Corrupt(journal')
      /\ MatrixFollowed(journal')
  BY <1>0, <1>1, <1>2, CleanAppend
<1>4. CleanDisk' /\ JournalFollowsMatrix'
  BY <1>0, <1>3 DEF CleanDisk, JournalFollowsMatrix, MatrixFollowed
<1>5. Durable' = ReplayLine(Durable, x)
  BY <1>3 DEF Durable
<1>6. IndexOfDisk'
  BY <1>0, <1>2, <1>5 DEF IndexOfDisk
<1> QED
  BY <1>2, <1>4, <1>5, <1>6 DEF CleanInv

(* A crash loses the operation that had not returned and nothing else. *)
LEMMA CleanCrash ==
  ASSUME Faults = {}, FileInv, CleanInv, Crash
  PROVE  CleanInv' /\ Durable' = Durable
<1>0. up /\ ~up' /\ Garbage \in JournalLine
  BY DEF Crash, JournalLine
<1>1. CASE UNCHANGED <<journal, ended>>
  BY <1>0, <1>1 DEF CleanInv, CleanDisk, JournalFollowsMatrix, IndexOfDisk, Durable
<1>2. CASE journal' = Written(Garbage) /\ ended' = FALSE
  <2>1. FollowsMatrix(Durable, Garbage)
    BY DEF FollowsMatrix, Garbage
  <2>2. /\ Replay(journal') = Durable /\ ~Corrupt(journal') /\ journal'[Len(journal')] = Garbage
        /\ MatrixFollowed(journal')
    BY <1>0, <1>2, <2>1, CleanAppend, ReplayGarbage
  <2> QED
    BY <1>0, <1>2, <2>2 DEF CleanInv, CleanDisk, JournalFollowsMatrix, MatrixFollowed, IndexOfDisk, Durable
<1> QED
  BY <1>1, <1>2 DEF Crash

(* open gives back everything that was acknowledged. *)
LEMMA CleanOpen ==
  ASSUME FileInv, CleanInv, Open
  PROVE  CleanInv' /\ Durable' = Durable
<1>0. /\ ~up /\ ~Corrupt(journal) /\ Index(Replay(journal)) /\ journal' = DropTornTail(journal)
      /\ ended' = (ended \/ journal' # journal) /\ up' = TRUE /\ inflight' = inflight
  BY DEF Open
<1>1. /\ JournalTyped /\ PrefixSound(journal) /\ inflight = << >> /\ journal \in Seq(JournalLine)
      /\ ended \in BOOLEAN /\ (~ended => journal # << >>)
  BY <1>0 DEF FileInv, JournalTyped
<1>2. /\ journal' \in Seq(JournalLine) /\ GarbageFree(journal')
      /\ Replay(journal') = Replay(journal) /\ PrefixSound(journal')
      /\ journal' = journal => GarbageFree(journal)
  BY <1>0, <1>1, DroppedTail
<1>3. Durable' = Durable /\ IsLedger(Durable')
  BY <1>2, WholeJournalSound DEF Durable, Solid, SoundState
<1>4. Ledger' = Durable'
  BY <1>0, <1>3, IndexIs DEF Durable
<1>5. ended'
  <2> SUFFICES ASSUME ~ended, journal' = journal PROVE FALSE
    BY <1>0, <1>1
  <2>1. journal[Len(journal)] = Garbage /\ Len(journal) \in 1..Len(journal)
    BY <1>1 DEF CleanInv, CleanDisk
  <2> QED
    BY <1>2, <2>1 DEF GarbageFree
<1>6. ~Corrupt(journal')
  BY <1>2 DEF GarbageFree, Corrupt
<1>7. MatrixFollowed(journal')
  <2>1. MatrixFollowed(journal)
    BY DEF CleanInv, JournalFollowsMatrix, MatrixFollowed
  <2>2. CASE journal # << >> /\ journal[Len(journal)] = Garbage
    <3>1. journal' = SubSeq(journal, 1, Len(journal) - 1) /\ Len(journal) - 1 \in 0..Len(journal)
      BY <1>0, <1>1, <2>2 DEF DropTornTail
    <3> QED
      BY <1>1, <2>1, <3>1, MatrixTruncates
  <2>3. CASE ~(journal # << >> /\ journal[Len(journal)] = Garbage)
    BY <1>0, <2>1, <2>3 DEF DropTornTail
  <2> QED
    BY <2>2, <2>3
<1>8. CleanDisk' /\ JournalFollowsMatrix'
  BY <1>0, <1>2, <1>5, <1>6, <1>7 DEF CleanDisk, JournalFollowsMatrix, MatrixFollowed
<1>9. IndexOfDisk'
  BY <1>0, <1>1, <1>4 DEF IndexOfDisk
<1> QED
  BY <1>3, <1>8, <1>9 DEF CleanInv

(* Every step keeps a clean journal clean; what the disk holds stays as it is *)
(* or moves on by a line that a ledger operation makes of it.                 *)
LEMMA CleanStep ==
  ASSUME Faults = {}, FileInv, CleanInv, [FileNext]_fileVars
  PROVE  /\ CleanInv'
         /\ Durable' = Durable \/ \E x : CanAppend(Durable, x) /\ Durable' = ReplayLine(Durable, x)
<1>0. LedgerInv /\ IsFiniteSet(DOMAIN records)
  BY FileInvLedger
<1>1. ASSUME NEW l \in LeaseIds, FileAdmit(l) PROVE CleanInv' /\ Durable' = Durable
  BY <1>0, <1>1, AdmitJournals, AdmitAppends, CleanStart DEF FileAdmit
<1>2. ASSUME NEW l \in LeaseIds, FileTransition(l) PROVE CleanInv' /\ Durable' = Durable
  BY <1>0, <1>2, TransitionJournals, TransitionAppends, CleanStart DEF FileTransition
<1>3. ASSUME NEW l \in LeaseIds, FileBind(l) PROVE CleanInv' /\ Durable' = Durable
  <2>1. Idle
    BY <1>3 DEF FileBind
  <2>2. CASE inflight' = << >> /\ UNCHANGED <<ledgerVars, journal, ended, up>>
    BY <2>1, <2>2, CleanStart
  <2>3. CASE \E x : OneLine(x) /\ fallback' = Ledger /\ UNCHANGED <<journal, ended, up>>
    <3>1. inflight' # << >>
      BY <2>3 DEF OneLine
    <3>2. CanAppend(Ledger, inflight'[1])
      BY <1>0, <1>3, <3>1, BindAppends
    <3> QED
      BY <2>1, <2>3, <3>2, CleanStart
  <2> QED
    BY <1>0, <1>3, <2>2, <2>3, BindJournals
<1>4. ASSUME NEW l \in LeaseIds, FileCheckpoint(l) PROVE CleanInv' /\ Durable' = Durable
  BY <1>0, <1>4, CheckpointJournals, CheckpointAppends, CleanStart DEF FileCheckpoint
<1>5. ASSUME NEW l \in LeaseIds, FileFinish(l) \/ FileRemove(l) PROVE CleanInv' /\ Durable' = Durable
  BY <1>0, <1>5, EraseJournals, EraseAppends, CleanStart DEF FileFinish, FileRemove
<1>6. ASSUME FileClaimStale \/ \E l \in LeaseIds : FileClaim(l) PROVE CleanInv' /\ Durable' = Durable
  <2>1. Idle
    BY <1>6 DEF FileClaimStale, FileClaim
  <2> QED
    BY <1>0, <1>6, <2>1, ClaimJournals, CleanStart
<1>7. CASE UNCHANGED fileVars
  <2>1. Ledger' = Ledger /\ Durable' = Durable
    BY <1>7 DEF fileVars, ledgerVars, Ledger, Durable
  <2> QED
    BY <1>7, <2>1 DEF fileVars, CleanInv, CleanDisk, JournalFollowsMatrix, IndexOfDisk
<1>8. ~AppendFails
  BY DEF AppendFails
<1> QED
  BY <1>1, <1>2, <1>3, <1>4, <1>5, <1>6, <1>7, <1>8, CleanAppendLine, CleanCrash, CleanOpen
  DEF FileNext

(* The empty journal is clean. *)
LEMMA CleanInit == FileInit => CleanInv
<1> SUFFICES ASSUME FileInit PROVE CleanInv
  OBVIOUS
<1>1. Ledger = EmptyLedger
  BY DEF FileInit, LedgerInit, Ledger, EmptyLedger
<1>2. journal = << >> /\ inflight = << >> /\ ended = TRUE /\ up = TRUE
  BY DEF FileInit
<1>3. Durable = EmptyLedger
  BY <1>2, ReplayGrows DEF Durable
<1>4. Len(journal) = 0 /\ DOMAIN journal = {}
  BY <1>2
<1> QED
  BY <1>1, <1>2, <1>3, <1>4
  DEF CleanInv, CleanDisk, GarbageFree, Corrupt, JournalFollowsMatrix, IndexOfDisk

(* Without faults the clean invariant holds in every run. *)
THEOREM CleanInvariance ==
  ASSUME Faults = {} PROVE FileSpec => [](FileInv /\ CleanInv)
<1>1. FileInv /\ CleanInv /\ [FileNext]_fileVars => (FileInv /\ CleanInv)'
  BY FileInvStep, CleanStep
<1> QED
  BY <1>1, FileInvInit, CleanInit, PTL DEF FileSpec

(* Whenever the process dies in the middle of an append, the next one opens   *)
(* the journal, finds every acknowledged operation in it and nothing else,    *)
(* and every line of it is a step that the matrix allows.                     *)
THEOREM NothingAcknowledgedIsLost ==
  ASSUME Faults = {} PROVE FileSpec => []RecoversEverything
<1>1. FileInv /\ CleanInv => RecoversEverything
  BY DEF CleanInv, CleanDisk, IndexOfDisk, Idle, RecoversEverything, NeverRefusesToOpen, AcknowledgedIsDurable
<1> QED
  BY <1>1, CleanInvariance, PTL

--------------------------------------------------------------------------------
(* What the disk holds is a lease ledger in its own right *)

(* The sums and the sizes that the ledger of the disk computes are the        *)
(* ordinary ones.                                                             *)
LEMMA DiskSums ==
  ASSUME NEW f, NEW S
  PROVE  DurableLedger!SumFunctionOnSet(f, S) = SumFunctionOnSet(f, S)
<1>1. DurableLedger!SumFunctionOnSet(f, S) = SumTable(f, S)[S]
  BY DEF DurableLedger!SumFunctionOnSet, DurableLedger!FoldFunctionOnSet, DurableLedger!MapThenFoldSet,
         SumTable, IsSumTable, AnyOf
<1> QED
  BY <1>1, SumUnfold

(* How Cardinality counts: one element after the other. *)
IsCount(CS, S) == CS = [T \in SUBSET S |-> IF T = {} THEN 0 ELSE 1 + CS[T \ {CHOOSE x : x \in T}]]

(* Sizes. *)
LEMMA DiskCounts ==
  ASSUME NEW S PROVE DurableLedger!Cardinality(S) = Cardinality(S)
<1>1. Cardinality(S) = (CHOOSE CS : IsCount(CS, S))[S]
  BY DEF Cardinality, IsCount
<1>2. DurableLedger!Cardinality(S) = (CHOOSE CS : IsCount(CS, S))[S]
  BY DEF DurableLedger!Cardinality, IsCount
<1> QED
  BY <1>1, <1>2

(* The decision on what the disk holds. *)
LEMMA DecisionOfDisk ==
  ASSUME NEW t, NEW gate, AdmittedTo(Durable, t, gate)
  PROVE  DurableLedger!AdmitDecision(t, gate) = "Admitted"
<1>1. DurableLedger!Active(t) = ActiveIn(Durable, t)
  BY DEF DurableLedger!Active, DurableLedger!IsActive, ActiveIn, IsActive
<1>2. DurableLedger!Sigma(t, gate.period_key) = ReservedIn(Durable, t, gate.period_key)
  BY <1>1, DiskSums DEF DurableLedger!Sigma, DurableLedger!Booked, ReservedIn
<1> QED
  BY <1>1, <1>2, DiskCounts
  DEF DurableLedger!AdmitDecision, DurableLedger!OverCeiling, DurableLedger!AtCap, AdmittedTo

(* A line of each kind is the operation that writes it: an admission. *)
LEMMA DiskAdmits ==
  ASSUME IsLedger(Durable), NEW l \in LeaseIds, NEW x, AppendsAdmit(Durable, l, x),
         Durable' = ReplayLine(Durable, x)
  PROVE  DurableLedger!Admit(l)
<1>1. PICK t \in Tenants, now \in Times : \E gate \in Gates(t, now) :
        /\ l \notin DOMAIN Durable.records /\ AdmittedTo(Durable, t, gate)
        /\ x = IF gate.ceiling_vcpu_ms = 0 THEN RecordLine(l, PendingRecord(t, now))
               ELSE AdmitCommitLine(l, PendingRecord(t, now), Reservation(gate))
  BY DEF AppendsAdmit
<1>2. PICK gate \in Gates(t, now) :
        /\ l \notin DOMAIN Durable.records /\ AdmittedTo(Durable, t, gate)
        /\ x = IF gate.ceiling_vcpu_ms = 0 THEN RecordLine(l, PendingRecord(t, now))
               ELSE AdmitCommitLine(l, PendingRecord(t, now), Reservation(gate))
  BY <1>1
<1>3. /\ Durable'.records = Insert(Durable.records, l, PendingRecord(t, now))
      /\ Durable'.reservations = IF gate.ceiling_vcpu_ms = 0 THEN Durable.reservations
                                 ELSE Insert(Durable.reservations, l, Reservation(gate))
      /\ Durable'.accruals = Durable.accruals /\ Durable'.checkpoints = Durable.checkpoints
      /\ Durable'.claims = Durable.claims
  <2>1. CASE gate.ceiling_vcpu_ms = 0
    BY <1>2, <2>1, ReplayRecord
  <2>2. CASE gate.ceiling_vcpu_ms # 0
    BY <1>2, <2>2, ReplayAdmitCommit
  <2> QED
    BY <2>1, <2>2
<1>4. DurableLedger!AdmitDecision(t, gate) = "Admitted"
  BY <1>2, DecisionOfDisk
<1>5. /\ \A map, k, v : DurableLedger!Insert(map, k, v) = Insert(map, k, v)
      /\ DurableLedger!PendingRecord(t, now) = PendingRecord(t, now)
      /\ DurableLedger!Reservation(gate) = Reservation(gate)
  BY DEF DurableLedger!Insert, Insert, DurableLedger!PendingRecord, PendingRecord,
         DurableLedger!Reservation, Reservation, DurableLedger!DefaultBoxRef, DefaultBoxRef,
         DurableLedger!NoTime, NoTime
<1>6. DurableLedger!TryAdmitWithCompute(l, t, gate, now)
  BY <1>2, <1>3, <1>4, <1>5 DEF DurableLedger!TryAdmitWithCompute
<1>7. gate \in DurableLedger!Gates(t, now)
  BY DEF Gates, ComputeGate, PeriodKey, DurableLedger!Gates, DurableLedger!ComputeGate, DurableLedger!PeriodKey
<1> QED
  BY <1>6, <1>7 DEF DurableLedger!Admit

(* A transition on the disk. *)
LEMMA DiskMoves ==
  ASSUME SoundState(Durable), NEW l \in LeaseIds, NEW x, AppendsMove(Durable, l, x),
         Durable' = ReplayLine(Durable, x)
  PROVE  DurableLedger!Move(l)
<1> DEFINE rec(to, now) == ApplyTransition(Durable.records[l], to, now)
           tp == <<Durable.records[l].tenant, Durable.reservations[l].accrual_period_key>>
<1>0. IsLedger(Durable)
  BY DEF SoundState
<1>1. PICK to \in LeaseState, now \in Times :
        /\ MayMove(Durable, l, to)
        /\ x = IF Owes(Durable, l, to)
               THEN TerminalLine(l, rec(to, now), ChargeOf(Durable, l, now), Latch(Durable.reservations[l]))
               ELSE RecordLine(l, rec(to, now))
  BY DEF AppendsMove
<1>2. /\ l \notin Durable.claims /\ l \in DOMAIN Durable.records
      /\ TransitionIsLegal(Durable.records[l].state, to)
  BY <1>1 DEF MayMove
<1>3. Durable.records[l] \in LeaseRecord /\ IsMap(Durable.records, LeaseIds, LeaseRecord)
  BY <1>2 DEF SoundState, IsMap
<1>4. rec(to, now).tenant = Durable.records[l].tenant
  BY <1>3, ApplyTransitionType
<1>5. DurableLedger!CanTransition(l, to)
  BY <1>2 DEF DurableLedger!CanTransition, DurableLedger!TransitionIsLegal, TransitionIsLegal,
              DurableLedger!Terminal, Terminal
<1>6. /\ DurableLedger!ApplyTransition(Durable.records[l], to, now) = rec(to, now)
      /\ \A res : DurableLedger!Latch(res) = Latch(res)
      /\ DurableLedger!Terminal = Terminal
      /\ DurableLedger!LeaseState = LeaseState
  BY DEF DurableLedger!ApplyTransition, ApplyTransition, DurableLedger!NoTime, NoTime,
         DurableLedger!Latch, Latch, DurableLedger!Terminal, Terminal, DurableLedger!LeaseState, LeaseState
<1>7. [Durable.records EXCEPT ![l] = rec(to, now)] = Insert(Durable.records, l, rec(to, now))
  BY <1>2, <1>3, UpdateIsInsert
<1>8. DurableLedger!Unsettled(l) <=> (l \in DOMAIN Durable.reservations /\ ~Durable.reservations[l].accrued)
  BY DEF DurableLedger!Unsettled
<1>9. CASE Owes(Durable, l, to)
  <2>1. to \in Terminal /\ l \in DOMAIN Durable.reservations /\ ~Durable.reservations[l].accrued
    BY <1>9 DEF Owes
  <2>2. Durable.reservations[l] \in LeaseReservation /\ IsMap(Durable.reservations, LeaseIds, LeaseReservation)
    BY <2>1 DEF SoundState, IsMap
  <2>3. Latch(Durable.reservations[l]).accrual_period_key = Durable.reservations[l].accrual_period_key
    BY <2>2 DEF Latch, LeaseReservation
  <2>4. Durable' = [ records |-> Insert(Durable.records, l, rec(to, now)),
                     reservations |-> Insert(Durable.reservations, l, Latch(Durable.reservations[l])),
                     accruals |-> SetTotal(Durable.accruals,
                       <<rec(to, now).tenant, Latch(Durable.reservations[l]).accrual_period_key>>,
                       ChargeOf(Durable, l, now)),
                     checkpoints |-> Durable.checkpoints, claims |-> Durable.claims ]
    <3> HIDE DEF rec
    <3>1. PICK a : a = rec(to, now)
      OBVIOUS
    <3>2. PICK b : b = ChargeOf(Durable, l, now)
      OBVIOUS
    <3>3. PICK c : c = Latch(Durable.reservations[l])
      OBVIOUS
    <3>4. x = TerminalLine(l, a, b, c)
      BY <1>1, <1>9, <3>1, <3>2, <3>3
    <3>5. Durable' = [ records |-> Insert(Durable.records, l, a),
                       reservations |-> Insert(Durable.reservations, l, c),
                       accruals |-> SetTotal(Durable.accruals, <<a.tenant, c.accrual_period_key>>, b),
                       checkpoints |-> Durable.checkpoints, claims |-> Durable.claims ]
      BY <1>0, <3>4, ReplayTerminal
    <3> QED
      BY <3>1, <3>2, <3>3, <3>5
  <2>5. [Durable.reservations EXCEPT ![l] = Latch(Durable.reservations[l])]
          = Insert(Durable.reservations, l, Latch(Durable.reservations[l]))
    BY <2>1, <2>2, UpdateIsInsert
  <2>6. /\ Durable'.records = [Durable.records EXCEPT ![l] = rec(to, now)]
        /\ Durable'.reservations = [Durable.reservations EXCEPT ![l] = Latch(Durable.reservations[l])]
        /\ Durable'.accruals = [Durable.accruals EXCEPT ![tp] = ChargeOf(Durable, l, now)]
        /\ Durable'.checkpoints = Durable.checkpoints /\ Durable'.claims = Durable.claims
    <3> HIDE DEF rec
    <3> QED
      BY <1>4, <1>7, <2>3, <2>4, <2>5 DEF SetTotal
  <2>7. DurableLedger!Charge(Durable.accruals[tp],
           DurableLedger!Actual(Durable.records[l], Durable.reservations[l], now)) = ChargeOf(Durable, l, now)
    BY DEF ChargeOf, Charge, Actual, SmallerOf, SaturatingSub, DurableLedger!Charge, DurableLedger!Actual,
           DurableLedger!SmallerOf, DurableLedger!SaturatingSub
  <2>8. DurableLedger!AccrueOnTerminal(l, to, now)
    <3> HIDE DEF rec
    <3> QED
      BY <1>6, <1>8, <2>1, <2>6, <2>7 DEF DurableLedger!AccrueOnTerminal
  <2>9. DurableLedger!Transition(l, to, now)
    <3> HIDE DEF rec
    <3> QED
      BY <1>5, <1>6, <2>6, <2>8 DEF DurableLedger!Transition
  <2> QED
    BY <1>6, <2>9 DEF DurableLedger!Move
<1>10. CASE ~Owes(Durable, l, to)
  <2> HIDE DEF rec
  <2>1. PICK a : a = rec(to, now)
    OBVIOUS
  <2>2. x = RecordLine(l, a)
    BY <1>1, <1>10, <2>1
  <2>3. Durable' = [ records |-> Insert(Durable.records, l, a), reservations |-> Durable.reservations,
                     accruals |-> Durable.accruals, checkpoints |-> Durable.checkpoints,
                     claims |-> Durable.claims ]
    BY <1>0, <2>2, ReplayRecord
  <2>4. /\ Durable'.records = [Durable.records EXCEPT ![l] = rec(to, now)]
        /\ Durable'.reservations = Durable.reservations /\ Durable'.accruals = Durable.accruals
        /\ Durable'.checkpoints = Durable.checkpoints /\ Durable'.claims = Durable.claims
    BY <1>7, <2>1, <2>3
  <2>5. DurableLedger!AccrueOnTerminal(l, to, now)
    BY <1>6, <1>8, <1>10, <2>4 DEF DurableLedger!AccrueOnTerminal, Owes
  <2>6. DurableLedger!Transition(l, to, now)
    BY <1>5, <1>6, <2>4, <2>5 DEF DurableLedger!Transition
  <2> QED
    BY <1>6, <2>6 DEF DurableLedger!Move
<1> QED
  BY <1>9, <1>10

(* A binding on the disk. *)
LEMMA DiskBinds ==
  ASSUME SoundState(Durable), NEW l \in LeaseIds, NEW x, AppendsBind(Durable, l, x),
         Durable' = ReplayLine(Durable, x)
  PROVE  \E ref \in ProviderRefs : DurableLedger!BindProviderRef(l, ref)
<1>1. PICK r \in ProviderRefs :
        /\ l \notin Durable.claims /\ l \in DOMAIN Durable.records /\ Durable.records[l].state = "Pending"
        /\ Durable.records[l].box_ref \in {DefaultBoxRef, r}
        /\ x = RecordLine(l, [Durable.records[l] EXCEPT !.box_ref = r])
  BY DEF AppendsBind
<1>2. PICK a : a = [Durable.records[l] EXCEPT !.box_ref = r]
  OBVIOUS
<1>3. IsLedger(Durable) /\ IsMap(Durable.records, LeaseIds, LeaseRecord)
  BY DEF SoundState
<1>4. Durable' = [ records |-> Insert(Durable.records, l, a), reservations |-> Durable.reservations,
                   accruals |-> Durable.accruals, checkpoints |-> Durable.checkpoints,
                   claims |-> Durable.claims ]
  BY <1>1, <1>2, <1>3, ReplayRecord
<1>5. [Durable.records EXCEPT ![l] = a] = Insert(Durable.records, l, a)
  BY <1>1, <1>3, UpdateIsInsert
<1>6. /\ Durable'.records = [Durable.records EXCEPT ![l].box_ref = r]
      /\ Durable'.reservations = Durable.reservations /\ Durable'.accruals = Durable.accruals
      /\ Durable'.checkpoints = Durable.checkpoints /\ Durable'.claims = Durable.claims
  BY <1>2, <1>4, <1>5
<1>7. DurableLedger!CanBind(l, r)
  BY <1>1 DEF DurableLedger!CanBind, DurableLedger!DefaultBoxRef, DefaultBoxRef
<1> QED
  BY <1>6, <1>7 DEF DurableLedger!BindProviderRef

(* A checkpoint on the disk. *)
LEMMA DiskSetsCheckpoint ==
  ASSUME SoundState(Durable), NEW l \in LeaseIds, NEW x, AppendsCheckpoint(Durable, l, x),
         Durable' = ReplayLine(Durable, x)
  PROVE  \E c \in Checkpoints : DurableLedger!SetEnvelopeCheckpoint(l, c)
<1>1. PICK c \in Checkpoints : l \in DOMAIN Durable.records /\ x = CheckpointLine(l, c)
  BY DEF AppendsCheckpoint
<1>2. Durable' = [ records |-> Durable.records, reservations |-> Durable.reservations,
                   accruals |-> Durable.accruals, checkpoints |-> Insert(Durable.checkpoints, l, c),
                   claims |-> Durable.claims ]
  BY <1>1, ReplayCheckpoint DEF SoundState
<1>3. \A map, k, v : DurableLedger!Insert(map, k, v) = Insert(map, k, v)
  BY DEF DurableLedger!Insert, Insert
<1> QED
  BY <1>1, <1>2, <1>3 DEF DurableLedger!SetEnvelopeCheckpoint

(* The end of a row on the disk. *)
LEMMA DiskErases ==
  ASSUME SoundState(Durable), NEW l \in LeaseIds, NEW x, AppendsTombstone(Durable, l, x),
         Durable' = ReplayLine(Durable, x)
  PROVE  DurableLedger!FinishPendingCleanup(l) \/ DurableLedger!Remove(l)
<1>1. Durable' = [ records |-> Delete(Durable.records, l), reservations |-> Delete(Durable.reservations, l),
                   accruals |-> Durable.accruals, checkpoints |-> Delete(Durable.checkpoints, l),
                   claims |-> Durable.claims \ {l} ]
  BY ReplayTombstone DEF AppendsTombstone, SoundState
<1>2. \A map, k : DurableLedger!Delete(map, k) = Delete(map, k)
  BY DEF DurableLedger!Delete, Delete
<1>3. DurableLedger!Erase(l)
  BY <1>1, <1>2 DEF DurableLedger!Erase
<1>4. DurableLedger!CanFinish(l) \/ DurableLedger!CanRemove(l)
  BY DEF AppendsTombstone, DurableLedger!CanFinish, DurableLedger!CanRemove, DurableLedger!IsPending
<1> QED
  BY <1>3, <1>4 DEF DurableLedger!FinishPendingCleanup, DurableLedger!Remove

(* A claim on the disk. *)
LEMMA DiskClaims ==
  ASSUME SoundState(Durable), NEW l \in LeaseIds, NEW x, AppendsClaim(Durable, l, x),
         Durable' = ReplayLine(Durable, x)
  PROVE  DurableLedger!ClaimPendingCleanup(l)
<1>1. Durable' = [ records |-> Durable.records, reservations |-> Durable.reservations,
                   accruals |-> Durable.accruals, checkpoints |-> Durable.checkpoints,
                   claims |-> Durable.claims \cup {l} ]
  BY ReplayClaim DEF AppendsClaim, SoundState
<1>2. DurableLedger!Claimable(l)
  BY DEF AppendsClaim, DurableLedger!Claimable, DurableLedger!IsPending
<1> QED
  BY <1>1, <1>2 DEF DurableLedger!ClaimPendingCleanup

(* Every line that reaches the disk is a step of the ledger it holds. *)
LEMMA LineIsAStep ==
  ASSUME SoundState(Durable), NEW x, CanAppend(Durable, x), Durable' = ReplayLine(Durable, x)
  PROVE  DurableLedger!LedgerNext
<1>1. PICK l \in LeaseIds :
        \/ AppendsAdmit(Durable, l, x) \/ AppendsMove(Durable, l, x) \/ AppendsBind(Durable, l, x)
        \/ AppendsCheckpoint(Durable, l, x) \/ AppendsTombstone(Durable, l, x) \/ AppendsClaim(Durable, l, x)
  BY DEF CanAppend
<1>2. IsLedger(Durable)
  BY DEF SoundState
<1>3. \/ DurableLedger!Admit(l) \/ DurableLedger!Move(l)
      \/ \E ref \in ProviderRefs : DurableLedger!BindProviderRef(l, ref)
      \/ \E c \in Checkpoints : DurableLedger!SetEnvelopeCheckpoint(l, c)
      \/ DurableLedger!ClaimPendingCleanup(l)
      \/ DurableLedger!FinishPendingCleanup(l) \/ DurableLedger!Remove(l)
  BY <1>1, <1>2, DiskAdmits, DiskMoves, DiskBinds, DiskSetsCheckpoint, DiskErases, DiskClaims
<1> QED
  BY <1>3 DEF DurableLedger!LedgerNext

(* The durable state implements the lease ledger: whatever crashes and        *)
(* restarts happen between and during appends, the disk only ever moves by    *)
(* one whole ledger operation.                                                *)
THEOREM DiskImplementsLedger ==
  ASSUME Faults = {} PROVE FileSpec => DurableIsALedger
<1>1. FileInit => DurableLedger!LedgerInit
  <2> SUFFICES ASSUME FileInit PROVE DurableLedger!LedgerInit
    OBVIOUS
  <2>1. Durable = EmptyLedger
    BY ReplayGrows DEF FileInit, Durable
  <2>2. /\ Durable.records = EmptyMap /\ Durable.reservations = EmptyMap /\ Durable.checkpoints = EmptyMap
        /\ Durable.accruals = [tp \in Tenants \X Periods |-> 0] /\ Durable.claims = {}
    BY <2>1 DEF EmptyLedger
  <2>3. DurableLedger!EmptyMap = EmptyMap /\ DurableLedger!Periods = Periods
    BY DEF DurableLedger!EmptyMap, EmptyMap, DurableLedger!Periods, DurableLedger!PeriodKey, Periods, PeriodKey
  <2> QED
    BY <2>2, <2>3 DEF DurableLedger!LedgerInit
<1>2. FileInv /\ CleanInv /\ [FileNext]_fileVars => [DurableLedger!LedgerNext]_(DurableLedger!ledgerVars)
  <2> SUFFICES ASSUME FileInv, CleanInv, [FileNext]_fileVars
               PROVE  [DurableLedger!LedgerNext]_(DurableLedger!ledgerVars)
    OBVIOUS
  <2>1. CASE Durable' = Durable
    BY <2>1 DEF DurableLedger!ledgerVars
  <2>2. CASE \E x : CanAppend(Durable, x) /\ Durable' = ReplayLine(Durable, x)
    <3>1. CASE up
      <4>1. SoundState(Durable)
        BY <3>1, WholeJournalSound DEF FileInv, JournalTyped, CleanInv, CleanDisk, Durable, Solid
      <4> QED
        BY <2>2, <4>1, LineIsAStep
    <3>2. CASE ~up
      <4>1. DropTornTail(journal) \in Seq(JournalLine) /\ GarbageFree(DropTornTail(journal))
            /\ Replay(DropTornTail(journal)) = Replay(journal) /\ PrefixSound(DropTornTail(journal))
        BY DroppedTail DEF FileInv, JournalTyped, CleanInv, CleanDisk
      <4>2. SoundState(Durable)
        BY <4>1, WholeJournalSound DEF Durable, Solid
      <4> QED
        BY <2>2, <4>2, LineIsAStep
    <3> QED
      BY <3>1, <3>2
  <2> QED
    BY <2>1, <2>2, CleanStep
<1> QED
  BY <1>1, <1>2, CleanInvariance, PTL DEF FileSpec, DurableIsALedger, DurableLedger!LedgerSpec
================================================================================
