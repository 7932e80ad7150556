----------------------------- MODULE AdmissionProofs ---------------------------
(****************************************************************************)
(* Proofs about the way in: the admission queue with its tick, token          *)
(* introspection, the readiness of the mint, the global gate, the rate        *)
(* windows, the scheduler and the plan repository, each for any number of     *)
(* requests, tenants, tokens and guards.  Every section states the inductive  *)
(* invariant of one component, shows that its steps keep it and ends with the *)
(* properties the run of MCAdmission checks.                                  *)
(****************************************************************************)
EXTENDS FiniteSetTheorems, MCAdmission, TLAPS

--------------------------------------------------------------------------------
(* The admission queue *)

(* No value occurs twice. *)
NoDup(s) == \A i, j \in DOMAIN s : s[i] = s[j] => i = j

(* Candidates of the tick, their ids, and that no id occurs twice. *)
Candidate == [id : AcquireRequests, live : BOOLEAN]

Ids(cs) == {c.id : c \in ToSet(cs)}

NoDupIds(cs) == \A i, j \in DOMAIN cs : cs[i].id = cs[j].id => i = j

Job == [id : AcquireRequests, at : {"mint", "provision", "served", "failed", "capacity", "unwanted"}]

TickPhases == {"idle", "scan", "claim", "reserve", "reject", "finalize"}

Tick == [phase : TickPhases, cands : Seq(Candidate), claimed : Seq(Candidate), rejects : Seq(AcquireRequests),
         finalize : Seq(AcquireRequests), job : Job \cup {NoJob}, report : SUBSET AcquireRequests,
         genuine : SUBSET AcquireRequests]

(* Where the handler of a request that was never queued is. *)
Unqueued == {"new", "handler", "taking"}

QueueTypes ==
  /\ queues \in [SchedTenants -> Seq(AcquireRequests)]
  /\ conn \in [AcquireRequests -> {"new", "handler", "taking", "enqueued", "parked", "lease",
                                   "refused", "timing", "timeout", "gone"}]
  /\ mail \in [AcquireRequests -> {"none", "lease", "refused"}]
  /\ row \in [AcquireRequests -> {"none", "Pending", "Claimed", "Held", "Abandoned", "Terminal"}]
  /\ recorded \in [AcquireRequests -> Nat]
  /\ tick \in Tick
  /\ waiters \subseteq AcquireRequests /\ durable \in BOOLEAN
  /\ "on" \in DOMAIN scan

(* Each phase of the tick has consumed what the earlier ones produced. *)
TickPhasesHold ==
  /\ scan.on <=> tick.phase = "scan"
  /\ tick.phase \notin {"scan", "claim", "reserve"} => tick.cands = <<>>
  /\ tick.phase # "claim" => tick.claimed = <<>>
  /\ tick.phase \notin {"reserve", "reject"} => tick.rejects = <<>>
  /\ tick.phase \notin {"reserve", "reject", "finalize"} => tick.finalize = <<>>
  /\ tick.phase # "finalize" => tick.job = NoJob
  /\ tick.phase = "claim" => durable

(* A work item is in one place at a time. *)
Fifo(r) == r \in ToSet(queues[Owner[r]])

OnePlace ==
  /\ \A t \in SchedTenants : NoDup(queues[t]) /\ \A r \in ToSet(queues[t]) : Owner[r] = t
  /\ NoDupIds(tick.cands) /\ NoDupIds(tick.claimed) /\ NoDup(tick.rejects) /\ NoDup(tick.finalize)
  /\ Ids(tick.claimed) \subseteq Ids(tick.cands)
  /\ \A r \in AcquireRequests :
       /\ Fifo(r) => r \notin Ids(tick.cands) \cup ToSet(tick.rejects) \cup ToSet(tick.finalize) /\ tick.job.id # r
       /\ r \in Ids(tick.cands) => r \notin ToSet(tick.rejects) \cup ToSet(tick.finalize) /\ tick.job.id # r
       /\ r \in ToSet(tick.rejects) => r \notin ToSet(tick.finalize) /\ tick.job.id # r
       /\ r \in ToSet(tick.finalize) => tick.job.id # r

Somewhere(r) ==
  \/ Fifo(r)
  \/ r \in Ids(tick.cands) \cup ToSet(tick.rejects) \cup ToSet(tick.finalize)
  \/ tick.job.id = r

(* The rows of the durable queue: one per request, and none for what the tick *)
(* has claimed.                                                               *)
DurableInv ==
  /\ ~durable => drows = {} /\ \A r \in AcquireRequests : conn[r] # "enqueued"
  /\ \A d \in drows : d.id \in AcquireRequests /\ conn[d.id] \notin Unqueued \cup {"enqueued"}
  /\ \A d, e \in drows : d.id = e.id => d = e
  /\ \A r \in Ids(tick.claimed) : conn[r] # "enqueued" /\ \A d \in drows : d.id # r
  /\ tick.phase = "reserve" => \A r \in Ids(tick.cands) : conn[r] # "enqueued" /\ \A d \in drows : d.id # r

(* What a request that is in the queue, has an answer or has a row may be. *)
RequestInv ==
  \A r \in AcquireRequests :
    /\ Somewhere(r) \/ r \in waiters \/ mail[r] # "none" => conn[r] \notin Unqueued
    /\ mail[r] # "none" => r \notin waiters /\ ~Somewhere(r)
    /\ tick.job.id = r => r \notin waiters
    /\ recorded[r] <= 1
    /\ recorded[r] = 1 => mail[r] # "none"
    /\ r \in tick.genuine => recorded[r] = 0 /\ mail[r] # "none"

RowInv ==
  \A r \in AcquireRequests :
    /\ conn[r] = "handler" => row[r] = "Pending"
    /\ r \in ToSet(tick.finalize) => row[r] = "Pending"
    /\ tick.job.id = r => CASE tick.job.at \in {"mint", "provision", "unwanted"} -> row[r] = "Pending"
                            [] tick.job.at = "served" -> row[r] = "Held"
                            [] tick.job.at = "capacity" -> row[r] = "none"
                            [] OTHER -> row[r] \in {"none", "Claimed"}
    /\ row[r] = "Pending" => conn[r] = "handler" \/ r \in ToSet(tick.finalize) \/ tick.job.id = r
    /\ row[r] = "Held" => conn[r] = "lease" \/ mail[r] = "lease" \/ tick.job.id = r
    /\ mail[r] = "lease" /\ ~durable => conn[r] \in {"parked", "lease", "gone"}

(* A waiter that may still be answered is known to the loop. *)
WaiterInv ==
  ~durable => \A r \in AcquireRequests : Unanswered(r) =>
    /\ r \in waiters \/ tick.job.id = r
    /\ \A c \in ToSet(tick.cands) : c.id = r => c.live
    /\ tick.job.id = r => tick.job.at # "unwanted"

CapInv == \A t \in SchedTenants : IsFiniteSet(Active(t)) /\ Cardinality(Active(t)) <= Cap

(* The inductive invariant of the admission queue. *)
QueueInv ==
  QueueTypes /\ TickPhasesHold /\ OnePlace /\ DurableInv /\ RequestInv /\ RowInv /\ WaiterInv /\ CapInv

(* No waiter that is still unanswered loses its place in a step, unless it is *)
(* put back into a full FIFO.                                                 *)
KeepsPlaces ==
  ~durable => \A r \in AcquireRequests :
    Unanswered(r)' /\ ~Somewhere(r)' => Unanswered(r) /\ (Somewhere(r) => ~HasRoom(Owner[r]))

(* What the ends of a sequence without duplicates say of its elements. *)
LEMMA TailOf ==
  ASSUME NEW S, NEW s \in Seq(S), s # <<>>
  PROVE  /\ Head(s) \in S /\ Tail(s) \in Seq(S) /\ ToSet(s) = {Head(s)} \cup ToSet(Tail(s))
         /\ NoDup(s) => NoDup(Tail(s)) /\ Head(s) \notin ToSet(Tail(s))
<1>1. Len(s) \in Nat \ {0} /\ DOMAIN s = 1..Len(s)
  OBVIOUS
<1>2. /\ Head(s) = s[1] /\ Tail(s) \in Seq(S) /\ DOMAIN Tail(s) = 1..(Len(s) - 1)
      /\ \A n \in 1..(Len(s) - 1) : Tail(s)[n] = s[n + 1]
  BY <1>1
<1>3. ToSet(s) = {Head(s)} \cup ToSet(Tail(s))
  <2>1. ASSUME NEW n \in 1..Len(s) PROVE s[n] = s[1] \/ \E m \in 1..(Len(s) - 1) : s[n] = Tail(s)[m]
    <3>1. CASE n # 1
      <4>1. n - 1 \in 1..(Len(s) - 1) /\ Tail(s)[n - 1] = s[n]
        BY <1>1, <1>2, <3>1
      <4> QED
        BY <4>1
    <3> QED
      BY <3>1
  <2>2. \A m \in 1..(Len(s) - 1) : m + 1 \in 1..Len(s)
    BY <1>1
  <2>3. \A x : x \in ToSet(s) <=> \E n \in 1..Len(s) : x = s[n]
    BY <1>1 DEF ToSet
  <2>4. \A x : x \in ToSet(Tail(s)) <=> \E m \in 1..(Len(s) - 1) : x = Tail(s)[m]
    BY <1>2 DEF ToSet
  <2>5. 1 \in 1..Len(s)
    BY <1>1
  <2> QED
    BY <1>2, <2>1, <2>2, <2>3, <2>4, <2>5
<1>4. ASSUME NoDup(s) PROVE NoDup(Tail(s)) /\ Head(s) \notin ToSet(Tail(s))
  BY <1>1, <1>2, <1>4 DEF NoDup, ToSet
<1> QED
  BY <1>1, <1>2, <1>3, <1>4

(* What Append adds to a sequence without duplicates.                         *)
LEMMA AppendTo ==
  ASSUME NEW S, NEW s \in Seq(S), NEW x \in S
  PROVE  /\ Append(s, x) \in Seq(S) /\ ToSet(Append(s, x)) = ToSet(s) \cup {x}
         /\ NoDup(s) /\ x \notin ToSet(s) => NoDup(Append(s, x))
<1> DEFINE a == Append(s, x)
<1>1. /\ Len(s) \in Nat /\ DOMAIN s = 1..Len(s) /\ a \in Seq(S) /\ DOMAIN a = 1..(Len(s) + 1)
      /\ a[Len(s) + 1] = x /\ \A n \in 1..Len(s) : a[n] = s[n]
  OBVIOUS
<1> HIDE DEF a
<1>2. \A n \in 1..(Len(s) + 1) : n \in 1..Len(s) \/ n = Len(s) + 1
  BY <1>1
<1>3. Len(s) + 1 \in 1..(Len(s) + 1) /\ \A n \in 1..Len(s) : n \in 1..(Len(s) + 1)
  BY <1>1
<1>4. ToSet(a) = ToSet(s) \cup {x}
  <2>1. \A y : y \in ToSet(s) <=> \E n \in 1..Len(s) : y = s[n]
    BY <1>1 DEF ToSet
  <2>2. \A y : y \in ToSet(a) <=> \E m \in 1..(Len(s) + 1) : y = a[m]
    BY <1>1 DEF ToSet
  <2> QED
    BY <1>1, <1>2, <1>3, <2>1, <2>2
<1>5. NoDup(s) /\ x \notin ToSet(s) => NoDup(a)
  BY <1>1, <1>2, <1>3 DEF NoDup, ToSet
<1> QED
  BY <1>1, <1>4, <1>5 DEF a

(* The same for sequences of candidates and their ids. *)
LEMMA TailOfCands ==
  ASSUME NEW s \in Seq(Candidate), s # <<>>
  PROVE  /\ Ids(s) = {Head(s).id} \cup Ids(Tail(s)) /\ Head(s).id \in AcquireRequests
         /\ NoDupIds(s) => NoDupIds(Tail(s)) /\ Head(s).id \notin Ids(Tail(s))
<1>1. Head(s) \in Candidate /\ Tail(s) \in Seq(Candidate) /\ ToSet(s) = {Head(s)} \cup ToSet(Tail(s))
  BY TailOf
<1>2. Ids(s) = {Head(s).id} \cup Ids(Tail(s)) /\ Head(s).id \in AcquireRequests
  BY <1>1 DEF Ids, Candidate
<1>3. Len(s) \in Nat \ {0} /\ DOMAIN s = 1..Len(s)
  OBVIOUS
<1>4. /\ Head(s) = s[1] /\ DOMAIN Tail(s) = 1..(Len(s) - 1)
      /\ \A n \in 1..(Len(s) - 1) : Tail(s)[n] = s[n + 1]
  BY <1>3
<1>5. ASSUME NoDupIds(s) PROVE NoDupIds(Tail(s)) /\ Head(s).id \notin Ids(Tail(s))
  BY <1>3, <1>4, <1>5 DEF NoDupIds, Ids, ToSet
<1> QED
  BY <1>2, <1>5

(* Append on candidates.                                                      *)
LEMMA AppendToCands ==
  ASSUME NEW s \in Seq(Candidate), NEW c \in Candidate
  PROVE  /\ Ids(Append(s, c)) = Ids(s) \cup {c.id}
         /\ NoDupIds(s) /\ c.id \notin Ids(s) => NoDupIds(Append(s, c))
<1> DEFINE a == Append(s, c)
<1>1. /\ Len(s) \in Nat /\ DOMAIN s = 1..Len(s) /\ a \in Seq(Candidate) /\ DOMAIN a = 1..(Len(s) + 1)
      /\ a[Len(s) + 1] = c /\ \A n \in 1..Len(s) : a[n] = s[n]
  OBVIOUS
<1>2. ToSet(a) = ToSet(s) \cup {c}
  BY AppendTo
<1> HIDE DEF a
<1>3. Ids(a) = Ids(s) \cup {c.id}
  BY <1>2 DEF Ids
<1>4. \A n \in 1..(Len(s) + 1) : n \in 1..Len(s) \/ n = Len(s) + 1
  BY <1>1
<1>5. NoDupIds(s) /\ c.id \notin Ids(s) => NoDupIds(a)
  BY <1>1, <1>4 DEF NoDupIds, Ids, ToSet
<1> QED
  BY <1>3, <1>5 DEF a

(* The empty sequence has no element and no duplicate.                        *)
LEMMA EmptySequence ==
  ToSet(<<>>) = {} /\ Ids(<<>>) = {} /\ NoDup(<<>>) /\ NoDupIds(<<>>)
  BY DEF ToSet, Ids, NoDup, NoDupIds

(* The rows that count against the cap. *)
ActiveRows == {"Pending", "Claimed", "Held", "Abandoned"}

(* A step that activates no row keeps every tenant within its cap.            *)
LEMMA CapKept ==
  ASSUME QueueInv, \A r \in AcquireRequests : row'[r] \in ActiveRows => row[r] \in ActiveRows
  PROVE  CapInv'
<1> SUFFICES ASSUME NEW t \in SchedTenants
             PROVE  IsFiniteSet(Active(t)') /\ Cardinality(Active(t)') <= Cap
  BY DEF CapInv
<1>1. PICK A, B : A = Active(t) /\ B = Active(t)'
  OBVIOUS
<1>2. B \subseteq A
  BY <1>1 DEF Active, ActiveRows
<1>3. IsFiniteSet(A) /\ Cardinality(A) <= Cap
  BY <1>1 DEF QueueInv, CapInv
<1>4. IsFiniteSet(B) /\ Cardinality(B) <= Cardinality(A)
  BY <1>2, <1>3, FS_Subset
<1>5. Cardinality(A) \in Nat /\ Cardinality(B) \in Nat
  BY <1>3, <1>4, FS_CardinalityType
<1>6. Cardinality(B) <= Cap
  BY <1>3, <1>4, <1>5, AdmissionAssumption
<1> QED
  BY <1>1, <1>4, <1>6

(* try_admit activates one row of a tenant that is below its cap.             *)
LEMMA CapGrown ==
  ASSUME QueueInv, NEW r \in AcquireRequests, Cardinality(Active(Owner[r])) < Cap, SetRow(r, "Pending")
  PROVE  CapInv'
<1> SUFFICES ASSUME NEW t \in SchedTenants
             PROVE  IsFiniteSet(Active(t)') /\ Cardinality(Active(t)') <= Cap
  BY DEF CapInv
<1>1. \A q \in AcquireRequests : row'[q] = IF q = r THEN "Pending" ELSE row[q]
  BY DEF SetRow, QueueInv, QueueTypes
<1>2. PICK A, B : A = Active(t) /\ B = Active(t)'
  OBVIOUS
<1>3. IsFiniteSet(A) /\ Cardinality(A) <= Cap
  BY <1>2 DEF QueueInv, CapInv
<1>4. Cardinality(A) \in Nat
  BY <1>3, FS_CardinalityType
<1>5. CASE t # Owner[r] \/ r \in A
  <2>1. B = A
    BY <1>1, <1>2, <1>5 DEF Active
  <2> QED
    BY <1>2, <1>3, <2>1
<1>6. CASE t = Owner[r] /\ r \notin A
  <2>1. B = A \cup {r} /\ Cardinality(A) < Cap
    BY <1>1, <1>2, <1>6 DEF Active
  <2>2. IsFiniteSet(B) /\ Cardinality(B) = Cardinality(A) + 1
    BY <1>3, <1>6, <2>1, FS_AddElement
  <2>3. Cardinality(B) <= Cap
    BY <1>4, <2>1, <2>2, AdmissionAssumption
  <2> QED
    BY <1>2, <2>2, <2>3
<1> QED
  BY <1>5, <1>6

(* A handler that leaves scheduler and tick alone moves no work item. *)
LEMMA NothingMoves ==
  ASSUME QueueInv, UNCHANGED <<schedulerVars, tick, durable>>
  PROVE  /\ TickPhasesHold' /\ OnePlace' /\ \A r \in AcquireRequests : Somewhere(r)' <=> Somewhere(r)
         /\ tick' = tick /\ durable' = durable /\ queues' = queues
  BY DEF QueueInv, schedulerVars, TickPhasesHold, OnePlace, Somewhere, Fifo

(* Every request belongs to a tenant of the scheduler.                        *)
LEMMA OwnerTyped == \A r \in AcquireRequests : Owner[r] \in SchedTenants
  BY AdmissionAssumption

(* No job is not the job of any request.                                      *)
LEMMA JobTyped == ASSUME QueueInv PROVE tick.job \in Job \cup {NoJob} /\ \A r \in AcquireRequests : NoJob.id # r
  BY AdmissionAssumption DEF QueueInv, QueueTypes, Tick, NoJob

(* The immediate path of acquire reserves one row under the cap.              *)
LEMMA AdmitKeeps == ASSUME QueueInv, NEW r \in AcquireRequests, Admit(r) PROVE QueueInv' /\ KeepsPlaces
<1> USE DEF Unqueued
<1>1. /\ conn[r] = "new" /\ Cardinality(Active(Owner[r])) < Cap /\ SetRow(r, "Pending")
      /\ conn' = [conn EXCEPT ![r] = "handler"] /\ row' = [row EXCEPT ![r] = "Pending"]
      /\ UNCHANGED <<schedulerVars, tick, durable, mail, waiters, recorded, drows>>
  BY DEF Admit, Goto, SetRow, durableVars
<1>2. CapInv'
  BY <1>1, CapGrown
<1>3. /\ TickPhasesHold' /\ OnePlace' /\ \A q \in AcquireRequests : Somewhere(q)' <=> Somewhere(q)
      /\ tick' = tick /\ durable' = durable /\ queues' = queues
  BY <1>1, NothingMoves
<1>4. QueueTypes'
  BY <1>1, <1>3 DEF QueueInv, QueueTypes, schedulerVars
<1>5. DurableInv'
  BY <1>1, <1>3 DEF QueueInv, QueueTypes, DurableInv
<1>6. RequestInv'
  BY <1>1, <1>3 DEF QueueInv, QueueTypes, RequestInv
<1>7. ~Somewhere(r) /\ mail[r] = "none"
  BY <1>1 DEF QueueInv, RequestInv
<1>8. RowInv'
  BY <1>1, <1>3, <1>7 DEF QueueInv, QueueTypes, RowInv, Somewhere
<1>9. WaiterInv'
  BY <1>1, <1>3 DEF QueueInv, QueueTypes, WaiterInv, Unanswered
<1>10. KeepsPlaces
  BY <1>1, <1>3 DEF KeepsPlaces, Unanswered, QueueInv, QueueTypes
<1> QED
  BY <1>2, <1>3, <1>4, <1>5, <1>6, <1>8, <1>9, <1>10 DEF QueueInv

(* finalize on the handler's own task ends the Pending row it made.           *)
LEMMA FinalizeInHandlerKeeps ==
  ASSUME QueueInv, NEW r \in AcquireRequests, FinalizeInHandler(r)
  PROVE  QueueInv' /\ KeepsPlaces
<1> USE DEF Unqueued
<1>1. PICK left \in {"Held", "none", "Claimed"}, to \in {"lease", "refused"} :
        /\ conn[r] = "handler" /\ (left = "Held" <=> to = "lease")
        /\ conn' = [conn EXCEPT ![r] = to] /\ row' = [row EXCEPT ![r] = left]
        /\ UNCHANGED <<schedulerVars, tick, durable, mail, waiters, recorded, drows>>
  BY DEF FinalizeInHandler, Goto, SetRow, durableVars
<1>2. row[r] = "Pending" /\ ~Somewhere(r) /\ mail[r] = "none"
  BY <1>1 DEF QueueInv, RequestInv, RowInv
<1>3. /\ TickPhasesHold' /\ OnePlace' /\ \A q \in AcquireRequests : Somewhere(q)' <=> Somewhere(q)
      /\ tick' = tick /\ durable' = durable /\ queues' = queues
  BY <1>1, NothingMoves
<1>4. QueueTypes'
  BY <1>1, <1>3 DEF QueueInv, QueueTypes, schedulerVars
<1>5. CapInv'
  BY <1>1, <1>2, CapKept DEF QueueInv, QueueTypes, ActiveRows
<1>6. DurableInv'
  BY <1>1, <1>3 DEF QueueInv, QueueTypes, DurableInv
<1>7. RequestInv'
  BY <1>1, <1>3 DEF QueueInv, QueueTypes, RequestInv
<1>8. RowInv'
  BY <1>1, <1>2, <1>3 DEF QueueInv, QueueTypes, RowInv, Somewhere
<1>9. WaiterInv'
  BY <1>1, <1>3 DEF QueueInv, QueueTypes, WaiterInv, Unanswered
<1>10. KeepsPlaces
  BY <1>1, <1>3 DEF KeepsPlaces, Unanswered, QueueInv, QueueTypes
<1> QED
  BY <1>3, <1>4, <1>5, <1>6, <1>7, <1>8, <1>9, <1>10 DEF QueueInv

(* park_semaphore touches neither queue nor rows.                             *)
LEMMA ParkSemaphoreKeeps == ASSUME QueueInv, NEW r \in AcquireRequests, ParkSemaphore(r) PROVE QueueInv' /\ KeepsPlaces
<1> USE DEF Unqueued
<1>1. /\ conn[r] = "new"
      /\ conn' = [conn EXCEPT ![r] = "taking"]
      /\ UNCHANGED <<schedulerVars, tick, durable, recorded, row, mail, waiters, drows>>
  BY DEF ParkSemaphore, Goto, durableVars
<1>2. /\ TickPhasesHold' /\ OnePlace' /\ \A q \in AcquireRequests : Somewhere(q)' <=> Somewhere(q)
      /\ tick' = tick /\ durable' = durable /\ queues' = queues
  BY <1>1, NothingMoves
<1>3. QueueTypes'
  BY <1>1, <1>2 DEF QueueInv, QueueTypes, schedulerVars
<1>4. CapInv'
  BY <1>1, CapKept DEF QueueInv, QueueTypes, ActiveRows
<1>5. DurableInv'
  BY <1>1, <1>2 DEF QueueInv, QueueTypes, DurableInv, QueuedRow
<1>6. RequestInv'
  BY <1>1, <1>2 DEF QueueInv, QueueTypes, RequestInv
<1>7. RowInv'
  BY <1>1, <1>2 DEF QueueInv, QueueTypes, RowInv
<1>8. WaiterInv'
  BY <1>1, <1>2 DEF QueueInv, QueueTypes, WaiterInv, Unanswered
<1>9. KeepsPlaces
  BY <1>1, <1>2 DEF KeepsPlaces, Unanswered, QueueInv, QueueTypes
<1> QED
  BY <1>2, <1>3, <1>4, <1>5, <1>6, <1>7, <1>8, <1>9 DEF QueueInv

(* A shed request was never queued.                                           *)
LEMMA ShedKeeps == ASSUME QueueInv, NEW r \in AcquireRequests, Shed(r) PROVE QueueInv' /\ KeepsPlaces
<1> USE DEF Unqueued
<1>1. /\ conn[r] = "taking"
      /\ conn' = [conn EXCEPT ![r] = "refused"]
      /\ UNCHANGED <<schedulerVars, tick, durable, recorded, row, mail, waiters, drows>>
  BY DEF Shed, Goto, durableVars
<1>2. /\ TickPhasesHold' /\ OnePlace' /\ \A q \in AcquireRequests : Somewhere(q)' <=> Somewhere(q)
      /\ tick' = tick /\ durable' = durable /\ queues' = queues
  BY <1>1, NothingMoves
<1>3. QueueTypes'
  BY <1>1, <1>2 DEF QueueInv, QueueTypes, schedulerVars
<1>4. CapInv'
  BY <1>1, CapKept DEF QueueInv, QueueTypes, ActiveRows
<1>5. DurableInv'
  BY <1>1, <1>2 DEF QueueInv, QueueTypes, DurableInv, QueuedRow
<1>6. RequestInv'
  BY <1>1, <1>2 DEF QueueInv, QueueTypes, RequestInv
<1>7. RowInv'
  BY <1>1, <1>2 DEF QueueInv, QueueTypes, RowInv
<1>8. WaiterInv'
  BY <1>1, <1>2 DEF QueueInv, QueueTypes, WaiterInv, Unanswered
<1>9. KeepsPlaces
  BY <1>1, <1>2 DEF KeepsPlaces, Unanswered, QueueInv, QueueTypes
<1> QED
  BY <1>2, <1>3, <1>4, <1>5, <1>6, <1>7, <1>8, <1>9 DEF QueueInv

(* The handler takes the answer that was sent.                                *)
LEMMA ReceiveKeeps == ASSUME QueueInv, NEW r \in AcquireRequests, Receive(r) PROVE QueueInv' /\ KeepsPlaces
<1> USE DEF Unqueued
<1>1. /\ conn[r] = "parked" /\ mail[r] # "none"
      /\ conn' = [conn EXCEPT ![r] = mail[r]]
      /\ UNCHANGED <<schedulerVars, tick, durable, recorded, row, mail, waiters, drows>>
  BY DEF Receive, Goto, durableVars
<1>2. /\ TickPhasesHold' /\ OnePlace' /\ \A q \in AcquireRequests : Somewhere(q)' <=> Somewhere(q)
      /\ tick' = tick /\ durable' = durable /\ queues' = queues
  BY <1>1, NothingMoves
<1>3. QueueTypes'
  BY <1>1, <1>2 DEF QueueInv, QueueTypes, schedulerVars
<1>4. CapInv'
  BY <1>1, CapKept DEF QueueInv, QueueTypes, ActiveRows
<1>5. DurableInv'
  BY <1>1, <1>2 DEF QueueInv, QueueTypes, DurableInv, QueuedRow
<1>6. RequestInv'
  BY <1>1, <1>2 DEF QueueInv, QueueTypes, RequestInv
<1>7. RowInv'
  BY <1>1, <1>2 DEF QueueInv, QueueTypes, RowInv
<1>8. WaiterInv'
  BY <1>1, <1>2 DEF QueueInv, QueueTypes, WaiterInv, Unanswered
<1>9. KeepsPlaces
  BY <1>1, <1>2 DEF KeepsPlaces, Unanswered, QueueInv, QueueTypes
<1> QED
  BY <1>2, <1>3, <1>4, <1>5, <1>6, <1>7, <1>8, <1>9 DEF QueueInv

(* The timeout drops the receiver before anything else is cleaned up.         *)
LEMMA TimeOutKeeps == ASSUME QueueInv, NEW r \in AcquireRequests, TimeOut(r) PROVE QueueInv' /\ KeepsPlaces
<1> USE DEF Unqueued
<1>1. /\ conn[r] = "parked" /\ mail[r] = "none"
      /\ conn' = [conn EXCEPT ![r] = "timing"]
      /\ UNCHANGED <<schedulerVars, tick, durable, recorded, row, mail, waiters, drows>>
  BY DEF TimeOut, Goto, durableVars
<1>2. /\ TickPhasesHold' /\ OnePlace' /\ \A q \in AcquireRequests : Somewhere(q)' <=> Somewhere(q)
      /\ tick' = tick /\ durable' = durable /\ queues' = queues
  BY <1>1, NothingMoves
<1>3. QueueTypes'
  BY <1>1, <1>2 DEF QueueInv, QueueTypes, schedulerVars
<1>4. CapInv'
  BY <1>1, CapKept DEF QueueInv, QueueTypes, ActiveRows
<1>5. DurableInv'
  BY <1>1, <1>2 DEF QueueInv, QueueTypes, DurableInv, QueuedRow
<1>6. RequestInv'
  BY <1>1, <1>2 DEF QueueInv, QueueTypes, RequestInv
<1>7. RowInv'
  BY <1>1, <1>2 DEF QueueInv, QueueTypes, RowInv
<1>8. WaiterInv'
  BY <1>1, <1>2 DEF QueueInv, QueueTypes, WaiterInv, Unanswered
<1>9. KeepsPlaces
  BY <1>1, <1>2 DEF KeepsPlaces, Unanswered, QueueInv, QueueTypes
<1> QED
  BY <1>2, <1>3, <1>4, <1>5, <1>6, <1>7, <1>8, <1>9 DEF QueueInv

(* evict_waiter drops context and durable row; the work item stays where it   *)
(* is.                                                                        *)
LEMMA EvictKeeps == ASSUME QueueInv, NEW r \in AcquireRequests, Evict(r) PROVE QueueInv' /\ KeepsPlaces
<1> USE DEF Unqueued
<1>1. /\ conn[r] = "timing"
      /\ conn' = [conn EXCEPT ![r] = "timeout"]
      /\ waiters' = waiters \ {r} /\ drows' = drows \ QueuedRow(r)
      /\ UNCHANGED <<schedulerVars, tick, durable, recorded, row, mail>>
  BY DEF Evict, Goto, durableVars, DurableRemove
<1>2. /\ TickPhasesHold' /\ OnePlace' /\ \A q \in AcquireRequests : Somewhere(q)' <=> Somewhere(q)
      /\ tick' = tick /\ durable' = durable /\ queues' = queues
  BY <1>1, NothingMoves
<1>3. QueueTypes'
  BY <1>1, <1>2 DEF QueueInv, QueueTypes, schedulerVars
<1>4. CapInv'
  BY <1>1, CapKept DEF QueueInv, QueueTypes, ActiveRows
<1>5. DurableInv'
  BY <1>1, <1>2 DEF QueueInv, QueueTypes, DurableInv, QueuedRow
<1>6. RequestInv'
  BY <1>1, <1>2 DEF QueueInv, QueueTypes, RequestInv
<1>7. RowInv'
  BY <1>1, <1>2 DEF QueueInv, QueueTypes, RowInv
<1>8. WaiterInv'
  BY <1>1, <1>2 DEF QueueInv, QueueTypes, WaiterInv, Unanswered
<1>9. KeepsPlaces
  BY <1>1, <1>2 DEF KeepsPlaces, Unanswered, QueueInv, QueueTypes
<1> QED
  BY <1>2, <1>3, <1>4, <1>5, <1>6, <1>7, <1>8, <1>9 DEF QueueInv

(* Dropping the permit moves no work item.                                    *)
LEMMA LeaveKeeps == ASSUME QueueInv, NEW r \in AcquireRequests, Leave(r) PROVE QueueInv' /\ KeepsPlaces
<1> USE DEF Unqueued
<1>1. /\ UNCHANGED <<schedulerVars, tick, durable, recorded, row, conn, mail, waiters, drows>>
  BY DEF Leave, Goto, durableVars
<1>2. /\ TickPhasesHold' /\ OnePlace' /\ \A q \in AcquireRequests : Somewhere(q)' <=> Somewhere(q)
      /\ tick' = tick /\ durable' = durable /\ queues' = queues
  BY <1>1, NothingMoves
<1>3. QueueTypes'
  BY <1>1, <1>2 DEF QueueInv, QueueTypes, schedulerVars
<1>4. CapInv'
  BY <1>1, CapKept DEF QueueInv, QueueTypes, ActiveRows
<1>5. DurableInv'
  BY <1>1, <1>2 DEF QueueInv, QueueTypes, DurableInv, QueuedRow
<1>6. RequestInv'
  BY <1>1, <1>2 DEF QueueInv, QueueTypes, RequestInv
<1>7. RowInv'
  BY <1>1, <1>2 DEF QueueInv, QueueTypes, RowInv
<1>8. WaiterInv'
  BY <1>1, <1>2 DEF QueueInv, QueueTypes, WaiterInv, Unanswered
<1>9. KeepsPlaces
  BY <1>1, <1>2 DEF KeepsPlaces, Unanswered, QueueInv, QueueTypes
<1> QED
  BY <1>2, <1>3, <1>4, <1>5, <1>6, <1>7, <1>8, <1>9 DEF QueueInv

(* A client that hangs up leaves context, work item and row behind.           *)
LEMMA DisconnectKeeps == ASSUME QueueInv, NEW r \in AcquireRequests, Disconnect(r) PROVE QueueInv' /\ KeepsPlaces
<1> USE DEF Unqueued
<1>1. /\ conn[r] = "parked"
      /\ conn' = [conn EXCEPT ![r] = "gone"]
      /\ UNCHANGED <<schedulerVars, tick, durable, recorded, row, mail, waiters, drows>>
  BY DEF Disconnect, Goto, durableVars
<1>2. /\ TickPhasesHold' /\ OnePlace' /\ \A q \in AcquireRequests : Somewhere(q)' <=> Somewhere(q)
      /\ tick' = tick /\ durable' = durable /\ queues' = queues
  BY <1>1, NothingMoves
<1>3. QueueTypes'
  BY <1>1, <1>2 DEF QueueInv, QueueTypes, schedulerVars
<1>4. CapInv'
  BY <1>1, CapKept DEF QueueInv, QueueTypes, ActiveRows
<1>5. DurableInv'
  BY <1>1, <1>2 DEF QueueInv, QueueTypes, DurableInv, QueuedRow
<1>6. RequestInv'
  BY <1>1, <1>2 DEF QueueInv, QueueTypes, RequestInv
<1>7. RowInv'
  BY <1>1, <1>2 DEF QueueInv, QueueTypes, RowInv
<1>8. WaiterInv'
  BY <1>1, <1>2 DEF QueueInv, QueueTypes, WaiterInv, Unanswered
<1>9. KeepsPlaces
  BY <1>1, <1>2 DEF KeepsPlaces, Unanswered, QueueInv, QueueTypes
<1> QED
  BY <1>2, <1>3, <1>4, <1>5, <1>6, <1>7, <1>8, <1>9 DEF QueueInv

(* The durable row is new, because an enqueued request has none; without it   *)
(* the request is refused.                                                    *)
LEMMA DurableEnqueueKeeps == ASSUME QueueInv, NEW r \in AcquireRequests, DurableEnqueue(r) PROVE QueueInv' /\ KeepsPlaces
<1> USE DEF Unqueued
<1>1. /\ conn[r] = "enqueued" /\ UNCHANGED <<schedulerVars, tick, durable, recorded, row, mail>>
      /\ \/ \E d : /\ d.id = r /\ drows' = drows \cup {d} /\ waiters' = waiters
                   /\ conn' = [conn EXCEPT ![r] = "parked"]
         \/ drows' = drows /\ waiters' = waiters \ {r} /\ conn' = [conn EXCEPT ![r] = "refused"]
  <2>1. DurableRow(r).id = r
    BY DEF DurableRow
  <2> QED
    BY <2>1 DEF DurableEnqueue, Goto
<1>2. /\ TickPhasesHold' /\ OnePlace' /\ \A q \in AcquireRequests : Somewhere(q)' <=> Somewhere(q)
      /\ tick' = tick /\ durable' = durable /\ queues' = queues
  BY <1>1, NothingMoves
<1>3. durable /\ mail[r] = mail'[r]
  BY <1>1 DEF QueueInv, DurableInv
<1>4. QueueTypes'
  BY <1>1, <1>2 DEF QueueInv, QueueTypes, schedulerVars
<1>5. CapInv'
  BY <1>1, CapKept DEF QueueInv, QueueTypes, ActiveRows
<1>6. DurableInv'
  <2>1. CASE drows' = drows /\ conn' = [conn EXCEPT ![r] = "refused"]
    BY <1>1, <1>2, <1>3, <2>1 DEF QueueInv, QueueTypes, DurableInv
  <2>2. ASSUME NEW d, d.id = r, drows' = drows \cup {d}, conn' = [conn EXCEPT ![r] = "parked"]
        PROVE  DurableInv'
    <3>1. \A e \in drows : e.id # r
      BY <1>1 DEF QueueInv, DurableInv
    <3>2. \A e, f \in drows' : e.id = f.id => e = f
      BY <2>2, <3>1 DEF QueueInv, DurableInv
    <3>3. \A e \in drows' : e.id \in AcquireRequests /\ conn'[e.id] \notin Unqueued \cup {"enqueued"}
      BY <2>2 DEF QueueInv, QueueTypes, DurableInv
    <3>4. r \notin Ids(tick.claimed) /\ (tick.phase = "reserve" => r \notin Ids(tick.cands))
      BY <1>1 DEF QueueInv, DurableInv
    <3>5. \A q : q # r => conn'[q] = conn[q]
      BY <2>2 DEF QueueInv, QueueTypes
    <3> QED
      BY <1>2, <1>3, <2>2, <3>2, <3>3, <3>4, <3>5 DEF QueueInv, DurableInv
  <2> QED
    BY <1>1, <2>1, <2>2
<1>7. RequestInv'
  BY <1>1, <1>2 DEF QueueInv, QueueTypes, RequestInv
<1>8. RowInv'
  BY <1>1, <1>2, <1>3 DEF QueueInv, QueueTypes, RowInv
<1>9. WaiterInv'
  BY <1>2, <1>3 DEF WaiterInv
<1>10. KeepsPlaces
  BY <1>3 DEF KeepsPlaces
<1> QED
  BY <1>2, <1>4, <1>5, <1>6, <1>7, <1>8, <1>9, <1>10 DEF QueueInv

(* close, the reaper and the sweeps end rows that no job of the tick owns.    *)
LEMMA FreeSlotKeeps == ASSUME QueueInv, NEW r \in AcquireRequests, FreeSlot(r) PROVE QueueInv' /\ KeepsPlaces
<1> USE DEF Unqueued
<1>1. PICK left \in {"Terminal", "none"} :
        /\ row[r] \in {"Held", "Abandoned", "Claimed"} /\ row' = [row EXCEPT ![r] = left]
        /\ row[r] = "Held" => conn[r] = "lease" \/ mail[r] = "lease"
        /\ tick.job.id # r
        /\ UNCHANGED <<schedulerVars, tick, durable, recorded, conn, mail, waiters, drows>>
  BY DEF FreeSlot, SetRow, handlerVars, durableVars
<1>2. /\ TickPhasesHold' /\ OnePlace' /\ \A q \in AcquireRequests : Somewhere(q)' <=> Somewhere(q)
      /\ tick' = tick /\ durable' = durable /\ queues' = queues
  BY <1>1, NothingMoves
<1>4. QueueTypes'
  BY <1>1, <1>2 DEF QueueInv, QueueTypes, schedulerVars
<1>5. CapInv'
  BY <1>1, CapKept DEF QueueInv, QueueTypes, ActiveRows
<1>6. DurableInv'
  BY <1>1, <1>2 DEF QueueInv, QueueTypes, DurableInv
<1>7. RequestInv'
  BY <1>1, <1>2 DEF QueueInv, QueueTypes, RequestInv
<1>8. RowInv'
  BY <1>1, <1>2 DEF QueueInv, QueueTypes, RowInv
<1>9. WaiterInv'
  BY <1>1, <1>2 DEF QueueInv, QueueTypes, WaiterInv, Unanswered
<1>10. KeepsPlaces
  BY <1>1, <1>2 DEF KeepsPlaces, Unanswered
<1> QED
  BY <1>2, <1>4, <1>5, <1>6, <1>7, <1>8, <1>9, <1>10 DEF QueueInv

(* try_enqueue at the end of the FIFO of r's tenant. *)
LEMMA FifoGrows ==
  ASSUME QueueInv, NEW r \in AcquireRequests, ~Fifo(r), queues' = [queues EXCEPT ![Owner[r]] = Append(@, r)]
  PROVE  /\ queues' \in [SchedTenants -> Seq(AcquireRequests)]
         /\ \A t \in SchedTenants : NoDup(queues'[t]) /\ \A q \in ToSet(queues'[t]) : Owner[q] = t
         /\ \A q \in AcquireRequests : Fifo(q)' <=> Fifo(q) \/ q = r
<1> DEFINE u == Owner[r]
<1>1. u \in SchedTenants /\ queues \in [SchedTenants -> Seq(AcquireRequests)]
  BY OwnerTyped DEF QueueInv, QueueTypes
<1>2. \A t \in SchedTenants : queues'[t] = IF t = u THEN Append(queues[u], r) ELSE queues[t]
  BY <1>1
<1>3. /\ Append(queues[u], r) \in Seq(AcquireRequests)
      /\ ToSet(Append(queues[u], r)) = ToSet(queues[u]) \cup {r}
      /\ NoDup(queues[u]) /\ r \notin ToSet(queues[u]) => NoDup(Append(queues[u], r))
  BY <1>1, AppendTo
<1>4. \A t \in SchedTenants : NoDup(queues[t]) /\ \A q \in ToSet(queues[t]) : Owner[q] = t
  BY DEF QueueInv, OnePlace
<1>5. r \notin ToSet(queues[u])
  BY DEF Fifo
<1>6. queues' \in [SchedTenants -> Seq(AcquireRequests)]
  BY <1>1, <1>3
<1>7. ASSUME NEW t \in SchedTenants PROVE NoDup(queues'[t]) /\ \A q \in ToSet(queues'[t]) : Owner[q] = t
  BY <1>1, <1>2, <1>3, <1>4, <1>5
<1>8. ASSUME NEW q \in AcquireRequests PROVE Fifo(q)' <=> Fifo(q) \/ q = r
  BY <1>1, <1>2, <1>3, OwnerTyped DEF Fifo
<1> QED
  BY <1>6, <1>7, <1>8

(* A request that was in no queue gets its one place and its context.         *)
LEMMA EnqueueKeeps == ASSUME QueueInv, NEW r \in AcquireRequests, Enqueue(r) PROVE QueueInv' /\ KeepsPlaces
<1> USE DEF Unqueued
<1>1. /\ conn[r] = "taking" /\ queues' = [queues EXCEPT ![Owner[r]] = Append(@, r)]
      /\ waiters' = waiters \cup {r}
      /\ conn' = [conn EXCEPT ![r] = IF durable THEN "enqueued" ELSE "parked"]
      /\ UNCHANGED <<cursor, owed_skip, scan, mail, row, tick, recorded, durable, drows>>
  BY DEF Enqueue, TryEnqueue, CanPark, Goto, durableVars
<1>2. ~Somewhere(r) /\ mail[r] = "none"
  BY <1>1 DEF QueueInv, RequestInv
<1>3. /\ queues' \in [SchedTenants -> Seq(AcquireRequests)]
      /\ \A t \in SchedTenants : NoDup(queues'[t]) /\ \A q \in ToSet(queues'[t]) : Owner[q] = t
      /\ \A q \in AcquireRequests : Fifo(q)' <=> Fifo(q) \/ q = r
  BY <1>1, <1>2, FifoGrows DEF Somewhere
<1>4. \A q \in AcquireRequests : Somewhere(q)' <=> Somewhere(q) \/ q = r
  BY <1>1, <1>3 DEF Somewhere
<1>5. TickPhasesHold'
  BY <1>1 DEF QueueInv, TickPhasesHold
<1>6. OnePlace'
  BY <1>1, <1>2, <1>3 DEF QueueInv, OnePlace, Somewhere
<1>7. QueueTypes'
  BY <1>1, <1>3 DEF QueueInv, QueueTypes
<1>8. CapInv'
  BY <1>1, CapKept DEF QueueInv, QueueTypes, ActiveRows
<1>9. DurableInv'
  BY <1>1, <1>2 DEF QueueInv, QueueTypes, DurableInv, Somewhere, OnePlace
<1>10. RequestInv'
  BY <1>1, <1>2, <1>4 DEF QueueInv, QueueTypes, RequestInv, Somewhere
<1>11. RowInv'
  BY <1>1, <1>2 DEF QueueInv, QueueTypes, RowInv
<1>12. WaiterInv'
  BY <1>1, <1>2 DEF QueueInv, QueueTypes, WaiterInv, Unanswered, Somewhere, Ids
<1>13. KeepsPlaces
  BY <1>1, <1>4 DEF KeepsPlaces, Unanswered, QueueInv, QueueTypes
<1> QED
  BY <1>5, <1>6, <1>7, <1>8, <1>9, <1>10, <1>11, <1>12, <1>13 DEF QueueInv

(* The types of the tick's parts. *)
LEMMA TickTyped ==
  ASSUME QueueInv
  PROVE  /\ tick \in Tick /\ tick.cands \in Seq(Candidate) /\ tick.claimed \in Seq(Candidate)
         /\ tick.rejects \in Seq(AcquireRequests) /\ tick.finalize \in Seq(AcquireRequests)
         /\ Ids(tick.cands) \subseteq AcquireRequests /\ Ids(tick.claimed) \subseteq AcquireRequests
         /\ ToSet(tick.rejects) \subseteq AcquireRequests /\ ToSet(tick.finalize) \subseteq AcquireRequests
<1>1. tick \in Tick
  BY DEF QueueInv, QueueTypes
<1>2. /\ tick.cands \in Seq(Candidate) /\ tick.claimed \in Seq(Candidate)
      /\ tick.rejects \in Seq(AcquireRequests) /\ tick.finalize \in Seq(AcquireRequests)
  BY <1>1 DEF Tick
<1>3. ASSUME NEW cs \in Seq(Candidate) PROVE Ids(cs) \subseteq AcquireRequests
  <2>1. \A c \in ToSet(cs) : c \in Candidate
    BY DEF ToSet
  <2>2. \A c \in Candidate : c.id \in AcquireRequests
    BY DEF Candidate
  <2> QED
    BY <2>1, <2>2 DEF Ids
<1>4. ASSUME NEW rs \in Seq(AcquireRequests) PROVE ToSet(rs) \subseteq AcquireRequests
  BY DEF ToSet
<1> QED
  BY <1>1, <1>2, <1>3, <1>4

(* A step of the scan that serves nobody. *)
LEMMA ScanKeeps ==
  ASSUME QueueInv, scan'.on = scan.on, "on" \in DOMAIN scan',
         UNCHANGED <<queues, tick, conn, mail, waiters, row, recorded, durable, drows>>
  PROVE  QueueInv' /\ KeepsPlaces
<1>1. QueueTypes' /\ TickPhasesHold' /\ OnePlace' /\ \A r \in AcquireRequests : Somewhere(r)' <=> Somewhere(r)
  BY DEF QueueInv, QueueTypes, TickPhasesHold, OnePlace, Somewhere, Fifo
<1>2. DurableInv' /\ RequestInv' /\ RowInv' /\ WaiterInv'
  BY <1>1 DEF QueueInv, DurableInv, RequestInv, RowInv, WaiterInv, Unanswered
<1>3. CapInv'
  BY CapKept
<1>4. KeepsPlaces
  BY <1>1 DEF KeepsPlaces, Unanswered
<1> QED
  BY <1>1, <1>2, <1>3, <1>4 DEF QueueInv

(* A step that only takes the tick to its next phase. *)
LEMMA PhaseKeeps ==
  ASSUME QueueInv, NEW p \in TickPhases, tick' = [tick EXCEPT !.phase = p], "on" \in DOMAIN scan',
         TickPhasesHold', p = "reserve" => ~durable,
         UNCHANGED <<queues, conn, mail, waiters, row, recorded, durable, drows>>
  PROVE  QueueInv' /\ KeepsPlaces
<1>1. /\ tick' \in Tick /\ tick'.phase = p /\ tick'.cands = tick.cands /\ tick'.claimed = tick.claimed
      /\ tick'.rejects = tick.rejects /\ tick'.finalize = tick.finalize /\ tick'.job = tick.job
      /\ tick'.genuine = tick.genuine
  BY TickTyped DEF Tick
<1>2. QueueTypes'
  BY <1>1 DEF QueueInv, QueueTypes
<1>3. OnePlace' /\ \A r \in AcquireRequests : Somewhere(r)' <=> Somewhere(r)
  BY <1>1 DEF QueueInv, OnePlace, Somewhere, Fifo
<1>4. DurableInv'
  BY <1>1, TickTyped DEF QueueInv, DurableInv
<1>5. RequestInv' /\ RowInv' /\ WaiterInv'
  BY <1>1, <1>3 DEF QueueInv, RequestInv, RowInv, WaiterInv, Unanswered
<1>6. CapInv'
  BY CapKept
<1>7. KeepsPlaces
  BY <1>3 DEF KeepsPlaces, Unanswered
<1> QED
  BY <1>2, <1>3, <1>4, <1>5, <1>6, <1>7 DEF QueueInv

(* The steps that begin a phase find the lists of the earlier ones consumed.  *)
LEMMA PhaseStepsKeep ==
  ASSUME QueueInv, TickBegin \/ TickSelected \/ ReserveDone \/ RejectDone
  PROVE  QueueInv' /\ KeepsPlaces
<1>1. UNCHANGED <<queues, conn, mail, waiters, row, recorded, durable, drows>>
  BY DEF TickBegin, TickSelected, ReserveDone, RejectDone, BeginScan, EndScan,
         handlerVars, durableVars, schedulerVars
<1>2. ASSUME NEW p \in TickPhases, tick' = [tick EXCEPT !.phase = p]
      PROVE  /\ tick'.phase = p /\ tick'.cands = tick.cands /\ tick'.claimed = tick.claimed
             /\ tick'.rejects = tick.rejects /\ tick'.finalize = tick.finalize /\ tick'.job = tick.job
  BY <1>2, TickTyped DEF Tick
<1> USE DEF TickPhases
<1>3. CASE TickBegin
  <2>1. tick.phase = "idle" /\ tick' = [tick EXCEPT !.phase = "scan"]
    BY <1>3 DEF TickBegin, InPhase
  <2>2. scan'.on /\ "on" \in DOMAIN scan'
    BY <1>3 DEF TickBegin, BeginScan, NoScan
  <2>3. TickPhasesHold'
    BY <1>1, <1>2, <2>1, <2>2 DEF QueueInv, TickPhasesHold
  <2> QED
    BY <1>1, <2>1, <2>2, <2>3, PhaseKeeps
<1>4. CASE TickSelected
  <2>1. scan.on /\ tick' = [tick EXCEPT !.phase = IF durable THEN "claim" ELSE "reserve"]
    BY <1>4 DEF TickSelected, EndScan, PassOver
  <2>2. ~scan'.on /\ "on" \in DOMAIN scan'
    BY <1>4 DEF TickSelected, EndScan, NoScan
  <2>3. CASE durable
    <3>1. TickPhasesHold'
      BY <1>1, <1>2, <2>1, <2>2, <2>3 DEF QueueInv, TickPhasesHold
    <3> QED
      BY <1>1, <2>1, <2>2, <2>3, <3>1, PhaseKeeps
  <2>4. CASE ~durable
    <3>1. TickPhasesHold'
      BY <1>1, <1>2, <2>1, <2>2, <2>4 DEF QueueInv, TickPhasesHold
    <3> QED
      BY <1>1, <2>1, <2>2, <2>4, <3>1, PhaseKeeps
  <2> QED
    BY <2>3, <2>4
<1>5. CASE ReserveDone
  <2>1. /\ tick.phase = "reserve" /\ tick.cands = <<>> /\ tick' = [tick EXCEPT !.phase = "reject"]
        /\ scan' = scan /\ "on" \in DOMAIN scan
    BY <1>5 DEF ReserveDone, InPhase, schedulerVars, QueueInv, QueueTypes
  <2>2. TickPhasesHold'
    BY <1>1, <1>2, <2>1 DEF QueueInv, TickPhasesHold
  <2> QED
    BY <1>1, <2>1, <2>2, PhaseKeeps
<1>6. CASE RejectDone
  <2>1. /\ tick.phase = "reject" /\ tick.rejects = <<>> /\ tick' = [tick EXCEPT !.phase = "finalize"]
        /\ scan' = scan /\ "on" \in DOMAIN scan
    BY <1>6 DEF RejectDone, InPhase, schedulerVars, QueueInv, QueueTypes
  <2>2. TickPhasesHold'
    BY <1>1, <1>2, <2>1 DEF QueueInv, TickPhasesHold
  <2> QED
    BY <1>1, <2>1, <2>2, PhaseKeeps
<1> QED
  BY <1>3, <1>4, <1>5, <1>6

(* A tenant that is skipped, and the next pass of the scan.                   *)
LEMMA ScanStepsKeep ==
  ASSUME QueueInv, TickPass \/ \E t \in SchedTenants : TickSkip(t)
  PROVE  QueueInv' /\ KeepsPlaces
<1>1. "on" \in DOMAIN scan /\ UNCHANGED <<queues, tick, conn, mail, waiters, row, recorded, durable, drows>>
  BY DEF QueueInv, QueueTypes, TickPass, TickSkip, NextPass, CapSkip, handlerVars, durableVars
<1>2. \/ \E o, q : scan' = [scan EXCEPT !.order = o, !.parked = q]
      \/ \E o, q : scan' = [scan EXCEPT !.order = o, !.progressed = q]
  BY DEF TickPass, TickSkip, NextPass, CapSkip
<1>3. scan'.on = scan.on /\ "on" \in DOMAIN scan'
  BY <1>1, <1>2
<1> QED
  BY <1>1, <1>3, ScanKeeps

(* dispatch takes the head of one tenant's FIFO.                              *)
LEMMA FifoShrinks ==
  ASSUME QueueInv, NEW t \in SchedTenants, queues[t] # <<>>, queues' = [queues EXCEPT ![t] = Tail(@)]
  PROVE  /\ queues' \in [SchedTenants -> Seq(AcquireRequests)]
         /\ \A u \in SchedTenants : NoDup(queues'[u]) /\ \A q \in ToSet(queues'[u]) : Owner[q] = u
         /\ Head(queues[t]) \in AcquireRequests /\ Fifo(Head(queues[t]))
         /\ \A q \in AcquireRequests : Fifo(q)' <=> Fifo(q) /\ q # Head(queues[t])
<1> DEFINE r == Head(queues[t])
<1>1. queues \in [SchedTenants -> Seq(AcquireRequests)]
  BY DEF QueueInv, QueueTypes
<1>2. \A u \in SchedTenants : queues'[u] = IF u = t THEN Tail(queues[t]) ELSE queues[u]
  BY <1>1
<1>3. /\ r \in AcquireRequests /\ Tail(queues[t]) \in Seq(AcquireRequests)
      /\ ToSet(queues[t]) = {r} \cup ToSet(Tail(queues[t]))
      /\ NoDup(queues[t]) => NoDup(Tail(queues[t])) /\ r \notin ToSet(Tail(queues[t]))
  BY <1>1, TailOf
<1>4. \A u \in SchedTenants : NoDup(queues[u]) /\ \A q \in ToSet(queues[u]) : Owner[q] = u
  BY DEF QueueInv, OnePlace
<1> HIDE DEF r
<1>5. Owner[r] = t /\ Fifo(r)
  BY <1>3, <1>4 DEF Fifo
<1>6. queues' \in [SchedTenants -> Seq(AcquireRequests)]
  BY <1>1, <1>3
<1>7. ASSUME NEW u \in SchedTenants PROVE NoDup(queues'[u]) /\ \A q \in ToSet(queues'[u]) : Owner[q] = u
  BY <1>2, <1>3, <1>4
<1>8. ASSUME NEW q \in AcquireRequests PROVE Fifo(q)' <=> Fifo(q) /\ q # r
  <2>1. CASE Owner[q] = t
    BY <1>2, <1>3, <1>4, <2>1 DEF Fifo
  <2>2. CASE Owner[q] # t
    BY <1>2, <1>5, <2>2, OwnerTyped DEF Fifo
  <2> QED
    BY <2>1, <2>2
<1> QED
  BY <1>3, <1>5, <1>6, <1>7, <1>8 DEF r

(* Selection moves the head of a FIFO to the candidates, with what the map    *)
(* says of its waiter.                                                        *)
LEMMA TickSelectKeeps == ASSUME QueueInv, NEW t \in SchedTenants, TickSelect(t) PROVE QueueInv' /\ KeepsPlaces
<1> USE DEF Unqueued
<1>1. PICK r : r = Head(queues[t])
  OBVIOUS
<1>2. PICK c : c = [id |-> r, live |-> r \in waiters]
  OBVIOUS
<1>3. /\ queues[t] # <<>> /\ scan.on /\ queues' = [queues EXCEPT ![t] = Tail(@)]
      /\ tick' = [tick EXCEPT !.cands = Append(@, c), !.report = @ \cup {r}]
      /\ \E o, n, p : scan' = [scan EXCEPT !.order = o, !.remaining = n, !.progressed = p]
      /\ UNCHANGED <<conn, mail, waiters, row, recorded, durable, drows>>
  BY <1>1, <1>2 DEF TickSelect, Select, Visiting, handlerVars, durableVars
<1>4. scan'.on = scan.on /\ "on" \in DOMAIN scan'
  BY <1>3 DEF QueueInv, QueueTypes
<1>5. /\ queues' \in [SchedTenants -> Seq(AcquireRequests)]
      /\ \A u \in SchedTenants : NoDup(queues'[u]) /\ \A q \in ToSet(queues'[u]) : Owner[q] = u
      /\ r \in AcquireRequests /\ Fifo(r)
      /\ \A q \in AcquireRequests : Fifo(q)' <=> Fifo(q) /\ q # r
  BY <1>1, <1>3, FifoShrinks
<1>6. c \in Candidate /\ c.id = r /\ (c.live <=> r \in waiters)
  <2>1. CASE r \in waiters
    <3>1. c = [id |-> r, live |-> TRUE]
      BY <1>2, <2>1, Zenon
    <3> QED
      BY <1>5, <2>1, <3>1 DEF Candidate
  <2>2. CASE r \notin waiters
    <3>1. (r \in waiters) = FALSE
      BY <2>2
    <3>2. c = [id |-> r, live |-> FALSE]
      BY <1>2, <3>1, Zenon
    <3> QED
      BY <1>5, <2>2, <3>2 DEF Candidate
  <2> QED
    BY <2>1, <2>2
<1>7. /\ Append(tick.cands, c) \in Seq(Candidate) /\ ToSet(Append(tick.cands, c)) = ToSet(tick.cands) \cup {c}
      /\ Ids(Append(tick.cands, c)) = Ids(tick.cands) \cup {r}
      /\ NoDupIds(tick.cands) /\ r \notin Ids(tick.cands) => NoDupIds(Append(tick.cands, c))
  BY <1>6, TickTyped, AppendTo, AppendToCands
<1>8. /\ tick' \in Tick /\ tick'.phase = tick.phase /\ tick'.cands = Append(tick.cands, c)
      /\ tick'.claimed = tick.claimed /\ tick'.rejects = tick.rejects /\ tick'.finalize = tick.finalize
      /\ tick'.job = tick.job /\ tick'.genuine = tick.genuine
  BY <1>3, <1>5, <1>7, TickTyped DEF Tick
<1>9. tick.phase = "scan"
  BY <1>3 DEF QueueInv, TickPhasesHold
<1>10. QueueTypes'
  BY <1>3, <1>4, <1>5, <1>8 DEF QueueInv, QueueTypes
<1>11. TickPhasesHold'
  BY <1>3, <1>4, <1>8, <1>9 DEF QueueInv, TickPhasesHold
<1>12. OnePlace'
  BY <1>5, <1>7, <1>8 DEF QueueInv, OnePlace
<1>13. \A q \in AcquireRequests : Somewhere(q)' <=> Somewhere(q)
  BY <1>5, <1>7, <1>8 DEF Somewhere
<1>14. DurableInv'
  BY <1>3, <1>8, <1>9 DEF QueueInv, DurableInv
<1>15. RequestInv'
  BY <1>3, <1>8, <1>13 DEF QueueInv, RequestInv
<1>16. RowInv'
  BY <1>3, <1>8 DEF QueueInv, RowInv
<1>17. WaiterInv'
  <2>1. tick.job.id # r
    BY <1>5 DEF QueueInv, OnePlace
  <2> QED
    BY <1>3, <1>5, <1>6, <1>7, <1>8, <2>1 DEF QueueInv, WaiterInv, Unanswered
<1>18. CapInv'
  BY <1>3, CapKept
<1>19. KeepsPlaces
  BY <1>3, <1>13 DEF KeepsPlaces, Unanswered
<1> QED
  BY <1>10, <1>11, <1>12, <1>14, <1>15, <1>16, <1>17, <1>18, <1>19 DEF QueueInv

(* A durable row is claimed once: it is deleted with the claim.               *)
LEMMA ClaimNextKeeps == ASSUME QueueInv, ClaimNext PROVE QueueInv' /\ KeepsPlaces
<1> USE DEF Unqueued
<1>1. PICK d \in drows :
        /\ d.id \in LocalIds /\ drows' = drows \ {d} /\ tick.phase = "claim"
        /\ tick' = [tick EXCEPT !.claimed = Append(@, [id |-> d.id, live |-> TRUE])]
        /\ UNCHANGED <<schedulerVars, conn, mail, waiters, row, recorded, durable>>
  BY DEF ClaimNext, DequeueNextLocal, DequeueHead, InPhase, handlerVars
<1>2. PICK c : c = [id |-> d.id, live |-> TRUE]
  OBVIOUS
<1>3. /\ d.id \in AcquireRequests /\ conn[d.id] \notin Unqueued \cup {"enqueued"}
      /\ d.id \notin Ids(tick.claimed) /\ \A e \in drows : e.id = d.id => e = d
  BY DEF QueueInv, DurableInv
<1>4. d.id \in Ids(tick.cands)
  BY <1>1 DEF LocalIds, Ids, ToSet
<1>5. c \in Candidate /\ c.id = d.id
  BY <1>2, <1>3 DEF Candidate
<1>6. /\ Append(tick.claimed, c) \in Seq(Candidate) /\ Ids(Append(tick.claimed, c)) = Ids(tick.claimed) \cup {d.id}
      /\ NoDupIds(tick.claimed) => NoDupIds(Append(tick.claimed, c))
  BY <1>3, <1>5, TickTyped, AppendTo, AppendToCands
<1>7. /\ tick' \in Tick /\ tick'.phase = tick.phase /\ tick'.cands = tick.cands
      /\ tick'.claimed = Append(tick.claimed, c) /\ tick'.rejects = tick.rejects /\ tick'.finalize = tick.finalize
      /\ tick'.job = tick.job /\ tick'.genuine = tick.genuine
  BY <1>1, <1>2, <1>6, TickTyped DEF Tick
<1>8. QueueTypes'
  BY <1>1, <1>7 DEF QueueInv, QueueTypes, schedulerVars
<1>9. TickPhasesHold'
  BY <1>1, <1>7 DEF QueueInv, TickPhasesHold, schedulerVars
<1>10. OnePlace' /\ \A q \in AcquireRequests : Somewhere(q)' <=> Somewhere(q)
  BY <1>1, <1>4, <1>6, <1>7 DEF QueueInv, OnePlace, Somewhere, Fifo, schedulerVars
<1>11. DurableInv'
  BY <1>1, <1>3, <1>6, <1>7 DEF QueueInv, DurableInv
<1>12. RequestInv' /\ RowInv'
  BY <1>1, <1>7, <1>10 DEF QueueInv, RequestInv, RowInv
<1>13. WaiterInv'
  BY <1>1, <1>7 DEF QueueInv, WaiterInv, Unanswered
<1>14. CapInv'
  BY <1>1, CapKept
<1>15. KeepsPlaces
  BY <1>1, <1>10 DEF KeepsPlaces, Unanswered
<1> QED
  BY <1>8, <1>9, <1>10, <1>11, <1>12, <1>13, <1>14, <1>15 DEF QueueInv

(* The claimed take the place of the candidates.                              *)
LEMMA ClaimDoneKeeps == ASSUME QueueInv, ClaimDone PROVE QueueInv' /\ KeepsPlaces
<1> USE DEF Unqueued
<1>1. /\ tick.phase = "claim" /\ tick' = [tick EXCEPT !.phase = "reserve", !.cands = tick.claimed, !.claimed = <<>>]
      /\ UNCHANGED <<schedulerVars, conn, mail, waiters, row, recorded, durable, drows>>
  BY DEF ClaimDone, InPhase, handlerVars, durableVars
<1>2. /\ tick' \in Tick /\ tick'.phase = "reserve" /\ tick'.cands = tick.claimed
      /\ tick'.claimed = <<>> /\ tick'.rejects = tick.rejects /\ tick'.finalize = tick.finalize
      /\ tick'.job = tick.job /\ tick'.genuine = tick.genuine
  <2>1. PICK none : none = <<>> /\ none \in Seq(Candidate)
    <3>1. <<>> \in Seq(Candidate)
      OBVIOUS
    <3> QED
      BY <3>1
  <2>2. tick' = [tick EXCEPT !.phase = "reserve", !.cands = tick.claimed, !.claimed = none]
    BY <1>1, <2>1
  <2> QED
    BY <2>1, <2>2, TickTyped DEF Tick, TickPhases
<1>3. durable
  BY <1>1 DEF QueueInv, TickPhasesHold
<1>4. QueueTypes'
  BY <1>1, <1>2 DEF QueueInv, QueueTypes, schedulerVars
<1>5. TickPhasesHold'
  BY <1>1, <1>2 DEF QueueInv, TickPhasesHold, schedulerVars
<1>6. OnePlace' /\ \A q \in AcquireRequests : Somewhere(q)' => Somewhere(q)
  BY <1>1, <1>2, EmptySequence DEF QueueInv, OnePlace, Somewhere, Fifo, schedulerVars
<1>7. DurableInv'
  BY <1>1, <1>2, <1>3, EmptySequence DEF QueueInv, DurableInv
<1>8. RequestInv' /\ RowInv'
  BY <1>1, <1>2, <1>6 DEF QueueInv, RequestInv, RowInv
<1>9. WaiterInv'
  BY <1>1, <1>3 DEF WaiterInv
<1>10. CapInv'
  BY <1>1, CapKept
<1>11. KeepsPlaces
  BY <1>3 DEF KeepsPlaces
<1> QED
  BY <1>4, <1>5, <1>6, <1>7, <1>8, <1>9, <1>10, <1>11 DEF QueueInv

(* The head of the candidates leaves the list while the tick reserves. *)
LEMMA ReservingTail ==
  ASSUME QueueInv, NEW r, Reserving(r)
  PROVE  /\ tick.phase = "reserve" /\ ~scan.on /\ r \in AcquireRequests /\ r \in Ids(tick.cands)
         /\ Tail(tick.cands) \in Seq(Candidate) /\ Ids(tick.cands) = {r} \cup Ids(Tail(tick.cands))
         /\ ToSet(Tail(tick.cands)) \subseteq ToSet(tick.cands)
         /\ NoDupIds(Tail(tick.cands)) /\ r \notin Ids(Tail(tick.cands))
         /\ tick.claimed = <<>> /\ tick.job = NoJob
         /\ conn[r] \notin Unqueued \cup {"enqueued"} /\ mail[r] = "none" /\ ~Fifo(r)
         /\ r \notin ToSet(tick.rejects) /\ r \notin ToSet(tick.finalize)
         /\ \A d \in drows : d.id # r
<1>1. tick.phase = "reserve" /\ ~scan.on /\ tick.cands # <<>> /\ r = Head(tick.cands).id
  BY DEF Reserving, InPhase
<1>2. tick.cands \in Seq(Candidate) /\ NoDupIds(tick.cands)
  BY TickTyped DEF QueueInv, OnePlace
<1>3. Tail(tick.cands) \in Seq(Candidate) /\ ToSet(Tail(tick.cands)) \subseteq ToSet(tick.cands)
  BY <1>1, <1>2, TailOf
<1>4. /\ r \in AcquireRequests /\ Ids(tick.cands) = {r} \cup Ids(Tail(tick.cands))
      /\ NoDupIds(Tail(tick.cands)) /\ r \notin Ids(Tail(tick.cands))
  BY <1>1, <1>2, TailOfCands
<1>5. tick.claimed = <<>> /\ tick.job = NoJob
  BY <1>1 DEF QueueInv, TickPhasesHold
<1>6. /\ conn[r] # "enqueued" /\ \A d \in drows : d.id # r
  BY <1>1, <1>4 DEF QueueInv, DurableInv
<1>7. Somewhere(r) /\ conn[r] \notin Unqueued /\ mail[r] = "none"
  BY <1>4 DEF QueueInv, RequestInv, Somewhere
<1>8. ~Fifo(r) /\ r \notin ToSet(tick.rejects) /\ r \notin ToSet(tick.finalize)
  BY <1>4 DEF QueueInv, OnePlace
<1> QED
  BY <1>1, <1>3, <1>4, <1>5, <1>6, <1>7, <1>8

(* An item without a waiter is dropped, and only such an item.                *)
LEMMA ReserveOrphanKeeps == ASSUME QueueInv, NEW r \in AcquireRequests, ReserveOrphan(r) PROVE QueueInv' /\ KeepsPlaces
<1> USE DEF Unqueued
<1>1. /\ tick' = [tick EXCEPT !.cands = Tail(@)] /\ Reserving(r)
      /\ UNCHANGED <<schedulerVars, conn, mail, waiters, row, recorded, durable, drows>>
  BY DEF ReserveOrphan, handlerVars, durableVars
<1>2. /\ tick' \in Tick /\ tick'.phase = tick.phase /\ tick'.cands = Tail(tick.cands)
      /\ tick'.claimed = tick.claimed /\ tick'.rejects = tick.rejects /\ tick'.finalize = tick.finalize
      /\ tick'.job = tick.job /\ tick'.genuine = tick.genuine
  BY <1>1, ReservingTail, TickTyped DEF Tick
<1>3. QueueTypes'
  BY <1>1, <1>2 DEF QueueInv, QueueTypes, schedulerVars
<1>4. TickPhasesHold'
  BY <1>1, <1>2, ReservingTail DEF QueueInv, TickPhasesHold, schedulerVars
<1>5. OnePlace' /\ \A q \in AcquireRequests : Somewhere(q)' => Somewhere(q)
  BY <1>1, <1>2, ReservingTail, EmptySequence DEF QueueInv, OnePlace, Somewhere, Fifo, schedulerVars
<1>6. DurableInv'
  BY <1>1, <1>2, ReservingTail DEF QueueInv, DurableInv
<1>7. RequestInv' /\ RowInv'
  BY <1>1, <1>2, <1>5 DEF QueueInv, RequestInv, RowInv
<1>8. WaiterInv'
  BY <1>1, <1>2, ReservingTail DEF QueueInv, WaiterInv, Unanswered
<1>9. CapInv'
  BY <1>1, CapKept
<1>10. KeepsPlaces
  <2>1. Head(tick.cands) \in ToSet(tick.cands) /\ Head(tick.cands).id = r /\ ~Head(tick.cands).live
    <3>1. tick.cands # <<>> /\ Head(tick.cands).id = r /\ ~Head(tick.cands).live
      BY DEF ReserveOrphan, Reserving
    <3>2. ToSet(tick.cands) = {Head(tick.cands)} \cup ToSet(Tail(tick.cands))
      BY <3>1, TickTyped, TailOf
    <3> QED
      BY <3>1, <3>2
  <2>2. ~durable => ~Unanswered(r)
    BY <2>1 DEF QueueInv, WaiterInv
  <2>3. \A q \in AcquireRequests : q # r => (Somewhere(q)' <=> Somewhere(q))
    BY <1>1, <1>2, ReservingTail DEF Somewhere, Fifo, schedulerVars
  <2> QED
    BY <1>1, <2>2, <2>3 DEF KeepsPlaces, Unanswered
<1> QED
  BY <1>3, <1>4, <1>5, <1>6, <1>7, <1>8, <1>9, <1>10 DEF QueueInv

(* The candidate that try_admit admits has a Pending row and waits to be      *)
(* finalized.                                                                 *)
LEMMA ReserveAdmittedKeeps == ASSUME QueueInv, NEW r \in AcquireRequests, ReserveAdmitted(r) PROVE QueueInv' /\ KeepsPlaces
<1> USE DEF Unqueued
<1>1. /\ tick' = [tick EXCEPT !.cands = Tail(@), !.finalize = Append(@, r)] /\ Reserving(r)
      /\ row[r] = "none" /\ Cardinality(Active(Owner[r])) < Cap /\ SetRow(r, "Pending")
      /\ UNCHANGED <<schedulerVars, conn, mail, waiters, recorded, durable, drows>>
  BY DEF ReserveAdmitted, handlerVars
<1>2. row' = [row EXCEPT ![r] = "Pending"]
  BY <1>1 DEF SetRow
<1>3. /\ Append(tick.finalize, r) \in Seq(AcquireRequests)
      /\ ToSet(Append(tick.finalize, r)) = ToSet(tick.finalize) \cup {r}
      /\ NoDup(Append(tick.finalize, r))
  BY <1>1, TickTyped, AppendTo, ReservingTail DEF QueueInv, OnePlace
<1>4. /\ tick' \in Tick /\ tick'.phase = tick.phase /\ tick'.cands = Tail(tick.cands)
      /\ tick'.claimed = tick.claimed /\ tick'.rejects = tick.rejects /\ tick'.finalize = Append(tick.finalize, r)
      /\ tick'.job = tick.job /\ tick'.genuine = tick.genuine
  BY <1>1, <1>3, ReservingTail, TickTyped DEF Tick
<1>5. QueueTypes'
  BY <1>1, <1>2, <1>4 DEF QueueInv, QueueTypes, schedulerVars
<1>6. TickPhasesHold'
  BY <1>1, <1>4, ReservingTail DEF QueueInv, TickPhasesHold, schedulerVars
<1>7. OnePlace' /\ \A q \in AcquireRequests : Somewhere(q)' <=> Somewhere(q)
  <2>1. \A q \in AcquireRequests : NoJob.id # q
    BY JobTyped
  <2> QED
    BY <1>1, <1>3, <1>4, <2>1, ReservingTail, EmptySequence
    DEF QueueInv, OnePlace, Somewhere, Fifo, schedulerVars
<1>8. DurableInv'
  BY <1>1, <1>4, ReservingTail DEF QueueInv, DurableInv
<1>9. RequestInv'
  BY <1>1, <1>4, <1>7 DEF QueueInv, RequestInv
<1>10. RowInv'
  <2>1. tick.job.id # r /\ conn[r] \notin Unqueued /\ mail[r] = "none"
    BY <1>1, ReservingTail, JobTyped
  <2>2. row'[r] = "Pending" /\ \A q \in AcquireRequests : q # r => row'[q] = row[q]
    BY <1>2 DEF QueueInv, QueueTypes
  <2> QED
    BY <1>1, <1>3, <1>4, <2>1, <2>2 DEF QueueInv, RowInv
<1>11. WaiterInv'
  BY <1>1, <1>4, ReservingTail DEF QueueInv, WaiterInv, Unanswered
<1>12. CapInv'
  BY <1>1, CapGrown
<1>13. KeepsPlaces
  BY <1>1, <1>7 DEF KeepsPlaces, Unanswered
<1> QED
  BY <1>5, <1>6, <1>7, <1>8, <1>9, <1>10, <1>11, <1>12, <1>13 DEF QueueInv

(* The candidate that cannot be admitted at all waits to be told.             *)
LEMMA ReserveRejectedKeeps == ASSUME QueueInv, NEW r \in AcquireRequests, ReserveRejected(r) PROVE QueueInv' /\ KeepsPlaces
<1> USE DEF Unqueued
<1>1. /\ tick' = [tick EXCEPT !.cands = Tail(@), !.rejects = Append(@, r)] /\ Reserving(r)
      /\ UNCHANGED <<schedulerVars, conn, mail, waiters, row, recorded, durable, drows>>
  BY DEF ReserveRejected, handlerVars, durableVars
<1>2. /\ Append(tick.rejects, r) \in Seq(AcquireRequests)
      /\ ToSet(Append(tick.rejects, r)) = ToSet(tick.rejects) \cup {r}
      /\ NoDup(Append(tick.rejects, r))
  BY <1>1, TickTyped, AppendTo, ReservingTail DEF QueueInv, OnePlace
<1>3. /\ tick' \in Tick /\ tick'.phase = tick.phase /\ tick'.cands = Tail(tick.cands)
      /\ tick'.claimed = tick.claimed /\ tick'.rejects = Append(tick.rejects, r) /\ tick'.finalize = tick.finalize
      /\ tick'.job = tick.job /\ tick'.genuine = tick.genuine
  BY <1>1, <1>2, ReservingTail, TickTyped DEF Tick
<1>4. QueueTypes'
  BY <1>1, <1>3 DEF QueueInv, QueueTypes, schedulerVars
<1>5. TickPhasesHold'
  BY <1>1, <1>3, ReservingTail DEF QueueInv, TickPhasesHold, schedulerVars
<1>6. OnePlace' /\ \A q \in AcquireRequests : Somewhere(q)' <=> Somewhere(q)
  <2>1. \A q \in AcquireRequests : NoJob.id # q
    BY JobTyped
  <2> QED
    BY <1>1, <1>2, <1>3, <2>1, ReservingTail, EmptySequence
    DEF QueueInv, OnePlace, Somewhere, Fifo, schedulerVars
<1>7. DurableInv'
  BY <1>1, <1>3, ReservingTail DEF QueueInv, DurableInv
<1>8. RequestInv' /\ RowInv'
  BY <1>1, <1>3, <1>6 DEF QueueInv, RequestInv, RowInv
<1>9. WaiterInv'
  BY <1>1, <1>3, ReservingTail DEF QueueInv, WaiterInv, Unanswered
<1>10. CapInv'
  BY <1>1, CapKept
<1>11. KeepsPlaces
  BY <1>1, <1>6 DEF KeepsPlaces, Unanswered
<1> QED
  BY <1>4, <1>5, <1>6, <1>7, <1>8, <1>9, <1>10, <1>11 DEF QueueInv

(* The loser of the cap race goes back to the end of its FIFO, unless that is *)
(* full.                                                                      *)
LEMMA ReserveLostKeeps == ASSUME QueueInv, NEW r \in AcquireRequests, ReserveLost(r) PROVE QueueInv' /\ KeepsPlaces
<1> USE DEF Unqueued
<1>1. /\ tick' = [tick EXCEPT !.cands = Tail(@)] /\ Reserving(r)
      /\ queues' = queues \/ queues' = [queues EXCEPT ![Owner[r]] = Append(@, r)]
      /\ UNCHANGED <<scan, conn, mail, waiters, row, recorded, durable>>
  BY DEF ReserveLost, TryEnqueue, handlerVars
<1>2. drows' = drows \/ (durable /\ \E d : d.id = r /\ drows' = drows \cup {d})
  <2>1. DurableRow(r).id = r
    BY DEF DurableRow
  <2> QED
    BY <2>1 DEF ReserveLost
<1>3. /\ queues' \in [SchedTenants -> Seq(AcquireRequests)]
      /\ \A t \in SchedTenants : NoDup(queues'[t]) /\ \A q \in ToSet(queues'[t]) : Owner[q] = t
      /\ \A q \in AcquireRequests : Fifo(q)' => Fifo(q) \/ q = r
  <2>1. CASE queues' = queues
    BY <2>1 DEF QueueInv, QueueTypes, OnePlace, Fifo
  <2>2. CASE queues' = [queues EXCEPT ![Owner[r]] = Append(@, r)]
    BY <1>1, <2>2, ReservingTail, FifoGrows
  <2> QED
    BY <1>1, <2>1, <2>2
<1>4. /\ tick' \in Tick /\ tick'.phase = tick.phase /\ tick'.cands = Tail(tick.cands)
      /\ tick'.claimed = tick.claimed /\ tick'.rejects = tick.rejects /\ tick'.finalize = tick.finalize
      /\ tick'.job = tick.job /\ tick'.genuine = tick.genuine
  BY <1>1, ReservingTail, TickTyped DEF Tick
<1>5. QueueTypes'
  BY <1>1, <1>3, <1>4 DEF QueueInv, QueueTypes
<1>6. TickPhasesHold'
  BY <1>1, <1>4, ReservingTail DEF QueueInv, TickPhasesHold
<1>7. OnePlace' /\ \A q \in AcquireRequests : Somewhere(q)' => Somewhere(q)
  <2>1. \A q \in AcquireRequests : NoJob.id # q
    BY JobTyped
  <2> QED
    BY <1>1, <1>3, <1>4, <2>1, ReservingTail, EmptySequence DEF QueueInv, OnePlace, Somewhere
<1>8. DurableInv'
  <2>1. CASE drows' = drows
    BY <1>1, <1>4, <2>1, ReservingTail DEF QueueInv, DurableInv
  <2>2. ASSUME durable, NEW d, d.id = r, drows' = drows \cup {d} PROVE DurableInv'
    BY <1>1, <1>4, <2>2, ReservingTail, EmptySequence DEF QueueInv, DurableInv
  <2> QED
    BY <1>2, <2>1, <2>2
<1>9. RequestInv' /\ RowInv'
  BY <1>1, <1>4, <1>7 DEF QueueInv, RequestInv, RowInv
<1>10. WaiterInv'
  BY <1>1, <1>4, ReservingTail DEF QueueInv, WaiterInv, Unanswered
<1>11. CapInv'
  BY <1>1, CapKept
<1>12. KeepsPlaces
  <2>1. CASE HasRoom(Owner[r])
    <3>1. queues' = [queues EXCEPT ![Owner[r]] = Append(@, r)]
      BY <2>1 DEF ReserveLost, TryEnqueue
    <3>2. \A q \in AcquireRequests : Fifo(q)' <=> Fifo(q) \/ q = r
      BY <1>1, <3>1, ReservingTail, FifoGrows
    <3>3. \A q \in AcquireRequests : Somewhere(q) => Somewhere(q)'
      BY <1>1, <1>4, <3>2, ReservingTail DEF Somewhere
    <3> QED
      BY <1>1, <3>3 DEF KeepsPlaces, Unanswered
  <2>2. CASE ~HasRoom(Owner[r])
    <3>1. queues' = queues
      BY <2>2 DEF ReserveLost, TryEnqueue
    <3>2. \A q \in AcquireRequests : q # r => (Somewhere(q)' <=> Somewhere(q))
      BY <1>1, <1>4, <3>1, ReservingTail DEF Somewhere, Fifo
    <3> QED
      BY <1>1, <2>2, <3>2 DEF KeepsPlaces, Unanswered
  <2> QED
    BY <2>1, <2>2
<1> QED
  BY <1>5, <1>6, <1>7, <1>8, <1>9, <1>10, <1>11, <1>12 DEF QueueInv

(* A rejected request leaves the queue with its answer.                       *)
LEMMA RejectNextKeeps == ASSUME QueueInv, RejectNext PROVE QueueInv' /\ KeepsPlaces
<1> USE DEF Unqueued
<1>1. PICK r : r = Head(tick.rejects)
  OBVIOUS
<1>2. /\ tick.phase = "reject" /\ tick.rejects # <<>> /\ tick' = [tick EXCEPT !.rejects = Tail(@)]
      /\ mail' = IF r \in waiters /\ Alive(r) THEN [mail EXCEPT ![r] = "refused"] ELSE mail
      /\ waiters' = waiters \ {r} /\ drows' = drows \ QueuedRow(r)
      /\ UNCHANGED <<schedulerVars, conn, row, recorded, durable>>
  BY <1>1 DEF RejectNext, InPhase, Send, DurableRemove
<1>3. /\ r \in AcquireRequests /\ Tail(tick.rejects) \in Seq(AcquireRequests)
      /\ ToSet(tick.rejects) = {r} \cup ToSet(Tail(tick.rejects))
      /\ NoDup(Tail(tick.rejects)) /\ r \notin ToSet(Tail(tick.rejects))
  BY <1>1, <1>2, TickTyped, TailOf DEF QueueInv, OnePlace
<1>4. /\ ~Fifo(r) /\ r \notin Ids(tick.cands) /\ r \notin ToSet(tick.finalize) /\ tick.job = NoJob /\ tick.job.id # r
      /\ conn[r] \notin Unqueued /\ mail[r] = "none" /\ recorded[r] = 0
  <2>1. Somewhere(r)
    BY <1>3 DEF Somewhere
  <2>2. mail[r] = "none" /\ conn[r] \notin Unqueued /\ recorded[r] # 1 /\ recorded[r] <= 1 /\ recorded[r] \in Nat
    BY <1>3, <2>1 DEF QueueInv, RequestInv, QueueTypes
  <2>3. ~Fifo(r) /\ r \notin Ids(tick.cands) /\ r \notin ToSet(tick.finalize) /\ tick.job.id # r
    BY <1>3 DEF QueueInv, OnePlace
  <2>4. tick.job = NoJob
    BY <1>2 DEF QueueInv, TickPhasesHold
  <2> QED
    BY <2>2, <2>3, <2>4
<1>5. /\ tick' \in Tick /\ tick'.phase = tick.phase /\ tick'.cands = tick.cands
      /\ tick'.claimed = tick.claimed /\ tick'.rejects = Tail(tick.rejects) /\ tick'.finalize = tick.finalize
      /\ tick'.job = tick.job /\ tick'.genuine = tick.genuine
  BY <1>2, <1>3, TickTyped DEF Tick
<1>6. QueueTypes'
  BY <1>2, <1>5 DEF QueueInv, QueueTypes, schedulerVars
<1>7. TickPhasesHold'
  BY <1>2, <1>5 DEF QueueInv, TickPhasesHold, schedulerVars
<1>8. OnePlace' /\ \A q \in AcquireRequests : Somewhere(q)' <=> Somewhere(q) /\ q # r
  BY <1>2, <1>3, <1>4, <1>5 DEF QueueInv, OnePlace, Somewhere, Fifo, schedulerVars
<1>9. DurableInv'
  BY <1>2, <1>5 DEF QueueInv, DurableInv, QueuedRow
<1>10. /\ mail'[r] \in {"none", "refused"} /\ (r \in waiters /\ Alive(r) => mail'[r] = "refused")
       /\ \A q \in AcquireRequests : q # r => mail'[q] = mail[q]
  BY <1>2, <1>3, <1>4 DEF QueueInv, QueueTypes
<1>11. RequestInv'
  BY <1>2, <1>4, <1>5, <1>8, <1>10 DEF QueueInv, RequestInv
<1>12. RowInv'
  BY <1>2, <1>4, <1>5, <1>10 DEF QueueInv, RowInv
<1>13. WaiterInv'
  BY <1>2, <1>3, <1>4, <1>5, <1>10 DEF QueueInv, WaiterInv, Unanswered, Alive
<1>14. CapInv'
  BY <1>2, CapKept
<1>15. KeepsPlaces
  <2>1. ~durable => ~Unanswered(r)'
    BY <1>2, <1>3, <1>4, <1>10 DEF QueueInv, WaiterInv, Unanswered, Alive
  <2>2. \A q \in AcquireRequests : q # r => (Unanswered(q)' <=> Unanswered(q))
    BY <1>2, <1>10 DEF Unanswered
  <2> QED
    BY <1>8, <2>1, <2>2 DEF KeepsPlaces
<1> QED
  BY <1>6, <1>7, <1>8, <1>9, <1>11, <1>12, <1>13, <1>14, <1>15 DEF QueueInv

(* The job of a reserved lease starts by taking its waiter out of the map.    *)
LEMMA TakeJobKeeps == ASSUME QueueInv, TakeJob PROVE QueueInv' /\ KeepsPlaces
<1> USE DEF Unqueued
<1>1. PICK r : r = Head(tick.finalize)
  OBVIOUS
<1>2. PICK j : j = [id |-> r, at |-> IF r \in waiters THEN "mint" ELSE "unwanted"]
  OBVIOUS
<1>3. /\ tick.phase = "finalize" /\ tick.job = NoJob /\ tick.finalize # <<>>
      /\ tick' = [tick EXCEPT !.finalize = Tail(@), !.job = j] /\ waiters' = waiters \ {r}
      /\ UNCHANGED <<schedulerVars, conn, mail, row, recorded, durable, drows>>
  BY <1>1, <1>2 DEF TakeJob, InPhase, handlerVars, durableVars
<1>4. /\ r \in AcquireRequests /\ Tail(tick.finalize) \in Seq(AcquireRequests)
      /\ ToSet(tick.finalize) = {r} \cup ToSet(Tail(tick.finalize))
      /\ NoDup(Tail(tick.finalize)) /\ r \notin ToSet(Tail(tick.finalize))
  BY <1>1, <1>3, TickTyped, TailOf DEF QueueInv, OnePlace
<1>5. /\ j \in Job /\ j.id = r /\ j.at \in {"mint", "unwanted"} /\ (r \in waiters => j.at = "mint")
  BY <1>2, <1>4 DEF Job
<1>6. /\ tick' \in Tick /\ tick'.phase = tick.phase /\ tick'.cands = tick.cands
      /\ tick'.claimed = tick.claimed /\ tick'.rejects = tick.rejects /\ tick'.finalize = Tail(tick.finalize)
      /\ tick'.job = j /\ tick'.genuine = tick.genuine
  BY <1>3, <1>4, <1>5, TickTyped DEF Tick
<1>7. \A q \in AcquireRequests : tick.job.id # q
  BY <1>3, JobTyped
<1>8. ~Fifo(r) /\ r \notin Ids(tick.cands) /\ r \notin ToSet(tick.rejects) /\ Somewhere(r) /\ row[r] = "Pending"
  BY <1>4 DEF QueueInv, OnePlace, Somewhere, RowInv
<1>9. QueueTypes'
  BY <1>3, <1>6 DEF QueueInv, QueueTypes, schedulerVars
<1>10. TickPhasesHold'
  BY <1>3, <1>6 DEF QueueInv, TickPhasesHold, schedulerVars
<1>11. OnePlace' /\ \A q \in AcquireRequests : Somewhere(q)' <=> Somewhere(q)
  BY <1>3, <1>4, <1>5, <1>6, <1>7, <1>8 DEF QueueInv, OnePlace, Somewhere, Fifo, schedulerVars
<1>12. DurableInv'
  BY <1>3, <1>6 DEF QueueInv, DurableInv
<1>13. RequestInv'
  BY <1>3, <1>5, <1>6, <1>11 DEF QueueInv, RequestInv
<1>14. RowInv'
  BY <1>3, <1>4, <1>5, <1>6, <1>7, <1>8 DEF QueueInv, RowInv
<1>15. WaiterInv'
  BY <1>3, <1>5, <1>6, <1>7 DEF QueueInv, WaiterInv, Unanswered
<1>16. CapInv'
  BY <1>3, CapKept
<1>17. KeepsPlaces
  BY <1>3, <1>11 DEF KeepsPlaces, Unanswered
<1> QED
  BY <1>9, <1>10, <1>11, <1>12, <1>13, <1>14, <1>15, <1>16, <1>17 DEF QueueInv

(* A step of the job at hand: its row moves with where the job is. *)
LEMMA JobMoves ==
  ASSUME QueueInv, NEW r \in AcquireRequests, NEW at, NEW to, NEW left, Finalizing(r, at),
         at \in {"mint", "provision"},
         \/ to = "provision" /\ left = "Pending"
         \/ to = "served" /\ left = "Held"
         \/ to = "failed" /\ left \in {"none", "Claimed"}
         \/ to = "capacity" /\ left = "none",
         row' = [row EXCEPT ![r] = left], JobAt(r, to),
         UNCHANGED <<schedulerVars, conn, mail, waiters, recorded, durable, drows>>
  PROVE  QueueInv' /\ KeepsPlaces
<1> USE DEF Unqueued
<1>1. PICK j : j = [id |-> r, at |-> to]
  OBVIOUS
<1>2. tick.phase = "finalize" /\ tick.job.id = r /\ tick.job.at = at /\ tick' = [tick EXCEPT !.job = j]
  BY <1>1 DEF Finalizing, InPhase, JobAt
<1>3. j \in Job /\ j.id = r /\ j.at = to
  BY <1>1 DEF Job
<1>4. /\ tick' \in Tick /\ tick'.phase = tick.phase /\ tick'.cands = tick.cands
      /\ tick'.claimed = tick.claimed /\ tick'.rejects = tick.rejects /\ tick'.finalize = tick.finalize
      /\ tick'.job = j /\ tick'.genuine = tick.genuine
  BY <1>2, <1>3, TickTyped DEF Tick
<1>5. row[r] = "Pending"
  BY <1>2 DEF QueueInv, RowInv
<1>6. QueueTypes'
  BY <1>4 DEF QueueInv, QueueTypes, schedulerVars
<1>7. TickPhasesHold'
  BY <1>2, <1>4 DEF QueueInv, TickPhasesHold, schedulerVars
<1>8. OnePlace' /\ \A q \in AcquireRequests : Somewhere(q)' <=> Somewhere(q)
  BY <1>2, <1>3, <1>4 DEF QueueInv, OnePlace, Somewhere, Fifo, schedulerVars
<1>9. DurableInv'
  BY <1>4 DEF QueueInv, DurableInv
<1>10. RequestInv'
  BY <1>2, <1>3, <1>4, <1>8 DEF QueueInv, RequestInv
<1>11. RowInv'
  <2>1. row'[r] = left /\ \A q \in AcquireRequests : q # r => row'[q] = row[q]
    BY DEF QueueInv, QueueTypes
  <2>2. r \notin ToSet(tick.finalize) /\ conn[r] \notin Unqueued
    BY <1>2 DEF QueueInv, OnePlace, RequestInv, Somewhere
  <2> QED
    BY <1>2, <1>3, <1>4, <1>5, <2>1, <2>2 DEF QueueInv, RowInv
<1>12. WaiterInv'
  BY <1>2, <1>3, <1>4 DEF QueueInv, WaiterInv, Unanswered
<1>13. CapInv'
  BY <1>5, CapKept DEF QueueInv, QueueTypes, ActiveRows
<1>14. KeepsPlaces
  BY <1>8 DEF KeepsPlaces, Unanswered
<1> QED
  BY <1>6, <1>7, <1>8, <1>9, <1>10, <1>11, <1>12, <1>13, <1>14 DEF QueueInv

(* The mint of the job: a PAT, or a rolled back row.                          *)
LEMMA MintStepKeeps == ASSUME QueueInv, NEW r \in AcquireRequests, MintStep(r) PROVE QueueInv' /\ KeepsPlaces
<1>1. Finalizing(r, "mint") /\ UNCHANGED <<schedulerVars, conn, mail, waiters, recorded, durable, drows>>
  BY DEF MintStep, handlerVars, durableVars
<1>2. row[r] = "Pending" /\ row = [row EXCEPT ![r] = "Pending"]
  <2>1. row[r] = "Pending" /\ row \in [AcquireRequests -> {"none", "Pending", "Claimed", "Held", "Abandoned", "Terminal"}]
    BY <1>1 DEF QueueInv, RowInv, QueueTypes, Finalizing
  <2> QED
    BY <2>1
<1>3. \/ row' = row /\ JobAt(r, "provision")
      \/ \E left \in {"none", "Claimed"} : row' = [row EXCEPT ![r] = left] /\ JobAt(r, "failed")
  BY DEF MintStep, SetRow
<1> QED
  BY <1>1, <1>2, <1>3, JobMoves

(* The box of the job: Held, a rolled back row, or a slot given back for a    *)
(* retry.                                                                     *)
LEMMA ProvisionStepKeeps == ASSUME QueueInv, NEW r \in AcquireRequests, ProvisionStep(r) PROVE QueueInv' /\ KeepsPlaces
<1>1. Finalizing(r, "provision") /\ UNCHANGED <<schedulerVars, conn, mail, waiters, recorded, durable, drows>>
  BY DEF ProvisionStep, handlerVars, durableVars
<1>2. \/ row' = [row EXCEPT ![r] = "Held"] /\ JobAt(r, "served")
      \/ \E left \in {"none", "Claimed"} : row' = [row EXCEPT ![r] = left] /\ JobAt(r, "failed")
      \/ row' = [row EXCEPT ![r] = "none"] /\ JobAt(r, "capacity")
  BY DEF ProvisionStep, SetRow
<1> QED
  BY <1>1, <1>2, JobMoves

(* The job at hand ends: what is known of its request, and of the tick after. *)
LEMMA JobEnds ==
  ASSUME QueueInv, NEW r \in AcquireRequests, NEW at, Finalizing(r, at), NEW g \in SUBSET AcquireRequests,
         tick' = [tick EXCEPT !.job = NoJob, !.genuine = g]
  PROVE  /\ tick.phase = "finalize" /\ ~scan.on /\ tick.job.id = r /\ tick.job.at = at
         /\ tick' \in Tick /\ tick'.phase = tick.phase /\ tick'.cands = tick.cands
         /\ tick'.claimed = tick.claimed /\ tick'.rejects = tick.rejects /\ tick'.finalize = tick.finalize
         /\ tick'.job = NoJob /\ tick'.genuine = g /\ (\A q \in AcquireRequests : tick'.job.id # q)
         /\ (\A q \in AcquireRequests : q # r => tick.job.id # q)
         /\ ~Fifo(r) /\ r \notin Ids(tick.cands) /\ r \notin ToSet(tick.rejects) /\ r \notin ToSet(tick.finalize)
         /\ mail[r] = "none" /\ conn[r] \notin Unqueued /\ r \notin waiters /\ recorded[r] = 0 /\ r \notin tick.genuine
<1>1. tick.phase = "finalize" /\ ~scan.on /\ tick.job.id = r /\ tick.job.at = at
  BY DEF Finalizing, InPhase
<1>2. /\ tick' \in Tick /\ tick'.phase = tick.phase /\ tick'.cands = tick.cands
      /\ tick'.claimed = tick.claimed /\ tick'.rejects = tick.rejects /\ tick'.finalize = tick.finalize
      /\ tick'.job = NoJob /\ tick'.genuine = g
  BY TickTyped DEF Tick
<1>3. \A q \in AcquireRequests : tick'.job.id # q
  BY <1>2, JobTyped
<1>4. ~Fifo(r) /\ r \notin Ids(tick.cands) /\ r \notin ToSet(tick.rejects) /\ r \notin ToSet(tick.finalize)
  BY <1>1 DEF QueueInv, OnePlace
<1>5. /\ mail[r] = "none" /\ conn[r] \notin Unqueued /\ r \notin waiters
      /\ recorded[r] # 1 /\ recorded[r] <= 1 /\ recorded[r] \in Nat /\ r \notin tick.genuine
  BY <1>1 DEF QueueInv, RequestInv, Somewhere, QueueTypes
<1> QED
  BY <1>1, <1>2, <1>3, <1>4, <1>5

(* A waiter without capacity goes back with its context, or is told that the  *)
(* FIFO is full.                                                              *)
LEMMA RequeueKeeps == ASSUME QueueInv, NEW r \in AcquireRequests, Requeue(r) PROVE QueueInv' /\ KeepsPlaces
<1> USE DEF Unqueued
<1>1. /\ Finalizing(r, "capacity") /\ tick' = [tick EXCEPT !.job = NoJob]
      /\ UNCHANGED <<scan, conn, row, recorded, durable, drows>>
      /\ \/ queues' = [queues EXCEPT ![Owner[r]] = Append(@, r)] /\ waiters' = waiters \cup {r} /\ mail' = mail
         \/ /\ queues' = queues /\ waiters' = waiters
            /\ mail' = IF Alive(r) THEN [mail EXCEPT ![r] = "refused"] ELSE mail
  BY DEF Requeue, TryEnqueue, Send, EndJob, durableVars
<1>2. tick' = [tick EXCEPT !.job = NoJob, !.genuine = tick.genuine] /\ tick.genuine \in SUBSET AcquireRequests
  BY <1>1, TickTyped DEF Tick
<1>3. /\ tick.phase = "finalize" /\ ~scan.on /\ tick.job.id = r /\ tick.job.at = "capacity"
      /\ tick' \in Tick /\ tick'.phase = tick.phase /\ tick'.cands = tick.cands
      /\ tick'.claimed = tick.claimed /\ tick'.rejects = tick.rejects /\ tick'.finalize = tick.finalize
      /\ tick'.job = NoJob /\ tick'.genuine = tick.genuine /\ (\A q \in AcquireRequests : tick'.job.id # q)
      /\ (\A q \in AcquireRequests : q # r => tick.job.id # q)
      /\ ~Fifo(r) /\ r \notin Ids(tick.cands) /\ r \notin ToSet(tick.rejects) /\ r \notin ToSet(tick.finalize)
      /\ mail[r] = "none" /\ conn[r] \notin Unqueued /\ r \notin waiters /\ recorded[r] = 0 /\ r \notin tick.genuine
  BY <1>1, <1>2, JobEnds
<1>4. row[r] = "none"
  BY <1>3 DEF QueueInv, RowInv
<1>5. TickPhasesHold'
  BY <1>1, <1>3 DEF QueueInv, TickPhasesHold
<1>6. DurableInv'
  BY <1>1, <1>3 DEF QueueInv, DurableInv
<1>7. CapInv'
  BY <1>1, CapKept
<1>8. CASE queues' = [queues EXCEPT ![Owner[r]] = Append(@, r)] /\ waiters' = waiters \cup {r} /\ mail' = mail
  <2>1. /\ queues' \in [SchedTenants -> Seq(AcquireRequests)]
        /\ \A t \in SchedTenants : NoDup(queues'[t]) /\ \A q \in ToSet(queues'[t]) : Owner[q] = t
        /\ \A q \in AcquireRequests : Fifo(q)' <=> Fifo(q) \/ q = r
    BY <1>3, <1>8, FifoGrows
  <2>2. QueueTypes'
    BY <1>1, <1>3, <1>8, <2>1 DEF QueueInv, QueueTypes
  <2>3. OnePlace' /\ \A q \in AcquireRequests : Somewhere(q)' <=> Somewhere(q)
    BY <1>3, <2>1 DEF QueueInv, OnePlace, Somewhere
  <2>4. RequestInv' /\ RowInv'
    BY <1>1, <1>3, <1>4, <1>8, <2>3 DEF QueueInv, RequestInv, RowInv
  <2>5. WaiterInv'
    BY <1>1, <1>3, <1>8 DEF QueueInv, WaiterInv, Unanswered
  <2>6. KeepsPlaces
    BY <1>1, <1>8, <2>3 DEF KeepsPlaces, Unanswered
  <2> QED
    BY <1>5, <1>6, <1>7, <2>2, <2>3, <2>4, <2>5, <2>6 DEF QueueInv
<1>9. CASE /\ queues' = queues /\ waiters' = waiters
           /\ mail' = IF Alive(r) THEN [mail EXCEPT ![r] = "refused"] ELSE mail
  <2>1. QueueTypes'
    BY <1>1, <1>3, <1>9 DEF QueueInv, QueueTypes
  <2>2. OnePlace' /\ \A q \in AcquireRequests : Somewhere(q)' <=> Somewhere(q) /\ q # r
    BY <1>3, <1>9 DEF QueueInv, OnePlace, Somewhere, Fifo
  <2>3. /\ mail'[r] \in {"none", "refused"} /\ (Alive(r) => mail'[r] = "refused")
        /\ \A q \in AcquireRequests : q # r => mail'[q] = mail[q]
    BY <1>3, <1>9 DEF QueueInv, QueueTypes
  <2>4. RequestInv'
    BY <1>1, <1>3, <1>9, <2>2, <2>3 DEF QueueInv, RequestInv
  <2>5. RowInv'
    BY <1>1, <1>3, <1>4, <2>3 DEF QueueInv, RowInv
  <2>6. WaiterInv'
    BY <1>1, <1>3, <1>9, <2>3 DEF QueueInv, WaiterInv, Unanswered, Alive
  <2>7. KeepsPlaces
    <3>1. ~Unanswered(r)'
      BY <1>1, <2>3 DEF Unanswered, Alive
    <3> QED
      BY <1>1, <2>2, <2>3, <3>1 DEF KeepsPlaces, Unanswered
  <2> QED
    BY <1>5, <1>6, <1>7, <2>1, <2>2, <2>4, <2>5, <2>6, <2>7 DEF QueueInv
<1> QED
  BY <1>1, <1>8, <1>9

(* The answer goes to a receiver that still exists.                           *)
LEMMA DeliverKeeps == ASSUME QueueInv, NEW r \in AcquireRequests, Deliver(r) PROVE QueueInv' /\ KeepsPlaces
<1> USE DEF Unqueued
<1>1. PICK at \in {"served", "failed"}, answer \in {"lease", "refused"} :
        /\ Finalizing(r, at) /\ Alive(r) /\ (answer = "lease" <=> at = "served")
        /\ mail' = [mail EXCEPT ![r] = answer]
        /\ tick' = [tick EXCEPT !.job = NoJob, !.genuine = tick.genuine \cup {r}]
        /\ UNCHANGED <<schedulerVars, conn, waiters, row, recorded, durable, drows>>
  BY DEF Deliver, Send, durableVars
<1>2. tick.genuine \cup {r} \in SUBSET AcquireRequests
  BY TickTyped DEF Tick
<1>3. /\ tick.phase = "finalize" /\ ~scan.on /\ tick.job.id = r /\ tick.job.at = at
      /\ tick' \in Tick /\ tick'.phase = tick.phase /\ tick'.cands = tick.cands
      /\ tick'.claimed = tick.claimed /\ tick'.rejects = tick.rejects /\ tick'.finalize = tick.finalize
      /\ tick'.job = NoJob /\ tick'.genuine = tick.genuine \cup {r} /\ (\A q \in AcquireRequests : tick'.job.id # q)
      /\ (\A q \in AcquireRequests : q # r => tick.job.id # q)
      /\ ~Fifo(r) /\ r \notin Ids(tick.cands) /\ r \notin ToSet(tick.rejects) /\ r \notin ToSet(tick.finalize)
      /\ mail[r] = "none" /\ conn[r] \notin Unqueued /\ r \notin waiters /\ recorded[r] = 0 /\ r \notin tick.genuine
  BY <1>1, <1>2, JobEnds
<1>4. at = "served" => row[r] = "Held"
  BY <1>1, <1>3 DEF QueueInv, RowInv
<1>5. mail'[r] = answer /\ \A q \in AcquireRequests : q # r => mail'[q] = mail[q]
  BY <1>1 DEF QueueInv, QueueTypes
<1>6. QueueTypes'
  BY <1>1, <1>3 DEF QueueInv, QueueTypes, schedulerVars
<1>7. TickPhasesHold'
  BY <1>1, <1>3 DEF QueueInv, TickPhasesHold, schedulerVars
<1>8. OnePlace' /\ \A q \in AcquireRequests : Somewhere(q)' <=> Somewhere(q) /\ q # r
  BY <1>1, <1>3 DEF QueueInv, OnePlace, Somewhere, Fifo, schedulerVars
<1>9. DurableInv'
  BY <1>1, <1>3 DEF QueueInv, DurableInv
<1>10. RequestInv'
  BY <1>1, <1>3, <1>5, <1>8 DEF QueueInv, RequestInv
<1>11. row[r] # "Pending" /\ (row[r] = "Held" => answer = "lease")
  <2>1. at = "failed" => row[r] \in {"none", "Claimed"}
    BY <1>1, <1>3 DEF QueueInv, RowInv
  <2> QED
    BY <1>1, <1>4, <2>1
<1>12. (~durable => conn[r] = "parked") /\ conn[r] # "handler"
  BY <1>1, <1>3 DEF QueueInv, DurableInv, Alive
<1>13. RowInv'
  BY <1>1, <1>3, <1>5, <1>11, <1>12 DEF QueueInv, RowInv
<1>14. WaiterInv'
  BY <1>1, <1>3, <1>5 DEF QueueInv, WaiterInv, Unanswered
<1>15. CapInv'
  BY <1>1, CapKept
<1>16. KeepsPlaces
  BY <1>1, <1>5, <1>8 DEF KeepsPlaces, Unanswered
<1> QED
  BY <1>6, <1>7, <1>8, <1>9, <1>10, <1>13, <1>14, <1>15, <1>16 DEF QueueInv

(* Nobody receives the answer: the row is rolled back, and the waiter was     *)
(* given up.                                                                  *)
LEMMA UndoKeeps == ASSUME QueueInv, NEW r \in AcquireRequests, Undo(r) PROVE QueueInv' /\ KeepsPlaces
<1> USE DEF Unqueued
<1>1. PICK at \in {"served", "failed", "unwanted"} :
        /\ Finalizing(r, at) /\ (at # "unwanted" => ~Alive(r)) /\ RollbackUndispatched(r)
        /\ tick' = [tick EXCEPT !.job = NoJob]
        /\ UNCHANGED <<schedulerVars, conn, mail, waiters, recorded, durable, drows>>
  BY DEF Undo, EndJob, handlerVars, durableVars
<1>2. tick' = [tick EXCEPT !.job = NoJob, !.genuine = tick.genuine] /\ tick.genuine \in SUBSET AcquireRequests
  BY <1>1, TickTyped DEF Tick
<1>3. /\ tick.phase = "finalize" /\ ~scan.on /\ tick.job.id = r /\ tick.job.at = at
      /\ tick' \in Tick /\ tick'.phase = tick.phase /\ tick'.cands = tick.cands
      /\ tick'.claimed = tick.claimed /\ tick'.rejects = tick.rejects /\ tick'.finalize = tick.finalize
      /\ tick'.job = NoJob /\ tick'.genuine = tick.genuine /\ (\A q \in AcquireRequests : tick'.job.id # q)
      /\ (\A q \in AcquireRequests : q # r => tick.job.id # q)
      /\ ~Fifo(r) /\ r \notin Ids(tick.cands) /\ r \notin ToSet(tick.rejects) /\ r \notin ToSet(tick.finalize)
      /\ mail[r] = "none" /\ conn[r] \notin Unqueued /\ r \notin waiters /\ recorded[r] = 0 /\ r \notin tick.genuine
  BY <1>1, <1>2, JobEnds
<1>4. row[r] \in {"Pending", "Held", "none", "Claimed"}
  BY <1>1, <1>3 DEF QueueInv, RowInv
<1>5. /\ row' \in [AcquireRequests -> {"none", "Pending", "Claimed", "Held", "Abandoned", "Terminal"}]
      /\ row'[r] \notin {"Pending", "Held"} /\ \A q \in AcquireRequests : q # r => row'[q] = row[q]
      /\ row[r] = "none" => row'[r] = "none"
  BY <1>1, <1>4 DEF QueueInv, QueueTypes, RollbackUndispatched, SetRow
<1>6. QueueTypes'
  BY <1>1, <1>3, <1>5 DEF QueueInv, QueueTypes, schedulerVars
<1>7. TickPhasesHold'
  BY <1>1, <1>3 DEF QueueInv, TickPhasesHold, schedulerVars
<1>8. OnePlace' /\ \A q \in AcquireRequests : Somewhere(q)' <=> Somewhere(q) /\ q # r
  BY <1>1, <1>3 DEF QueueInv, OnePlace, Somewhere, Fifo, schedulerVars
<1>9. DurableInv'
  BY <1>1, <1>3 DEF QueueInv, DurableInv
<1>10. RequestInv'
  BY <1>1, <1>3, <1>8 DEF QueueInv, RequestInv
<1>11. RowInv'
  BY <1>1, <1>3, <1>5 DEF QueueInv, RowInv
<1>12. WaiterInv'
  BY <1>1, <1>3 DEF QueueInv, WaiterInv, Unanswered, Alive
<1>13. CapInv'
  BY <1>4, <1>5, CapKept DEF ActiveRows
<1>14. KeepsPlaces
  <2>1. ~durable => ~Unanswered(r)
    BY <1>1, <1>3 DEF QueueInv, WaiterInv, Unanswered, Alive
  <2> QED
    BY <1>1, <1>8, <2>1 DEF KeepsPlaces, Unanswered
<1> QED
  BY <1>6, <1>7, <1>8, <1>9, <1>10, <1>11, <1>12, <1>13, <1>14 DEF QueueInv

(* The waits of the answered are recorded and the tick is empty.              *)
LEMMA TickEndKeeps == ASSUME QueueInv, TickEnd PROVE QueueInv' /\ KeepsPlaces
<1> USE DEF Unqueued
<1>1. /\ tick.phase = "finalize" /\ ~scan.on /\ tick.job = NoJob /\ tick.finalize = <<>> /\ tick' = IdleTick
      /\ recorded' = [r \in AcquireRequests |-> recorded[r] + IF r \in tick.genuine THEN 1 ELSE 0]
      /\ UNCHANGED <<schedulerVars, conn, mail, waiters, row, durable, drows>>
  BY DEF TickEnd, InPhase, RecordGenuine, handlerVars, durableVars
<1>2. tick.cands = <<>> /\ tick.claimed = <<>> /\ tick.rejects = <<>>
  BY <1>1 DEF QueueInv, TickPhasesHold
<1>3. /\ tick'.phase = "idle" /\ tick'.cands = <<>> /\ tick'.claimed = <<>> /\ tick'.rejects = <<>>
      /\ tick'.finalize = <<>> /\ tick'.job = NoJob /\ tick'.genuine = {}
  BY <1>1 DEF IdleTick
<1>4. tick' \in Tick
  <2>1. <<>> \in Seq(Candidate) /\ <<>> \in Seq(AcquireRequests)
    OBVIOUS
  <2>2. PICK none : none = <<>> /\ none \in Seq(Candidate) /\ none \in Seq(AcquireRequests)
    BY <2>1
  <2>3. tick' = [phase |-> "idle", cands |-> none, claimed |-> none, rejects |-> none,
                 finalize |-> none, job |-> NoJob, report |-> {}, genuine |-> {}]
    BY <1>1, <2>2 DEF IdleTick
  <2> QED
    BY <2>2, <2>3 DEF Tick, TickPhases
<1>5. ASSUME NEW r \in AcquireRequests
      PROVE  /\ recorded'[r] \in Nat /\ recorded'[r] <= 1 /\ (recorded'[r] = 1 => mail[r] # "none")
  BY <1>1 DEF QueueInv, RequestInv, QueueTypes
<1>6. recorded' \in [AcquireRequests -> Nat]
  BY <1>1, <1>5
<1>7. QueueTypes'
  BY <1>1, <1>4, <1>6 DEF QueueInv, QueueTypes, schedulerVars
<1>8. TickPhasesHold'
  BY <1>1, <1>3 DEF QueueInv, TickPhasesHold, schedulerVars
<1>9. OnePlace' /\ \A q \in AcquireRequests : Somewhere(q)' <=> Somewhere(q)
  BY <1>1, <1>2, <1>3 DEF QueueInv, OnePlace, Somewhere, Fifo, schedulerVars
<1>10. DurableInv'
  BY <1>1, <1>2, <1>3 DEF QueueInv, DurableInv
<1>11. RequestInv'
  BY <1>1, <1>3, <1>5, <1>9 DEF QueueInv, RequestInv
<1>12. RowInv'
  BY <1>1, <1>2, <1>3 DEF QueueInv, RowInv
<1>13. WaiterInv'
  BY <1>1, <1>2, <1>3 DEF QueueInv, WaiterInv, Unanswered
<1>14. CapInv'
  BY <1>1, CapKept
<1>15. KeepsPlaces
  BY <1>1, <1>9 DEF KeepsPlaces, Unanswered
<1> QED
  BY <1>7, <1>8, <1>9, <1>10, <1>11, <1>12, <1>13, <1>14, <1>15 DEF QueueInv

(* An empty queue.                                                            *)
LEMMA QueueInitially == AdmissionInit => QueueInv
<1> SUFFICES ASSUME AdmissionInit PROVE QueueInv
  OBVIOUS
<1>1. /\ queues = [t \in SchedTenants |-> <<>>] /\ scan = NoScan /\ tick = IdleTick
      /\ conn = [r \in AcquireRequests |-> "new"] /\ mail = [r \in AcquireRequests |-> "none"]
      /\ row = [r \in AcquireRequests |-> "none"] /\ recorded = [r \in AcquireRequests |-> 0]
      /\ waiters = {} /\ durable \in BOOLEAN /\ drows = {}
  BY DEF AdmissionInit, SchedulerInit
<1>2. <<>> \in Seq(Candidate) /\ <<>> \in Seq(AcquireRequests)
  OBVIOUS
<1>3. /\ tick.phase = "idle" /\ tick.cands = <<>> /\ tick.claimed = <<>> /\ tick.rejects = <<>>
      /\ tick.finalize = <<>> /\ tick.job = NoJob /\ tick.genuine = {}
  BY <1>1 DEF IdleTick
<1>4. tick \in Tick
  <2>1. PICK none : none = <<>> /\ none \in Seq(Candidate) /\ none \in Seq(AcquireRequests)
    BY <1>2
  <2>2. tick = [phase |-> "idle", cands |-> none, claimed |-> none, rejects |-> none,
                finalize |-> none, job |-> NoJob, report |-> {}, genuine |-> {}]
    BY <1>1, <2>1 DEF IdleTick
  <2> QED
    BY <2>1, <2>2 DEF Tick, TickPhases
<1>5. \A r \in AcquireRequests : NoJob.id # r
  BY AdmissionAssumption DEF NoJob
<1>6. ~scan.on /\ "on" \in DOMAIN scan
  BY <1>1 DEF NoScan
<1>7. queues \in [SchedTenants -> Seq(AcquireRequests)] /\ \A t \in SchedTenants : queues[t] = <<>>
  BY <1>1, <1>2
<1>8. QueueTypes
  BY <1>1, <1>4, <1>6, <1>7 DEF QueueTypes
<1>9. TickPhasesHold
  BY <1>3, <1>6 DEF TickPhasesHold
<1>10. \A r \in AcquireRequests : ~Fifo(r) /\ ~Somewhere(r)
  BY <1>3, <1>5, <1>7, OwnerTyped, EmptySequence DEF Somewhere, Fifo
<1>11. OnePlace
  BY <1>3, <1>5, <1>7, <1>10, EmptySequence DEF OnePlace
<1>12. DurableInv
  BY <1>1, <1>3, EmptySequence DEF DurableInv
<1>13. RequestInv /\ RowInv
  BY <1>1, <1>3, <1>5, <1>10, EmptySequence DEF RequestInv, RowInv
<1>14. WaiterInv
  BY <1>1 DEF WaiterInv, Unanswered
<1>15. CapInv
  <2> SUFFICES ASSUME NEW t \in SchedTenants PROVE IsFiniteSet(Active(t)) /\ Cardinality(Active(t)) <= Cap
    BY DEF CapInv
  <2>1. Active(t) = {}
    BY <1>1 DEF Active
  <2>2. IsFiniteSet({}) /\ Cardinality({}) = 0
    BY FS_EmptySet
  <2> QED
    BY <2>1, <2>2, AdmissionAssumption
<1> QED
  BY <1>8, <1>9, <1>11, <1>12, <1>13, <1>14, <1>15 DEF QueueInv

(* Every step of a handler and of the tick keeps the invariant and the        *)
(* waiters' places.                                                           *)
LEMMA QueueStep == ASSUME QueueInv, [AdmissionNext]_admissionVars PROVE QueueInv' /\ KeepsPlaces
<1>1. CASE UNCHANGED admissionVars
  <2>1. UNCHANGED <<schedulerVars, conn, mail, waiters, row, tick, recorded, durable, drows>>
    BY <1>1 DEF admissionVars, handlerVars, durableVars
  <2>2. scan'.on = scan.on /\ "on" \in DOMAIN scan' /\ queues' = queues
    BY <2>1 DEF schedulerVars, QueueInv, QueueTypes
  <2> QED
    BY <2>1, <2>2, ScanKeeps
<1>2. ASSUME NEW r \in AcquireRequests, HandlerStep(r) \/ FreeSlot(r) PROVE QueueInv' /\ KeepsPlaces
  BY <1>2, AdmitKeeps, FinalizeInHandlerKeeps, ParkSemaphoreKeeps, EnqueueKeeps, ShedKeeps, DurableEnqueueKeeps,
     ReceiveKeeps, TimeOutKeeps, EvictKeeps, LeaveKeeps, DisconnectKeeps, FreeSlotKeeps DEF HandlerStep
<1>3. CASE TickBegin \/ TickPass \/ TickSelected \/ ClaimNext \/ ClaimDone
  BY <1>3, PhaseStepsKeep, ScanStepsKeep, ClaimNextKeeps, ClaimDoneKeeps
<1>4. CASE ReserveDone \/ RejectNext \/ RejectDone \/ TakeJob \/ TickEnd
  BY <1>4, PhaseStepsKeep, RejectNextKeeps, TakeJobKeeps, TickEndKeeps
<1>5. ASSUME NEW t \in SchedTenants, TickSkip(t) \/ TickSelect(t) PROVE QueueInv' /\ KeepsPlaces
  BY <1>5, ScanStepsKeep, TickSelectKeeps
<1>6. ASSUME NEW r \in AcquireRequests,
             ReserveOrphan(r) \/ ReserveAdmitted(r) \/ ReserveLost(r) \/ ReserveRejected(r)
      PROVE  QueueInv' /\ KeepsPlaces
  BY <1>6, ReserveOrphanKeeps, ReserveAdmittedKeeps, ReserveLostKeeps, ReserveRejectedKeeps
<1>7. ASSUME NEW r \in AcquireRequests,
             MintStep(r) \/ ProvisionStep(r) \/ Requeue(r) \/ Deliver(r) \/ Undo(r)
      PROVE  QueueInv' /\ KeepsPlaces
  BY <1>7, MintStepKeeps, ProvisionStepKeeps, RequeueKeeps, DeliverKeeps, UndoKeeps
<1> QED
  BY <1>1, <1>2, <1>3, <1>4, <1>5, <1>6, <1>7 DEF AdmissionNext, LoopStep

(* Whether a durable queue is attached is decided when the server starts. *)
LEMMA DurableStays == ASSUME [AdmissionNext]_admissionVars PROVE durable' = durable
<1> USE DEF durableVars
<1>1. ASSUME NEW r \in AcquireRequests, HandlerStep(r) \/ FreeSlot(r) PROVE durable' = durable
  BY <1>1 DEF HandlerStep, Admit, FinalizeInHandler, ParkSemaphore, Enqueue, Shed, DurableEnqueue, Receive,
              TimeOut, Evict, Leave, Disconnect, FreeSlot
<1>2. ASSUME LoopStep PROVE durable' = durable
  BY <1>2 DEF LoopStep, TickBegin, TickPass, TickSelected, ClaimNext, ClaimDone, ReserveDone, RejectNext,
              RejectDone, TakeJob, TickEnd, TickSkip, TickSelect, ReserveOrphan, ReserveAdmitted, ReserveLost,
              ReserveRejected, MintStep, ProvisionStep, Requeue, Deliver, Undo
<1> QED
  BY <1>1, <1>2 DEF AdmissionNext, admissionVars

(* The invariant behind the two results on the queue: types, phases, one      *)
(* place per work item, durable rows, rows and waiters of the requests, the   *)
(* cap.                                                                       *)
THEOREM QueueInvariance == AdmissionSpec => []QueueInv
<1>1. QueueInv /\ [AdmissionNext]_admissionVars => QueueInv'
  BY QueueStep
<1> QED
  BY <1>1, QueueInitially, PTL DEF AdmissionSpec

(* For a waiter that nobody answered, the invariant's notion of a place is the *)
(* one of the property.                                                        *)
LEMMA PlacedIsSomewhere ==
  ASSUME QueueInv, ~durable, NEW r \in AcquireRequests, Unanswered(r)
  PROVE  /\ Placed(r) <=> Somewhere(r)
         /\ InTick(r) => ~Fifo(r)
<1>1. tick.cands \in Seq(Candidate) /\ tick.claimed \in Seq(Candidate)
  BY TickTyped
<1>2. \A c \in ToSet(tick.cands) : c \in Candidate /\ \E n \in DOMAIN tick.cands : tick.cands[n] = c
  BY <1>1 DEF ToSet
<1>3. r \in Ids(tick.cands) <=> \E n \in DOMAIN tick.cands : tick.cands[n] = [id |-> r, live |-> TRUE]
  <2>1. ASSUME r \in Ids(tick.cands) PROVE \E n \in DOMAIN tick.cands : tick.cands[n] = [id |-> r, live |-> TRUE]
    <3>1. PICK c \in ToSet(tick.cands) : c.id = r
      BY <2>1 DEF Ids
    <3>2. c \in Candidate /\ c.live
      BY <1>2, <3>1 DEF QueueInv, WaiterInv
    <3>3. c = [id |-> r, live |-> TRUE]
      BY <3>1, <3>2 DEF Candidate
    <3> QED
      BY <1>2, <3>1, <3>3
  <2>2. ASSUME NEW n \in DOMAIN tick.cands, tick.cands[n] = [id |-> r, live |-> TRUE] PROVE r \in Ids(tick.cands)
    <3>1. tick.cands[n] \in ToSet(tick.cands) /\ tick.cands[n].id = r
      BY <2>2 DEF ToSet
    <3> QED
      BY <3>1 DEF Ids
  <2> QED
    BY <2>1, <2>2
<1>4. ASSUME NEW n \in DOMAIN tick.claimed, tick.claimed[n].id = r PROVE r \in Ids(tick.cands)
  <2>1. tick.claimed[n] \in ToSet(tick.claimed)
    BY DEF ToSet
  <2> QED
    BY <1>4, <2>1 DEF Ids, QueueInv, OnePlace
<1>5. Placed(r) <=> Somewhere(r)
  BY <1>3, <1>4 DEF Placed, InTick, Somewhere, Fifo
<1>6. InTick(r) => ~Fifo(r)
  BY <1>3, <1>4 DEF InTick, QueueInv, OnePlace
<1> QED
  BY <1>5, <1>6

(* The same of the state after a step. *)
LEMMA PlacedNext ==
  ASSUME NEW r \in AcquireRequests
  PROVE  (QueueInv /\ ~durable /\ Unanswered(r) => (Placed(r) <=> Somewhere(r)))'
<1>1. QueueInv /\ ~durable /\ Unanswered(r) => (Placed(r) <=> Somewhere(r))
  BY PlacedIsSomewhere
<1> QED
  BY <1>1, PTL

(* What the invariant says of the waiters.                                    *)
LEMMA InvKeepsWaitersOnce == QueueInv => EachWaiterOnce /\ WaitsAreHonest
<1> SUFFICES ASSUME QueueInv PROVE EachWaiterOnce /\ WaitsAreHonest
  OBVIOUS
<1>1. WaitsAreHonest
  BY DEF QueueInv, RequestInv, WaitsAreHonest
<1>2. ASSUME ~durable, NEW r \in AcquireRequests, Unanswered(r)
      PROVE  /\ Cardinality({n \in DOMAIN queues[Owner[r]] : queues[Owner[r]][n] = r}) + (IF InTick(r) THEN 1 ELSE 0) <= 1
             /\ r \in waiters \/ tick.job.id = r
  <2>1. PICK P : P = {n \in DOMAIN queues[Owner[r]] : queues[Owner[r]][n] = r}
    OBVIOUS
  <2>2. NoDup(queues[Owner[r]])
    BY OwnerTyped DEF QueueInv, OnePlace
  <2>3. \A m, n \in P : m = n
    BY <2>1, <2>2 DEF NoDup
  <2>4. P = {} \/ \E n : P = {n}
    BY <2>3
  <2>5. P = {} => Cardinality(P) = 0
    BY FS_EmptySet
  <2>6. P # {} => Cardinality(P) = 1
    BY <2>4, FS_Singleton
  <2>7. InTick(r) => P = {}
    BY <1>2, <2>1, PlacedIsSomewhere DEF Fifo, ToSet
  <2>8. Cardinality(P) + (IF InTick(r) THEN 1 ELSE 0) <= 1
    BY <2>5, <2>6, <2>7
  <2>9. r \in waiters \/ tick.job.id = r
    BY <1>2 DEF QueueInv, WaiterInv
  <2> QED
    BY <2>1, <2>8, <2>9
<1>3. EachWaiterOnce
  BY <1>2 DEF EachWaiterOnce
<1> QED
  BY <1>1, <1>3

(* Admission queue (run_admission_tick and the queued acquire): whatever the   *)
(* handlers, timeouts and disconnects do between the steps of a tick, the loop *)
(* never holds a parked request twice, loses one only when it is put back into *)
(* a full FIFO, and counts the wait of an answered request once.               *)
THEOREM QueueAlwaysConservesWaiters == AdmissionSpec => QueueConservesWaiters
<1> DEFINE Kept == ~durable => \A r \in AcquireRequests :
              Unanswered(r)' /\ ~Placed(r)' => Unanswered(r) /\ (Placed(r) => ~HasRoom(Owner[r]))
<1>1. QueueInv /\ QueueInv' /\ [AdmissionNext]_admissionVars => [Kept]_admissionVars
  <2> SUFFICES ASSUME QueueInv, QueueInv', [AdmissionNext]_admissionVars PROVE [Kept]_admissionVars
    OBVIOUS
  <2> SUFFICES ASSUME ~durable, admissionVars' # admissionVars,
                      NEW r \in AcquireRequests, Unanswered(r)', ~Placed(r)'
               PROVE  Unanswered(r) /\ (Placed(r) => ~HasRoom(Owner[r]))
    OBVIOUS
  <2>1. KeepsPlaces
    BY QueueStep
  <2>2. ~durable'
    BY DurableStays
  <2>3. ~Somewhere(r)'
    BY <2>2, PlacedNext
  <2>4. Unanswered(r) /\ (Somewhere(r) => ~HasRoom(Owner[r]))
    BY <2>1, <2>3 DEF KeepsPlaces
  <2> QED
    BY <2>4, PlacedIsSomewhere
<1>2. [][Kept]_admissionVars => WaitersKeepTheirPlace
  BY PTL DEF WaitersKeepTheirPlace
<1> HIDE DEF Kept
<1> QED
  BY <1>1, <1>2, QueueInvariance, InvKeepsWaitersOnce, PTL DEF AdmissionSpec, QueueConservesWaiters

(* Admission queue: selection, requeues and immediate acquires together never *)
(* pass a tenant's cap, and a request that was given up keeps no row.          *)
THEOREM QueueAlwaysAdmitsForOwners == AdmissionSpec => []QueueAdmitsForOwners
<1>1. ASSUME QueueInv PROVE QueueAdmitsForOwners
  <2>1. QueueNeverOverAdmits
    BY <1>1 DEF QueueInv, CapInv, QueueNeverOverAdmits
  <2>2. ASSUME ~durable, NEW r \in AcquireRequests, Forgotten(r) PROVE row[r] \notin {"Pending", "Held"}
    <3>1. /\ conn[r] \notin {"handler", "lease"} /\ tick.job.id # r /\ r \notin ToSet(tick.finalize)
          /\ conn[r] \in {"parked", "lease", "gone"} => mail[r] = "none"
      BY <2>2 DEF Forgotten, GivenUp, InTick
    <3> QED
      BY <1>1, <2>2, <3>1 DEF QueueInv, RowInv
  <2> QED
    BY <2>1, <2>2 DEF QueueAdmitsForOwners, NoPhantomLease
<1> QED
  BY <1>1, QueueInvariance, PTL

--------------------------------------------------------------------------------
(* Token introspection *)

(* What the endpoint answers, where a request is, and the request. *)
Answer == [valid : BOOLEAN, ceiling : Int, known : BOOLEAN]

Working == {"permit", "gate", "post", "answered"}

Passing == {"plan", "admit", "done"}

Places == Working \cup Passing \cup {"new", "follow", "refused"}

Request ==
  [at : Places, leg : Legs \cup {"orphan"},
   tries : Nat, probe : Nat \cup {NoCeiling}, body : Answer, ceiling : Int]

StoreTypes ==
  /\ clockNow \in Nat
  /\ breaker \in [open : BOOLEAN, consecutive : Nat, openedAt : Nat]
  /\ authCache \in [Tokens -> [body : Answer, expires : Nat]]
  /\ planCache \in Int /\ entitlement \in Int

IntroTypes ==
  /\ StoreTypes
  /\ flight \in [Legs -> [Tokens -> AuthRequests \cup {NoLeader}]]
  /\ asked \in [AuthRequests -> Request]

(* A probe is no later than the instant from which the breaker cools. *)
ProbesBeforeOpening ==
  \A r \in AuthRequests : asked[r].probe # NoCeiling =>
    asked[r].probe <= clockNow /\ (breaker.open => asked[r].probe <= breaker.openedAt)

(* What a request or the cache has from the endpoint is what it said. *)
AnswersAreTrue ==
  \A r \in AuthRequests : asked[r].body.known => (asked[r].body.valid <=> TokenOf[r] \in GoodTokens)

CacheIsTrue ==
  \A t \in Tokens : authCache[t] # NoEntry =>
    authCache[t].body.known /\ authCache[t].body.valid /\ t \in GoodTokens

(* The leader of a flight works on it, and a follower follows a flight. *)
FlightsAreLed ==
  /\ \A leg \in Legs, t \in Tokens : flight[leg][t] # NoLeader =>
       /\ flight[leg][t] \in AuthRequests /\ TokenOf[flight[leg][t]] = t
       /\ asked[flight[leg][t]].leg = leg /\ asked[flight[leg][t]].at \in Working
  /\ \A f \in AuthRequests : asked[f].at = "follow" =>
       asked[f].leg \in Legs /\ flight[asked[f].leg][TokenOf[f]] # NoLeader

(* The inductive invariant of introspection. *)
IntroInv ==
  /\ IntroTypes /\ ProbesBeforeOpening /\ AnswersAreTrue /\ CacheIsTrue /\ FlightsAreLed
  /\ ProbesAreSpaced /\ OnlyKnownTokensPass

(* Every request's token is one of the tokens. *)
LEMMA TokenTyped == \A r \in AuthRequests : TokenOf[r] \in Tokens
  BY DEF Tokens

(* The fields of a request. *)
LEMMA RequestFields ==
  ASSUME NEW q \in Request
  PROVE  /\ q.at \in Places
         /\ q.leg \in Legs \cup {"orphan"} /\ q.tries \in Nat /\ q.probe \in Nat \cup {NoCeiling}
         /\ q.body \in Answer /\ q.ceiling \in Int
  BY DEF Request

(* A step that starts no probe, and either leaves the breaker alone, closes   *)
(* it or opens it now, keeps probes apart.                                    *)
LEMMA ProbesKept ==
  ASSUME IntroInv, UNCHANGED clockNow, asked' \in [AuthRequests -> Request],
         \A f \in AuthRequests : asked'[f].probe \in {NoCeiling, asked[f].probe},
         breaker' \in {breaker} \/ ~breaker'.open \/ breaker'.openedAt = clockNow
  PROVE  ProbesBeforeOpening' /\ ProbesAreSpaced'
<1>1. \A f \in AuthRequests : asked[f].probe \in Nat \cup {NoCeiling}
  BY RequestFields DEF IntroInv, IntroTypes
<1>2. clockNow \in Nat
  BY DEF IntroInv, IntroTypes, StoreTypes
<1>3. ProbesBeforeOpening'
  BY <1>1, <1>2 DEF IntroInv, ProbesBeforeOpening, NoCeiling
<1>4. ProbesAreSpaced'
  BY <1>1 DEF IntroInv, ProbesAreSpaced
<1> QED
  BY <1>3, <1>4

(* One request moves, no flight begins or ends and no probe starts. *)
LEMMA OneMoves ==
  ASSUME IntroInv, NEW r \in AuthRequests, NEW q \in Request,
         asked' = [asked EXCEPT ![r] = q], UNCHANGED <<clockNow, flight>>, StoreTypes', CacheIsTrue',
         q.body.known => (q.body.valid <=> TokenOf[r] \in GoodTokens),
         q.at \in Passing => TokenOf[r] \in GoodTokens,
         asked[r].at \in Working /\ asked[r].leg \in Legs => q.at \in Working /\ q.leg = asked[r].leg,
         q.at = "follow" => q.leg \in Legs /\ flight[q.leg][TokenOf[r]] # NoLeader,
         q.probe \in {NoCeiling, asked[r].probe},
         breaker' \in {breaker} \/ ~breaker'.open \/ breaker'.openedAt = clockNow
  PROVE  IntroInv'
<1>1. /\ asked' \in [AuthRequests -> Request] /\ asked'[r] = q
      /\ \A f \in AuthRequests : f # r => asked'[f] = asked[f]
  BY DEF IntroInv, IntroTypes
<1>2. AnswersAreTrue'
  BY <1>1 DEF IntroInv, AnswersAreTrue
<1>3. OnlyKnownTokensPass'
  BY <1>1 DEF IntroInv, OnlyKnownTokensPass, Passing
<1>4. FlightsAreLed'
  BY <1>1 DEF IntroInv, FlightsAreLed
<1>5. ProbesBeforeOpening' /\ ProbesAreSpaced'
  <2>1. \A f \in AuthRequests : asked'[f].probe \in {NoCeiling, asked[f].probe}
    BY <1>1
  <2> QED
    BY <1>1, <2>1, ProbesKept
<1> QED
  BY <1>1, <1>2, <1>3, <1>4, <1>5 DEF IntroInv, IntroTypes

(* What the invariant says of one request. *)
LEMMA OneRequest ==
  ASSUME IntroInv, NEW r \in AuthRequests
  PROVE  /\ asked[r] \in Request /\ TokenOf[r] \in Tokens
         /\ asked[r].body.known => (asked[r].body.valid <=> TokenOf[r] \in GoodTokens)
         /\ asked[r].at \in Passing => TokenOf[r] \in GoodTokens
  BY TokenTyped DEF IntroInv, IntroTypes, AnswersAreTrue, OnlyKnownTokensPass, Passing

(* Which strings are which kind of place. *)
LEMMA PlaceKinds ==
  /\ Working \cup Passing \cup {"new", "follow", "refused"} \subseteq Places
  /\ {"permit", "gate", "post", "answered"} = Working /\ {"plan", "admit", "done"} = Passing
  /\ Working \cap Passing = {}
  /\ {"new", "follow", "refused"} \cap (Working \cup Passing) = {}
  BY DEF Places, Working, Passing

(* A fresh entry of the cache answers with what the endpoint said.            *)
LEMMA CacheHitKeeps == ASSUME IntroInv, NEW r \in AuthRequests, CacheHit(r) PROVE IntroInv'
<1>1. PICK body \in Answer : body = authCache[TokenOf[r]].body /\ body.known /\ body.valid /\ TokenOf[r] \in GoodTokens
  BY TokenTyped DEF CacheHit, Cached, IntroInv, CacheIsTrue, IntroTypes, StoreTypes
<1> DEFINE q == [asked[r] EXCEPT !.at = "plan", !.body = body]
<1>2. q \in Request /\ q.at = "plan" /\ q.body = body /\ q.probe = asked[r].probe
  BY OneRequest, PlaceKinds DEF Request
<1>3. asked' = [asked EXCEPT ![r] = q] /\ asked[r].at = "new"
  BY <1>1 DEF CacheHit
<1> HIDE DEF q
<1>4. UNCHANGED <<clockNow, breaker, flight>> /\ StoreTypes' /\ CacheIsTrue'
  BY DEF CacheHit, IntroInv, IntroTypes, StoreTypes, CacheIsTrue
<1> QED
  BY <1>1, <1>2, <1>3, <1>4, OneMoves, PlaceKinds

(* The static backend knows its tokens.                                       *)
LEMMA StaticAuthKeeps == ASSUME IntroInv, NEW r \in AuthRequests, StaticAuth(r) PROVE IntroInv'
<1> DEFINE at == IF TokenOf[r] \in GoodTokens THEN "plan" ELSE "refused"
           q  == [asked[r] EXCEPT !.at = at]
<1>1. /\ q \in Request /\ q.at = at /\ q.body = asked[r].body /\ q.probe = asked[r].probe
      /\ (at = "plan" /\ TokenOf[r] \in GoodTokens) \/ at = "refused"
  BY OneRequest, PlaceKinds DEF Request
<1>2. asked' = [asked EXCEPT ![r] = q] /\ asked[r].at = "new"
  BY DEF StaticAuth, AskGoes
<1> HIDE DEF q, at
<1>3. UNCHANGED <<clockNow, breaker, flight>> /\ StoreTypes' /\ CacheIsTrue'
  BY DEF StaticAuth, IntroInv, IntroTypes, StoreTypes, CacheIsTrue
<1> QED
  BY <1>1, <1>2, <1>3, OneMoves, OneRequest, PlaceKinds

(* Looking in the cache makes nothing of it that was not said. *)
LEMMA CacheGetKeeps ==
  ASSUME IntroInv, NEW t \in Tokens, CacheGet(t) \/ UNCHANGED authCache,
         UNCHANGED <<clockNow, breaker, planCache, entitlement>>
  PROVE  StoreTypes' /\ CacheIsTrue'
<1>1. /\ DOMAIN authCache' = Tokens /\ \A u \in Tokens : authCache'[u] \in {authCache[u], NoEntry}
      /\ authCache' \in [Tokens -> [body : Answer, expires : Nat]]
  <2>1. NoEntry \in [body : Answer, expires : Nat]
    BY DEF NoEntry, NoBody, NoCeiling, Answer
  <2> QED
    BY <2>1 DEF CacheGet, IntroInv, IntroTypes, StoreTypes
<1> QED
  BY <1>1 DEF IntroInv, IntroTypes, StoreTypes, CacheIsTrue

(* A caller leads a flight that nobody leads, or follows the one that is led. *)
LEMMA JoinKeeps ==
  ASSUME IntroInv, NEW r \in AuthRequests, NEW leg \in Legs, Join(r, leg)
  PROVE  IntroInv'
<1> DEFINE q == [asked[r] EXCEPT !.at = "follow", !.leg = leg]
<1>1. /\ q \in Request /\ q.at = "follow" /\ q.leg = leg /\ q.body = asked[r].body
      /\ q.probe = asked[r].probe
  BY OneRequest, PlaceKinds DEF Request
<1>2. /\ asked' = [asked EXCEPT ![r] = q] /\ asked[r].at \in {"new", "plan"}
      /\ flight[leg][TokenOf[r]] # NoLeader
  BY DEF Join, EntersLeg, Asks
<1> HIDE DEF q
<1>3. UNCHANGED <<clockNow, breaker, flight>> /\ StoreTypes' /\ CacheIsTrue'
  BY CacheGetKeeps, TokenTyped DEF Join, EntersLeg
<1> QED
  BY <1>1, <1>2, <1>3, OneMoves, OneRequest, PlaceKinds

(* The leader gets or does not get a permit.                                  *)
LEMMA TakePermitKeeps == ASSUME IntroInv, NEW r \in AuthRequests, TakePermit(r) PROVE IntroInv'
<1>1. PICK q \in Request : /\ asked' = [asked EXCEPT ![r] = q]
                           /\ q.at \in {"gate", "answered"} /\ q.leg = asked[r].leg
                           /\ q.probe = asked[r].probe /\ q.body \in {asked[r].body, NoBody}
  <2> DEFINE q == [asked[r] EXCEPT !.at = "gate"]
             p == [asked[r] EXCEPT !.at = "answered", !.body = NoBody]
  <2>1. /\ q \in Request /\ q.at = "gate" /\ q.leg = asked[r].leg /\ q.body = asked[r].body
        /\ q.probe = asked[r].probe
    BY OneRequest, PlaceKinds DEF Request
  <2>2. /\ p \in Request /\ p.at = "answered" /\ p.leg = asked[r].leg /\ p.body = NoBody
        /\ p.probe = asked[r].probe
    <3> NoBody \in Answer
      BY DEF NoBody, Answer, NoCeiling
    <3> QED
      BY OneRequest, PlaceKinds DEF Request
  <2>3. asked' = [asked EXCEPT ![r] = q] \/ asked' = [asked EXCEPT ![r] = p]
    BY DEF TakePermit, AskGoes
  <2> QED
    <3> HIDE DEF q, p
    <3> QED
      BY <2>1, <2>2, <2>3
<1>2. asked[r].at = "permit" /\ ~NoBody.known
  BY DEF TakePermit, NoBody
<1>3. UNCHANGED <<clockNow, breaker, flight>> /\ StoreTypes' /\ CacheIsTrue'
  BY DEF TakePermit, IntroInv, IntroTypes, StoreTypes, CacheIsTrue
<1> QED
  BY <1>1, <1>2, <1>3, OneMoves, OneRequest, PlaceKinds

(* A call whose flight is gone ends.                                          *)
LEMMA OrphanEndsKeeps == ASSUME IntroInv, NEW r \in AuthRequests, OrphanEnds(r) PROVE IntroInv'
<1> DEFINE q == [asked[r] EXCEPT !.at = "refused"]
<1>1. /\ q \in Request /\ q.at = "refused" /\ q.body = asked[r].body /\ q.probe = asked[r].probe
  BY OneRequest, PlaceKinds DEF Request
<1>2. asked' = [asked EXCEPT ![r] = q] /\ asked[r].leg \notin Legs
  BY DEF OrphanEnds, AskRefused, AskGoes, Legs
<1> HIDE DEF q
<1>3. UNCHANGED <<clockNow, breaker, flight>> /\ StoreTypes' /\ CacheIsTrue'
  BY DEF OrphanEnds, IntroInv, IntroTypes, StoreTypes, CacheIsTrue
<1> QED
  BY <1>1, <1>2, <1>3, OneMoves, OneRequest, PlaceKinds

(* The plan leg uses the ceiling of the answer.                               *)
LEMMA PlanFromBodyKeeps == ASSUME IntroInv, NEW r \in AuthRequests, PlanFromBody(r) PROVE IntroInv'
<1> DEFINE at == Planned(asked[r].body)
           q  == [asked[r] EXCEPT !.at = at]
<1>0. at \in {"admit", "refused"}
  BY DEF Planned
<1>1. q \in Request /\ q.at = at /\ q.body = asked[r].body /\ q.probe = asked[r].probe
  <2> HIDE DEF at
  <2> QED
    BY <1>0, OneRequest, PlaceKinds DEF Request
<1>2. asked' = [asked EXCEPT ![r] = q] /\ asked[r].at = "plan"
  BY DEF PlanFromBody, AskGoes
<1> HIDE DEF q, at
<1>3. UNCHANGED <<clockNow, breaker, flight>> /\ StoreTypes' /\ CacheIsTrue'
  <2>1. asked[r].body.ceiling \in Int
    BY OneRequest, RequestFields DEF Answer
  <2> QED
    BY <2>1 DEF PlanFromBody, ParsePlan, NoCeiling, IntroInv, IntroTypes, StoreTypes, CacheIsTrue
<1> QED
  BY <1>0, <1>1, <1>2, <1>3, OneMoves, OneRequest, PlaceKinds

(* The breaker lets a call or a probe pass, or refuses it.                    *)
LEMMA BuildGateKeeps == ASSUME IntroInv, NEW r \in AuthRequests, BuildGate(r) PROVE IntroInv'
<1> DEFINE c == IF planCache = NoCeiling THEN 0 ELSE planCache
           q == [asked[r] EXCEPT !.at = "done", !.ceiling = c]
<1>0. c \in Int
  BY DEF IntroInv, IntroTypes, StoreTypes
<1>1. q \in Request /\ q.at = "done" /\ q.body = asked[r].body /\ q.probe = asked[r].probe
  <2> HIDE DEF c
  <2> QED
    BY <1>0, OneRequest, PlaceKinds DEF Request
<1>2. asked' = [asked EXCEPT ![r] = q] /\ asked[r].at = "admit"
  BY DEF BuildGate
<1> HIDE DEF q, c
<1>3. UNCHANGED <<clockNow, breaker, flight>> /\ StoreTypes' /\ CacheIsTrue'
  BY DEF BuildGate, IntroInv, IntroTypes, StoreTypes, CacheIsTrue
<1> QED
  BY <1>1, <1>2, <1>3, OneMoves, OneRequest, PlaceKinds

(* The endpoint answers or fails; failures open the breaker.                  *)
LEMMA RespondedKeeps == ASSUME IntroInv, NEW r \in AuthRequests, Responded(r) PROVE IntroInv'
<1>1. PICK body \in {EndpointAnswer(r), NoBody} :
        asked' = [asked EXCEPT ![r] = [@ EXCEPT !.at = "answered", !.body = body, !.probe = NoCeiling]]
  BY DEF Responded
<1>2. body \in Answer /\ (body.known => (body.valid <=> TokenOf[r] \in GoodTokens))
  <2>1. CASE body = NoBody
    BY <2>1 DEF NoBody, Answer, NoCeiling
  <2>2. CASE body = EndpointAnswer(r)
    <3>1. PICK good \in BOOLEAN : good <=> TokenOf[r] \in GoodTokens
      OBVIOUS
    <3>2. good = (TokenOf[r] \in GoodTokens)
      BY <3>1, Zenon
    <3>3. body = [valid |-> good, ceiling |-> entitlement, known |-> TRUE]
      BY <2>2, <3>2, Zenon DEF EndpointAnswer
    <3>4. entitlement \in Int
      BY DEF IntroInv, IntroTypes, StoreTypes
    <3> QED
      BY <3>1, <3>3, <3>4 DEF Answer
  <2> QED
    BY <1>1, <2>1, <2>2
<1> DEFINE q == [asked[r] EXCEPT !.at = "answered", !.body = body, !.probe = NoCeiling]
<1>3. q \in Request /\ q.at = "answered" /\ q.body = body /\ q.probe = NoCeiling /\ q.leg = asked[r].leg
  BY <1>2, OneRequest, PlaceKinds DEF Request
<1>4. asked' = [asked EXCEPT ![r] = q] /\ asked[r].at = "post"
  BY <1>1 DEF Responded
<1> HIDE DEF q
<1>5. UNCHANGED <<clockNow, flight>> /\ ~breaker'.open /\ StoreTypes' /\ CacheIsTrue'
  BY DEF Responded, ClosedBreaker, IntroInv, IntroTypes, StoreTypes, CacheIsTrue
<1> QED
  BY <1>2, <1>3, <1>4, <1>5, OneMoves, OneRequest, PlaceKinds

(* Failures open the breaker now, or count towards opening it. *)
LEMMA TransientKeeps == ASSUME IntroInv, NEW r \in AuthRequests, Transient(r) PROVE IntroInv'
<1> DEFINE n == asked[r].tries + 1
           p == [asked[r] EXCEPT !.tries = n]
           q == [asked[r] EXCEPT !.at = "answered", !.body = NoBody, !.probe = NoCeiling]
<1>1. n \in Nat
  BY OneRequest, RequestFields
<1>2. /\ p \in Request /\ p.at = asked[r].at /\ p.body = asked[r].body /\ p.probe = asked[r].probe
      /\ p.leg = asked[r].leg
  <2> HIDE DEF n
  <2> QED
    BY <1>1, OneRequest DEF Request
<1>3. /\ q \in Request /\ q.at = "answered" /\ q.body = NoBody /\ q.probe = NoCeiling
      /\ q.leg = asked[r].leg
  <2> NoBody \in Answer
    BY DEF NoBody, Answer, NoCeiling
  <2> QED
    BY OneRequest, PlaceKinds DEF Request
<1>4. /\ asked[r].at = "post" /\ UNCHANGED <<clockNow, flight, authCache, planCache, entitlement>>
      /\ ~NoBody.known
      /\ \/ asked' = [asked EXCEPT ![r] = p] /\ UNCHANGED breaker
         \/ asked' = [asked EXCEPT ![r] = q] /\ breaker' = Trip
  BY DEF Transient, NoBody
<1> HIDE DEF n, p, q
<1>5. CacheIsTrue'
  BY <1>4 DEF IntroInv, CacheIsTrue
<1>6. CASE asked' = [asked EXCEPT ![r] = p] /\ UNCHANGED breaker
  <2> StoreTypes'
    BY <1>4, <1>6 DEF IntroInv, IntroTypes, StoreTypes
  <2> QED
    BY <1>2, <1>4, <1>5, <1>6, OneMoves, OneRequest, PlaceKinds
<1>7. CASE asked' = [asked EXCEPT ![r] = q] /\ breaker' = Trip
  <2>1. breaker.open \/ breaker.consecutive + 1 >= Threshold
        => breaker' = [open |-> TRUE, consecutive |-> 0, openedAt |-> clockNow]
    BY <1>7 DEF Trip
  <2>2. ~(breaker.open \/ breaker.consecutive + 1 >= Threshold)
        => breaker' = [breaker EXCEPT !.consecutive = @ + 1]
    BY <1>7 DEF Trip
  <2>3. /\ breaker' \in [open : BOOLEAN, consecutive : Nat, openedAt : Nat]
        /\ ~breaker'.open \/ breaker'.openedAt = clockNow
    <3>1. breaker \in [open : BOOLEAN, consecutive : Nat, openedAt : Nat] /\ clockNow \in Nat
      BY DEF IntroInv, IntroTypes, StoreTypes
    <3>2. CASE breaker.open \/ breaker.consecutive + 1 >= Threshold
      <4>1. breaker' = [open |-> TRUE, consecutive |-> 0, openedAt |-> clockNow]
        BY <2>1, <3>2, Zenon
      <4> QED
        BY <3>1, <4>1
    <3>3. CASE ~(breaker.open \/ breaker.consecutive + 1 >= Threshold)
      BY <2>2, <3>1, <3>3
    <3> QED
      BY <3>2, <3>3
  <2>4. StoreTypes'
    BY <1>4, <2>3 DEF IntroInv, IntroTypes, StoreTypes
  <2> QED
    BY <1>3, <1>4, <1>5, <1>7, <2>3, <2>4, OneMoves, OneRequest, PlaceKinds
<1> QED
  BY <1>4, <1>6, <1>7

(* on_call: the probe starts a cooldown after every earlier one. *)
LEMMA OnCallKeeps == ASSUME IntroInv, NEW r \in AuthRequests, OnCall(r) PROVE IntroInv'
<1> DEFINE a == [asked[r] EXCEPT !.at = "post", !.tries = 0]
           b == [asked[r] EXCEPT !.at = "answered", !.body = NoBody]
           c == [asked[r] EXCEPT !.at = "post", !.tries = 0, !.probe = clockNow]
<1>0. NoBody \in Answer /\ ~NoBody.known /\ clockNow \in Nat
  BY DEF NoBody, Answer, NoCeiling, IntroInv, IntroTypes, StoreTypes
<1>1. /\ a \in Request /\ a.at = "post" /\ a.body = asked[r].body /\ a.probe = asked[r].probe
      /\ a.leg = asked[r].leg
  BY OneRequest, PlaceKinds DEF Request
<1>2. /\ b \in Request /\ b.at = "answered" /\ b.body = NoBody /\ b.probe = asked[r].probe
      /\ b.leg = asked[r].leg
  BY <1>0, OneRequest, PlaceKinds DEF Request
<1>3. /\ c \in Request /\ c.at = "post" /\ c.body = asked[r].body /\ c.probe = clockNow
      /\ c.leg = asked[r].leg
  BY <1>0, OneRequest, PlaceKinds DEF Request
<1>4. /\ asked[r].at = "gate" /\ UNCHANGED <<clockNow, flight, authCache, planCache, entitlement>>
      /\ \/ asked' = [asked EXCEPT ![r] = a] /\ UNCHANGED breaker
         \/ asked' = [asked EXCEPT ![r] = b] /\ UNCHANGED breaker
         \/ /\ asked' = [asked EXCEPT ![r] = c] /\ breaker.open /\ ~BreakerCooling
            /\ breaker' = [breaker EXCEPT !.openedAt = clockNow]
  BY DEF OnCall
<1> HIDE DEF a, b, c
<1>5. CacheIsTrue'
  BY <1>4 DEF IntroInv, CacheIsTrue
<1>6. CASE (asked' = [asked EXCEPT ![r] = a] \/ asked' = [asked EXCEPT ![r] = b]) /\ UNCHANGED breaker
  <2> StoreTypes'
    BY <1>4, <1>6 DEF IntroInv, IntroTypes, StoreTypes
  <2> QED
    BY <1>0, <1>1, <1>2, <1>4, <1>5, <1>6, OneMoves, OneRequest, PlaceKinds
<1>7. CASE /\ asked' = [asked EXCEPT ![r] = c] /\ breaker.open /\ ~BreakerCooling
           /\ breaker' = [breaker EXCEPT !.openedAt = clockNow]
  <2>1. StoreTypes' /\ breaker'.openedAt = clockNow
    BY <1>0, <1>4, <1>7 DEF IntroInv, IntroTypes, StoreTypes
  <2>2. /\ asked' \in [AuthRequests -> Request] /\ asked'[r] = c
        /\ \A f \in AuthRequests : f # r => asked'[f] = asked[f]
    BY <1>3, <1>7 DEF IntroInv, IntroTypes
  <2>3. AnswersAreTrue'
    BY <1>3, <2>2 DEF IntroInv, AnswersAreTrue
  <2>4. OnlyKnownTokensPass'
    BY <1>3, <2>2 DEF IntroInv, OnlyKnownTokensPass
  <2>5. FlightsAreLed'
    BY <1>3, <1>4, <2>2 DEF IntroInv, FlightsAreLed, Working
  <2>6. \A f \in AuthRequests : asked[f].probe \in Nat \cup {NoCeiling}
    BY OneRequest, RequestFields
  <2>7. breaker.openedAt \in Nat /\ Cooldown \in Nat /\ clockNow - breaker.openedAt >= Cooldown
    BY <1>0, <1>7, IntrospectionAssumption DEF BreakerCooling, IntroInv, IntroTypes, StoreTypes
  <2>8. \A f \in AuthRequests : asked[f].probe # NoCeiling => clockNow - asked[f].probe >= Cooldown
    BY <1>0, <1>7, <2>6, <2>7 DEF IntroInv, ProbesBeforeOpening
  <2>9. ProbesBeforeOpening'
    BY <1>0, <1>3, <1>4, <2>1, <2>2, <2>6 DEF IntroInv, ProbesBeforeOpening
  <2>10. ProbesAreSpaced'
    BY <1>3, <2>2, <2>8 DEF IntroInv, ProbesAreSpaced
  <2> QED
    BY <1>4, <1>5, <2>1, <2>2, <2>3, <2>4, <2>5, <2>9, <2>10 DEF IntroInv, IntroTypes
<1> QED
  BY <1>4, <1>6, <1>7

(* A new leader: nobody followed the flight, since nobody led it. *)
LEMMA LeadKeeps ==
  ASSUME IntroInv, NEW r \in AuthRequests, NEW leg \in Legs, Lead(r, leg)
  PROVE  IntroInv'
<1> DEFINE q == [asked[r] EXCEPT !.at = "permit", !.leg = leg]
<1>1. /\ q \in Request /\ q.at = "permit" /\ q.leg = leg /\ q.body = asked[r].body
      /\ q.probe = asked[r].probe
  BY OneRequest, PlaceKinds DEF Request
<1>2. /\ asked' = [asked EXCEPT ![r] = q] /\ asked[r].at \in {"new", "plan"}
      /\ flight[leg][TokenOf[r]] = NoLeader /\ flight' = [flight EXCEPT ![leg][TokenOf[r]] = r]
      /\ UNCHANGED <<clockNow, breaker>>
  BY DEF Lead, EntersLeg, Asks
<1> HIDE DEF q
<1>3. StoreTypes' /\ CacheIsTrue'
  BY CacheGetKeeps, TokenTyped DEF Lead, EntersLeg
<1>4. /\ asked' \in [AuthRequests -> Request] /\ asked'[r] = q
      /\ \A f \in AuthRequests : f # r => asked'[f] = asked[f]
  BY <1>1, <1>2 DEF IntroInv, IntroTypes
<1>5. /\ flight' \in [Legs -> [Tokens -> AuthRequests \cup {NoLeader}]]
      /\ flight'[leg][TokenOf[r]] = r
      /\ \A g \in Legs, t \in Tokens : flight'[g][t] = flight[g][t] \/ (g = leg /\ t = TokenOf[r])
  BY <1>2, TokenTyped DEF IntroInv, IntroTypes
<1>6. AnswersAreTrue' /\ OnlyKnownTokensPass'
  BY <1>1, <1>4 DEF IntroInv, AnswersAreTrue, OnlyKnownTokensPass
<1>7. ProbesBeforeOpening' /\ ProbesAreSpaced'
  <2>1. \A f \in AuthRequests : asked'[f].probe \in {NoCeiling, asked[f].probe}
    BY <1>1, <1>4
  <2> QED
    BY <1>2, <1>4, <2>1, ProbesKept
<1>8. FlightsAreLed'
  <2>1. ASSUME NEW g \in Legs, NEW t \in Tokens, flight'[g][t] # NoLeader
        PROVE  /\ flight'[g][t] \in AuthRequests /\ TokenOf[flight'[g][t]] = t
               /\ asked'[flight'[g][t]].leg = g /\ asked'[flight'[g][t]].at \in Working
    <3>1. CASE g = leg /\ t = TokenOf[r]
      BY <1>1, <1>4, <1>5, <3>1 DEF Working
    <3>2. CASE flight'[g][t] = flight[g][t]
      <4>1. /\ flight[g][t] \in AuthRequests /\ TokenOf[flight[g][t]] = t
            /\ asked[flight[g][t]].leg = g /\ asked[flight[g][t]].at \in Working
        BY <2>1, <3>2 DEF IntroInv, FlightsAreLed
      <4>2. flight[g][t] # r
        BY <1>2, <4>1 DEF Working
      <4> QED
        BY <1>4, <3>2, <4>1, <4>2
    <3> QED
      BY <1>5, <3>1, <3>2
  <2>2. ASSUME NEW f \in AuthRequests, asked'[f].at = "follow"
        PROVE  asked'[f].leg \in Legs /\ flight'[asked'[f].leg][TokenOf[f]] # NoLeader
    <3>1. asked'[f] = asked[f]
      BY <1>1, <1>4, <2>2
    <3>2. asked[f].leg \in Legs /\ flight[asked[f].leg][TokenOf[f]] # NoLeader
      BY <2>2, <3>1 DEF IntroInv, FlightsAreLed
    <3> QED
      BY <1>2, <1>5, <3>1, <3>2, TokenTyped
  <2> QED
    BY <2>1, <2>2 DEF FlightsAreLed
<1> QED
  BY <1>3, <1>4, <1>5, <1>6, <1>7, <1>8 DEF IntroInv, IntroTypes

(* A flight ends for its leader and for everybody who followed it. *)
LEMMA FlightEnds ==
  ASSUME IntroInv, NEW r \in AuthRequests, asked[r].leg \in Legs,
         asked' \in [AuthRequests -> Request],
         flight' = [flight EXCEPT ![asked[r].leg][TokenOf[r]] = NoLeader],
         \A f \in AuthRequests : f \notin Followers(r) \cup {r} => asked'[f] = asked[f],
         \A f \in Followers(r) \cup {r} :
           /\ asked'[f].at # "follow" /\ asked'[f].probe = asked[f].probe
           /\ asked'[f].body.known => (asked'[f].body.valid <=> TokenOf[f] \in GoodTokens)
           /\ asked'[f].at \in Passing => TokenOf[f] \in GoodTokens,
         UNCHANGED <<clockNow, breaker>>, StoreTypes', CacheIsTrue'
  PROVE  IntroInv'
<1>1. /\ flight' \in [Legs -> [Tokens -> AuthRequests \cup {NoLeader}]]
      /\ flight'[asked[r].leg][TokenOf[r]] = NoLeader
      /\ \A g \in Legs, t \in Tokens :
           flight'[g][t] = flight[g][t] \/ (g = asked[r].leg /\ t = TokenOf[r])
  BY TokenTyped DEF IntroInv, IntroTypes
<1>2. \A f \in Followers(r) : asked[f].at = "follow"
  BY DEF Followers
<1>3. AnswersAreTrue'
  BY DEF IntroInv, AnswersAreTrue
<1>4. OnlyKnownTokensPass'
  BY DEF IntroInv, OnlyKnownTokensPass, Passing
<1>5. ProbesBeforeOpening' /\ ProbesAreSpaced'
  <2>1. \A f \in AuthRequests : asked'[f].probe \in {NoCeiling, asked[f].probe}
    OBVIOUS
  <2> QED
    BY <2>1, ProbesKept
<1>6. FlightsAreLed'
  <2>1. ASSUME NEW g \in Legs, NEW t \in Tokens, flight'[g][t] # NoLeader
        PROVE  /\ flight'[g][t] \in AuthRequests /\ TokenOf[flight'[g][t]] = t
               /\ asked'[flight'[g][t]].leg = g /\ asked'[flight'[g][t]].at \in Working
    <3>1. flight'[g][t] = flight[g][t] /\ ~(g = asked[r].leg /\ t = TokenOf[r])
      BY <1>1, <2>1
    <3>2. /\ flight[g][t] \in AuthRequests /\ TokenOf[flight[g][t]] = t
          /\ asked[flight[g][t]].leg = g /\ asked[flight[g][t]].at \in Working
      BY <2>1, <3>1 DEF IntroInv, FlightsAreLed
    <3>3. flight[g][t] # r /\ flight[g][t] \notin Followers(r)
      BY <1>2, <3>1, <3>2 DEF Working
    <3> QED
      BY <3>1, <3>2, <3>3
  <2>2. ASSUME NEW f \in AuthRequests, asked'[f].at = "follow"
        PROVE  asked'[f].leg \in Legs /\ flight'[asked'[f].leg][TokenOf[f]] # NoLeader
    <3>1. asked'[f] = asked[f] /\ f \notin Followers(r)
      BY <2>2
    <3>2. asked[f].leg \in Legs /\ flight[asked[f].leg][TokenOf[f]] # NoLeader
      BY <2>2, <3>1 DEF IntroInv, FlightsAreLed
    <3>3. ~(asked[f].leg = asked[r].leg /\ TokenOf[f] = TokenOf[r])
      BY <2>2, <3>1 DEF Followers
    <3> QED
      BY <1>1, <3>1, <3>2, <3>3, TokenTyped
  <2> QED
    BY <2>1, <2>2 DEF FlightsAreLed
<1> QED
  BY <1>1, <1>3, <1>4, <1>5, <1>6 DEF IntroInv, IntroTypes

(* The requests after a flight that ended with one answer for all. *)
LEMMA FlightAnswers ==
  ASSUME IntroInv, NEW r \in AuthRequests, NEW at \in Places, NEW body \in Answer,
         Flight(r, at, body)
  PROVE  /\ asked' \in [AuthRequests -> Request]
         /\ \A f \in AuthRequests : f \notin Followers(r) \cup {r} => asked'[f] = asked[f]
         /\ \A f \in Followers(r) \cup {r} :
              /\ f \in AuthRequests /\ TokenOf[f] = TokenOf[r]
              /\ asked'[f].at = at /\ asked'[f].body = body /\ asked'[f].probe = asked[f].probe
<1>1. asked' = [f \in AuthRequests |-> IF f \in Followers(r) \cup {r}
                                       THEN [asked[f] EXCEPT !.at = at, !.body = body] ELSE asked[f]]
  BY DEF Flight
<1>2. \A f \in Followers(r) \cup {r} : f \in AuthRequests /\ TokenOf[f] = TokenOf[r]
  BY DEF Followers
<1>3. ASSUME NEW f \in AuthRequests
      PROVE  LET q == [asked[f] EXCEPT !.at = at, !.body = body]
             IN  q \in Request /\ q.at = at /\ q.body = body /\ q.probe = asked[f].probe
  BY OneRequest DEF Request
<1>4. ASSUME NEW f \in AuthRequests, f \notin Followers(r) \cup {r}
      PROVE  asked'[f] = asked[f] /\ asked'[f] \in Request
  BY <1>1, <1>4, OneRequest
<1>5. ASSUME NEW f \in AuthRequests, f \in Followers(r) \cup {r}
      PROVE  /\ asked'[f] \in Request
             /\ asked'[f].at = at /\ asked'[f].body = body /\ asked'[f].probe = asked[f].probe
  <2> DEFINE q == [asked[f] EXCEPT !.at = at, !.body = body]
  <2>1. asked'[f] = q
    BY <1>1, <1>5
  <2>2. q \in Request /\ q.at = at /\ q.body = body /\ q.probe = asked[f].probe
    BY <1>3
  <2> HIDE DEF q
  <2> QED
    BY <2>1, <2>2
<1>6. asked' \in [AuthRequests -> Request]
  <2>1. DOMAIN asked' = AuthRequests /\ asked' = [f \in AuthRequests |-> asked'[f]]
    BY <1>1
  <2> QED
    BY <1>4, <1>5, <2>1
<1> QED
  BY <1>2, <1>4, <1>5, <1>6

(* put stores what the endpoint said of a token it knows. *)
LEMMA CachePutKeeps ==
  ASSUME IntroInv, NEW t \in Tokens, NEW body \in Answer, body.known, body.valid, t \in GoodTokens,
         CachePut(t, body), UNCHANGED <<clockNow, breaker, planCache, entitlement>>
  PROVE  StoreTypes' /\ CacheIsTrue'
<1> DEFINE fresh == [body |-> body, expires |-> clockNow + CacheTtl]
<1>0. /\ NoEntry \in [body : Answer, expires : Nat]
      /\ fresh \in [body : Answer, expires : Nat] /\ fresh.body = body
      /\ authCache \in [Tokens -> [body : Answer, expires : Nat]]
  BY IntrospectionAssumption
  DEF NoEntry, NoBody, NoCeiling, Answer, IntroInv, IntroTypes, StoreTypes
<1>1. PICK kept \in [Tokens -> [body : Answer, expires : Nat]] :
        /\ \A u \in Tokens : kept[u] \in {authCache[u], NoEntry}
        /\ authCache' = kept \/ authCache' = [kept EXCEPT ![t] = fresh]
  <2> DEFINE swept == [u \in Tokens |-> IF u \in LiveTokens THEN authCache[u] ELSE NoEntry]
  <2>1. swept \in [Tokens -> [body : Answer, expires : Nat]] /\ \A u \in Tokens : swept[u] \in {authCache[u], NoEntry}
    BY <1>0
  <2>2. \E kept \in {swept, authCache} : authCache' = kept \/ authCache' = [kept EXCEPT ![t] = fresh]
    BY DEF CachePut
  <2> HIDE DEF swept, fresh
  <2> QED
    BY <1>0, <2>1, <2>2
<1> HIDE DEF fresh
<1>2. /\ authCache' \in [Tokens -> [body : Answer, expires : Nat]]
      /\ \A u \in Tokens : authCache'[u] \in {authCache[u], NoEntry} \/ (u = t /\ authCache'[u] = fresh)
  BY <1>0, <1>1
<1> QED
  BY <1>0, <1>2 DEF IntroInv, IntroTypes, StoreTypes, CacheIsTrue

(* The leader publishes to every follower and ends the flight.                *)
LEMMA PublishKeeps == ASSUME IntroInv, NEW r \in AuthRequests, Publish(r) PROVE IntroInv'
<1>1. PICK body \in Answer : /\ body = asked[r].body
                             /\ body.known => (body.valid <=> TokenOf[r] \in GoodTokens)
  BY OneRequest, RequestFields
<1>2. PICK at \in {"plan", "refused"} : at = Resolved(body) /\ (at = "plan" <=> body.known /\ body.valid)
  BY DEF Resolved
<1>3. /\ asked[r].leg \in Legs /\ Flight(r, at, body)
      /\ IF at = "plan" THEN CachePut(TokenOf[r], body) ELSE UNCHANGED authCache
      /\ UNCHANGED <<clockNow, breaker, planCache, entitlement>>
  BY <1>1, <1>2 DEF Publish, Legs
<1>4. StoreTypes' /\ CacheIsTrue'
  <2>1. CASE at = "plan"
    BY <1>1, <1>2, <1>3, <2>1, CachePutKeeps, TokenTyped
  <2>2. CASE at # "plan"
    BY <1>3, <2>2 DEF IntroInv, IntroTypes, StoreTypes, CacheIsTrue
  <2> QED
    BY <2>1, <2>2
<1>5. flight' = [flight EXCEPT ![asked[r].leg][TokenOf[r]] = NoLeader]
  BY <1>3 DEF Flight
<1>6. at \in Places /\ (at \in Passing => at = "plan") /\ at # "follow"
  BY PlaceKinds, <1>2
<1> QED
  <2>1. /\ asked' \in [AuthRequests -> Request]
        /\ \A f \in AuthRequests : f \notin Followers(r) \cup {r} => asked'[f] = asked[f]
        /\ \A f \in Followers(r) \cup {r} :
             /\ f \in AuthRequests /\ TokenOf[f] = TokenOf[r]
             /\ asked'[f].at = at /\ asked'[f].body = body /\ asked'[f].probe = asked[f].probe
    BY <1>3, <1>6, FlightAnswers
  <2> QED
    BY <1>1, <1>2, <1>3, <1>4, <1>5, <1>6, <2>1, FlightEnds

(* The ceiling of the plan is known.                                          *)
LEMMA PlanResolvedKeeps == ASSUME IntroInv, NEW r \in AuthRequests, PlanResolved(r) PROVE IntroInv'
<1>1. PICK body \in Answer : /\ body = asked[r].body
                             /\ body.known => (body.valid <=> TokenOf[r] \in GoodTokens)
  BY OneRequest, RequestFields
<1>2. PICK at \in {"admit", "refused"} : at = Planned(body) /\ (at = "admit" => body.known /\ body.valid)
  BY DEF Planned, HasPlan
<1>3. /\ asked[r].leg \in Legs /\ Flight(r, at, body) /\ ParsePlan(body)
      /\ UNCHANGED <<clockNow, breaker, authCache, entitlement>>
  BY <1>1, <1>2 DEF PlanResolved, Legs
<1>4. StoreTypes' /\ CacheIsTrue'
  BY <1>3 DEF ParsePlan, NoCeiling, Answer, IntroInv, IntroTypes, StoreTypes, CacheIsTrue
<1>5. flight' = [flight EXCEPT ![asked[r].leg][TokenOf[r]] = NoLeader]
  BY <1>3 DEF Flight
<1>6. at \in Places /\ (at \in Passing => at = "admit") /\ at # "follow"
  BY PlaceKinds, <1>2
<1> QED
  <2>1. /\ asked' \in [AuthRequests -> Request]
        /\ \A f \in AuthRequests : f \notin Followers(r) \cup {r} => asked'[f] = asked[f]
        /\ \A f \in Followers(r) \cup {r} :
             /\ f \in AuthRequests /\ TokenOf[f] = TokenOf[r]
             /\ asked'[f].at = at /\ asked'[f].body = body /\ asked'[f].probe = asked[f].probe
    BY <1>3, <1>6, FlightAnswers
  <2> QED
    BY <1>1, <1>2, <1>3, <1>4, <1>5, <1>6, <2>1, FlightEnds

(* A leader that is cancelled takes its flight with it.                       *)
LEMMA LeaderDropsKeeps == ASSUME IntroInv, NEW r \in AuthRequests, LeaderDrops(r) PROVE IntroInv'
<1>1. /\ asked[r].leg \in Legs /\ asked[r].at \in {"permit", "gate", "post"}
      /\ flight' = [flight EXCEPT ![asked[r].leg][TokenOf[r]] = NoLeader]
      /\ UNCHANGED <<clockNow, breaker>>
  BY DEF LeaderDrops, FreesFlight
<1>2. StoreTypes' /\ CacheIsTrue'
  BY DEF LeaderDrops, IntroInv, IntroTypes, StoreTypes, CacheIsTrue
<1>3. asked' = [f \in AuthRequests |-> IF f = r THEN DroppedLeader(r)
                ELSE IF f \in Followers(r) THEN [asked[f] EXCEPT !.at = "refused"] ELSE asked[f]]
  BY DEF LeaderDrops
<1>4. asked'[r] \in Request /\ asked'[r].body = asked[r].body /\ asked'[r].probe = asked[r].probe
      /\ asked'[r].at \in {"refused", "gate", "post"}
  <2> DEFINE p == [asked[r] EXCEPT !.at = "refused"]
             q == [asked[r] EXCEPT !.leg = "orphan"]
  <2>1. p \in Request /\ p.at = "refused" /\ p.body = asked[r].body /\ p.probe = asked[r].probe
    BY OneRequest, PlaceKinds DEF Request
  <2>2. q \in Request /\ q.at = asked[r].at /\ q.body = asked[r].body /\ q.probe = asked[r].probe
    BY OneRequest DEF Request
  <2>3. asked'[r] = IF asked[r].at = "permit" THEN p ELSE q
    BY <1>3 DEF DroppedLeader
  <2> HIDE DEF p, q
  <2> QED
    BY <1>1, <2>1, <2>2, <2>3
<1>5. ASSUME NEW f \in AuthRequests, f # r, f \in Followers(r)
      PROVE  /\ asked'[f] \in Request /\ asked'[f].at = "refused"
             /\ asked'[f].body = asked[f].body /\ asked'[f].probe = asked[f].probe
  <2> DEFINE q == [asked[f] EXCEPT !.at = "refused"]
  <2>1. q \in Request /\ q.at = "refused" /\ q.body = asked[f].body /\ q.probe = asked[f].probe
    BY OneRequest, PlaceKinds DEF Request
  <2>2. asked'[f] = q
    BY <1>3, <1>5
  <2> HIDE DEF q
  <2> QED
    BY <2>1, <2>2
<1>6. ASSUME NEW f \in AuthRequests, f \notin Followers(r) \cup {r}
      PROVE  asked'[f] = asked[f] /\ asked'[f] \in Request
  BY <1>3, <1>6, OneRequest
<1>7. asked' \in [AuthRequests -> Request]
  <2>1. DOMAIN asked' = AuthRequests /\ asked' = [f \in AuthRequests |-> asked'[f]]
    BY <1>3
  <2> QED
    BY <1>4, <1>5, <1>6, <2>1
<1>8. \A f \in Followers(r) \cup {r} :
        /\ f \in AuthRequests
        /\ asked'[f].at # "follow" /\ asked'[f].probe = asked[f].probe
        /\ asked'[f].body.known => (asked'[f].body.valid <=> TokenOf[f] \in GoodTokens)
        /\ asked'[f].at \in Passing => TokenOf[f] \in GoodTokens
  <2>1. \A f \in Followers(r) : f \in AuthRequests
    BY DEF Followers
  <2> QED
    BY <1>4, <1>5, <2>1, OneRequest, PlaceKinds
<1> QED
  BY <1>1, <1>2, <1>6, <1>7, <1>8, FlightEnds

(* Every step of introspection keeps the invariant.                           *)
LEMMA IntroStep == IntroInv /\ [IntroNext]_introVars => IntroInv'
<1> SUFFICES ASSUME IntroInv, [IntroNext]_introVars PROVE IntroInv'
  OBVIOUS
<1>1. CASE ClockTicks
  <2>1. clockNow \in Nat /\ clockNow' = clockNow + 1 /\ \A f \in AuthRequests : asked[f].probe \in Nat \cup {NoCeiling}
    BY <1>1, OneRequest, RequestFields DEF ClockTicks, IntroInv, IntroTypes, StoreTypes
  <2>2. ProbesBeforeOpening'
    BY <1>1, <2>1 DEF ClockTicks, IntroInv, ProbesBeforeOpening, NoCeiling
  <2> QED
    BY <1>1, <2>1, <2>2 DEF ClockTicks, IntroInv, IntroTypes, StoreTypes, AnswersAreTrue, CacheIsTrue,
       FlightsAreLed, ProbesAreSpaced, OnlyKnownTokensPass
<1>2. CASE EntitlementChanges
  BY <1>2 DEF EntitlementChanges, NoCeiling, IntroInv, IntroTypes, StoreTypes, ProbesBeforeOpening,
     AnswersAreTrue, CacheIsTrue, FlightsAreLed, ProbesAreSpaced, OnlyKnownTokensPass
<1>3. CASE UNCHANGED introVars
  BY <1>3 DEF introVars, IntroInv, IntroTypes, StoreTypes, ProbesBeforeOpening,
     AnswersAreTrue, CacheIsTrue, FlightsAreLed, ProbesAreSpaced, OnlyKnownTokensPass
<1> QED
  BY <1>1, <1>2, <1>3, CacheHitKeeps, StaticAuthKeeps, TakePermitKeeps, JoinKeeps, LeadKeeps, OnCallKeeps,
     RespondedKeeps, TransientKeeps, PublishKeeps, LeaderDropsKeeps, OrphanEndsKeeps, PlanFromBodyKeeps,
     PlanResolvedKeeps, BuildGateKeeps DEF IntroNext

(* The invariant behind the two results on introspection.                     *)
LEMMA IntroInvariance == IntroSpec => []IntroInv
<1>1. IntroInit => IntroInv
  <2> SUFFICES ASSUME IntroInit PROVE IntroInv
    OBVIOUS
  <2>1. /\ NoEntry \in [body : Answer, expires : Nat] /\ NewRequest \in Request
        /\ NewRequest.at = "new" /\ NewRequest.probe = NoCeiling /\ ~NewRequest.body.known
    BY PlaceKinds DEF NoEntry, NoBody, NoCeiling, Answer, NewRequest, Request, Legs
  <2>2. \A f \in AuthRequests : asked[f] = NewRequest
    BY DEF IntroInit
  <2>3. IntroTypes
    <3> HIDE DEF NewRequest, NoEntry
    <3> QED
      BY <2>1 DEF IntroInit, IntroTypes, StoreTypes, NoCeiling
  <2>4. CacheIsTrue
    BY DEF IntroInit, CacheIsTrue
  <2>5. FlightsAreLed
    BY <2>1, <2>2 DEF IntroInit, FlightsAreLed
  <2>6. ProbesBeforeOpening /\ AnswersAreTrue /\ ProbesAreSpaced /\ OnlyKnownTokensPass
    BY <2>1, <2>2 DEF ProbesBeforeOpening, AnswersAreTrue, ProbesAreSpaced, OnlyKnownTokensPass
  <2> QED
    BY <2>3, <2>4, <2>5, <2>6 DEF IntroInv
<1> QED
  BY <1>1, IntroStep, PTL DEF IntroSpec

(* Introspection: whatever the endpoint, the cache, the breaker and cancelled *)
(* leaders do, only a token the endpoint vouched for passes, and probes of an *)
(* open breaker stay a cooldown apart.                                        *)
THEOREM IntrospectionAlwaysFailsClosed == IntroSpec => []IntrospectionFailsClosed
<1>1. IntroInv => IntrospectionFailsClosed
  BY DEF IntroInv, IntrospectionFailsClosed
<1> QED
  BY <1>1, IntroInvariance, PTL

(* Introspection: a caller that follows a flight follows one whose leader is  *)
(* still to publish, even when leaders are cancelled.                         *)
THEOREM FollowersAlwaysHaveALeader == IntroSpec => []FollowersHaveALeader
<1>1. IntroInv => FollowersHaveALeader
  BY TokenTyped DEF IntroInv, FlightsAreLed, FollowersHaveALeader, Working
<1> QED
  BY <1>1, IntroInvariance, PTL

--------------------------------------------------------------------------------
(* Mint readiness *)

(* The inductive invariant of the readiness gate: the one notice comes with   *)
(* the outcome, and a Notified was made no later than the last notice.        *)
ReadyInv ==
  /\ readiness \in {"Unknown", "Running", "Ready", "Terminal"}
  /\ notices \in Nat /\ probes \in Nat /\ attempts \in Nat
  /\ caller \in [ReadyCallers -> [at : {"new", "loop", "look", "wait", "true", "false", "dropped"}, since : Nat]]
  /\ probes = IF readiness = "Unknown" THEN 0 ELSE 1
  /\ \A c \in ReadyCallers : caller[c].since <= notices
  /\ \A c \in ReadyCallers : caller[c].at = "wait" /\ Settled => notices > caller[c].since

(* A caller's step keeps the invariant when it does not go to wait for what   *)
(* was announced already.                                                     *)
LEMMA CallerMoves ==
  ASSUME ReadyInv, NEW c \in ReadyCallers,
         NEW q \in [at : {"new", "loop", "look", "wait", "true", "false", "dropped"}, since : Nat],
         caller' = [caller EXCEPT ![c] = q], UNCHANGED <<readiness, attempts, probes, notices>>,
         q.since <= notices, q.at = "wait" => ~Settled
  PROVE  ReadyInv'
  BY DEF ReadyInv, Settled

(* Every step of the readiness gate keeps the invariant.                      *)
LEMMA ReadyStep == ReadyInv /\ [ReadyNext]_readyVars => ReadyInv'
<1> SUFFICES ASSUME ReadyInv, [ReadyNext]_readyVars PROVE ReadyInv'
  OBVIOUS
<1> DEFINE Caller == [at : {"new", "loop", "look", "wait", "true", "false", "dropped"}, since : Nat]
<1>1. ASSUME NEW c \in ReadyCallers, StartProbe(c) PROVE ReadyInv'
  <2>1. /\ caller' \in [ReadyCallers -> Caller]
        /\ \A d \in ReadyCallers : caller'[d].since = caller[d].since
        /\ \A d \in ReadyCallers : caller'[d].at = "wait" => caller[d].at = "wait"
    BY <1>1 DEF StartProbe, ReadyInv
  <2> QED
    BY <1>1, <2>1 DEF StartProbe, ReadyInv, Settled
<1>2. ASSUME NEW c \in ReadyCallers, MakeNotified(c) PROVE ReadyInv'
  <2> DEFINE q == [at |-> "look", since |-> notices]
  <2>1. q \in Caller /\ q.at = "look" /\ q.since <= notices
    BY DEF ReadyInv
  <2>2. caller' = [caller EXCEPT ![c] = q] /\ UNCHANGED <<readiness, attempts, probes, notices>>
    BY <1>2 DEF MakeNotified
  <2> HIDE DEF q
  <2> QED
    BY <2>1, <2>2, CallerMoves
<1>3. ASSUME NEW c \in ReadyCallers,
             \/ LookAtState(c) \/ Woken(c) \/ WaitTimesOut(c) \/ CallerDropped(c)
      PROVE  ReadyInv'
  <2>1. PICK at \in {"loop", "wait", "true", "false", "dropped"} :
          /\ caller' = [caller EXCEPT ![c].at = at] /\ UNCHANGED <<readiness, attempts, probes, notices>>
          /\ at = "wait" => ~Settled
    BY <1>3 DEF LookAtState, Woken, WaitTimesOut, CallerDropped, Settled
  <2> DEFINE q == [caller[c] EXCEPT !.at = at]
  <2>2. q \in Caller /\ q.at = at /\ q.since = caller[c].since /\ caller[c].since <= notices
    BY DEF ReadyInv
  <2>3. caller' = [caller EXCEPT ![c] = q]
    BY <2>1
  <2> HIDE DEF q
  <2> QED
    BY <2>1, <2>2, <2>3, CallerMoves
<1>4. CASE ProbeRetries
  BY <1>4 DEF ProbeRetries, ReadyInv, Settled
<1>5. ASSUME NEW ready \in BOOLEAN, ProbeEnds(ready) PROVE ReadyInv'
  <2>1. \A c \in ReadyCallers : caller[c].since \in Nat
    BY DEF ReadyInv
  <2> QED
    BY <1>5, <2>1 DEF ProbeEnds, Announced, ReadyInv, Settled
<1>6. CASE UNCHANGED readyVars
  BY <1>6 DEF readyVars, ReadyInv, Settled
<1> QED
  BY <1>1, <1>2, <1>3, <1>4, <1>5, <1>6 DEF ReadyNext

(* Mint readiness: a caller that waits for the probe is woken by its outcome, *)
(* because the Notified is made before the state is looked at again.          *)
THEOREM ReadinessWakesEverybody == ReadySpec => []NoReadinessWakeupLost
<1>1. ReadyInit => ReadyInv
  BY DEF ReadyInit, ReadyInv, Settled
<1>2. ReadyInv => NoReadinessWakeupLost
  BY DEF ReadyInv, NoReadinessWakeupLost
<1> QED
  BY <1>1, <1>2, ReadyStep, PTL DEF ReadySpec

(* Nobody who waits for the probe of the mint or for another caller's         *)
(* introspection waits for somebody who is gone.                              *)
THEOREM NoWaiterIsEverStranded == ReadySpec /\ IntroSpec => []NoWaiterIsStranded
  BY ReadinessWakesEverybody, FollowersAlwaysHaveALeader, PTL DEF NoWaiterIsStranded

--------------------------------------------------------------------------------
(* The global gate *)

AllHeld == {g \in Guards : guard[g] = "held"}

(* The inductive invariant of the global gate. *)
GateInv ==
  /\ policy \in {"Advisory", "HardReject"}
  /\ total \in Nat /\ per_tenant \in [GateTenants -> Nat]
  /\ guard \in [Guards -> {"none", "held", "released", "dropped", "rejected"}]
  /\ IsFiniteSet(AllHeld)
  /\ GateCountsGuards

(* Every guard belongs to a tenant of the gate.                               *)
LEMMA GuardTenantTyped == \A g \in Guards : GuardTenant[g] \in GateTenants
  BY DEF GateTenants

(* Only the tenant's guards count for it. *)
LEMMA HeldByTenant ==
  ASSUME NEW t, IsFiniteSet(AllHeld)
  PROVE  HeldGuards(t) \subseteq AllHeld /\ IsFiniteSet(HeldGuards(t))
  BY FS_Subset DEF HeldGuards, AllHeld

(* A guard that is handed out counts one more, for the fabric and its tenant. *)
LEMMA GuardTaken ==
  ASSUME GateInv, NEW g \in Guards, guard[g] # "held",
         guard' = [guard EXCEPT ![g] = "held"], UNCHANGED policy,
         total' = total + 1, per_tenant' = [per_tenant EXCEPT ![GuardTenant[g]] = @ + 1],
         policy = "HardReject" => total < Wall /\ per_tenant[GuardTenant[g]] < PerTenantShare
  PROVE  GateInv'
<1>1. AllHeld' = AllHeld \cup {g} /\ g \notin AllHeld
  BY DEF AllHeld, GateInv
<1>2. IsFiniteSet(AllHeld') /\ Cardinality(AllHeld') = Cardinality(AllHeld) + 1
  BY <1>1, FS_AddElement DEF GateInv
<1>3. ASSUME NEW t \in GateTenants
      PROVE  per_tenant'[t] = Cardinality(HeldGuards(t)')
  <2>1. per_tenant[t] = Cardinality(HeldGuards(t)) /\ per_tenant[t] \in Nat
    BY DEF GateInv, GateCountsGuards
  <2>2. CASE t = GuardTenant[g]
    <3>1. HeldGuards(t)' = HeldGuards(t) \cup {g} /\ g \notin HeldGuards(t)
      BY <2>2 DEF HeldGuards, GateInv
    <3>2. Cardinality(HeldGuards(t)') = Cardinality(HeldGuards(t)) + 1
      BY <3>1, HeldByTenant, FS_AddElement DEF GateInv
    <3>3. per_tenant'[t] = per_tenant[t] + 1
      BY <2>2 DEF GateInv
    <3> QED
      BY <2>1, <3>2, <3>3
  <2>3. CASE t # GuardTenant[g]
    <3>1. HeldGuards(t)' = HeldGuards(t)
      BY <2>3 DEF HeldGuards, GateInv
    <3>2. per_tenant'[t] = per_tenant[t]
      BY <2>3 DEF GateInv
    <3> QED
      BY <2>1, <3>1, <3>2
  <2> QED
    BY <2>2, <2>3
<1>4. per_tenant' \in [GateTenants -> Nat] /\ total' \in Nat
  <2>1. per_tenant[GuardTenant[g]] + 1 \in Nat /\ total + 1 \in Nat
    BY GuardTenantTyped DEF GateInv
  <2> QED
    BY <2>1 DEF GateInv
<1>5. PerTenantShare \in Nat
  BY GateAssumption DEF PerTenantShare
<1>6. policy = "HardReject" => total' <= Wall /\ \A t \in GateTenants : per_tenant'[t] <= PerTenantShare
  BY <1>5, GateAssumption, GuardTenantTyped DEF GateInv, GateCountsGuards
<1>7. total' = Cardinality(AllHeld')
  BY <1>2 DEF GateInv, GateCountsGuards, AllHeld
<1> QED
  BY <1>2, <1>3, <1>4, <1>6, <1>7 DEF GateInv, GateCountsGuards, AllHeld

(* A guard that was in use gives back what it counted for. *)
LEMMA GuardReturned ==
  ASSUME GateInv, NEW g \in Guards, guard[g] = "held", NEW s \in {"released", "dropped"},
         guard' = [guard EXCEPT ![g] = s], Release(g), UNCHANGED policy
  PROVE  GateInv'
<1>1. AllHeld' = AllHeld \ {g} /\ g \in AllHeld
  BY DEF AllHeld, GateInv
<1>2. IsFiniteSet(AllHeld') /\ Cardinality(AllHeld') = Cardinality(AllHeld) - 1 /\ Cardinality(AllHeld) \in Nat
      /\ Cardinality(AllHeld') \in Nat
  BY <1>1, FS_RemoveElement, FS_CardinalityType DEF GateInv
<1>3. total' = Cardinality(AllHeld') /\ total' \in Nat /\ total' <= total
  <2>1. total' = Less(total) /\ total = Cardinality(AllHeld)
    BY DEF Release, GateInv, GateCountsGuards, AllHeld
  <2> QED
    BY <1>2, <2>1 DEF Less
<1>4. ASSUME NEW t \in GateTenants
      PROVE  per_tenant'[t] = Cardinality(HeldGuards(t)') /\ per_tenant'[t] \in Nat /\ per_tenant'[t] <= per_tenant[t]
  <2>1. per_tenant[t] = Cardinality(HeldGuards(t)) /\ per_tenant[t] \in Nat /\ IsFiniteSet(HeldGuards(t))
    BY HeldByTenant DEF GateInv, GateCountsGuards
  <2>2. CASE t = GuardTenant[g]
    <3>1. HeldGuards(t)' = HeldGuards(t) \ {g} /\ g \in HeldGuards(t)
      BY <2>2 DEF HeldGuards, GateInv
    <3>2. Cardinality(HeldGuards(t)') = Cardinality(HeldGuards(t)) - 1 /\ Cardinality(HeldGuards(t)') \in Nat
      BY <2>1, <3>1, FS_RemoveElement, FS_CardinalityType
    <3>3. per_tenant'[t] = Less(per_tenant[t])
      BY <2>2 DEF GateInv, Release
    <3> QED
      BY <2>1, <3>2, <3>3 DEF Less
  <2>3. CASE t # GuardTenant[g]
    <3>1. HeldGuards(t)' = HeldGuards(t)
      BY <2>3 DEF HeldGuards, GateInv
    <3>2. per_tenant'[t] = per_tenant[t]
      BY <2>3 DEF GateInv, Release
    <3> QED
      BY <2>1, <3>1, <3>2
  <2> QED
    BY <2>2, <2>3
<1>5. per_tenant' \in [GateTenants -> Nat]
  <2>1. per_tenant' = [t \in GateTenants |-> per_tenant'[t]]
    BY DEF Release, GateInv
  <2> QED
    BY <1>4, <2>1
<1>6. policy = "HardReject" => total' <= Wall /\ \A t \in GateTenants : per_tenant'[t] <= PerTenantShare
  <2>1. PerTenantShare \in Nat /\ total \in Nat /\ \A t \in GateTenants : per_tenant[t] \in Nat
    BY GateAssumption DEF PerTenantShare, GateInv
  <2> QED
    BY <1>3, <1>4, <2>1, GateAssumption DEF GateInv, GateCountsGuards
<1> QED
  BY <1>2, <1>3, <1>4, <1>5, <1>6 DEF GateInv, GateCountsGuards, AllHeld

(* A guard that does not count and never will leaves the counters alone. *)
LEMMA GuardUncounted ==
  ASSUME GateInv, NEW g \in Guards, guard[g] # "held", NEW s \in {"dropped", "rejected"},
         guard' = [guard EXCEPT ![g] = s], UNCHANGED <<total, per_tenant, policy>>
  PROVE  GateInv'
<1>1. AllHeld' = AllHeld /\ \A t \in GateTenants : HeldGuards(t)' = HeldGuards(t)
  BY DEF AllHeld, HeldGuards, GateInv
<1> QED
  BY <1>1 DEF GateInv, GateCountsGuards, AllHeld

(* Every acquisition, release and drop keeps the counts.                      *)
LEMMA GateStep == GateInv /\ [GateNext]_gateVars => GateInv'
<1> SUFFICES ASSUME GateInv, [GateNext]_gateVars PROVE GateInv'
  OBVIOUS
<1>1. ASSUME NEW g \in Guards, TryAdmitGlobal(g) PROVE GateInv'
  <2>1. CASE policy = "HardReject" /\ (ShareBreached(g) \/ WallBreached)
    BY <1>1, <2>1, GuardUncounted DEF TryAdmitGlobal
  <2>2. CASE ~(policy = "HardReject" /\ (ShareBreached(g) \/ WallBreached))
    <3>1. policy = "HardReject" => total < Wall /\ per_tenant[GuardTenant[g]] < PerTenantShare
      <4>1. PerTenantShare \in Nat /\ total \in Nat /\ per_tenant[GuardTenant[g]] \in Nat
        BY GateAssumption, GuardTenantTyped DEF PerTenantShare, GateInv
      <4> QED
        BY <2>2, <4>1, GateAssumption DEF ShareBreached, WallBreached
    <3> QED
      BY <1>1, <2>2, <3>1, GuardTaken DEF TryAdmitGlobal
  <2> QED
    BY <2>1, <2>2
<1>2. ASSUME NEW g \in Guards, ReleaseEarly(g) PROVE GateInv'
  BY <1>2, GuardReturned DEF ReleaseEarly
<1>3. ASSUME NEW g \in Guards, DropGuard(g) PROVE GateInv'
  <2>1. CASE guard[g] = "held"
    BY <1>3, <2>1, GuardReturned DEF DropGuard
  <2>2. CASE guard[g] # "held"
    BY <1>3, <2>2, GuardUncounted DEF DropGuard, Release
  <2> QED
    BY <2>1, <2>2
<1>4. CASE UNCHANGED gateVars
  BY <1>4 DEF gateVars, GateInv, GateCountsGuards, AllHeld, HeldGuards
<1> QED
  BY <1>1, <1>2, <1>3, <1>4 DEF GateNext

(* Global gate: the counters count exactly the guards that are out, whether a *)
(* guard is released, dropped or released twice, and HardReject passes        *)
(* neither wall nor share.                                                    *)
THEOREM GateAlwaysCountsGuards == GateSpec => []GateCountsGuards
<1>1. GateInit => GateInv
  <2> SUFFICES ASSUME GateInit PROVE GateInv
    OBVIOUS
  <2>1. AllHeld = {} /\ \A t \in GateTenants : HeldGuards(t) = {}
    BY DEF GateInit, AllHeld, HeldGuards
  <2>2. PerTenantShare \in Nat /\ Cardinality({}) = 0 /\ IsFiniteSet({})
    BY GateAssumption, FS_EmptySet DEF PerTenantShare
  <2> QED
    BY <2>1, <2>2, GateAssumption DEF GateInit, GateInv, GateCountsGuards, AllHeld
<1>2. GateInv => GateCountsGuards
  BY DEF GateInv
<1> QED
  BY <1>1, <1>2, GateStep, PTL DEF GateSpec

--------------------------------------------------------------------------------
(* The rate windows *)

(* The acquires that have begun, and those that an instance let through in an *)
(* interval of the length the ceiling holds for.                              *)
Begun == {r \in RateAcquires : attempt[r].at # "new"}

LetThrough(t, s, from) == {r \in Passed(t, from, Minute - MaxLag) : attempt[r].shard = s}

RateTypes ==
  /\ rateNow \in Nat
  /\ attempt \in [RateAcquires -> [at : {"new", "started", "refused", "passed"}, shard : RateShards \cup {0},
                                   now_ms : Nat, checked : Nat]]
  /\ windows \in [RateShards -> [RateTenants -> SUBSET RateAcquires]]

(* A handler uses an instant that is at most MaxLag old when it checks. *)
LagBounded ==
  \A r \in Begun :
    /\ attempt[r].shard \in RateShards /\ attempt[r].now_ms <= rateNow
    /\ attempt[r].at = "started" => rateNow <= attempt[r].now_ms + MaxLag
    /\ attempt[r].at # "started" => /\ attempt[r].checked <= rateNow
                                    /\ attempt[r].now_ms <= attempt[r].checked
                                    /\ attempt[r].checked <= attempt[r].now_ms + MaxLag

(* The window forgets an acquire only when the interval it counts in is over. *)
WindowRemembers ==
  \A r \in RateAcquires :
    attempt[r].at = "passed" => \/ r \in windows[attempt[r].shard][RateTenant[r]]
                                \/ rateNow >= attempt[r].checked + (Minute - MaxLag)

(* The inductive invariant of the rate windows. *)
RateInv ==
  /\ RateTypes /\ LagBounded /\ WindowRemembers
  /\ IsFiniteSet(Begun)
  /\ \A s \in RateShards, t \in RateTenants : windows[s][t] \subseteq Begun
  /\ RateCeilingHolds

(* Every acquire belongs to a tenant of the gate, and a slice is a number. *)
LEMMA RateConstants ==
  /\ \A r \in RateAcquires : RateTenant[r] \in RateTenants
  /\ EffectiveCeiling \in Nat
  /\ Minute \in Nat /\ MaxLag \in Nat /\ MaxLag < Minute /\ Minute - MaxLag \in Nat \ {0}
<1>1. Minute \in Nat /\ MaxLag \in Nat /\ MaxLag < Minute /\ RateCeiling \in Nat /\ IsFiniteSet(RateShards)
  BY RateAssumption
<1>2. EffectiveCeiling \in Nat
  <2>1. PICK n \in Nat : n = Cardinality(RateShards)
    BY <1>1, FS_CardinalityType
  <2>2. EffectiveCeiling = IF n > 1 THEN (RateCeiling + n - 1) \div n ELSE RateCeiling
    BY <2>1 DEF EffectiveCeiling
  <2>3. n > 1 => (RateCeiling + n - 1) \div n \in Nat
    BY <1>1, <2>1
  <2> QED
    BY <1>1, <2>2, <2>3
<1> QED
  BY <1>1, <1>2 DEF RateTenants

(* No more than the begun acquires are let through: a finite set. *)
LEMMA LetFinite ==
  ASSUME RateInv, NEW t, NEW s, NEW from
  PROVE  LetThrough(t, s, from) \subseteq Begun /\ IsFiniteSet(LetThrough(t, s, from))
<1>1. LetThrough(t, s, from) \subseteq Begun
  BY DEF LetThrough, Passed, Begun
<1> QED
  BY <1>1, FS_Subset DEF RateInv

(* Whoever passed within the interval that ends now is still counted, however *)
(* old the instant that the count is taken at.                                *)
LEMMA RecentAreCounted ==
  ASSUME RateInv, NEW t \in RateTenants, NEW s \in RateShards, NEW from \in Nat,
         NEW now \in Nat, now <= rateNow, rateNow < from + (Minute - MaxLag)
  PROVE  LetThrough(t, s, from) \subseteq Within(windows[s][t], now)
<1> SUFFICES ASSUME NEW r \in LetThrough(t, s, from) PROVE r \in Within(windows[s][t], now)
  OBVIOUS
<1>1. /\ r \in RateAcquires /\ attempt[r].at = "passed" /\ RateTenant[r] = t /\ attempt[r].shard = s
      /\ from <= attempt[r].checked
  BY DEF LetThrough, Passed
<1>2. /\ attempt[r].now_ms \in Nat /\ attempt[r].checked \in Nat /\ rateNow \in Nat
  BY <1>1 DEF RateInv, RateTypes
<1>3. attempt[r].checked <= attempt[r].now_ms + MaxLag
  BY <1>1 DEF RateInv, LagBounded, Begun
<1>4. r \in windows[s][t]
  BY <1>1, <1>2, RateConstants DEF RateInv, WindowRemembers
<1>5. Since(now, attempt[r].now_ms) < Minute
  BY <1>1, <1>2, <1>3, RateConstants DEF Since
<1> QED
  BY <1>4, <1>5 DEF Within

(* An acquire that starts reads the clock and counts for nothing yet. *)
LEMMA StartAcquireKeeps ==
  ASSUME RateInv, NEW r \in RateAcquires, NEW s \in RateShards, StartAcquire(r, s)
  PROVE  RateInv'
<1>0. /\ attempt[r].at = "new" /\ rateNow' = rateNow /\ windows' = windows
      /\ attempt' = [attempt EXCEPT ![r] = [attempt[r] EXCEPT !.at = "started", !.shard = s, !.now_ms = rateNow]]
  BY DEF StartAcquire
<1>1. /\ attempt'[r].at = "started" /\ attempt'[r].shard = s /\ attempt'[r].now_ms = rateNow
      /\ \A q \in RateAcquires \ {r} : attempt'[q] = attempt[q]
  BY <1>0 DEF RateInv, RateTypes
<1>2. RateTypes'
  BY <1>0 DEF RateInv, RateTypes
<1>3. Begun' = Begun \cup {r}
  BY <1>0, <1>1 DEF Begun
<1>4. IsFiniteSet(Begun') /\ \A k \in RateShards, t \in RateTenants : windows'[k][t] \subseteq Begun'
  BY <1>0, <1>3, FS_AddElement DEF RateInv
<1>5. LagBounded'
  <2>1. rateNow \in Nat /\ rateNow <= rateNow + MaxLag
    BY RateConstants DEF RateInv, RateTypes
  <2> QED
    BY <1>0, <1>1, <1>3, <2>1 DEF RateInv, LagBounded
<1>6. WindowRemembers'
  BY <1>0, <1>1 DEF RateInv, WindowRemembers
<1>7. \A t, k, from : LetThrough(t, k, from)' = LetThrough(t, k, from)
  BY <1>0, <1>1 DEF LetThrough, Passed
<1>8. RateCeilingHolds'
  <2> SUFFICES ASSUME NEW t \in RateTenants, NEW k \in RateShards, NEW from \in 0..rateNow
               PROVE  Cardinality(LetThrough(t, k, from)') <= EffectiveCeiling
    BY <1>0 DEF RateCeilingHolds, LetThrough
  <2>1. Cardinality(LetThrough(t, k, from)) <= EffectiveCeiling
    BY DEF RateInv, RateCeilingHolds, LetThrough
  <2> QED
    BY <1>7, <2>1
<1> QED
  BY <1>2, <1>4, <1>5, <1>6, <1>8 DEF RateInv

(* The check lets an acquire through only below the slice, and what it prunes *)
(* is out of every interval that has not ended.                               *)
LEMMA CheckRateKeeps ==
  ASSUME RateInv, NEW r \in RateAcquires, CheckRate(r)
  PROVE  RateInv'
<1> DEFINE s == attempt[r].shard
           now == attempt[r].now_ms
           mine == RateTenant[r]
           verdict == IF OverRate(windows[s][mine], now) THEN "refused" ELSE "passed"
<1>0. /\ attempt[r].at = "started" /\ rateNow' = rateNow
      /\ windows' = [windows EXCEPT ![s] = [t \in RateTenants |->
                       IF t = mine THEN Within(windows[s][t], now) \cup {r}
                       ELSE IF CountWithin60s(windows[s][t], now) = 0 THEN {} ELSE windows[s][t]]]
      /\ attempt' = [attempt EXCEPT ![r].checked = rateNow, ![r].at = verdict]
  BY DEF CheckRate
<1>1. /\ r \in Begun /\ s \in RateShards /\ mine \in RateTenants
      /\ now \in Nat /\ rateNow \in Nat /\ now <= rateNow /\ rateNow <= now + MaxLag
  BY <1>0, RateConstants DEF RateInv, RateTypes, LagBounded, Begun
<1>2. /\ attempt'[r].at = verdict /\ attempt'[r].shard = s /\ attempt'[r].now_ms = now
      /\ attempt'[r].checked = rateNow
      /\ \A q \in RateAcquires \ {r} : attempt'[q] = attempt[q]
  BY <1>0 DEF RateInv, RateTypes
<1>3. /\ verdict \in {"refused", "passed"}
      /\ verdict = "passed" => ~OverRate(windows[s][mine], now)
  OBVIOUS
<1> HIDE DEF verdict
<1>4. /\ windows'[s][mine] = Within(windows[s][mine], now) \cup {r}
      /\ \A t \in RateTenants \ {mine} :
           windows'[s][t] = IF CountWithin60s(windows[s][t], now) = 0 THEN {} ELSE windows[s][t]
      /\ \A k \in RateShards \ {s} : windows'[k] = windows[k]
      /\ DOMAIN windows' = RateShards /\ DOMAIN windows'[s] = RateTenants
  BY <1>0, <1>1 DEF RateInv, RateTypes
<1>5. ASSUME NEW k \in RateShards, NEW t \in RateTenants
      PROVE  windows'[k][t] \subseteq windows[k][t] \cup {r}
  BY <1>4 DEF Within
<1>6. RateTypes'
  <2>1. attempt' \in [RateAcquires -> [at : {"new", "started", "refused", "passed"}, shard : RateShards \cup {0},
                                       now_ms : Nat, checked : Nat]]
    BY <1>0, <1>1, <1>3 DEF RateInv, RateTypes
  <2>2. \A k \in RateShards, t \in RateTenants : windows'[k][t] \subseteq RateAcquires
    BY <1>5 DEF RateInv, RateTypes
  <2>3. \A k \in RateShards : windows'[k] = [t \in RateTenants |-> windows'[k][t]]
    BY <1>0, <1>1 DEF RateInv, RateTypes
  <2>4. windows' = [k \in RateShards |-> windows'[k]]
    BY <1>0 DEF RateInv, RateTypes
  <2>5. \A k \in RateShards : windows'[k] \in [RateTenants -> SUBSET RateAcquires]
    BY <2>2, <2>3
  <2> QED
    BY <1>0, <1>1, <2>1, <2>4, <2>5 DEF RateTypes
<1>7. Begun' = Begun
  BY <1>0, <1>1, <1>2, <1>3 DEF Begun
<1>8. \A k \in RateShards, t \in RateTenants : windows'[k][t] \subseteq Begun'
  BY <1>1, <1>5, <1>7 DEF RateInv
<1>9. LagBounded'
  <2> SUFFICES ASSUME NEW q \in Begun
               PROVE  /\ attempt'[q].shard \in RateShards /\ attempt'[q].now_ms <= rateNow
                      /\ attempt'[q].at = "started" => rateNow <= attempt'[q].now_ms + MaxLag
                      /\ attempt'[q].at # "started" => /\ attempt'[q].checked <= rateNow
                                                       /\ attempt'[q].now_ms <= attempt'[q].checked
                                                       /\ attempt'[q].checked <= attempt'[q].now_ms + MaxLag
    BY <1>0, <1>7 DEF LagBounded
  <2>1. CASE q = r
    BY <1>1, <1>2, <1>3, <2>1
  <2>2. CASE q # r
    <3>1. attempt'[q] = attempt[q]
      BY <1>2, <2>2 DEF Begun
    <3> QED
      BY <3>1 DEF RateInv, LagBounded
  <2> QED
    BY <2>1, <2>2
<1>10. WindowRemembers'
  <2> SUFFICES ASSUME NEW q \in RateAcquires, attempt'[q].at = "passed"
               PROVE  \/ q \in windows'[attempt'[q].shard][RateTenant[q]]
                      \/ rateNow >= attempt'[q].checked + (Minute - MaxLag)
    BY <1>0 DEF WindowRemembers
  <2>1. CASE q = r
    BY <1>2, <1>4, <2>1
  <2>2. CASE q # r
    <3> DEFINE k == attempt[q].shard
               t == RateTenant[q]
    <3>1. attempt'[q] = attempt[q] /\ attempt[q].at = "passed" /\ q \in Begun
      BY <1>2, <2>2 DEF Begun
    <3>2. /\ k \in RateShards /\ t \in RateTenants
          /\ attempt[q].now_ms \in Nat /\ attempt[q].checked \in Nat
          /\ attempt[q].checked <= attempt[q].now_ms + MaxLag
      BY <3>1, RateConstants DEF RateInv, RateTypes, LagBounded
    <3>3. CASE ~(q \in windows[k][t])
      BY <3>1, <3>3 DEF RateInv, WindowRemembers
    <3>4. CASE q \in windows[k][t] /\ k # s
      BY <1>4, <3>1, <3>2, <3>4
    <3>5. CASE q \in windows[k][t] /\ k = s /\ Since(now, attempt[q].now_ms) < Minute
      <4>1. q \in Within(windows[s][t], now)
        BY <3>5 DEF Within
      <4>2. CountWithin60s(windows[s][t], now) # 0
        <5>1. Within(windows[s][t], now) \subseteq Begun
          BY <1>1, <3>2 DEF RateInv, Within
        <5>2. IsFiniteSet(Within(windows[s][t], now))
          BY <5>1, FS_Subset DEF RateInv
        <5> QED
          BY <4>1, <5>2, FS_EmptySet DEF CountWithin60s
      <4>3. q \in windows'[s][t]
        <5>1. CASE t = mine
          BY <1>4, <4>1, <5>1
        <5>2. CASE t # mine
          BY <1>4, <3>2, <3>5, <4>2, <5>2
        <5> QED
          BY <5>1, <5>2
      <4> QED
        BY <3>1, <3>5, <4>3
    <3>6. CASE ~(Since(now, attempt[q].now_ms) < Minute)
      <4>1. now >= attempt[q].now_ms + Minute
        BY <1>1, <3>2, <3>6, RateConstants DEF Since
      <4> QED
        BY <1>1, <3>1, <3>2, <4>1, RateConstants
    <3> QED
      BY <3>3, <3>4, <3>5, <3>6
  <2> QED
    BY <2>1, <2>2
<1>11. RateCeilingHolds'
  <2> SUFFICES ASSUME NEW t \in RateTenants, NEW k \in RateShards, NEW from \in 0..rateNow
               PROVE  Cardinality(LetThrough(t, k, from)') <= EffectiveCeiling
    BY <1>0 DEF RateCeilingHolds, LetThrough
  <2>1. Cardinality(LetThrough(t, k, from)) <= EffectiveCeiling
    BY DEF RateInv, RateCeilingHolds, LetThrough
  <2>2. r \notin LetThrough(t, k, from)
    BY <1>0 DEF LetThrough, Passed
  <2>3. CASE r \notin LetThrough(t, k, from)'
    <3>1. LetThrough(t, k, from)' = LetThrough(t, k, from)
      BY <1>2, <2>2, <2>3 DEF LetThrough, Passed
    <3> QED
      BY <2>1, <3>1
  <2>4. CASE r \in LetThrough(t, k, from)'
    <3>1. /\ verdict = "passed" /\ t = mine /\ k = s
          /\ rateNow < from + (Minute - MaxLag) /\ from <= rateNow
      BY <1>2, <2>4 DEF LetThrough, Passed
    <3>2. LetThrough(t, k, from)' = LetThrough(t, k, from) \cup {r}
      BY <1>2, <2>4 DEF LetThrough, Passed
    <3>3. LetThrough(t, k, from) \subseteq Within(windows[s][mine], now)
      BY <1>1, <3>1, RecentAreCounted
    <3>4. IsFiniteSet(Within(windows[s][mine], now))
      <4>1. Within(windows[s][mine], now) \subseteq Begun
        BY <1>1 DEF RateInv, Within
      <4> QED
        BY <4>1, FS_Subset DEF RateInv
    <3>5. /\ Cardinality(LetThrough(t, k, from)) <= Cardinality(Within(windows[s][mine], now))
          /\ Cardinality(LetThrough(t, k, from)) \in Nat /\ Cardinality(Within(windows[s][mine], now)) \in Nat
      BY <3>3, <3>4, LetFinite, FS_Subset, FS_CardinalityType
    <3>6. Cardinality(Within(windows[s][mine], now)) < EffectiveCeiling
      BY <1>3, <3>1, <3>5, RateConstants DEF OverRate, CountWithin60s
    <3>7. Cardinality(LetThrough(t, k, from)') = Cardinality(LetThrough(t, k, from)) + 1
      BY <2>2, <3>2, LetFinite, FS_AddElement
    <3> QED
      BY <3>5, <3>6, <3>7, RateConstants
  <2> QED
    BY <2>3, <2>4
<1> QED
  BY <1>6, <1>7, <1>8, <1>9, <1>10, <1>11 DEF RateInv

(* Time passes: nothing was let through yet in an interval that begins now. *)
LEMMA RateClockKeeps == ASSUME RateInv, RateClock PROVE RateInv'
<1>0. /\ rateNow' = rateNow + 1 /\ windows' = windows /\ attempt' = attempt
      /\ \A r \in RateAcquires : attempt[r].at = "started" => rateNow - attempt[r].now_ms < MaxLag
  BY DEF RateClock
<1>1. RateTypes' /\ Begun' = Begun
  BY <1>0 DEF RateInv, RateTypes, Begun
<1>2. LagBounded'
  <2> SUFFICES ASSUME NEW r \in Begun
               PROVE  /\ attempt[r].shard \in RateShards /\ attempt[r].now_ms <= rateNow + 1
                      /\ attempt[r].at = "started" => rateNow + 1 <= attempt[r].now_ms + MaxLag
                      /\ attempt[r].at # "started" => /\ attempt[r].checked <= rateNow + 1
                                                      /\ attempt[r].now_ms <= attempt[r].checked
                                                      /\ attempt[r].checked <= attempt[r].now_ms + MaxLag
    BY <1>0, <1>1 DEF LagBounded
  <2>1. /\ attempt[r].now_ms \in Nat /\ attempt[r].checked \in Nat /\ rateNow \in Nat /\ r \in RateAcquires
    BY DEF RateInv, RateTypes, Begun
  <2> QED
    BY <1>0, <2>1, RateConstants DEF RateInv, LagBounded
<1>3. WindowRemembers'
  <2> SUFFICES ASSUME NEW r \in RateAcquires, attempt[r].at = "passed"
               PROVE  \/ r \in windows[attempt[r].shard][RateTenant[r]]
                      \/ rateNow + 1 >= attempt[r].checked + (Minute - MaxLag)
    BY <1>0 DEF WindowRemembers
  <2>1. attempt[r].checked \in Nat /\ rateNow \in Nat
    BY DEF RateInv, RateTypes
  <2> QED
    BY <2>1, RateConstants DEF RateInv, WindowRemembers
<1>4. RateCeilingHolds'
  <2> SUFFICES ASSUME NEW t \in RateTenants, NEW k \in RateShards, NEW from \in 0..(rateNow + 1)
               PROVE  Cardinality(LetThrough(t, k, from)) <= EffectiveCeiling
    <3>1. \A t, k, from : LetThrough(t, k, from)' = LetThrough(t, k, from)
      BY <1>0 DEF LetThrough, Passed
    <3>2. (\A t \in RateTenants, k \in RateShards : \A from \in 0..rateNow' :
             Cardinality(LetThrough(t, k, from)') <= EffectiveCeiling) => RateCeilingHolds'
      BY DEF RateCeilingHolds, LetThrough
    <3> QED
      BY <1>0, <3>1, <3>2
  <2>1. CASE from \in 0..rateNow
    BY <2>1 DEF RateInv, RateCeilingHolds, LetThrough
  <2>2. CASE from \notin 0..rateNow
    <3>1. rateNow \in Nat /\ from = rateNow + 1
      BY <2>2 DEF RateInv, RateTypes
    <3>2. ASSUME NEW r \in LetThrough(t, k, from) PROVE FALSE
      <4>1. r \in RateAcquires /\ attempt[r].at = "passed" /\ from <= attempt[r].checked
        BY DEF LetThrough, Passed
      <4>2. attempt[r].checked <= rateNow /\ attempt[r].checked \in Nat
        BY <4>1 DEF RateInv, RateTypes, LagBounded, Begun
      <4> QED
        BY <3>1, <4>1, <4>2
    <3>3. LetThrough(t, k, from) = {}
      BY <3>2
    <3> QED
      BY <3>3, FS_EmptySet, RateConstants
  <2> QED
    BY <2>1, <2>2
<1> QED
  BY <1>0, <1>1, <1>2, <1>3, <1>4 DEF RateInv

(* Rate windows: although handlers check with instants that are old, prune    *)
(* newer ones and drop the windows of idle tenants, an instance lets no more  *)
(* than its slice through in any interval of a minute less the lag.           *)
THEOREM RateCeilingAlwaysHolds == RateSpec => []RateCeilingHolds
<1>1. RateInit => RateInv
  <2> SUFFICES ASSUME RateInit PROVE RateInv
    OBVIOUS
  <2>1. Begun = {} /\ \A t, s, from : LetThrough(t, s, from) = {}
    BY DEF RateInit, Begun, LetThrough, Passed
  <2>2. IsFiniteSet({}) /\ Cardinality({}) = 0 /\ 0 <= EffectiveCeiling
    BY FS_EmptySet, RateConstants
  <2>3. RateTypes /\ WindowRemembers
    BY DEF RateInit, RateTypes, WindowRemembers
  <2>4. RateCeilingHolds
    BY <2>1, <2>2 DEF RateCeilingHolds, LetThrough
  <2>5. \A s \in RateShards, t \in RateTenants : windows[s][t] = {}
    BY DEF RateInit
  <2> QED
    BY <2>1, <2>2, <2>3, <2>4, <2>5 DEF RateInv, LagBounded
<1>2. RateInv /\ [RateNext]_rateVars => RateInv'
  <2> SUFFICES ASSUME RateInv, [RateNext]_rateVars PROVE RateInv'
    OBVIOUS
  <2>1. CASE UNCHANGED rateVars
    BY <2>1 DEF rateVars, RateInv, RateTypes, LagBounded, WindowRemembers, Begun, RateCeilingHolds, Passed
  <2> QED
    BY <2>1, StartAcquireKeeps, CheckRateKeeps, RateClockKeeps DEF RateNext
<1>3. RateInv => RateCeilingHolds
  BY DEF RateInv
<1> QED
  BY <1>1, <1>2, <1>3, PTL DEF RateSpec

(* Both gates on the way in hold, whatever order handlers check, release and  *)
(* drop in.                                                                   *)
THEOREM GatesAlwaysHold == RateSpec /\ GateSpec => []GatesHold
<1>1. RateCeilingHolds /\ GateCountsGuards => GatesHold
  BY DEF GatesHold
<1> QED
  BY <1>1, RateCeilingAlwaysHolds, GateAlwaysCountsGuards, PTL

--------------------------------------------------------------------------------
(* The scheduler *)

(* Two tenants of a set have different ranks, between 1 and its size. *)
LEMMA RanksDiffer ==
  ASSUME NEW S \in SUBSET SchedTenants
  PROVE  /\ IsFiniteSet(S) /\ Cardinality(S) \in Nat
         /\ \A t \in S : Rank(S, t) \in 1..Cardinality(S)
         /\ \A t, v \in S : Rank(S, t) = Rank(S, v) => t = v
<1>1. IsFiniteSet(SchedTenants) /\ NumTenants \in Nat
  BY SchedulerAssumption, FS_Interval DEF SchedTenants
<1>2. IsFiniteSet(S) /\ Cardinality(S) \in Nat
  BY <1>1, FS_Subset, FS_CardinalityType
<1>3. \A t \in S : t \in Nat
  BY <1>1 DEF SchedTenants
<1> DEFINE Upto(t) == {u \in S : u <= t}
<1>4. ASSUME NEW t \in S
      PROVE  /\ IsFiniteSet(Upto(t)) /\ Cardinality(Upto(t)) \in Nat
             /\ Cardinality(Upto(t)) <= Cardinality(S) /\ Cardinality(Upto(t)) # 0
  <2>1. Upto(t) \in SUBSET S /\ t \in Upto(t)
    BY <1>1 DEF SchedTenants
  <2> HIDE DEF Upto
  <2>2. IsFiniteSet(Upto(t)) /\ Cardinality(Upto(t)) <= Cardinality(S)
    BY <1>2, <2>1, FS_Subset
  <2>3. Cardinality(Upto(t)) \in Nat
    BY <2>2, FS_CardinalityType
  <2>4. Cardinality(Upto(t)) # 0
    BY <2>1, <2>2, FS_EmptySet
  <2> QED
    BY <2>2, <2>3, <2>4
<1>5. ASSUME NEW t \in S, NEW v \in S, t < v PROVE Cardinality(Upto(t)) # Cardinality(Upto(v))
  <2>1. Upto(t) \in SUBSET Upto(v) /\ v \in Upto(v) /\ v \notin Upto(t)
    BY <1>3, <1>5
  <2> HIDE DEF Upto
  <2>2. IsFiniteSet(Upto(v))
    BY <1>4
  <2> QED
    BY <2>1, <2>2, FS_Subset
<1>6. \A t \in S : Rank(S, t) = Cardinality(Upto(t))
  BY DEF Rank
<1> HIDE DEF Upto
<1>7. \A t \in S : Rank(S, t) \in 1..Cardinality(S)
  BY <1>2, <1>4, <1>6
<1>8. \A t, v \in S : t # v => t < v \/ v < t
  BY <1>1 DEF SchedTenants
<1> QED
  BY <1>2, <1>5, <1>6, <1>7, <1>8

(* Sorted lists every tenant of the set, once. *)
LEMMA SortedLists ==
  ASSUME NEW S \in SUBSET SchedTenants
  PROVE  /\ Sorted(S) \in Seq(S) /\ NoDup(Sorted(S))
         /\ \A t \in S : \E i \in 1..Len(Sorted(S)) : Sorted(S)[i] = t
<1>1. /\ IsFiniteSet(S) /\ Cardinality(S) \in Nat
      /\ \A t \in S : Rank(S, t) \in 1..Cardinality(S)
      /\ \A t, v \in S : Rank(S, t) = Rank(S, v) => t = v
  BY RanksDiffer
<1> DEFINE n == Cardinality(S)
           f == [t \in S |-> Rank(S, t)]
<1>2. f \in Injection(S, 1..n)
  BY <1>1 DEF Injection, IsInjective
<1>3. IsFiniteSet(1..n) /\ Cardinality(1..n) = n
  BY <1>1, FS_Interval
<1>4. f \in Surjection(S, 1..n)
  BY <1>2, <1>3, FS_Injection
<1>5. \A i \in 1..n : \E t \in S : Rank(S, t) = i
  BY <1>4 DEF Surjection
<1> HIDE DEF n
<1>6. Sorted(S) = [i \in 1..n |-> CHOOSE t \in S : Rank(S, t) = i]
  BY DEF Sorted, n
<1>7. \A i \in 1..n : Sorted(S)[i] \in S /\ Rank(S, Sorted(S)[i]) = i
  BY <1>5, <1>6
<1>8. n \in Nat /\ DOMAIN Sorted(S) = 1..n /\ Sorted(S) \in [1..n -> S]
  BY <1>1, <1>6, <1>7 DEF n
<1>9. Sorted(S) \in Seq(S) /\ Len(Sorted(S)) = n
  BY <1>8
<1>10. NoDup(Sorted(S))
  BY <1>7, <1>8 DEF NoDup
<1>11. \A t \in S : Rank(S, t) \in 1..n /\ Sorted(S)[Rank(S, t)] = t
  BY <1>1, <1>7 DEF n
<1> QED
  BY <1>9, <1>10, <1>11

(* Lists of different tenants, one after the other. *)
LEMMA ListsJoin ==
  ASSUME NEW A, NEW B, A \cap B = {}, NEW p \in Seq(A), NEW q \in Seq(B), NoDup(p), NoDup(q)
  PROVE  /\ p \o q \in Seq(A \cup B) /\ NoDup(p \o q) /\ Len(p \o q) = Len(p) + Len(q)
         /\ \A i \in 1..Len(p) : (p \o q)[i] = p[i] /\ p[i] \in A
         /\ \A i \in 1..Len(q) : (p \o q)[Len(p) + i] = q[i]
         /\ \A i \in Len(p) + 1..Len(p) + Len(q) : (p \o q)[i] = q[i - Len(p)] /\ q[i - Len(p)] \in B
<1>1. /\ p \o q \in Seq(A \cup B) /\ Len(p \o q) = Len(p) + Len(q) /\ Len(p) \in Nat /\ Len(q) \in Nat
      /\ DOMAIN p = 1..Len(p) /\ DOMAIN q = 1..Len(q)
  OBVIOUS
<1>2. \A i \in 1..Len(p) : (p \o q)[i] = p[i] /\ p[i] \in A
  OBVIOUS
<1>3. \A i \in 1..Len(q) : (p \o q)[Len(p) + i] = q[i] /\ q[i] \in B
  OBVIOUS
<1>4. \A i \in Len(p) + 1..Len(p) + Len(q) : (p \o q)[i] = q[i - Len(p)] /\ q[i - Len(p)] \in B
  <2> SUFFICES ASSUME NEW i \in Len(p) + 1..Len(p) + Len(q) PROVE (p \o q)[i] = q[i - Len(p)] /\ q[i - Len(p)] \in B
    OBVIOUS
  <2>1. i - Len(p) \in 1..Len(q) /\ Len(p) + (i - Len(p)) = i
    BY <1>1
  <2> QED
    BY <2>1, <1>3
<1>5. NoDup(p \o q)
  <2> DEFINE s == p \o q
  <2>1. DOMAIN s = 1..Len(p) + Len(q)
    BY <1>1
  <2> SUFFICES ASSUME NEW i \in 1..Len(p) + Len(q), NEW j \in 1..Len(p) + Len(q), s[i] = s[j] PROVE i = j
    BY <2>1 DEF NoDup
  <2> HIDE DEF s
  <2>2. CASE i <= Len(p) /\ j <= Len(p)
    BY <1>1, <1>2, <2>2 DEF NoDup, s
  <2>3. CASE i > Len(p) /\ j > Len(p)
    <3>1. i \in Len(p) + 1..Len(p) + Len(q) /\ j \in Len(p) + 1..Len(p) + Len(q)
      BY <1>1, <2>3
    <3>2. q[i - Len(p)] = q[j - Len(p)] /\ i - Len(p) \in DOMAIN q /\ j - Len(p) \in DOMAIN q
      BY <1>1, <1>4, <3>1 DEF s
    <3>3. i - Len(p) = j - Len(p)
      BY <3>2 DEF NoDup
    <3> QED
      BY <1>1, <3>3
  <2>4. CASE i <= Len(p) /\ j > Len(p)
    BY <1>1, <1>2, <1>4, <2>4 DEF s
  <2>5. CASE i > Len(p) /\ j <= Len(p)
    BY <1>1, <1>2, <1>4, <2>5 DEF s
  <2> QED
    BY <1>1, <2>2, <2>3, <2>4, <2>5
<1> QED
  BY <1>1, <1>2, <1>3, <1>4, <1>5

(* An order of visits names nobody twice, has the tenants that are owed a     *)
(* turn before the others, and misses none of them that has work.             *)
OwedLead(order, parked) ==
  /\ NoDup(order)
  /\ \A i, j \in 1..Len(order) : i < j /\ order[j] \in owed_skip => order[i] \in owed_skip
  /\ \A t \in (TenantsWithWork \cap owed_skip) \ parked : \E i \in 1..Len(order) : order[i] = t

(* rotation_order makes such an order. *)
LEMMA RotationLeads ==
  ASSUME NEW parked
  PROVE  RotationOrder(parked) \in Seq(SchedTenants) /\ OwedLead(RotationOrder(parked), parked)
<1> DEFINE eligible == TenantsWithWork \ parked
           owed     == eligible \cap owed_skip
           rest     == eligible \ owed
           after    == {t \in rest : t > cursor}
           others   == rest \ after
           a == Sorted(owed)
           b == Sorted(after)
           c == Sorted(others)
<1>1. owed \in SUBSET SchedTenants /\ after \in SUBSET SchedTenants /\ others \in SUBSET SchedTenants
  BY DEF TenantsWithWork
<1>2. /\ owed \cap (after \cup others) = {} /\ after \cap others = {}
      /\ owed \subseteq owed_skip /\ (after \cup others) \cap owed_skip = {}
      /\ \A t \in (TenantsWithWork \cap owed_skip) \ parked : t \in owed
  OBVIOUS
<1>3. RotationOrder(parked) = a \o b \o c
  BY DEF RotationOrder
<1> HIDE DEF owed, after, others
<1>4. a \in Seq(owed) /\ NoDup(a) /\ \A t \in owed : \E i \in 1..Len(a) : a[i] = t
  BY <1>1, SortedLists
<1>5. b \in Seq(after) /\ NoDup(b) /\ c \in Seq(others) /\ NoDup(c)
  BY <1>1, SortedLists
<1> HIDE DEF a, b, c
<1>6. b \o c \in Seq(after \cup others) /\ NoDup(b \o c)
  BY <1>2, <1>5, ListsJoin
<1>7. PICK d : d = b \o c
  OBVIOUS
<1>8. a \o b \o c = a \o d
  BY <1>4, <1>5, <1>7
<1>9. PICK B : B = after \cup others
  OBVIOUS
<1>10. owed \cap B = {} /\ d \in Seq(B) /\ NoDup(d)
  BY <1>2, <1>6, <1>7, <1>9
<1>11. PICK A, p : A = owed /\ p = a
  OBVIOUS
<1>12. A \cap B = {} /\ p \in Seq(A) /\ NoDup(p)
  BY <1>4, <1>10, <1>11
<1>13. NoDup(p \o d)
  BY <1>10, <1>12, ListsJoin
<1>14. p \o d \in Seq(A \cup B) /\ Len(p \o d) = Len(p) + Len(d)
  BY <1>10, <1>12
<1>15. \A i \in 1..Len(p) : (p \o d)[i] = p[i] /\ p[i] \in A
  BY <1>10, <1>12, ListsJoin
<1>16. \A i \in Len(p) + 1..Len(p) + Len(d) : (p \o d)[i] = d[i - Len(p)] /\ d[i - Len(p)] \in B
  BY <1>10, <1>12, ListsJoin
<1>17. /\ a \o d \in Seq(owed \cup B) /\ NoDup(a \o d) /\ Len(a \o d) = Len(a) + Len(d)
       /\ \A i \in 1..Len(a) : (a \o d)[i] = a[i] /\ a[i] \in owed
       /\ \A i \in Len(a) + 1..Len(a) + Len(d) : (a \o d)[i] = d[i - Len(a)] /\ d[i - Len(a)] \in B
  BY <1>11, <1>13, <1>16, <1>15, <1>14
<1>18. PICK s : s = a \o d
  OBVIOUS
<1>19. /\ Len(a) \in Nat /\ Len(d) \in Nat /\ Len(s) = Len(a) + Len(d)
       /\ \A i \in 1..Len(a) : s[i] = a[i] /\ s[i] \in owed_skip
       /\ \A i \in Len(a) + 1..Len(a) + Len(d) : s[i] \notin owed_skip
  BY <1>2, <1>4, <1>9, <1>10, <1>17, <1>18
<1>20. \A i, j \in 1..Len(s) : i < j /\ s[j] \in owed_skip => s[i] \in owed_skip
  BY <1>19
<1>21. \A t \in (TenantsWithWork \cap owed_skip) \ parked : \E i \in 1..Len(s) : s[i] = t
  BY <1>2, <1>4, <1>19
<1>22. s \in Seq(SchedTenants)
  BY <1>1, <1>9, <1>17, <1>18
<1> QED
  BY <1>3, <1>8, <1>17, <1>18, <1>20, <1>21, <1>22 DEF OwedLead

(* While a tick scans, what it has still to visit is such an order. *)
ScanInv ==
  /\ queues = [t \in SchedTenants |-> queues[t]]
  /\ scan = [on |-> scan.on, order |-> scan.order, parked |-> scan.parked, remaining |-> scan.remaining,
             progressed |-> scan.progressed]
  /\ scan.order \in Seq(SchedTenants)
  /\ scan.on => OwedLead(scan.order, scan.parked)

(* A step of the scheduler, whoever drives it. *)
SchedulerStep ==
  \/ \E t \in SchedTenants : \E item : TryEnqueue(t, item) /\ UNCHANGED <<cursor, owed_skip, scan>>
  \/ BeginScan \/ NextPass \/ EndScan
  \/ \E t \in SchedTenants : CapSkip(t) \/ Refuse(t) \/ Select(t)

(* The rest of an order whose first tenant was visited. *)
LEMMA VisitLeads ==
  ASSUME NEW order \in Seq(SchedTenants), order # <<>>, NEW parked, OwedLead(order, parked),
         NEW P, parked \subseteq P,
         \A t \in SchedTenants \ {Head(order)} : t \in owed_skip' <=> t \in owed_skip,
         \A t \in SchedTenants \ {Head(order)} : queues'[t] = queues[t],
         Head(order) \in P \/ Head(order) \notin owed_skip'
  PROVE  Tail(order) \in Seq(SchedTenants) /\ OwedLead(Tail(order), P)'
<1>1. PICK s : s = Tail(order)
  OBVIOUS
<1>2. /\ s \in Seq(SchedTenants) /\ Len(s) = Len(order) - 1 /\ Len(order) \in Nat \ {0}
      /\ \A i \in 1..Len(s) : i + 1 \in 1..Len(order) /\ s[i] = order[i + 1] /\ s[i] \in SchedTenants
      /\ Head(order) = order[1] /\ DOMAIN order = 1..Len(order) /\ DOMAIN s = 1..Len(s)
  BY <1>1
<1>3. NoDup(s)
  BY <1>2 DEF NoDup, OwedLead
<1>4. \A i \in 1..Len(s) : s[i] # order[1]
  BY <1>2 DEF NoDup, OwedLead
<1>5. \A i \in 1..Len(s) : s[i] \in owed_skip' <=> s[i] \in owed_skip
  BY <1>2, <1>4
<1>6. ASSUME NEW i \in 1..Len(s), NEW j \in 1..Len(s), i < j, s[j] \in owed_skip' PROVE s[i] \in owed_skip'
  <2>1. order[j + 1] \in owed_skip /\ i + 1 < j + 1
    BY <1>2, <1>5, <1>6
  <2>2. order[i + 1] \in owed_skip
    BY <1>2, <2>1 DEF OwedLead
  <2> QED
    BY <1>2, <1>5, <2>2
<1>7. ASSUME NEW t \in SchedTenants, queues'[t] # <<>>, t \in owed_skip', t \notin P
      PROVE  \E i \in 1..Len(s) : s[i] = t
  <2>1. t # order[1]
    BY <1>2, <1>7
  <2>2. t \in TenantsWithWork /\ t \in owed_skip /\ t \notin parked
    BY <1>2, <1>7, <2>1 DEF TenantsWithWork
  <2>3. PICK k \in 1..Len(order) : order[k] = t
    BY <2>2 DEF OwedLead
  <2>4. k - 1 \in 1..Len(s) /\ s[k - 1] = order[(k - 1) + 1] /\ (k - 1) + 1 = k
    BY <1>2, <2>1, <2>3
  <2> QED
    BY <2>3, <2>4
<1> QED
  BY <1>1, <1>2, <1>3, <1>6, <1>7 DEF OwedLead, TenantsWithWork

(* Every step of the scheduler keeps it. *)
LEMMA ScanStep == ASSUME ScanInv, SchedulerStep PROVE ScanInv'
<1>1. ASSUME NEW t \in SchedTenants, NEW item, TryEnqueue(t, item), UNCHANGED <<cursor, owed_skip, scan>>
      PROVE  ScanInv'
  BY <1>1 DEF ScanInv, TryEnqueue
<1>2. CASE BeginScan
  <2>1. PICK order : order = RotationOrder({})
    OBVIOUS
  <2>2. order \in Seq(SchedTenants) /\ OwedLead(order, {})
    BY <2>1, RotationLeads
  <2>3. /\ scan' = [on |-> TRUE, order |-> order, parked |-> {}, remaining |-> GlobalSlots, progressed |-> FALSE]
        /\ UNCHANGED <<queues, owed_skip>>
    BY <1>2, <2>1 DEF BeginScan, NoScan
  <2>4. OwedLead(order, {})'
    BY <2>2, <2>3 DEF OwedLead, TenantsWithWork
  <2> QED
    BY <2>2, <2>3, <2>4 DEF ScanInv
<1>3. CASE NextPass
  <2>1. PICK order : order = RotationOrder(scan.parked)
    OBVIOUS
  <2>2. order \in Seq(SchedTenants) /\ OwedLead(order, scan.parked)
    BY <2>1, RotationLeads
  <2>3. /\ scan' = [on |-> scan.on, order |-> order, parked |-> scan.parked, remaining |-> scan.remaining,
                    progressed |-> FALSE]
        /\ UNCHANGED <<queues, owed_skip>>
    BY <1>3, <2>1 DEF NextPass, ScanInv
  <2>4. OwedLead(order, scan.parked)'
    BY <2>2, <2>3 DEF OwedLead, TenantsWithWork
  <2> QED
    BY <2>2, <2>3, <2>4 DEF ScanInv
<1>4. CASE EndScan
  BY <1>4 DEF EndScan, NoScan, ScanInv
<1>5. ASSUME NEW t \in SchedTenants, CapSkip(t) \/ Refuse(t) \/ Select(t) PROVE ScanInv'
  <2>1. /\ scan.on /\ scan.order \in Seq(SchedTenants) /\ scan.order # <<>> /\ t = Head(scan.order)
        /\ OwedLead(scan.order, scan.parked)
    BY <1>5 DEF CapSkip, Refuse, Select, Visiting, ScanInv
  <2>2. /\ scan' = [on |-> scan'.on, order |-> scan'.order, parked |-> scan'.parked, remaining |-> scan'.remaining,
                    progressed |-> scan'.progressed]
        /\ scan'.on = scan.on /\ scan'.order = Tail(scan.order) /\ scan.parked \subseteq scan'.parked
        /\ t \in scan'.parked \/ t \notin owed_skip'
    <3>1. CASE CapSkip(t) \/ Refuse(t)
      <4>1. scan' = [on |-> scan.on, order |-> Tail(scan.order), parked |-> scan.parked \cup {t},
                     remaining |-> scan.remaining, progressed |-> scan.progressed]
        BY <3>1 DEF CapSkip, Refuse, ScanInv
      <4> QED
        BY <4>1
    <3>2. CASE Select(t)
      <4>1. scan' = [on |-> scan.on, order |-> Tail(scan.order), parked |-> scan.parked,
                     remaining |-> scan.remaining - 1, progressed |-> TRUE]
        BY <3>2 DEF Select, ScanInv
      <4>2. t \notin owed_skip'
        BY <3>2 DEF Select
      <4> QED
        BY <4>1, <4>2
    <3> QED
      BY <1>5, <3>1, <3>2
  <2>3. PICK P : P = scan'.parked
    OBVIOUS
  <2>4. \A u \in SchedTenants \ {t} : u \in owed_skip' <=> u \in owed_skip
    BY <1>5 DEF CapSkip, Refuse, Select
  <2>5. queues' = [u \in SchedTenants |-> queues'[u]] /\ \A u \in SchedTenants \ {t} : queues'[u] = queues[u]
    BY <1>5 DEF CapSkip, Refuse, Select, ScanInv
  <2>6. PICK order : order = scan.order
    OBVIOUS
  <2>7. Tail(order) \in Seq(SchedTenants) /\ OwedLead(Tail(order), P)'
    BY <2>1, <2>2, <2>3, <2>4, <2>5, <2>6, VisitLeads
  <2>8. OwedLead(scan.order, scan.parked)'
    BY <2>2, <2>3, <2>6, <2>7 DEF OwedLead
  <2> QED
    BY <2>2, <2>5, <2>6, <2>7, <2>8 DEF ScanInv
<1> QED
  BY <1>1, <1>2, <1>3, <1>4, <1>5 DEF SchedulerStep

(* What it says of the tenant that is served. *)
LEMMA LeadersFirst ==
  ASSUME ScanInv, NEW u \in SchedTenants \ owed_skip, Select(u)
  PROVE  owed_skip \cap TenantsWithWork \subseteq scan.parked
<1> SUFFICES ASSUME NEW t \in (TenantsWithWork \cap owed_skip) \ scan.parked PROVE FALSE
  OBVIOUS
<1>1. /\ scan.order \in Seq(SchedTenants) /\ scan.order # <<>> /\ u = scan.order[1]
      /\ OwedLead(scan.order, scan.parked)
  BY DEF Select, Visiting, ScanInv
<1>2. PICK s : s = scan.order
  OBVIOUS
<1>3. PICK k \in 1..Len(s) : s[k] = t
  BY <1>1, <1>2 DEF OwedLead
<1>4. k = 1 \/ (1 \in 1..Len(s) /\ 1 < k)
  BY <1>1, <1>2, <1>3
<1> QED
  BY <1>1, <1>2, <1>3, <1>4 DEF OwedLead

(* owed_skip, whatever the load and the caps do: a tenant that is owed no     *)
(* turn is served only when all that are owed one and have work were turned   *)
(* away again in this tick.  Of the scheduler under any load, and of the one  *)
(* the admission loop drives.                                                 *)
THEOREM OwedAlwaysGoFirst == SchedulerSpec \/ AdmissionSpec => OwedGoFirst
<1>1. SchedulerInit => ScanInv
  <2> SUFFICES ASSUME SchedulerInit PROVE ScanInv
    OBVIOUS
  <2>1. scan = [on |-> FALSE, order |-> <<>>, parked |-> {}, remaining |-> 0, progressed |-> FALSE]
    BY DEF SchedulerInit, NoScan
  <2> QED
    BY <2>1 DEF SchedulerInit, ScanInv
<1>2. AdmissionInit => SchedulerInit
  BY DEF AdmissionInit
<1>3. [SchedulerNext]_schedulerVars => [SchedulerStep]_schedulerVars
  BY DEF SchedulerNext, SchedulerStep
<1>4. [AdmissionNext]_admissionVars => [SchedulerStep]_schedulerVars
  <2>1. ASSUME NEW r \in AcquireRequests, HandlerStep(r) \/ FreeSlot(r) PROVE [SchedulerStep]_schedulerVars
    <3>1. CASE Enqueue(r)
      BY <3>1, OwnerTyped DEF Enqueue, SchedulerStep
    <3> QED
      BY <2>1, <3>1 DEF HandlerStep, Admit, FinalizeInHandler, ParkSemaphore, Shed, DurableEnqueue, Receive,
         TimeOut, Evict, Leave, Disconnect, FreeSlot
  <2>2. ASSUME NEW r \in AcquireRequests, Requeue(r) PROVE SchedulerStep
    BY <2>2, OwnerTyped DEF Requeue, SchedulerStep
  <2>3. ASSUME NEW r \in AcquireRequests, ReserveRejected(r) \/ ReserveLost(r) \/ ReserveOrphan(r) \/ ReserveAdmitted(r)
        PROVE  [SchedulerStep]_schedulerVars
    BY <2>3, OwnerTyped DEF ReserveRejected, ReserveLost, ReserveOrphan, ReserveAdmitted, SchedulerStep
  <2>4. ASSUME TickBegin \/ TickPass \/ TickSelected \/ \E t \in SchedTenants : TickSkip(t) \/ TickSelect(t)
        PROVE  SchedulerStep
    BY <2>4 DEF TickBegin, TickPass, TickSelected, TickSkip, TickSelect, SchedulerStep
  <2>5. ASSUME LoopStep PROVE [SchedulerStep]_schedulerVars
    <3>1. CASE ClaimNext \/ ClaimDone \/ ReserveDone \/ RejectNext \/ RejectDone \/ TakeJob \/ TickEnd
      BY <3>1 DEF ClaimNext, ClaimDone, ReserveDone, RejectNext, RejectDone, TakeJob, TickEnd
    <3>2. ASSUME NEW r \in AcquireRequests, MintStep(r) \/ ProvisionStep(r) \/ Deliver(r) \/ Undo(r)
          PROVE  UNCHANGED schedulerVars
      BY <3>2 DEF MintStep, ProvisionStep, Deliver, Undo
    <3>3. CASE \E r \in AcquireRequests :
                 \/ ReserveOrphan(r) \/ ReserveAdmitted(r) \/ ReserveLost(r) \/ ReserveRejected(r)
                 \/ MintStep(r) \/ ProvisionStep(r) \/ Requeue(r) \/ Deliver(r) \/ Undo(r)
      BY <2>2, <2>3, <3>2, <3>3
    <3> QED
      BY <2>4, <2>5, <3>1, <3>3 DEF LoopStep
  <2>6. CASE UNCHANGED admissionVars
    BY <2>6 DEF admissionVars
  <2> QED
    BY <2>1, <2>5, <2>6 DEF AdmissionNext
<1>5. ScanInv /\ [SchedulerStep]_schedulerVars => ScanInv'
  <2>1. CASE UNCHANGED schedulerVars
    BY <2>1 DEF schedulerVars, ScanInv, OwedLead, TenantsWithWork
  <2> QED
    BY <2>1, ScanStep
<1>6. ScanInv =>
        [\A u \in SchedTenants \ owed_skip :
           Select(u) => (owed_skip \cap TenantsWithWork) \subseteq scan.parked]_schedulerVars
  BY LeadersFirst
<1>7. SchedulerInit /\ [][SchedulerStep]_schedulerVars => OwedGoFirst
  BY <1>1, <1>5, <1>6, PTL DEF OwedGoFirst
<1>8. SchedulerSpec => SchedulerInit /\ [][SchedulerStep]_schedulerVars
  BY <1>3, PTL DEF SchedulerSpec
<1>9. AdmissionSpec => SchedulerInit /\ [][SchedulerStep]_schedulerVars
  BY <1>2, <1>4, PTL DEF AdmissionSpec
<1> QED
  BY <1>7, <1>8, <1>9

--------------------------------------------------------------------------------
(* The plan repository *)

(* A column holds the cap of the last upsert, seen as a signed number. *)
PlanInv ==
  /\ column \in [PlanTenants -> Int] /\ persisted \in [PlanTenants -> Int]
  /\ \A t \in PlanTenants :
       \/ column[t] = NoPlanRow /\ persisted[t] = NoPlanRow
       \/ persisted[t] \in 0..Width - 1 /\ column[t] = AsSigned(persisted[t])

(* "as i32" of a u32: exact below half the width, else negative and not the   *)
(* mark of an absent row.                                                     *)
LEMMA SignedOrNegative ==
  ASSUME NEW n \in 0..Width - 1
  PROVE  AsSigned(n) \in Int /\ AsSigned(n) # NoPlanRow /\ (AsSigned(n) >= 0 => AsSigned(n) = n)
<1>1. Width \in Nat \ {0, 1}
  BY PlanAssumption
<1>2. Width \div 2 \in Nat /\ Width \div 2 >= 1
  BY <1>1
<1> QED
  BY <1>1, <1>2 DEF AsSigned, NoPlanRow

(* Whatever caps are written, whichever do not fit the column: a load that    *)
(* succeeds returns exactly the caps that were written.                       *)
THEOREM LoadsAreExactOrFail == PlanSpec => LoadIsExactOrFails
<1>1. PlanInit => PlanInv
  BY PlanAssumption DEF PlanInit, PlanInv, NoPlans, NoPlanRow
<1>2. PlanInv /\ [PlanNext]_planVars => PlanInv'
  <2> SUFFICES ASSUME PlanInv, [PlanNext]_planVars PROVE PlanInv'
    OBVIOUS
  <2>1. ASSUME NEW t \in PlanTenants, NEW cap \in PlanCaps, Upsert(t, cap) PROVE PlanInv'
    <3>1. cap \in 0..Width - 1
      BY PlanAssumption
    <3>2. AsSigned(cap) \in Int /\ cap \in Int
      BY <3>1, SignedOrNegative, PlanAssumption
    <3> QED
      BY <2>1, <3>1, <3>2 DEF Upsert, PlanInv
  <2>2. CASE UNCHANGED <<column, persisted>>
    BY <2>2 DEF PlanInv
  <2> QED
    BY <2>1, <2>2 DEF PlanNext, planVars, HoldSlot, SlotExpires, OnboardTenant, LoadAll, RegistryLost
<1>3. PlanInv => [LoadAll /\ planLoaded'.ok => planLoaded'.caps = persisted]_planVars
  <2> SUFFICES ASSUME PlanInv, LoadAll, planLoaded'.ok PROVE planLoaded'.caps = persisted
    OBVIOUS
  <2>1. (\A t \in PlanTenants : ~Corrupt(t)) /\ planLoaded'.caps = column
    BY DEF LoadAll, Loaded
  <2>2. ASSUME NEW t \in PlanTenants PROVE column[t] = persisted[t]
    <3>1. CASE persisted[t] \in 0..Width - 1 /\ column[t] = AsSigned(persisted[t])
      BY <2>1, <3>1, SignedOrNegative DEF Corrupt
    <3> QED
      BY <3>1 DEF PlanInv
  <2> QED
    BY <2>1, <2>2 DEF PlanInv
<1> QED
  BY <1>1, <1>2, <1>3, PTL DEF PlanSpec, LoadIsExactOrFails
================================================================================
