------------------------- MODULE LeaseLifecycleProofs -------------------------
(****************************************************************************)
(* Machine-checked proofs about LeaseLifecycle, for every fleet: any number   *)
(* of instances, requests, leases and crashes.                                *)
(*                                                                           *)
(* The fleet drives the ledger only through the ledger's own operations, so   *)
(* what LeaseLedgerProofs shows of the ledger holds of every fleet.  What the *)
(* fleet adds rests on FleetInv: an id is used once, a box can be named by    *)
(* nobody before it is provisioned, every cleanup works on a claimed row and  *)
(* every terminalizer on one that was Held, teardown comes before the end of  *)
(* a row, and a row has one winner.  How an end is completed (the credential  *)
(* revoked, the envelope published) is shown at the end, of runs in which no  *)
(* instance has died yet: one that dies takes its unfinished ends with it.    *)
(****************************************************************************)
EXTENDS LeaseLifecycle, LeaseLedgerProofs

AcquirePcs ==
  {"idle", "checked", "reserved", "minted", "provisioned", "bound", "held", "emitted",
   "claim", "teardown", "finish", "revoke", "done"}

RollbackPcs == {"claim", "teardown", "finish", "revoke", "done"}

TaskPcs ==
  {"idle", "probe", "teardown", "close_hook", "transition", "won", "revoked", "emitted", "finish"}

Terminalizers == {"close", "cancel", "reap", "crash", "kill"}

(* Types of the two program counters, and what a running step knows.          *)
ControlTypeOK ==
  /\ acq \in [LeaseIds -> [pc : AcquirePcs, at : Instances \cup {None},
                           tenant : Tenants \cup {None},
                           phase : {None, "BeforeProvision", "AfterProvision"}]]
  /\ \A l \in LeaseIds : acq[l].pc \notin {"idle", "done"} =>
       acq[l].at \in Instances /\ acq[l].tenant \in Tenants
  /\ task \in [Workers -> [kind : {"idle", "sweep"} \cup Terminalizers,
                           at : Instances \cup {None}, lease : LeaseIds \cup {None},
                           pc : TaskPcs]]
  /\ \A w \in Workers :
       /\ task[w].kind = "idle" <=> task[w].pc = "idle"
       /\ task[w].kind # "idle" => task[w].at \in Instances /\ task[w].lease \in LeaseIds
       /\ task[w].kind = "sweep" => task[w].pc \in {"teardown", "finish"}
       /\ task[w].pc = "finish" => task[w].kind = "sweep"

(* No box was ever made for the lease. *)
NoBoxYet(l) ==
  acq[l].pc \in {"idle", "checked", "reserved", "minted"} \/ acq[l].phase = "BeforeProvision"

(* The acquire: an id is used once, its row is there until something resolves *)
(* its box, and only a successful acquire leaves Pending.                     *)
AcquireInv ==
  \A l \in LeaseIds :
    /\ acq[l].pc \in {"idle", "checked"} => l \notin DOMAIN records
    /\ acq[l].pc \in {"reserved", "minted"} => IsPending(l)
    /\ acq[l].phase # None => acq[l].pc \in RollbackPcs
    /\ l \in DOMAIN records /\ records[l].state # "Pending" =>
         acq[l].pc \in {"held", "emitted", "done"}
    /\ slots[l].acquired = 1 => acq[l].pc \in {"emitted", "done"}

(* The box: nobody can name one that was not made, and a cleanup finishes     *)
(* only after it is gone.                                                     *)
BoxInv ==
  \A l \in LeaseIds :
    /\ NoBoxYet(l) => /\ box[l] = None
                      /\ \A i \in Instances : l \notin evidence[i]
                      /\ l \in DOMAIN records => records[l].box_ref = DefaultBoxRef
    /\ acq[l].pc = "finish" => box[l] \in {None, "deleted"}

(* A task and its row. *)
TaskInv ==
  \A w \in Workers : \A l \in LeaseIds : task[w].lease = l =>
    /\ task[w].kind \in Terminalizers => l \in DOMAIN records /\ records[l].state # "Pending"
    /\ task[w].pc \in {"close_hook", "transition"} => box[l] = "deleted"
    /\ task[w].pc \in {"won", "revoked"} =>
         records[l].state \in Terminal /\ slots[l].terminal = 0
    /\ task[w].kind = "sweep" =>
         (l \in claims \/ l \notin DOMAIN records) /\ acq[l].pc \notin {"idle", "checked"}
    /\ task[w].pc = "finish" => box[l] = "deleted" /\ ~NoBoxYet(l)

(* Only one terminalizer of a row has won. *)
OneWinner ==
  \A v, w \in Workers :
    /\ task[v].pc \in {"won", "revoked"} /\ task[w].pc \in {"won", "revoked"}
    /\ task[v].lease = task[w].lease
    => v = w

FleetInv ==
  /\ LedgerInv /\ FleetTypeOK /\ ControlTypeOK
  /\ AcquireInv /\ BoxInv /\ TaskInv /\ OneWinner /\ NoUnownedBox /\ SlotFreedOnce

--------------------------------------------------------------------------------
(* The fleet drives the ledger *)

(* Whatever an instance does, the shared ledger sees one of its operations or *)
(* nothing: no handler or sweep writes a row behind the ledger's back.        *)
LEMMA FleetDrivesLedger ==
  ASSUME TypeOK, FleetTypeOK, ControlTypeOK, Next
  PROVE  LedgerNext \/ UNCHANGED ledgerVars
<1>1. ASSUME NEW l \in LeaseIds, Reserve(l) PROVE LedgerNext
  <2>1. acq[l].tenant \in Tenants /\ now \in Times
    BY <1>1 DEF Reserve, Acquiring, ControlTypeOK, FleetTypeOK
  <2>2. \E gate \in Gates(acq[l].tenant, now) : TryAdmitWithCompute(l, acq[l].tenant, gate, now)
    BY <1>1 DEF Reserve
  <2>3. Admit(l)
    BY <2>1, <2>2 DEF Admit
  <2> QED
    BY <2>3 DEF LedgerNext
<1>2. ASSUME NEW l \in LeaseIds, Bind(l) PROVE LedgerNext
  BY <1>2 DEF Bind, LedgerNext
<1>3. ASSUME NEW l \in LeaseIds, Hold(l) PROVE LedgerNext
  <2>1. records[l].created_at_ms \in Times
    BY <1>3 DEF Hold, TypeOK, IsMap, LeaseRecord
  <2>2. Move(l)
    BY <1>3, <2>1 DEF Hold, Move, LeaseState
  <2> QED
    BY <2>2 DEF LedgerNext
<1>4. ASSUME NEW l \in LeaseIds, RollbackClaim(l) \/ RollbackFinish(l) PROVE LedgerNext
  BY <1>4 DEF RollbackClaim, RollbackFinish, LedgerNext
<1>5. ASSUME NEW w \in Workers, Win(w) PROVE LedgerNext
  <2>1. task[w].kind \in Terminalizers /\ task[w].lease \in LeaseIds /\ now \in Times
    BY <1>5 DEF Win, Working, ControlTypeOK, FleetTypeOK
  <2>2. Target[task[w].kind] \in LeaseState
    BY <2>1 DEF Target, Terminalizers, LeaseState, Terminal
  <2>3. Move(task[w].lease)
    BY <1>5, <2>1, <2>2 DEF Win, Move
  <2> QED
    BY <2>1, <2>3 DEF LedgerNext
<1>6. ASSUME NEW w \in Workers, SweepFinish(w) PROVE LedgerNext
  <2>1. task[w].lease \in LeaseIds
    BY <1>6 DEF SweepFinish, Working, ControlTypeOK
  <2> QED
    BY <1>6, <2>1 DEF SweepFinish, LedgerNext
<1>7. ASSUME NEW i \in Instances, NEW l \in LeaseIds, StartSweep(i, l) PROVE LedgerNext
  BY <1>7 DEF StartSweep, LedgerNext, FleetTypeOK
<1>8. ASSUME NEW l \in LeaseIds, Acquire(l) PROVE LedgerNext \/ UNCHANGED ledgerVars
  BY <1>1, <1>2, <1>3, <1>4, <1>8 DEF Acquire, CheckSuspension, Mint, MintFails, Provision,
     ProvisionFails, LedgerRefuses, EmitAcquired, RegisterHook, RollbackRefused,
     RollbackTeardown, RollbackRevoke
<1>9. ASSUME NEW w \in Workers, Work(w) PROVE LedgerNext \/ UNCHANGED ledgerVars
  BY <1>5, <1>6, <1>9 DEF Work, Probe, Teardown, TeardownFails, CloseHook, Lose, SettleFirst,
     SettleRelease, SettleReclaim, SweepTeardown, SweepUnconfirmed, SweepRefused
<1>10. ASSUME NEW w \in Requests, Request(w) PROVE UNCHANGED ledgerVars
  BY <1>10 DEF Request, StartCrashSweep, StartRelease, StartKill
<1> QED
  BY <1>7, <1>8, <1>9, <1>10 DEF Next, BoxDies, StartReap, Suspend, Unsuspend, Crash, Restart, Tick

--------------------------------------------------------------------------------
(* What the steps of an acquire and of a task do to the two program counters  *)

(* A step of an acquire moves its own program counter and no other.           *)
LEMMA ProceedEffect ==
  ASSUME ControlTypeOK, NEW l \in LeaseIds, NEW pc \in AcquirePcs \ {"idle"},
         acq[l].pc \notin {"idle", "done"}, Proceed(l, pc), UNCHANGED task
  PROVE  /\ ControlTypeOK'
         /\ acq'[l].pc = pc /\ acq'[l].phase = acq[l].phase
         /\ \A k \in LeaseIds \ {l} : acq'[k] = acq[k]
<1> DEFINE a == [acq[l] EXCEPT !.pc = pc]
<1>1. /\ a \in [pc : AcquirePcs, at : Instances \cup {None}, tenant : Tenants \cup {None},
                phase : {None, "BeforeProvision", "AfterProvision"}]
      /\ a.pc = pc /\ a.phase = acq[l].phase /\ a.at \in Instances /\ a.tenant \in Tenants
  BY DEF ControlTypeOK
<1>2. acq' = [acq EXCEPT ![l] = a]
  BY DEF Proceed
<1> HIDE DEF a
<1> QED
  BY <1>1, <1>2 DEF ControlTypeOK

(* A failing acquire remembers how far it got and goes to the rollback.       *)
LEMMA RollBackEffect ==
  ASSUME ControlTypeOK, NEW l \in LeaseIds, NEW phase \in {"BeforeProvision", "AfterProvision"},
         acq[l].pc \notin {"idle", "done"}, RollBack(l, phase), UNCHANGED task
  PROVE  /\ ControlTypeOK'
         /\ acq'[l].pc = "claim" /\ acq'[l].phase = phase
         /\ \A k \in LeaseIds \ {l} : acq'[k] = acq[k]
<1> DEFINE a == [acq[l] EXCEPT !.pc = "claim", !.phase = phase]
<1>1. /\ a \in [pc : AcquirePcs, at : Instances \cup {None}, tenant : Tenants \cup {None},
                phase : {None, "BeforeProvision", "AfterProvision"}]
      /\ a.pc = "claim" /\ a.phase = phase /\ a.at \in Instances /\ a.tenant \in Tenants
  BY DEF ControlTypeOK, AcquirePcs
<1>2. acq' = [acq EXCEPT ![l] = a]
  BY DEF RollBack, ControlTypeOK
<1> HIDE DEF a
<1> QED
  BY <1>1, <1>2 DEF ControlTypeOK

(* A task that starts knows its kind, its instance and its row.               *)
LEMMA BeginEffect ==
  ASSUME ControlTypeOK, NEW w \in Workers, NEW kind \in Terminalizers \cup {"sweep"},
         NEW i \in Instances, NEW l \in LeaseIds, NEW pc \in {"probe", "teardown"},
         kind = "sweep" => pc = "teardown", Begin(w, kind, i, l, pc), UNCHANGED acq
  PROVE  /\ ControlTypeOK'
         /\ task'[w] = [kind |-> kind, at |-> i, lease |-> l, pc |-> pc]
         /\ \A v \in Workers \ {w} : task'[v] = task[v]
<1> DEFINE b == [kind |-> kind, at |-> i, lease |-> l, pc |-> pc]
<1>1. /\ b \in [kind : {"idle", "sweep"} \cup Terminalizers, at : Instances \cup {None},
                lease : LeaseIds \cup {None}, pc : TaskPcs]
      /\ b.kind = kind /\ b.at = i /\ b.lease = l /\ b.pc = pc
  BY DEF TaskPcs
<1>2. task' = [task EXCEPT ![w] = b]
  BY DEF Begin
<1> HIDE DEF b
<1>3. ControlTypeOK'
  BY <1>1, <1>2 DEF ControlTypeOK, Terminalizers
<1>4. task'[w] = b /\ \A v \in Workers \ {w} : task'[v] = task[v]
  BY <1>2 DEF ControlTypeOK
<1> QED
  BY <1>3, <1>4 DEF b

(* A step of a task moves its own program counter and no other.               *)
LEMMA StepEffect ==
  ASSUME ControlTypeOK, NEW w \in Workers, NEW pc \in TaskPcs \ {"idle"}, task[w].pc # "idle",
         task[w].kind = "sweep" <=> pc = "finish", Step(w, pc), UNCHANGED acq
  PROVE  /\ ControlTypeOK'
         /\ task'[w].kind = task[w].kind /\ task'[w].lease = task[w].lease /\ task'[w].pc = pc
         /\ \A v \in Workers \ {w} : task'[v] = task[v]
<1> DEFINE b == [task[w] EXCEPT !.pc = pc]
<1>1. /\ b \in [kind : {"idle", "sweep"} \cup Terminalizers, at : Instances \cup {None},
                lease : LeaseIds \cup {None}, pc : TaskPcs]
      /\ b.kind = task[w].kind /\ b.at = task[w].at /\ b.lease = task[w].lease /\ b.pc = pc
  BY DEF ControlTypeOK
<1>2. task' = [task EXCEPT ![w] = b]
  BY DEF Step
<1> HIDE DEF b
<1> QED
  BY <1>1, <1>2 DEF ControlTypeOK

(* A task that ends is idle, and no other task is touched.                    *)
LEMMA StopEffect ==
  ASSUME ControlTypeOK, NEW w \in Workers, Stop(w), UNCHANGED acq
  PROVE  /\ ControlTypeOK'
         /\ task'[w] = Idle
         /\ \A v \in Workers \ {w} : task'[v] = task[v]
<1>1. /\ Idle \in [kind : {"idle", "sweep"} \cup Terminalizers, at : Instances \cup {None},
                   lease : LeaseIds \cup {None}, pc : TaskPcs]
      /\ Idle.kind = "idle" /\ Idle.pc = "idle"
  BY DEF Idle, TaskPcs
<1>2. task' = [task EXCEPT ![w] = Idle]
  BY DEF Stop
<1> QED
  BY <1>1, <1>2 DEF ControlTypeOK

(* A provider call leaves the tables well formed.  It deletes a box only when *)
(* the instance can name it, and deletes no other; a confirmed call leaves no *)
(* box; and what an instance can name afterwards it could name before.        *)
LEMMA TeardownEffect ==
  ASSUME FleetTypeOK, NEW i \in Instances, NEW l \in LeaseIds,
         TeardownConfirmed(i, l) \/ TeardownUnconfirmed(i, l)
  PROVE  /\ evidence' \in [Instances -> SUBSET LeaseIds]
         /\ box' \in [LeaseIds -> {None, "live", "dead", "deleted"}]
         /\ \A k \in LeaseIds \ {l} : box'[k] = box[k]
         /\ box'[l] # box[l] => CanTeardown(i, l) /\ box'[l] = "deleted"
         /\ TeardownConfirmed(i, l) => CanTeardown(i, l) /\ box'[l] = "deleted"
         /\ \A j \in Instances : \A k \in LeaseIds :
              k \in evidence'[j] => k \in evidence[j] \/ (k = l /\ Resolves(i, l))
<1>1. /\ evidence' \in [Instances -> SUBSET LeaseIds]
      /\ \A j \in Instances : \A k \in LeaseIds :
           k \in evidence'[j] => k \in evidence[j] \/ (k = l /\ Resolves(i, l))
  <2>1. evidence \in [Instances -> SUBSET LeaseIds]
    BY DEF FleetTypeOK
  <2>2. CASE Resolves(i, l)
    <3>1. evidence' = [evidence EXCEPT ![i] = evidence[i] \cup {l}]
      BY <2>2 DEF TeardownConfirmed, TeardownUnconfirmed, Restore
    <3> QED
      BY <2>1, <2>2, <3>1
  <2>3. CASE ~Resolves(i, l)
    <3>1. evidence' = [evidence EXCEPT ![i] = evidence[i]]
      BY <2>3 DEF TeardownConfirmed, TeardownUnconfirmed, Restore
    <3> QED
      BY <2>1, <3>1
  <2> QED
    BY <2>2, <2>3
<1>2. ASSUME TeardownConfirmed(i, l)
      PROVE  CanTeardown(i, l) /\ box' = [box EXCEPT ![l] = "deleted"]
  BY <1>2 DEF TeardownConfirmed, CanTeardown
<1>3. ASSUME TeardownUnconfirmed(i, l), box' # box
      PROVE  CanTeardown(i, l) /\ box' = [box EXCEPT ![l] = "deleted"]
  BY <1>3 DEF TeardownUnconfirmed
<1> QED
  BY <1>1, <1>2, <1>3 DEF FleetTypeOK


--------------------------------------------------------------------------------
(* Types *)

(* An update of one lease's entry in one instance's HookRegistry.             *)
LEMMA HookUpdate ==
  ASSUME FleetTypeOK, NEW i \in Instances, NEW l \in LeaseIds, NEW v \in {None, "open", "closed"},
         hooks' = [hooks EXCEPT ![i][l] = v]
  PROVE  hooks' \in [Instances -> [LeaseIds -> {None, "open", "closed"}]]
<1> DEFINE h == [hooks[i] EXCEPT ![l] = v]
<1>1. h \in [LeaseIds -> {None, "open", "closed"}]
  BY DEF FleetTypeOK
<1>2. hooks' = [hooks EXCEPT ![i] = h]
  OBVIOUS
<1> HIDE DEF h
<1> QED
  BY <1>1, <1>2 DEF FleetTypeOK

(* Revoking a PAT and forgetting a lease (revoke_pat_for, forget_lease) leave *)
(* the side tables well formed.                                               *)
LEMMA SettleTypes ==
  ASSUME FleetTypeOK, NEW i \in Instances, NEW l \in LeaseIds
  PROVE  /\ RevokePatFor(i, l) => /\ pat' \in [LeaseIds -> {None, "live", "revoked"}]
                                  /\ patIds' \in [Instances -> SUBSET LeaseIds]
         /\ ForgetLease(i, l) => /\ evidence' \in [Instances -> SUBSET LeaseIds]
                                 /\ hooks' \in [Instances -> [LeaseIds -> {None, "open", "closed"}]]
         /\ EmitTerminal(l) =>
              /\ slots' \in [LeaseIds -> [acquired : 0..1, terminal : Nat]]
              /\ slots'[l].terminal = slots[l].terminal + 1
              /\ slots'[l].acquired = slots[l].acquired
              /\ \A k \in LeaseIds \ {l} : slots'[k] = slots[k]
<1>1. ASSUME RevokePatFor(i, l)
      PROVE  /\ pat' \in [LeaseIds -> {None, "live", "revoked"}]
             /\ patIds' \in [Instances -> SUBSET LeaseIds]
  BY <1>1 DEF RevokePatFor, FleetTypeOK
<1>2. ASSUME ForgetLease(i, l)
      PROVE  /\ evidence' \in [Instances -> SUBSET LeaseIds]
             /\ hooks' \in [Instances -> [LeaseIds -> {None, "open", "closed"}]]
  BY <1>2 DEF ForgetLease, FleetTypeOK
<1>3. ASSUME EmitTerminal(l)
      PROVE  /\ slots' \in [LeaseIds -> [acquired : 0..1, terminal : Nat]]
             /\ slots'[l].terminal = slots[l].terminal + 1
             /\ slots'[l].acquired = slots[l].acquired
             /\ \A k \in LeaseIds \ {l} : slots'[k] = slots[k]
  <2> DEFINE s == [slots[l] EXCEPT !.terminal = slots[l].terminal + 1]
  <2>1. /\ s \in [acquired : 0..1, terminal : Nat]
        /\ s.terminal = slots[l].terminal + 1 /\ s.acquired = slots[l].acquired
    BY DEF FleetTypeOK
  <2>2. slots' = [slots EXCEPT ![l] = s]
    BY <1>3 DEF EmitTerminal
  <2> HIDE DEF s
  <2> QED
    BY <2>1, <2>2 DEF FleetTypeOK
<1> QED
  BY <1>1, <1>2, <1>3

(* Every step keeps the fleet's tables well formed.                           *)
LEMMA FleetTypes ==
  ASSUME FleetTypeOK, ControlTypeOK, AcquireInv, Next
  PROVE  FleetTypeOK'
<1> USE DEF localVars, worldVars, outputVars, fleetVars
<1>1. ASSUME NEW l \in LeaseIds, Acquire(l) PROVE FleetTypeOK'
  <2>1. CASE UNCHANGED <<localVars, worldVars, outputVars, fleetVars>>
    BY <2>1 DEF FleetTypeOK
  <2>2. CASE Mint(l) \/ Provision(l) \/ ProvisionFails(l) \/ RollbackFinish(l)
    <3>1. acq[l].at \in Instances
      BY <2>2 DEF Mint, Provision, ProvisionFails, RollbackFinish, Acquiring, ControlTypeOK
    <3> DEFINE i == acq[l].at
    <3>2. evidence' \in [Instances -> SUBSET LeaseIds]
      <4>1. \/ evidence' = [evidence EXCEPT ![i] = evidence[i] \cup {l}]
            \/ evidence' = [evidence EXCEPT ![i] = evidence[i] \ {l}]
            \/ evidence' = evidence
        BY <2>2 DEF Mint, Provision, ProvisionFails, RollbackFinish
      <4> QED
        BY <3>1, <4>1 DEF FleetTypeOK
    <3>4. patIds' \in [Instances -> SUBSET LeaseIds]
      <4>1. patIds' = [patIds EXCEPT ![i] = patIds[i] \cup {l}] \/ patIds' = patIds
        BY <2>2 DEF Mint, Provision, ProvisionFails, RollbackFinish
      <4> QED
        BY <3>1, <4>1 DEF FleetTypeOK
    <3>3. /\ pat' \in [LeaseIds -> {None, "live", "revoked"}]
          /\ box' \in [LeaseIds -> {None, "live", "dead", "deleted"}]
      BY <2>2 DEF Mint, Provision, ProvisionFails, RollbackFinish, FleetTypeOK
    <3> QED
      BY <2>2, <3>2, <3>3, <3>4 DEF Mint, Provision, ProvisionFails, RollbackFinish, FleetTypeOK
  <2>6. CASE RegisterHook(l)
    <3>1. acq[l].at \in Instances
      BY <2>6 DEF RegisterHook, Acquiring, ControlTypeOK
    <3>2. hooks' = [hooks EXCEPT ![acq[l].at][l] = "open"]
      BY <2>6 DEF RegisterHook
    <3>3. hooks' \in [Instances -> [LeaseIds -> {None, "open", "closed"}]]
      BY <3>1, <3>2, HookUpdate
    <3> QED
      BY <2>6, <3>3 DEF RegisterHook, FleetTypeOK
  <2>3. CASE EmitAcquired(l)
    <3> DEFINE s == [slots[l] EXCEPT !.acquired = slots[l].acquired + 1]
    <3>0. slots[l].acquired \in 0..1
      BY DEF FleetTypeOK
    <3>1. slots[l].acquired = 0
      BY <2>3, <3>0 DEF EmitAcquired, Acquiring, AcquireInv
    <3>2. s \in [acquired : 0..1, terminal : Nat]
      BY <3>1 DEF FleetTypeOK
    <3>3. slots' = [slots EXCEPT ![l] = s]
      BY <2>3 DEF EmitAcquired
    <3> HIDE DEF s
    <3> QED
      BY <2>3, <3>2, <3>3 DEF EmitAcquired, FleetTypeOK
  <2>4. CASE RollbackTeardown(l)
    <3>1. acq[l].at \in Instances
      BY <2>4 DEF RollbackTeardown, Acquiring, ControlTypeOK
    <3> QED
      BY <2>4, <3>1, TeardownEffect DEF RollbackTeardown, FleetTypeOK
  <2>5. CASE RollbackRevoke(l)
    <3>1. acq[l].at \in Instances
      BY <2>5 DEF RollbackRevoke, Acquiring, ControlTypeOK
    <3> QED
      BY <2>5, <3>1, SettleTypes DEF RollbackRevoke, FleetTypeOK
  <2> QED
    BY <1>1, <2>1, <2>2, <2>3, <2>4, <2>5, <2>6 DEF Acquire, CheckSuspension, Reserve, MintFails, Bind,
       Hold, LedgerRefuses, RollbackClaim, RollbackRefused
<1>2. ASSUME NEW w \in Workers, Work(w) PROVE FleetTypeOK'
  <2>0. task[w].at \in Instances /\ task[w].lease \in LeaseIds
    BY <1>2 DEF Work, Probe, Teardown, TeardownFails, CloseHook, Win, Lose, SettleFirst,
       SettleRelease, SettleReclaim, SweepTeardown, SweepUnconfirmed, SweepFinish, SweepRefused,
       Working, ControlTypeOK
  <2>1. CASE Win(w) \/ Lose(w) \/ SweepRefused(w)
    BY <2>1 DEF Win, Lose, SweepRefused, FleetTypeOK
  <2>2. CASE Probe(w)
    <3>1. TeardownUnconfirmed(task[w].at, task[w].lease)
      BY <2>2 DEF Probe, TeardownUnconfirmed
    <3> QED
      BY <2>0, <2>2, <3>1, TeardownEffect DEF Probe, FleetTypeOK
  <2>3. CASE Teardown(w) \/ TeardownFails(w) \/ SweepTeardown(w) \/ SweepUnconfirmed(w)
    <3>1. /\ evidence' \in [Instances -> SUBSET LeaseIds]
          /\ box' \in [LeaseIds -> {None, "live", "dead", "deleted"}]
      BY <2>0, <2>3, TeardownEffect DEF Teardown, TeardownFails, SweepTeardown, SweepUnconfirmed
    <3>2. /\ pat' \in [LeaseIds -> {None, "live", "revoked"}]
          /\ patIds' \in [Instances -> SUBSET LeaseIds]
      BY <2>0, <2>3, SettleTypes DEF Teardown, TeardownFails, SweepTeardown, SweepUnconfirmed,
         RevokeIfKill, FleetTypeOK
    <3> QED
      BY <2>3, <3>1, <3>2 DEF Teardown, TeardownFails, SweepTeardown, SweepUnconfirmed, FleetTypeOK
  <2>4. CASE CloseHook(w)
    <3>1. /\ hooks' = hooks \/ hooks' = [hooks EXCEPT ![task[w].at][task[w].lease] = "closed"]
          /\ envelopes' \in {envelopes, [envelopes EXCEPT ![task[w].lease] = @ + 1]}
      BY <2>4 DEF CloseHook
    <3>2. envelopes' \in [LeaseIds -> Nat]
      BY <2>0, <3>1 DEF FleetTypeOK
    <3>3. hooks' \in [Instances -> [LeaseIds -> {None, "open", "closed"}]]
      BY <2>0, <3>1, HookUpdate DEF FleetTypeOK
    <3> QED
      BY <2>4, <3>2, <3>3 DEF CloseHook, FleetTypeOK
  <2>5. CASE SettleFirst(w)
    <3>1. CASE task[w].kind \in {"reap", "crash"}
      BY <2>0, <2>5, <3>1, SettleTypes DEF SettleFirst, FleetTypeOK
    <3>2. CASE task[w].kind = "kill"
      BY <2>0, <2>5, <3>2, SettleTypes DEF SettleFirst, FleetTypeOK
    <3>3. CASE task[w].kind \notin {"reap", "crash", "kill"}
      <4>1. hooks' \in [Instances -> [LeaseIds -> {None, "open", "closed"}]]
        <5>1. hooks' = hooks \/ hooks' = [hooks EXCEPT ![task[w].at][task[w].lease] = None]
          BY <2>5, <3>3 DEF SettleFirst
        <5> QED
          BY <2>0, <5>1, HookUpdate DEF FleetTypeOK
      <4> QED
        BY <2>0, <2>5, <3>3, <4>1, SettleTypes DEF SettleFirst, FleetTypeOK
    <3> QED
      BY <3>1, <3>2, <3>3
  <2>6. CASE SettleRelease(w) \/ SweepFinish(w)
    BY <2>0, <2>6, SettleTypes DEF SettleRelease, SweepFinish, FleetTypeOK
  <2>7. CASE SettleReclaim(w)
    <3>1. envelopes' \in [LeaseIds -> Nat]
      BY <2>0, <2>7 DEF SettleReclaim, FlushPartialEnvelope, FleetTypeOK
    <3> QED
      BY <2>0, <2>7, <3>1, SettleTypes DEF SettleReclaim, FleetTypeOK
  <2> QED
    BY <1>2, <2>1, <2>2, <2>3, <2>4, <2>5, <2>6, <2>7 DEF Work
<1>3. ASSUME NEW w \in Requests, Request(w) PROVE FleetTypeOK'
  BY <1>3 DEF Request, StartCrashSweep, StartRelease, StartKill, FleetTypeOK
<1>4. ASSUME NEW i \in Instances, NEW l \in LeaseIds, StartReap(i, l) \/ StartSweep(i, l)
      PROVE  FleetTypeOK'
  BY <1>4 DEF StartReap, StartSweep, FleetTypeOK
<1>5. ASSUME NEW t \in Tenants, NEW i \in Instances, Suspend(t, i) \/ Unsuspend(t, i)
      PROVE  FleetTypeOK'
  BY <1>5 DEF Suspend, Unsuspend, FleetTypeOK
<1>6. ASSUME NEW i \in Instances, Crash(i) \/ Restart(i) PROVE FleetTypeOK'
  <2>1. CASE Restart(i)
    BY <2>1 DEF Restart, FleetTypeOK
  <2>2. CASE Crash(i)
    <3>1. crashes' \in 0..MaxCrashes /\ up' \subseteq Instances
      BY <2>2, FleetAssumption DEF Crash, FleetTypeOK
    <3>2. /\ evidence' \in [Instances -> SUBSET LeaseIds]
          /\ patIds' \in [Instances -> SUBSET LeaseIds]
          /\ cached' \in [Instances -> SUBSET Tenants]
      BY <2>2 DEF Crash, FleetTypeOK
    <3>3. hooks' \in [Instances -> [LeaseIds -> {None, "open", "closed"}]]
      <4>1. [l \in LeaseIds |-> None] \in [LeaseIds -> {None, "open", "closed"}]
        OBVIOUS
      <4> QED
        BY <2>2, <4>1 DEF Crash, FleetTypeOK
    <3> QED
      BY <2>2, <3>1, <3>2, <3>3 DEF Crash, FleetTypeOK
  <2> QED
    BY <1>6, <2>1, <2>2
<1>7. ASSUME NEW l \in LeaseIds, BoxDies(l) PROVE FleetTypeOK'
  BY <1>7 DEF BoxDies, FleetTypeOK
<1>8. CASE Tick
  BY <1>8, FleetAssumption DEF Tick, FleetTypeOK
<1> QED
  BY <1>1, <1>2, <1>3, <1>4, <1>5, <1>6, <1>7, <1>8 DEF Next


--------------------------------------------------------------------------------
(* Steps that leave the ledger alone.  They are the same in kind: a box is at *)
(* most taken away, acquires and tasks go on to steps they may go on to, and  *)
(* no slot is freed.                                                          *)

BoxesShrink ==
  \A k \in LeaseIds :
    /\ \/ box'[k] = box[k]
       \/ box[k] = "live" /\ box'[k] = "dead"
       \/ box'[k] = "deleted" /\ ~NoBoxYet(k)
    /\ NoBoxYet(k) => \A j \in Instances : k \in evidence'[j] => k \in evidence[j]

AcquiresGoOn ==
  \A k \in LeaseIds :
    /\ NoBoxYet(k)' => NoBoxYet(k)
    /\ acq'[k].pc \in {"idle", "checked"} => acq[k].pc \in {"idle", "checked"}
    /\ acq'[k].pc \in {"reserved", "minted"} => acq[k].pc \in {"reserved", "minted"}
    /\ acq'[k].phase # None => acq'[k].pc \in RollbackPcs
    /\ acq[k].pc \in {"held", "emitted", "done"} => acq'[k].pc \in {"held", "emitted", "done"}
    /\ acq'[k].pc = "finish" => acq[k].pc = "finish" \/ box'[k] = "deleted"

TaskGoesOn(w) ==
  \/ task'[w] = task[w] \/ task'[w] = Idle
  \/ /\ task'[w].kind \in Terminalizers /\ task'[w].pc \in {"probe", "teardown"}
     /\ task'[w].lease \in DOMAIN records /\ records[task'[w].lease].state # "Pending"
  \/ /\ task'[w].kind = task[w].kind /\ task'[w].lease = task[w].lease
     /\ task'[w].pc \in {"close_hook", "transition", "finish"} => box'[task[w].lease] = "deleted"
     /\ task'[w].pc \in {"won", "revoked"} => task[w].pc \in {"won", "revoked"}
     /\ task'[w].pc = "finish" => ~NoBoxYet(task[w].lease)

SlotsKept ==
  \A k \in LeaseIds : /\ slots'[k].terminal = slots[k].terminal
                      /\ slots'[k].acquired = 1 => acq'[k].pc \in {"emitted", "done"}

(* A step of this kind preserves the invariant.                               *)
LEMMA FrameStep ==
  ASSUME FleetInv, UNCHANGED ledgerVars, FleetTypeOK', ControlTypeOK',
         BoxesShrink, AcquiresGoOn, \A w \in Workers : TaskGoesOn(w), SlotsKept
  PROVE  FleetInv'
<1>1. LedgerInv'
  BY LedgerInvStep DEF FleetInv
<1>2. UNCHANGED <<records, claims>>
  BY DEF ledgerVars
<1>3. AcquireInv'
  BY <1>2 DEF FleetInv, AcquireInv, AcquiresGoOn, SlotsKept, IsPending
<1>4. BoxInv'
  BY <1>2 DEF FleetInv, BoxInv, BoxesShrink, AcquiresGoOn, None
<1>5. TaskInv'
  <2> SUFFICES ASSUME NEW w \in Workers, NEW l \in LeaseIds, task'[w].lease = l
               PROVE  /\ task'[w].kind \in Terminalizers =>
                           l \in DOMAIN records /\ records[l].state # "Pending"
                      /\ task'[w].pc \in {"close_hook", "transition"} => box'[l] = "deleted"
                      /\ task'[w].pc \in {"won", "revoked"} =>
                           records[l].state \in Terminal /\ slots'[l].terminal = 0
                      /\ task'[w].kind = "sweep" =>
                           /\ l \in claims \/ l \notin DOMAIN records
                           /\ acq'[l].pc \notin {"idle", "checked"}
                      /\ task'[w].pc = "finish" => box'[l] = "deleted" /\ ~NoBoxYet(l)'
    BY <1>2 DEF TaskInv
  <2>1. CASE task'[w] = Idle
    BY <2>1 DEF Idle, Terminalizers
  <2>2. CASE task'[w].kind \in Terminalizers /\ task'[w].pc \in {"probe", "teardown"}
             /\ task'[w].lease \in DOMAIN records /\ records[task'[w].lease].state # "Pending"
    BY <2>2 DEF Terminalizers
  <2>3. CASE task'[w] = task[w]
    BY <2>3 DEF FleetInv, TaskInv, BoxesShrink, AcquiresGoOn, SlotsKept
  <2>4. CASE /\ task'[w].kind = task[w].kind /\ task'[w].lease = task[w].lease
             /\ task'[w].pc \in {"close_hook", "transition", "finish"} =>
                  box'[task[w].lease] = "deleted"
             /\ task'[w].pc \in {"won", "revoked"} => task[w].pc \in {"won", "revoked"}
             /\ task'[w].pc = "finish" => ~NoBoxYet(task[w].lease)
    BY <2>4 DEF FleetInv, TaskInv, AcquiresGoOn, SlotsKept
  <2> QED
    BY <2>1, <2>2, <2>3, <2>4 DEF TaskGoesOn
<1>6. OneWinner'
  BY DEF FleetInv, OneWinner, TaskGoesOn, Idle
<1>7. NoUnownedBox'
  BY <1>2 DEF FleetInv, NoUnownedBox, BoxesShrink
<1>8. SlotFreedOnce'
  BY <1>2 DEF FleetInv, SlotFreedOnce, SlotsKept
<1> QED
  BY <1>1, <1>3, <1>4, <1>5, <1>6, <1>7, <1>8 DEF FleetInv


(* The gate of an acquire (is_tenant_suspended) takes an id never used.       *)
LEMMA CheckSuspensionInv ==
  ASSUME FleetInv, FleetTypeOK', NEW l \in LeaseIds, NEW t \in Tenants, NEW i \in Instances,
         CheckSuspension(l, t, i)
  PROVE  FleetInv'
<1> USE DEF FleetInv
<1> DEFINE a == [pc |-> "checked", at |-> i, tenant |-> t, phase |-> None]
<1>1. UNCHANGED <<ledgerVars, localVars, worldVars, outputVars, fleetVars, task>>
  BY DEF CheckSuspension
<1>2. /\ a.pc = "checked" /\ a.phase = None /\ acq' = [acq EXCEPT ![l] = a]
      /\ acq[l].pc = "idle"
  BY DEF CheckSuspension, Acquiring
<1>3. ControlTypeOK'
  BY <1>1, <1>2 DEF ControlTypeOK, AcquirePcs
<1> HIDE DEF a
<1>4. BoxesShrink
  BY <1>1 DEF BoxesShrink, localVars, worldVars
<1>5. AcquiresGoOn
  BY <1>2 DEF AcquiresGoOn, ControlTypeOK, NoBoxYet, AcquireInv
<1>6. \A w \in Workers : TaskGoesOn(w)
  BY <1>1 DEF TaskGoesOn
<1>7. SlotsKept
  BY <1>1, <1>2 DEF SlotsKept, outputVars, ControlTypeOK, AcquireInv
<1> QED
  BY <1>1, <1>3, <1>4, <1>5, <1>6, <1>7, FrameStep

(* The steps of an acquire that touch neither the ledger nor a box: minting,  *)
(* emitting the slot event, registering the hook, giving up, revoking.        *)
LEMMA AcquireQuietInv ==
  ASSUME FleetInv, FleetTypeOK', NEW l \in LeaseIds,
         \/ Mint(l) \/ MintFails(l) \/ LedgerRefuses(l) \/ EmitAcquired(l) \/ RegisterHook(l)
         \/ RollbackRefused(l) \/ RollbackRevoke(l)
  PROVE  FleetInv'
<1> USE DEF FleetInv
<1>1. UNCHANGED <<ledgerVars, evidence, box, fleetVars, task>>
  BY DEF Mint, MintFails, LedgerRefuses, EmitAcquired, RegisterHook, RollbackRefused,
     RollbackRevoke, localVars, worldVars
<1>2. /\ ControlTypeOK'
      /\ \A k \in LeaseIds \ {l} : acq'[k] = acq[k]
      /\ \/ /\ acq'[l].phase = acq[l].phase
            /\ <<acq[l].pc, acq'[l].pc>> \in
                 {<<"reserved", "minted">>, <<"held", "emitted">>, <<"emitted", "done">>,
                  <<"claim", "revoke">>, <<"finish", "revoke">>, <<"revoke", "done">>}
         \/ acq[l].pc = "reserved" /\ acq'[l].pc = "claim" /\ acq'[l].phase = "BeforeProvision"
         \/ acq[l].pc \in {"provisioned", "bound"} /\ acq'[l].pc = "claim"
            /\ acq'[l].phase = "AfterProvision"
  BY ProceedEffect, RollBackEffect, <1>1 DEF Mint, MintFails, LedgerRefuses, EmitAcquired,
     RegisterHook, RollbackRefused, RollbackRevoke, Acquiring, AcquirePcs
<1>3. BoxesShrink
  BY <1>1 DEF BoxesShrink
<1>4. AcquiresGoOn
  BY <1>2 DEF AcquiresGoOn, NoBoxYet, AcquireInv, RollbackPcs, None
<1>5. \A w \in Workers : TaskGoesOn(w)
  BY <1>1 DEF TaskGoesOn
<1>6. SlotsKept
  <2>1. CASE EmitAcquired(l)
    <3>1. slots' = [slots EXCEPT ![l] = [slots[l] EXCEPT !.acquired = slots[l].acquired + 1]]
      BY <2>1 DEF EmitAcquired
    <3>2. acq'[l].pc = "emitted"
      BY <1>1, <2>1, ProceedEffect DEF EmitAcquired, Acquiring, AcquirePcs
    <3>3. \A k \in LeaseIds : /\ slots'[k].terminal = slots[k].terminal
                              /\ k # l => slots'[k].acquired = slots[k].acquired
      BY <3>1 DEF FleetTypeOK
    <3> QED
      BY <1>2, <3>2, <3>3 DEF SlotsKept, AcquireInv
  <2>2. CASE slots' = slots
    BY <1>2, <2>2 DEF SlotsKept, AcquireInv
  <2> QED
    BY <2>1, <2>2 DEF Mint, MintFails, LedgerRefuses, RegisterHook, RollbackRefused,
       RollbackRevoke, outputVars
<1> QED
  BY <1>1, <1>2, <1>3, <1>4, <1>5, <1>6, FrameStep

(* What a provider call reaches belongs to a lease whose box was made: before *)
(* that no registry has a handle and no row a reference.                      *)
LEMMA TeardownShrinks ==
  ASSUME FleetInv, NEW i \in Instances, NEW l \in LeaseIds,
         TeardownConfirmed(i, l) \/ TeardownUnconfirmed(i, l)
  PROVE  /\ BoxesShrink
         /\ TeardownConfirmed(i, l) => box'[l] = "deleted" /\ ~NoBoxYet(l)
<1>1. Resolves(i, l) => ~NoBoxYet(l)
  BY DEF FleetInv, BoxInv, Resolves
<1>2. CanTeardown(i, l) => Resolves(i, l)
  BY DEF CanTeardown
<1> QED
  BY <1>1, <1>2, TeardownEffect DEF FleetInv, BoxesShrink

(* A rollback's provider call: only a confirmed one goes on to the finish.    *)
LEMMA RollbackTeardownInv ==
  ASSUME FleetInv, FleetTypeOK', NEW l \in LeaseIds, RollbackTeardown(l)
  PROVE  FleetInv'
<1> USE DEF FleetInv
<1> DEFINE i == acq[l].at
<1>1. i \in Instances /\ acq[l].pc = "teardown"
  BY DEF RollbackTeardown, Acquiring, ControlTypeOK
<1>2. UNCHANGED <<ledgerVars, slots, task>>
  BY DEF RollbackTeardown, outputVars
<1>3. \/ TeardownConfirmed(i, l) /\ Proceed(l, "finish")
      \/ TeardownUnconfirmed(i, l) /\ Proceed(l, "revoke")
  BY DEF RollbackTeardown
<1>4. /\ ControlTypeOK'
      /\ acq'[l].phase = acq[l].phase
      /\ \A k \in LeaseIds \ {l} : acq'[k] = acq[k]
      /\ \/ acq'[l].pc = "finish" /\ TeardownConfirmed(i, l)
         \/ acq'[l].pc = "revoke"
  BY <1>1, <1>2, <1>3, ProceedEffect DEF AcquirePcs
<1>5. BoxesShrink /\ (TeardownConfirmed(i, l) => box'[l] = "deleted")
  BY <1>1, <1>3, TeardownShrinks
<1> HIDE DEF i
<1>6. AcquiresGoOn
  BY <1>1, <1>4, <1>5 DEF AcquiresGoOn, NoBoxYet, AcquireInv, RollbackPcs
<1>7. \A w \in Workers : TaskGoesOn(w)
  BY <1>2 DEF TaskGoesOn
<1>8. SlotsKept
  BY <1>1, <1>2, <1>4 DEF SlotsKept, AcquireInv
<1> QED
  BY <1>2, <1>4, <1>5, <1>6, <1>7, <1>8, FrameStep

(* A terminalizer starts from a row it read as Held.                          *)
LEMMA StartInv ==
  ASSUME FleetInv, FleetTypeOK', NEW w \in Workers, NEW i \in Instances, NEW l \in LeaseIds,
         NEW kind \in Terminalizers, NEW pc \in {"probe", "teardown"},
         Held(l), Begin(w, kind, i, l, pc),
         UNCHANGED <<ledgerVars, localVars, worldVars, outputVars, fleetVars, acq>>
  PROVE  FleetInv'
<1> USE DEF FleetInv
<1>0. kind # "sweep" /\ kind \in Terminalizers \cup {"sweep"}
  BY DEF Terminalizers
<1>1. /\ ControlTypeOK'
      /\ task'[w] = [kind |-> kind, at |-> i, lease |-> l, pc |-> pc]
      /\ \A v \in Workers \ {w} : task'[v] = task[v]
  BY <1>0, BeginEffect
<1>2. \A v \in Workers : TaskGoesOn(v)
  BY <1>1 DEF TaskGoesOn, Held
<1>3. BoxesShrink /\ AcquiresGoOn /\ SlotsKept
  BY DEF BoxesShrink, AcquiresGoOn, SlotsKept, AcquireInv, localVars, worldVars, outputVars,
     NoBoxYet
<1> QED
  BY <1>1, <1>2, <1>3, FrameStep

(* The steps of a task that leave the ledger and the slots alone: the probe,  *)
(* the provider calls, the hook, losing, revoking and forgetting.             *)
LEMMA TaskQuietInv ==
  ASSUME FleetInv, FleetTypeOK', NEW w \in Workers,
         \/ Probe(w) \/ Teardown(w) \/ TeardownFails(w) \/ CloseHook(w) \/ Lose(w)
         \/ SettleFirst(w) /\ task[w].kind \in {"reap", "crash"}
         \/ SettleRelease(w) \/ SweepTeardown(w) \/ SweepUnconfirmed(w) \/ SweepRefused(w)
  PROVE  FleetInv'
<1> USE DEF FleetInv
<1> DEFINE i == task[w].at
           l == task[w].lease
<1>1. i \in Instances /\ l \in LeaseIds /\ task[w].pc # "idle"
  BY DEF Probe, Teardown, TeardownFails, CloseHook, Lose, SettleFirst, SettleRelease,
     SweepTeardown, SweepUnconfirmed, SweepRefused, Working, ControlTypeOK
<1>2. UNCHANGED <<ledgerVars, acq, slots>>
  BY DEF Probe, Teardown, TeardownFails, CloseHook, Lose, SettleFirst, SettleRelease,
     SweepTeardown, SweepUnconfirmed, SweepRefused, outputVars
<1>3. CASE Probe(w) \/ Teardown(w) \/ TeardownFails(w) \/ SweepTeardown(w) \/ SweepUnconfirmed(w)
  <2>1. TeardownConfirmed(i, l) \/ TeardownUnconfirmed(i, l)
    BY <1>3 DEF Probe, Teardown, TeardownFails, SweepTeardown, SweepUnconfirmed,
       TeardownUnconfirmed, worldVars
  <2>2. BoxesShrink /\ (TeardownConfirmed(i, l) => box'[l] = "deleted" /\ ~NoBoxYet(l))
    BY <1>1, <2>1, TeardownShrinks
  <2>3. \/ Stop(w)
        \/ Step(w, "teardown") /\ task[w].pc = "probe"
        \/ /\ TeardownConfirmed(i, l) /\ task[w].kind # "sweep"
           /\ Step(w, "close_hook") \/ Step(w, "transition")
        \/ TeardownConfirmed(i, l) /\ task[w].kind = "sweep" /\ Step(w, "finish")
    BY <1>3 DEF Probe, Teardown, TeardownFails, SweepTeardown, SweepUnconfirmed, Working
  <2>4. /\ ControlTypeOK'
        /\ \A v \in Workers \ {w} : task'[v] = task[v]
        /\ \/ task'[w] = Idle
           \/ /\ task'[w].kind = task[w].kind /\ task'[w].lease = l
              /\ \/ task'[w].pc = "teardown"
                 \/ TeardownConfirmed(i, l) /\ task'[w].pc \in {"close_hook", "transition", "finish"}
    BY <1>1, <1>2, <2>3, StepEffect, StopEffect DEF TaskPcs, ControlTypeOK
  <2>5. \A v \in Workers : TaskGoesOn(v)
    BY <2>2, <2>4 DEF TaskGoesOn
  <2>6. AcquiresGoOn /\ SlotsKept
    BY <1>2 DEF AcquiresGoOn, SlotsKept, AcquireInv, NoBoxYet
  <2> QED
    BY <1>2, <2>2, <2>4, <2>5, <2>6, FrameStep
<1>4. CASE \/ CloseHook(w) \/ Lose(w)
           \/ SettleFirst(w) /\ task[w].kind \in {"reap", "crash"}
           \/ SettleRelease(w) \/ SweepRefused(w)
  <2>1. box' = box /\ \A j \in Instances : \A k \in LeaseIds : k \in evidence'[j] => k \in evidence[j]
    <3>1. /\ box' = box
          /\ evidence' = evidence \/ evidence' = [evidence EXCEPT ![i] = evidence[i] \ {l}]
      BY <1>4 DEF CloseHook, Lose, SettleFirst, SettleRelease, SweepRefused, ForgetLease,
         worldVars, localVars
    <3>2. CASE evidence' = [evidence EXCEPT ![i] = evidence[i] \ {l}]
      <4>1. \A j \in Instances : evidence'[j] \subseteq evidence[j]
        BY <3>2 DEF FleetTypeOK
      <4> QED
        BY <3>1, <4>1
    <3> QED
      BY <3>1, <3>2
  <2>2. \/ Stop(w)
        \/ Step(w, "transition") /\ task[w].pc = "close_hook"
        \/ Step(w, "revoked") /\ task[w].pc = "won"
    BY <1>4 DEF CloseHook, Lose, SettleFirst, SettleRelease, SweepRefused, Working
  <2>3. task[w].pc = "close_hook" => box[l] = "deleted"
    BY <1>1 DEF TaskInv
  <2>4. /\ ControlTypeOK'
        /\ \A v \in Workers \ {w} : task'[v] = task[v]
        /\ \/ task'[w] = Idle
           \/ /\ task'[w].kind = task[w].kind /\ task'[w].lease = l
              /\ \/ task'[w].pc = "transition" /\ task[w].pc = "close_hook"
                 \/ task'[w].pc = "revoked" /\ task[w].pc = "won"
    BY <1>1, <1>2, <2>2, StepEffect, StopEffect DEF TaskPcs, ControlTypeOK
  <2>5. \A v \in Workers : TaskGoesOn(v)
    BY <2>1, <2>3, <2>4 DEF TaskGoesOn
  <2>6. AcquiresGoOn /\ SlotsKept /\ BoxesShrink
    BY <1>2, <2>1 DEF AcquiresGoOn, SlotsKept, AcquireInv, BoxesShrink, NoBoxYet
  <2> QED
    BY <1>2, <2>4, <2>5, <2>6, FrameStep
<1> QED
  BY <1>3, <1>4

(* The death of an instance ends what it was doing and nothing else.          *)
LEMMA CrashInv ==
  ASSUME FleetInv, FleetTypeOK', NEW i \in Instances, Crash(i)
  PROVE  FleetInv'
<1> USE DEF FleetInv
<1>1. UNCHANGED <<ledgerVars, box, slots>>
  BY DEF Crash, worldVars, outputVars
<1>2. \A k \in LeaseIds : acq'[k] = acq[k] \/
        /\ acq'[k].pc = "done" /\ acq'[k].phase = acq[k].phase
        /\ acq'[k].at = acq[k].at /\ acq'[k].tenant = acq[k].tenant
        /\ acq'[k] \in [pc : AcquirePcs, at : Instances \cup {None}, tenant : Tenants \cup {None},
                        phase : {None, "BeforeProvision", "AfterProvision"}]
  <2> SUFFICES ASSUME NEW k \in LeaseIds, acq'[k] # acq[k]
               PROVE  /\ acq'[k].pc = "done" /\ acq'[k].phase = acq[k].phase
                      /\ acq'[k].at = acq[k].at /\ acq'[k].tenant = acq[k].tenant
                      /\ acq'[k] \in [pc : AcquirePcs, at : Instances \cup {None},
                                      tenant : Tenants \cup {None},
                                      phase : {None, "BeforeProvision", "AfterProvision"}]
    OBVIOUS
  <2>1. acq'[k] = [acq[k] EXCEPT !.pc = "done"]
    BY DEF Crash
  <2> QED
    BY <2>1 DEF ControlTypeOK, AcquirePcs
<1>3. \A w \in Workers : task'[w] = task[w] \/ task'[w] = Idle
  BY DEF Crash
<1>4. ControlTypeOK'
  <2>1. DOMAIN acq' = LeaseIds /\ acq' = [k \in LeaseIds |-> acq'[k]]
    BY DEF Crash
  <2>2. \A k \in LeaseIds :
          /\ acq'[k] \in [pc : AcquirePcs, at : Instances \cup {None}, tenant : Tenants \cup {None},
                          phase : {None, "BeforeProvision", "AfterProvision"}]
          /\ acq'[k].pc \notin {"idle", "done"} => acq'[k].at \in Instances /\ acq'[k].tenant \in Tenants
    BY <1>2 DEF ControlTypeOK
  <2>3. /\ Idle \in [kind : {"idle", "sweep"} \cup Terminalizers, at : Instances \cup {None},
                   lease : LeaseIds \cup {None}, pc : TaskPcs]
        /\ Idle.kind = "idle" /\ Idle.pc = "idle"
    BY DEF Idle, TaskPcs
  <2>4. /\ task' = [w \in Workers |-> task'[w]]
        /\ \A w \in Workers :
             /\ task'[w] \in [kind : {"idle", "sweep"} \cup Terminalizers, at : Instances \cup {None},
                              lease : LeaseIds \cup {None}, pc : TaskPcs]
             /\ task'[w].kind = "idle" <=> task'[w].pc = "idle"
             /\ task'[w].kind # "idle" => task'[w].at \in Instances /\ task'[w].lease \in LeaseIds
             /\ task'[w].kind = "sweep" => task'[w].pc \in {"teardown", "finish"}
             /\ task'[w].pc = "finish" => task'[w].kind = "sweep"
    BY <1>3, <2>3 DEF Crash, ControlTypeOK
  <2> QED
    BY <2>1, <2>2, <2>4 DEF ControlTypeOK
<1>5. BoxesShrink
  BY <1>1 DEF BoxesShrink, Crash, FleetTypeOK
<1>6. AcquiresGoOn
  BY <1>2 DEF AcquiresGoOn, NoBoxYet, AcquireInv, RollbackPcs
<1>7. SlotsKept
  BY <1>1, <1>2 DEF SlotsKept, AcquireInv
<1>8. \A w \in Workers : TaskGoesOn(w)
  BY <1>3 DEF TaskGoesOn
<1> QED
  BY <1>1, <1>4, <1>5, <1>6, <1>7, <1>8, FrameStep

(* The clock, restarts, suspensions and dying boxes change nothing a task or  *)
(* an acquire relies on.                                                      *)
LEMMA EnvironmentInv ==
  ASSUME FleetInv, FleetTypeOK',
         \/ Tick \/ \E i \in Instances : Restart(i)
         \/ \E t \in Tenants, i \in Instances : Suspend(t, i) \/ Unsuspend(t, i)
         \/ \E l \in LeaseIds : BoxDies(l)
  PROVE  FleetInv'
<1> USE DEF FleetInv
<1>1. UNCHANGED <<ledgerVars, evidence, slots, acq, task>>
  BY DEF Tick, Restart, Suspend, Unsuspend, BoxDies, localVars, outputVars
<1>2. \A k \in LeaseIds : box'[k] = box[k] \/ (box[k] = "live" /\ box'[k] = "dead")
  BY DEF Tick, Restart, Suspend, Unsuspend, BoxDies, worldVars, FleetTypeOK
<1>3. ControlTypeOK'
  BY <1>1 DEF ControlTypeOK
<1>4. BoxesShrink /\ AcquiresGoOn /\ SlotsKept /\ \A w \in Workers : TaskGoesOn(w)
  BY <1>1, <1>2 DEF BoxesShrink, AcquiresGoOn, SlotsKept, TaskGoesOn, AcquireInv, NoBoxYet
<1> QED
  BY <1>1, <1>3, <1>4, FrameStep


--------------------------------------------------------------------------------
(* Steps that make a box *)

(* Only an acquire whose row is Pending makes a box, so no task works on the  *)
(* lease yet but a sweep that cannot name the box.                            *)
LEMMA ProvisionInv ==
  ASSUME FleetInv, FleetTypeOK', NEW l \in LeaseIds, Provision(l) \/ ProvisionFails(l)
  PROVE  FleetInv'
<1> USE DEF FleetInv
<1>1. /\ acq[l].pc = "minted" /\ acq[l].at \in Instances
      /\ UNCHANGED <<ledgerVars, records, claims, slots, task>>
  BY DEF Provision, ProvisionFails, Acquiring, ControlTypeOK, outputVars, ledgerVars
<1>2. /\ ControlTypeOK'
      /\ \A k \in LeaseIds \ {l} : acq'[k] = acq[k]
      /\ \/ acq'[l].pc = "provisioned" /\ acq'[l].phase = acq[l].phase
         \/ acq'[l].pc = "claim" /\ acq'[l].phase = "AfterProvision"
  BY <1>1, ProceedEffect, RollBackEffect DEF Provision, ProvisionFails, AcquirePcs
<1>3. /\ IsPending(l) /\ acq[l].phase = None /\ NoBoxYet(l) /\ ~NoBoxYet(l)'
  BY <1>1, <1>2 DEF AcquireInv, RollbackPcs, NoBoxYet, None
<1>4. /\ \A k \in LeaseIds \ {l} : box'[k] = box[k]
      /\ \A j \in Instances : \A k \in LeaseIds \ {l} : k \in evidence'[j] => k \in evidence[j]
  <2>1. \A k \in LeaseIds \ {l} : box'[k] = box[k]
    BY DEF Provision, ProvisionFails, FleetTypeOK
  <2>2. CASE evidence' = evidence
    BY <2>1, <2>2
  <2>3. CASE evidence' = [evidence EXCEPT ![acq[l].at] = evidence[acq[l].at] \cup {l}]
    <3>1. \A j \in Instances : evidence'[j] \subseteq evidence[j] \cup {l}
      BY <2>3 DEF FleetTypeOK
    <3> QED
      BY <2>1, <3>1
  <2> QED
    BY <2>2, <2>3 DEF Provision, ProvisionFails, localVars
<1>5. LedgerInv'
  BY <1>1, LedgerInvStep
<1>6. AcquireInv'
  BY <1>1, <1>2, <1>3 DEF AcquireInv, IsPending, RollbackPcs, None
<1>7. BoxInv'
  BY <1>1, <1>2, <1>3, <1>4 DEF BoxInv, NoBoxYet
<1>8. TaskInv'
  <2> SUFFICES ASSUME NEW w \in Workers, NEW k \in LeaseIds, task[w].lease = k
               PROVE  /\ task[w].kind \in Terminalizers =>
                           k \in DOMAIN records /\ records[k].state # "Pending"
                      /\ task[w].pc \in {"close_hook", "transition"} => box'[k] = "deleted"
                      /\ task[w].pc \in {"won", "revoked"} =>
                           records[k].state \in Terminal /\ slots[k].terminal = 0
                      /\ task[w].kind = "sweep" =>
                           /\ k \in claims \/ k \notin DOMAIN records
                           /\ acq'[k].pc \notin {"idle", "checked"}
                      /\ task[w].pc = "finish" => box'[k] = "deleted" /\ ~NoBoxYet(k)'
    BY <1>1 DEF TaskInv
  <2>1. CASE k # l
    BY <1>2, <1>4, <2>1 DEF TaskInv, NoBoxYet
  <2>2. CASE k = l
    <3>1. task[w].kind \notin Terminalizers
      BY <1>3, <2>2 DEF TaskInv, IsPending
    <3>2. task[w].pc \notin {"close_hook", "transition", "won", "revoked"}
      BY <3>1 DEF ControlTypeOK, Terminalizers
    <3>3. task[w].pc # "finish"
      BY <1>3, <2>2 DEF TaskInv
    <3> QED
      BY <1>2, <2>2, <3>1, <3>2, <3>3 DEF TaskInv
  <2> QED
    BY <2>1, <2>2
<1>9. NoUnownedBox'
  BY <1>1, <1>3, <1>4 DEF NoUnownedBox, IsActive, IsPending
<1>10. OneWinner' /\ SlotFreedOnce'
  BY <1>1 DEF OneWinner, SlotFreedOnce
<1> QED
  BY <1>2, <1>5, <1>6, <1>7, <1>8, <1>9, <1>10

--------------------------------------------------------------------------------
(* Steps that write the ledger *)

(* Whoever is at work on a lease as a terminalizer has a row that was Held.   *)
LEMMA WinnersAreTerminalizers ==
  ASSUME ControlTypeOK, NEW w \in Workers,
         task[w].pc \in {"close_hook", "transition", "won", "revoked", "emitted"}
  PROVE  task[w].kind \in Terminalizers
  BY DEF ControlTypeOK, Terminalizers

(* A step that changes only the row of a lease that no terminalizer works on, *)
(* and leaves every sweep's lease claimed or gone, keeps what tasks rely on.  *)
LEMMA TasksUndisturbed ==
  ASSUME FleetInv, NEW l \in LeaseIds, UNCHANGED <<task, slots, box>>,
         \A k \in LeaseIds : NoBoxYet(k)' => NoBoxYet(k),
         \A k \in LeaseIds : acq'[k].pc \in {"idle", "checked"} => acq[k].pc \in {"idle", "checked"},
         \A k \in LeaseIds \ {l} : /\ k \in DOMAIN records' <=> k \in DOMAIN records
                                   /\ k \in DOMAIN records => records'[k].state = records[k].state
                                   /\ k \in claims => k \in claims',
         l \notin DOMAIN records \/ records[l].state = "Pending",
         \/ acq[l].pc \in {"idle", "checked"}
         \/ l \notin DOMAIN records'
         \/ l \in claims'
         \/ l \in DOMAIN records /\ l \notin claims
  PROVE  TaskInv' /\ OneWinner'
<1>1. TaskInv'
  <2> SUFFICES ASSUME NEW w \in Workers, NEW k \in LeaseIds, task[w].lease = k
               PROVE  /\ task[w].kind \in Terminalizers =>
                           k \in DOMAIN records' /\ records'[k].state # "Pending"
                      /\ task[w].pc \in {"close_hook", "transition"} => box[k] = "deleted"
                      /\ task[w].pc \in {"won", "revoked"} =>
                           records'[k].state \in Terminal /\ slots[k].terminal = 0
                      /\ task[w].kind = "sweep" =>
                           /\ k \in claims' \/ k \notin DOMAIN records'
                           /\ acq'[k].pc \notin {"idle", "checked"}
                      /\ task[w].pc = "finish" => box[k] = "deleted" /\ ~NoBoxYet(k)'
    BY DEF TaskInv
  <2>1. CASE k # l
    BY <2>1, WinnersAreTerminalizers DEF FleetInv, TaskInv
  <2>2. CASE k = l
    <3>1. task[w].kind \notin Terminalizers
      BY <2>2 DEF FleetInv, TaskInv
    <3>2. task[w].pc \notin {"close_hook", "transition", "won", "revoked"}
      BY <3>1, WinnersAreTerminalizers DEF FleetInv
    <3> QED
      BY <2>2, <3>1, <3>2 DEF FleetInv, TaskInv
  <2> QED
    BY <2>1, <2>2
<1> QED
  BY <1>1 DEF FleetInv, OneWinner


(* try_admit: the row is new, and so is the id.                               *)
LEMMA ReserveInv ==
  ASSUME FleetInv, LedgerInv', FleetTypeOK', NEW l \in LeaseIds, Reserve(l)
  PROVE  FleetInv'
<1> USE DEF FleetInv
<1>1. /\ acq[l].pc = "checked" /\ acq[l].tenant \in Tenants /\ now \in Times
      /\ UNCHANGED <<evidence, box, slots, task>>
  BY DEF Reserve, Acquiring, ControlTypeOK, FleetTypeOK, localVars, worldVars, outputVars
<1>2. PICK gate \in Gates(acq[l].tenant, now) : TryAdmitWithCompute(l, acq[l].tenant, gate, now)
  BY DEF Reserve
<1>3. /\ l \notin DOMAIN records
      /\ DOMAIN records' = DOMAIN records \cup {l}
      /\ records'[l] = PendingRecord(acq[l].tenant, now)
      /\ \A k \in DOMAIN records : records'[k] = records[k]
  BY <1>1, <1>2, AdmitEffect DEF LedgerInv
<1>4. claims' = claims
  BY <1>2 DEF TryAdmitWithCompute
<1>5. records'[l].state = "Pending" /\ records'[l].box_ref = DefaultBoxRef
  BY <1>3 DEF PendingRecord
<1>6. /\ ControlTypeOK'
      /\ acq'[l].pc = "reserved" /\ acq'[l].phase = acq[l].phase
      /\ \A k \in LeaseIds \ {l} : acq'[k] = acq[k]
  BY <1>1, ProceedEffect DEF Reserve, AcquirePcs
<1>7. TaskInv' /\ OneWinner'
  BY <1>1, <1>3, <1>4, <1>6, TasksUndisturbed DEF NoBoxYet
<1>8. AcquireInv'
  BY <1>1, <1>3, <1>5, <1>6 DEF AcquireInv, IsPending, RollbackPcs
<1>9. BoxInv'
  BY <1>1, <1>3, <1>5, <1>6 DEF BoxInv, NoBoxYet
<1>10. NoUnownedBox'
  BY <1>1, <1>3 DEF NoUnownedBox
<1>11. SlotFreedOnce'
  BY <1>1, <1>3 DEF SlotFreedOnce
<1> QED
  BY <1>6, <1>7, <1>8, <1>9, <1>10, <1>11

(* bind_provider_ref: the row keeps its state.                                *)
LEMMA BindStepInv ==
  ASSUME FleetInv, LedgerInv', FleetTypeOK', NEW l \in LeaseIds, Bind(l)
  PROVE  FleetInv'
<1> USE DEF FleetInv
<1>1. acq[l].pc = "provisioned" /\ UNCHANGED <<evidence, box, slots, task>>
  BY DEF Bind, Acquiring, localVars, worldVars, outputVars
<1>2. PICK ref \in ProviderRefs : BindProviderRef(l, ref)
  BY DEF Bind
<1>3. /\ l \in DOMAIN records /\ l \notin claims /\ records[l].state = "Pending"
      /\ claims' = claims
  BY <1>2 DEF BindProviderRef, CanBind
<1>4. /\ DOMAIN records' = DOMAIN records
      /\ \A k \in DOMAIN records : /\ records'[k].state = records[k].state
                                   /\ k # l => records'[k] = records[k]
  BY <1>2, BindEffect DEF LedgerInv
<1>5. /\ ControlTypeOK'
      /\ acq'[l].pc = "bound" /\ acq'[l].phase = acq[l].phase
      /\ \A k \in LeaseIds \ {l} : acq'[k] = acq[k]
  BY <1>1, ProceedEffect DEF Bind, AcquirePcs
<1>6. acq[l].phase = None
  BY <1>1 DEF AcquireInv, RollbackPcs
<1>7. TaskInv' /\ OneWinner'
  BY <1>1, <1>3, <1>4, <1>5, TasksUndisturbed DEF NoBoxYet
<1>8. AcquireInv'
  BY <1>1, <1>3, <1>4, <1>5 DEF AcquireInv, IsPending, RollbackPcs
<1>9. BoxInv'
  BY <1>1, <1>4, <1>5, <1>6 DEF BoxInv, NoBoxYet, None
<1>10. NoUnownedBox'
  BY <1>1, <1>4 DEF NoUnownedBox, IsActive
<1>11. SlotFreedOnce'
  BY <1>1, <1>4 DEF SlotFreedOnce
<1> QED
  BY <1>5, <1>7, <1>8, <1>9, <1>10, <1>11

(* The Held transition: no cleanup works on the row, for it is not claimed.   *)
LEMMA HoldInv ==
  ASSUME FleetInv, LedgerInv', FleetTypeOK', NEW l \in LeaseIds, Hold(l)
  PROVE  FleetInv'
<1> USE DEF FleetInv
<1>1. acq[l].pc = "bound" /\ UNCHANGED <<evidence, box, slots, task>>
  BY DEF Hold, Acquiring, localVars, worldVars, outputVars
<1>2. /\ Transition(l, "Held", records[l].created_at_ms) /\ "Held" \in LeaseState
      /\ records[l] \in LeaseRecord
  BY DEF Hold, LeaseState, LedgerInv, TypeOK, IsMap
<1>3. records[l].created_at_ms \in Times
  BY <1>2 DEF LeaseRecord
<1>4. /\ l \notin claims /\ l \in DOMAIN records
      /\ TransitionIsLegal(records[l].state, "Held")
      /\ DOMAIN records' = DOMAIN records
      /\ records'[l] = ApplyTransition(records[l], "Held", records[l].created_at_ms)
      /\ \A k \in DOMAIN records \ {l} : records'[k] = records[k]
  BY <1>2, <1>3, TransitionEffect DEF LedgerInv
<1>5. records[l].state = "Pending" /\ records'[l].state = "Held" /\ claims' = claims
  BY <1>2, <1>3, <1>4, ApplyTransitionType DEF TransitionIsLegal, Terminal, Transition
<1>6. /\ ControlTypeOK'
      /\ acq'[l].pc = "held" /\ acq'[l].phase = acq[l].phase
      /\ \A k \in LeaseIds \ {l} : acq'[k] = acq[k]
  BY <1>1, ProceedEffect DEF Hold, AcquirePcs
<1>7. acq[l].phase = None
  BY <1>1 DEF AcquireInv, RollbackPcs
<1>8. TaskInv' /\ OneWinner'
  BY <1>1, <1>4, <1>5, <1>6, TasksUndisturbed DEF NoBoxYet
<1>9. AcquireInv'
  BY <1>1, <1>4, <1>5, <1>6, <1>7 DEF AcquireInv, IsPending, RollbackPcs
<1>10. BoxInv'
  BY <1>1, <1>4, <1>6, <1>7 DEF BoxInv, NoBoxYet, None
<1>11. NoUnownedBox'
  BY <1>1, <1>4, <1>5 DEF NoUnownedBox, IsActive
<1>12. SlotFreedOnce'
  BY <1>1, <1>4, <1>5 DEF SlotFreedOnce, Terminal
<1> QED
  BY <1>6, <1>8, <1>9, <1>10, <1>11, <1>12

(* The rollback's claim; a rollback before provisioning skips the teardown,   *)
(* and may, for no box was made.                                              *)
LEMMA RollbackClaimInv ==
  ASSUME FleetInv, LedgerInv', FleetTypeOK', NEW l \in LeaseIds, RollbackClaim(l)
  PROVE  FleetInv'
<1> USE DEF FleetInv
<1>1. /\ acq[l].pc = "claim" /\ UNCHANGED <<evidence, box, slots, task, records>>
      /\ IsPending(l) /\ claims' = claims \cup {l}
  BY DEF RollbackClaim, Acquiring, localVars, worldVars, outputVars, ClaimPendingCleanup, Claimable
<1>2. /\ ControlTypeOK'
      /\ acq'[l].pc \in {"finish", "teardown"} /\ acq'[l].phase = acq[l].phase
      /\ acq'[l].pc = "finish" => acq[l].phase = "BeforeProvision"
      /\ \A k \in LeaseIds \ {l} : acq'[k] = acq[k]
  BY <1>1, ProceedEffect DEF RollbackClaim, AcquirePcs
<1>3. TaskInv' /\ OneWinner'
  BY <1>1, <1>2, TasksUndisturbed DEF NoBoxYet, IsPending
<1>4. AcquireInv'
  BY <1>1, <1>2 DEF AcquireInv, IsPending, RollbackPcs
<1>5. BoxInv'
  BY <1>1, <1>2 DEF BoxInv, NoBoxYet
<1>6. NoUnownedBox' /\ SlotFreedOnce'
  BY <1>1 DEF NoUnownedBox, SlotFreedOnce
<1> QED
  BY <1>2, <1>3, <1>4, <1>5, <1>6

(* What a finished cleanup erases is a Pending row that nobody holds.         *)
LEMMA FinishEffect ==
  ASSUME LedgerInv, NEW l \in LeaseIds, FinishPendingCleanup(l)
  PROVE  /\ IsPending(l)
         /\ DOMAIN records' = DOMAIN records \ {l}
         /\ \A k \in DOMAIN records \ {l} : records'[k] = records[k]
         /\ claims' = claims \ {l}
  BY EraseEffect DEF FinishPendingCleanup, CanFinish, LedgerInv

(* The rollback deletes the row only after the box is gone.                   *)
LEMMA RollbackFinishInv ==
  ASSUME FleetInv, LedgerInv', FleetTypeOK', NEW l \in LeaseIds, RollbackFinish(l)
  PROVE  FleetInv'
<1> USE DEF FleetInv
<1>1. acq[l].pc = "finish" /\ UNCHANGED <<box, slots, task>>
  BY DEF RollbackFinish, Acquiring, worldVars, outputVars
<1>2. /\ IsPending(l)
      /\ DOMAIN records' = DOMAIN records \ {l}
      /\ \A k \in DOMAIN records \ {l} : records'[k] = records[k]
      /\ claims' = claims \ {l}
  BY FinishEffect DEF RollbackFinish
<1>3. \A j \in Instances : \A k \in LeaseIds : k \in evidence'[j] => k \in evidence[j]
  <2>1. \A j \in Instances : evidence'[j] \subseteq evidence[j]
    BY DEF RollbackFinish, FleetTypeOK
  <2> QED
    BY <2>1
<1>4. /\ ControlTypeOK'
      /\ acq'[l].pc = "revoke" /\ acq'[l].phase = acq[l].phase
      /\ \A k \in LeaseIds \ {l} : acq'[k] = acq[k]
  BY <1>1, ProceedEffect DEF RollbackFinish, AcquirePcs
<1>5. TaskInv' /\ OneWinner'
  BY <1>1, <1>2, <1>4, TasksUndisturbed DEF NoBoxYet, IsPending
<1>6. AcquireInv'
  BY <1>1, <1>2, <1>4 DEF AcquireInv, IsPending, RollbackPcs
<1>7. BoxInv'
  BY <1>1, <1>2, <1>3, <1>4 DEF BoxInv, NoBoxYet
<1>8. NoUnownedBox'
  BY <1>1, <1>2 DEF NoUnownedBox, BoxInv, None
<1>9. SlotFreedOnce'
  BY <1>1, <1>2 DEF SlotFreedOnce, IsPending, Terminal
<1> QED
  BY <1>4, <1>5, <1>6, <1>7, <1>8, <1>9

(* The sweep claims every stale row and starts on one of them.                *)
LEMMA StartSweepInv ==
  ASSUME FleetInv, LedgerInv', FleetTypeOK', NEW i \in Instances, NEW l \in LeaseIds,
         StartSweep(i, l)
  PROVE  FleetInv'
<1> USE DEF FleetInv
<1>1. /\ UNCHANGED <<evidence, box, slots, acq, records>>
      /\ claims' = claims \cup StalePending(now) /\ l \in StalePending(now)
      /\ i \in Workers
  BY DEF StartSweep, ClaimStalePendingCleanup, localVars, worldVars, outputVars, Workers
<1>2. l \in claims' /\ IsPending(l)
  BY <1>1 DEF StalePending
<1>3. acq[l].pc \notin {"idle", "checked"}
  BY <1>2 DEF AcquireInv, IsPending
<1>4. /\ ControlTypeOK'
      /\ task'[i] = [kind |-> "sweep", at |-> i, lease |-> l, pc |-> "teardown"]
      /\ \A v \in Workers \ {i} : task'[v] = task[v]
  BY <1>1, BeginEffect DEF StartSweep
<1>5. TaskInv'
  BY <1>1, <1>2, <1>3, <1>4 DEF TaskInv, NoBoxYet, Terminalizers
<1>6. OneWinner'
  BY <1>4 DEF OneWinner
<1>7. AcquireInv' /\ BoxInv' /\ NoUnownedBox' /\ SlotFreedOnce'
  BY <1>1 DEF AcquireInv, BoxInv, NoUnownedBox, SlotFreedOnce, NoBoxYet, IsPending
<1> QED
  BY <1>4, <1>5, <1>6, <1>7

(* The sweep deletes the row only after the box is gone.                      *)
LEMMA SweepFinishInv ==
  ASSUME FleetInv, LedgerInv', FleetTypeOK', NEW w \in Workers, SweepFinish(w)
  PROVE  FleetInv'
<1> USE DEF FleetInv
<1> DEFINE l == task[w].lease
<1>1. /\ task[w].pc = "finish" /\ l \in LeaseIds /\ task[w].at \in Instances
      /\ UNCHANGED <<box, slots, acq>>
  BY DEF SweepFinish, Working, ControlTypeOK, outputVars
<1>2. /\ IsPending(l)
      /\ DOMAIN records' = DOMAIN records \ {l}
      /\ \A k \in DOMAIN records \ {l} : records'[k] = records[k]
      /\ claims' = claims \ {l}
  BY <1>1, FinishEffect DEF SweepFinish
<1>3. \A j \in Instances : \A k \in LeaseIds : k \in evidence'[j] => k \in evidence[j]
  <2>1. \A j \in Instances : evidence'[j] \subseteq evidence[j]
    BY DEF SweepFinish, ForgetLease, FleetTypeOK
  <2> QED
    BY <2>1
<1>4. /\ ControlTypeOK' /\ task'[w] = Idle
      /\ \A v \in Workers \ {w} : task'[v] = task[v]
  BY <1>1, StopEffect DEF SweepFinish
<1>5. box[l] = "deleted" /\ ~NoBoxYet(l)
  BY <1>1 DEF TaskInv
<1> HIDE DEF l
<1>6. TaskInv'
  <2> SUFFICES ASSUME NEW v \in Workers, v # w, NEW k \in LeaseIds, task[v].lease = k
               PROVE  /\ task[v].kind \in Terminalizers =>
                           k \in DOMAIN records' /\ records'[k].state # "Pending"
                      /\ task[v].pc \in {"close_hook", "transition"} => box[k] = "deleted"
                      /\ task[v].pc \in {"won", "revoked"} =>
                           records'[k].state \in Terminal /\ slots[k].terminal = 0
                      /\ task[v].kind = "sweep" =>
                           /\ k \in claims' \/ k \notin DOMAIN records'
                           /\ acq[k].pc \notin {"idle", "checked"}
                      /\ task[v].pc = "finish" => box[k] = "deleted" /\ ~NoBoxYet(k)
    BY <1>1, <1>4 DEF TaskInv, Idle, Terminalizers, NoBoxYet
  <2>1. task[v].kind \in Terminalizers => k # l
    BY <1>2 DEF TaskInv, IsPending
  <2>2. task[v].pc \in {"won", "revoked"} => task[v].kind \in Terminalizers
    BY WinnersAreTerminalizers
  <2> QED
    BY <1>2, <2>1, <2>2 DEF TaskInv
<1>7. OneWinner'
  BY <1>4 DEF OneWinner, Idle
<1>8. AcquireInv'
  BY <1>1, <1>2, <1>5 DEF AcquireInv, IsPending, NoBoxYet
<1>9. BoxInv'
  BY <1>1, <1>2, <1>3 DEF BoxInv, NoBoxYet
<1>10. NoUnownedBox'
  BY <1>1, <1>2, <1>5 DEF NoUnownedBox
<1>11. SlotFreedOnce'
  BY <1>1, <1>2 DEF SlotFreedOnce, IsPending, Terminal
<1> QED
  BY <1>4, <1>6, <1>7, <1>8, <1>9, <1>10, <1>11


(* The terminal transition: the box is gone before the row ends, and since    *)
(* the row was Held until now, nobody has won it before.                      *)
LEMMA WinInv ==
  ASSUME FleetInv, LedgerInv', FleetTypeOK', NEW w \in Workers, Win(w)
  PROVE  FleetInv'
<1> USE DEF FleetInv
<1> DEFINE l == task[w].lease
           to == Target[task[w].kind]
<1>1. /\ task[w].pc = "transition" /\ task[w].kind \in Terminalizers /\ l \in LeaseIds
      /\ now \in Times /\ UNCHANGED <<evidence, box, slots, acq>>
  BY WinnersAreTerminalizers DEF Win, Working, ControlTypeOK, FleetTypeOK, localVars, worldVars,
     outputVars
<1>2. to \in Terminal /\ to \in LeaseState /\ to # "Held"
  BY <1>1 DEF Target, Terminalizers, Terminal, LeaseState
<1>3. Transition(l, to, now)
  BY DEF Win
<1> HIDE DEF to
<1>4. /\ l \notin claims /\ l \in DOMAIN records
      /\ TransitionIsLegal(records[l].state, to)
      /\ DOMAIN records' = DOMAIN records
      /\ records'[l] = ApplyTransition(records[l], to, now)
      /\ \A k \in DOMAIN records \ {l} : records'[k] = records[k]
  BY <1>1, <1>2, <1>3, TransitionEffect DEF LedgerInv
<1>5. records[l].state = "Held" /\ records[l] \in LeaseRecord /\ claims' = claims
  BY <1>2, <1>3, <1>4 DEF TransitionIsLegal, Transition, LedgerInv, TypeOK, IsMap
<1>6. records'[l].state \in Terminal /\ records'[l].box_ref = records[l].box_ref
  <2>1. records'[l].state = to
    BY <1>1, <1>2, <1>4, <1>5, ApplyTransitionType
  <2>2. records'[l].box_ref = records[l].box_ref
    BY <1>4, <1>5 DEF ApplyTransition, LeaseRecord
  <2> QED
    BY <1>2, <2>1, <2>2
<1>7. /\ ControlTypeOK'
      /\ task'[w].kind = task[w].kind /\ task'[w].lease = l /\ task'[w].pc = "won"
      /\ \A v \in Workers \ {w} : task'[v] = task[v]
  BY <1>1, StepEffect DEF Win, TaskPcs, Terminalizers
<1>8. box[l] = "deleted" /\ slots[l].terminal = 0
  <2>1. box[l] = "deleted"
    BY <1>1 DEF TaskInv
  <2>2. slots[l].terminal \in Nat /\ slots[l].terminal <= 1 /\ slots[l].terminal # 1
    BY <1>1, <1>5 DEF SlotFreedOnce, FleetTypeOK, Terminal
  <2> QED
    BY <2>1, <2>2
<1> HIDE DEF l
<1>9. \A v \in Workers : task[v].lease = l => task[v].pc \notin {"won", "revoked"}
  BY <1>1, <1>5 DEF TaskInv, Terminal
<1>10. TaskInv'
  <2> SUFFICES ASSUME NEW v \in Workers, NEW k \in LeaseIds, task'[v].lease = k
               PROVE  /\ task'[v].kind \in Terminalizers =>
                           k \in DOMAIN records' /\ records'[k].state # "Pending"
                      /\ task'[v].pc \in {"close_hook", "transition"} => box[k] = "deleted"
                      /\ task'[v].pc \in {"won", "revoked"} =>
                           records'[k].state \in Terminal /\ slots[k].terminal = 0
                      /\ task'[v].kind = "sweep" =>
                           /\ k \in claims' \/ k \notin DOMAIN records'
                           /\ acq[k].pc \notin {"idle", "checked"}
                      /\ task'[v].pc = "finish" => box[k] = "deleted" /\ ~NoBoxYet(k)
    BY <1>1 DEF TaskInv, NoBoxYet
  <2>1. CASE v = w
    BY <1>1, <1>4, <1>6, <1>7, <1>8, <2>1 DEF Terminal, Terminalizers
  <2>2. CASE v # w /\ k = l
    BY <1>4, <1>5, <1>6, <1>7, <1>9, <2>2 DEF TaskInv, Terminal
  <2>3. CASE v # w /\ k # l
    BY <1>4, <1>5, <1>7, <2>3, WinnersAreTerminalizers DEF TaskInv
  <2> QED
    BY <2>1, <2>2, <2>3
<1>11. OneWinner'
  BY <1>7, <1>9 DEF OneWinner
<1>12. AcquireInv'
  <2>1. acq[l].pc \in {"held", "emitted", "done"}
    BY <1>1, <1>4, <1>5 DEF AcquireInv
  <2> QED
    BY <1>1, <1>4, <2>1 DEF AcquireInv, IsPending
<1>13. BoxInv'
  BY <1>1, <1>4, <1>6 DEF BoxInv, NoBoxYet
<1>14. NoUnownedBox'
  BY <1>1, <1>4, <1>8 DEF NoUnownedBox
<1>15. SlotFreedOnce'
  BY <1>1, <1>4, <1>6, <1>8 DEF SlotFreedOnce
<1> QED
  BY <1>7, <1>10, <1>11, <1>12, <1>13, <1>14, <1>15

(* The winner frees the slot: close, cancel and kill at once, reap and crash  *)
(* after the flush.  It has won, so the row has ended; it is the only winner, *)
(* so the slot was not freed.                                                 *)
LEMMA EmitInv ==
  ASSUME FleetInv, LedgerInv', FleetTypeOK', NEW w \in Workers,
         \/ SettleFirst(w) /\ task[w].kind \notin {"reap", "crash"}
         \/ SettleReclaim(w)
  PROVE  FleetInv'
<1> USE DEF FleetInv
<1> DEFINE l == task[w].lease
           i == task[w].at
<1>1. /\ task[w].pc \in {"won", "revoked"} /\ l \in LeaseIds /\ i \in Instances
      /\ UNCHANGED <<ledgerVars, records, claims, box, acq>>
  BY DEF SettleFirst, SettleReclaim, Working, ControlTypeOK, worldVars, ledgerVars
<1>2. /\ slots'[l].terminal = slots[l].terminal + 1
      /\ slots'[l].acquired = slots[l].acquired
      /\ \A k \in LeaseIds \ {l} : slots'[k] = slots[k]
  <2>1. EmitTerminal(l)
    BY DEF SettleFirst, SettleReclaim
  <2> QED
    BY <1>1, <2>1, SettleTypes
<1>3. \A j \in Instances : \A k \in LeaseIds : k \in evidence'[j] => k \in evidence[j]
  <2>1. evidence' = evidence \/ evidence' = [evidence EXCEPT ![i] = evidence[i] \ {l}]
    BY DEF SettleFirst, SettleReclaim, ForgetLease
  <2>2. CASE evidence' = evidence
    BY <2>2
  <2>3. CASE evidence' = [evidence EXCEPT ![i] = evidence[i] \ {l}]
    <3>1. \A j \in Instances : evidence'[j] \subseteq evidence[j]
      BY <2>3 DEF FleetTypeOK
    <3> QED
      BY <3>1
  <2> QED
    BY <2>1, <2>2, <2>3
<1>4. Stop(w) \/ Step(w, "emitted")
  BY DEF SettleFirst, SettleReclaim
<1>5. /\ ControlTypeOK'
      /\ \A v \in Workers \ {w} : task'[v] = task[v]
      /\ \/ task'[w] = Idle
         \/ task'[w].pc = "emitted" /\ task'[w].kind = task[w].kind /\ task'[w].lease = l
  <2>1. task[w].kind # "sweep"
    BY <1>1, WinnersAreTerminalizers DEF Terminalizers
  <2> QED
    BY <1>1, <1>4, <2>1, StopEffect, StepEffect DEF TaskPcs
<1>6. records[l].state \in Terminal /\ slots[l].terminal = 0 /\ task[w].kind \in Terminalizers
  BY <1>1, WinnersAreTerminalizers DEF TaskInv
<1>7. l \in DOMAIN records
  BY <1>1, <1>6 DEF TaskInv
<1>8. \A v \in Workers \ {w} : task[v].lease = l => task[v].pc \notin {"won", "revoked"}
  BY <1>1 DEF OneWinner
<1> HIDE DEF l, i
<1>9. TaskInv'
  <2> SUFFICES ASSUME NEW v \in Workers, NEW k \in LeaseIds, task'[v].lease = k
               PROVE  /\ task'[v].kind \in Terminalizers =>
                           k \in DOMAIN records /\ records[k].state # "Pending"
                      /\ task'[v].pc \in {"close_hook", "transition"} => box[k] = "deleted"
                      /\ task'[v].pc \in {"won", "revoked"} =>
                           records[k].state \in Terminal /\ slots'[k].terminal = 0
                      /\ task'[v].kind = "sweep" =>
                           /\ k \in claims \/ k \notin DOMAIN records
                           /\ acq[k].pc \notin {"idle", "checked"}
                      /\ task'[v].pc = "finish" => box[k] = "deleted" /\ ~NoBoxYet(k)
    BY <1>1 DEF TaskInv, NoBoxYet
  <2>1. CASE v = w
    BY <1>5, <1>6, <1>7, <2>1 DEF Idle, Terminalizers, Terminal
  <2>2. CASE v # w
    BY <1>2, <1>5, <1>8, <2>2 DEF TaskInv
  <2> QED
    BY <2>1, <2>2
<1>10. OneWinner'
  BY <1>5 DEF OneWinner, Idle
<1>11. AcquireInv'
  BY <1>1, <1>2 DEF AcquireInv, IsPending
<1>12. BoxInv' /\ NoUnownedBox'
  BY <1>1, <1>3 DEF BoxInv, NoUnownedBox, NoBoxYet
<1>13. SlotFreedOnce'
  BY <1>1, <1>2, <1>6, <1>7 DEF SlotFreedOnce
<1> QED
  BY <1>5, <1>9, <1>10, <1>11, <1>12, <1>13

--------------------------------------------------------------------------------
(* The theorems *)

(* The fleet starts with nothing acquired and nothing at work.                *)
LEMMA FleetInvInit == Init => FleetInv
<1> SUFFICES ASSUME Init PROVE FleetInv
  OBVIOUS
<1> USE DEF Init
<1>1. LedgerInv /\ records = EmptyMap /\ claims = {}
  BY LedgerInvInit DEF LedgerInit
<1>2. DOMAIN records = {}
  BY <1>1 DEF EmptyMap
<1>3. FleetTypeOK
  <2>1. 0 \in Times /\ 0 \in 0..MaxCrashes
    BY FleetAssumption
  <2>2. hooks \in [Instances -> [LeaseIds -> {None, "open", "closed"}]]
    OBVIOUS
  <2>3. slots \in [LeaseIds -> [acquired : 0..1, terminal : Nat]]
    OBVIOUS
  <2> QED
    BY <2>1, <2>2, <2>3 DEF FleetTypeOK
<1>4. \A l \in LeaseIds : acq[l].pc = "idle" /\ acq[l].phase = None
  OBVIOUS
<1>5. \A w \in Workers : task[w].kind = "idle" /\ task[w].pc = "idle"
  BY DEF Idle
<1>6. ControlTypeOK
  <2>1. acq \in [LeaseIds -> [pc : AcquirePcs, at : Instances \cup {None},
                              tenant : Tenants \cup {None},
                              phase : {None, "BeforeProvision", "AfterProvision"}]]
    BY DEF AcquirePcs
  <2>2. task \in [Workers -> [kind : {"idle", "sweep"} \cup Terminalizers,
                              at : Instances \cup {None}, lease : LeaseIds \cup {None},
                              pc : TaskPcs]]
    BY DEF Idle, TaskPcs
  <2> QED
    BY <1>4, <1>5, <2>1, <2>2 DEF ControlTypeOK
<1>7. AcquireInv /\ BoxInv
  BY <1>2, <1>4 DEF AcquireInv, BoxInv
<1>8. TaskInv /\ OneWinner
  BY <1>5 DEF TaskInv, OneWinner, Terminalizers
<1>9. NoUnownedBox /\ SlotFreedOnce
  BY DEF NoUnownedBox, SlotFreedOnce, None
<1> QED
  BY <1>1, <1>3, <1>6, <1>7, <1>8, <1>9 DEF FleetInv

(* Every step of the fleet preserves the invariant.                           *)
LEMMA FleetInvStep == FleetInv /\ [Next]_vars => FleetInv'
<1> SUFFICES ASSUME FleetInv, [Next]_vars PROVE FleetInv'
  OBVIOUS
<1>1. CASE UNCHANGED vars
  <2>1. LedgerInv'
    BY <1>1, LedgerInvStep DEF FleetInv, vars
  <2> QED
    BY <1>1, <2>1 DEF FleetInv, vars, ledgerVars, localVars, worldVars, outputVars, fleetVars,
       FleetTypeOK, ControlTypeOK, AcquireInv, BoxInv, NoBoxYet, TaskInv, OneWinner, NoUnownedBox,
       SlotFreedOnce, IsPending
<1>2. CASE Next
  <2>1. LedgerInv'
    BY <1>2, FleetDrivesLedger, LedgerInvStep DEF FleetInv, LedgerInv
  <2>2. FleetTypeOK'
    BY <1>2, FleetTypes DEF FleetInv
  <2>3. ASSUME NEW l \in LeaseIds, Acquire(l) PROVE FleetInv'
    BY <2>1, <2>2, <2>3, CheckSuspensionInv, AcquireQuietInv, RollbackTeardownInv, ProvisionInv,
       ReserveInv, BindStepInv, HoldInv, RollbackClaimInv, RollbackFinishInv DEF Acquire
  <2>4. ASSUME NEW w \in Workers, Work(w) PROVE FleetInv'
    BY <2>1, <2>2, <2>4, TaskQuietInv, WinInv, EmitInv, SweepFinishInv DEF Work
  <2>5. ASSUME NEW w \in Requests, Request(w) PROVE FleetInv'
    <3>1. PICK i \in Instances, l \in LeaseIds :
            StartCrashSweep(w, i, l) \/ StartRelease(w, i, l) \/ StartKill(w, i, l)
      BY <2>5 DEF Request
    <3>2. PICK kind \in Terminalizers, pc \in {"probe", "teardown"} : Begin(w, kind, i, l, pc)
      BY <3>1 DEF StartCrashSweep, StartRelease, StartKill, Terminalizers
    <3>3. /\ Held(l)
          /\ UNCHANGED <<ledgerVars, localVars, worldVars, outputVars, fleetVars, acq>>
      BY <3>1 DEF StartCrashSweep, StartRelease, StartKill
    <3>4. w \in Workers
      BY DEF Workers
    <3> QED
      BY <2>2, <3>2, <3>3, <3>4, StartInv
  <2>6. ASSUME NEW i \in Instances, NEW l \in LeaseIds, StartReap(i, l) PROVE FleetInv'
    <3>1. i \in Workers /\ "reap" \in Terminalizers
      BY DEF Workers, Terminalizers
    <3> QED
      BY <2>2, <2>6, <3>1, StartInv DEF StartReap
  <2>7. ASSUME NEW i \in Instances, NEW l \in LeaseIds, StartSweep(i, l) PROVE FleetInv'
    BY <2>1, <2>2, <2>7, StartSweepInv
  <2>8. ASSUME NEW i \in Instances, Crash(i) PROVE FleetInv'
    BY <2>2, <2>8, CrashInv
  <2> QED
    BY <1>2, <2>2, <2>3, <2>4, <2>5, <2>6, <2>7, <2>8, EnvironmentInv DEF Next
<1> QED
  BY <1>1, <1>2

(* The invariant holds of every fleet.                                        *)
THEOREM FleetInvariance == Spec => []FleetInv
  BY FleetInvInit, FleetInvStep, PTL DEF Spec

(* The tables of every instance and the acquires' slot events stay well       *)
(* formed, for any number of instances and whatever dies.                     *)
THEOREM FleetTypeCorrect == Spec => []FleetTypeOK
<1>1. FleetInv => FleetTypeOK
  BY DEF FleetInv
<1> QED
  BY <1>1, FleetInvariance, PTL

(* Every box at the provider belongs to a Pending or Held row, in every       *)
(* fleet: rollback, sweep and terminalizers all confirm the teardown first.   *)
THEOREM BoxesAreOwned == Spec => []NoUnownedBox
<1>1. FleetInv => NoUnownedBox
  BY DEF FleetInv
<1> QED
  BY <1>1, FleetInvariance, PTL

(* Every lease frees its slot at most once, and only after its row ended: of  *)
(* all the tasks racing for a row, one wins.                                  *)
THEOREM SlotsFreedOnce == Spec => []SlotFreedOnce
<1>1. FleetInv => SlotFreedOnce
  BY DEF FleetInv
<1> QED
  BY <1>1, FleetInvariance, PTL

(* No cleanup is ever at work on a lease that is Held: a rollback leads there *)
(* only from a row that was not, and a sweep's row stays claimed or is gone.  *)
THEOREM CleanupsAreFenced == Spec => []CleanupFence
<1>1. FleetInv => CleanupFence
  <2> SUFFICES ASSUME FleetInv, NEW l \in LeaseIds, Cleaning(l), Held(l) PROVE FALSE
    BY DEF CleanupFence
  <2>1. acq[l].pc \notin {"teardown", "finish"}
    BY DEF FleetInv, AcquireInv, Held
  <2>2. ASSUME NEW w \in Workers, task[w].kind = "sweep", task[w].lease = l PROVE FALSE
    <3>1. l \in claims
      BY <2>2 DEF FleetInv, TaskInv, Held
    <3> QED
      BY <3>1 DEF FleetInv, LedgerInv, ClaimsArePending, IsPending, Held
  <2> QED
    BY <2>1, <2>2 DEF Cleaning
<1> QED
  BY <1>1, FleetInvariance, PTL

(* The fleet implements the ledger: whatever its instances do, crash or race, *)
(* the shared ledger goes through a behaviour of its own specification.       *)
THEOREM FleetImplementsLedger == Spec => LedgerSpec
<1>1. Init => LedgerInit
  BY DEF Init
<1>2. FleetInv /\ [Next]_vars => [LedgerNext]_ledgerVars
  <2> SUFFICES ASSUME FleetInv, [Next]_vars PROVE [LedgerNext]_ledgerVars
    OBVIOUS
  <2>1. CASE Next
    BY <2>1, FleetDrivesLedger DEF FleetInv, LedgerInv
  <2>2. CASE UNCHANGED vars
    BY <2>2 DEF vars
  <2> QED
    BY <2>1, <2>2
<1> QED
  BY <1>1, <1>2, FleetInvariance, PTL DEF Spec, LedgerSpec

(* So what is proved of the ledger holds of the ledger of every fleet: caps,  *)
(* compute ceilings, and that nothing slips between a claim and its finish.   *)
THEOREM FleetKeepsLedgerPromises ==
  Spec => []ConcurrencyCap /\ []ComputeCeiling /\ []NoOrphans /\ ClaimedRowsFrozen
  BY FleetImplementsLedger, CapNeverExceeded, CeilingNeverExceeded, SideTablesFollowRows,
     ClaimFreezesRow, PTL

--------------------------------------------------------------------------------
(* The end of a lease is completed: its winner goes on to the last step *)

(* No row ends in this step, and none that is Held leaves Held. *)
RowsHold ==
  \A l \in LeaseIds :
    /\ l \in DOMAIN records' /\ records'[l].state \in Terminal
         => l \in DOMAIN records /\ records'[l].state = records[l].state
    /\ Held(l) => Held(l)'

(* So does a step that does not touch the rows. *)
LEMMA UnchangedRowsHold == ASSUME UNCHANGED records PROVE RowsHold
  BY DEF RowsHold, Held

(* The acquire that takes the row out of Pending makes it Held. *)
LEMMA HoldIsHeld ==
  ASSUME FleetInv, NEW l \in LeaseIds, Hold(l)
  PROVE  /\ DOMAIN records' = DOMAIN records /\ Held(l)'
         /\ \A k \in DOMAIN records \ {l} : records'[k] = records[k]
<1> USE DEF FleetInv
<1>1. l \in DOMAIN records /\ Transition(l, "Held", records[l].created_at_ms) /\ "Held" \in LeaseState
  BY DEF Hold, LeaseState
<1>2. records[l] \in LeaseRecord /\ records[l].created_at_ms \in Times
  BY <1>1 DEF LedgerInv, TypeOK, IsMap, LeaseRecord
<1>3. /\ DOMAIN records' = DOMAIN records
      /\ records'[l] = ApplyTransition(records[l], "Held", records[l].created_at_ms)
      /\ \A k \in DOMAIN records \ {l} : records'[k] = records[k]
  BY <1>1, <1>2, TransitionEffect DEF LedgerInv
<1>4. records'[l].state = "Held"
  BY <1>1, <1>2, <1>3, ApplyTransitionType
<1> QED
  BY <1>1, <1>3, <1>4 DEF Held

(* Every step but a win keeps ended rows ended and Held rows Held. *)
LEMMA OnlyWinnersEnd ==
  ASSUME FleetInv, Next, \A w \in Workers : ~Win(w)
  PROVE  RowsHold
<1> USE DEF FleetInv
<1>1. ASSUME NEW l \in LeaseIds, Reserve(l) PROVE RowsHold
  <2>1. acq[l].tenant \in Tenants /\ now \in Times
    BY <1>1 DEF Reserve, Acquiring, ControlTypeOK, FleetTypeOK
  <2>2. PICK gate \in Gates(acq[l].tenant, now) : TryAdmitWithCompute(l, acq[l].tenant, gate, now)
    BY <1>1 DEF Reserve
  <2>3. /\ DOMAIN records' = DOMAIN records \cup {l} /\ l \notin DOMAIN records
        /\ records'[l] = PendingRecord(acq[l].tenant, now)
        /\ \A k \in DOMAIN records : records'[k] = records[k]
    BY <2>1, <2>2, AdmitEffect DEF LedgerInv
  <2>4. records'[l].state = "Pending"
    BY <2>3 DEF PendingRecord
  <2> QED
    BY <2>3, <2>4 DEF RowsHold, Held, Terminal
<1>2. ASSUME NEW l \in LeaseIds, Bind(l) PROVE RowsHold
  <2>1. PICK ref \in ProviderRefs : BindProviderRef(l, ref)
    BY <1>2 DEF Bind
  <2>2. DOMAIN records' = DOMAIN records /\ \A k \in DOMAIN records : records'[k].state = records[k].state
    BY <2>1, BindEffect DEF LedgerInv
  <2> QED
    BY <2>2 DEF RowsHold, Held
<1>3. ASSUME NEW l \in LeaseIds, Hold(l) PROVE RowsHold
  BY <1>3, HoldIsHeld DEF RowsHold, Held, Terminal
<1>4. ASSUME NEW l \in LeaseIds, FinishPendingCleanup(l) PROVE RowsHold
  <2>1. /\ IsPending(l) /\ DOMAIN records' = DOMAIN records \ {l}
        /\ \A k \in DOMAIN records \ {l} : records'[k] = records[k]
    BY <1>4, FinishEffect
  <2> QED
    BY <2>1 DEF RowsHold, Held, IsPending
<1>5. ASSUME NEW l \in LeaseIds, Acquire(l) PROVE RowsHold
  <2>1. CASE RollbackClaim(l)
    BY <2>1, UnchangedRowsHold DEF RollbackClaim, ClaimPendingCleanup
  <2>2. CASE RollbackFinish(l)
    BY <2>2, <1>4 DEF RollbackFinish
  <2>3. CASE UNCHANGED ledgerVars
    BY <2>3, UnchangedRowsHold DEF ledgerVars
  <2> QED
    BY <1>1, <1>2, <1>3, <1>5, <2>1, <2>2, <2>3 DEF Acquire, CheckSuspension, Mint, MintFails, Provision, ProvisionFails,
       LedgerRefuses, EmitAcquired, RegisterHook, RollbackRefused, RollbackTeardown, RollbackRevoke
<1>6. ASSUME NEW w \in Workers, Work(w) PROVE RowsHold
  <2>1. CASE SweepFinish(w)
    <3>1. task[w].lease \in LeaseIds
      BY <2>1 DEF SweepFinish, Working, ControlTypeOK
    <3> QED
      BY <2>1, <3>1, <1>4 DEF SweepFinish
  <2>2. CASE UNCHANGED ledgerVars
    BY <2>2, UnchangedRowsHold DEF ledgerVars
  <2> QED
    BY <1>6, <2>1, <2>2 DEF Work, Probe, Teardown, TeardownFails, CloseHook, Lose, SettleFirst, SettleRelease,
       SettleReclaim, SweepTeardown, SweepUnconfirmed, SweepRefused
<1>7. ASSUME NEW i \in Instances, NEW l \in LeaseIds, StartSweep(i, l) PROVE RowsHold
  BY <1>7, UnchangedRowsHold DEF StartSweep, ClaimStalePendingCleanup
<1>8. CASE UNCHANGED ledgerVars
  BY <1>8, UnchangedRowsHold DEF ledgerVars
<1>9. ASSUME NEW w \in Requests, Request(w) PROVE UNCHANGED ledgerVars
  BY <1>9 DEF Request, StartCrashSweep, StartRelease, StartKill
<1> QED
  BY <1>5, <1>6, <1>7, <1>8, <1>9 DEF Next, BoxDies, StartReap, Suspend, Unsuspend, Crash, Restart, Tick

(* The winner of a row ends it. *)
LEMMA WinEffect ==
  ASSUME FleetInv, NEW w \in Workers, Win(w)
  PROVE  /\ task[w].lease \in LeaseIds /\ task[w].kind \in Terminalizers /\ task[w].pc = "transition"
         /\ Held(task[w].lease)
         /\ DOMAIN records' = DOMAIN records
         /\ records'[task[w].lease].state = Target[task[w].kind]
         /\ \A k \in DOMAIN records \ {task[w].lease} : records'[k] = records[k]
         /\ task'[w].kind = task[w].kind /\ task'[w].lease = task[w].lease /\ task'[w].pc = "won"
         /\ \A v \in Workers \ {w} : task'[v] = task[v]
<1> USE DEF FleetInv
<1> DEFINE l == task[w].lease
           to == Target[task[w].kind]
<1>1. /\ task[w].pc = "transition" /\ task[w].kind \in Terminalizers /\ l \in LeaseIds
      /\ now \in Times /\ UNCHANGED acq
  BY WinnersAreTerminalizers DEF Win, Working, ControlTypeOK, FleetTypeOK
<1>2. to \in Terminal /\ to \in LeaseState
  BY <1>1 DEF Target, Terminalizers, Terminal, LeaseState
<1>3. Transition(l, to, now)
  BY DEF Win
<1> HIDE DEF to
<1>4. /\ l \in DOMAIN records /\ TransitionIsLegal(records[l].state, to)
      /\ DOMAIN records' = DOMAIN records
      /\ records'[l] = ApplyTransition(records[l], to, now)
      /\ \A k \in DOMAIN records \ {l} : records'[k] = records[k]
  BY <1>1, <1>2, <1>3, TransitionEffect DEF LedgerInv
<1>5. records[l].state # "Pending"
  BY <1>1 DEF TaskInv
<1>6. records[l].state = "Held" /\ records[l] \in LeaseRecord
  BY <1>2, <1>4, <1>5 DEF TransitionIsLegal, LedgerInv, TypeOK, IsMap
<1>7. records'[l].state = to
  BY <1>1, <1>2, <1>4, <1>6, ApplyTransitionType
<1>8. /\ task'[w].kind = task[w].kind /\ task'[w].lease = l /\ task'[w].pc = "won"
      /\ \A v \in Workers \ {w} : task'[v] = task[v]
  BY <1>1, StepEffect DEF Win, TaskPcs, Terminalizers
<1> QED
  BY <1>1, <1>4, <1>6, <1>7, <1>8 DEF Held, to

(* A task that has won goes on only by its own settling. *)
LEMMA WinnersGoOn ==
  ASSUME FleetInv, Next, NEW w \in Workers, task[w].pc \in {"won", "revoked", "emitted"},
         \A i \in Instances : ~Crash(i)
  PROVE  task'[w] = task[w] \/ SettleFirst(w) \/ SettleRelease(w) \/ SettleReclaim(w)
<1> USE DEF FleetInv
<1>0. task[w] # Idle /\ task[w].kind # "sweep"
  BY DEF Idle, ControlTypeOK
<1>1. ASSUME NEW v \in Workers, NEW kind, NEW i, NEW l, NEW pc, Begin(v, kind, i, l, pc) PROVE task'[w] = task[w]
  BY <1>0, <1>1 DEF Begin, ControlTypeOK
<1>2. ASSUME NEW v \in Workers \ {w}, NEW r, task' = [task EXCEPT ![v] = r] PROVE task'[w] = task[w]
  BY <1>2 DEF ControlTypeOK
<1>3. ASSUME NEW v \in Workers \ {w}, NEW pc, Step(v, pc) \/ Stop(v) PROVE task'[w] = task[w]
  BY <1>3 DEF Step, Stop, ControlTypeOK
<1>4. ASSUME NEW v \in Workers \ {w}, Work(v) PROVE task'[w] = task[w]
  <2>1. (\E pc : Step(v, pc)) \/ Stop(v)
    BY <1>4 DEF Work, Probe, Teardown, TeardownFails, CloseHook, Win, Lose, SettleFirst, SettleRelease, SettleReclaim,
       SweepTeardown, SweepUnconfirmed, SweepFinish, SweepRefused
  <2> QED
    BY <2>1, <1>3
<1>5. CASE Work(w)
  BY <1>5 DEF Work, Working, Probe, Teardown, TeardownFails, CloseHook, Win, Lose, SweepTeardown, SweepUnconfirmed,
     SweepFinish, SweepRefused
<1>6. ASSUME NEW v \in Requests, Request(v) PROVE task'[w] = task[w]
  <2>1. v \in Workers
    BY DEF Workers
  <2>2. PICK i \in Instances, l \in LeaseIds : StartCrashSweep(v, i, l) \/ StartRelease(v, i, l) \/ StartKill(v, i, l)
    BY <1>6 DEF Request
  <2>3. \E kind, pc : Begin(v, kind, i, l, pc)
    BY <2>2 DEF StartCrashSweep, StartRelease, StartKill
  <2> QED
    BY <2>1, <2>3, <1>1
<1>7. ASSUME NEW i \in Instances, NEW l \in LeaseIds, StartReap(i, l) \/ StartSweep(i, l) PROVE task'[w] = task[w]
  <2>1. i \in Workers
    BY DEF Workers
  <2> QED
    BY <2>1, <1>7, <1>1 DEF StartReap, StartSweep
<1>8. ASSUME NEW l \in LeaseIds, Acquire(l) \/ BoxDies(l) PROVE task'[w] = task[w]
  BY <1>8 DEF BoxDies, Acquire, CheckSuspension, Reserve, Mint, MintFails, Provision, ProvisionFails, Bind, Hold,
     LedgerRefuses, EmitAcquired, RegisterHook, RollbackClaim, RollbackRefused, RollbackTeardown, RollbackFinish,
     RollbackRevoke
<1>9. CASE UNCHANGED task
  BY <1>9
<1> QED
  BY <1>4, <1>5, <1>6, <1>7, <1>8, <1>9 DEF Next, Suspend, Unsuspend, Restart, Tick

(* The reap of a lease that is not settled yet. *)
Reaping(w, l) == task[w].lease = l /\ task[w].kind = "reap" /\ task[w].pc \in {"won", "revoked"}

(* A closed latch has published, and an expired row has its envelope or a     *)
(* reaper that is about to publish it.                                        *)
EnvelopeInv ==
  /\ \A j \in Instances, l \in LeaseIds : hooks[j][l] = "closed" => envelopes[l] >= 1
  /\ \A l \in LeaseIds : l \in DOMAIN records /\ records[l].state = "Expired"
       => envelopes[l] >= 1 \/ \E w \in Workers : Reaping(w, l)

(* What every step does to the envelopes and the latches. *)
LEMMA EnvelopesGrow ==
  ASSUME FleetInv, EnvelopeInv, Next
  PROVE  /\ \A l \in LeaseIds : envelopes[l] \in Nat /\ envelopes'[l] \in Nat /\ envelopes'[l] >= envelopes[l]
         /\ \A j \in Instances, l \in LeaseIds : hooks'[j][l] = "closed" => envelopes'[l] >= 1
<1> USE DEF FleetInv
<1>0. \A l \in LeaseIds : envelopes[l] \in Nat
  BY DEF FleetTypeOK
<1>1. CASE UNCHANGED <<hooks, envelopes>>
  BY <1>0, <1>1 DEF EnvelopeInv
<1>2. ASSUME NEW i \in Instances, NEW l \in LeaseIds, NEW v \in {None, "open"}, hooks' = [hooks EXCEPT ![i][l] = v]
      PROVE  \A j \in Instances, k \in LeaseIds : hooks'[j][k] = "closed" => hooks[j][k] = "closed"
  BY <1>2 DEF FleetTypeOK, None
<1>3. ASSUME NEW l \in LeaseIds, envelopes' = [envelopes EXCEPT ![l] = @ + 1]
      PROVE  /\ \A k \in LeaseIds : envelopes'[k] \in Nat /\ envelopes'[k] >= envelopes[k]
             /\ envelopes'[l] >= 1
  BY <1>0, <1>3 DEF FleetTypeOK
<1>4. ASSUME UNCHANGED envelopes, \A j \in Instances, k \in LeaseIds : hooks'[j][k] = "closed" => hooks[j][k] = "closed"
      PROVE  /\ \A l \in LeaseIds : envelopes'[l] \in Nat /\ envelopes'[l] >= envelopes[l]
             /\ \A j \in Instances, l \in LeaseIds : hooks'[j][l] = "closed" => envelopes'[l] >= 1
  BY <1>0, <1>4 DEF EnvelopeInv
<1>5. ASSUME NEW l \in LeaseIds, Acquire(l)
      PROVE  /\ \A k \in LeaseIds : envelopes'[k] \in Nat /\ envelopes'[k] >= envelopes[k]
             /\ \A j \in Instances, k \in LeaseIds : hooks'[j][k] = "closed" => envelopes'[k] >= 1
  <2>1. CASE RegisterHook(l)
    <3>1. acq[l].at \in Instances /\ UNCHANGED envelopes /\ hooks' = [hooks EXCEPT ![acq[l].at][l] = "open"]
      BY <2>1 DEF RegisterHook, Acquiring, ControlTypeOK, outputVars
    <3> QED
      BY <3>1, <1>2, <1>4
  <2>2. CASE UNCHANGED <<hooks, envelopes>>
    BY <2>2, <1>4
  <2> QED
    BY <1>5, <2>1, <2>2 DEF Acquire, localVars, outputVars, CheckSuspension, Reserve, Mint, MintFails, Provision,
       ProvisionFails, Bind, Hold, LedgerRefuses, EmitAcquired, RollbackClaim, RollbackRefused, RollbackTeardown,
       RollbackFinish, RollbackRevoke
<1>6. ASSUME NEW w \in Workers, Work(w)
      PROVE  /\ \A k \in LeaseIds : envelopes'[k] \in Nat /\ envelopes'[k] >= envelopes[k]
             /\ \A j \in Instances, k \in LeaseIds : hooks'[j][k] = "closed" => envelopes'[k] >= 1
  <2> DEFINE l == task[w].lease
             i == task[w].at
  <2>0. task[w].pc # "idle" => l \in LeaseIds /\ i \in Instances
    BY DEF ControlTypeOK
  <2>1. CASE CloseHook(w)
    <3>1. l \in LeaseIds /\ i \in Instances
      BY <2>0, <2>1 DEF CloseHook, Working
    <3>2. CASE hooks' = [hooks EXCEPT ![i][l] = "closed"] /\ envelopes' = [envelopes EXCEPT ![l] = @ + 1]
      <4>1. \A j \in Instances, k \in LeaseIds : hooks'[j][k] = "closed" => hooks[j][k] = "closed" \/ k = l
        BY <3>1, <3>2 DEF FleetTypeOK
      <4>2. (\A k \in LeaseIds : envelopes'[k] \in Nat /\ envelopes'[k] >= envelopes[k]) /\ envelopes'[l] >= 1
        BY <3>1, <3>2, <1>3
      <4>3. ASSUME NEW j \in Instances, NEW k \in LeaseIds, hooks'[j][k] = "closed" PROVE envelopes'[k] >= 1
        <5>1. CASE k = l
          BY <5>1, <4>2
        <5>2. CASE hooks[j][k] = "closed"
          BY <5>2, <4>2, <1>0 DEF EnvelopeInv
        <5> QED
          BY <4>1, <4>3, <5>1, <5>2
      <4> QED
        BY <4>2, <4>3
    <3>3. CASE UNCHANGED <<hooks, envelopes>>
      BY <3>3, <1>4
    <3> QED
      BY <2>1, <3>2, <3>3 DEF CloseHook
  <2>2. CASE SettleFirst(w)
    <3>1. l \in LeaseIds /\ i \in Instances /\ UNCHANGED envelopes
      BY <2>0, <2>2 DEF SettleFirst, Working
    <3>2. hooks' = hooks \/ hooks' = [hooks EXCEPT ![i][l] = None]
      BY <2>2 DEF SettleFirst, ForgetLease
    <3> QED
      BY <3>1, <3>2, <1>2, <1>4
  <2>3. CASE SettleRelease(w) \/ SweepFinish(w)
    <3>1. l \in LeaseIds /\ i \in Instances /\ UNCHANGED envelopes /\ hooks' = [hooks EXCEPT ![i][l] = None]
      BY <2>0, <2>3 DEF SettleRelease, SweepFinish, ForgetLease, Working, outputVars
    <3> QED
      BY <3>1, <1>2, <1>4
  <2>4. CASE SettleReclaim(w)
    <3>1. l \in LeaseIds /\ i \in Instances /\ hooks' = [hooks EXCEPT ![i][l] = None]
      BY <2>0, <2>4 DEF SettleReclaim, ForgetLease, Working
    <3>2. envelopes' = envelopes \/ envelopes' = [envelopes EXCEPT ![l] = @ + 1]
      BY <2>4 DEF SettleReclaim, FlushPartialEnvelope
    <3>3. \A j \in Instances, k \in LeaseIds : hooks'[j][k] = "closed" => hooks[j][k] = "closed"
      BY <3>1, <1>2
    <3>4. \A k \in LeaseIds : envelopes'[k] \in Nat /\ envelopes'[k] >= envelopes[k]
      BY <3>1, <3>2, <1>0, <1>3
    <3> QED
      BY <3>3, <3>4, <1>0 DEF EnvelopeInv
  <2>5. CASE UNCHANGED <<hooks, envelopes>>
    BY <2>5, <1>4
  <2> QED
    BY <1>6, <2>1, <2>2, <2>3, <2>4, <2>5 DEF Work, localVars, outputVars, Probe, Teardown, TeardownFails, Win, Lose,
       SweepTeardown, SweepUnconfirmed, SweepRefused
<1>7. ASSUME NEW i \in Instances, Crash(i)
      PROVE  /\ \A k \in LeaseIds : envelopes'[k] \in Nat /\ envelopes'[k] >= envelopes[k]
             /\ \A j \in Instances, k \in LeaseIds : hooks'[j][k] = "closed" => envelopes'[k] >= 1
  <2>1. UNCHANGED envelopes /\ hooks' = [hooks EXCEPT ![i] = [l \in LeaseIds |-> None]]
    BY <1>7 DEF Crash, outputVars
  <2>2. \A j \in Instances, k \in LeaseIds : hooks'[j][k] = "closed" => hooks[j][k] = "closed"
    BY <2>1 DEF FleetTypeOK, None
  <2> QED
    BY <2>1, <2>2, <1>4
<1>8. ASSUME NEW w \in Requests, Request(w) PROVE UNCHANGED <<hooks, envelopes>>
  BY <1>8 DEF Request, StartCrashSweep, StartRelease, StartKill, localVars, outputVars
<1> QED
  BY <1>0, <1>1, <1>5, <1>6, <1>7, <1>8 DEF Next, BoxDies, StartReap, StartSweep, Suspend, Unsuspend, Restart, Tick,
     localVars, outputVars

(* While no instance dies, every step keeps it. *)
LEMMA EnvelopeKeeps ==
  ASSUME FleetInv, EnvelopeInv, Next, \A i \in Instances : ~Crash(i)
  PROVE  EnvelopeInv'
<1>1. /\ \A l \in LeaseIds : envelopes[l] \in Nat /\ envelopes'[l] \in Nat /\ envelopes'[l] >= envelopes[l]
      /\ \A j \in Instances, l \in LeaseIds : hooks'[j][l] = "closed" => envelopes'[l] >= 1
  BY EnvelopesGrow
<1>2. ASSUME NEW l \in LeaseIds, l \in DOMAIN records', records'[l].state = "Expired"
      PROVE  envelopes'[l] >= 1 \/ \E w \in Workers : Reaping(w, l)'
  <2>1. CASE l \in DOMAIN records /\ records[l].state = "Expired"
    <3>1. CASE envelopes[l] >= 1
      BY <3>1, <1>1
    <3>2. CASE \E w \in Workers : Reaping(w, l)
      <4>1. PICK w \in Workers : Reaping(w, l)
        BY <3>2
      <4>2. CASE task'[w] = task[w]
        BY <4>1, <4>2 DEF Reaping
      <4>3. CASE SettleFirst(w)
        <5>1. Step(w, "revoked") /\ task[w].pc = "won"
          BY <4>1, <4>3 DEF SettleFirst, Reaping, Working
        <5>2. task'[w].lease = l /\ task'[w].kind = "reap" /\ task'[w].pc = "revoked"
          BY <4>1, <5>1 DEF Step, Reaping, FleetInv, ControlTypeOK
        <5> QED
          BY <5>2 DEF Reaping
      <4>4. CASE SettleReclaim(w)
        <5>1. /\ task[w].lease = l /\ task[w].at \in Instances
              /\ envelopes' = IF hooks[task[w].at][l] = "closed" THEN envelopes ELSE [envelopes EXCEPT ![l] = @ + 1]
          BY <4>1, <4>4 DEF SettleReclaim, FlushPartialEnvelope, Reaping, FleetInv, ControlTypeOK
        <5>2. CASE hooks[task[w].at][l] = "closed"
          BY <5>1, <5>2 DEF EnvelopeInv
        <5>3. CASE hooks[task[w].at][l] # "closed"
          BY <5>1, <5>3, <1>1 DEF FleetInv, FleetTypeOK
        <5> QED
          BY <5>2, <5>3
      <4>5. ~SettleRelease(w)
        BY <4>1 DEF Reaping, SettleRelease, Working
      <4> QED
        BY <4>1, <4>2, <4>3, <4>4, <4>5, WinnersGoOn DEF Reaping
    <3> QED
      BY <2>1, <3>1, <3>2 DEF EnvelopeInv
  <2>2. CASE ~(l \in DOMAIN records /\ records[l].state = "Expired")
    <3>1. PICK w \in Workers : Win(w)
      BY <1>2, <2>2, OnlyWinnersEnd DEF RowsHold, Terminal
    <3>2. task[w].lease = l
      BY <1>2, <2>2, <3>1, WinEffect
    <3>3. Target[task[w].kind] = "Expired" /\ task[w].kind \in Terminalizers
      BY <1>2, <3>1, <3>2, WinEffect
    <3>4. task[w].kind = "reap"
      BY <3>3 DEF Target, Terminalizers
    <3> QED
      BY <3>1, <3>2, <3>4, WinEffect DEF Reaping
  <2> QED
    BY <2>1, <2>2
<1> QED
  BY <1>1, <1>2 DEF EnvelopeInv

(* A winner that is still to revoke the credential: all but kill, which       *)
(* revokes before it asks the ledger.                                         *)
Settling(w, l) ==
  task[w].lease = l /\ ((task[w].pc = "won" /\ task[w].kind # "kill") \/ task[w].pc = "emitted")

(* A live credential is known to the instance that minted it; once its lease  *)
(* was handed out, the lease is Held or a winner is about to revoke.          *)
PatFits(l) ==
  /\ \A i \in Instances : l \in patIds[i]
  /\ acq[l].pc \in {"held", "emitted", "done"} => Held(l) \/ \E w \in Workers : Settling(w, l)
  /\ \A w \in Workers : task[w].lease = l /\ task[w].kind = "kill" =>
       task[w].pc \notin {"close_hook", "transition", "won"}

(* That of every lease. *)
PatInv == \A l \in LeaseIds : pat[l] = "live" => PatFits(l)

(* The one instance revokes what it minted. *)
LEMMA RevokeEffect ==
  ASSUME FleetInv, PatInv, NEW i, Instances = {i}, NEW l \in LeaseIds, RevokePatFor(i, l)
  PROVE  /\ pat'[l] # "live"
         /\ \A k \in LeaseIds \ {l} : pat'[k] = pat[k] /\ (k \in patIds[i] => k \in patIds'[i])
<1>1. pat \in [LeaseIds -> {None, "live", "revoked"}] /\ patIds \in [Instances -> SUBSET LeaseIds]
  BY DEF FleetInv, FleetTypeOK
<1>2. pat[l] = "live" => l \in patIds[i]
  BY DEF PatInv, PatFits
<1> QED
  BY <1>1, <1>2 DEF RevokePatFor

(* A credential that stays live was live, and its id stays on record. *)
PatsStay == \A l \in LeaseIds : pat'[l] = "live" => pat[l] = "live" /\ \A i \in Instances : l \in patIds'[i]

(* A revoke brings no credential to life. *)
LEMMA RevokeStays ==
  ASSUME FleetInv, PatInv, NEW i, Instances = {i}, NEW l \in LeaseIds, RevokePatFor(i, l)
  PROVE  PatsStay
<1>1. /\ pat'[l] # "live"
      /\ \A k \in LeaseIds \ {l} : pat'[k] = pat[k] /\ (k \in patIds[i] => k \in patIds'[i])
  BY RevokeEffect
<1> QED
  BY <1>1 DEF PatsStay, PatInv, PatFits

(* Only a mint brings one to life. *)
LEMMA PatsStayOrMint ==
  ASSUME FleetInv, PatInv, NEW i, Instances = {i}, Next, ~Crash(i), \A l \in LeaseIds : ~Mint(l)
  PROVE  PatsStay
<1> USE DEF FleetInv
<1>1. CASE UNCHANGED <<pat, patIds>>
  BY <1>1 DEF PatsStay, PatInv, PatFits
<1>2. ASSUME NEW l \in LeaseIds, Acquire(l) PROVE PatsStay
  <2>1. CASE RollbackRevoke(l)
    <3>1. acq[l].at = i
      BY <2>1 DEF RollbackRevoke, Acquiring, ControlTypeOK
    <3> QED
      BY <2>1, <3>1, RevokeStays DEF RollbackRevoke
  <2> QED
    BY <1>1, <1>2, <2>1 DEF Acquire, localVars, worldVars, CheckSuspension, Reserve, MintFails, Provision, ProvisionFails,
       Bind, Hold, LedgerRefuses, EmitAcquired, RegisterHook, RollbackClaim, RollbackRefused, RollbackTeardown,
       RollbackFinish
<1>3. ASSUME NEW w \in Workers, Work(w) PROVE PatsStay
  <2>0. task[w].pc # "idle" => task[w].lease \in LeaseIds /\ task[w].at = i
    BY DEF ControlTypeOK
  <2>1. CASE RevokePatFor(task[w].at, task[w].lease) /\ task[w].pc # "idle"
    BY <2>0, <2>1, RevokeStays
  <2> QED
    BY <1>1, <1>3, <2>1 DEF Work, Working, localVars, worldVars, Probe, Teardown, TeardownFails, RevokeIfKill, CloseHook,
       Win, Lose, SettleFirst, SettleRelease, SettleReclaim, SweepTeardown, SweepUnconfirmed, SweepFinish, SweepRefused
<1>4. ASSUME NEW w \in Requests, Request(w) PROVE UNCHANGED <<pat, patIds>>
  BY <1>4 DEF Request, StartCrashSweep, StartRelease, StartKill, localVars, worldVars
<1>5. i \in Instances
  OBVIOUS
<1> QED
  BY <1>1, <1>2, <1>3, <1>4, <1>5 DEF Next, BoxDies, StartReap, StartSweep, Suspend, Unsuspend, Restart, Tick,
     localVars, worldVars

(* A kill gets past its teardown only by revoking the credential. *)
LEMMA KillsRevoke ==
  ASSUME FleetInv, PatInv, NEW i, Instances = {i}, Next, ~Crash(i), NEW l \in LeaseIds,
         pat[l] = "live", pat'[l] = "live", NEW w \in Workers, task'[w].lease = l, task'[w].kind = "kill"
  PROVE  task'[w].pc \notin {"close_hook", "transition", "won"}
<1> USE DEF FleetInv
<1> DEFINE Goal == task'[w].pc \notin {"close_hook", "transition", "won"}
<1>1. CASE task'[w] = task[w]
  BY <1>1 DEF PatInv, PatFits
<1>2. ASSUME NEW v \in Workers, NEW kind, NEW j, NEW k, NEW pc \in {"teardown", "probe"}, Begin(v, kind, j, k, pc)
      PROVE  Goal
  <2>1. CASE v = w
    BY <1>2, <2>1 DEF Begin, ControlTypeOK
  <2>2. CASE v # w
    BY <1>1, <1>2, <2>2 DEF Begin, ControlTypeOK
  <2> QED
    BY <2>1, <2>2
<1>3. ASSUME NEW v \in Workers, NEW pc, Step(v, pc) PROVE v = w \/ task'[w] = task[w]
  BY <1>3 DEF Step, ControlTypeOK
<1>4. ASSUME NEW pc, Step(w, pc) PROVE task'[w].pc = pc /\ task[w].kind = "kill" /\ task[w].lease = l
  BY <1>4 DEF Step, ControlTypeOK
<1>5. ASSUME NEW v \in Workers, Stop(v) PROVE task'[w] = task[w]
  BY <1>5 DEF Stop, Idle, ControlTypeOK
<1>6. ASSUME NEW v \in Workers \ {w}, Work(v) PROVE task'[w] = task[w]
  <2>1. (\E pc : Step(v, pc)) \/ Stop(v)
    BY <1>6 DEF Work, Probe, Teardown, TeardownFails, CloseHook, Win, Lose, SettleFirst, SettleRelease, SettleReclaim,
       SweepTeardown, SweepUnconfirmed, SweepFinish, SweepRefused
  <2> QED
    BY <2>1, <1>3, <1>5
<1>7. CASE Work(w)
  <2>1. CASE Stop(w)
    BY <2>1, <1>5, <1>1
  <2>2. CASE Probe(w) \/ SweepTeardown(w)
    BY <2>1, <2>2, <1>4 DEF Probe, SweepTeardown
  <2>3. CASE Teardown(w)
    <3>1. /\ task[w].kind = "kill" /\ task[w].lease = l /\ task[w].at = i
      BY <2>3, <1>4 DEF Teardown, ControlTypeOK
    <3>2. RevokePatFor(i, l)
      BY <2>3, <3>1 DEF Teardown, RevokeIfKill
    <3> QED
      BY <3>2, RevokeEffect
  <2>4. CASE CloseHook(w)
    <3>1. task[w].pc = "close_hook" /\ (Stop(w) \/ Step(w, "transition"))
      BY <2>4 DEF CloseHook, Working
    <3> QED
      BY <2>1, <3>1, <1>4 DEF PatInv, PatFits
  <2>5. CASE Win(w)
    BY <2>5, <1>4 DEF Win, Working, PatInv, PatFits
  <2>6. CASE SettleFirst(w)
    <3>1. Stop(w) \/ Step(w, "revoked") \/ Step(w, "emitted")
      BY <2>6 DEF SettleFirst
    <3> QED
      BY <2>1, <3>1, <1>4
  <2> QED
    BY <1>7, <2>1, <2>2, <2>3, <2>4, <2>5, <2>6 DEF Work, TeardownFails, Lose, SettleRelease, SettleReclaim,
       SweepUnconfirmed, SweepFinish, SweepRefused
<1>8. ASSUME NEW v \in Requests, Request(v) PROVE Goal
  <2>1. v \in Workers
    BY DEF Workers
  <2>2. PICK j \in Instances, k \in LeaseIds : StartCrashSweep(v, j, k) \/ StartRelease(v, j, k) \/ StartKill(v, j, k)
    BY <1>8 DEF Request
  <2>3. \E kind : \E pc \in {"teardown", "probe"} : Begin(v, kind, j, k, pc)
    BY <2>2 DEF StartCrashSweep, StartRelease, StartKill
  <2> QED
    BY <2>1, <2>3, <1>2
<1>9. ASSUME NEW j \in Instances, NEW k \in LeaseIds, StartReap(j, k) \/ StartSweep(j, k) PROVE Goal
  <2>1. j \in Workers
    BY DEF Workers
  <2> QED
    BY <2>1, <1>9, <1>2 DEF StartReap, StartSweep
<1>10. ASSUME NEW k \in LeaseIds, Acquire(k) \/ BoxDies(k) PROVE task'[w] = task[w]
  BY <1>10 DEF BoxDies, Acquire, CheckSuspension, Reserve, Mint, MintFails, Provision, ProvisionFails, Bind, Hold,
     LedgerRefuses, EmitAcquired, RegisterHook, RollbackClaim, RollbackRefused, RollbackTeardown, RollbackFinish,
     RollbackRevoke
<1>11. CASE UNCHANGED task
  BY <1>1, <1>11
<1> QED
  BY <1>1, <1>6, <1>7, <1>8, <1>9, <1>10, <1>11 DEF Next, Suspend, Unsuspend, Restart, Tick

(* An acquire ends by handing its lease out or by revoking the credential. *)
LEMMA AcquireEnds ==
  ASSUME FleetInv, PatInv, NEW i, Instances = {i}, Next, ~Crash(i), NEW l \in LeaseIds, pat'[l] = "live",
         acq'[l].pc \in {"held", "emitted", "done"}
  PROVE  acq[l].pc \in {"held", "emitted", "done"} \/ Hold(l)
<1> USE DEF FleetInv
<1>1. CASE acq'[l] = acq[l]
  BY <1>1
<1>2. ASSUME NEW k \in LeaseIds \ {l}, Acquire(k) PROVE acq'[l] = acq[l]
  <2>1. (\E pc : Proceed(k, pc)) \/ (\E phase : RollBack(k, phase)) \/ \E r : acq' = [acq EXCEPT ![k] = r]
    BY <1>2 DEF Acquire, CheckSuspension, Reserve, Mint, MintFails, Provision, ProvisionFails, Bind, Hold,
       LedgerRefuses, EmitAcquired, RegisterHook, RollbackClaim, RollbackRefused, RollbackTeardown, RollbackFinish,
       RollbackRevoke
  <2> QED
    BY <2>1 DEF Proceed, RollBack, ControlTypeOK
<1>3. ASSUME NEW pc, Proceed(l, pc) PROVE acq'[l].pc = pc
  BY <1>3 DEF Proceed, ControlTypeOK
<1>4. ASSUME NEW phase, RollBack(l, phase) PROVE acq'[l].pc = "claim"
  BY <1>4 DEF RollBack, ControlTypeOK
<1>5. CASE Acquire(l)
  <2>1. CASE RollbackRevoke(l)
    <3>1. acq[l].at = i
      BY <2>1 DEF RollbackRevoke, Acquiring, ControlTypeOK
    <3> QED
      BY <2>1, <3>1, RevokeEffect DEF RollbackRevoke
  <2>2. CASE EmitAcquired(l) \/ RegisterHook(l)
    BY <2>2 DEF EmitAcquired, RegisterHook, Acquiring
  <2>3. ASSUME NEW t, NEW j, CheckSuspension(l, t, j) PROVE FALSE
    BY <2>3 DEF CheckSuspension, ControlTypeOK
  <2>4. CASE \E phase : RollBack(l, phase)
    BY <2>4, <1>4
  <2>5. CASE \E pc \in {"reserved", "minted", "provisioned", "bound", "teardown", "finish", "revoke"} : Proceed(l, pc)
    BY <2>5, <1>3
  <2> QED
    BY <1>5, <2>1, <2>2, <2>3, <2>4, <2>5 DEF Acquire, Reserve, Mint, MintFails, Provision, ProvisionFails, Bind,
       LedgerRefuses, RollbackClaim, RollbackRefused, RollbackTeardown, RollbackFinish
<1>6. ASSUME NEW w \in Workers, Work(w) PROVE UNCHANGED acq
  BY <1>6 DEF Work, Probe, Teardown, TeardownFails, CloseHook, Win, Lose, SettleFirst, SettleRelease, SettleReclaim,
     SweepTeardown, SweepUnconfirmed, SweepFinish, SweepRefused
<1>7. ASSUME NEW w \in Requests, Request(w) PROVE UNCHANGED acq
  BY <1>7 DEF Request, StartCrashSweep, StartRelease, StartKill
<1>8. CASE UNCHANGED acq
  BY <1>1, <1>8
<1> QED
  BY <1>1, <1>2, <1>5, <1>6, <1>7, <1>8 DEF Next, BoxDies, StartReap, StartSweep, Suspend, Unsuspend, Restart, Tick

(* A lease whose credential stays live stays Held or in a winner's hands. *)
LEMMA LiveStaysInHand ==
  ASSUME FleetInv, PatInv, NEW i, Instances = {i}, Next, ~Crash(i), NEW l \in LeaseIds,
         pat[l] = "live", pat'[l] = "live", Held(l) \/ \E w \in Workers : Settling(w, l)
  PROVE  Held(l)' \/ \E w \in Workers : Settling(w, l)'
<1>1. CASE Held(l)
  <2>1. CASE \A w \in Workers : ~Win(w)
    BY <1>1, <2>1, OnlyWinnersEnd DEF RowsHold
  <2>2. ASSUME NEW w \in Workers, Win(w) PROVE Held(l)' \/ Settling(w, l)'
    <3>1. CASE task[w].lease = l
      <4>1. task[w].kind # "kill"
        BY <2>2, <3>1, WinEffect DEF PatInv, PatFits
      <4> QED
        BY <2>2, <3>1, <4>1, WinEffect DEF Settling
    <3>2. CASE task[w].lease # l
      BY <1>1, <2>2, <3>2, WinEffect DEF Held
    <3> QED
      BY <3>1, <3>2
  <2> QED
    BY <2>1, <2>2
<1>2. ASSUME NEW w \in Workers, Settling(w, l) PROVE Settling(w, l)'
  <2>1. task[w].lease = l /\ task[w].pc \in {"won", "emitted"} /\ task[w].at = i
    BY <1>2 DEF Settling, FleetInv, ControlTypeOK
  <2>2. ~RevokePatFor(i, l)
    BY RevokeEffect
  <2>3. CASE task'[w] = task[w]
    BY <1>2, <2>3 DEF Settling
  <2>4. CASE SettleFirst(w)
    <3>1. task[w].pc = "won" /\ task[w].kind # "kill" /\ Step(w, "emitted")
      BY <1>2, <2>1, <2>2, <2>4 DEF SettleFirst, Working, Settling
    <3> QED
      BY <2>1, <3>1 DEF Step, Settling, FleetInv, ControlTypeOK
  <2>5. ~SettleRelease(w) /\ ~SettleReclaim(w)
    BY <2>1, <2>2 DEF SettleRelease, SettleReclaim, Working
  <2> QED
    BY <2>1, <2>3, <2>4, <2>5, WinnersGoOn
<1> QED
  BY <1>1, <1>2

(* The mint: no task can be at work on a lease that is still Pending. *)
LEMMA MintKeepsPats ==
  ASSUME FleetInv, PatInv, NEW i, Instances = {i}, NEW m \in LeaseIds, Mint(m)
  PROVE  PatInv'
<1> USE DEF FleetInv
<1>1. /\ acq[m].at = i /\ acq[m].pc = "reserved" /\ IsPending(m) /\ UNCHANGED <<records, task>>
      /\ pat' = [pat EXCEPT ![m] = "live"] /\ patIds' = [patIds EXCEPT ![i] = @ \cup {m}]
  BY DEF Mint, Acquiring, ControlTypeOK, AcquireInv, ledgerVars
<1>2. acq'[m].pc = "minted" /\ \A l \in LeaseIds \ {m} : acq'[l] = acq[l]
  BY DEF Mint, Proceed, ControlTypeOK
<1>3. m \in patIds'[i] /\ \A l \in patIds[i] : l \in patIds'[i]
  BY <1>1 DEF FleetTypeOK
<1>4. ASSUME NEW l \in LeaseIds, pat'[l] = "live" PROVE PatFits(l)'
  <2>1. CASE l = m
    <3>1. \A w \in Workers : task[w].lease = m => task[w].kind # "kill"
      BY <1>1 DEF TaskInv, Terminalizers, IsPending
    <3> QED
      BY <1>1, <1>2, <1>3, <2>1, <3>1 DEF PatFits
  <2>2. CASE l # m
    <3>1. PatFits(l)
      BY <1>1, <1>4, <2>2 DEF PatInv, FleetTypeOK
    <3> QED
      BY <1>1, <1>2, <1>3, <2>2, <3>1 DEF PatFits, Held, Settling
  <2> QED
    BY <2>1, <2>2
<1> QED
  BY <1>4 DEF PatInv

(* While the one instance does not die, every step keeps it. *)
LEMMA PatKeeps ==
  ASSUME FleetInv, PatInv, NEW i, Instances = {i}, Next, ~Crash(i)
  PROVE  PatInv'
<1>1. CASE \E m \in LeaseIds : Mint(m)
  BY <1>1, MintKeepsPats
<1>2. CASE \A m \in LeaseIds : ~Mint(m)
  <2>1. PatsStay
    BY <1>2, PatsStayOrMint
  <2>2. ASSUME NEW l \in LeaseIds, pat'[l] = "live" PROVE PatFits(l)'
    <3>1. pat[l] = "live" /\ PatFits(l) /\ \A j \in Instances : l \in patIds'[j]
      BY <2>1, <2>2 DEF PatsStay, PatInv
    <3>2. ASSUME acq'[l].pc \in {"held", "emitted", "done"} PROVE Held(l)' \/ \E w \in Workers : Settling(w, l)'
      <4>1. CASE Hold(l)
        BY <4>1, HoldIsHeld
      <4>2. CASE acq[l].pc \in {"held", "emitted", "done"}
        BY <2>2, <3>1, <4>2, LiveStaysInHand DEF PatFits
      <4> QED
        BY <2>2, <3>2, <4>1, <4>2, AcquireEnds
    <3>3. \A w \in Workers : task'[w].lease = l /\ task'[w].kind = "kill" =>
            task'[w].pc \notin {"close_hook", "transition", "won"}
      BY <2>2, <3>1, KillsRevoke
    <3> QED
      BY <3>1, <3>2, <3>3 DEF PatFits
  <2> QED
    BY <2>2 DEF PatInv
<1> QED
  BY <1>1, <1>2

--------------------------------------------------------------------------------
(* No instance has died yet *)

(* A step that counts no crash is none. *)
LEMMA NoCrashYet ==
  ASSUME FleetInv, crashes' = 0
  PROVE  (\A i \in Instances : ~Crash(i))
<1>1. crashes \in Nat
  BY FleetAssumption DEF FleetInv, FleetTypeOK
<1> QED
  BY <1>1 DEF Crash

(* Crashes are only ever counted up. *)
LEMMA CrashesGrow ==
  ASSUME FleetInv, [Next]_vars, crashes' = 0
  PROVE  crashes = 0
<1>1. \A i \in Instances : ~Crash(i)
  BY NoCrashYet
<1>2. ASSUME NEW l \in LeaseIds, Acquire(l) PROVE UNCHANGED crashes
  BY <1>2 DEF Acquire, fleetVars, CheckSuspension, Reserve, Mint, MintFails, Provision, ProvisionFails, Bind, Hold,
     LedgerRefuses, EmitAcquired, RegisterHook, RollbackClaim, RollbackRefused, RollbackTeardown, RollbackFinish,
     RollbackRevoke
<1>3. ASSUME NEW w \in Workers, Work(w) PROVE UNCHANGED crashes
  BY <1>3 DEF Work, fleetVars, Probe, Teardown, TeardownFails, CloseHook, Win, Lose, SettleFirst, SettleRelease,
     SettleReclaim, SweepTeardown, SweepUnconfirmed, SweepFinish, SweepRefused
<1>4. ASSUME NEW w \in Requests, Request(w) PROVE UNCHANGED crashes
  BY <1>4 DEF Request, fleetVars, StartCrashSweep, StartRelease, StartKill
<1>5. CASE UNCHANGED crashes
  BY <1>5
<1> QED
  BY <1>1, <1>2, <1>3, <1>4, <1>5 DEF Next, vars, fleetVars, BoxDies, StartReap, StartSweep, Suspend, Unsuspend,
     Restart, Tick

(* The envelopes' part of the argument holds until an instance dies. *)
LEMMA EnvelopeInvariance == Spec => [](crashes = 0 => EnvelopeInv)
<1>1. ASSUME Init PROVE EnvelopeInv
  <2>1. \A j \in Instances, l \in LeaseIds : hooks[j][l] = "none"
    BY <1>1 DEF Init, None
  <2>2. DOMAIN records = {}
    BY <1>1 DEF Init, LedgerInit, EmptyMap
  <2> QED
    BY <2>1, <2>2 DEF EnvelopeInv
<1>2. ASSUME FleetInv, crashes = 0 => EnvelopeInv, [Next]_vars, crashes' = 0 PROVE EnvelopeInv'
  <2>1. EnvelopeInv
    BY <1>2, CrashesGrow
  <2>2. CASE Next
    BY <1>2, <2>1, <2>2, NoCrashYet, EnvelopeKeeps
  <2>3. CASE UNCHANGED vars
    BY <2>1, <2>3 DEF EnvelopeInv, Reaping, vars, localVars, outputVars, ledgerVars
  <2> QED
    BY <1>2, <2>2, <2>3
<1>3. FleetInv /\ (crashes = 0 => EnvelopeInv) /\ [Next]_vars => (crashes = 0 => EnvelopeInv)'
  BY <1>2
<1> QED
  BY <1>1, <1>3, FleetInvariance, PTL DEF Spec

(* The credentials' part, on one instance. *)
LEMMA PatInvariance == ASSUME NEW CONSTANT i, Instances = {i} PROVE Spec => [](crashes = 0 => PatInv)
<1>1. Init => PatInv
  BY DEF Init, PatInv, None
<1>2. ASSUME FleetInv, crashes = 0 => PatInv, [Next]_vars, crashes' = 0 PROVE PatInv'
  <2>1. PatInv
    BY <1>2, CrashesGrow
  <2>2. CASE Next
    BY <1>2, <2>1, <2>2, NoCrashYet, PatKeeps
  <2>3. CASE UNCHANGED vars
    BY <2>1, <2>3 DEF PatInv, PatFits, Held, Settling, vars, localVars, worldVars, ledgerVars
  <2> QED
    BY <1>2, <2>2, <2>3
<1>3. FleetInv /\ (crashes = 0 => PatInv) /\ [Next]_vars => (crashes = 0 => PatInv)'
  BY <1>2
<1> QED
  BY <1>1, <1>3, FleetInvariance, PTL DEF Spec

(* Until an instance dies, every lease that ends Expired leaves its final     *)
(* envelope behind, in a fleet of any size: the reaper that won flushes it,   *)
(* unless a close has fired the latch, and that close has published.          *)
THEOREM ExpiredAlwaysLeaveEnvelopes == Spec => [](crashes = 0 => ExpiredLeavesEnvelope)
<1>1. EnvelopeInv => ExpiredLeavesEnvelope
  BY DEF EnvelopeInv, ExpiredLeavesEnvelope, Quiet, Reaping
<1> QED
  BY <1>1, EnvelopeInvariance, PTL

(* On one instance, whatever ends a lease (close, cancel, the sweeps, a kill, *)
(* a failed acquire), the credential minted for it is revoked once nothing is *)
(* at work on the lease any more, and an expired one has its envelope.  With  *)
(* several instances a reaper may win whose process never saw the PAT id.     *)
THEOREM EndsAlwaysComplete == ASSUME NEW CONSTANT i, Instances = {i} PROVE Spec => []EndsAreComplete
<1>1. PatInv => PatRevokedAtEnd
  <2> SUFFICES ASSUME PatInv, NEW l \in LeaseIds, Quiet(l), pat[l] = "live"
               PROVE  l \in DOMAIN records /\ IsActive(records[l])
    BY DEF PatRevokedAtEnd
  <2>1. Held(l)
    BY DEF PatInv, PatFits, Quiet, Settling
  <2> QED
    BY <2>1 DEF Held, IsActive
<1>2. (crashes = 0 => PatInv) /\ (crashes = 0 => ExpiredLeavesEnvelope) => EndsAreComplete
  BY <1>1 DEF EndsAreComplete
<1> QED
  BY <1>2, PatInvariance, ExpiredAlwaysLeaveEnvelopes, PTL

================================================================================
