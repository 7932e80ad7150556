------------------------------ MODULE Execution ------------------------------
(****************************************************************************)
(* Running commands in a leased box: POST /exec (exec_handler.rs), the landing *)
(* queue's trigger (queue.rs), POST /agent-exec (agent_exec.rs) and the result *)
(* builder (exec.rs).  The requests race the end of their lease: the ledger    *)
(* and the side tables finalize fills and forget_lease clears are read one by  *)
(* one, and the command runs in between.                                       *)
(****************************************************************************)
EXTENDS Integers, FiniteSets

CONSTANTS
  CheckLeases, AgentLeases, RunnerLeases,  \* leases by the mode they were acquired in
  HydratedLeases,  \* the check leases acquired with a toolchain digest
  Toolchains,      \* toolchain digests; the hydrated leases got HydratedToolchain
  HydratedToolchain,
  Calls,           \* concurrent requests
  Items,           \* (item_id, tree_hash) pairs of triggers
  DedupCap         \* TRIGGER_DEDUP_CAP

ASSUME ExecutionAssumption ==
  HydratedLeases \subseteq CheckLeases /\ HydratedToolchain \in Toolchains /\ DedupCap \in Nat

VARIABLES
  stage,     \* stage[l]: Pending, Held or Ended in the ledger
  image,     \* leases with an image digest on file
  marked,    \* leases with their runner or agent marker
  hydrated,  \* leases with their toolchain digest on file
  call,      \* call[c]: where a request is
  attested,  \* the signed responses, with what really ran
  dedup,     \* trigger_dedup: item -> the call whose response is replayed
  steps      \* agent_steps: call -> [lease, state]

execVars == <<stage, image, marked, hydrated, call, attested, dedup, steps>>
leaseVars == <<stage, image, marked, hydrated>>

BoxLeases == CheckLeases \cup AgentLeases \cup RunnerLeases
NoCall == [at |-> "idle"]
Codes == {0, 1}
Killed == 0 - 1

ExecInit ==
  /\ stage = [l \in BoxLeases |-> "Pending"]
  /\ image = {}
  /\ marked = {}
  /\ hydrated = HydratedLeases
  /\ call = [c \in Calls |-> NoCall]
  /\ attested = {}
  /\ dedup = <<>>
  /\ steps = <<>>

--------------------------------------------------------------------------------
(* The lease around it *)

(* The end of finalize_admitted_lease: Held first, then the side tables. *)
BecomesHeld(l) ==
  /\ stage[l] = "Pending"
  /\ stage' = [stage EXCEPT ![l] = "Held"]
  /\ UNCHANGED <<image, marked, hydrated, call, attested, dedup, steps>>

RecordImage(l) ==
  /\ stage[l] = "Held" /\ l \notin image
  /\ image' = image \cup {l}
  /\ UNCHANGED <<stage, marked, hydrated, call, attested, dedup, steps>>

MarkLease(l) ==
  /\ stage[l] = "Held" /\ l \in image \ (CheckLeases \cup marked)
  /\ marked' = marked \cup {l}
  /\ UNCHANGED <<stage, image, hydrated, call, attested, dedup, steps>>

(* A close, a cancel or the reaper wins the terminal transition. *)
ExecLeaseEnds(l) ==
  /\ stage[l] = "Held"
  /\ stage' = [stage EXCEPT ![l] = "Ended"]
  /\ UNCHANGED <<image, marked, hydrated, call, attested, dedup, steps>>

(* forget_lease: the image goes first, each table under its own lock. *)
ForgetImage(l) ==
  /\ stage[l] = "Ended" /\ l \in image
  /\ image' = image \ {l}
  /\ UNCHANGED <<stage, marked, hydrated, call, attested, dedup, steps>>

ForgetMarks(l) ==
  /\ stage[l] = "Ended" /\ l \notin image
  /\ marked' = marked \ {l}
  /\ hydrated' = hydrated \ {l}
  /\ steps' = [c \in {c \in DOMAIN steps : steps[c].lease # l} |-> steps[c]]
  /\ UNCHANGED <<stage, image, call, attested, dedup>>

--------------------------------------------------------------------------------
(* POST /exec, POST /queue/trigger and POST /agent-exec *)

CallGoes(c, at) == call' = [call EXCEPT ![c].at = at]
Refused(c) == call' = [call EXCEPT ![c] = [at |-> "answered", result |-> "refused"]]

(* A request arrives.  A trigger is first looked up among the answered ones. *)
Arrives(c, op, l, t, item) ==
  /\ call[c] = NoCall
  /\ IF op = "trigger" /\ item \in DOMAIN dedup
     THEN call' = [call EXCEPT ![c] = [at |-> "answered", result |-> dedup[item]]]
     ELSE call' = [call EXCEPT ![c] =
            [at |-> "gate", op |-> op, lease |-> l, toolchain |-> t, item |-> item, code |-> Killed, ranHeld |-> FALSE]]
  /\ UNCHANGED <<leaseVars, attested, dedup, steps>>

(* The tenant-scoped ledger read: only a Held lease passes. *)
HeldGate(c) ==
  /\ call[c].at = "gate"
  /\ IF stage[call[c].lease] = "Held"
     THEN CallGoes(c, IF call[c].op = "trigger" THEN "image" ELSE "marker")
     ELSE Refused(c)
  /\ UNCHANGED <<leaseVars, attested, dedup, steps>>

(* /exec refuses marked leases, /agent-exec those that are not agent leases. *)
MarkerGate(c) ==
  LET l == call[c].lease
      passes == IF call[c].op = "exec" THEN l \notin marked ELSE l \in marked \cap AgentLeases
  IN  /\ call[c].at = "marker"
      /\ IF passes THEN CallGoes(c, IF call[c].op = "exec" THEN "toolchain" ELSE "begin") ELSE Refused(c)
      /\ UNCHANGED <<leaseVars, attested, dedup, steps>>

(* The false-cache-hit guard; a lease with no digest on file skips it. *)
ToolchainGate(c) ==
  /\ call[c].at = "toolchain"
  /\ IF call[c].lease \in hydrated /\ call[c].toolchain # HydratedToolchain
     THEN Refused(c)
     ELSE CallGoes(c, "image")
  /\ UNCHANGED <<leaseVars, attested, dedup, steps>>

(* Nothing runs past the deadline, or without an image digest to attest. *)
ImageGate(c) ==
  /\ call[c].at = "image"
  /\ \/ call[c].lease \in image /\ CallGoes(c, "run")
     \/ Refused(c)
  /\ UNCHANGED <<leaseVars, attested, dedup, steps>>

(* run_check over LeasedExec: an exit code, a signal, or a refusal. *)
RunCheck(c) ==
  /\ call[c].at = "run"
  /\ \/ \E code \in Codes \cup {Killed} :
          call' = [call EXCEPT ![c].at = "ran", ![c].code = code, ![c].ranHeld = stage[call[c].lease] = "Held"]
     \/ Refused(c)
  /\ UNCHANGED <<leaseVars, attested, dedup, steps>>

Response(c) == [call |-> c, op |-> call[c].op, lease |-> call[c].lease, item |-> call[c].item,
                toolchain |-> call[c].toolchain, code |-> call[c].code, ranHeld |-> call[c].ranHeld]

Memoize(c) ==
  IF call[c].op = "trigger" /\ Cardinality(DOMAIN dedup) < DedupCap
  THEN dedup' = [i \in DOMAIN dedup \cup {call[c].item} |-> IF i = call[c].item THEN c ELSE dedup[i]]
  ELSE UNCHANGED dedup

(* Mutant: the result is signed without looking at the ledger again. *)
AttestUnchecked(c) ==
  /\ call[c].at = "ran"
  /\ IF call[c].code # Killed
     THEN /\ attested' = attested \cup {Response(c)}
          /\ Memoize(c)
          /\ call' = [call EXCEPT ![c] = [at |-> "answered", result |-> c]]
     ELSE Refused(c) /\ UNCHANGED <<attested, dedup>>
  /\ UNCHANGED <<leaseVars, steps>>

(* A killed command has no result; a result is signed if the lease is still Held. *)
Attest(c) ==
  /\ call[c].at = "ran"
  /\ IF call[c].code # Killed /\ stage[call[c].lease] = "Held"
     THEN /\ attested' = attested \cup {Response(c)}
          /\ Memoize(c)
          /\ call' = [call EXCEPT ![c] = [at |-> "answered", result |-> c]]
     ELSE Refused(c) /\ UNCHANGED <<attested, dedup>>
  /\ UNCHANGED <<leaseVars, steps>>

(* agent_exec acknowledges with a step id and runs on. *)
BeginStep(c) ==
  /\ call[c].at = "begin"
  /\ \/ /\ steps' = [s \in DOMAIN steps \cup {c} |->
             IF s = c THEN [lease |-> call[c].lease, state |-> "Running"] ELSE steps[s]]
        /\ CallGoes(c, "step")
     \/ Refused(c) /\ UNCHANGED steps
  /\ UNCHANGED <<leaseVars, attested, dedup>>

(* The command ended: only an entry that is still there is updated. *)
EndStep(c) ==
  /\ call[c].at = "step"
  /\ IF c \in DOMAIN steps
     THEN \E state \in {"Done", "Failed"} : steps' = [steps EXCEPT ![c].state = state]
     ELSE UNCHANGED steps
  /\ call' = [call EXCEPT ![c] = [at |-> "answered", result |-> "step"]]
  /\ UNCHANGED <<leaseVars, attested, dedup>>

ExecNext ==
  \/ \E l \in BoxLeases :
       BecomesHeld(l) \/ RecordImage(l) \/ MarkLease(l) \/ ExecLeaseEnds(l) \/ ForgetImage(l) \/ ForgetMarks(l)
  \/ \E c \in Calls, op \in {"exec", "trigger", "agent"}, l \in BoxLeases, t \in Toolchains, i \in Items :
       Arrives(c, op, l, t, i)
  \/ \E c \in Calls :
       HeldGate(c) \/ MarkerGate(c) \/ ToolchainGate(c) \/ ImageGate(c) \/ RunCheck(c)
         \/ Attest(c) \/ BeginStep(c) \/ EndStep(c)

ExecSpec == ExecInit /\ [][ExecNext]_execVars

--------------------------------------------------------------------------------
(* Properties *)

ExecTypeOK ==
  /\ stage \in [BoxLeases -> {"Pending", "Held", "Ended"}]
  /\ image \subseteq BoxLeases /\ marked \subseteq AgentLeases \cup RunnerLeases
  /\ DOMAIN dedup \subseteq Items /\ Cardinality(DOMAIN dedup) <= DedupCap
  /\ DOMAIN steps \subseteq Calls

(* A signed result was produced while its lease was Held, although the ledger *)
(* is not locked while the command runs; it has the code the command exited   *)
(* with; and /exec signs under no toolchain but the one the box hydrated,     *)
(* although forget_lease may take the digest away between the two gates.      *)
SignedResultsAreReal ==
  \A a \in attested :
    /\ a.ranHeld /\ a.code # Killed
    /\ a.op = "exec" /\ a.lease \in HydratedLeases => a.toolchain = HydratedToolchain

(* No memoizable result is minted in an egress or a runner box. *)
OnlyCheckBoxesAttest == \A a \in attested : a.lease \in CheckLeases
===============================================================================
