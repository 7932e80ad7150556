------------------------------- MODULE MCBoxes --------------------------------
(****************************************************************************)
(* What happens in and around a box, for TLC: the providers' side of a box,   *)
(* the batch runner with its recovery and teardown, layer hydration, the exec *)
(* server and clw, the file fence, the workflow shim, the capture hook and    *)
(* the workspace registry.  They share no state: what one does to another is  *)
(* an input of the other's actions.  One run therefore checks them as a sum,  *)
(* not a product: `part` names the component that moves and the others stay   *)
(* in their initial state, so the reachable states of each are exactly those  *)
(* of its own specification.                                                  *)
(****************************************************************************)
EXTENDS ProviderBoxes, BoxBatch, LayerBoot, BoxExecServer, ClwDrive, Fence, WorkflowShim,
        CaptureHook, Workspaces

VARIABLE part

(* Constants too long for a configuration file. *)

MCDigestOf == [j \in BatchJobs |-> IF j = NumJobs THEN "forged" ELSE "d"]
MCPlan == <<"k1", "k2", "k1">>
MCBatchOf == [f \in Forwarders |-> IF f = "f1" THEN <<"a", Turn>> ELSE <<Turn, "b">>]

(* Paths as they are spelled: up to three segments, the odd ones included. *)
Spellings(n) == UNION {[1..k -> {"", ".", "..", "a", "b"}] : k \in 1..n}
MCPathSets == {{p} : p \in Spellings(3)} \cup {{}}
MCCandidateLists == {<<p>> : p \in Spellings(3)} \cup {<<<<"a">>, p>> : p \in Spellings(2)}

(* Lines of workflow files: indentation, list dash, key, value. *)
Line(in, dash, key, val) == [in |-> in, dash |-> dash, key |-> key, val |-> val]
JobHead ==
  <<Line(0, FALSE, "on", "push"), Line(0, FALSE, "jobs", ""), Line(2, FALSE, "build", ""),
    Line(4, FALSE, "runs-on", "ubuntu"), Line(4, FALSE, "steps", "")>>
MCPrefixes == {<<>>, <<Line(0, FALSE, "on", "")>>, JobHead, Append(JobHead, Line(6, TRUE, "name", "x"))}
MCLines ==
  {Line(6, TRUE, "name", "x"), Line(6, TRUE, "run", "S"), Line(6, TRUE, "run", "|"),
   Line(6, TRUE, "uses", "artifact"), Line(6, TRUE, "uses", "latest"),
   Line(8, FALSE, "run", "x"), Line(8, FALSE, "run", "|"), Line(8, FALSE, "env", ""),
   Line(8, FALSE, "with", ""), Line(8, FALSE, "A", "S"), Line(8, FALSE, "A", "github"),
   Line(8, FALSE, "if", "other"), Line(8, FALSE, "continue-on-error", "true"),
   Line(8, FALSE, "timeout-minutes", "5"), Line(8, FALSE, "text", "S"), Line(0, FALSE, "blank", ""),
   Line(0, FALSE, "concurrency", ""), Line(2, FALSE, "test", ""), Line(4, FALSE, "env", ""),
   Line(4, FALSE, "strategy", ""), Line(0, FALSE, "jobs", "")}

--------------------------------------------------------------------------------
(* A component that does not move starts in one of its initial states only. *)
BoxesInit ==
  /\ part \in {"providers", "batch", "layers", "exec", "clw", "fence", "shim", "capture", "workspaces"}
  /\ FenceInit
  /\ part # "fence" => originalFence = [paths |-> {}, denyDefault |-> TRUE]
  /\ ShimInit
  /\ part # "shim" => shimFile.lines = <<>> /\ shimBroker.kind = "null"
  /\ BatchInit
  /\ part # "batch" => batch.shape = [policy |-> "none", pinned |-> TRUE, tmpRoot |-> "plain"]
  /\ LayerInit
  /\ part # "layers" => DOMAIN casStore = {}
  /\ BoxExecInit
  /\ part # "exec" => boxServer = [serves |-> TRUE, id |-> "none"]
  /\ DriveInit /\ CaptureInit /\ WsInit /\ ProviderInit
  /\ part # "providers" => /\ fleet.backend = "hybrid" /\ fleet.lowDisk = {}
                           /\ \A l \in BoxedLeases : fleet.kind[l] = "runner"

OthersIdle ==
  /\ UNCHANGED part
  /\ part # "providers" => UNCHANGED providerVars
  /\ part # "batch" => UNCHANGED batchVars
  /\ part # "layers" => UNCHANGED layerVars
  /\ part # "exec" => UNCHANGED boxExecVars
  /\ part # "clw" => UNCHANGED drive
  /\ part # "fence" => UNCHANGED fenceVars
  /\ part # "shim" => UNCHANGED shimVars
  /\ part # "capture" => UNCHANGED captureVars
  /\ part # "workspaces" => UNCHANGED wsVars

BoxesNext ==
  \/ part = "providers" /\ ProviderNext /\ OthersIdle
  \/ part = "batch" /\ BatchNext /\ OthersIdle
  \/ part = "layers" /\ LayerNext /\ OthersIdle
  \/ part = "exec" /\ BoxExecNext /\ OthersIdle
  \/ part = "clw" /\ DriveNext /\ OthersIdle
  \/ part = "fence" /\ FenceNext /\ OthersIdle
  \/ part = "shim" /\ ShimNext /\ OthersIdle
  \/ part = "capture" /\ CaptureNext /\ OthersIdle
  \/ part = "workspaces" /\ WsNext /\ OthersIdle

--------------------------------------------------------------------------------
(* Properties that join what several modules promise about one concern *)

(* Results: a verdict, an exit code or an output that a provider, the exec     *)
(* server or the clw driver reports is that of the command that was asked for. *)
ResultsAreTrue == SuccessIsEvidence /\ ExecAnswerIsTrue /\ VerdictIsTheChilds

(* Containment: however paths are spelled, a job writes nothing outside its    *)
(* fence, and however a workflow file is laid out, no secret it was not        *)
(* granted reaches a step.                                                     *)
ContainmentHolds == FenceHolds /\ SecretsFailClosed
===============================================================================
