------------------------------- MODULE BoxBatch -------------------------------
(***************************************************************************)
(* The runner on its docker box (crate corelink-runner): the specification *)
(* a lease turns into, the pinned image verified under a lock per digest,  *)
(* a batch of jobs run by one thread each while the scheduler samples how  *)
(* many containers are up, the forensic teardown of every container, and   *)
(* the two operations that may end a job meanwhile, the expiry kill and    *)
(* crash recovery.                                                         *)
(*                                                                         *)
(* Every box command goes through ssh.  One that goes wrong either did     *)
(* nothing, or did its work and lost its answer; MaxFaults bounds them.    *)
(***************************************************************************)
EXTENDS Integers, Sequences, FiniteSets, FiniteSetsExt

CONSTANTS
  NumJobs,            \* the leases of the batch
  Digests,            \* the image digests they are pinned to
  DigestOf,           \* the digest of each
  Tampered,           \* digests whose registry content does not match
  PullMaxAttempts,    \* PULL_MAX_ATTEMPTS
  MaxPolls,           \* CENSUS_POLL_ITERATIONS
  Leftovers,          \* what the kernel may keep of a removed container
  MaxFaults

BatchJobs == 1..NumJobs

ASSUME BatchAssumption ==
  /\ NumJobs \in Nat \ {0}
  /\ DigestOf \in [BatchJobs -> Digests] /\ Tampered \subseteq Digests
  /\ PullMaxAttempts \in Nat \ {0} /\ MaxPolls \in Nat /\ MaxFaults \in Nat
  /\ Leftovers \subseteq SUBSET {"processes", "mounts", "network"}

VARIABLES
  boxUp,      \* the containers on the box
  left,       \* per job, what the kernel has not reaped on the other surfaces
  images,     \* the images the box holds, and what is in them
  digestLock, \* per digest, the thread verifying it
  worker,     \* per job, its thread: where it is, pull attempts, its outcome
  batch,      \* the scheduler: where it is, polls, the peak, jobs to tear down
  report,     \* the BatchReport under construction
  watch,      \* the last LostJob or ExpiryOutcome of each job
  faults

batchVars == <<boxUp, left, images, digestLock, worker, batch, report, watch, faults>>

Nobody == 0

(* The surfaces teardown re-scans, in its order. *)
Scans == <<"containers", "processes", "mounts", "network">>
CleanReport == [residue |-> {}, scanFailures |-> {}, failures |-> {}]

--------------------------------------------------------------------------------
(* What a lease asks for, and the specification it becomes. *)

Policies == {"none", "egress-runner", "egress-agent"}
LeaseShapes == [policy : Policies, pinned : BOOLEAN, tmpRoot : {"plain", "quoted"}]

(* validate_lease_image, with validate_tmp_root and require_pinned *)
ValidLeaseImage(s) == s.pinned /\ s.tmpRoot = "plain"

NoSpec == [noNetwork |-> FALSE, runOnCreate |-> FALSE, spec |-> FALSE]

(* from_lease, from_runner_lease and from_agent_lease: each accepts the      *)
(* policy of its kind of lease only, and an isolated box is the one without  *)
(* network.                                                                  *)
FromLease(kind, s) ==
  IF ValidLeaseImage(s) /\ s.policy = kind
  THEN [noNetwork |-> kind = "none", runOnCreate |-> kind = "egress-runner", spec |-> TRUE]
  ELSE NoSpec

(* DockerEngine::spawn refuses a specification with a network. *)
EngineTakes(spec) == spec.spec /\ spec.noNetwork

--------------------------------------------------------------------------------
(* run_batch derives every specification before it touches the box. *)
BatchInit ==
  /\ boxUp = {} /\ left = [j \in BatchJobs |-> {}] /\ images = [d \in Digests |-> "absent"]
  /\ digestLock = [d \in Digests |-> Nobody]
  /\ worker = [j \in BatchJobs |-> [at |-> "idle", attempt |-> 0, ok |-> FALSE]]
  /\ \E shape \in LeaseShapes : batch = [at |-> "specs", shape |-> shape, polls |-> 0, peak |-> 0,
                                        job |-> 1, scan |-> 1]
  /\ report = CleanReport /\ watch = [j \in BatchJobs |-> "none"] /\ faults = 0

Fault == faults < MaxFaults /\ faults' = faults + 1
NoFault == UNCHANGED faults

FanOut ==
  /\ batch.at = "specs"
  /\ LET spec == FromLease("none", batch.shape)
     IN  IF EngineTakes(spec)
         THEN /\ batch' = [batch EXCEPT !.at = "polling"]
              /\ worker' = [j \in BatchJobs |-> [worker[j] EXCEPT !.at = "lock"]]
         ELSE batch' = [batch EXCEPT !.at = "bailed"] /\ UNCHANGED worker
  /\ UNCHANGED <<boxUp, left, images, digestLock, report, watch, faults>>

--------------------------------------------------------------------------------
(* A worker thread: run_one, with verify_on_box in front of docker run. *)

WorkerGoes(j, at) == worker' = [worker EXCEPT ![j].at = at]
WorkerEnds(j, ok) == worker' = [worker EXCEPT ![j].at = "finished", ![j].ok = ok]
Unlock(j) == digestLock' = [digestLock EXCEPT ![DigestOf[j]] = Nobody]

(* digest_lock *)
LockFree(j) == digestLock[DigestOf[j]] = Nobody

TakeLock(j) ==
  /\ worker[j].at = "lock"
  /\ LockFree(j)
  /\ digestLock' = [digestLock EXCEPT ![DigestOf[j]] = j]
  /\ worker' = [worker EXCEPT ![j].at = "pull", ![j].attempt = 1]
  /\ UNCHANGED <<boxUp, left, images, batch, report, watch, faults>>

(* pull_with_retry: the pull works; content-addressed, so what arrives under a *)
(* digest is that content or, from a registry that was tampered with, is not.  *)
PullOk(j) ==
  /\ worker[j].at = "pull"
  /\ images' = [images EXCEPT ![DigestOf[j]] = IF @ = "genuine" THEN @
                                               ELSE IF DigestOf[j] \in Tampered THEN "forged" ELSE "genuine"]
  /\ WorkerGoes(j, "inspect")
  /\ UNCHANGED <<boxUp, left, digestLock, batch, report, watch, faults>>

(* A transient failure is retried, the last one fails the job. *)
PullTransient(j) ==
  /\ worker[j].at = "pull" /\ Fault
  /\ IF worker[j].attempt < PullMaxAttempts
     THEN worker' = [worker EXCEPT ![j].attempt = @ + 1] /\ UNCHANGED digestLock
     ELSE WorkerEnds(j, FALSE) /\ Unlock(j)
  /\ UNCHANGED <<boxUp, left, images, batch, report, watch>>

(* is_permanent_pull_failure: the registry has no such content, no retry. *)
PullRefused(j) ==
  /\ worker[j].at = "pull" /\ DigestOf[j] \in Tampered
  /\ WorkerEnds(j, FALSE) /\ Unlock(j)
  /\ UNCHANGED <<boxUp, left, images, batch, report, watch, faults>>

(* RepoDigests must contain the pinned digest. *)
Resolves(j) == images[DigestOf[j]] = "genuine"

Inspect(j) ==
  /\ worker[j].at = "inspect" /\ Unlock(j)
  /\ \/ Resolves(j) /\ WorkerGoes(j, "run") /\ NoFault
     \/ ~Resolves(j) /\ WorkerEnds(j, FALSE) /\ NoFault
     \/ Fault /\ WorkerEnds(j, FALSE)
  /\ UNCHANGED <<boxUp, left, images, batch, report, watch>>

(* docker run --rm --name: a failed answer may hide a container that is up. *)
SpawnContainer(j) ==
  /\ worker[j].at = "run"
  /\ \/ boxUp' = boxUp \cup {j} /\ WorkerGoes(j, "exec") /\ NoFault
     \/ boxUp' \in {boxUp, boxUp \cup {j}} /\ WorkerEnds(j, FALSE) /\ Fault
  /\ UNCHANGED <<left, images, digestLock, batch, report, watch>>

(* engine.exec: exit 0 is the only success, and it takes a container. *)
ExecJob(j) ==
  /\ worker[j].at = "exec"
  /\ \/ j \in boxUp /\ WorkerEnds(j, TRUE)
     \/ WorkerEnds(j, FALSE)
  /\ UNCHANGED <<boxUp, left, images, digestLock, batch, report, watch, faults>>

--------------------------------------------------------------------------------
(* The scheduler: census polls while threads run, the joins, the teardowns. *)

Finished == \A j \in BatchJobs : worker[j].at = "finished"

Poll ==
  /\ batch.at = "polling" /\ ~Finished /\ batch.polls < MaxPolls
  /\ batch' = [batch EXCEPT !.polls = @ + 1, !.peak = Max({@, Cardinality(boxUp)})]
  /\ UNCHANGED <<boxUp, left, images, digestLock, worker, report, watch, faults>>

Joined == batch.at = "polling" /\ Finished

Join ==
  /\ Joined
  /\ \/ batch' = [batch EXCEPT !.at = "remove", !.peak = Max({@, Cardinality(boxUp)})] /\ NoFault
     \/ batch' = [batch EXCEPT !.at = "remove"] /\ Fault            \* the census failed
  /\ UNCHANGED <<boxUp, left, images, digestLock, worker, report, watch>>

(* docker rm -f, after which the kernel may still hold something. *)
Removed(j) == boxUp' = boxUp \ {j} /\ \E some \in Leftovers : left' = [left EXCEPT ![j] = IF j \in boxUp THEN some ELSE @]

TornDown(j) == [batch EXCEPT !.job = j + 1, !.scan = 1, !.at = IF j = NumJobs THEN "reported" ELSE "remove"]

(* A teardown that fails is recorded and the next container is torn down. *)
TeardownRemove ==
  LET j == batch.job
  IN  /\ batch.at = "remove"
      /\ \/ Removed(j) /\ batch' = [batch EXCEPT !.at = "scan"] /\ UNCHANGED report /\ NoFault
         \/ /\ Fault /\ (Removed(j) \/ UNCHANGED <<boxUp, left>>)
            /\ report' = [report EXCEPT !.failures = @ \cup {j}] /\ batch' = TornDown(j)
      /\ UNCHANGED <<images, digestLock, worker, watch>>

(* Mutant: what a scan that failed leaves out counts as nothing found. *)
ScanFailedSilently(j, s) == UNCHANGED report

(* scan_failure and grep_scan_failure: an empty answer of a scan that did not *)
(* run to its end proves nothing.                                             *)
ScanFailed(j, s) == report' = [report EXCEPT !.scanFailures = @ \cup {<<j, s>>}]

TeardownScan ==
  LET j == batch.job  s == Scans[batch.scan]
  IN  /\ batch.at = "scan"
      /\ \/ /\ report' = [report EXCEPT !.residue = @ \cup
                 (IF (s = "containers" /\ j \in boxUp) \/ s \in left[j] THEN {<<j, s>>} ELSE {})] /\ NoFault
         \/ ScanFailed(j, s) /\ Fault
      /\ batch' = IF batch.scan = Len(Scans) THEN TornDown(j) ELSE [batch EXCEPT !.scan = @ + 1]
      /\ UNCHANGED <<boxUp, left, images, digestLock, worker, watch>>

--------------------------------------------------------------------------------
(* What may end a job while the batch runs. *)

(* The container dies by itself; --rm reaps it. *)
BoxCrash(j) ==
  /\ j \in boxUp /\ boxUp' = boxUp \ {j}
  /\ UNCHANGED <<left, images, digestLock, worker, batch, report, watch, faults>>

(* hard_kill: docker kill, which tolerates a container that is not running,  *)
(* then the forensic teardown.                                               *)
HardKill(j) ==
  /\ worker[j].at = "exec" /\ watch[j] = "none"
  /\ Removed(j) /\ watch' = [watch EXCEPT ![j] = "killed"]
  /\ UNCHANGED <<images, digestLock, worker, batch, report, faults>>

(* probe_liveness looks for the name in the output and not at the exit code: *)
(* a docker ps that fails prints no name.                                    *)
ProbesLost(j, failed) == failed \/ j \notin boxUp

DetectAndRecover(j) ==
  /\ worker[j].at = "exec" /\ watch[j] = "none"
  /\ \E failed \in BOOLEAN :
       /\ IF failed THEN Fault ELSE NoFault
       /\ ProbesLost(j, failed)
       /\ watch' = [watch EXCEPT ![j] = IF j \in boxUp THEN "lost alive" ELSE "lost"]
  /\ Removed(j)
  /\ UNCHANGED <<images, digestLock, worker, batch, report>>

BatchNext ==
  \/ FanOut \/ Poll \/ Join
  \/ \E j \in BatchJobs :
       \/ TakeLock(j) \/ PullOk(j) \/ PullTransient(j) \/ PullRefused(j) \/ Inspect(j)
       \/ SpawnContainer(j) \/ ExecJob(j)
       \/ BoxCrash(j) \/ HardKill(j) \/ DetectAndRecover(j)
  \/ TeardownRemove \/ TeardownScan

BatchSpec == BatchInit /\ [][BatchNext]_batchVars

--------------------------------------------------------------------------------
(* A batch reported as torn down with nothing found has left nothing on the  *)
(* box: no container, although a docker run whose answer was lost may have   *)
(* started one, and nothing on a surface that could not be scanned.          *)
CleanBatchIsClean ==
  batch.at = "reported" /\ report = CleanReport
    => boxUp = {} /\ \A j \in BatchJobs : left[j] = {}

(* Threads that share a digest never pull it at the same time, and a job runs *)
(* or succeeds only on content that matched its pin.                          *)
VerifiedBeforeRun ==
  /\ \A i, j \in BatchJobs : i # j /\ DigestOf[i] = DigestOf[j] => ~(worker[i].at = "pull" /\ worker[j].at = "pull")
  /\ \A j \in BatchJobs : j \in boxUp \/ worker[j].ok => DigestOf[j] \notin Tampered

(* Batches: a job runs only on verified content, and a batch reported clean is. *)
BatchesHold == CleanBatchIsClean /\ VerifiedBeforeRun

(* "no false-positive recovery": only a job whose container is gone is lost. *)
NoFalseRecovery == \A j \in BatchJobs : watch[j] # "lost alive"
===============================================================================
