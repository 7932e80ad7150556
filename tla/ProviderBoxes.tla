----------------------------- MODULE ProviderBoxes -----------------------------
(***************************************************************************)
(* The box provisioners and the cloud engines below them: which engine the *)
(* environment selects, how a lease is routed to Northflank or Cloudflare, *)
(* the requests each engine sends, the in-process registry of bindings,    *)
(* the durable provider reference that survives a restart, teardown, and   *)
(* the execution of a command on a box.                                    *)
(*                                                                         *)
(* A request may fail, and may fail after the provider did the work.  A    *)
(* restart clears the registry and may change the provider's domain.       *)
(***************************************************************************)
EXTENDS Integers, FiniteSets

CONSTANTS
  BoxedLeases,
  ExecCalls,       \* concurrent executions: call -> the lease they are for
  MaxRestarts,
  MaxPollAttempts  \* max_poll_attempts

Kinds == {"runner", "agent", "check", "checkhost"}
ASSUME ProviderAssumption ==
  /\ \A c \in DOMAIN ExecCalls : ExecCalls[c] \in BoxedLeases
  /\ MaxRestarts \in Nat /\ MaxPollAttempts \in Nat \ {0}

VARIABLES
  fleet,      \* the backend selected, the engines whose runner disk is below the floor, the
              \* domain, and the kind of each lease
  registry,   \* BoxRegistry: handles, routes (modes) and no-box evidence
  routes,     \* HybridBoxProvisioner.routes
  provider,   \* the boxes that exist: [lease, engine, domain]
  command,    \* per lease, the command its Northflank job is set to and that of its last run
  boxRef,     \* the ledger's provider reference of each lease
  lease,      \* per lease: "new", "provisioned", "failed", "confirmed", "forgotten"
  exec,       \* per call: where it is, the command its run executes and the one its logs are of,
              \* polls, the run, the exit code
  restarts

providerVars == <<fleet, registry, routes, provider, command, boxRef, lease, exec, restarts>>

NoRoute == "none"
LocalDomain == -1      \* local:nobox
NoRef == [route |-> NoRoute, engine |-> "off", domain |-> LocalDomain]   \* nothing bound

--------------------------------------------------------------------------------
(* Configuration *)

EnvValues == {"absent", "empty", "set"}

(* The three scoped tokens: all there, without blanks, pairwise distinct. *)
TokenShapes == {"distinct", "shared", "padded", "missing"}
CfPresent(url, tokens) == url = "https" /\ tokens = "distinct"
NfPresent(token, project) == token = "set" /\ project = "set"

(* select_backend *)
SelectBackend(cf, nf) ==
  CASE cf /\ nf -> "hybrid" [] cf /\ ~nf -> "cloudflare" [] ~cf /\ nf -> "northflank" [] OTHER -> "off"

ProviderInit ==
  /\ \E token, project \in EnvValues, url \in {"absent", "https", "garbage"}, tokens \in TokenShapes,
          low \in SUBSET {"northflank", "cloudflare"},
          kind \in [BoxedLeases -> Kinds] :
       fleet = [kind |-> kind, backend |-> SelectBackend(CfPresent(url, tokens), NfPresent(token, project)),
                lowDisk |-> low, domain |-> 0]
  /\ registry = [boxes |-> {}, modes |-> [l \in BoxedLeases |-> NoRoute], noBox |-> {}]
  /\ routes = [l \in BoxedLeases |-> NoRoute]
  /\ provider = {} /\ command = [l \in BoxedLeases |-> [set |-> "none", last |-> "none"]]
  /\ boxRef = [l \in BoxedLeases |-> NoRef] /\ lease = [l \in BoxedLeases |-> "new"]
  /\ exec = [c \in DOMAIN ExecCalls |-> [at |-> "idle", ran |-> "none", logs |-> "none", polls |-> 0, fate |-> "none", code |-> "none"]]
  /\ restarts = 0

--------------------------------------------------------------------------------
(* Routing *)

(* Egress makes a runner; a check with a toolchain digest is a check host. *)
RouteOf(l) == IF fleet.kind[l] \in {"runner", "agent"} THEN "runner" ELSE fleet.kind[l]

EngineOfRoute(route) ==
  CASE fleet.backend = "hybrid" -> IF route = "check" THEN "northflank" ELSE "cloudflare"
    [] OTHER -> fleet.backend

(* Neither a box of its own nor another backend: CloudflareBoxProvisioner and *)
(* NoBoxProvisioner record that there is nothing to tear down.                *)
NeedsNoBox(l) == fleet.backend = "off" \/ (fleet.backend = "cloudflare" /\ RouteOf(l) = "check")

(* The lease's route as this process knows it. *)
KnownRoute(l) == IF fleet.backend = "hybrid" THEN routes[l] ELSE registry.modes[l]
Bound(l) == l \in registry.boxes /\ KnownRoute(l) # NoRoute

(* A job is found by its name, a worker's container by its handle and its mode. *)
JobOf(l) == [lease |-> l, engine |-> "northflank", domain |-> fleet.domain, mode |-> "job"]
WorkerBoxOf(l, route) == [lease |-> l, engine |-> "cloudflare", domain |-> fleet.domain, mode |-> route]
BoxOf(l, route) == IF EngineOfRoute(route) = "northflank" THEN JobOf(l) ELSE WorkerBoxOf(l, route)

(* bind_with_route: no box may be bound over other evidence. *)
BindWithRoute(l, route) ==
  registry' = [registry EXCEPT !.boxes = @ \cup {l}, !.modes[l] = route]

--------------------------------------------------------------------------------
(* provision *)

(* NorthflankEngine::spawn refuses a runner whose disk is below the floor.     *)
(* CloudflareEngine::spawn serves no plain hermetic check, and every request   *)
(* it sends validates its configuration first, the runner's disk included.     *)
JobRefused(l) == RouteOf(l) = "runner" /\ "northflank" \in fleet.lowDisk
ConfigValid == "cloudflare" \notin fleet.lowDisk
WorkerRefuses(l) == ~ConfigValid \/ RouteOf(l) = "check"
SpawnRefused(l) == IF EngineOfRoute(RouteOf(l)) = "northflank" THEN JobRefused(l) ELSE WorkerRefuses(l)

(* The hybrid records the route before it delegates. *)
RecordRoute(l) == routes' = IF fleet.backend = "hybrid" THEN [routes EXCEPT ![l] = RouteOf(l)] ELSE routes

ProvisionNoBox(l) ==
  /\ lease[l] = "new" /\ NeedsNoBox(l) /\ RecordRoute(l)
  /\ registry' = [registry EXCEPT !.noBox = @ \cup {l}]
  /\ lease' = [lease EXCEPT ![l] = "provisioned"]
  /\ UNCHANGED <<fleet, provider, command, boxRef, exec, restarts>>

Provision(l) ==
  /\ lease[l] = "new" /\ ~NeedsNoBox(l) /\ ~SpawnRefused(l) /\ RecordRoute(l)
  /\ provider' = provider \cup {BoxOf(l, RouteOf(l))}
  /\ BindWithRoute(l, RouteOf(l))
  /\ lease' = [lease EXCEPT ![l] = "provisioned"]
  /\ UNCHANGED <<fleet, command, boxRef, exec, restarts>>

(* spawn fails.  The job may exist: its answer was lost, or a runner's run could *)
(* not be triggered after the job was created.                                   *)
SpawnJobFails(l) ==
  /\ EngineOfRoute(RouteOf(l)) = "northflank"
  /\ \/ UNCHANGED provider
     \/ ~JobRefused(l) /\ provider' = provider \cup {JobOf(l)}

(* So may the container: the answer was lost, or its handle is refused. *)
SpawnWorkerFails(l) ==
  /\ EngineOfRoute(RouteOf(l)) = "cloudflare"
  /\ \/ UNCHANGED provider
     \/ ~WorkerRefuses(l) /\ provider' = provider \cup {WorkerBoxOf(l, RouteOf(l))}

ProvisionError(l) ==
  /\ lease[l] = "new" /\ ~NeedsNoBox(l) /\ RecordRoute(l)
  /\ SpawnJobFails(l) \/ SpawnWorkerFails(l)
  /\ lease' = [lease EXCEPT ![l] = "failed"]
  /\ UNCHANGED <<fleet, registry, command, boxRef, exec, restarts>>

(* What binding_ref encodes: nothing of a provider, or the route, the engine and its domain. *)
NoBoxRef == [route |-> "nobox", engine |-> "off", domain |-> LocalDomain]
BoxedRef(l, engine) == [route |-> registry.modes[l], engine |-> engine, domain |-> fleet.domain]
HybridRef(l) == [BoxedRef(l, EngineOfRoute(routes[l])) EXCEPT !.route = routes[l]]
BindingRef(l) ==
  IF l \in registry.noBox THEN NoBoxRef
  ELSE IF fleet.backend = "hybrid" THEN HybridRef(l) ELSE BoxedRef(l, fleet.backend)

(* validate, on encoding and on decoding. *)
WellFormedRef(ref) ==
  CASE ref.engine = "off" -> ref = NoBoxRef
    [] ref.engine = "cloudflare" -> ref.route \in {"runner", "checkhost"} /\ ref.domain # LocalDomain
    [] OTHER -> ref.route \in {"runner", "check", "checkhost"} /\ ref.domain # LocalDomain

BindProviderRef(l) ==
  /\ lease[l] = "provisioned" /\ boxRef[l] = NoRef
  /\ Bound(l) \/ l \in registry.noBox
  /\ WellFormedRef(BindingRef(l))
  /\ boxRef' = [boxRef EXCEPT ![l] = BindingRef(l)]
  /\ UNCHANGED <<fleet, registry, routes, provider, command, lease, exec, restarts>>

--------------------------------------------------------------------------------
(* restart, restore_for_operation *)

Restart(domain) ==
  /\ restarts < MaxRestarts /\ restarts' = restarts + 1
  /\ registry' = [boxes |-> {}, modes |-> [l \in BoxedLeases |-> NoRoute], noBox |-> {}]
  /\ routes' = [l \in BoxedLeases |-> NoRoute]
  /\ fleet' = [fleet EXCEPT !.domain = domain]
  /\ exec' = [c \in DOMAIN ExecCalls |-> [exec[c] EXCEPT !.at = IF @ \in {"idle", "returned"} THEN @ ELSE "done"]]
  /\ UNCHANGED <<provider, command, boxRef, lease>>

(* Mutant: any reference is taken, whatever provider it was made by. *)
RestorableAnywhere(l, ref) == ref.route # "nobox"

(* restore_binding: the reference must be this backend's and this domain's, and *)
(* contradict nothing this process knows of the lease.                          *)
RestorableJob(ref) == ref.engine = "northflank" /\ ref.domain = fleet.domain
RestorableWorkerBox(ref) ==
  ref.engine = "cloudflare" /\ ref.domain = fleet.domain /\ ref.route \in {"runner", "checkhost"}
HybridRestorable(l, ref) ==
  /\ ref.route # "nobox" /\ routes[l] \in {NoRoute, ref.route}
  /\ IF ref.route = "check" THEN RestorableJob(ref) ELSE RestorableWorkerBox(ref)
Restorable(l, ref) ==
  /\ CASE fleet.backend = "hybrid" -> HybridRestorable(l, ref)
       [] fleet.backend = "northflank" -> RestorableJob(ref)
       [] fleet.backend = "cloudflare" -> RestorableWorkerBox(ref)
       [] OTHER -> FALSE
  /\ l \notin registry.noBox /\ registry.modes[l] \in {NoRoute, ref.route}

RestoredRoute(ref) == ref.route

Restore(l) ==
  LET ref == boxRef[l]
  IN  /\ ref # NoRef /\ WellFormedRef(ref) /\ lease[l] \in {"provisioned", "failed"} /\ ~Bound(l)
      /\ \/ /\ Restorable(l, ref) /\ BindWithRoute(l, RestoredRoute(ref))
            /\ routes' = IF fleet.backend = "hybrid" THEN [routes EXCEPT ![l] = RestoredRoute(ref)] ELSE routes
         \/ /\ ref.route = "nobox" /\ fleet.backend \in {"off", "cloudflare"} /\ l \notin registry.noBox
            /\ registry' = [registry EXCEPT !.noBox = @ \cup {l}] /\ UNCHANGED routes
      /\ UNCHANGED <<fleet, provider, command, boxRef, lease, exec, restarts>>

--------------------------------------------------------------------------------
(* teardown, teardown_pending, forget_pending_cleanup, probe *)

(* Without a binding there is evidence only for a lease that needed no box. *)
Confirms(l) == Bound(l) \/ l \in registry.noBox

(* delete_job, teardown_with_mode: 2xx or 404 confirm.  The engine and the     *)
(* mode are those of the known route, in today's domain.                       *)
Teardown(l) ==
  /\ lease[l] \in {"provisioned", "failed"} /\ Confirms(l)
  /\ provider' = IF Bound(l) THEN provider \ {BoxOf(l, KnownRoute(l))} ELSE provider
  /\ lease' = [lease EXCEPT ![l] = "confirmed"]
  /\ UNCHANGED <<fleet, registry, routes, command, boxRef, exec, restarts>>

(* The request fails; the box may be gone all the same. *)
TeardownRetryable(l) ==
  /\ lease[l] \in {"provisioned", "failed"} /\ Bound(l)
  /\ BoxOf(l, KnownRoute(l)) \in provider
  /\ provider' = provider \ {BoxOf(l, KnownRoute(l))}
  /\ UNCHANGED <<fleet, registry, routes, command, boxRef, lease, exec, restarts>>

ForgetPendingCleanup(l) ==
  /\ lease[l] = "confirmed"
  /\ registry' = [registry EXCEPT !.boxes = @ \ {l}, !.modes[l] = NoRoute, !.noBox = @ \ {l}]
  /\ routes' = [routes EXCEPT ![l] = NoRoute]
  /\ lease' = [lease EXCEPT ![l] = "forgotten"]
  /\ UNCHANGED <<fleet, provider, command, boxRef, exec, restarts>>

(* probe: Unbound without a binding, else what the engine says; a status that *)
(* is neither 2xx nor 404 is an error.                                        *)
ProbeOf(l) == IF ~Bound(l) THEN {"unbound"}
              ELSE {IF BoxOf(l, KnownRoute(l)) \in provider THEN "alive" ELSE "dead", "error"}

--------------------------------------------------------------------------------
(* exec_captured_for *)

(* HybridLeasedExec and EngineLeasedExec: a runner never executes, an unknown *)
(* lease fails closed, and so does Cloudflare's box without check mode.       *)
Executes(l) == Bound(l) /\ (fleet.backend = "hybrid" => KnownRoute(l) # "runner")

ExecGoes(c, at) == exec' = [exec EXCEPT ![c].at = at]

ExecStart(c) ==
  LET l == ExecCalls[c]
  IN  /\ exec[c].at = "idle" /\ lease[l] = "provisioned"
      /\ IF ~Executes(l) THEN ExecGoes(c, "done")
         ELSE IF EngineOfRoute(KnownRoute(l)) = "northflank" THEN ExecGoes(c, "set") ELSE ExecGoes(c, "worker")
      /\ UNCHANGED <<fleet, registry, routes, provider, command, boxRef, lease, restarts>>

(* set_command: the job of the lease now runs this call's command. *)
SetCommand(c) ==
  /\ exec[c].at = "set" /\ command' = [command EXCEPT ![ExecCalls[c]].set = c]
  /\ ExecGoes(c, "trigger")
  /\ UNCHANGED <<fleet, registry, routes, provider, boxRef, lease, restarts>>

(* run_to_completion starts a run of the job as it is now. *)
TriggerRun(c) ==
  /\ exec[c].at = "trigger"
  /\ LET run == command[ExecCalls[c]].set
     IN  /\ exec' = [exec EXCEPT ![c].at = "poll", ![c].ran = run, ![c].fate = "running"]
         /\ command' = [command EXCEPT ![ExecCalls[c]].last = run]
  /\ UNCHANGED <<fleet, registry, routes, provider, boxRef, lease, restarts>>

(* The run ends. *)
RunEnds(c, fate) ==
  /\ exec[c].at = "poll" /\ exec[c].fate = "running"
  /\ exec' = [exec EXCEPT ![c].fate = fate]
  /\ UNCHANGED <<fleet, registry, routes, provider, command, boxRef, lease, restarts>>

(* The strings of a status body; a failed run may sit in an envelope that     *)
(* itself says SUCCESS, and a body may say something undocumented or nothing. *)
StatusBodies(fate) ==
  CASE fate = "succeeded" -> {{"SUCCESS"}, {"SUCCESS", "DONE"}}
    [] fate = "failed" -> {{"FAILED"}, {"SUCCESS", "FAILED"}, {"CRASHED"}}
    [] OTHER -> {{}, {"RUNNING"}, {"COMPLETED"}}

FailTokens == {"FAILED", "FAILURE", "ERROR", "CRASHED", "CANCELLED"}

(* classify_run_status *)
ClassifyRunStatus(body) ==
  IF body \cap FailTokens # {} THEN "failed" ELSE IF "SUCCESS" \in body THEN "succeeded" ELSE "running"

(* One poll: a terminal status ends the run, the last poll fails the call. *)
PollRun(c) ==
  /\ exec[c].at = "poll"
  /\ \E body \in StatusBodies(exec[c].fate) :
       LET state == ClassifyRunStatus(body)
       IN  exec' = [exec EXCEPT ![c].polls = @ + 1,
             ![c].at = IF state # "running" THEN "logs" ELSE IF exec[c].polls + 1 = MaxPollAttempts THEN "done" ELSE @,
             ![c].code = CASE state = "succeeded" -> "0" [] state = "failed" -> "1" [] OTHER -> @]
  /\ UNCHANGED <<fleet, registry, routes, provider, command, boxRef, lease, restarts>>

(* fetch_logs: those of the job, whichever run they are of. *)
FetchLogs(c) ==
  /\ exec[c].at = "logs"
  /\ exec' = [exec EXCEPT ![c].at = "returned", ![c].logs = command[ExecCalls[c]].last]
  /\ UNCHANGED <<fleet, registry, routes, provider, command, boxRef, lease, restarts>>

(* Cloudflare executes in one request, which names its command; an exit code  *)
(* that is not an integer in range fails the call, null is a killed process.  *)
WorkerExec(c) ==
  /\ exec[c].at = "worker"
  /\ \E fate \in {"succeeded", "failed", "killed"} :
       exec' = [exec EXCEPT ![c].at = "returned", ![c].ran = c, ![c].logs = c, ![c].fate = fate,
                ![c].code = CASE fate = "succeeded" -> "0" [] fate = "failed" -> "1" [] OTHER -> "none"]
  /\ UNCHANGED <<fleet, registry, routes, provider, command, boxRef, lease, restarts>>

(* Any of the requests fails. *)
ExecFails(c) ==
  /\ exec[c].at \in {"set", "trigger", "poll", "logs", "worker"} /\ ExecGoes(c, "done")
  /\ UNCHANGED <<fleet, registry, routes, provider, command, boxRef, lease, restarts>>

ProviderNext ==
  \/ \E l \in BoxedLeases :
       \/ ProvisionNoBox(l) \/ Provision(l) \/ ProvisionError(l) \/ BindProviderRef(l) \/ Restore(l)
       \/ Teardown(l) \/ TeardownRetryable(l) \/ ForgetPendingCleanup(l)
  \/ \E c \in DOMAIN ExecCalls :
       \/ ExecStart(c) \/ SetCommand(c) \/ TriggerRun(c) \/ PollRun(c) \/ FetchLogs(c) \/ WorkerExec(c) \/ ExecFails(c)
       \/ \E fate \in {"succeeded", "failed"} : RunEnds(c, fate)
  \/ \E domain \in 0..MaxRestarts : Restart(domain)

ProviderSpec == ProviderInit /\ [][ProviderNext]_providerVars

--------------------------------------------------------------------------------
(* A teardown that is confirmed, and a probe that answers Dead, are about the  *)
(* box the lease really has: none is left at either engine or in any domain,   *)
(* although the process may have restarted, moved or lost an answer since.     *)
ConfirmedIsGone ==
  \A l \in BoxedLeases :
    lease[l] \in {"confirmed", "forgotten"} \/ ("dead" \in ProbeOf(l)) => \A b \in provider : b.lease # l

(* An exit code of 0 rests on a run that succeeded, and no lease the fabric    *)
(* routes to a runner of the hybrid fleet ever executes.                       *)
SuccessIsEvidence ==
  \A c \in DOMAIN ExecCalls :
    /\ exec[c].at = "returned" /\ exec[c].code = "0" => exec[c].fate = "succeeded"
    /\ fleet.backend = "hybrid" /\ RouteOf(ExecCalls[c]) = "runner" => exec[c].ran = "none"

(* Two executions of one lease, as the exec handler admits them while the lease *)
(* is Held: the value of ExecCalls in the runs.                                 *)
MCExecCalls == [c1 |-> "l", c2 |-> "l"]

(* "there is no ambiguity between runs of the same job": the run whose code    *)
(* and logs a call returns executed the command of that call.                  *)
RunIsOwn == \A c \in DOMAIN ExecCalls : exec[c].at = "returned" => exec[c].ran = c /\ exec[c].logs = c
===============================================================================
