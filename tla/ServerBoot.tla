----------------------------- MODULE ServerBoot -----------------------------
(****************************************************************************)
(* The start and the stop of corelink-fabricd (server.rs, main.rs): the       *)
(* environment is read into a ServerConfig, the introspection key is probed,  *)
(* the state and its seams are built, the background tasks are spawned, the   *)
(* server serves until a signal and then aborts its tasks and flushes.  The   *)
(* environment is chosen as it is read: a variable is absent, empty, spaces,  *)
(* bad, zero or ok, and each reader decides which of these is fatal.          *)
(****************************************************************************)
EXTENDS Naturals, FiniteSets

VARIABLES
  bootAt,   \* the next step, "failed", "serving", "exited"
  config,   \* ServerConfig and the seams built from it
  running,  \* background tasks
  usage     \* the usage push: "none", "buffered", "late" (buffered after the last flush)

bootVars == <<bootAt, config, running, usage>>

Texts == {"absent", "blank", "set"}
Numbers == {"absent", "empty", "spaces", "bad", "zero", "ok"}

NoConfig ==
  [bind |-> "unread", key |-> [kind |-> "unread", dev |-> FALSE], auth |-> "unread", ladder |-> FALSE,
   mock |-> FALSE, northflank |-> FALSE, ledger |-> "unread", admission |-> "unread", grants |-> FALSE,
   export |-> FALSE, vcpu |-> FALSE, wall |-> FALSE, signer |-> FALSE,
   backend |-> "unread", mint |-> [armed |-> FALSE, endpoint |-> FALSE, base |-> FALSE], push |-> [url |-> FALSE, target |-> FALSE]]

BootInit ==
  /\ bootAt = "bind"
  /\ config = NoConfig
  /\ running = {}
  /\ usage = "none"

(* The step at `from` reads `v` as setting `k`, and an error ends the process. *)
Reads(from, to, k, v, ok) ==
  /\ bootAt = from
  /\ IF ok THEN bootAt' = to /\ config' = [config EXCEPT ![k] = v] /\ UNCHANGED running
     ELSE bootAt' = "failed" /\ config' = NoConfig /\ running' = {}
  /\ UNCHANGED usage

Checks(from, to, ok) == Reads(from, to, "bind", config.bind, ok)

Blank == {"absent", "empty", "spaces"}

(* parse_positive_usize: absent and blank are the default, zero is refused. *)
ParsePositive(v) == v \in Blank \cup {"ok"}

(* The intervals of the tasks: spaces are not blank. *)
ParseInterval(v) == v \in {"absent", "empty", "ok"}

--------------------------------------------------------------------------------
(* config_from_env *)

ReadBind == \E addr \in {"loopback", "public", "malformed"} :
  Reads("bind", "key", "bind", addr, addr # "malformed")

(* FABRIC_SIGNING_KEY, or the well-known seed on a loopback bind. *)
ReadSigningKey == \E key \in Texts \cup {"malformed"}, dev \in BOOLEAN :
  LET seeded == key \in {"absent", "blank"}
  IN  Reads("key", "auth", "key", [kind |-> IF seeded THEN "dev" ELSE "real", dev |-> dev],
            IF seeded THEN dev /\ config.bind = "loopback" ELSE key = "set")

(* FABRIC_AUTH_BACKEND and the variables each backend requires; a zero *)
(* timeout is accepted, a blank one is not.                            *)
ReadAuth == \E backend \in {"static", "corelink", "unknown"}, first, second \in Texts, timeout \in Numbers :
  /\ backend = "corelink" \/ timeout = "absent"
  /\ Reads("auth", "caps", "auth", backend,
           /\ backend # "unknown" /\ first = "set" /\ second = "set"
           /\ backend = "corelink" => timeout \in {"absent", "zero", "ok"})

(* The bootstrap cap is required, the rate defaults but may not be blank. *)
ReadCaps == \E cap \in Numbers, rate \in Numbers, ladder \in BOOLEAN :
  Reads("caps", "mock", "ladder", ladder, cap = "ok" /\ rate \in {"absent", "ok"})

(* Mutant: the mock is refused beside a cloud backend only. *)
MockAllowedSigned(dev, kind, northflank) == dev /\ ~northflank

MockAllowed(dev, kind, northflank) == dev /\ kind = "dev" /\ ~northflank

(* The last reader of FABRIC_DEV_UNSAFE. *)
ReadMock == \E mock, northflank \in BOOLEAN :
  /\ bootAt = "mock"
  /\ IF mock => MockAllowed(config.key.dev, config.key.kind, northflank)
     THEN bootAt' = "ledger" /\ config' = [config EXCEPT !.mock = mock, !.northflank = northflank, !.key.dev = FALSE]
     ELSE bootAt' = "failed" /\ config' = NoConfig
  /\ UNCHANGED <<running, usage>>

(* FABRIC_LEDGER_BACKEND, with DATABASE_URL for Postgres only. *)
ReadLedger == \E backend \in {"memory", "pg", "unknown"}, url \in Texts :
  Reads("ledger", "limits", "ledger", backend, backend = "memory" \/ (backend = "pg" /\ url = "set"))

(* Pool size, TLS mode, the in-flight caps, the breaker: all ParsePositive. *)
ReadLimits == \E limit \in Numbers, tls \in {"ok", "bad"} :
  Checks("limits", "admission", ParsePositive(limit) /\ tls = "ok")

ReadAdmission == \E mode \in {"reject", "queue", "unknown"} :
  Reads("admission", "grants", "admission", mode, mode # "unknown")

(* compute_budget_config::parse: a JSON object of distinct ids and 32-byte keys. *)
ParseComputeKeys(raw) == raw \in {"absent", "set"}

ReadComputeGrants == \E raw \in Texts \cup {"malformed"} :
  Reads("grants", "issuer", "grants", raw = "set",
        ParseComputeKeys(raw) /\ (raw = "set" => config.ledger = "pg"))

(* The issuer key; `grants` says that one of the two is configured. *)
ReadIssuerKey == \E key \in Texts \cup {"malformed"} :
  Reads("issuer", "export", "grants", config.grants \/ key = "set",
        key = "absent" \/ (key = "set" /\ config.ledger = "pg"))

(* Zero switches the exporter off, whatever the ledger. *)
ReadBillingExport == \E secs \in Numbers :
  Reads("export", "vcpu", "export", secs = "ok",
        secs \in Blank \cup {"zero"} \/ (secs = "ok" /\ config.ledger = "pg"))

ReadRunnerVcpu == \E n \in Numbers :
  Reads("vcpu", "wall", "vcpu", n = "ok", n # "bad")

(* FABRIC_TENANT_MAX_VCPU_H: zero is refused here, as is an overflow. *)
ReadMaxVcpuHours == \E n \in Numbers \cup {"overflowing"} :
  Reads("wall", "guards", "wall", n = "ok", ParsePositive(n))

(* StaticPlans::tenant_ceiling_vcpu_ms of the bootstrap tenant: the explicit *)
(* ceiling, or that of the tier its cap belongs to, or 0.                    *)
BootstrapCeiling(c) == IF c.wall \/ c.ladder THEN 1 ELSE 0

(* The ceiling needs the shared ledger and a wall, and cannot be set from *)
(* the environment when the entitlement comes from CoreLink.              *)
CeilingGuards(c) ==
  /\ c.vcpu => c.ledger = "pg"
  /\ c.vcpu /\ c.auth = "static" => BootstrapCeiling(c) # 0
  /\ ~(c.wall /\ c.auth = "corelink")

(* From here on only the resolved ceiling of the bootstrap tenant counts. *)
CheckCeiling ==
  /\ bootAt = "guards"
  /\ IF CeilingGuards(config)
     THEN bootAt' = "probe" /\ config' = [config EXCEPT !.wall = BootstrapCeiling(config) > 0, !.ladder = FALSE]
     ELSE bootAt' = "failed" /\ config' = NoConfig
  /\ UNCHANGED <<running, usage>>

--------------------------------------------------------------------------------
(* boot_introspect_selfcheck *)

ClassifyIntrospectBootcheck(status) ==
  CASE status = "2xx" -> "KeyOk"
    [] status \in {"5xx", "transport"} -> "Transient"
    [] OTHER -> "KeyRejected"

BootIntrospectSelfcheck == \E status \in {"2xx", "4xx", "5xx", "transport"}, warn \in BOOLEAN :
  /\ config.auth = "static" => status = "2xx" /\ ~warn
  /\ Checks("probe", "secret",
            config.auth = "static" \/ ClassifyIntrospectBootcheck(status) # "KeyRejected" \/ warn)

--------------------------------------------------------------------------------
(* build_app_and_state *)

(* reject_weak_secret *)
ArmCredSigner == \E secret \in {"absent", "strong", "weak"} :
  Reads("secret", "connect", "signer", secret = "strong", secret # "weak")

(* Memory, or PgLedger::connect, which may fail and never falls back. *)
ConnectLedger == \E reachable \in BOOLEAN :
  Checks("connect", "cloud", config.ledger = "pg" => reachable)

(* The mock, or the paired or single cloud backends, or none. *)
WireCloud == \E cloudflare \in BOOLEAN :
  /\ bootAt = "cloud" /\ bootAt' = "testmint"
  /\ config' = [config EXCEPT !.mock = FALSE, !.northflank = FALSE, !.backend =
       CASE config.mock -> "mock"
         [] cloudflare /\ config.northflank -> "hybrid"
         [] cloudflare -> "cloudflare"
         [] config.northflank -> "northflank"
         [] OTHER -> "none"]
  /\ UNCHANGED <<running, usage>>

ValidateMintArm(mint, signer, endpoint, base) == mint => signer /\ endpoint /\ base

(* reject_weak_secret: a development sentinel, or shorter than 16. *)
WeakSecret(key) == key = "weak"

(* TestMintConfig::from_env: armed by its key, which must be strong. *)
ArmTestMint == \E key \in {"absent", "strong", "weak"} :
  Checks("testmint", "mint", ~WeakSecret(key))

(* cas_pat_mint_from_env: a strong key and a URL, or neither. *)
CasPatMintFromEnv(key, url) == (url <=> key # "absent") /\ ~WeakSecret(key)

(* The mint, coupled with the signer, CLW_ENDPOINT and FABRIC_PUBLIC_BASE_URL. *)
ArmMint == \E key \in {"absent", "strong", "weak"}, url, endpoint, base \in BOOLEAN :
  LET armed == url /\ key = "strong"
  IN  Reads("mint", "push_target", "mint", [armed |-> armed, endpoint |-> armed /\ endpoint, base |-> armed /\ base],
            /\ CasPatMintFromEnv(key, url)
            /\ ValidateMintArm(armed, config.signer, endpoint, base))

(* CorelinkBillingTarget::from_env: the URL, a key and a region, or no target. *)
WirePushTarget == \E url, key, region \in BOOLEAN :
  Reads("push_target", "tasks", "push", [url |-> url, target |-> url /\ key /\ region], TRUE)

--------------------------------------------------------------------------------
(* main: the tasks, in the order they are spawned *)

Spawns(from, to, task, wanted, ok) ==
  /\ bootAt = from
  /\ IF ok
     THEN bootAt' = to /\ running' = (IF wanted THEN running \cup {task} ELSE running) /\ UNCHANGED config
     ELSE bootAt' = "failed" /\ config' = NoConfig /\ running' = {}
  /\ UNCHANGED usage

(* maybe_spawn_crash_sweep_from_env, after reaper_config_from_env. *)
SpawnCrashSweep == \E interval \in Numbers, reaper \in Numbers :
  Spawns("tasks", "queue", "crash_sweep", interval = "ok", ParseInterval(reaper) /\ ParseInterval(interval))

SpawnAdmission == Spawns("queue", "exporter", "admission", config.admission = "queue", TRUE)

(* PgBillingSink::connect: a connection, the table, a multi-thread runtime. *)
SinkConnects(pool, ddl, multiThread) == pool /\ ddl /\ multiThread

(* maybe_spawn_billing_exporter *)
SpawnExporter == \E pool, ddl \in BOOLEAN :
  Spawns("exporter", "quota", "exporter", config.export, config.export => SinkConnects(pool, ddl, TRUE))

(* quota_check_config_from_env *)
SpawnQuotaHeadroom == \E interval \in Numbers, allowance \in Numbers :
  Spawns("quota", "push", "quota_headroom", interval = "ok",
         ParseInterval(interval) /\ (interval = "ok" => ParsePositive(allowance)))

(* maybe_spawn_billing_push_flush: gated on the URL alone. *)
SpawnPushFlush == Spawns("push", "reaper", "push_flush", config.push.url, TRUE)

SpawnReaper == \E age \in Numbers :
  Spawns("reaper", "listen", "reaper", TRUE, ParseInterval(age))

Listen == \E free \in BOOLEAN : Spawns("listen", "serving", "requests", TRUE, free)

--------------------------------------------------------------------------------
(* A lease ends and its usage is buffered, by a handler or a sweep. *)
LeaseEnds ==
  /\ config.push.target
  /\ {"requests", "reaper", "crash_sweep"} \cap running # {}
  /\ bootAt \in {"serving", "drained", "aborted", "flushed"}
  /\ usage = "none"
  /\ usage' = IF bootAt = "flushed" THEN "late" ELSE "buffered"
  /\ UNCHANGED <<bootAt, config, running>>

(* A periodic flush empties the buffer. *)
PeriodicFlush ==
  /\ "push_flush" \in running /\ usage = "buffered"
  /\ usage' = "none"
  /\ UNCHANGED <<bootAt, config, running>>

(* shutdown_signal: the requests in flight are served to their end.  Of the *)
(* configuration only the usage push matters from here on.                  *)
DrainRequests ==
  /\ bootAt = "serving"
  /\ bootAt' = "drained"
  /\ running' = running \ {"requests"}
  /\ config' = [NoConfig EXCEPT !.push = config.push]
  /\ UNCHANGED usage

(* abort() only marks a task: a sweep that is running goes on to its next *)
(* await, so the tasks stop some time later.                              *)
AbortTasks ==
  /\ bootAt = "drained"
  /\ bootAt' = "aborted"
  /\ UNCHANGED <<config, running, usage>>

TaskStops(t) ==
  /\ bootAt \in {"aborted", "flushed"} /\ t \in running
  /\ running' = running \ {t}
  /\ UNCHANGED <<bootAt, config, usage>>

(* The last flush, on the thread of main, if there is a usage push. *)
FinalFlush ==
  /\ bootAt = "aborted"
  /\ bootAt' = "flushed"
  /\ usage' = IF config.push.url THEN "none" ELSE usage
  /\ UNCHANGED <<config, running>>

Exit ==
  /\ bootAt = "flushed"
  /\ bootAt' = "exited"
  /\ running' = {}
  /\ UNCHANGED <<config, usage>>

BootNext ==
  \/ ReadBind \/ ReadSigningKey \/ ReadAuth \/ ReadCaps \/ ReadMock \/ ReadLedger \/ ReadLimits
  \/ ReadAdmission \/ ReadComputeGrants \/ ReadIssuerKey \/ ReadBillingExport \/ ReadRunnerVcpu
  \/ ReadMaxVcpuHours \/ CheckCeiling \/ BootIntrospectSelfcheck
  \/ ArmCredSigner \/ ConnectLedger \/ WireCloud \/ ArmTestMint \/ ArmMint \/ WirePushTarget
  \/ SpawnCrashSweep \/ SpawnAdmission \/ SpawnExporter \/ SpawnQuotaHeadroom \/ SpawnPushFlush
  \/ SpawnReaper \/ Listen
  \/ LeaseEnds \/ PeriodicFlush \/ DrainRequests \/ AbortTasks \/ FinalFlush \/ Exit
  \/ \E t \in running : TaskStops(t)

BootSpec == BootInit /\ [][BootNext]_bootVars

--------------------------------------------------------------------------------
(* A server that serves, whatever its environment said in whatever form: the *)
(* forgeable seed is on a loopback address, the mock never signs with a real *)
(* key, vCPU accounting has the shared ledger and a wall for the bootstrap   *)
(* tenant, and an armed mint has a signer, an endpoint and a redemption      *)
(* target for its tickets.                                                   *)
ServesOnlySafely ==
  bootAt = "serving" =>
    /\ config.key.kind = "dev" => config.bind = "loopback"
    /\ config.backend = "mock" => config.key.kind = "dev"
    /\ config.vcpu => config.ledger = "pg" /\ (config.auth = "static" => BootstrapCeiling(config) > 0)
    /\ config.grants \/ config.export => config.ledger = "pg"
    /\ config.mint.armed => config.signer /\ config.mint.endpoint /\ config.mint.base

(* A usage event still buffered when the process exits was buffered after the *)
(* last flush, by a sweep that outran its abort: nothing buffered before or   *)
(* during the drain is forgotten.                                             *)
NoUsageForgotten ==
  bootAt = "exited" /\ config.push.target => usage # "buffered"
===============================================================================
