----------------------------- MODULE ServiceProofs -----------------------------
(****************************************************************************)
(* Proofs about the services around a lease: the server's boot and shutdown,  *)
(* the registration of a runner, exec and its attested results, the           *)
(* autoscaler, the credentials of a runner, slot metering with its export and *)
(* push, and the compute budget.  They share no state; each section states    *)
(* the inductive invariant of one of them, shows that every action keeps it   *)
(* and ends with the property the run of MCServices checks.                   *)
(****************************************************************************)
EXTENDS FiniteSums, SequenceTheorems, MCServices, TLAPS

--------------------------------------------------------------------------------
(* The boot and the shutdown of the server *)

(* The fields of the configuration. *)
Settings == {"bind", "key", "auth", "ladder", "mock", "northflank", "ledger", "admission", "grants", "export",
             "vcpu", "wall", "signer", "backend", "mint", "push"}

(* The steps before a reader has run. *)
BeforeMock == {"bind", "key", "auth", "caps", "mock"}
BeforeGrants == BeforeMock \cup {"ledger", "limits", "admission", "grants"}
BeforeCeiling == BeforeGrants \cup {"issuer", "export", "vcpu", "wall", "guards"}
BeforeMint == BeforeCeiling \cup {"probe", "secret", "connect", "cloud", "testmint", "mint"}

(* Each reader has left what the next ones rely on: a dev key or a mock box   *)
(* goes with a loopback bind, metering and export with the Postgres ledger,   *)
(* and once the ceiling guards have run an armed vCPU axis has a ceiling; the *)
(* mint is armed only with its signer and its two URLs; and usage for a push  *)
(* target does not stay in the buffer past the final flush.                   *)
BootInv ==
  /\ config = [s \in Settings |-> config[s]]
  /\ DOMAIN config.key = {"kind", "dev"}
  /\ bootAt = "bind" => config.key.kind = "unread"
  /\ config.key.kind = "dev" => config.bind = "loopback"
  /\ bootAt \in {"bind", "key"} => ~config.mock /\ config.backend = "unread"
  /\ config.mock \/ config.backend = "mock" => config.key.kind = "dev"
  /\ bootAt \in BeforeGrants => ~config.grants /\ ~config.export
  /\ config.grants \/ config.export => config.ledger = "pg"
  /\ bootAt \notin BeforeCeiling =>
       (config.vcpu => config.ledger = "pg" /\ (config.auth = "static" => BootstrapCeiling(config) > 0))
  /\ bootAt \in BeforeMint => ~config.mint.armed
  /\ config.mint.armed => config.signer /\ config.mint.endpoint /\ config.mint.base
  /\ config.push.target => config.push.url
  /\ bootAt \in {"flushed", "exited"} /\ config.push.target => usage # "buffered"

(* EXCEPT on one field of a configuration. *)
LEMMA SetOne ==
  ASSUME NEW c, c = [s \in Settings |-> c[s]], NEW k \in Settings, NEW v, NEW d, d = [c EXCEPT ![k] = v]
  PROVE  d = [s \in Settings |-> d[s]] /\ d[k] = v /\ \A s \in Settings \ {k} : d[s] = c[s]
OBVIOUS

(* What the configuration of a server that is not up says. *)
LEMMA NoConfigFits ==
  /\ NoConfig = [s \in Settings |-> NoConfig[s]]
  /\ NoConfig.key.kind = "unread" /\ DOMAIN NoConfig.key = {"kind", "dev"} /\ ~NoConfig.mock
  /\ NoConfig.backend = "unread" /\ ~NoConfig.grants /\ ~NoConfig.export
  /\ ~NoConfig.vcpu /\ ~NoConfig.mint.armed /\ ~NoConfig.push.target
BY DEF NoConfig, Settings

(* A server that has read nothing satisfies the invariant. *)
LEMMA BootStarts == BootInit => BootInv
BY NoConfigFits DEF BootInit, BootInv

(* So does one that refused to start. *)
LEMMA BootFails == 
  ASSUME bootAt' = "failed", config' = NoConfig PROVE BootInv'
BY NoConfigFits DEF BootInv, BeforeMock, BeforeGrants, BeforeCeiling, BeforeMint

(* A reader fails, or sets one field and goes on. *)
Failed == bootAt' = "failed" /\ config' = NoConfig

Sets(from, to, k, v) ==
  bootAt = from /\ bootAt' = to /\ config' = [config EXCEPT ![k] = v] /\ UNCHANGED usage

(* What such a reader leaves alone. *)
OnlySets(from, to, k, v) ==
  /\ bootAt = from /\ bootAt' = to /\ UNCHANGED usage
  /\ config' = [s \in Settings |-> config'[s]] /\ config'[k] = v
  /\ \A s \in Settings \ {k} : config'[s] = config[s]

(* A reader that sets a field leaves every other one as it was. *)
LEMMA SetsEffect ==
  ASSUME BootInv, NEW from, NEW to, NEW k \in Settings, NEW v, Sets(from, to, k, v) PROVE OnlySets(from, to, k, v)
BY SetOne DEF Sets, BootInv, OnlySets

(* Every reader of the configuration, every spawn and every step of the       *)
(* shutdown keeps the invariant.                                              *)
LEMMA BootStep == BootInv /\ [BootNext]_bootVars => BootInv'
<1> SUFFICES ASSUME BootInv, [BootNext]_bootVars PROVE BootInv'
  OBVIOUS
<1> USE DEF BootInv, Settings, BeforeMock, BeforeGrants, BeforeCeiling, BeforeMint, BootstrapCeiling
<1>f. CASE Failed  BY <1>f, BootFails DEF Failed
<1>s. ASSUME ~Failed, UNCHANGED config, UNCHANGED usage, bootAt \notin BeforeMint, bootAt' \notin BeforeMint,
             bootAt' \in {"flushed", "exited"} => bootAt = "flushed"
      PROVE  BootInv'
  BY <1>s
<1>1. CASE ReadBind /\ ~Failed
  <2>1. PICK v : Sets("bind", "key", "bind", v)
    BY <1>1 DEF ReadBind, Reads, Sets, Failed
  <2>2. OnlySets("bind", "key", "bind", v)
    BY <2>1, SetsEffect
  <2> QED  BY <2>1, <2>2 DEF OnlySets
<1>2. CASE ReadSigningKey /\ ~Failed
  <2>1. PICK key \in Texts \cup {"malformed"}, dev \in BOOLEAN :
          Reads("key", "auth", "key", [kind |-> IF key \in {"absent", "blank"} THEN "dev" ELSE "real", dev |-> dev],
                IF key \in {"absent", "blank"} THEN dev /\ config.bind = "loopback" ELSE key = "set")
    BY <1>2 DEF ReadSigningKey
  <2>2. PICK v : v = [kind |-> IF key \in {"absent", "blank"} THEN "dev" ELSE "real", dev |-> dev]
    OBVIOUS
  <2>3. Sets("key", "auth", "key", v) /\ (v.kind = "dev" => config.bind = "loopback") /\ DOMAIN v = {"kind", "dev"}
    BY <1>2, <2>1, <2>2 DEF Reads, Sets, Failed
  <2>4. OnlySets("key", "auth", "key", v)
    BY <2>3, SetsEffect
  <2> QED  BY <2>3, <2>4 DEF OnlySets
<1>3. CASE ReadAuth /\ ~Failed
  <2>1. PICK v : Sets("auth", "caps", "auth", v)
    BY <1>3 DEF ReadAuth, Reads, Sets, Failed
  <2>2. OnlySets("auth", "caps", "auth", v)
    BY <2>1, SetsEffect
  <2> QED  BY <2>1, <2>2 DEF OnlySets
<1>4. CASE ReadCaps /\ ~Failed
  <2>1. PICK v : Sets("caps", "mock", "ladder", v)
    BY <1>4 DEF ReadCaps, Reads, Sets, Failed
  <2>2. OnlySets("caps", "mock", "ladder", v)
    BY <2>1, SetsEffect
  <2> QED  BY <2>1, <2>2 DEF OnlySets
<1>5. CASE ReadLedger /\ ~Failed
  <2>1. PICK v : Sets("ledger", "limits", "ledger", v)
    BY <1>5 DEF ReadLedger, Reads, Sets, Failed
  <2>2. OnlySets("ledger", "limits", "ledger", v)
    BY <2>1, SetsEffect
  <2> QED  BY <2>1, <2>2 DEF OnlySets
<1>6. CASE ReadLimits /\ ~Failed
  <2>1. PICK v : Sets("limits", "admission", "bind", v) /\ v = config.bind
    BY <1>6 DEF ReadLimits, Checks, Reads, Sets, Failed
  <2>2. OnlySets("limits", "admission", "bind", v)
    BY <2>1, SetsEffect
  <2> QED  BY <2>1, <2>2 DEF OnlySets
<1>7. CASE ReadAdmission /\ ~Failed
  <2>1. PICK v : Sets("admission", "grants", "admission", v)
    BY <1>7 DEF ReadAdmission, Reads, Sets, Failed
  <2>2. OnlySets("admission", "grants", "admission", v)
    BY <2>1, SetsEffect
  <2> QED  BY <2>1, <2>2 DEF OnlySets
<1>8. CASE ReadComputeGrants /\ ~Failed
  <2>1. PICK v : Sets("grants", "issuer", "grants", v) /\ (v => config.ledger = "pg")
    BY <1>8 DEF ReadComputeGrants, ParseComputeKeys, Reads, Sets, Failed
  <2>2. OnlySets("grants", "issuer", "grants", v)
    BY <2>1, SetsEffect
  <2> QED  BY <2>1, <2>2 DEF OnlySets
<1>9. CASE ReadIssuerKey /\ ~Failed
  <2>1. PICK v : Sets("issuer", "export", "grants", v) /\ (v => config.grants \/ config.ledger = "pg")
    BY <1>9 DEF ReadIssuerKey, Reads, Sets, Failed
  <2>2. OnlySets("issuer", "export", "grants", v)
    BY <2>1, SetsEffect
  <2> QED  BY <2>1, <2>2 DEF OnlySets
<1>10. CASE ReadBillingExport /\ ~Failed
  <2>1. PICK v : Sets("export", "vcpu", "export", v) /\ (v => config.ledger = "pg")
    BY <1>10 DEF ReadBillingExport, Blank, Reads, Sets, Failed
  <2>2. OnlySets("export", "vcpu", "export", v)
    BY <2>1, SetsEffect
  <2> QED  BY <2>1, <2>2 DEF OnlySets
<1>11. CASE ReadRunnerVcpu /\ ~Failed
  <2>1. PICK v : Sets("vcpu", "wall", "vcpu", v)
    BY <1>11 DEF ReadRunnerVcpu, Reads, Sets, Failed
  <2>2. OnlySets("vcpu", "wall", "vcpu", v)
    BY <2>1, SetsEffect
  <2> QED  BY <2>1, <2>2 DEF OnlySets
<1>12. CASE ReadMaxVcpuHours /\ ~Failed
  <2>1. PICK v : Sets("wall", "guards", "wall", v)
    BY <1>12 DEF ReadMaxVcpuHours, Reads, Sets, Failed
  <2>2. OnlySets("wall", "guards", "wall", v)
    BY <2>1, SetsEffect
  <2> QED  BY <2>1, <2>2 DEF OnlySets
<1>13. CASE BootIntrospectSelfcheck /\ ~Failed
  <2>1. PICK v : Sets("probe", "secret", "bind", v) /\ v = config.bind
    BY <1>13 DEF BootIntrospectSelfcheck, Checks, Reads, Sets, Failed
  <2>2. OnlySets("probe", "secret", "bind", v)
    BY <2>1, SetsEffect
  <2> QED  BY <2>1, <2>2 DEF OnlySets
<1>14. CASE ArmCredSigner /\ ~Failed
  <2>1. PICK v : Sets("secret", "connect", "signer", v)
    BY <1>14 DEF ArmCredSigner, Reads, Sets, Failed
  <2>2. OnlySets("secret", "connect", "signer", v)
    BY <2>1, SetsEffect
  <2> QED  BY <2>1, <2>2 DEF OnlySets
<1>15. CASE ConnectLedger /\ ~Failed
  <2>1. PICK v : Sets("connect", "cloud", "bind", v) /\ v = config.bind
    BY <1>15 DEF ConnectLedger, Checks, Reads, Sets, Failed
  <2>2. OnlySets("connect", "cloud", "bind", v)
    BY <2>1, SetsEffect
  <2> QED  BY <2>1, <2>2 DEF OnlySets
<1>16. CASE ArmTestMint /\ ~Failed
  <2>1. PICK v : Sets("testmint", "mint", "bind", v) /\ v = config.bind
    BY <1>16 DEF ArmTestMint, Checks, Reads, Sets, Failed
  <2>2. OnlySets("testmint", "mint", "bind", v)
    BY <2>1, SetsEffect
  <2> QED  BY <2>1, <2>2 DEF OnlySets
<1>17. CASE ArmMint /\ ~Failed
  <2>1. PICK key \in {"absent", "strong", "weak"}, url \in BOOLEAN, endpoint \in BOOLEAN, base \in BOOLEAN :
          Reads("mint", "push_target", "mint",
                [armed |-> url /\ key = "strong", endpoint |-> url /\ key = "strong" /\ endpoint,
                 base |-> url /\ key = "strong" /\ base],
                CasPatMintFromEnv(key, url) /\ ValidateMintArm(url /\ key = "strong", config.signer, endpoint, base))
    BY <1>17 DEF ArmMint
  <2>2. PICK v : v = [armed |-> url /\ key = "strong", endpoint |-> url /\ key = "strong" /\ endpoint,
                      base |-> url /\ key = "strong" /\ base]
    OBVIOUS
  <2>3. Sets("mint", "push_target", "mint", v) /\ (v.armed => config.signer /\ v.endpoint /\ v.base)
    BY <1>17, <2>1, <2>2 DEF Reads, Sets, Failed, ValidateMintArm
  <2>4. OnlySets("mint", "push_target", "mint", v)
    BY <2>3, SetsEffect
  <2> QED  BY <2>3, <2>4 DEF OnlySets
<1>18. CASE WirePushTarget /\ ~Failed
  <2>1. PICK url \in BOOLEAN, key \in BOOLEAN, region \in BOOLEAN :
          Reads("push_target", "tasks", "push", [url |-> url, target |-> url /\ key /\ region],
                TRUE)
    BY <1>18 DEF WirePushTarget
  <2>2. PICK v : v = [url |-> url, target |-> url /\ key /\ region]
    OBVIOUS
  <2>3. Sets("push_target", "tasks", "push", v) /\ (v.target => v.url)
    BY <1>18, <2>1, <2>2 DEF Reads, Sets, Failed
  <2>4. OnlySets("push_target", "tasks", "push", v)
    BY <2>3, SetsEffect
  <2> QED  BY <2>3, <2>4 DEF OnlySets
<1>19. CASE ReadMock /\ ~Failed
  <2>1. PICK mock \in BOOLEAN, northflank \in BOOLEAN :
          /\ bootAt = "mock" /\ bootAt' = "ledger" /\ UNCHANGED usage
          /\ mock => config.key.kind = "dev"
          /\ config' = [config EXCEPT !.mock = mock, !.northflank = northflank, !.key.dev = FALSE]
    BY <1>19 DEF ReadMock, MockAllowed, Failed
  <2>2. /\ config' = [s \in Settings |-> config'[s]] /\ config'.mock = mock
        /\ config'.key.kind = config.key.kind /\ DOMAIN config'.key = {"kind", "dev"}
        /\ \A s \in Settings \ {"mock", "northflank", "key"} : config'[s] = config[s]
    BY <2>1
  <2> QED  BY <2>1, <2>2
<1>20. CASE CheckCeiling /\ ~Failed
  <2>1. /\ bootAt = "guards" /\ bootAt' = "probe" /\ UNCHANGED usage /\ CeilingGuards(config)
        /\ config' = [config EXCEPT !.wall = BootstrapCeiling(config) > 0, !.ladder = FALSE]
    BY <1>20 DEF CheckCeiling, Failed
  <2>2. /\ config' = [s \in Settings |-> config'[s]] /\ (BootstrapCeiling(config) > 0 => config'.wall)
        /\ \A s \in Settings \ {"wall", "ladder"} : config'[s] = config[s]
    BY <2>1
  <2>3. config.vcpu => config.ledger = "pg" /\ (config.auth = "static" => BootstrapCeiling(config) > 0)
    BY <2>1 DEF CeilingGuards
  <2>4. BootstrapCeiling(config) > 0 => BootstrapCeiling(config') > 0
    BY <2>2
  <2> HIDE DEF BootstrapCeiling
  <2> QED  BY <2>1, <2>2, <2>3, <2>4
<1>21. CASE WireCloud
  <2>1. /\ bootAt = "cloud" /\ bootAt' = "testmint" /\ UNCHANGED usage
        /\ \E b : /\ b = "mock" => config.mock
                 /\ config' = [config EXCEPT !.mock = FALSE, !.northflank = FALSE, !.backend = b]
    BY <1>21 DEF WireCloud
  <2>2. PICK b : /\ b = "mock" => config.mock
                 /\ config' = [config EXCEPT !.mock = FALSE, !.northflank = FALSE, !.backend = b]
    BY <2>1
  <2>3. /\ config' = [s \in Settings |-> config'[s]] /\ config'.backend = b /\ ~config'.mock
        /\ \A s \in Settings \ {"mock", "northflank", "backend"} : config'[s] = config[s]
    BY <2>2
  <2> QED  BY <2>1, <2>2, <2>3
<1>22. CASE SpawnCrashSweep /\ ~Failed
  BY <1>22, <1>s DEF SpawnCrashSweep, Spawns, Failed
<1>23. CASE SpawnAdmission /\ ~Failed
  BY <1>23, <1>s DEF SpawnAdmission, Spawns, Failed
<1>24. CASE SpawnExporter /\ ~Failed
  BY <1>24, <1>s DEF SpawnExporter, Spawns, Failed
<1>25. CASE SpawnQuotaHeadroom /\ ~Failed
  BY <1>25, <1>s DEF SpawnQuotaHeadroom, Spawns, Failed
<1>26. CASE SpawnPushFlush /\ ~Failed
  BY <1>26, <1>s DEF SpawnPushFlush, Spawns, Failed
<1>27. CASE SpawnReaper /\ ~Failed
  BY <1>27, <1>s DEF SpawnReaper, Spawns, Failed
<1>28. CASE Listen /\ ~Failed
  BY <1>28, <1>s DEF Listen, Spawns, Failed
<1>29. CASE LeaseEnds
  BY <1>29 DEF LeaseEnds
<1>30. CASE PeriodicFlush
  BY <1>30 DEF PeriodicFlush
<1>31. CASE DrainRequests
  <2>1. /\ bootAt' = "drained" /\ bootAt = "serving"
        /\ config' = [s \in Settings |-> config'[s]] /\ config'.push = config.push
        /\ \A s \in Settings \ {"push"} : config'[s] = NoConfig[s]
    BY <1>31 DEF DrainRequests, NoConfig
  <2> QED  BY <2>1, NoConfigFits
<1>32. CASE AbortTasks
  BY <1>32, <1>s, <1>f DEF AbortTasks, Failed
<1>33. CASE FinalFlush
  BY <1>33 DEF FinalFlush
<1>34. CASE Exit
  BY <1>34, <1>s, <1>f DEF Exit, Failed
<1>35. CASE \E t \in running : TaskStops(t)
  BY <1>35, <1>s, <1>f DEF TaskStops, Failed
<1>36. CASE UNCHANGED bootVars
  BY <1>36 DEF bootVars
<1> QED  BY <1>f, <1>1, <1>2, <1>3, <1>4, <1>5, <1>6, <1>7, <1>8, <1>9, <1>10, <1>11, <1>12, <1>13, <1>14,
  <1>15, <1>16, <1>17, <1>18, <1>19, <1>20, <1>21, <1>22, <1>23, <1>24, <1>25, <1>26, <1>27, <1>28, <1>29,
    <1>30, <1>31, <1>32, <1>33, <1>34, <1>35, <1>36 DEF BootNext

(* The invariant of the boot holds from the first reader to the exit. *)
THEOREM BootInvariance == BootSpec => []BootInv
BY BootStarts, BootStep, PTL DEF BootSpec

(* Whatever the environment says, a server that serves was configured safely: *)
(* BootConfig::from_env and the guards of main leave no dangerous pair of     *)
(* settings armed.                                                            *)
THEOREM BootAlwaysSafe == BootSpec => []ServesOnlySafely
<1>1. BootInv => ServesOnlySafely
  BY DEF BootInv, ServesOnlySafely, BeforeMint, BeforeCeiling, BeforeGrants, BeforeMock
<1> QED  BY <1>1, BootInvariance, PTL

(* A server with a push target does not exit with usage in its buffer that    *)
(* was there when the final flush ran.                                        *)
THEOREM UsageNeverForgotten == BootSpec => []NoUsageForgotten
<1>1. BootInv => NoUsageForgotten
  BY DEF BootInv, NoUsageForgotten
<1> QED  BY <1>1, BootInvariance, PTL

--------------------------------------------------------------------------------
(* The registration of a runner *)

(* Where a runner mint can be, and its record. *)
MintSteps == {"new", "sign", "exchange", "jitconfig", "refused", "failed", "registered"}

MintStates == [at : MintSteps, error : BrokerErrors \cup {"none"}, entropy : BOOLEAN, conflict : BOOLEAN]

(* Types, the numbers of the runners GitHub knows, and the property itself. *)
RegistrationInv ==
  /\ skew \in Int /\ drawn \in Nat
  /\ mints \in [RunnerMints -> MintStates]
  /\ ghRunners \subseteq 0..drawn
  /\ MintRefusedForCause

(* Mints that have not started satisfy the invariant. *)
LEMMA RegistrationStarts == RegistrationInit => RegistrationInv
BY RegistrationAssumption DEF RegistrationInit, RegistrationInv, MintStates, NoMint, MintRefusedForCause,
   MintSteps, BrokerErrors

(* Every step of a mint, and every failure of GitHub, keeps it. *)
LEMMA RegistrationKeeps == RegistrationInv /\ [RegistrationNext]_registrationVars => RegistrationInv'
<1> SUFFICES ASSUME RegistrationInv, [RegistrationNext]_registrationVars PROVE RegistrationInv'
  OBVIOUS
<1> USE DEF RegistrationInv, MintRefusedForCause
<1>1. ASSUME NEW m \in RunnerMints, NEW at \in MintSteps, MintGoes(m, at), UNCHANGED <<skew, ghRunners, drawn, revoked>>
      PROVE  RegistrationInv'
  BY <1>1 DEF MintGoes, MintStates
<1>2. ASSUME NEW m \in RunnerMints, NEW error \in BrokerErrors, MintFails(m, error),
             error = "Unauthorized" => revoked \/ skew > 1 \/ skew <= 0 - 10,
             UNCHANGED <<skew, ghRunners, drawn, revoked>>
      PROVE  RegistrationInv'
  BY <1>2 DEF MintFails, MintStates, MintSteps
<1>3. CASE BrokerFromEnv
  <2>1. UNCHANGED <<skew, mints, ghRunners, drawn, revoked>>
    BY <1>3 DEF BrokerFromEnv
  <2> QED  BY <2>1
<1>4. CASE RevokeAtGitHub
  BY <1>4 DEF RevokeAtGitHub
<1>5. ASSUME NEW m \in RunnerMints, AcquireRunner(m) PROVE RegistrationInv'
  BY <1>5, <1>1 DEF AcquireRunner, FirstStep, MintSteps
<1>6. ASSUME NEW m \in RunnerMints, MintPanics(m) PROVE RegistrationInv'
  BY <1>6, <1>2 DEF MintPanics, BrokerErrors
<1>7. ASSUME NEW m \in RunnerMints, SignJwt(m) PROVE RegistrationInv'
  BY <1>7, <1>1, <1>2 DEF SignJwt, BrokerErrors, MintSteps
<1>8. ASSUME NEW m \in RunnerMints, ExchangeJwt(m) PROVE RegistrationInv'
  <2>1. \A status \in InstallationTokenStatus :
          /\ CheckStatus(status) \in BrokerErrors \cup {"none"}
          /\ CheckStatus(status) = "Unauthorized" => revoked \/ skew > 1 \/ skew <= 0 - 10
    BY DEF InstallationTokenStatus, CheckStatus, BrokerErrors, IssuedAt, ExpiresAt
  <2>2. \/ \E error \in BrokerErrors : MintFails(m, error) /\ (error = "Unauthorized" => revoked \/ skew > 1 \/ skew <= 0 - 10)
        \/ MintGoes(m, "jitconfig")
    BY <1>8, <2>1 DEF ExchangeJwt, Lost, BrokerErrors
  <2> QED  BY <2>2, <1>1, <1>2, <1>8 DEF ExchangeJwt, MintSteps
<1>9. ASSUME NEW m \in RunnerMints, PostJitConfig(m) PROVE RegistrationInv'
  <2>1. PICK random \in BOOLEAN :
          /\ drawn' = IF random THEN drawn + 1 ELSE drawn
          /\ \E status \in JitConfigStatus(UniqueRunnerName(random)), lost \in BOOLEAN, body \in {"config", "empty", "malformed"} :
               LET error == IF lost THEN Lost ELSE CheckStatus(status)
                   failed == error # "none" \/ body # "config"
               IN  /\ ghRunners' = IF status = 201 THEN ghRunners \cup {UniqueRunnerName(random)} ELSE ghRunners
                   /\ mints' = [mints EXCEPT ![m] =
                        [at |-> IF failed THEN "failed" ELSE "registered",
                         error |-> IF error # "none" THEN error ELSE IF failed THEN "BadResponse" ELSE "none",
                         entropy |-> random, conflict |-> status = 409]]
    BY <1>9 DEF PostJitConfig
  <2>2. PICK status \in JitConfigStatus(UniqueRunnerName(random)), lost \in BOOLEAN, body \in {"config", "empty", "malformed"} :
               LET error == IF lost THEN Lost ELSE CheckStatus(status)
                   failed == error # "none" \/ body # "config"
               IN  /\ ghRunners' = IF status = 201 THEN ghRunners \cup {UniqueRunnerName(random)} ELSE ghRunners
                   /\ mints' = [mints EXCEPT ![m] =
                        [at |-> IF failed THEN "failed" ELSE "registered",
                         error |-> IF error # "none" THEN error ELSE IF failed THEN "BadResponse" ELSE "none",
                         entropy |-> random, conflict |-> status = 409]]
    BY <2>1
  <2>3. PICK sent : sent = (IF lost THEN Lost ELSE CheckStatus(status))
    OBVIOUS
  <2>4. PICK error : error = (IF sent # "none" THEN sent ELSE IF body # "config" THEN "BadResponse" ELSE "none")
    OBVIOUS
  <2>5. PICK at : at = (IF sent # "none" \/ body # "config" THEN "failed" ELSE "registered")
    OBVIOUS
  <2>6. mints' = [mints EXCEPT ![m] = [at |-> at, error |-> error, entropy |-> random, conflict |-> status = 409]]
    BY <2>2, <2>3, <2>4, <2>5
  <2>7. UniqueRunnerName(random) \in 0..drawn'
    BY <2>1 DEF UniqueRunnerName
  <2>8. CheckStatus(status) \in BrokerErrors \cup {"none"}
    BY DEF CheckStatus, BrokerErrors, JitConfigStatus
  <2>9. /\ error \in BrokerErrors \cup {"none"} /\ error \in {"Unreachable", "BadResponse", "none", CheckStatus(status)}
        /\ at \in {"failed", "registered"}
    BY <2>3, <2>4, <2>5, <2>8 DEF Lost, BrokerErrors
  <2>10. status = 409 => ~random
    BY <2>2 DEF JitConfigStatus, UniqueRunnerName
  <2>11. CheckStatus(status) = "Unauthorized" => revoked
    BY <2>2 DEF JitConfigStatus, CheckStatus
  <2>12. error = "Unauthorized" => revoked
    BY <2>9, <2>11
  <2>13. drawn' \in Nat /\ ghRunners' \subseteq 0..drawn' /\ UNCHANGED <<skew, revoked>>
    <3>1. UNCHANGED <<skew, revoked>>
      BY <1>9 DEF PostJitConfig
    <3>2. drawn' \in Nat /\ drawn <= drawn'
      BY <2>1
    <3>3. ghRunners' \subseteq ghRunners \cup {UniqueRunnerName(random)}
      BY <2>2
    <3> QED  BY <3>1, <3>2, <3>3, <2>7
  <2>14. PICK post \in MintStates : post = [at |-> at, error |-> error, entropy |-> random, conflict |-> status = 409]
    <3>1. at \in MintSteps /\ (status = 409) \in BOOLEAN /\ random \in BOOLEAN
      BY <2>9 DEF MintSteps
    <3> QED  BY <3>1, <2>9 DEF MintStates
  <2>15. (post.conflict => ~post.entropy) /\ post.error = error
    BY <2>14, <2>10
  <2>16. mints' = [mints EXCEPT ![m] = post]
    BY <2>6, <2>14
  <2> QED  BY <2>12, <2>13, <2>15, <2>16
<1>10. CASE UNCHANGED registrationVars
  BY <1>10 DEF registrationVars
<1> QED  BY <1>3, <1>4, <1>5, <1>6, <1>7, <1>8, <1>9, <1>10 DEF RegistrationNext

(* The invariant of the registration, for any set of mints and any clock      *)
(* skews.                                                                     *)
THEOREM RegistrationInvariance == RegistrationSpec => []RegistrationInv
BY RegistrationStarts, RegistrationKeeps, PTL DEF RegistrationSpec

(* GitHub refuses a mint only for a cause outside the broker: the name is     *)
(* taken only when the random draw failed, and while the credential stands it *)
(* is Unauthorized only when the clock is more than a minute ahead or ten     *)
(* minutes behind.                                                            *)
THEOREM MintsAlwaysRefusedForCause == RegistrationSpec => []MintRefusedForCause
BY RegistrationInvariance, PTL DEF RegistrationInv

--------------------------------------------------------------------------------
(* Exec, trigger and agent exec *)

(* Where a call can be before it is answered, and its record. *)
AtWork == {"gate", "marker", "toolchain", "image", "run", "ran", "begin", "step"}

WorkingCalls ==
  [at : AtWork, op : {"exec", "trigger", "agent"}, lease : BoxLeases, toolchain : Toolchains, item : Items,
   code : Codes \cup {Killed}, ranHeld : BOOLEAN]

(* What the gates a call has passed still guarantee: its lease is past        *)
(* Pending, a hydrated lease runs under its own toolchain only, and a command *)
(* whose lease is still Held ran while it was.                                *)
Sound(r) ==
  r.at \in AtWork =>
    /\ r \in WorkingCalls
    /\ r.at # "gate" => stage[r.lease] # "Pending"
    /\ r.at \in {"image", "run", "ran"} /\ r.op = "exec" /\ r.lease \in HydratedLeases /\ stage[r.lease] = "Held"
         => r.toolchain = HydratedToolchain
    /\ r.at = "ran" /\ stage[r.lease] = "Held" => r.ranHeld

(* Leases move on only, the marks of a live hydrated lease are kept, every    *)
(* call is sound.                                                             *)
ExecInv ==
  /\ stage \in [BoxLeases -> {"Pending", "Held", "Ended"}]
  /\ \A l \in HydratedLeases : stage[l] # "Ended" => l \in hydrated
  /\ call = [c \in Calls |-> call[c]]
  /\ \A c \in Calls : Sound(call[c])
  /\ SignedResultsAreReal

(* Hydrated leases are leases. *)
LEMMA HydratedAreLeases == HydratedLeases \subseteq BoxLeases
BY ExecutionAssumption DEF BoxLeases

(* No call and no lease: the invariant holds. *)
LEMMA ExecStarts == ExecInit => ExecInv
BY HydratedAreLeases DEF ExecInit, ExecInv, Sound, SignedResultsAreReal, NoCall, AtWork

(* A lease moves forward only. *)
LeaseStep ==
  /\ stage' \in [BoxLeases -> {"Pending", "Held", "Ended"}]
  /\ \A l \in BoxLeases : stage'[l] = "Pending" => stage[l] = "Pending"
  /\ \A l \in BoxLeases : stage'[l] = "Held" => stage[l] \in {"Pending", "Held"}
  /\ \A l \in BoxLeases : stage[l] = "Ended" => stage'[l] = "Ended"
  /\ \A l \in HydratedLeases : stage'[l] # "Ended" => l \in hydrated'
  /\ UNCHANGED <<call, attested>>

(* A lease that moves on does not undo what a call has checked. *)
LEMMA LeaseStepKeeps == ExecInv /\ LeaseStep => ExecInv'
<1> SUFFICES ASSUME ExecInv, LeaseStep PROVE ExecInv'
  OBVIOUS
<1>1. \A c \in Calls : Sound(call[c])'
  <2> SUFFICES ASSUME NEW c \in Calls PROVE Sound(call[c])'
    OBVIOUS
  <2>1. Sound(call[c]) /\ call'[c] = call[c]
    BY DEF ExecInv, LeaseStep
  <2>2. call[c].at \in AtWork => call[c].lease \in BoxLeases
    BY <2>1 DEF Sound, WorkingCalls
  <2> QED  BY <2>1, <2>2 DEF ExecInv, LeaseStep, Sound
<1> QED  BY <1>1 DEF ExecInv, LeaseStep, SignedResultsAreReal

(* A call takes a step and the lease tables stay. *)
LEMMA CallStepKeeps ==
  ASSUME ExecInv, NEW c \in Calls, NEW r, Sound(r), call' = [call EXCEPT ![c] = r], UNCHANGED leaseVars, UNCHANGED attested
  PROVE  ExecInv'
<1>1. UNCHANGED <<stage, hydrated>>
  BY DEF leaseVars
<1>2. \A d \in Calls : Sound(call[d])'
  BY <1>1 DEF ExecInv, Sound
<1> QED  BY <1>1, <1>2 DEF ExecInv, SignedResultsAreReal

(* An answered call promises nothing more. *)
LEMMA RefusedIsSound == \A x : Sound([at |-> "answered", result |-> x])
BY DEF Sound, AtWork

(* A refusal keeps the invariant. *)
LEMMA RefusedKeeps ==
  ASSUME ExecInv, NEW c \in Calls, Refused(c), UNCHANGED leaseVars, UNCHANGED attested
  PROVE  ExecInv'
<1>1. PICK r : r = [at |-> "answered", result |-> "refused"]
  OBVIOUS
<1>2. Sound(r) /\ call' = [call EXCEPT ![c] = r]
  BY <1>1, RefusedIsSound DEF Refused
<1> QED  BY <1>2, CallStepKeeps

(* A call that passes a gate. *)
LEMMA GoesKeeps ==
  ASSUME ExecInv, NEW c \in Calls, call[c].at \in AtWork, NEW at \in AtWork, CallGoes(c, at),
         UNCHANGED leaseVars, UNCHANGED attested,
         at # "gate" => stage[call[c].lease] # "Pending",
         at \in {"image", "run"} /\ call[c].op = "exec" /\ call[c].lease \in HydratedLeases /\ stage[call[c].lease] = "Held"
            => call[c].toolchain = HydratedToolchain,
         at # "ran"
  PROVE  ExecInv'
<1>1. PICK r : r = [call[c] EXCEPT !.at = at]
  OBVIOUS
<1>2. call[c] \in WorkingCalls
  BY DEF ExecInv, Sound
<1>3. /\ r \in WorkingCalls /\ r.at = at /\ r.lease = call[c].lease /\ r.op = call[c].op
      /\ r.toolchain = call[c].toolchain
  BY <1>1, <1>2 DEF WorkingCalls
<1>4. Sound(r)
  BY <1>3 DEF Sound
<1>5. call' = [call EXCEPT ![c] = r]
  BY <1>1 DEF CallGoes
<1> QED  BY <1>4, <1>5, CallStepKeeps

(* Every step of a lease and of a call keeps the invariant. *)
LEMMA ExecKeeps == ExecInv /\ [ExecNext]_execVars => ExecInv'
<1> SUFFICES ASSUME ExecInv, [ExecNext]_execVars PROVE ExecInv'
  OBVIOUS
<1>1. ASSUME NEW l \in BoxLeases,
             BecomesHeld(l) \/ RecordImage(l) \/ MarkLease(l) \/ ExecLeaseEnds(l) \/ ForgetImage(l) \/ ForgetMarks(l)
      PROVE  ExecInv'
  <2>1. CASE BecomesHeld(l)
    BY <2>1, LeaseStepKeeps, HydratedAreLeases DEF BecomesHeld, LeaseStep, ExecInv
  <2>2. CASE RecordImage(l)
    BY <2>2, LeaseStepKeeps, HydratedAreLeases DEF RecordImage, LeaseStep, ExecInv
  <2>3. CASE MarkLease(l)
    BY <2>3, LeaseStepKeeps, HydratedAreLeases DEF MarkLease, LeaseStep, ExecInv
  <2>4. CASE ExecLeaseEnds(l)
    BY <2>4, LeaseStepKeeps, HydratedAreLeases DEF ExecLeaseEnds, LeaseStep, ExecInv
  <2>5. CASE ForgetImage(l)
    BY <2>5, LeaseStepKeeps, HydratedAreLeases DEF ForgetImage, LeaseStep, ExecInv
  <2>6. CASE ForgetMarks(l)
    BY <2>6, LeaseStepKeeps, HydratedAreLeases DEF ForgetMarks, LeaseStep, ExecInv
  <2> QED  BY <1>1, <2>1, <2>2, <2>3, <2>4, <2>5, <2>6
<1>2. ASSUME NEW c \in Calls, NEW op \in {"exec", "trigger", "agent"}, NEW l \in BoxLeases, NEW t \in Toolchains,
             NEW i \in Items,
             Arrives(c, op, l, t, i)
      PROVE  ExecInv'
  <2>1. CASE op = "trigger" /\ i \in DOMAIN dedup
    <3>1. PICK r : r = [at |-> "answered", result |-> dedup[i]]
      OBVIOUS
    <3>2. Sound(r)
      BY <3>1, RefusedIsSound
    <3> QED  BY <1>2, <2>1, <3>1, <3>2, CallStepKeeps DEF Arrives
  <2>2. CASE ~(op = "trigger" /\ i \in DOMAIN dedup)
    <3>1. PICK r : r = [at |-> "gate", op |-> op, lease |-> l, toolchain |-> t, item |-> i, code |-> Killed, ranHeld |-> FALSE]
      OBVIOUS
    <3>2. r \in WorkingCalls /\ r.at = "gate"
      BY <3>1 DEF WorkingCalls, AtWork
    <3>3. Sound(r)
      BY <3>2 DEF Sound
    <3> QED  BY <1>2, <2>2, <3>1, <3>3, CallStepKeeps DEF Arrives
  <2> QED  BY <2>1, <2>2
<1>3. ASSUME NEW c \in Calls,
             HeldGate(c) \/ MarkerGate(c) \/ ToolchainGate(c) \/ ImageGate(c) \/ RunCheck(c)
               \/ Attest(c) \/ BeginStep(c) \/ EndStep(c)
      PROVE  ExecInv'
  <2>0. Sound(call[c])
    BY DEF ExecInv
  <2>1. CASE HeldGate(c)
    <3>1. CASE Refused(c)  BY <2>1, <3>1, RefusedKeeps DEF HeldGate
    <3>2. CASE ~Refused(c)
      <4>1. PICK at \in {"image", "marker"} : CallGoes(c, at) /\ (at = "image" => call[c].op = "trigger")
        BY <2>1, <3>2 DEF HeldGate
      <4> QED  BY <2>1, <3>2, <4>1, GoesKeeps DEF HeldGate, AtWork
    <3> QED  BY <3>1, <3>2
  <2>2. CASE MarkerGate(c)
    <3>1. CASE Refused(c)  BY <2>2, <3>1, RefusedKeeps DEF MarkerGate
    <3>2. CASE ~Refused(c)
      <4>1. PICK at \in {"toolchain", "begin"} : CallGoes(c, at)
        BY <2>2, <3>2 DEF MarkerGate
      <4> QED  BY <2>0, <2>2, <3>2, <4>1, GoesKeeps DEF MarkerGate, AtWork, Sound
    <3> QED  BY <3>1, <3>2
  <2>3. CASE ToolchainGate(c)
    <3>1. CASE Refused(c)  BY <2>3, <3>1, RefusedKeeps DEF ToolchainGate
    <3>2. CASE ~Refused(c)
      <4>1. CallGoes(c, "image") /\ (call[c].lease \in hydrated => call[c].toolchain = HydratedToolchain)
        BY <2>3, <3>2 DEF ToolchainGate
      <4>2. call[c].lease \in HydratedLeases /\ stage[call[c].lease] = "Held" => call[c].lease \in hydrated
        BY DEF ExecInv
      <4> QED  BY <2>0, <2>3, <3>2, <4>1, <4>2, GoesKeeps DEF ToolchainGate, AtWork, Sound
    <3> QED  BY <3>1, <3>2
  <2>4. CASE ImageGate(c)
    <3>1. CASE Refused(c)  BY <2>4, <3>1, RefusedKeeps DEF ImageGate
    <3>2. CASE ~Refused(c)
      BY <2>0, <2>4, <3>2, GoesKeeps DEF ImageGate, AtWork, Sound
    <3> QED  BY <3>1, <3>2
  <2>5. CASE RunCheck(c)
    <3>1. CASE Refused(c)  BY <2>5, <3>1, RefusedKeeps DEF RunCheck
    <3>2. CASE ~Refused(c)
      <4>1. PICK code \in Codes \cup {Killed} :
              call' = [call EXCEPT ![c].at = "ran", ![c].code = code, ![c].ranHeld = stage[call[c].lease] = "Held"]
        BY <2>5, <3>2 DEF RunCheck
      <4>2. PICK held \in BOOLEAN : held = (stage[call[c].lease] = "Held")
        OBVIOUS
      <4>3. PICK r : r = [call[c] EXCEPT !.at = "ran", !.code = code, !.ranHeld = held]
        OBVIOUS
      <4>4. call[c] \in WorkingCalls /\ call[c].at = "run"
        BY <2>0, <2>5 DEF RunCheck, Sound, AtWork
      <4>5. /\ r \in WorkingCalls /\ r.at = "ran" /\ r.lease = call[c].lease /\ r.op = call[c].op
            /\ r.toolchain = call[c].toolchain /\ r.ranHeld = held
        BY <4>3, <4>4 DEF WorkingCalls, AtWork
      <4>6. Sound(r)
        BY <2>0, <4>2, <4>4, <4>5 DEF Sound, AtWork
      <4>7. call' = [call EXCEPT ![c] = r]
        BY <4>1, <4>2, <4>3 DEF ExecInv
      <4> QED  BY <2>5, <4>6, <4>7, CallStepKeeps DEF RunCheck
    <3> QED  BY <3>1, <3>2
  <2>6. CASE Attest(c)
    <3>1. CASE Refused(c) /\ UNCHANGED attested  BY <2>6, <3>1, RefusedKeeps DEF Attest
    <3>2. CASE ~(Refused(c) /\ UNCHANGED attested)
      <4>1. /\ call[c].at = "ran" /\ call[c].code # Killed /\ stage[call[c].lease] = "Held"
            /\ attested' = attested \cup {Response(c)} /\ call' = [call EXCEPT ![c] = [at |-> "answered", result |-> c]]
            /\ UNCHANGED leaseVars
        BY <2>6, <3>2 DEF Attest
      <4>2. PICK r : r = [at |-> "answered", result |-> c]
        OBVIOUS
      <4>3. Sound(r) /\ call' = [call EXCEPT ![c] = r]
        BY <4>1, <4>2, RefusedIsSound
      <4>4. PICK a : a = Response(c)
        OBVIOUS
      <4>5. /\ a.ranHeld = call[c].ranHeld /\ a.code = call[c].code /\ a.op = call[c].op /\ a.lease = call[c].lease
            /\ a.toolchain = call[c].toolchain
        BY <4>4 DEF Response
      <4>6. a.ranHeld /\ a.code # Killed /\ (a.op = "exec" /\ a.lease \in HydratedLeases => a.toolchain = HydratedToolchain)
        BY <2>0, <4>1, <4>5 DEF Sound, AtWork
      <4>7. SignedResultsAreReal'
        BY <4>1, <4>4, <4>6 DEF ExecInv, SignedResultsAreReal
      <4>8. UNCHANGED <<stage, hydrated>>
        BY <4>1 DEF leaseVars
      <4>9. \A d \in Calls : Sound(call[d])'
        BY <4>3, <4>8 DEF ExecInv, Sound
      <4> QED  BY <4>3, <4>7, <4>8, <4>9 DEF ExecInv
    <3> QED  BY <3>1, <3>2
  <2>7. CASE BeginStep(c)
    <3>1. CASE Refused(c)  BY <2>7, <3>1, RefusedKeeps DEF BeginStep
    <3>2. CASE ~Refused(c)
      BY <2>0, <2>7, <3>2, GoesKeeps DEF BeginStep, AtWork, Sound
    <3> QED  BY <3>1, <3>2
  <2>8. CASE EndStep(c)
    <3>1. PICK r : r = [at |-> "answered", result |-> "step"]
      OBVIOUS
    <3>2. Sound(r) /\ call' = [call EXCEPT ![c] = r]
      BY <2>8, <3>1, RefusedIsSound DEF EndStep
    <3> QED  BY <2>8, <3>2, CallStepKeeps DEF EndStep
  <2> QED  BY <1>3, <2>1, <2>2, <2>3, <2>4, <2>5, <2>6, <2>7, <2>8
<1>4. CASE UNCHANGED execVars
  BY <1>4 DEF execVars, ExecInv, Sound, SignedResultsAreReal
<1> QED  BY <1>1, <1>2, <1>3, <1>4 DEF ExecNext

(* The invariant of exec, trigger and agent exec, for any leases and calls. *)
THEOREM ExecInvariance == ExecSpec => []ExecInv
BY ExecStarts, ExecKeeps, PTL DEF ExecSpec

(* A result the server signs was produced while its lease was Held and has    *)
(* the code the command exited with, and /exec signs a hydrated lease under   *)
(* its own toolchain only, although nothing is locked while the command runs. *)
THEOREM SignedResultsAreAlwaysReal == ExecSpec => []SignedResultsAreReal
BY ExecInvariance, PTL DEF ExecInv

--------------------------------------------------------------------------------
(* The pre-images of the fabric key, piece by piece *)

(* What goes into a pre-image. *)
Bytes == Seq(Int)

(* One piece of a pre-image in front of the rest. *)
Join(s, t) == s \o t

(* A length-prefixed string is a sequence, and its first symbol its length. *)
LEMMA LpIs ==
  ASSUME NEW s \in Bytes
  PROVE  /\ Lp(s) \in Bytes /\ Len(Lp(s)) = Len(s) + 1 /\ Lp(s)[1] = Len(s)
         /\ \A i \in 1..Len(s) : Lp(s)[i + 1] = s[i]
BY DEF Lp, Bytes

(* What follows equal sequences in equal sequences is equal. *)
LEMMA CancelFront ==
  ASSUME NEW s \in Bytes, NEW u \in Bytes, NEW v \in Bytes, s \o u = s \o v
  PROVE  u = v
BY ConcatSimplifications, Zenon DEF Bytes

(* The front of a concatenation. *)
LEMMA FrontOf ==
  ASSUME NEW s \in Bytes, NEW u \in Bytes, NEW i \in 1..Len(s)
  PROVE  (s \o u)[i] = s[i]
<1>1. s \in Seq(Int) /\ u \in Seq(Int) /\ i \in 1..(Len(s) + Len(u)) /\ i <= Len(s)
  BY DEF Bytes
<1> QED
  BY <1>1, ConcatProperties

(* What a string looks like at the front of a pre-image. *)
LEMMA LpFront ==
  ASSUME NEW s \in Bytes, NEW u \in Bytes
  PROVE  /\ (Lp(s) \o u)[1] = Len(s)
         /\ \A i \in 1..Len(s) : (Lp(s) \o u)[i + 1] = s[i]
<1>0. Len(s) \in Nat
  BY DEF Bytes
<1>1. Lp(s) \in Bytes /\ Len(Lp(s)) = Len(s) + 1
  BY LpIs
<1>2. (Lp(s) \o u)[1] = Lp(s)[1]
  <2>1. 1 \in 1..Len(Lp(s))
    BY <1>0, <1>1
  <2> QED
    BY <2>1, <1>1, FrontOf
<1>3. ASSUME NEW i \in 1..Len(s) PROVE (Lp(s) \o u)[i + 1] = s[i]
  <2>1. i + 1 \in 1..Len(Lp(s))
    BY <1>0, <1>1
  <2>2. (Lp(s) \o u)[i + 1] = Lp(s)[i + 1]
    BY <2>1, <1>1, FrontOf
  <2> QED
    BY <2>2, LpIs
<1> QED
  BY <1>2, <1>3, LpIs

(* Concatenation is associative. *)
LEMMA BytesAssoc ==
  ASSUME NEW s \in Bytes, NEW t \in Bytes, NEW u \in Bytes
  PROVE  Join(Join(s, t), u) = Join(s, Join(t, u)) /\ Join(s, t) \in Bytes
BY ConcatAssociative, ConcatProperties DEF Bytes, Join

(* A piece at the end of c moves in front of what follows. *)
LEMMA JoinStep ==
  ASSUME NEW s \in Bytes, NEW t \in Bytes, NEW c, c = Join(s, t)
  PROVE  \A z \in Bytes : Join(c, z) = Join(s, Join(t, z))
BY BytesAssoc

(* Nothing in front adds nothing. *)
LEMMA JoinEmpty == ASSUME NEW u \in Bytes PROVE Join(<<>>, u) = u /\ Join(u, <<>>) = u
BY ConcatEmptySeq DEF Bytes, Join

(* A string can be read back from the front of a pre-image. *)
LEMMA LpReads ==
  ASSUME NEW s \in Bytes, NEW t \in Bytes, NEW u \in Bytes, NEW v \in Bytes,
         Join(Lp(s), u) = Join(Lp(t), v)
  PROVE  s = t /\ u = v
<1>0. Lp(s) \o u = Lp(t) \o v
  BY Zenon DEF Join
<1>1. (Lp(s) \o u)[1] = Len(s) /\ \A i \in 1..Len(s) : (Lp(s) \o u)[i + 1] = s[i]
  BY LpFront, Zenon
<1>2. (Lp(t) \o v)[1] = Len(t) /\ \A i \in 1..Len(t) : (Lp(t) \o v)[i + 1] = t[i]
  BY LpFront, Zenon
<1>3. Len(s) = Len(t)
  BY <1>0, <1>1, <1>2, Zenon
<1>4. ASSUME NEW i \in 1..Len(s) PROVE s[i] = t[i]
  BY <1>0, <1>1, <1>2, <1>3, Zenon
<1>5. s = t
  BY <1>3, <1>4, SeqEqual DEF Bytes
<1> QED
  BY <1>0, <1>5, LpIs, CancelFront

(* And so can a number. *)
LEMMA WordReads ==
  ASSUME NEW a \in Int, NEW b \in Int, NEW u \in Bytes, NEW v \in Bytes,
         Join(<<a>>, u) = Join(<<b>>, v)
  PROVE  a = b /\ u = v
<1>0. <<a>> \o u = <<b>> \o v
  BY Zenon DEF Join
<1>1. <<a>> \in Bytes /\ <<b>> \in Bytes
  BY DEF Bytes
<1>2. (<<a>> \o u)[1] = a /\ (<<b>> \o v)[1] = b
  BY DEF Bytes
<1> QED
  BY <1>0, <1>1, <1>2, CancelFront

(* The end of a pre-image is not a number. *)
LEMMA EndIsNoWord ==
  ASSUME NEW a \in Int, NEW u \in Bytes PROVE Join(<<a>>, u) # << >>
<1>1. Len(<<a>> \o u) = 1 + Len(u)
  BY DEF Bytes
<1> QED
  BY <1>1 DEF Bytes, Join

(* A word is a sequence, and the empty string is the word 0. *)
LEMMA WordIs == (\A i \in Int : <<i>> \in Bytes) /\ <<>> \in Bytes /\ Lp(<<>>) = <<0>>
BY DEF Bytes, Lp

(* Two words make a counter. *)
LEMMA U64Is ==
  ASSUME NEW n \in Int, NEW u \in Bytes
  PROVE  U64(n) \in Bytes /\ Join(U64(n), u) = Join(<<0>>, Join(<<n>>, u))
<1>1. U64(n) = <<0>> \o <<n>>
  BY DEF U64
<1>2. <<0>> \in Bytes /\ <<n>> \in Bytes
  BY DEF Bytes
<1> QED
  BY <1>1, <1>2, ConcatAssociative, ConcatProperties DEF Bytes, Join

(* A counter can be read back. *)
LEMMA CounterReads ==
  ASSUME NEW n \in Int, NEW m \in Int, NEW u \in Bytes, NEW v \in Bytes, Join(U64(n), u) = Join(U64(m), v)
  PROVE  n = m /\ u = v
<1>1. <<n>> \in Bytes /\ <<m>> \in Bytes
  BY DEF Bytes
<1>2. Join(<<n>>, u) \in Bytes /\ Join(<<m>>, v) \in Bytes
  BY <1>1, BytesAssoc
<1>3. Join(<<n>>, u) = Join(<<m>>, v)
  BY <1>2, U64Is, WordReads
<1> QED
  BY <1>3, WordReads

(* A string with what follows it starts with its length. *)
LEMMA LpWord ==
  ASSUME NEW s \in Bytes, NEW u \in Bytes
  PROVE  Join(Lp(s), u) = Join(<<Len(s)>>, Join(s, u)) /\ Join(s, u) \in Bytes
<1>1. <<Len(s)>> \in Bytes
  BY DEF Bytes
<1> QED
  BY <1>1, ConcatAssociative, ConcatProperties DEF Bytes, Lp, Join

--------------------------------------------------------------------------------
(* Lists *)

(* out is the table of the loop over parts. *)
IsOut(parts, out) ==
  out = [n \in 0..Len(parts) |-> IF n = 0 THEN <<>> ELSE out[n - 1] \o parts[n]]

(* Such a table exists for the first n parts. *)
LEMMA OutExists ==
  ASSUME NEW parts, Len(parts) \in Nat
  PROVE  \E out : IsOut(parts, out)
<1> DEFINE P(k) == \E f : f = [n \in 0..k |-> IF n = 0 THEN <<>> ELSE f[n - 1] \o parts[n]]
           T == {k \in Nat : P(k)}
<1>1. 0 \in T
  <2>1. [n \in 0..0 |-> <<>>] = [n \in 0..0 |-> IF n = 0 THEN <<>> ELSE [m \in 0..0 |-> <<>>][n - 1] \o parts[n]]
    OBVIOUS
  <2> QED
    BY <2>1
<1>2. ASSUME NEW k \in Nat, k \in T PROVE k + 1 \in T
  <2>1. PICK f : f = [n \in 0..k |-> IF n = 0 THEN <<>> ELSE f[n - 1] \o parts[n]]
    BY <1>2
  <2> DEFINE g == [n \in 0..(k + 1) |-> IF n = k + 1 THEN f[k] \o parts[k + 1] ELSE f[n]]
  <2>2. \A n \in 0..k : f[n] = IF n = 0 THEN <<>> ELSE f[n - 1] \o parts[n]
    BY <2>1
  <2>3. ASSUME NEW n \in 0..(k + 1) PROVE g[n] = IF n = 0 THEN <<>> ELSE g[n - 1] \o parts[n]
    <3>1. CASE n = k + 1
      <4>1. n # 0 /\ n - 1 = k /\ k \in 0..(k + 1) /\ k # k + 1
        BY <3>1
      <4>2. g[n - 1] = f[k]
        BY <4>1
      <4> QED
        BY <3>1, <4>1, <4>2
    <3>2. CASE n # k + 1
      <4>1. n \in 0..k
        BY <3>2
      <4>2. n # 0 => n - 1 \in 0..(k + 1) /\ n - 1 # k + 1
        BY <4>1
      <4> QED
        BY <3>2, <4>1, <4>2, <2>2
    <3> QED
      BY <3>1, <3>2
  <2>4. g = [n \in 0..(k + 1) |-> IF n = 0 THEN <<>> ELSE g[n - 1] \o parts[n]]
    <3> HIDE DEF g
    <3>1. g = [n \in 0..(k + 1) |-> g[n]]
      BY DEF g
    <3> QED
      BY <2>3, <3>1
  <2> HIDE DEF g
  <2>5. P(k + 1)
    BY <2>4, Zenon
  <2> HIDE DEF P
  <2> QED
    BY <2>5
<1> HIDE DEF T
<1>3. \A k \in Nat : k \in T
  BY <1>1, <1>2, NatSetInduction
<1> QED
  BY <1>3 DEF T, IsOut

(* Concat is the last entry of one. *)
LEMMA ConcatIs ==
  ASSUME NEW parts, Len(parts) \in Nat
  PROVE  \E out : /\ Concat(parts) = out[Len(parts)] /\ out[0] = <<>>
                  /\ \A n \in 1..Len(parts) : out[n] = Join(out[n - 1], parts[n])
<1> DEFINE o == CHOOSE out : IsOut(parts, out)
<1>1. Concat(parts) = o[Len(parts)]
  BY DEF Concat, IsOut
<1>2. IsOut(parts, o)
  BY OutExists
<1> HIDE DEF o
<1>3. \A n \in 0..Len(parts) : o[n] = IF n = 0 THEN <<>> ELSE o[n - 1] \o parts[n]
  BY <1>2 DEF IsOut
<1>4. o[0] = <<>>
  BY <1>3
<1>5. ASSUME NEW n \in 1..Len(parts) PROVE o[n] = Join(o[n - 1], parts[n])
  <2>1. n \in 0..Len(parts) /\ n # 0
    OBVIOUS
  <2> QED
    BY <2>1, <1>3, Zenon DEF Join
<1> QED
  BY <1>1, <1>4, <1>5

(* The codes of C can be read back from the front of a pre-image. *)
Readable(C) ==
  /\ C \subseteq Bytes
  /\ \A x, y \in C : \A u, v \in Bytes : Join(x, u) = Join(y, v) => x = y /\ u = v

(* Readable parts in a row can be read back, one by one. *)
LEMMA ConcatReads ==
  ASSUME NEW C, Readable(C), NEW n \in Nat, NEW p \in [1..n -> C], NEW q \in [1..n -> C],
         NEW u \in Bytes, NEW v \in Bytes, Join(Concat(p), u) = Join(Concat(q), v)
  PROVE  p = q /\ u = v
<1>1. Len(p) = n /\ Len(q) = n
  OBVIOUS
<1>2. PICK f : /\ Concat(p) = f[n] /\ f[0] = <<>> /\ \A k \in 1..n : f[k] = Join(f[k - 1], p[k])
  BY <1>1, ConcatIs
<1>3. PICK g : /\ Concat(q) = g[n] /\ g[0] = <<>> /\ \A k \in 1..n : g[k] = Join(g[k - 1], q[k])
  BY <1>1, ConcatIs
<1> DEFINE B(k) == f[k] \in Bytes /\ g[k] \in Bytes
           E(k) == \A x, y \in Bytes : Join(f[k], x) = Join(g[k], y) => x = y /\ \A i \in 1..k : p[i] = q[i]
           T == {k \in Nat : k <= n => B(k) /\ E(k)}
<1>4. 0 \in T
  <2>1. B(0)
    BY <1>2, <1>3 DEF Bytes
  <2>2. ASSUME NEW x \in Bytes, NEW y \in Bytes, Join(f[0], x) = Join(g[0], y) PROVE x = y
    BY <1>2, <1>3, <2>2, JoinEmpty
  <2>3. \A i \in 1..0 : p[i] = q[i]
    OBVIOUS
  <2>4. E(0)
    BY <2>2, <2>3, Zenon
  <2> HIDE DEF B, E
  <2> QED
    BY <2>1, <2>4
<1>5. ASSUME NEW k \in Nat, k \in T PROVE k + 1 \in T
  <2> SUFFICES ASSUME k + 1 <= n PROVE B(k + 1) /\ E(k + 1)
    <3> HIDE DEF B, E
    <3> QED
      OBVIOUS
  <2>1. B(k) /\ E(k)
    <3> HIDE DEF B, E
    <3> QED
      BY <1>5
  <2>2. k + 1 \in 1..n /\ (k + 1) - 1 = k
    OBVIOUS
  <2>3. f[k + 1] = Join(f[k], p[k + 1]) /\ g[k + 1] = Join(g[k], q[k + 1])
    BY <2>2, <1>2, <1>3
  <2>4. p[k + 1] \in C /\ q[k + 1] \in C /\ p[k + 1] \in Bytes /\ q[k + 1] \in Bytes
    BY <2>2 DEF Readable
  <2>a. f[k] \in Bytes /\ g[k] \in Bytes
    BY <2>1
  <2>5. B(k + 1)
    <3>1. Join(f[k], p[k + 1]) \in Bytes
      BY <2>a, <2>4, BytesAssoc
    <3>2. Join(g[k], q[k + 1]) \in Bytes
      BY <2>a, <2>4, BytesAssoc
    <3> QED
      BY <3>1, <3>2, <2>3
  <2>b. \A z \in Bytes : Join(f[k + 1], z) = Join(f[k], Join(p[k + 1], z))
    BY <2>a, <2>3, <2>4, JoinStep
  <2>c. \A z \in Bytes : Join(g[k + 1], z) = Join(g[k], Join(q[k + 1], z))
    BY <2>a, <2>3, <2>4, JoinStep
  <2>6. ASSUME NEW x \in Bytes, NEW y \in Bytes, Join(f[k + 1], x) = Join(g[k + 1], y)
        PROVE  x = y /\ \A i \in 1..(k + 1) : p[i] = q[i]
    <3>1. /\ Join(f[k + 1], x) = Join(f[k], Join(p[k + 1], x))
          /\ Join(g[k + 1], y) = Join(g[k], Join(q[k + 1], y))
      BY <2>b, <2>c
    <3>2. Join(p[k + 1], x) \in Bytes /\ Join(q[k + 1], y) \in Bytes
      BY <2>4, BytesAssoc
    <3>3. Join(p[k + 1], x) = Join(q[k + 1], y) /\ \A i \in 1..k : p[i] = q[i]
      <4>1. Join(f[k], Join(p[k + 1], x)) = Join(g[k], Join(q[k + 1], y))
        BY <3>1, <2>6
      <4> QED
        BY <4>1, <3>2, <2>1
    <3>4. p[k + 1] = q[k + 1] /\ x = y
      BY <3>3, <2>4 DEF Readable
    <3> QED
      BY <3>3, <3>4
  <2> QED
    BY <2>5, <2>6
<1> HIDE DEF T
<1>6. n \in T
  BY <1>4, <1>5, NatSetInduction
<1>7. E(n)
  <2> HIDE DEF B, E
  <2> QED
    BY <1>6 DEF T
<1>8. u = v /\ \A i \in 1..n : p[i] = q[i]
  BY <1>7, <1>2, <1>3
<1> QED
  BY <1>8

(* A row of parts is a sequence. *)
LEMMA ConcatType ==
  ASSUME NEW n \in Nat, NEW p \in [1..n -> Bytes]
  PROVE  Concat(p) \in Bytes
<1>1. Len(p) = n
  OBVIOUS
<1>2. PICK f : /\ Concat(p) = f[n] /\ f[0] = <<>> /\ \A k \in 1..n : f[k] = Join(f[k - 1], p[k])
  BY <1>1, ConcatIs
<1> DEFINE T == {k \in Nat : k <= n => f[k] \in Bytes}
<1>3. 0 \in T
  <2>1. f[0] \in Bytes
    BY <1>2 DEF Bytes
  <2> QED
    BY <2>1
<1>4. ASSUME NEW k \in Nat, k \in T PROVE k + 1 \in T
  <2> SUFFICES ASSUME k + 1 <= n PROVE f[k + 1] \in Bytes
    OBVIOUS
  <2>1. k + 1 \in 1..n /\ (k + 1) - 1 = k /\ f[k] \in Bytes
    BY <1>4
  <2>2. f[k + 1] = Join(f[k], p[k + 1]) /\ p[k + 1] \in Bytes
    BY <2>1, <1>2
  <2> QED
    BY <2>1, <2>2, BytesAssoc
<1> HIDE DEF T
<1>5. n \in T
  BY <1>3, <1>4, NatSetInduction
<1> QED
  BY <1>2, <1>5 DEF T

(* No parts, or one. *)
LEMMA ConcatFew ==
  ASSUME NEW x \in Bytes, NEW p
  PROVE  /\ Len(p) = 0 => Concat(p) = <<>>
         /\ Len(p) = 1 /\ p[1] = x => Concat(p) = x
<1>1. ASSUME Len(p) = 0 PROVE Concat(p) = <<>>
  <2>1. Len(p) \in Nat
    BY <1>1
  <2> QED
    BY <1>1, <2>1, ConcatIs
<1>2. ASSUME Len(p) = 1, p[1] = x PROVE Concat(p) = x
  <2>0. Len(p) \in Nat
    BY <1>2
  <2>1. PICK out : /\ Concat(p) = out[Len(p)] /\ out[0] = <<>>
                   /\ \A n \in 1..Len(p) : out[n] = Join(out[n - 1], p[n])
    BY <2>0, ConcatIs
  <2>2. 1 \in 1..Len(p) /\ 1 - 1 = 0
    BY <1>2
  <2>3. out[1] = Join(<<>>, x)
    BY <1>2, <2>1, <2>2
  <2> QED
    BY <1>2, <2>1, <2>3, JoinEmpty
<1> QED
  BY <1>1, <1>2

--------------------------------------------------------------------------------
(* The pieces of a pre-image, from the front. *)

(* Four pieces, read from the front. *)
LEMMA NestFour ==
  ASSUME NEW a \in Bytes, NEW b \in Bytes, NEW c \in Bytes, NEW d \in Bytes
  PROVE  /\ Join(Join(Join(a, b), c), d) = Join(a, Join(b, Join(c, d)))
         /\ Join(Join(Join(a, b), c), d) \in Bytes
<1>1. Join(a, b) \in Bytes /\ Join(c, d) \in Bytes
  BY BytesAssoc
<1>2. Join(Join(Join(a, b), c), d) = Join(Join(a, b), Join(c, d)) /\ Join(Join(a, b), c) \in Bytes
  BY <1>1, BytesAssoc
<1>3. Join(Join(a, b), Join(c, d)) = Join(a, Join(b, Join(c, d)))
  BY <1>1, BytesAssoc
<1> QED
  BY <1>2, <1>3, BytesAssoc

(* Five pieces. *)
LEMMA NestFive ==
  ASSUME NEW a \in Bytes, NEW b \in Bytes, NEW c \in Bytes, NEW d \in Bytes
  PROVE  \A z \in Bytes : Join(Join(Join(Join(a, b), c), d), z) = Join(a, Join(b, Join(c, Join(d, z))))
<1> SUFFICES ASSUME NEW z \in Bytes
             PROVE  Join(Join(Join(Join(a, b), c), d), z) = Join(a, Join(b, Join(c, Join(d, z))))
  OBVIOUS
<1>1. Join(d, z) \in Bytes /\ Join(a, b) \in Bytes /\ Join(Join(a, b), c) \in Bytes
  BY BytesAssoc
<1>2. Join(Join(Join(Join(a, b), c), d), z) = Join(Join(Join(a, b), c), Join(d, z))
  BY <1>1, BytesAssoc
<1> QED
  BY <1>1, <1>2, NestFour

(* Six pieces. *)
LEMMA NestSix ==
  ASSUME NEW a \in Bytes, NEW b \in Bytes, NEW c \in Bytes, NEW d \in Bytes, NEW e \in Bytes
  PROVE  /\ Join(Join(Join(Join(a, b), c), d), e) \in Bytes
         /\ \A z \in Bytes :
              Join(Join(Join(Join(Join(a, b), c), d), e), z) = Join(a, Join(b, Join(c, Join(d, Join(e, z)))))
<1>1. PICK w \in Bytes : w = Join(Join(Join(a, b), c), d)
  BY NestFour
<1>2. \A z \in Bytes : Join(e, z) \in Bytes
  BY BytesAssoc
<1>3. \A z \in Bytes : Join(w, z) = Join(a, Join(b, Join(c, Join(d, z))))
  BY <1>1, NestFive
<1>4. Join(w, e) \in Bytes /\ \A z \in Bytes : Join(Join(w, e), z) = Join(w, Join(e, z))
  BY BytesAssoc
<1> QED
  BY <1>1, <1>2, <1>3, <1>4

(* x starts with two strings, which u follows. *)
HasFront(x, a, b, u) == a \in Bytes /\ b \in Bytes /\ u \in Bytes /\ x = Join(Lp(a), Join(Lp(b), u))

(* Both strings and what follows them can be read back. *)
LEMMA FrontReads ==
  ASSUME NEW x, NEW a, NEW b, NEW u, NEW c, NEW d, NEW v, HasFront(x, a, b, u), HasFront(x, c, d, v)
  PROVE  a = c /\ b = d /\ u = v
<1>0. /\ a \in Bytes /\ b \in Bytes /\ u \in Bytes /\ c \in Bytes /\ d \in Bytes /\ v \in Bytes
      /\ Join(Lp(a), Join(Lp(b), u)) = Join(Lp(c), Join(Lp(d), v))
  BY DEF HasFront
<1>1. Join(Lp(b), u) \in Bytes /\ Join(Lp(d), v) \in Bytes
  BY <1>0, LpIs, BytesAssoc
<1>2. a = c /\ Join(Lp(b), u) = Join(Lp(d), v)
  BY <1>0, <1>1, LpReads
<1> QED
  BY <1>0, <1>2, LpReads

(* The lists of a message: artifacts, tools, principals. *)
Artifacts == [path : Bytes, digest : Bytes]
Tools == [tool : Bytes, count : Int]

(* Their codes. *)
ArtifactCodes == {Join(Lp(a.path), Lp(a.digest)) : a \in Artifacts}
ToolCodes == {Join(Lp(t.tool), U64(t.count)) : t \in Tools}
StringCodes == {Lp(s) : s \in Bytes}

(* An artifact can be read back. *)
LEMMA ArtifactReads ==
  ASSUME NEW a \in Artifacts, NEW b \in Artifacts, NEW u \in Bytes, NEW v \in Bytes,
         Join(Join(Lp(a.path), Lp(a.digest)), u) = Join(Join(Lp(b.path), Lp(b.digest)), v)
  PROVE  a = b /\ u = v
<1>1. /\ a.path \in Bytes /\ a.digest \in Bytes /\ b.path \in Bytes /\ b.digest \in Bytes
      /\ (a.path = b.path /\ a.digest = b.digest => a = b)
  BY DEF Artifacts
<1>2. /\ Lp(a.path) \in Bytes /\ Lp(a.digest) \in Bytes
      /\ Lp(b.path) \in Bytes /\ Lp(b.digest) \in Bytes
  BY <1>1, LpIs
<1>3. Join(Lp(a.path), Join(Lp(a.digest), u)) = Join(Lp(b.path), Join(Lp(b.digest), v))
  BY <1>2, BytesAssoc
<1>4. Join(Lp(a.digest), u) \in Bytes /\ Join(Lp(b.digest), v) \in Bytes
  BY <1>2, BytesAssoc
<1>5. a.path = b.path /\ Join(Lp(a.digest), u) = Join(Lp(b.digest), v)
  BY <1>1, <1>3, <1>4, LpReads
<1>6. a.digest = b.digest /\ u = v
  BY <1>1, <1>5, LpReads
<1> QED
  BY <1>1, <1>5, <1>6

(* A tool and its count can be read back. *)
LEMMA ToolReads ==
  ASSUME NEW a \in Tools, NEW b \in Tools, NEW u \in Bytes, NEW v \in Bytes,
         Join(Join(Lp(a.tool), U64(a.count)), u) = Join(Join(Lp(b.tool), U64(b.count)), v)
  PROVE  a = b /\ u = v
<1>1. /\ a.tool \in Bytes /\ a.count \in Int /\ b.tool \in Bytes /\ b.count \in Int
      /\ (a.tool = b.tool /\ a.count = b.count => a = b)
  BY DEF Tools
<1>2. /\ Lp(a.tool) \in Bytes /\ U64(a.count) \in Bytes
      /\ Lp(b.tool) \in Bytes /\ U64(b.count) \in Bytes
  BY <1>1, LpIs, U64Is
<1>3. Join(Lp(a.tool), Join(U64(a.count), u)) = Join(Lp(b.tool), Join(U64(b.count), v))
  BY <1>2, BytesAssoc
<1>4. Join(U64(a.count), u) \in Bytes /\ Join(U64(b.count), v) \in Bytes
  BY <1>2, BytesAssoc
<1>5. a.tool = b.tool /\ Join(U64(a.count), u) = Join(U64(b.count), v)
  BY <1>1, <1>3, <1>4, LpReads
<1>6. a.count = b.count /\ u = v
  BY <1>1, <1>5, CounterReads
<1> QED
  BY <1>1, <1>5, <1>6

(* The codes are readable. *)
LEMMA CodesReadable == Readable(ArtifactCodes) /\ Readable(ToolCodes) /\ Readable(StringCodes)
<1>1. Readable(ArtifactCodes)
  <2>1. ASSUME NEW a \in Artifacts PROVE Join(Lp(a.path), Lp(a.digest)) \in Bytes
    BY LpIs, BytesAssoc DEF Artifacts
  <2>2. ASSUME NEW x \in ArtifactCodes, NEW y \in ArtifactCodes, NEW u \in Bytes, NEW v \in Bytes,
               Join(x, u) = Join(y, v)
        PROVE  x = y /\ u = v
    <3>1. PICK a \in Artifacts : x = Join(Lp(a.path), Lp(a.digest))
      BY DEF ArtifactCodes
    <3>2. PICK b \in Artifacts : y = Join(Lp(b.path), Lp(b.digest))
      BY DEF ArtifactCodes
    <3> QED
      BY <3>1, <3>2, <2>2, ArtifactReads
  <2> QED
    BY <2>1, <2>2 DEF Readable, ArtifactCodes
<1>2. Readable(ToolCodes)
  <2>1. ASSUME NEW a \in Tools PROVE Join(Lp(a.tool), U64(a.count)) \in Bytes
    BY LpIs, U64Is, BytesAssoc DEF Tools
  <2>2. ASSUME NEW x \in ToolCodes, NEW y \in ToolCodes, NEW u \in Bytes, NEW v \in Bytes,
               Join(x, u) = Join(y, v)
        PROVE  x = y /\ u = v
    <3>1. PICK a \in Tools : x = Join(Lp(a.tool), U64(a.count))
      BY DEF ToolCodes
    <3>2. PICK b \in Tools : y = Join(Lp(b.tool), U64(b.count))
      BY DEF ToolCodes
    <3> QED
      BY <3>1, <3>2, <2>2, ToolReads
  <2> QED
    BY <2>1, <2>2 DEF Readable, ToolCodes
<1>3. Readable(StringCodes)
  BY LpIs, LpReads DEF Readable, StringCodes
<1> QED
  BY <1>1, <1>2, <1>3

--------------------------------------------------------------------------------
(* The four kinds of message *)

(* Their types; a list may have any length. *)
ListsOf(S) == UNION {[1..n -> S] : n \in Nat}
ResultForm ==
  [memo_key : Bytes, stdout_ref : Bytes, stderr_ref : Bytes, exit : Int, artifacts : ListsOf(Artifacts)]
ChainForm == [tree : Bytes, def : Bytes, runner : Bytes, model : {<<>>}, principal : [1..1 -> Bytes]]
MetricsForm == [lease : Bytes, tenant : Bytes, tokens : Int, wall : Int, cost : Int, tools : ListsOf(Tools)]

(* What the fabric signs has these forms. *)
LEMMA FormsFit == Results \subseteq ResultForm /\ Chains \subseteq ChainForm /\ Metrics \subseteq MetricsForm
<1> USE AttAssumption
<1>1. Strings \subseteq Bytes /\ Exits \subseteq Int /\ Counts \subseteq Int /\ MaxList \in Nat
  BY DEF Bytes
<1>2. [path : Strings, digest : Strings] \subseteq Artifacts /\ [tool : Strings, count : Counts] \subseteq Tools
  BY <1>1 DEF Artifacts, Tools
<1>3. ASSUME NEW S, NEW R, S \subseteq R PROVE Lists(S) \subseteq ListsOf(R)
  <2> SUFFICES ASSUME NEW x \in Lists(S) PROVE x \in ListsOf(R)
    OBVIOUS
  <2>1. PICK n \in 0..MaxList : x \in [1..n -> S]
    BY DEF Lists
  <2>2. n \in Nat /\ x \in [1..n -> R]
    BY <2>1, <1>1, <1>3
  <2> QED
    BY <2>2 DEF ListsOf
<1>4. <<>> \in ListsOf(Artifacts) /\ <<>> \in Bytes
  <2>1. <<>> \in [1..0 -> Artifacts] /\ 0 \in Nat
    OBVIOUS
  <2> QED
    BY <2>1 DEF ListsOf, Bytes
<1>5. ASSUME NEW r \in Results PROVE r \in ResultForm
  <2>1. CASE r = NoResult
    BY <2>1, <1>4 DEF NoResult, ResultForm
  <2>2. CASE r # NoResult
    <3>1. r \in [memo_key : Strings, stdout_ref : Strings, stderr_ref : Strings, exit : Exits,
                 artifacts : Lists([path : Strings, digest : Strings])]
      BY <2>2 DEF Results
    <3>2. Lists([path : Strings, digest : Strings]) \subseteq ListsOf(Artifacts)
      BY <1>2, <1>3
    <3> QED
      BY <1>1, <3>1, <3>2 DEF ResultForm
  <2> QED
    BY <2>1, <2>2
<1>6. ASSUME NEW c \in Chains PROVE c \in ChainForm
  <2>1. \A p \in Strings : <<p>> \in [1..1 -> Bytes]
    BY <1>1
  <2>2. {<<p>> : p \in Strings} \subseteq [1..1 -> Bytes]
    BY <2>1
  <2> QED
    BY <1>1, <2>2 DEF Chains, ChainForm
<1>7. ASSUME NEW m \in Metrics PROVE m \in MetricsForm
  <2>1. Lists([tool : Strings, count : Counts]) \subseteq ListsOf(Tools)
    BY <1>2, <1>3
  <2> QED
    BY <1>1, <2>1 DEF Metrics, MetricsForm
<1> QED
  BY <1>5, <1>6, <1>7

(* The parts of a list of artifacts are codes. *)
LEMMA ArtifactPartsFit ==
  ASSUME NEW n \in Nat, NEW x \in [1..n -> Artifacts]
  PROVE  Len(x) = n /\ ArtifactParts(x) \in [1..n -> ArtifactCodes]
<1>1. Len(x) = n
  OBVIOUS
<1>2. \A i \in 1..n : Lp(x[i].path) \o Lp(x[i].digest) \in ArtifactCodes
  BY DEF ArtifactCodes, Join
<1> QED
  BY <1>1, <1>2 DEF ArtifactParts

(* The artifacts can be read back from their parts. *)
LEMMA ArtifactPartsRead ==
  ASSUME NEW n \in Nat, NEW x \in [1..n -> Artifacts], NEW y \in [1..n -> Artifacts],
         ArtifactParts(x) = ArtifactParts(y)
  PROVE  x = y
<1>1. Len(x) = n /\ Len(y) = n
  OBVIOUS
<1>2. ASSUME NEW i \in 1..n PROVE x[i] = y[i]
  <2>1. ArtifactParts(x)[i] = Join(Lp(x[i].path), Lp(x[i].digest))
    BY <1>1 DEF ArtifactParts, Join
  <2>2. ArtifactParts(y)[i] = Join(Lp(y[i].path), Lp(y[i].digest))
    BY <1>1 DEF ArtifactParts, Join
  <2>3. PICK a \in Artifacts : a = x[i]
    OBVIOUS
  <2>4. PICK b \in Artifacts : b = y[i]
    OBVIOUS
  <2>5. Join(Join(Lp(a.path), Lp(a.digest)), <<>>) = Join(Join(Lp(b.path), Lp(b.digest)), <<>>)
    BY <2>1, <2>2, <2>3, <2>4
  <2>6. <<>> \in Bytes
    BY DEF Bytes
  <2> QED
    BY <2>3, <2>4, <2>5, <2>6, ArtifactReads
<1> QED
  BY <1>2

(* The parts of a tool breakdown are codes. *)
LEMMA ToolPartsFit ==
  ASSUME NEW n \in Nat, NEW x \in [1..n -> Tools]
  PROVE  Len(x) = n /\ ToolParts(x) \in [1..n -> ToolCodes]
<1>1. Len(x) = n
  OBVIOUS
<1>2. \A i \in 1..n : Lp(x[i].tool) \o U64(x[i].count) \in ToolCodes
  BY DEF ToolCodes, Join
<1> QED
  BY <1>1, <1>2 DEF ToolParts

(* The breakdown can be read back from its parts. *)
LEMMA ToolPartsRead ==
  ASSUME NEW n \in Nat, NEW x \in [1..n -> Tools], NEW y \in [1..n -> Tools], ToolParts(x) = ToolParts(y)
  PROVE  x = y
<1>1. Len(x) = n /\ Len(y) = n
  OBVIOUS
<1>2. ASSUME NEW i \in 1..n PROVE x[i] = y[i]
  <2>1. ToolParts(x)[i] = Join(Lp(x[i].tool), U64(x[i].count))
    BY <1>1 DEF ToolParts, Join
  <2>2. ToolParts(y)[i] = Join(Lp(y[i].tool), U64(y[i].count))
    BY <1>1 DEF ToolParts, Join
  <2>3. PICK a \in Tools : a = x[i]
    OBVIOUS
  <2>4. PICK b \in Tools : b = y[i]
    OBVIOUS
  <2>5. Join(Join(Lp(a.tool), U64(a.count)), <<>>) = Join(Join(Lp(b.tool), U64(b.count)), <<>>)
    BY <2>1, <2>2, <2>3, <2>4
  <2>6. <<>> \in Bytes
    BY DEF Bytes
  <2> QED
    BY <2>3, <2>4, <2>5, <2>6, ToolReads
<1> QED
  BY <1>2

(* What follows the first two strings of each kind. *)
V1Tail(e) == Join(Lp(e), <<>>)
V2Tail(e, x, n, C) == Join(Lp(e), Join(<<x>>, Join(<<n>>, C)))
ChainTail(run, L) == Join(Lp(run), Join(<<0>>, Join(<<1>>, L)))
MetricsTail(t, w, n, R) == Join(<<0>>, Join(<<t>>, Join(<<0>>, Join(<<w>>, Join(<<n>>, R)))))

(* They are sequences. *)
LEMMA TailsFit ==
  ASSUME NEW e \in Bytes, NEW x \in Int, NEW y \in Int, NEW n \in Int, NEW C \in Bytes
  PROVE  /\ V1Tail(e) \in Bytes /\ V2Tail(e, x, n, C) \in Bytes /\ ChainTail(e, C) \in Bytes
         /\ MetricsTail(x, y, n, C) \in Bytes
         /\ Join(<<x>>, Join(<<n>>, C)) \in Bytes /\ Join(<<n>>, C) \in Bytes
         /\ Join(<<x>>, Join(<<0>>, Join(<<y>>, Join(<<n>>, C)))) \in Bytes
         /\ Join(<<0>>, Join(<<y>>, Join(<<n>>, C))) \in Bytes
<1>1. <<>> \in Bytes /\ \A i \in Int : <<i>> \in Bytes
  BY DEF Bytes
<1>2. \A i \in Int : \A u \in Bytes : Join(<<i>>, u) \in Bytes
  BY <1>1, BytesAssoc
<1>3. \A u \in Bytes : Join(Lp(e), u) \in Bytes
  BY LpIs, BytesAssoc
<1>4. 0 \in Int /\ 1 \in Int
  OBVIOUS
<1> QED
  BY <1>1, <1>2, <1>3, <1>4, Zenon DEF V1Tail, V2Tail, ChainTail, MetricsTail

(* Words in a row. *)
LEMMA TwoWordsRead ==
  ASSUME NEW a \in Int, NEW b \in Int, NEW c \in Int, NEW d \in Int, NEW u \in Bytes, NEW v \in Bytes,
         Join(<<a>>, Join(<<b>>, u)) = Join(<<c>>, Join(<<d>>, v))
  PROVE  a = c /\ b = d /\ u = v
<1>1. Join(<<b>>, u) \in Bytes /\ Join(<<d>>, v) \in Bytes
  BY TailsFit
<1>2. a = c /\ Join(<<b>>, u) = Join(<<d>>, v)
  BY <1>1, WordReads
<1> QED
  BY <1>2, WordReads

(* A string that starts where a word 0 is, is empty. *)
LEMMA EmptyString ==
  ASSUME NEW e \in Bytes, NEW u \in Bytes, NEW v \in Bytes, Join(Lp(e), u) = Join(<< 0 >>, v)
  PROVE  e = <<>> /\ u = v
<1>1. Join(<<Len(e)>>, Join(e, u)) = Join(<<0>>, v) /\ Join(e, u) \in Bytes /\ Len(e) \in Int
  <2>1. Len(e) \in Int
    BY DEF Bytes
  <2> QED
    BY <2>1, LpWord
<1>2. Len(e) = 0 /\ Join(e, u) = v
  BY <1>1, WordReads
<1>3. e = <<>>
  BY <1>2 DEF Bytes
<1> QED
  BY <1>2, <1>3, JoinEmpty

(* Nothing follows the three strings of the first result binding. *)
LEMMA V1IsV1 ==
  ASSUME NEW e \in Bytes, NEW d \in Bytes, NEW x \in Int, NEW y \in Int, NEW n \in Int, NEW C \in Bytes
  PROVE  /\ V1Tail(e) = V1Tail(d) => e = d
         /\ V1Tail(e) # V2Tail(d, x, n, C)
         /\ V1Tail(e) # ChainTail(d, C)
         /\ V1Tail(e) # MetricsTail(x, y, n, C)
<1>0. <<>> \in Bytes /\ 0 \in Int /\ 1 \in Int
  BY DEF Bytes
<1>1. V1Tail(e) = V1Tail(d) => e = d
  BY <1>0, LpReads DEF V1Tail
<1>2. ASSUME V1Tail(e) = V2Tail(d, x, n, C) PROVE FALSE
  <2>1. Join(<<x>>, Join(<<n>>, C)) \in Bytes /\ Join(<<n>>, C) \in Bytes
    BY TailsFit
  <2>2. <<>> = Join(<<x>>, Join(<<n>>, C))
    BY <1>0, <1>2, <2>1, LpReads DEF V1Tail, V2Tail
  <2> QED
    BY <2>1, <2>2, EndIsNoWord
<1>3. ASSUME V1Tail(e) = ChainTail(d, C) PROVE FALSE
  <2>1. Join(<<0>>, Join(<<1>>, C)) \in Bytes /\ Join(<<1>>, C) \in Bytes
    BY <1>0, TailsFit
  <2>2. <<>> = Join(<<0>>, Join(<<1>>, C))
    BY <1>0, <1>3, <2>1, LpReads DEF V1Tail, ChainTail
  <2> QED
    BY <1>0, <2>1, <2>2, EndIsNoWord
<1>4. ASSUME V1Tail(e) = MetricsTail(x, y, n, C) PROVE FALSE
  <2>1. /\ Join(<<x>>, Join(<<0>>, Join(<<y>>, Join(<<n>>, C)))) \in Bytes
        /\ Join(<<0>>, Join(<<y>>, Join(<<n>>, C))) \in Bytes
    BY TailsFit
  <2>2. <<>> = Join(<<x>>, Join(<<0>>, Join(<<y>>, Join(<<n>>, C))))
    BY <1>0, <1>4, <2>1, EmptyString DEF V1Tail, MetricsTail
  <2> QED
    BY <2>1, <2>2, EndIsNoWord
<1> QED
  BY <1>1, <1>2, <1>3, <1>4

(* The verdict, the number of artifacts and the artifacts follow the strings. *)
LEMMA V2IsV2 ==
  ASSUME NEW e \in Bytes, NEW d \in Bytes, NEW x \in Int, NEW y \in Int, NEW n \in Int, NEW k \in Int,
         NEW C \in Bytes, NEW D \in Bytes, V2Tail(e, x, n, C) = V2Tail(d, y, k, D)
  PROVE  e = d /\ x = y /\ n = k /\ C = D
<1>1. Join(<<x>>, Join(<<n>>, C)) \in Bytes /\ Join(<<y>>, Join(<<k>>, D)) \in Bytes
  BY TailsFit
<1>2. e = d /\ Join(<<x>>, Join(<<n>>, C)) = Join(<<y>>, Join(<<k>>, D))
  BY <1>1, LpReads DEF V2Tail
<1> QED
  BY <1>2, TwoWordsRead

(* The number of artifacts is read where a chain says that it has one principal. *)
LEMMA V2IsNoChain ==
  ASSUME NEW e \in Bytes, NEW d \in Bytes, NEW x \in Int, NEW n \in Int, NEW C \in Bytes, NEW D \in Bytes,
         V2Tail(e, x, n, C) = ChainTail(d, D)
  PROVE  n = 1 /\ C = D
<1>0. 0 \in Int /\ 1 \in Int
  OBVIOUS
<1>1. Join(<<x>>, Join(<<n>>, C)) \in Bytes /\ Join(<<0>>, Join(<<1>>, D)) \in Bytes
  BY <1>0, TailsFit
<1>2. Join(<<x>>, Join(<<n>>, C)) = Join(<<0>>, Join(<<1>>, D))
  BY <1>1, LpReads DEF V2Tail, ChainTail
<1> QED
  BY <1>0, <1>2, TwoWordsRead

(* It is read where the high word of the metrics' second counter is 0. *)
LEMMA V2IsNoMetrics ==
  ASSUME NEW e \in Bytes, NEW x \in Int, NEW n \in Int, NEW C \in Bytes,
         NEW y \in Int, NEW w \in Int, NEW k \in Int, NEW D \in Bytes,
         V2Tail(e, x, n, C) = MetricsTail(y, w, k, D)
  PROVE  n = 0 /\ C # <<>>
<1>0. Join(<<x>>, Join(<<n>>, C)) \in Bytes /\ 0 \in Int
  BY TailsFit
<1>1. /\ Join(<<y>>, Join(<<0>>, Join(<<w>>, Join(<<k>>, D)))) \in Bytes
      /\ Join(<<w>>, Join(<<k>>, D)) \in Bytes /\ Join(<<k>>, D) \in Bytes
  BY TailsFit
<1>2. Join(<<x>>, Join(<<n>>, C)) = Join(<<y>>, Join(<<0>>, Join(<<w>>, Join(<<k>>, D))))
  BY <1>0, <1>1, EmptyString DEF V2Tail, MetricsTail
<1>3. n = 0 /\ C = Join(<<w>>, Join(<<k>>, D))
  BY <1>0, <1>1, <1>2, TwoWordsRead
<1> QED
  BY <1>1, <1>3, EndIsNoWord

(* The runner and the principal of a chain. *)
LEMMA ChainIsChain ==
  ASSUME NEW e \in Bytes, NEW d \in Bytes, NEW C \in Bytes, NEW D \in Bytes, ChainTail(e, C) = ChainTail(d, D)
  PROVE  e = d /\ C = D
<1>0. 0 \in Int /\ 1 \in Int
  OBVIOUS
<1>1. Join(<<0>>, Join(<<1>>, C)) \in Bytes /\ Join(<<0>>, Join(<<1>>, D)) \in Bytes
  BY <1>0, TailsFit
<1>2. e = d /\ Join(<<0>>, Join(<<1>>, C)) = Join(<<0>>, Join(<<1>>, D))
  BY <1>1, LpReads DEF ChainTail
<1> QED
  BY <1>0, <1>2, TwoWordsRead

(* A chain has the number of its principals where a high word is 0. *)
LEMMA ChainIsNoMetrics ==
  ASSUME NEW e \in Bytes, NEW C \in Bytes, NEW y \in Int, NEW w \in Int, NEW k \in Int, NEW D \in Bytes
  PROVE  ChainTail(e, C) # MetricsTail(y, w, k, D)
<1> SUFFICES ASSUME ChainTail(e, C) = MetricsTail(y, w, k, D) PROVE FALSE
  OBVIOUS
<1>0. 0 \in Int /\ 1 \in Int
  OBVIOUS
<1>1. Join(<<0>>, Join(<<1>>, C)) \in Bytes
  BY <1>0, TailsFit
<1>2. /\ Join(<<y>>, Join(<<0>>, Join(<<w>>, Join(<<k>>, D)))) \in Bytes
      /\ Join(<<w>>, Join(<<k>>, D)) \in Bytes /\ Join(<<k>>, D) \in Bytes
  BY TailsFit
<1>3. Join(<<0>>, Join(<<1>>, C)) = Join(<<y>>, Join(<<0>>, Join(<<w>>, Join(<<k>>, D))))
  BY <1>1, <1>2, EmptyString DEF ChainTail, MetricsTail
<1>4. 1 = 0
  BY <1>0, <1>2, <1>3, TwoWordsRead
<1> QED
  BY <1>4

(* The counters and the number of tools. *)
LEMMA MetricsAreMetrics ==
  ASSUME NEW t \in Int, NEW w \in Int, NEW n \in Int, NEW y \in Int, NEW z \in Int, NEW k \in Int,
         NEW C \in Bytes, NEW D \in Bytes, MetricsTail(t, w, n, C) = MetricsTail(y, z, k, D)
  PROVE  t = y /\ w = z /\ n = k /\ C = D
<1>1. /\ Join(<<0>>, Join(<<w>>, Join(<<n>>, C))) \in Bytes /\ Join(<<0>>, Join(<<z>>, Join(<<k>>, D))) \in Bytes
      /\ Join(<<n>>, C) \in Bytes /\ Join(<<k>>, D) \in Bytes /\ 0 \in Int
  BY TailsFit
<1>2. t = y /\ Join(<<0>>, Join(<<w>>, Join(<<n>>, C))) = Join(<<0>>, Join(<<z>>, Join(<<k>>, D)))
  BY <1>1, TwoWordsRead DEF MetricsTail
<1>3. w = z /\ Join(<<n>>, C) = Join(<<k>>, D)
  BY <1>1, <1>2, TwoWordsRead
<1> QED
  BY <1>2, <1>3, WordReads

--------------------------------------------------------------------------------
(* The pre-images, from the front *)

(* A result: its three strings, then the verdict and the artifacts. *)
LEMMA ResultShape ==
  ASSUME NEW r \in ResultForm
  PROVE  /\ r.memo_key \in Bytes /\ r.stdout_ref \in Bytes /\ r.stderr_ref \in Bytes /\ r.exit \in Int
         /\ HasFront(ResultBinding(r), r.memo_key, r.stdout_ref, V1Tail(r.stderr_ref))
         /\ Len(r.artifacts) \in Nat /\ r.artifacts \in [1..Len(r.artifacts) -> Artifacts]
         /\ Concat(ArtifactParts(r.artifacts)) \in Bytes
         /\ HasFront(ResultBindingV2(r), r.memo_key, r.stdout_ref,
                     V2Tail(r.stderr_ref, r.exit, Len(r.artifacts), Concat(ArtifactParts(r.artifacts))))
<1>1. r.memo_key \in Bytes /\ r.stdout_ref \in Bytes /\ r.stderr_ref \in Bytes /\ r.exit \in Int
  BY DEF ResultForm
<1>2. PICK n \in Nat : r.artifacts \in [1..n -> Artifacts]
  BY DEF ResultForm, ListsOf
<1>3. Len(r.artifacts) = n /\ ArtifactParts(r.artifacts) \in [1..n -> ArtifactCodes]
  BY <1>2, ArtifactPartsFit
<1>4. PICK c \in Bytes : c = Concat(ArtifactParts(r.artifacts))
  <2>1. ArtifactParts(r.artifacts) \in [1..n -> Bytes]
    BY <1>3, CodesReadable DEF Readable
  <2> QED
    BY <2>1, ConcatType
<1>5. PICK k \in Bytes : k = Lp(r.memo_key)
  BY <1>1, LpIs
<1>6. PICK o \in Bytes : o = Lp(r.stdout_ref)
  BY <1>1, LpIs
<1>7. PICK e \in Bytes : e = Lp(r.stderr_ref)
  BY <1>1, LpIs
<1>8. PICK x \in Bytes : x = <<r.exit>>
  BY <1>1, WordIs, Zenon
<1>a. Len(r.artifacts) \in Int
  BY <1>2, <1>3
<1>9. PICK l \in Bytes : l = <<Len(r.artifacts)>>
  BY <1>a, WordIs, Zenon
<1>10. ResultBinding(r) = Join(Join(k, o), e)
  BY <1>5, <1>6, <1>7, Zenon DEF ResultBinding, Join
<1>11. Join(Join(k, o), e) = Join(k, Join(o, Join(e, <<>>)))
  BY BytesAssoc, JoinEmpty
<1>12. ResultBindingV2(r) = Join(Join(Join(Join(Join(k, o), e), x), l), c)
  BY <1>4, <1>8, <1>9, <1>10, Zenon DEF ResultBindingV2, Join
<1>13. Join(Join(Join(Join(Join(k, o), e), x), l), c) = Join(k, Join(o, Join(e, Join(x, Join(l, c)))))
  BY NestSix
<1>14. HasFront(ResultBinding(r), r.memo_key, r.stdout_ref, V1Tail(r.stderr_ref))
  <2>1. V1Tail(r.stderr_ref) \in Bytes
    BY <1>1, WordIs, LpIs, BytesAssoc DEF V1Tail
  <2> QED
    BY <1>1, <1>5, <1>6, <1>7, <1>10, <1>11, <2>1, Zenon DEF HasFront, V1Tail
<1>15. HasFront(ResultBindingV2(r), r.memo_key, r.stdout_ref, V2Tail(r.stderr_ref, r.exit, Len(r.artifacts), c))
  <2>1. V2Tail(r.stderr_ref, r.exit, Len(r.artifacts), c) \in Bytes
    BY <1>1, <1>a, TailsFit
  <2> QED
    BY <1>1, <1>5, <1>6, <1>7, <1>8, <1>9, <1>12, <1>13, <2>1, Zenon DEF HasFront, V2Tail
<1> QED
  BY <1>1, <1>2, <1>3, <1>4, <1>14, <1>15, Zenon

(* A chain: its three strings, the empty model, and its one principal. *)
LEMMA ChainShape ==
  ASSUME NEW c \in ChainForm
  PROVE  /\ c.tree \in Bytes /\ c.def \in Bytes /\ c.runner \in Bytes /\ c.model = <<>>
         /\ c.principal \in [1..1 -> Bytes] /\ Lp(c.principal[1]) \in Bytes
         /\ HasFront(ChainPreimage(c), c.tree, c.def, ChainTail(c.runner, Lp(c.principal[1])))
<1>1. /\ c.tree \in Bytes /\ c.def \in Bytes /\ c.runner \in Bytes /\ c.model = <<>>
      /\ c.principal \in [1..1 -> Bytes]
  BY DEF ChainForm
<1>2. Len(c.principal) = 1 /\ c.principal[1] \in Bytes
  BY <1>1
<1>3. PICK p \in Bytes : p = Lp(c.principal[1])
  BY <1>2, LpIs
<1>4. LpAll(c.principal) = p
  <2> DEFINE parts == [i \in 1..Len(c.principal) |-> Lp(c.principal[i])]
  <2>1. Len(parts) = 1 /\ parts[1] = p
    BY <1>2, <1>3
  <2>2. LpAll(c.principal) = Concat(parts)
    BY DEF LpAll
  <2> HIDE DEF parts
  <2> QED
    BY <2>1, <2>2, ConcatFew
<1>5. PICK t \in Bytes : t = Lp(c.tree)
  BY <1>1, LpIs
<1>6. PICK d \in Bytes : d = Lp(c.def)
  BY <1>1, LpIs
<1>7. PICK r \in Bytes : r = Lp(c.runner)
  BY <1>1, LpIs
<1>8. PICK m \in Bytes : m = <<0>> /\ m = Lp(c.model)
  <2>1. <<0>> \in Bytes /\ <<0>> = Lp(c.model)
    BY <1>1, WordIs
  <2> QED
    BY <2>1, Zenon
<1>9. PICK l \in Bytes : l = <<1>> /\ l = <<Len(c.principal)>>
  <2>1. <<1>> \in Bytes
    BY WordIs
  <2> QED
    BY <2>1, <1>2, Zenon
<1>10. ChainPreimage(c) = Join(Join(Join(Join(Join(t, d), r), m), l), p)
  BY <1>4, <1>5, <1>6, <1>7, <1>8, <1>9, Zenon DEF ChainPreimage, Join
<1>11. Join(Join(Join(Join(Join(t, d), r), m), l), p) = Join(t, Join(d, Join(r, Join(m, Join(l, p)))))
  BY NestSix
<1>12. ChainTail(c.runner, p) \in Bytes
  BY <1>7, <1>8, <1>9, BytesAssoc DEF ChainTail
<1> QED
  BY <1>1, <1>3, <1>5, <1>6, <1>7, <1>8, <1>9, <1>10, <1>11, <1>12, Zenon DEF ChainTail, HasFront

(* The metrics: lease and tenant, the counters, the tools and the cost. *)
LEMMA MetricsShape ==
  ASSUME NEW m \in MetricsForm
  PROVE  /\ m.lease \in Bytes /\ m.tenant \in Bytes /\ m.tokens \in Int /\ m.wall \in Int /\ m.cost \in Int
         /\ Len(m.tools) \in Nat /\ m.tools \in [1..Len(m.tools) -> Tools]
         /\ Join(Concat(ToolParts(m.tools)), U64(m.cost)) \in Bytes
         /\ HasFront(MetricsPreimage(m), m.lease, m.tenant,
              MetricsTail(m.tokens, m.wall, Len(m.tools), Join(Concat(ToolParts(m.tools)), U64(m.cost))))
<1>1. m.lease \in Bytes /\ m.tenant \in Bytes /\ m.tokens \in Int /\ m.wall \in Int /\ m.cost \in Int
  BY DEF MetricsForm
<1>2. PICK n \in Nat : m.tools \in [1..n -> Tools]
  BY DEF MetricsForm, ListsOf
<1>3. Len(m.tools) = n /\ ToolParts(m.tools) \in [1..n -> ToolCodes]
  BY <1>2, ToolPartsFit
<1>4. PICK c \in Bytes : c = Concat(ToolParts(m.tools))
  <2>1. ToolParts(m.tools) \in [1..n -> Bytes]
    BY <1>3, CodesReadable DEF Readable
  <2> QED
    BY <2>1, ConcatType
<1>5. PICK a \in Bytes : a = Lp(m.lease)
  BY <1>1, LpIs
<1>6. PICK b \in Bytes : b = Lp(m.tenant)
  BY <1>1, LpIs
<1>7. PICK t \in Bytes : t = U64(m.tokens) /\ \A z \in Bytes : Join(t, z) = Join(<<0>>, Join(<<m.tokens>>, z))
  BY <1>1, U64Is
<1>8. PICK w \in Bytes : w = U64(m.wall) /\ \A z \in Bytes : Join(w, z) = Join(<<0>>, Join(<<m.wall>>, z))
  BY <1>1, U64Is
<1>0. Len(m.tools) \in Int
  BY <1>2, <1>3
<1>9. PICK l \in Bytes : l = <<Len(m.tools)>>
  BY <1>0, WordIs, Zenon
<1>10. PICK u \in Bytes : u = U64(m.cost)
  BY <1>1, U64Is
<1>11. MetricsPreimage(m) = Join(Join(Join(Join(Join(Join(a, b), t), w), l), c), u)
  BY <1>4, <1>5, <1>6, <1>7, <1>8, <1>9, <1>10, Zenon DEF MetricsPreimage, Join
<1>12. Join(Join(Join(Join(Join(Join(a, b), t), w), l), c), u)
         = Join(a, Join(b, Join(t, Join(w, Join(l, Join(c, u))))))
  <2>1. PICK y \in Bytes : /\ y = Join(Join(Join(Join(a, b), t), w), l)
                           /\ \A z \in Bytes : Join(y, z) = Join(a, Join(b, Join(t, Join(w, Join(l, z)))))
    BY NestSix
  <2>2. Join(Join(y, c), u) = Join(y, Join(c, u)) /\ Join(c, u) \in Bytes
    BY BytesAssoc
  <2> QED
    BY <2>1, <2>2, Zenon
<1>13. Join(c, u) \in Bytes /\ Join(l, Join(c, u)) \in Bytes /\ Join(w, Join(l, Join(c, u))) \in Bytes
  BY BytesAssoc
<1>14. Join(t, Join(w, Join(l, Join(c, u)))) = MetricsTail(m.tokens, m.wall, Len(m.tools), Join(c, u))
  BY <1>7, <1>8, <1>9, <1>13, Zenon DEF MetricsTail
<1>15. Join(t, Join(w, Join(l, Join(c, u)))) \in Bytes
  BY <1>13, BytesAssoc
<1> QED
  BY <1>1, <1>2, <1>3, <1>4, <1>5, <1>6, <1>10, <1>11, <1>12, <1>13, <1>14, <1>15, Zenon DEF HasFront

(* The second result binding is longer than the first. *)
LEMMA V1NotV2 ==
  ASSUME NEW r \in ResultForm, NEW s \in ResultForm
  PROVE  ResultBinding(r) # ResultBindingV2(s)
<1>1. PICK C \in Bytes : C = Concat(ArtifactParts(r.artifacts))
  BY ResultShape
<1>2. PICK D \in Bytes : D = Concat(ArtifactParts(s.artifacts))
  BY ResultShape
<1>5. /\ r.memo_key \in Bytes /\ r.stdout_ref \in Bytes /\ r.stderr_ref \in Bytes /\ r.exit \in Int
      /\ Len(r.artifacts) \in Int
      /\ HasFront(ResultBinding(r), r.memo_key, r.stdout_ref, V1Tail(r.stderr_ref))
      /\ HasFront(ResultBindingV2(r), r.memo_key, r.stdout_ref,
                  V2Tail(r.stderr_ref, r.exit, Len(r.artifacts), C))
  BY <1>1, ResultShape
<1>6. /\ s.memo_key \in Bytes /\ s.stdout_ref \in Bytes /\ s.stderr_ref \in Bytes /\ s.exit \in Int
      /\ Len(s.artifacts) \in Int
      /\ HasFront(ResultBindingV2(s), s.memo_key, s.stdout_ref,
                  V2Tail(s.stderr_ref, s.exit, Len(s.artifacts), D))
  BY <1>2, ResultShape
<1>13. ASSUME ResultBinding(r) = ResultBindingV2(s) PROVE FALSE
  <2>1. V1Tail(r.stderr_ref) = V2Tail(s.stderr_ref, s.exit, Len(s.artifacts), D)
    BY <1>5, <1>6, <1>13, FrontReads
  <2> QED
    BY <2>1, <1>5, <1>6, V1IsV1
<1> QED
  BY <1>13

(* So is a chain. *)
LEMMA V1NotChain ==
  ASSUME NEW r \in ResultForm, NEW c \in ChainForm
  PROVE  ResultBinding(r) # ChainPreimage(c)
<1>1. PICK C \in Bytes : C = Concat(ArtifactParts(r.artifacts))
  BY ResultShape
<1>3. PICK L \in Bytes : L = Lp(c.principal[1])
  BY ChainShape
<1>5. /\ r.memo_key \in Bytes /\ r.stdout_ref \in Bytes /\ r.stderr_ref \in Bytes /\ r.exit \in Int
      /\ Len(r.artifacts) \in Int
      /\ HasFront(ResultBinding(r), r.memo_key, r.stdout_ref, V1Tail(r.stderr_ref))
      /\ HasFront(ResultBindingV2(r), r.memo_key, r.stdout_ref,
                  V2Tail(r.stderr_ref, r.exit, Len(r.artifacts), C))
  BY <1>1, ResultShape
<1>7. /\ c.tree \in Bytes /\ c.def \in Bytes /\ c.runner \in Bytes
      /\ HasFront(ChainPreimage(c), c.tree, c.def, ChainTail(c.runner, L))
  BY <1>3, ChainShape
<1>14. ASSUME ResultBinding(r) = ChainPreimage(c) PROVE FALSE
  <2>1. V1Tail(r.stderr_ref) = ChainTail(c.runner, L)
    BY <1>5, <1>7, <1>14, FrontReads
  <2> QED
    BY <2>1, <1>5, <1>7, V1IsV1
<1> QED
  BY <1>14

(* And so are the metrics. *)
LEMMA V1NotMetrics ==
  ASSUME NEW r \in ResultForm, NEW m \in MetricsForm
  PROVE  ResultBinding(r) # MetricsPreimage(m)
<1>1. PICK C \in Bytes : C = Concat(ArtifactParts(r.artifacts))
  BY ResultShape
<1>4. PICK R \in Bytes : R = Join(Concat(ToolParts(m.tools)), U64(m.cost))
  BY MetricsShape
<1>5. /\ r.memo_key \in Bytes /\ r.stdout_ref \in Bytes /\ r.stderr_ref \in Bytes /\ r.exit \in Int
      /\ Len(r.artifacts) \in Int
      /\ HasFront(ResultBinding(r), r.memo_key, r.stdout_ref, V1Tail(r.stderr_ref))
      /\ HasFront(ResultBindingV2(r), r.memo_key, r.stdout_ref,
                  V2Tail(r.stderr_ref, r.exit, Len(r.artifacts), C))
  BY <1>1, ResultShape
<1>8. /\ m.lease \in Bytes /\ m.tenant \in Bytes /\ m.tokens \in Int /\ m.wall \in Int /\ Len(m.tools) \in Int
      /\ HasFront(MetricsPreimage(m), m.lease, m.tenant, MetricsTail(m.tokens, m.wall, Len(m.tools), R))
  BY <1>4, MetricsShape
<1>15. ASSUME ResultBinding(r) = MetricsPreimage(m) PROVE FALSE
  <2>1. V1Tail(r.stderr_ref) = MetricsTail(m.tokens, m.wall, Len(m.tools), R)
    BY <1>5, <1>8, <1>15, FrontReads
  <2> QED
    BY <2>1, <1>5, <1>8, V1IsV1
<1> QED
  BY <1>15

(* One artifact has two strings where a chain has one principal. *)
LEMMA V2NotChain ==
  ASSUME NEW r \in ResultForm, NEW c \in ChainForm
  PROVE  ResultBindingV2(r) # ChainPreimage(c)
<1>1. PICK C \in Bytes : C = Concat(ArtifactParts(r.artifacts))
  BY ResultShape
<1>3. PICK L \in Bytes : L = Lp(c.principal[1])
  BY ChainShape
<1>5. /\ r.memo_key \in Bytes /\ r.stdout_ref \in Bytes /\ r.stderr_ref \in Bytes /\ r.exit \in Int
      /\ Len(r.artifacts) \in Int
      /\ HasFront(ResultBinding(r), r.memo_key, r.stdout_ref, V1Tail(r.stderr_ref))
      /\ HasFront(ResultBindingV2(r), r.memo_key, r.stdout_ref,
                  V2Tail(r.stderr_ref, r.exit, Len(r.artifacts), C))
  BY <1>1, ResultShape
<1>7. /\ c.tree \in Bytes /\ c.def \in Bytes /\ c.runner \in Bytes
      /\ HasFront(ChainPreimage(c), c.tree, c.def, ChainTail(c.runner, L))
  BY <1>3, ChainShape
<1>16. ASSUME ResultBindingV2(r) = ChainPreimage(c) PROVE FALSE
  <2>1. V2Tail(r.stderr_ref, r.exit, Len(r.artifacts), C) = ChainTail(c.runner, L)
    BY <1>5, <1>7, <1>16, FrontReads
  <2>2. Len(r.artifacts) = 1 /\ C = L
    <3>1. PICK e \in Bytes, x \in Int, n \in Int : e = r.stderr_ref /\ x = r.exit /\ n = Len(r.artifacts)
      BY <1>5
    <3>2. PICK d \in Bytes : d = c.runner
      BY <1>7
    <3>3. V2Tail(e, x, n, C) = ChainTail(d, L)
      BY <2>1, <3>1, <3>2
    <3>4. n = 1 /\ C = L
      BY <3>3, V2IsNoChain
    <3> QED
      BY <3>1, <3>4
  <2>3. r.artifacts[1] \in Artifacts /\ ArtifactParts(r.artifacts) \in [1..1 -> ArtifactCodes]
    BY <2>2, ResultShape, ArtifactPartsFit
  <2>4. PICK a \in Artifacts : a = r.artifacts[1]
    BY <2>3
  <2>5. a.path \in Bytes /\ a.digest \in Bytes /\ Lp(a.path) \in Bytes /\ Lp(a.digest) \in Bytes
    BY LpIs DEF Artifacts
  <2>6. PICK x \in Bytes : x = Join(Lp(a.path), Lp(a.digest))
    BY <2>5, BytesAssoc
  <2>7. Len(ArtifactParts(r.artifacts)) = 1 /\ ArtifactParts(r.artifacts)[1] = x
    BY <2>2, <2>3, <2>4, <2>6 DEF ArtifactParts, Join
  <2>8. C = x
    BY <1>1, <2>7, ConcatFew
  <2>9. PICK p \in Bytes : p = c.principal[1]
    BY ChainShape
  <2>10. Join(Lp(a.path), Lp(a.digest)) = Join(Lp(p), <<>>)
    <3>1. Join(Lp(p), <<>>) = Lp(p)
      BY LpIs, JoinEmpty
    <3> QED
      BY <3>1, <1>3, <2>2, <2>6, <2>8, <2>9
  <2>11. Lp(a.digest) = <<>>
    BY <2>5, <2>10, LpReads, WordIs
  <2>12. Len(Lp(a.digest)) = Len(a.digest) + 1
    BY <2>5, LpIs
  <2>13. Len(a.digest) \in Nat
    BY <2>5 DEF Bytes
  <2> QED
    BY <2>11, <2>12, <2>13
<1> QED
  BY <1>16

(* A result without artifacts ends where the metrics go on. *)
LEMMA V2NotMetrics ==
  ASSUME NEW r \in ResultForm, NEW m \in MetricsForm
  PROVE  ResultBindingV2(r) # MetricsPreimage(m)
<1>1. PICK C \in Bytes : C = Concat(ArtifactParts(r.artifacts))
  BY ResultShape
<1>4. PICK R \in Bytes : R = Join(Concat(ToolParts(m.tools)), U64(m.cost))
  BY MetricsShape
<1>5. /\ r.memo_key \in Bytes /\ r.stdout_ref \in Bytes /\ r.stderr_ref \in Bytes /\ r.exit \in Int
      /\ Len(r.artifacts) \in Int
      /\ HasFront(ResultBinding(r), r.memo_key, r.stdout_ref, V1Tail(r.stderr_ref))
      /\ HasFront(ResultBindingV2(r), r.memo_key, r.stdout_ref,
                  V2Tail(r.stderr_ref, r.exit, Len(r.artifacts), C))
  BY <1>1, ResultShape
<1>8. /\ m.lease \in Bytes /\ m.tenant \in Bytes /\ m.tokens \in Int /\ m.wall \in Int /\ Len(m.tools) \in Int
      /\ HasFront(MetricsPreimage(m), m.lease, m.tenant, MetricsTail(m.tokens, m.wall, Len(m.tools), R))
  BY <1>4, MetricsShape
<1>17. ASSUME ResultBindingV2(r) = MetricsPreimage(m) PROVE FALSE
  <2>1. V2Tail(r.stderr_ref, r.exit, Len(r.artifacts), C) = MetricsTail(m.tokens, m.wall, Len(m.tools), R)
    BY <1>5, <1>8, <1>17, FrontReads
  <2>2. Len(r.artifacts) = 0 /\ C # <<>>
    BY <2>1, <1>5, <1>8, V2IsNoMetrics
  <2>3. Len(ArtifactParts(r.artifacts)) = 0
    BY <2>2, ResultShape, ArtifactPartsFit
  <2>4. C = <<>>
    BY <1>1, <2>3, ConcatFew
  <2> QED
    BY <2>2, <2>4
<1> QED
  BY <1>17

(* A chain has one principal where a counter's high word is 0. *)
LEMMA ChainNotMetrics ==
  ASSUME NEW c \in ChainForm, NEW m \in MetricsForm
  PROVE  ChainPreimage(c) # MetricsPreimage(m)
<1>3. PICK L \in Bytes : L = Lp(c.principal[1])
  BY ChainShape
<1>4. PICK R \in Bytes : R = Join(Concat(ToolParts(m.tools)), U64(m.cost))
  BY MetricsShape
<1>7. /\ c.tree \in Bytes /\ c.def \in Bytes /\ c.runner \in Bytes
      /\ HasFront(ChainPreimage(c), c.tree, c.def, ChainTail(c.runner, L))
  BY <1>3, ChainShape
<1>8. /\ m.lease \in Bytes /\ m.tenant \in Bytes /\ m.tokens \in Int /\ m.wall \in Int /\ Len(m.tools) \in Int
      /\ HasFront(MetricsPreimage(m), m.lease, m.tenant, MetricsTail(m.tokens, m.wall, Len(m.tools), R))
  BY <1>4, MetricsShape
<1>18. ASSUME ChainPreimage(c) = MetricsPreimage(m) PROVE FALSE
  <2>1. ChainTail(c.runner, L) = MetricsTail(m.tokens, m.wall, Len(m.tools), R)
    BY <1>7, <1>8, <1>18, FrontReads
  <2> QED
    BY <2>1, <1>7, <1>8, ChainIsNoMetrics
<1> QED
  BY <1>18

(* A result can be read back from either of its bindings. *)
LEMMA ResultReads ==
  ASSUME NEW r \in ResultForm, NEW s \in ResultForm
  PROVE  /\ ResultBinding(r) = ResultBinding(s) =>
              r.memo_key = s.memo_key /\ r.stdout_ref = s.stdout_ref /\ r.stderr_ref = s.stderr_ref
         /\ ResultBindingV2(r) = ResultBindingV2(s) => r = s
<1>1. ASSUME ResultBinding(r) = ResultBinding(s)
      PROVE  r.memo_key = s.memo_key /\ r.stdout_ref = s.stdout_ref /\ r.stderr_ref = s.stderr_ref
  <2>1. /\ HasFront(ResultBinding(r), r.memo_key, r.stdout_ref, V1Tail(r.stderr_ref))
        /\ HasFront(ResultBinding(r), s.memo_key, s.stdout_ref, V1Tail(s.stderr_ref))
        /\ r.stderr_ref \in Bytes /\ s.stderr_ref \in Bytes
    BY <1>1, ResultShape
  <2>2. r.memo_key = s.memo_key /\ r.stdout_ref = s.stdout_ref /\ V1Tail(r.stderr_ref) = V1Tail(s.stderr_ref)
    BY <2>1, FrontReads
  <2>3. r.stderr_ref = s.stderr_ref
    BY <2>1, <2>2, WordIs, LpReads DEF V1Tail
  <2> QED
    BY <2>2, <2>3
<1>2. ASSUME ResultBindingV2(r) = ResultBindingV2(s) PROVE r = s
  <2>1. PICK C \in Bytes, n \in Nat : C = Concat(ArtifactParts(r.artifacts)) /\ n = Len(r.artifacts)
    BY ResultShape
  <2>2. PICK D \in Bytes, k \in Nat : D = Concat(ArtifactParts(s.artifacts)) /\ k = Len(s.artifacts)
    BY ResultShape
  <2>3. PICK e \in Bytes, x \in Int : e = r.stderr_ref /\ x = r.exit
    BY ResultShape
  <2>4. PICK d \in Bytes, y \in Int : d = s.stderr_ref /\ y = s.exit
    BY ResultShape
  <2>5. HasFront(ResultBindingV2(r), r.memo_key, r.stdout_ref, V2Tail(e, x, n, C))
    BY <2>1, <2>3, ResultShape
  <2>6. HasFront(ResultBindingV2(r), s.memo_key, s.stdout_ref, V2Tail(d, y, k, D))
    BY <1>2, <2>2, <2>4, ResultShape
  <2>7. r.memo_key = s.memo_key /\ r.stdout_ref = s.stdout_ref /\ V2Tail(e, x, n, C) = V2Tail(d, y, k, D)
    BY <2>5, <2>6, FrontReads
  <2>8. n \in Int /\ k \in Int
    OBVIOUS
  <2>9. e = d /\ x = y /\ n = k /\ C = D
    BY <2>7, <2>8, V2IsV2
  <2>10. r.artifacts \in [1..n -> Artifacts] /\ s.artifacts \in [1..n -> Artifacts]
    BY <2>1, <2>2, <2>9, ResultShape
  <2>11. ArtifactParts(r.artifacts) \in [1..n -> ArtifactCodes] /\ ArtifactParts(s.artifacts) \in [1..n -> ArtifactCodes]
    BY <2>10, ArtifactPartsFit
  <2>12. ArtifactParts(r.artifacts) = ArtifactParts(s.artifacts)
    <3>1. PICK p \in [1..n -> ArtifactCodes], q \in [1..n -> ArtifactCodes] :
            p = ArtifactParts(r.artifacts) /\ q = ArtifactParts(s.artifacts)
      BY <2>11, Zenon
    <3>2. Join(Concat(p), <<>>) = Join(Concat(q), <<>>) /\ <<>> \in Bytes
      BY <2>1, <2>2, <2>9, <3>1, WordIs
    <3> QED
      BY <3>1, <3>2, CodesReadable, ConcatReads
  <2>13. r.artifacts = s.artifacts
    BY <2>10, <2>12, ArtifactPartsRead
  <2>14. r.stderr_ref = s.stderr_ref /\ r.exit = s.exit
    BY <2>3, <2>4, <2>9
  <2> QED
    BY <2>7, <2>14, <2>13 DEF ResultForm
<1> QED
  BY <1>1, <1>2

(* And so can a chain. *)
LEMMA ChainReads ==
  ASSUME NEW c \in ChainForm, NEW d \in ChainForm, ChainPreimage(c) = ChainPreimage(d)
  PROVE  c = d
<1>1. PICK e \in Bytes, p \in Bytes, L \in Bytes : e = c.runner /\ p = c.principal[1] /\ L = Lp(p)
  BY ChainShape
<1>2. PICK f \in Bytes, q \in Bytes, M \in Bytes : f = d.runner /\ q = d.principal[1] /\ M = Lp(q)
  BY ChainShape
<1>3. HasFront(ChainPreimage(c), c.tree, c.def, ChainTail(e, L))
  BY <1>1, ChainShape
<1>4. HasFront(ChainPreimage(c), d.tree, d.def, ChainTail(f, M))
  BY <1>2, ChainShape
<1>5. c.tree = d.tree /\ c.def = d.def /\ ChainTail(e, L) = ChainTail(f, M)
  BY <1>3, <1>4, FrontReads
<1>6. e = f /\ L = M
  BY <1>5, ChainIsChain
<1>7. p = q
  <2>1. Join(Lp(p), <<>>) = Join(Lp(q), <<>>) /\ <<>> \in Bytes
    BY <1>1, <1>2, <1>6, WordIs
  <2> QED
    BY <2>1, LpReads
<1>8. c.principal = d.principal
  <2>1. c.principal \in [1..1 -> Bytes] /\ d.principal \in [1..1 -> Bytes]
    BY ChainShape
  <2>2. \A i \in 1..1 : c.principal[i] = d.principal[i]
    <3>1. c.principal[1] = d.principal[1]
      BY <1>1, <1>2, <1>7, Zenon
    <3> QED
      BY <3>1
  <2> QED
    BY <2>1, <2>2
<1>9. c.runner = d.runner /\ c.model = d.model
  BY <1>1, <1>2, <1>6, ChainShape
<1> QED
  BY <1>5, <1>8, <1>9 DEF ChainForm

(* And so can the metrics. *)
LEMMA MetricsRead ==
  ASSUME NEW a \in MetricsForm, NEW b \in MetricsForm, MetricsPreimage(a) = MetricsPreimage(b)
  PROVE  a = b
<1>1. PICK C \in Bytes, n \in Nat : C = Join(Concat(ToolParts(a.tools)), U64(a.cost)) /\ n = Len(a.tools)
  BY MetricsShape
<1>2. PICK D \in Bytes, k \in Nat : D = Join(Concat(ToolParts(b.tools)), U64(b.cost)) /\ k = Len(b.tools)
  BY MetricsShape
<1>3. PICK t \in Int, w \in Int, x \in Int : t = a.tokens /\ w = a.wall /\ x = a.cost
  BY MetricsShape
<1>4. PICK y \in Int, z \in Int, v \in Int : y = b.tokens /\ z = b.wall /\ v = b.cost
  BY MetricsShape
<1>5. HasFront(MetricsPreimage(a), a.lease, a.tenant, MetricsTail(t, w, n, C))
  BY <1>1, <1>3, MetricsShape
<1>6. HasFront(MetricsPreimage(a), b.lease, b.tenant, MetricsTail(y, z, k, D))
  BY <1>2, <1>4, MetricsShape
<1>7. a.lease = b.lease /\ a.tenant = b.tenant /\ MetricsTail(t, w, n, C) = MetricsTail(y, z, k, D)
  BY <1>5, <1>6, FrontReads
<1>8. n \in Int /\ k \in Int
  OBVIOUS
<1>9. t = y /\ w = z /\ n = k /\ C = D
  BY <1>7, <1>8, MetricsAreMetrics
<1>10. a.tools \in [1..n -> Tools] /\ b.tools \in [1..n -> Tools]
  BY <1>1, <1>2, <1>9, MetricsShape
<1>11. ToolParts(a.tools) \in [1..n -> ToolCodes] /\ ToolParts(b.tools) \in [1..n -> ToolCodes]
  BY <1>10, ToolPartsFit
<1>12. U64(x) \in Bytes /\ U64(v) \in Bytes
  BY WordIs, U64Is
<1>13. ToolParts(a.tools) = ToolParts(b.tools) /\ U64(x) = U64(v)
  <2>1. PICK p \in [1..n -> ToolCodes], q \in [1..n -> ToolCodes] :
          p = ToolParts(a.tools) /\ q = ToolParts(b.tools)
    BY <1>11, Zenon
  <2>2. Join(Concat(p), U64(x)) = Join(Concat(q), U64(v))
    BY <1>1, <1>2, <1>3, <1>4, <1>9, <2>1
  <2> QED
    BY <1>12, <2>1, <2>2, CodesReadable, ConcatReads
<1>14. a.tools = b.tools
  BY <1>10, <1>13, ToolPartsRead
<1>15. x = v
  BY <1>13 DEF U64
<1>16. a.tokens = b.tokens /\ a.wall = b.wall /\ a.cost = b.cost
  BY <1>3, <1>4, <1>9, <1>15
<1> QED
  BY <1>7, <1>14, <1>16 DEF MetricsForm

(* A pre-image says which message it is of. *)
LEMMA MessagesRead ==
  ASSUME NEW m \in Messages, NEW k \in Messages, Preimage(m) = Preimage(k)
  PROVE  m.kind = k.kind /\ Covered(m) = Covered(k)
<1>1. ASSUME NEW x \in Messages
      PROVE  \/ x.kind = "v1" /\ x.of \in ResultForm /\ Preimage(x) = ResultBinding(x.of)
             \/ x.kind = "v2" /\ x.of \in ResultForm /\ Preimage(x) = ResultBindingV2(x.of)
             \/ x.kind = "chain" /\ x.of \in ChainForm /\ Preimage(x) = ChainPreimage(x.of)
             \/ x.kind = "metrics" /\ x.of \in MetricsForm /\ Preimage(x) = MetricsPreimage(x.of)
  <2>1. \/ x.kind \in {"v1", "v2"} /\ x.of \in Results
        \/ x.kind = "chain" /\ x.of \in Chains
        \/ x.kind = "metrics" /\ x.of \in Metrics
    BY DEF Messages
  <2> QED
    BY <2>1, FormsFit DEF Preimage
<1>2. CASE m.kind = "v1"
  <2>1. m.of \in ResultForm /\ Preimage(m) = ResultBinding(m.of)
    BY <1>1, <1>2
  <2>2. k.kind = "v1" /\ k.of \in ResultForm /\ Preimage(k) = ResultBinding(k.of)
    BY <1>1, <2>1, V1NotV2, V1NotChain, V1NotMetrics
  <2> QED
    <3>1. /\ m.of.memo_key = k.of.memo_key /\ m.of.stdout_ref = k.of.stdout_ref
          /\ m.of.stderr_ref = k.of.stderr_ref
      <4>1. PICK r \in ResultForm, s \in ResultForm : r = m.of /\ s = k.of /\ ResultBinding(r) = ResultBinding(s)
        BY <2>1, <2>2, Zenon
      <4>2. r.memo_key = s.memo_key /\ r.stdout_ref = s.stdout_ref /\ r.stderr_ref = s.stderr_ref
        BY <4>1, ResultReads
      <4> QED
        BY <4>1, <4>2
    <3> QED
      BY <1>2, <2>2, <3>1 DEF Covered
<1>3. CASE m.kind = "v2"
  <2>1. m.of \in ResultForm /\ Preimage(m) = ResultBindingV2(m.of)
    BY <1>1, <1>3
  <2>2. k.kind = "v2" /\ k.of \in ResultForm /\ Preimage(k) = ResultBindingV2(k.of)
    BY <1>1, <2>1, V1NotV2, V2NotChain, V2NotMetrics
  <2> QED
    <3>1. m.of = k.of
      <4>1. PICK r \in ResultForm, s \in ResultForm :
              r = m.of /\ s = k.of /\ ResultBindingV2(r) = ResultBindingV2(s)
        BY <2>1, <2>2, Zenon
      <4>2. r = s
        BY <4>1, ResultReads
      <4> QED
        BY <4>1, <4>2
    <3> QED
      BY <1>3, <2>2, <3>1 DEF Covered
<1>4. CASE m.kind = "chain"
  <2>1. m.of \in ChainForm /\ Preimage(m) = ChainPreimage(m.of)
    BY <1>1, <1>4
  <2>2. k.kind = "chain" /\ k.of \in ChainForm /\ Preimage(k) = ChainPreimage(k.of)
    BY <1>1, <2>1, V1NotChain, V2NotChain, ChainNotMetrics
  <2> QED
    BY <1>4, <2>1, <2>2, ChainReads DEF Covered
<1>5. CASE m.kind = "metrics"
  <2>1. m.of \in MetricsForm /\ Preimage(m) = MetricsPreimage(m.of)
    BY <1>1, <1>5
  <2>2. k.kind = "metrics" /\ k.of \in MetricsForm /\ Preimage(k) = MetricsPreimage(k.of)
    BY <1>1, <2>1, V1NotMetrics, V2NotMetrics, ChainNotMetrics
  <2> QED
    BY <1>5, <2>1, <2>2, MetricsRead DEF Covered
<1> QED
  BY <1>1, <1>2, <1>3, <1>4, <1>5

--------------------------------------------------------------------------------
(* The signer and the verifier *)

(* What was signed and what was accepted are messages with one pre-image. *)
AttInv ==
  /\ signed \in Messages \cup {Nothing}
  /\ presented # Nothing => presented \in Messages /\ signed \in Messages /\ Preimage(presented) = Preimage(signed)

(* Every call keeps it. *)
LEMMA AttKeeps == AttInv /\ [AttNext]_attVars => AttInv'
<1> SUFFICES ASSUME AttInv, [AttNext]_attVars PROVE AttInv'
  OBVIOUS
<1>1. CASE UNCHANGED attVars
  BY <1>1 DEF AttInv, attVars
<1>2. ASSUME NEW m \in Messages, Sign(m) PROVE AttInv'
  <2>1. signed = Nothing /\ signed' = m /\ presented' = presented
    BY <1>2 DEF Sign
  <2>2. Nothing \notin Messages
    BY DEF Nothing, Messages
  <2>3. presented = Nothing
    BY <2>1, <2>2 DEF AttInv
  <2> QED
    BY <2>1, <2>3 DEF AttInv
<1>3. ASSUME NEW m \in Messages, Present(m) PROVE AttInv'
  <2>1. /\ signed # Nothing /\ Preimage(m) = Preimage(signed)
        /\ presented' = m /\ signed' = signed
    BY <1>3 DEF Present, SignatureVerifies
  <2> QED
    BY <2>1 DEF AttInv
<1> QED
  BY <1>1, <1>2, <1>3 DEF AttNext

(* A signature made for one message is never accepted for another kind, nor   *)
(* for other values of the fields that kind covers (verify_execution,         *)
(* verify_execution_v2, verify_chain), for strings and lists of any length.   *)
THEOREM AcceptedWasAlwaysSigned == AttSpec => []AcceptedWasSigned
<1>1. AttInit => AttInv
  BY DEF AttInit, AttInv
<1>2. AttInv => AcceptedWasSigned
  BY MessagesRead DEF AttInv, AcceptedWasSigned
<1> QED
  BY <1>1, <1>2, AttKeeps, PTL DEF AttSpec

(* What is signed really ran in a Held lease, and what verifies is what was   *)
(* signed: the exec endpoints and the framing of the pre-images together.     *)
THEOREM AttestationsAlwaysReal == ExecSpec /\ AttSpec => []AttestationsAreReal
BY SignedResultsAreAlwaysReal, AcceptedWasAlwaysSigned, PTL DEF AttestationsAreReal

--------------------------------------------------------------------------------
(* The autoscaler *)

(* Handler h is acquiring, or has to record, a lease for job j. *)
Provisions(h, j) == handler[h].at \in {"acquire", "record"} /\ handler[h].job = j

(* A handler is about to cancel lease l. *)
CancelsBox(l) == \E h \in Handlers : handler[h].at = "cancel" /\ handler[h].lease = l

(* Somebody is responsible for box b: the handler that acquired it, the map,  *)
(* the handler that cancels it, or the reaper.                                *)
Accounted(b) ==
  \/ b.lease \in history.left
  \/ \E h \in Handlers : handler[h].at = "record" /\ handler[h].job = b.job /\ handler[h].lease = b.lease
  \/ tracked[b.job].state = "Held" /\ tracked[b.job].lease = b.lease
  \/ tracked[b.job].state = "Done" /\ CancelsBox(b.lease)

(* The shapes of the maps. *)
ScalerShape ==
  /\ handler = [h \in Handlers |-> handler[h]]
  /\ tracked = [j \in DOMAIN tracked |-> tracked[j]]
  /\ history = [completed |-> history.completed, evicted |-> history.evicted, left |-> history.left]

(* A job that was never evicted is tracked, in the state its handler expects. *)
ClaimsTracked ==
  \A h \in Handlers : \A j : Provisions(h, j) /\ j \notin history.evicted =>
    j \in DOMAIN tracked /\ tracked[j].state \in {"Provisioning", "CancelRequested"}

(* One handler at a time provisions for a job. *)
OneClaim ==
  \A g, h \in Handlers : \A j : Provisions(g, j) /\ Provisions(h, j) /\ j \notin history.evicted => g = h

(* While a handler acquires, its job has no box. *)
NoBoxYet ==
  \A h \in Handlers : \A b \in box : handler[h].at = "acquire" /\ handler[h].job = b.job => b.job \in history.evicted

(* The map remembers that a job completed. *)
CompletedIsMarked ==
  \A j : j \in history.completed /\ j \notin history.evicted =>
    j \in DOMAIN tracked /\ tracked[j].state \in {"CancelRequested", "Done"}

(* Each box of a tracked job has somebody who answers for it. *)
BoxesAccounted ==
  \A b \in box : b.job \notin history.evicted => b.job \in DOMAIN tracked /\ Accounted(b)

(* The inductive invariant of the webhook. A job whose entry the full map     *)
(* evicted is outside it: nobody remembers its box but the reaper.            *)
ScalerInv ==
  /\ ScalerShape /\ ClaimsTracked /\ OneClaim /\ NoBoxYet /\ OneBoxPerJob /\ CompletedIsMarked /\ BoxesAccounted

(* An empty map satisfies the invariant. *)
LEMMA ScalerStarts == ScalerInit => ScalerInv
BY DEF ScalerInit, ScalerInv, ScalerShape, ClaimsTracked, OneClaim, NoBoxYet, OneBoxPerJob, CompletedIsMarked,
   BoxesAccounted,
       Provisions, Free

(* The invariant implies the property. *)
LEMMA ScalerSafe == ScalerInv => JobsOwnTheirBox
BY DEF ScalerInv, JobsOwnTheirBox, CompletedJobsFreeTheirBox, CompletedIsMarked, BoxesAccounted, Accounted,
   CancelsBox, InFlight

(* What an insert into the bounded map keeps: everything but its victim. *)
LEMMA InsertEffect ==
  ASSUME NEW j, NEW entry, NEW V, V = Victim, Insert(j, entry)
  PROVE  /\ tracked' = [i \in DOMAIN tracked' |-> tracked'[i]]
         /\ j \in DOMAIN tracked' /\ tracked'[j] = entry
         /\ \A i \in DOMAIN tracked : i # j /\ i \notin V => i \in DOMAIN tracked' /\ tracked'[i] = tracked[i]
<1> HIDE DEF Victim
<1> QED  BY DEF Insert

(* What an update of one entry keeps. *)
LEMMA UpdateEffect ==
  ASSUME ScalerShape, NEW j \in DOMAIN tracked, NEW entry, Update(j, entry)
  PROVE  /\ tracked' = [i \in DOMAIN tracked' |-> tracked'[i]]
         /\ DOMAIN tracked' = DOMAIN tracked /\ tracked'[j] = entry
         /\ \A i \in DOMAIN tracked : i # j => tracked'[i] = tracked[i]
BY DEF Update, ScalerShape

(* What a step of one handler keeps. *)
LEMMA MovesEffect ==
  ASSUME ScalerShape, NEW h \in Handlers, NEW to, Moves(h, to)
  PROVE  /\ handler' = [g \in Handlers |-> handler'[g]] /\ handler'[h] = to
         /\ \A g \in Handlers \ {h} : handler'[g] = handler[g]
BY DEF Moves, ScalerShape

(* The fields of an entry. *)
LEMMA EntryFields == \A s, l : Entry(s, l).state = s /\ Entry(s, l).lease = l
BY DEF Entry

(* Every webhook, every answer of the acquire and every end of a lease keeps  *)
(* the invariant.                                                             *)
LEMMA ScalerKeeps == ScalerInv /\ [ScalerNext]_scalerVars => ScalerInv'
<1> SUFFICES ASSUME ScalerInv, [ScalerNext]_scalerVars PROVE ScalerInv'
  OBVIOUS
<1> USE DEF ScalerInv
<1> HIDE DEF Victim
<1>1. ASSUME NEW h \in Handlers, NEW j \in Jobs, Queued(h, j) PROVE ScalerInv'
  <2>1. CASE UNCHANGED <<tracked, handler, history>>
    BY <1>1, <2>1 DEF Queued, ScalerShape, ClaimsTracked, OneClaim, NoBoxYet, OneBoxPerJob, CompletedIsMarked,
       BoxesAccounted,
       Provisions, Accounted, CancelsBox
  <2>2. CASE ~UNCHANGED <<tracked, handler, history>>
    <3>1. /\ ~IsTracked(j) /\ handler[h] = Free /\ UNCHANGED <<box, boxes>>
          /\ Insert(j, Entry("Provisioning", NoBox)) /\ Moves(h, [at |-> "acquire", job |-> j])
          /\ history' = [history EXCEPT !.evicted = @ \cup Victim]
      BY <1>1, <2>2 DEF Queued, Claim
    <3>2. PICK V : V = Victim
      OBVIOUS
    <3>3. PICK to : to = [at |-> "acquire", job |-> j]
      OBVIOUS
    <3>4. to.at = "acquire" /\ to.job = j /\ handler[h].at = "free"
      BY <3>1, <3>3 DEF Free
    <3>5. /\ handler' = [g \in Handlers |-> handler'[g]] /\ handler'[h] = to
          /\ \A g \in Handlers \ {h} : handler'[g] = handler[g]
      BY <3>1, <3>3, MovesEffect
    <3>6. PICK entry : entry = Entry("Provisioning", NoBox)
      OBVIOUS
    <3>7. entry.state = "Provisioning"
      BY <3>6, EntryFields
    <3>8. /\ tracked' = [i \in DOMAIN tracked' |-> tracked'[i]]
          /\ j \in DOMAIN tracked' /\ tracked'[j] = entry
          /\ \A i \in DOMAIN tracked : i # j /\ i \notin V => i \in DOMAIN tracked' /\ tracked'[i] = tracked[i]
      BY <3>1, <3>2, <3>6, InsertEffect
    <3>9. /\ history'.completed = history.completed /\ history'.evicted = history.evicted \cup V /\ history'.left = history.left
          /\ history' = [completed |-> history'.completed, evicted |-> history'.evicted, left |-> history'.left]
      BY <3>1, <3>2 DEF ScalerShape
    <3>10. ScalerShape'
      BY <3>5, <3>8, <3>9 DEF ScalerShape
    <3>11. ClaimsTracked'
      BY <3>1, <3>4, <3>5, <3>7, <3>8, <3>9 DEF ClaimsTracked, Provisions, IsTracked
    <3>12. OneClaim'
      BY <3>1, <3>4, <3>5, <3>7, <3>8, <3>9 DEF OneClaim, ClaimsTracked, Provisions, IsTracked
    <3>13. NoBoxYet'
      BY <3>1, <3>4, <3>5, <3>9 DEF NoBoxYet, BoxesAccounted, IsTracked
    <3>14. OneBoxPerJob'
      BY <3>1, <3>9 DEF OneBoxPerJob
    <3>15. CompletedIsMarked'
      BY <3>1, <3>8, <3>9 DEF CompletedIsMarked, IsTracked
    <3>16. BoxesAccounted'
      BY <3>1, <3>4, <3>5, <3>8, <3>9 DEF BoxesAccounted, Accounted, CancelsBox, IsTracked
    <3> QED  BY <3>10, <3>11, <3>12, <3>13, <3>14, <3>15, <3>16
  <2> QED  BY <2>1, <2>2
<1>2. ASSUME NEW h \in Handlers, NEW j \in Jobs, Completed(h, j) PROVE ScalerInv'
  <2>1. /\ handler[h].at = "free" /\ Take(h, j) /\ UNCHANGED <<box, boxes>>
    BY <1>2 DEF Completed, Free
  <2>2. PICK V : V = Victim
    OBVIOUS
  <2>3. /\ history'.completed = history.completed \cup {j} /\ history'.left = history.left
        /\ history'.evicted = IF IsTracked(j) THEN history.evicted ELSE history.evicted \cup V
        /\ history' = [completed |-> history'.completed, evicted |-> history'.evicted, left |-> history'.left]
    BY <2>1, <2>2 DEF Take, ScalerShape
  <2>4. PICK entry : entry \in {Entry("Done", NoBox), Entry("CancelRequested", NoBox)} /\
          \/ ~IsTracked(j) /\ Insert(j, entry) /\ UNCHANGED handler
          \/ /\ IsTracked(j) /\ tracked[j].state = "Held" /\ Update(j, entry) /\ entry = Entry("Done", NoBox)
             /\ Moves(h, [at |-> "cancel", job |-> j, lease |-> tracked[j].lease])
          \/ /\ IsTracked(j) /\ tracked[j].state = "Provisioning" /\ Update(j, entry)
             /\ entry = Entry("CancelRequested", NoBox) /\ UNCHANGED handler
          \/ /\ IsTracked(j) /\ tracked[j].state \in {"CancelRequested", "Done"}
             /\ UNCHANGED <<tracked, trackOrder, handler>>
    BY <2>1 DEF Take
  <2>5. entry.state \in {"Done", "CancelRequested"}
    BY <2>4, EntryFields
  <2>6. CASE ~IsTracked(j)
    <3>1. UNCHANGED handler /\ Insert(j, entry)
      BY <2>4, <2>6
    <3>2. /\ tracked' = [i \in DOMAIN tracked' |-> tracked'[i]]
          /\ j \in DOMAIN tracked' /\ tracked'[j] = entry
          /\ \A i \in DOMAIN tracked : i # j /\ i \notin V => i \in DOMAIN tracked' /\ tracked'[i] = tracked[i]
      BY <3>1, <2>2, InsertEffect
    <3>3. ScalerShape' /\ OneClaim' /\ NoBoxYet' /\ OneBoxPerJob'
      BY <2>1, <2>3, <2>6, <3>1, <3>2 DEF ScalerShape, OneClaim, NoBoxYet, OneBoxPerJob, Provisions
    <3>4. ClaimsTracked'
      BY <2>3, <2>6, <3>1, <3>2 DEF ClaimsTracked, Provisions, IsTracked
    <3>5. CompletedIsMarked'
      BY <2>3, <2>5, <2>6, <3>2 DEF CompletedIsMarked, IsTracked
    <3>6. BoxesAccounted'
      BY <2>1, <2>3, <2>6, <3>1, <3>2 DEF BoxesAccounted, Accounted, CancelsBox, IsTracked
    <3> QED  BY <3>3, <3>4, <3>5, <3>6
  <2>7. CASE IsTracked(j) /\ UNCHANGED <<tracked, handler>>
    <3>1. history'.evicted = history.evicted
      BY <2>3, <2>7
    <3>2. tracked[j].state \in {"CancelRequested", "Done"} 
      <4>1. Update(j, entry) => tracked'[j] = entry
        BY <2>7, UpdateEffect DEF IsTracked
      <4> QED  BY <2>4, <2>5, <2>7, <4>1
    <3>3. ScalerShape' /\ OneClaim' /\ NoBoxYet' /\ OneBoxPerJob' /\ ClaimsTracked'
      BY <2>1, <2>3, <2>7, <3>1 DEF ScalerShape, OneClaim, NoBoxYet, OneBoxPerJob, ClaimsTracked, Provisions
    <3>4. CompletedIsMarked'
      BY <2>3, <2>7, <3>1, <3>2 DEF CompletedIsMarked, IsTracked
    <3>5. BoxesAccounted'
      BY <2>1, <2>3, <2>7, <3>1 DEF BoxesAccounted, Accounted, CancelsBox
    <3> QED  BY <3>3, <3>4, <3>5
  <2>8. CASE IsTracked(j) /\ tracked[j].state = "Provisioning"
    <3>1. UNCHANGED handler /\ Update(j, entry) /\ entry = Entry("CancelRequested", NoBox)
      BY <2>4, <2>8
    <3>2. /\ tracked' = [i \in DOMAIN tracked' |-> tracked'[i]] /\ DOMAIN tracked' = DOMAIN tracked
          /\ tracked'[j] = entry /\ \A i \in DOMAIN tracked : i # j => tracked'[i] = tracked[i]
      BY <3>1, <2>8, UpdateEffect DEF IsTracked
    <3>3. entry.state = "CancelRequested" /\ history'.evicted = history.evicted
      BY <3>1, <2>3, <2>8, EntryFields
    <3>4. ScalerShape' /\ OneClaim' /\ NoBoxYet' /\ OneBoxPerJob'
      BY <2>1, <2>3, <3>1, <3>2, <3>3 DEF ScalerShape, OneClaim, NoBoxYet, OneBoxPerJob, Provisions
    <3>5. ClaimsTracked'
      BY <3>1, <3>2, <3>3 DEF ClaimsTracked, Provisions
    <3>6. CompletedIsMarked'
      BY <2>3, <2>8, <3>2, <3>3 DEF CompletedIsMarked, IsTracked
    <3>7. BoxesAccounted'
      BY <2>1, <2>3, <2>8, <3>1, <3>2, <3>3 DEF BoxesAccounted, Accounted, CancelsBox, IsTracked
    <3> QED  BY <3>4, <3>5, <3>6, <3>7
  <2>9. CASE IsTracked(j) /\ tracked[j].state = "Held"
    <3>1. /\ Update(j, entry) /\ entry = Entry("Done", NoBox)
          /\ Moves(h, [at |-> "cancel", job |-> j, lease |-> tracked[j].lease])
      BY <2>4, <2>9
    <3>2. PICK to : to = [at |-> "cancel", job |-> j, lease |-> tracked[j].lease]
      OBVIOUS
    <3>3. to.at = "cancel" /\ to.lease = tracked[j].lease /\ entry.state = "Done" /\ history'.evicted = history.evicted
      BY <3>1, <3>2, <2>3, <2>9, EntryFields
    <3>4. /\ tracked' = [i \in DOMAIN tracked' |-> tracked'[i]] /\ DOMAIN tracked' = DOMAIN tracked
          /\ tracked'[j] = entry /\ \A i \in DOMAIN tracked : i # j => tracked'[i] = tracked[i]
      BY <3>1, <2>9, UpdateEffect DEF IsTracked
    <3>5. /\ handler' = [g \in Handlers |-> handler'[g]] /\ handler'[h] = to
          /\ \A g \in Handlers \ {h} : handler'[g] = handler[g]
      BY <3>1, <3>2, MovesEffect
    <3>6. ScalerShape' /\ OneClaim' /\ NoBoxYet' /\ OneBoxPerJob'
      BY <2>1, <2>3, <3>3, <3>4, <3>5 DEF ScalerShape, OneClaim, NoBoxYet, OneBoxPerJob, Provisions
    <3>7. ClaimsTracked'
      BY <2>9, <3>3, <3>4, <3>5 DEF ClaimsTracked, Provisions
    <3>8. CompletedIsMarked'
      BY <2>3, <2>9, <3>3, <3>4 DEF CompletedIsMarked, IsTracked
    <3>9. BoxesAccounted'
      BY <2>1, <2>3, <2>9, <3>3, <3>4, <3>5 DEF BoxesAccounted, Accounted, CancelsBox, IsTracked
    <3> QED  BY <3>6, <3>7, <3>8, <3>9
  <2> QED  BY <2>4, <2>6, <2>7, <2>8, <2>9
<1>3. ASSUME NEW h \in Handlers, Acquired(h) PROVE ScalerInv'
  <2>1. PICK j, new, to : /\ j = handler[h].job /\ new = [lease |-> boxes', job |-> j]
                          /\ to = [at |-> "record", job |-> j, lease |-> boxes']
    OBVIOUS
  <2>2. new.lease = boxes' /\ new.job = j /\ to.at = "record" /\ to.job = j /\ to.lease = boxes'
    BY <2>1
  <2>3. handler[h].at = "acquire" /\ box' = box \cup {new} /\ Moves(h, to) /\ UNCHANGED <<tracked, history>>
    BY <1>3, <2>1 DEF Acquired
  <2>4. /\ handler' = [g \in Handlers |-> handler'[g]] /\ handler'[h] = to
        /\ \A g \in Handlers \ {h} : handler'[g] = handler[g]
    BY <2>3, MovesEffect
  <2>5. ScalerShape' /\ ClaimsTracked' /\ CompletedIsMarked'
    BY <2>1, <2>2, <2>3, <2>4 DEF ScalerShape, ClaimsTracked, CompletedIsMarked, Provisions
  <2>6. OneClaim'
    BY <2>1, <2>2, <2>3, <2>4 DEF OneClaim, Provisions
  <2>7. NoBoxYet'
    BY <2>1, <2>2, <2>3, <2>4 DEF NoBoxYet, OneClaim, Provisions
  <2>8. OneBoxPerJob'
    BY <2>1, <2>2, <2>3 DEF NoBoxYet, OneBoxPerJob
  <2>9. BoxesAccounted'
    <3> SUFFICES ASSUME NEW b \in box', b.job \notin history.evicted
                 PROVE  b.job \in DOMAIN tracked /\ Accounted(b)'
      BY <2>3 DEF BoxesAccounted
    <3>1. CASE b = new
      BY <3>1, <2>1, <2>2, <2>3, <2>4 DEF Accounted, ClaimsTracked, Provisions
    <3>2. CASE b # new
      <4>1. b \in box /\ b.job \in DOMAIN tracked /\ Accounted(b)
        BY <3>2, <2>3 DEF BoxesAccounted
      <4> QED  BY <4>1, <2>3, <2>4 DEF Accounted, CancelsBox
    <3> QED  BY <3>1, <3>2
  <2> QED  BY <2>5, <2>6, <2>7, <2>8, <2>9
<1>4. ASSUME NEW h \in Handlers, AcquireFails(h) PROVE ScalerInv'
  <2>1. PICK j : j = handler[h].job
    OBVIOUS
  <2>2. handler[h].at = "acquire" /\ Moves(h, Free) /\ UNCHANGED <<box, history>> /\ Free.at = "free"
    BY <1>4 DEF AcquireFails, Free
  <2>3. /\ handler' = [g \in Handlers |-> handler'[g]] /\ handler'[h] = Free
        /\ \A g \in Handlers \ {h} : handler'[g] = handler[g]
    BY <2>2, MovesEffect
  <2>4. /\ tracked' = [i \in DOMAIN tracked' |-> tracked'[i]] /\ DOMAIN tracked' = DOMAIN tracked
        /\ j \in DOMAIN tracked => tracked'[j].state = "Done"
        /\ \A i \in DOMAIN tracked : i # j => tracked'[i] = tracked[i]
    <3>1. CASE j \in DOMAIN tracked
      BY <3>1, <1>4, <2>1, UpdateEffect, EntryFields DEF AcquireFails, IsTracked
    <3>2. CASE j \notin DOMAIN tracked
      BY <3>2, <1>4, <2>1 DEF AcquireFails, IsTracked, ScalerShape
    <3> QED  BY <3>1, <3>2
  <2>5. ScalerShape' /\ OneClaim' /\ NoBoxYet' /\ OneBoxPerJob'
    BY <2>2, <2>3, <2>4 DEF ScalerShape, OneClaim, NoBoxYet, OneBoxPerJob, Provisions
  <2>6. ClaimsTracked'
    BY <2>1, <2>2, <2>3, <2>4 DEF ClaimsTracked, OneClaim, Provisions
  <2>7. CompletedIsMarked'
    BY <2>2, <2>4 DEF CompletedIsMarked
  <2>8. BoxesAccounted'
    BY <2>1, <2>2, <2>3, <2>4 DEF BoxesAccounted, NoBoxYet, Accounted, CancelsBox
  <2> QED  BY <2>5, <2>6, <2>7, <2>8
<1>5. ASSUME NEW h \in Handlers, RecordLease(h) PROVE ScalerInv'
  <2>1. PICK j, l, cancels : j = handler[h].job /\ l = handler[h].lease /\ cancels = [at |-> "cancel", job |-> j, lease |-> l]
    OBVIOUS
  <2>2. cancels.at = "cancel" /\ cancels.lease = l /\ Free.at = "free"
    BY <2>1 DEF Free
  <2>3. handler[h].at = "record" /\ Provisions(h, j) /\ UNCHANGED <<box, history>>
    BY <1>5, <2>1 DEF RecordLease, Provisions
  <2>4. CASE j \in history.evicted
    <3>1. PICK to \in {Free, cancels} : Moves(h, to)
      BY <1>5, <2>1 DEF RecordLease
    <3>2. /\ handler' = [g \in Handlers |-> handler'[g]] /\ handler'[h] = to
          /\ \A g \in Handlers \ {h} : handler'[g] = handler[g]
      BY <3>1, MovesEffect
    <3>3. /\ tracked' = [i \in DOMAIN tracked' |-> tracked'[i]] /\ DOMAIN tracked' = DOMAIN tracked
          /\ \A i \in DOMAIN tracked : i # j => tracked'[i] = tracked[i]
      <4>1. CASE UNCHANGED tracked
        BY <4>1 DEF ScalerShape
      <4>2. CASE ~UNCHANGED tracked
        <5>1. j \in DOMAIN tracked /\ \E entry : Update(j, entry)
          BY <4>2, <1>5, <2>1 DEF RecordLease, IsTracked
        <5> QED  BY <5>1, UpdateEffect
      <4> QED  BY <4>1, <4>2
    <3>4. to.at \in {"free", "cancel"}
      BY <3>1, <2>2
    <3>5. ScalerShape' /\ OneClaim' /\ NoBoxYet' /\ OneBoxPerJob'
      BY <2>3, <3>2, <3>3, <3>4 DEF ScalerShape, OneClaim, NoBoxYet, OneBoxPerJob, Provisions
    <3>6. ClaimsTracked' /\ CompletedIsMarked'
      BY <2>3, <2>4, <3>2, <3>3, <3>4 DEF ClaimsTracked, CompletedIsMarked, Provisions
    <3>7. BoxesAccounted'
      BY <2>1, <2>3, <2>4, <3>2, <3>3, <3>4 DEF BoxesAccounted, Accounted, CancelsBox
    <3> QED  BY <3>5, <3>6, <3>7
  <2>5. CASE j \notin history.evicted
    <3>1. j \in DOMAIN tracked /\ tracked[j].state \in {"Provisioning", "CancelRequested"}
      BY <2>3, <2>5 DEF ClaimsTracked
    <3>2. PICK to, entry :
            /\ Moves(h, to) /\ Update(j, entry)
            /\ \/ tracked[j].state = "Provisioning" /\ to = Free /\ entry = Entry("Held", l)
               \/ tracked[j].state = "CancelRequested" /\ to = cancels /\ entry = Entry("Done", NoBox)
      BY <1>5, <2>1, <3>1 DEF RecordLease, IsTracked
    <3>3. \/ tracked[j].state = "Provisioning" /\ to.at = "free" /\ entry.state = "Held" /\ entry.lease = l
          \/ tracked[j].state = "CancelRequested" /\ to.at = "cancel" /\ to.lease = l /\ entry.state = "Done"
      BY <3>2, <2>2, EntryFields
    <3>4. /\ handler' = [g \in Handlers |-> handler'[g]] /\ handler'[h] = to
          /\ \A g \in Handlers \ {h} : handler'[g] = handler[g]
      BY <3>2, MovesEffect
    <3>5. /\ tracked' = [i \in DOMAIN tracked' |-> tracked'[i]] /\ DOMAIN tracked' = DOMAIN tracked
          /\ tracked'[j] = entry /\ \A i \in DOMAIN tracked : i # j => tracked'[i] = tracked[i]
      BY <3>1, <3>2, UpdateEffect
    <3>6. ScalerShape' /\ OneClaim' /\ NoBoxYet' /\ OneBoxPerJob'
      BY <2>3, <3>3, <3>4, <3>5 DEF ScalerShape, OneClaim, NoBoxYet, OneBoxPerJob, Provisions
    <3>7. ClaimsTracked'
      BY <2>3, <3>3, <3>4, <3>5 DEF ClaimsTracked, OneClaim, Provisions
    <3>8. CompletedIsMarked'
      BY <2>3, <3>3, <3>5 DEF CompletedIsMarked
    <3>9. BoxesAccounted'
      <4> SUFFICES ASSUME NEW b \in box, b.job \notin history.evicted
                   PROVE  b.job \in DOMAIN tracked /\ Accounted(b)'
        BY <2>3, <3>5 DEF BoxesAccounted
      <4>1. b.job \in DOMAIN tracked /\ Accounted(b)
        BY DEF BoxesAccounted
      <4>2. CASE b.job # j
        BY <4>1, <4>2, <2>1, <2>3, <3>4, <3>5 DEF Accounted, CancelsBox
      <4>3. CASE b.job = j
        <5>1. b.lease \in history.left \/ b.lease = l
          BY <4>1, <4>3, <2>1, <2>3, <2>5, <3>1 DEF Accounted, OneClaim, Provisions
        <5> QED  BY <5>1, <4>1, <4>3, <2>3, <3>3, <3>4, <3>5 DEF Accounted, CancelsBox
      <4> QED  BY <4>2, <4>3
    <3> QED  BY <3>6, <3>7, <3>8, <3>9
  <2> QED  BY <2>4, <2>5
<1>6. ASSUME NEW h \in Handlers, CancelLease(h) PROVE ScalerInv'
  <2>1. handler[h].at = "cancel" /\ Moves(h, Free) /\ Free.at = "free" /\ UNCHANGED tracked
    BY <1>6 DEF CancelLease, Free
  <2>2. PICK l : l = handler[h].lease
    OBVIOUS
  <2>3. /\ handler' = [g \in Handlers |-> handler'[g]] /\ handler'[h] = Free
        /\ \A g \in Handlers \ {h} : handler'[g] = handler[g]
    BY <2>1, MovesEffect
  <2>4. /\ history'.completed = history.completed /\ history'.evicted = history.evicted /\ history.left \subseteq history'.left
        /\ history' = [completed |-> history'.completed, evicted |-> history'.evicted, left |-> history'.left]
        /\ box' \subseteq box /\ \A b \in box' : b.lease = l => l \in history'.left
    BY <1>6, <2>2 DEF CancelLease, ScalerShape
  <2>5. ScalerShape' /\ ClaimsTracked' /\ OneClaim' /\ NoBoxYet' /\ OneBoxPerJob' /\ CompletedIsMarked'
    BY <2>1, <2>3, <2>4 DEF ScalerShape, ClaimsTracked, OneClaim, NoBoxYet, OneBoxPerJob, CompletedIsMarked,
       Provisions
  <2>6. BoxesAccounted'
    BY <2>1, <2>2, <2>3, <2>4 DEF BoxesAccounted, Accounted, CancelsBox
  <2> QED  BY <2>5, <2>6
<1>7. ASSUME NEW h \in Handlers, Dropped(h) PROVE ScalerInv'
  <2>1. handler[h].at \in {"acquire", "record", "cancel"} /\ Moves(h, Free) /\ Free.at = "free" /\ UNCHANGED <<tracked, box>>
    BY <1>7 DEF Dropped, Free
  <2>2. /\ handler' = [g \in Handlers |-> handler'[g]] /\ handler'[h] = Free
        /\ \A g \in Handlers \ {h} : handler'[g] = handler[g]
    BY <2>1, MovesEffect
  <2>3. /\ history'.completed = history.completed /\ history'.evicted = history.evicted /\ history.left \subseteq history'.left
        /\ history' = [completed |-> history'.completed, evicted |-> history'.evicted, left |-> history'.left]
        /\ handler[h].at # "acquire" => handler[h].lease \in history'.left
    BY <1>7 DEF Dropped, ScalerShape
  <2>4. ScalerShape' /\ ClaimsTracked' /\ OneClaim' /\ NoBoxYet' /\ OneBoxPerJob' /\ CompletedIsMarked'
    BY <2>1, <2>2, <2>3 DEF ScalerShape, ClaimsTracked, OneClaim, NoBoxYet, OneBoxPerJob, CompletedIsMarked,
       Provisions
  <2>5. BoxesAccounted'
    BY <2>1, <2>2, <2>3 DEF BoxesAccounted, Accounted, CancelsBox
  <2> QED  BY <2>4, <2>5
<1>8. ASSUME NEW b \in box, Reaped(b) PROVE ScalerInv'
  BY <1>8 DEF Reaped, ScalerShape, ClaimsTracked, OneClaim, NoBoxYet, OneBoxPerJob, CompletedIsMarked,
     BoxesAccounted,
       Provisions, Accounted, CancelsBox
<1>9. CASE UNCHANGED scalerVars
  BY <1>9 DEF scalerVars, ScalerShape, ClaimsTracked, OneClaim, NoBoxYet, OneBoxPerJob, CompletedIsMarked,
     BoxesAccounted,
       Provisions, Accounted, CancelsBox
<1> QED  BY <1>1, <1>2, <1>3, <1>4, <1>5, <1>6, <1>7, <1>8, <1>9 DEF ScalerNext

(* The invariant of the autoscaler, for any jobs, handlers and size of the    *)
(* map.                                                                       *)
THEOREM ScalerInvariance == ScalerSpec => []ScalerInv
BY ScalerStarts, ScalerKeeps, PTL DEF ScalerSpec

(* A job whose entry was never evicted has one box at most, and once GitHub   *)
(* reported it completed its box has a handler about to cancel it, unless the *)
(* code gave the lease up to the reaper: however often and in whatever order  *)
(* deliveries arrive, before, during or after the acquire.                    *)
THEOREM JobsAlwaysOwnTheirBox == ScalerSpec => []JobsOwnTheirBox
BY ScalerInvariance, ScalerSafe, PTL

--------------------------------------------------------------------------------
(* The credentials of a runner *)

(* Where finalize can be, and the records of a lease, its finalize and a PAT. *)
IssueSteps == {"idle", "app_token", "jitconfig", "stale", "ask", "post", "answer", "provision", "rollback", "done"}
Lives == [state : {"none", "pending", "held", "ended"}, deadline : Int, clean : BOOLEAN]
Issues == [at : IssueSteps, ttl : Int, asked : Int]
PatRecords ==
  [lease : CredLeases, drift : Int, expires : Int, accepted : BOOLEAN, tried : BOOLEAN, revoked : BOOLEAN,
   handed : Seq(CredLeases)]

(* Types. *)
CredTyped ==
  /\ credNow \in Nat
  /\ life \in [CredLeases -> Lives]
  /\ issue \in [CredLeases -> Issues]
  /\ pats \in Seq(PatRecords)
  /\ boxEnv = [l \in CredLeases |-> boxEnv[l]]
  /\ redeem = [r \in Redeemers |-> redeem[r]]

(* A lease that has not started has no finalize, and the other way round. *)
StartedTogether == \A l \in CredLeases : life[l].state = "none" <=> issue[l].at = "idle"

(* A mint that is on its way asked for the time left, less the margin. *)
AsksInTime ==
  \A l \in CredLeases : issue[l].at \in {"post", "answer"} =>
    issue[l].asked + issue[l].ttl + SkewMargin = life[l].deadline

(* The answer on its way is about the lease's latest PAT, which nobody has. *)
Fresh(l, n) ==
  /\ n \in DOMAIN pats /\ pats[n].lease = l /\ ~pats[n].accepted /\ pats[n].handed = <<>>
  /\ \A k \in DOMAIN pats : pats[k].lease = l => k <= n

AnswersAreFresh == \A l \in CredLeases : issue[l].at = "answer" => \E n : Fresh(l, n)

(* A mint starts with no PAT on record. *)
NoneOnRecord == \A l \in CredLeases : issue[l].at \in {"idle", "ask", "post", "answer"} => l \notin DOMAIN patIds

(* Only an end cleans up. *)
OpenIsUnclean == \A l \in CredLeases : life[l].state \in {"pending", "held"} => ~life[l].clean

(* A lease that ended and was cleaned up has no PAT on record. *)
SettledIsForgotten == \A l \in CredLeases \ TestLeases : CredSettled(l) => l \notin DOMAIN patIds

(* The recorded id is a PAT of the lease, the stash holds the recorded PAT, *)
(* which nobody has been handed.                                            *)
RecordsAreOwn ==
  /\ \A l \in DOMAIN patIds : l \in CredLeases /\ patIds[l] \in DOMAIN pats /\ pats[patIds[l]].lease = l
  /\ \A l \in DOMAIN pendingCred :
       /\ l \in DOMAIN patIds /\ pendingCred[l] = patIds[l]
       /\ pats[patIds[l]].accepted /\ pats[patIds[l]].handed = <<>>

(* The secrets that belong into the box of lease l. *)
Secrets(l) == {IngestToken(l), <<"jitconfig", l>>, Ticket(l)}

(* A box has no secret of another lease. *)
EnvIsOwn == \A l \in CredLeases : boxEnv[l] \subseteq Secrets(l)

(* Only the holder of a lease's ticket gets as far as the stash. *)
RedeemersAreOwn ==
  \A r \in Redeemers : redeem[r].at = "take" => redeem[r].lease \in CredLeases /\ redeem[r].holder = redeem[r].lease

(* A PAT's lease has started, and an accepted PAT no revoke was tried for is *)
(* the one on record.                                                        *)
PatsAreRecorded ==
  \A n \in DOMAIN pats :
    /\ life[pats[n].lease].state # "none"
    /\ pats[n].accepted /\ ~pats[n].tried => pats[n].lease \in DOMAIN patIds /\ patIds[pats[n].lease] = n

(* The inductive invariant of the credentials. *)
CredInv ==
  /\ CredTyped /\ StartedTogether /\ AsksInTime /\ AnswersAreFresh /\ NoneOnRecord /\ OpenIsUnclean
  /\ SettledIsForgotten /\ RecordsAreOwn /\ EnvIsOwn /\ RedeemersAreOwn /\ PatsAreRecorded
  /\ NoPatOutlivesLease /\ TokenLeavesOnce

(* Without leases it holds. *)
LEMMA CredStarts == CredInit => CredInv
<1> SUFFICES ASSUME CredInit PROVE CredInv
  OBVIOUS
<1>1. pats = <<>> /\ pats \in Seq(PatRecords) /\ DOMAIN pats = {}
  BY DEF CredInit
<1>2. DOMAIN patIds = {} /\ DOMAIN pendingCred = {}
  BY DEF CredInit
<1>3. CredTyped
  BY <1>1 DEF CredInit, CredTyped, Lives, Issues, IssueSteps, NoIssue
<1> QED  BY <1>1, <1>2, <1>3 DEF CredInit, CredInv, StartedTogether, AsksInTime, AnswersAreFresh, NoneOnRecord,
  OpenIsUnclean,
   SettledIsForgotten, RecordsAreOwn, EnvIsOwn, RedeemersAreOwn, PatsAreRecorded, NoPatOutlivesLease, TokenLeavesOnce,
   NoIssue, NoRedeem, CredSettled

(* It implies the property. *)
LEMMA CredSafe == CredInv => CredentialsDieWithTheLease
BY DEF CredInv, CredentialsDieWithTheLease, SecretsDieWithLease, SettledIsForgotten, NoSecretLeft,
   PatsAreRecorded, RecordsAreOwn,
  CredSettled

(* Only lease l moves, and of the PATs at most the revoke is new. *)
OthersStay(l) ==
  \A k \in CredLeases \ {l} : life'[k] = life[k] /\ issue'[k] = issue[k] /\ boxEnv'[k] = boxEnv[k]

(* No PAT changes but that a revoke of lease l's may have been tried. *)
PatsStay(l) ==
  /\ DOMAIN pats' = DOMAIN pats
  /\ \A n \in DOMAIN pats :
       /\ pats'[n].lease = pats[n].lease /\ pats'[n].drift = pats[n].drift /\ pats'[n].expires = pats[n].expires
       /\ pats'[n].accepted = pats[n].accepted /\ pats'[n].handed = pats[n].handed
       /\ pats[n].tried => pats'[n].tried
  /\ DOMAIN patIds' \subseteq DOMAIN patIds /\ DOMAIN patIds \subseteq DOMAIN patIds' \cup {l}
  /\ \A k \in DOMAIN patIds' : patIds'[k] = patIds[k]
  /\ DOMAIN pendingCred' \subseteq DOMAIN pendingCred \cap DOMAIN patIds'
  /\ \A k \in DOMAIN pendingCred' : pendingCred'[k] = pendingCred[k]
  /\ l \in DOMAIN patIds /\ l \notin DOMAIN patIds' => pats'[patIds[l]].tried

(* A step of one lease that mints nothing and hands nothing out keeps the     *)
(* invariant, if the lease itself ends up in order.                           *)
LEMMA LeaseStepKeepsCred ==
  ASSUME CredInv, NEW l \in CredLeases, CredTyped', OthersStay(l), PatsStay(l), UNCHANGED redeem,
         life[l].state # "none" => life'[l].deadline = life[l].deadline,
         life'[l].state # "none", issue'[l].at # "idle",
         issue'[l].at \in {"post", "answer"} => issue'[l].asked + issue'[l].ttl + SkewMargin = life'[l].deadline,
         issue'[l].at = "answer" => issue[l].at = "answer",
         issue'[l].at \in {"ask", "post", "answer"} => l \notin DOMAIN patIds',
         life'[l].state \in {"pending", "held"} => ~life'[l].clean,
         l \notin TestLeases /\ life'[l].state = "ended" /\ life'[l].clean /\ issue'[l].at = "done" => l \notin DOMAIN patIds',
         boxEnv'[l] \subseteq Secrets(l)
  PROVE  CredInv'
<1> USE DEF CredInv
<1>1. StartedTogether' /\ AsksInTime' /\ OpenIsUnclean'
  BY DEF StartedTogether, AsksInTime, OpenIsUnclean, OthersStay
<1>2. AnswersAreFresh'
  BY DEF AnswersAreFresh, Fresh, OthersStay, PatsStay
<1>3. NoneOnRecord'
  BY DEF NoneOnRecord, OthersStay, PatsStay
<1>4. SettledIsForgotten'
  BY DEF SettledIsForgotten, CredSettled, OthersStay, PatsStay
<1>5. RecordsAreOwn'
  BY DEF RecordsAreOwn, PatsStay
<1>6. EnvIsOwn' /\ RedeemersAreOwn'
  BY DEF EnvIsOwn, OthersStay, RedeemersAreOwn, Secrets, IngestToken, Ticket
<1>8. \A n \in DOMAIN pats : pats[n].lease \in CredLeases
  <2>1. \A n \in DOMAIN pats : pats[n] \in PatRecords
    BY DEF CredTyped
  <2> QED  BY <2>1 DEF PatRecords
<1>7. PatsAreRecorded'
  <2> SUFFICES ASSUME NEW n \in DOMAIN pats
               PROVE  /\ life'[pats'[n].lease].state # "none"
                      /\ pats'[n].accepted /\ ~pats'[n].tried
                           => pats'[n].lease \in DOMAIN patIds' /\ patIds'[pats'[n].lease] = n
    BY DEF PatsAreRecorded, PatsStay
  <2>1. pats[n].lease \in CredLeases /\ pats'[n].lease = pats[n].lease
    BY <1>8 DEF PatsStay
  <2>2. life'[pats[n].lease].state # "none"
    BY <2>1 DEF PatsAreRecorded, OthersStay
  <2>3. pats'[n].accepted /\ ~pats'[n].tried => pats[n].accepted /\ ~pats[n].tried
    BY DEF PatsStay
  <2>4. pats[n].accepted /\ ~pats[n].tried => pats[n].lease \in DOMAIN patIds /\ patIds[pats[n].lease] = n
    BY DEF PatsAreRecorded
  <2>5. \A k \in DOMAIN patIds : k \notin DOMAIN patIds' => k = l /\ pats'[patIds[l]].tried
    BY DEF PatsStay
  <2>6. \A k \in DOMAIN patIds' : patIds'[k] = patIds[k]
    BY DEF PatsStay
  <2> QED  BY <2>1, <2>2, <2>3, <2>4, <2>5, <2>6
<1>9. \A n \in DOMAIN pats : life'[pats[n].lease].deadline = life[pats[n].lease].deadline
  BY <1>8 DEF PatsAreRecorded, OthersStay
<1>10. NoPatOutlivesLease'
  BY <1>9 DEF NoPatOutlivesLease, PatsStay
<1>11. TokenLeavesOnce'
  BY DEF TokenLeavesOnce, PatsStay
<1> QED  BY <1>1, <1>2, <1>3, <1>4, <1>5, <1>6, <1>7, <1>10, <1>11

(* Nothing about a PAT changes. *)
LEMMA UnchangedPatsStay ==
  ASSUME CredInv, NEW l, UNCHANGED <<pats, patIds, pendingCred>> PROVE PatsStay(l)
BY DEF PatsStay, CredInv, RecordsAreOwn

(* A revoke, acknowledged or lost, forgets the PAT of its lease only. *)
LEMMA RevokeKeepsPats ==
  ASSUME CredInv, NEW l \in CredLeases, RevokePatFor(l)
  PROVE  PatsStay(l) /\ l \notin DOMAIN patIds' /\ pats' \in Seq(PatRecords)
<1>1. /\ DOMAIN patIds' = DOMAIN patIds \ {l} /\ \A k \in DOMAIN patIds' : patIds'[k] = patIds[k]
      /\ DOMAIN pendingCred' = DOMAIN pendingCred \ {l} /\ \A k \in DOMAIN pendingCred' : pendingCred'[k] = pendingCred[k]
  BY DEF RevokePatFor, CredDrop
<1>2. DOMAIN pendingCred' \subseteq DOMAIN patIds'
  BY <1>1 DEF CredInv, RecordsAreOwn
<1>3. CASE l \notin DOMAIN patIds
  <2>1. pats' = pats
    BY <1>3 DEF RevokePatFor
  <2> QED  BY <1>1, <1>2, <1>3, <2>1 DEF PatsStay, CredInv, CredTyped
<1>4. CASE l \in DOMAIN patIds
  <2>1. PICK n : n = patIds[l]
    OBVIOUS
  <2>2. n \in DOMAIN pats /\ pats \in Seq(PatRecords) /\ pats[n] \in PatRecords
    BY <1>4, <2>1 DEF CredInv, RecordsAreOwn, CredTyped
  <2>3. PICK ok \in BOOLEAN : pats' = [pats EXCEPT ![n] = [pats[n] EXCEPT !.tried = TRUE, !.revoked = ok]]
    BY <1>4, <2>1 DEF RevokePatFor
  <2>4. PICK p : p = [pats[n] EXCEPT !.tried = TRUE, !.revoked = ok]
    OBVIOUS
  <2>5. /\ p \in PatRecords /\ p.lease = pats[n].lease /\ p.drift = pats[n].drift /\ p.expires = pats[n].expires
        /\ p.accepted = pats[n].accepted /\ p.handed = pats[n].handed /\ p.tried
    BY <2>2, <2>4 DEF PatRecords
  <2>6. pats' = [pats EXCEPT ![n] = p]
    BY <2>3, <2>4
  <2>7. /\ pats' \in Seq(PatRecords) /\ DOMAIN pats' = DOMAIN pats /\ pats'[n] = p
        /\ \A k \in DOMAIN pats \ {n} : pats'[k] = pats[k]
    BY <2>2, <2>5, <2>6
  <2> QED  BY <1>1, <1>2, <1>4, <2>1, <2>5, <2>7 DEF PatsStay
<1> QED  BY <1>3, <1>4

(* What a step of finalize keeps. *)
LEMMA IssueGoesEffect ==
  ASSUME CredTyped, NEW l \in CredLeases, NEW at \in IssueSteps, IssueGoes(l, at)
  PROVE  /\ issue' \in [CredLeases -> Issues] /\ \A k \in CredLeases \ {l} : issue'[k] = issue[k]
         /\ issue'[l].at = at /\ issue'[l].ttl = issue[l].ttl /\ issue'[l].asked = issue[l].asked
BY DEF CredTyped, IssueGoes, Issues

(* A step of finalize that changes nothing but its own place, or the box's   *)
(* environment.                                                              *)
LEMMA PlaceStepKeepsCred ==
  ASSUME CredInv, NEW l \in CredLeases, issue[l].at # "idle", NEW at \in IssueSteps \ {"idle", "post", "answer", "done"},
         IssueGoes(l, at), at = "ask" => l \notin DOMAIN patIds,
         UNCHANGED <<credNow, life, pats, patIds, pendingCred, redeem>>,
         boxEnv' = [k \in CredLeases |-> boxEnv'[k]], boxEnv'[l] \subseteq Secrets(l),
         \A k \in CredLeases \ {l} : boxEnv'[k] = boxEnv[k]
  PROVE  CredInv'
<1>1. /\ issue' \in [CredLeases -> Issues] /\ \A k \in CredLeases \ {l} : issue'[k] = issue[k]
      /\ issue'[l].at = at
  BY IssueGoesEffect DEF CredInv
<1>2. CredTyped' /\ OthersStay(l)
  BY <1>1 DEF CredInv, CredTyped, OthersStay
<1>3. life[l].state # "none" /\ (life[l].state \in {"pending", "held"} => ~life[l].clean)
  BY DEF CredInv, StartedTogether, OpenIsUnclean
<1> QED  BY <1>1, <1>2, <1>3, UnchangedPatsStay, LeaseStepKeepsCred

(* Every step of a lease, of the mint, of a redeemer and of the clock keeps   *)
(* the invariant.                                                             *)
LEMMA CredKeeps == CredInv /\ [CredNext]_credVars => CredInv'
<1> SUFFICES ASSUME CredInv, [CredNext]_credVars PROVE CredInv'
  OBVIOUS
<1>0. /\ CredTyped /\ StartedTogether /\ AsksInTime /\ AnswersAreFresh /\ NoneOnRecord /\ OpenIsUnclean
      /\ SettledIsForgotten /\ RecordsAreOwn /\ EnvIsOwn /\ RedeemersAreOwn /\ PatsAreRecorded
      /\ NoPatOutlivesLease /\ TokenLeavesOnce
  BY DEF CredInv
<1>e. \A l \in CredLeases : boxEnv[l] \subseteq Secrets(l)
  BY <1>0 DEF EnvIsOwn
<1>b. boxEnv = [k \in CredLeases |-> boxEnv[k]]
  BY <1>0 DEF CredTyped
<1>1. ASSUME NEW l \in CredLeases, Admit(l) PROVE CredInv'
  <2>1. PICK row : row = [state |-> "pending", deadline |-> credNow + CredTtl, clean |-> FALSE]
    OBVIOUS
  <2>2. row \in Lives /\ row.state = "pending" /\ row.clean = FALSE
    BY <1>0, <2>1, CredAssumption DEF Lives, CredTyped
  <2>3. /\ life' = [life EXCEPT ![l] = row] /\ life[l].state = "none" /\ IssueGoes(l, FirstLeg)
        /\ boxEnv' = [boxEnv EXCEPT ![l] = {IngestToken(l)}]
        /\ UNCHANGED <<credNow, pats, patIds, pendingCred, redeem>>
    BY <1>1, <2>1 DEF Admit
  <2>4. FirstLeg \in {"app_token", "jitconfig"} /\ FirstLeg \in IssueSteps
    BY DEF FirstLeg, IssueSteps
  <2>5. /\ issue' \in [CredLeases -> Issues] /\ \A k \in CredLeases \ {l} : issue'[k] = issue[k]
        /\ issue'[l].at = FirstLeg
    BY <1>0, <2>3, <2>4, IssueGoesEffect
  <2>6. /\ life' \in [CredLeases -> Lives] /\ life'[l] = row /\ \A k \in CredLeases \ {l} : life'[k] = life[k]
    BY <1>0, <2>2, <2>3 DEF CredTyped
  <2>7. /\ boxEnv' = [k \in CredLeases |-> boxEnv'[k]] /\ boxEnv'[l] = {IngestToken(l)}
        /\ \A k \in CredLeases \ {l} : boxEnv'[k] = boxEnv[k]
    BY <1>b, <2>3
  <2>8. CredTyped' /\ OthersStay(l) /\ boxEnv'[l] \subseteq Secrets(l)
    BY <1>0, <2>3, <2>5, <2>6, <2>7 DEF CredTyped, OthersStay, Secrets
  <2> QED  BY <2>2, <2>3, <2>4, <2>5, <2>6, <2>8, UnchangedPatsStay, LeaseStepKeepsCred
<1>2. ASSUME NEW l \in CredLeases, InstallationToken(l) PROVE CredInv'
  <2>1. PICK at \in {"jitconfig", "rollback"} : IssueGoes(l, at)
    BY <1>2 DEF InstallationToken
  <2> QED  BY <1>2, <1>b, <1>e, <2>1, PlaceStepKeepsCred DEF InstallationToken, IssueSteps
<1>3. ASSUME NEW l \in CredLeases, JitConfig(l) PROVE CredInv'
  <2>1. PICK at \in {"stale", "rollback"} : IssueGoes(l, at)
    BY <1>3 DEF JitConfig
  <2>2. boxEnv' = [k \in CredLeases |-> boxEnv'[k]] /\ boxEnv'[l] \subseteq Secrets(l)
        /\ \A k \in CredLeases \ {l} : boxEnv'[k] = boxEnv[k]
    BY <1>3, <1>b, <1>e DEF JitConfig, Secrets
  <2> QED  BY <1>3, <2>1, <2>2, PlaceStepKeepsCred DEF JitConfig, IssueSteps
<1>4. ASSUME NEW l \in CredLeases, RevokeStale(l) PROVE CredInv'
  <2>1. issue[l].at = "stale" /\ RevokePatFor(l) /\ IssueGoes(l, "ask") /\ UNCHANGED <<credNow, life, boxEnv, redeem>>
    BY <1>4 DEF RevokeStale
  <2>2. PatsStay(l) /\ l \notin DOMAIN patIds' /\ pats' \in Seq(PatRecords)
    BY <2>1, RevokeKeepsPats
  <2>3. "ask" \in IssueSteps
    BY DEF IssueSteps
  <2>4. /\ issue' \in [CredLeases -> Issues] /\ \A k \in CredLeases \ {l} : issue'[k] = issue[k]
        /\ issue'[l].at = "ask"
    BY <1>0, <2>1, <2>3, IssueGoesEffect
  <2>5. CredTyped' /\ OthersStay(l)
    BY <1>0, <2>1, <2>2, <2>4 DEF CredTyped, OthersStay
  <2>6. life[l].state # "none" /\ (life[l].state \in {"pending", "held"} => ~life[l].clean)
    BY <1>0, <2>1 DEF StartedTogether, OpenIsUnclean
  <2> QED  BY <1>e, <2>1, <2>2, <2>4, <2>5, <2>6, LeaseStepKeepsCred
<1>5. ASSUME NEW l \in CredLeases, AskMint(l) PROVE CredInv'
  <2>1. PICK ttl : ttl = MintTtl(life[l].deadline, credNow)
    OBVIOUS
  <2>2. life[l] \in Lives /\ issue[l] \in Issues /\ credNow \in Int
    BY <1>0 DEF CredTyped
  <2>3. life[l].deadline \in Int
    BY <2>2 DEF Lives
  <2>4. ttl \in Int /\ (ttl # 0 => credNow + ttl + SkewMargin = life[l].deadline)
    BY <2>1, <2>2, <2>3, CredAssumption DEF MintTtl
  <2>5. PICK post : post = IF ttl = 0 THEN [NoIssue EXCEPT !.at = "rollback"]
                     ELSE [at |-> "post", ttl |-> ttl, asked |-> credNow]
    OBVIOUS
  <2>6. /\ post \in Issues /\ post.at \in {"rollback", "post"}
        /\ post.at = "post" => post.asked + post.ttl + SkewMargin = life[l].deadline
    BY <2>2, <2>4, <2>5 DEF Issues, NoIssue, IssueSteps
  <2>7. /\ issue' = [issue EXCEPT ![l] = post] /\ issue[l].at = "ask"
        /\ UNCHANGED <<credNow, life, pats, patIds, pendingCred, boxEnv, redeem>>
    BY <1>5, <2>1, <2>5 DEF AskMint
  <2>8. issue' \in [CredLeases -> Issues] /\ issue'[l] = post /\ \A k \in CredLeases \ {l} : issue'[k] = issue[k]
    BY <1>0, <2>6, <2>7 DEF CredTyped
  <2>9. CredTyped' /\ OthersStay(l)
    BY <1>0, <2>7, <2>8 DEF CredTyped, OthersStay
  <2>10. /\ life[l].state # "none" /\ (life[l].state \in {"pending", "held"} => ~life[l].clean) /\ l \notin DOMAIN patIds
    BY <1>0, <2>7 DEF StartedTogether, OpenIsUnclean, NoneOnRecord
  <2> QED  BY <1>e, <2>6, <2>7, <2>8, <2>9, <2>10, UnchangedPatsStay, LeaseStepKeepsCred
<1>7. ASSUME NEW l \in CredLeases, ServiceRefuses(l) \/ MintAnswerLost(l) \/ ProvisionFails(l) PROVE CredInv'
  BY <1>7, <1>b, <1>e, PlaceStepKeepsCred DEF ServiceRefuses, MintAnswerLost, ProvisionFails, IssueSteps
<1>8. ASSUME NEW l \in CredLeases, ProvisionRetried(l) PROVE CredInv'
  <2>1. FirstLeg \in IssueSteps \ {"idle", "post", "answer", "done", "ask"}
    BY DEF FirstLeg, IssueSteps
  <2> QED  BY <1>8, <1>b, <1>e, <2>1, PlaceStepKeepsCred DEF ProvisionRetried
<1>9. ASSUME NEW l \in CredLeases, Provisioned(l) PROVE CredInv'
  <2>1. CASE life[l].state # "pending"
    BY <1>9, <1>b, <1>e, <2>1, PlaceStepKeepsCred DEF Provisioned, IssueSteps
  <2>2. CASE life[l].state = "pending"
    <3>1. /\ life' = [life EXCEPT ![l].state = "held"] /\ IssueGoes(l, "done")
          /\ UNCHANGED <<credNow, pats, patIds, pendingCred, boxEnv, redeem>>
      BY <1>9, <2>2 DEF Provisioned
    <3>2. /\ life' \in [CredLeases -> Lives] /\ \A k \in CredLeases \ {l} : life'[k] = life[k]
          /\ life'[l].state = "held" /\ life'[l].deadline = life[l].deadline /\ life'[l].clean = life[l].clean
      BY <1>0, <3>1 DEF CredTyped, Lives
    <3>3. "done" \in IssueSteps
      BY DEF IssueSteps
    <3>4. /\ issue' \in [CredLeases -> Issues] /\ \A k \in CredLeases \ {l} : issue'[k] = issue[k]
          /\ issue'[l].at = "done"
      BY <1>0, <3>1, <3>3, IssueGoesEffect
    <3>5. CredTyped' /\ OthersStay(l)
      BY <1>0, <3>1, <3>2, <3>4 DEF CredTyped, OthersStay
    <3>6. ~life[l].clean
      BY <1>0, <2>2 DEF OpenIsUnclean
    <3> QED  BY <1>e, <3>1, <3>2, <3>4, <3>5, <3>6, UnchangedPatsStay, LeaseStepKeepsCred
  <2> QED  BY <2>1, <2>2
<1>10. ASSUME NEW l \in CredLeases, RollbackIssue(l) PROVE CredInv'
  <2>1. PICK rest : rest = [NoIssue EXCEPT !.at = "done"]
    OBVIOUS
  <2>2. rest \in Issues /\ rest.at = "done"
    BY <2>1 DEF NoIssue, Issues, IssueSteps
  <2>3. /\ life' = [life EXCEPT ![l].state = "ended", ![l].clean = TRUE] /\ issue' = [issue EXCEPT ![l] = rest]
        /\ issue[l].at = "rollback" /\ UNCHANGED <<credNow, boxEnv, redeem>>
        /\ (l \in TestLeases /\ UNCHANGED <<pats, patIds, pendingCred>>) \/ (l \notin TestLeases /\ RevokePatFor(l))
    BY <1>10, <2>1 DEF RollbackIssue
  <2>4. PatsStay(l) /\ pats' \in Seq(PatRecords) /\ (l \notin TestLeases => l \notin DOMAIN patIds')
    <3>1. pats \in Seq(PatRecords)
      BY <1>0 DEF CredTyped
    <3> QED  BY <2>3, <3>1, UnchangedPatsStay, RevokeKeepsPats
  <2>5. /\ life' \in [CredLeases -> Lives] /\ \A k \in CredLeases \ {l} : life'[k] = life[k]
        /\ life'[l].state = "ended" /\ life'[l].deadline = life[l].deadline
    BY <1>0, <2>3 DEF CredTyped, Lives
  <2>6. issue' \in [CredLeases -> Issues] /\ issue'[l] = rest /\ \A k \in CredLeases \ {l} : issue'[k] = issue[k]
    BY <1>0, <2>2, <2>3 DEF CredTyped
  <2>7. CredTyped' /\ OthersStay(l)
    BY <1>0, <2>3, <2>4, <2>5, <2>6 DEF CredTyped, OthersStay
  <2> QED  BY <1>e, <2>2, <2>3, <2>4, <2>5, <2>6, <2>7, LeaseStepKeepsCred
<1>11. ASSUME NEW l \in CredLeases, TestMint(l) PROVE CredInv'
  <2>1. PICK row : row = [state |-> "held", deadline |-> credNow + CredTtl, clean |-> FALSE]
    OBVIOUS
  <2>2. row \in Lives /\ row.state = "held" /\ row.clean = FALSE
    BY <1>0, <2>1, CredAssumption DEF Lives, CredTyped
  <2>3. life' = [life EXCEPT ![l] = row] /\ life[l].state = "none" /\ IssueGoes(l, "ask")
        /\ UNCHANGED <<credNow, pats, patIds, pendingCred, boxEnv, redeem>>
    BY <1>11, <2>1 DEF TestMint
  <2>4. "ask" \in IssueSteps
    BY DEF IssueSteps
  <2>5. /\ issue' \in [CredLeases -> Issues] /\ \A k \in CredLeases \ {l} : issue'[k] = issue[k]
        /\ issue'[l].at = "ask"
    BY <1>0, <2>3, <2>4, IssueGoesEffect
  <2>6. /\ life' \in [CredLeases -> Lives] /\ life'[l] = row /\ \A k \in CredLeases \ {l} : life'[k] = life[k]
    BY <1>0, <2>2, <2>3 DEF CredTyped
  <2>7. CredTyped' /\ OthersStay(l)
    BY <1>0, <2>3, <2>5, <2>6 DEF CredTyped, OthersStay
  <2>8. l \notin DOMAIN patIds
    BY <1>0, <2>3 DEF StartedTogether, NoneOnRecord
  <2> QED  BY <1>e, <2>2, <2>3, <2>5, <2>6, <2>7, <2>8, UnchangedPatsStay, LeaseStepKeepsCred
<1>12. ASSUME NEW l \in CredLeases, LeaseEnded(l) PROVE CredInv'
  <2>1. /\ life' = [life EXCEPT ![l].state = "ended"] /\ life[l].state \in {"pending", "held"}
        /\ UNCHANGED <<credNow, issue, pats, patIds, pendingCred, boxEnv, redeem>>
    BY <1>12 DEF LeaseEnded
  <2>2. /\ life' \in [CredLeases -> Lives] /\ \A k \in CredLeases \ {l} : life'[k] = life[k]
        /\ life'[l].state = "ended" /\ life'[l].deadline = life[l].deadline /\ life'[l].clean = life[l].clean
    BY <1>0, <2>1 DEF CredTyped, Lives
  <2>3. CredTyped' /\ OthersStay(l)
    BY <1>0, <2>1, <2>2 DEF CredTyped, OthersStay
  <2>4. /\ ~life[l].clean /\ issue[l].at # "idle"
        /\ issue[l].at \in {"ask", "post", "answer"} => l \notin DOMAIN patIds
        /\ issue[l].at \in {"post", "answer"} => issue[l].asked + issue[l].ttl + SkewMargin = life[l].deadline
    BY <1>0, <2>1 DEF OpenIsUnclean, StartedTogether, NoneOnRecord, AsksInTime
  <2> QED  BY <1>e, <2>1, <2>2, <2>3, <2>4, UnchangedPatsStay, LeaseStepKeepsCred
<1>13. ASSUME NEW l \in CredLeases, CleanUp(l) PROVE CredInv'
  <2>1. /\ life' = [life EXCEPT ![l].clean = TRUE] /\ life[l].state = "ended" /\ RevokePatFor(l)
        /\ UNCHANGED <<credNow, issue, boxEnv, redeem>>
    BY <1>13 DEF CleanUp
  <2>2. /\ life' \in [CredLeases -> Lives] /\ \A k \in CredLeases \ {l} : life'[k] = life[k]
        /\ life'[l].state = "ended" /\ life'[l].deadline = life[l].deadline
    BY <1>0, <2>1 DEF CredTyped, Lives
  <2>3. PatsStay(l) /\ l \notin DOMAIN patIds' /\ pats' \in Seq(PatRecords)
    BY <2>1, RevokeKeepsPats
  <2>4. CredTyped' /\ OthersStay(l)
    BY <1>0, <2>1, <2>2, <2>3 DEF CredTyped, OthersStay
  <2>5. /\ issue[l].at # "idle"
        /\ issue[l].at \in {"post", "answer"} => issue[l].asked + issue[l].ttl + SkewMargin = life[l].deadline
    BY <1>0, <2>1 DEF StartedTogether, AsksInTime
  <2> QED  BY <1>e, <2>1, <2>2, <2>3, <2>4, <2>5, LeaseStepKeepsCred
<1>6. ASSUME NEW l \in CredLeases, ServiceMints(l) PROVE CredInv'
  <2>a. PICK drift \in (-1)..MaxDrift :
          pats' = Append(pats, [lease |-> l, drift |-> drift, expires |-> issue[l].asked + drift + issue[l].ttl,
                                accepted |-> FALSE, tried |-> FALSE, revoked |-> FALSE, handed |-> <<>>])
    BY <1>6 DEF ServiceMints
  <2>1. PICK new :
          /\ new = [lease |-> l, drift |-> drift, expires |-> issue[l].asked + drift + issue[l].ttl,
                    accepted |-> FALSE, tried |-> FALSE, revoked |-> FALSE, handed |-> <<>>]
          /\ pats' = Append(pats, new)
    BY <2>a
  <2>2. issue[l].at = "post" /\ IssueGoes(l, "answer") /\ UNCHANGED <<credNow, life, patIds, pendingCred, boxEnv, redeem>>
    BY <1>6 DEF ServiceMints
  <2>3. issue[l].asked \in Int /\ issue[l].ttl \in Int /\ life[l].deadline \in Int /\ drift \in Int
    BY <1>0, <2>a, CredAssumption DEF CredTyped, Issues, Lives
  <2>4. PICK none : none = <<>> /\ none \in Seq(CredLeases)
    <3>1. <<>> \in Seq(CredLeases)
      OBVIOUS
    <3> QED  BY <3>1
  <2>5. new = [lease |-> l, drift |-> drift, expires |-> issue[l].asked + drift + issue[l].ttl,
               accepted |-> FALSE, tried |-> FALSE, revoked |-> FALSE, handed |-> none]
    BY <2>1, <2>4
  <2>6. /\ new \in PatRecords /\ new.lease = l /\ new.drift = drift /\ new.expires = issue[l].asked + drift + issue[l].ttl
        /\ new.accepted = FALSE /\ new.handed = none
    BY <2>3, <2>4, <2>5 DEF PatRecords
  <2>7. PICK n \in Nat : n = Len(pats) + 1
    BY <1>0 DEF CredTyped
  <2>8. /\ pats' \in Seq(PatRecords) /\ DOMAIN pats' = DOMAIN pats \cup {n} /\ n \notin DOMAIN pats /\ pats'[n] = new
        /\ \A k \in DOMAIN pats : pats'[k] = pats[k] /\ k \in Nat /\ k <= n
    <3>1. pats \in Seq(PatRecords) /\ new \in PatRecords
      BY <1>0, <2>6 DEF CredTyped
    <3> QED  BY <2>1, <2>7, <3>1
  <2>9. "answer" \in IssueSteps
    BY DEF IssueSteps
  <2>10. /\ issue' \in [CredLeases -> Issues] /\ \A k \in CredLeases \ {l} : issue'[k] = issue[k]
         /\ issue'[l].at = "answer" /\ issue'[l].ttl = issue[l].ttl /\ issue'[l].asked = issue[l].asked
    BY <1>0, <2>2, <2>9, IssueGoesEffect
  <2>11. CredTyped'
    BY <1>0, <2>2, <2>8, <2>10 DEF CredTyped
  <2>12. /\ StartedTogether' /\ AsksInTime' /\ NoneOnRecord' /\ OpenIsUnclean' /\ SettledIsForgotten'
         /\ EnvIsOwn' /\ RedeemersAreOwn'
    BY <1>0, <2>2, <2>10 DEF StartedTogether, AsksInTime, NoneOnRecord, OpenIsUnclean, SettledIsForgotten,
       CredSettled, EnvIsOwn, RedeemersAreOwn
  <2>13. AnswersAreFresh'
    <3> SUFFICES ASSUME NEW k \in CredLeases, issue'[k].at = "answer" PROVE \E m : Fresh(k, m)'
      BY DEF AnswersAreFresh
    <3>1. CASE k = l
      <4>1. Fresh(l, n)'
        BY <2>4, <2>6, <2>7, <2>8 DEF Fresh
      <4> QED  BY <3>1, <4>1
    <3>2. CASE k # l
      <4>1. PICK m : Fresh(k, m)
        BY <1>0, <2>10, <3>2 DEF AnswersAreFresh
      <4>2. Fresh(k, m)'
        BY <3>2, <4>1, <2>6, <2>8 DEF Fresh
      <4> QED  BY <4>2
    <3> QED  BY <3>1, <3>2
  <2>14. RecordsAreOwn'
    BY <1>0, <2>2, <2>8 DEF RecordsAreOwn
  <2>15. PatsAreRecorded'
    <3>1. life[l].state # "none"
      BY <1>0, <2>2 DEF StartedTogether
    <3> QED  BY <1>0, <2>2, <2>6, <2>8, <3>1 DEF PatsAreRecorded
  <2>16. NoPatOutlivesLease'
    <3>1. drift <= SkewMargin => new.expires <= life[l].deadline
      BY <1>0, <2>2, <2>3, <2>6, CredAssumption DEF AsksInTime
    <3> QED  BY <1>0, <2>2, <2>6, <2>8, <3>1 DEF NoPatOutlivesLease
  <2>17. TokenLeavesOnce'
    <3>1. Len(none) = 0 /\ DOMAIN none = {}
      BY <2>4
    <3> QED  BY <1>0, <2>6, <2>8, <3>1 DEF TokenLeavesOnce
  <2> QED  BY <2>11, <2>12, <2>13, <2>14, <2>15, <2>16, <2>17 DEF CredInv
<1>14. ASSUME NEW l \in CredLeases, MintAnswered(l) PROVE CredInv'
  <2>1. issue[l].at = "answer" /\ UNCHANGED <<credNow, life, redeem>>
    BY <1>14 DEF MintAnswered
  <2>2. PICK n : Fresh(l, n)
    BY <1>0, <2>1 DEF AnswersAreFresh
  <2>3. DOMAIN pats \subseteq Nat
    BY <1>0 DEF CredTyped
  <2>4. LatestPat(l) = n
    <3>1. \A m \in DOMAIN pats : pats[m].lease = l /\ (\A k \in DOMAIN pats : pats[k].lease = l => k <= m) => m = n
      BY <2>2, <2>3 DEF Fresh
    <3>2. n \in DOMAIN pats /\ pats[n].lease = l /\ (\A k \in DOMAIN pats : pats[k].lease = l => k <= n)
      BY <2>2 DEF Fresh
    <3> QED  BY <3>1, <3>2 DEF LatestPat
  <2>5. CASE ~AcceptsMint(pats[n].expires, life[l].deadline)
    BY <1>14, <1>b, <1>e, <2>1, <2>4, <2>5, PlaceStepKeepsCred DEF MintAnswered, IssueSteps
  <2>6. CASE AcceptsMint(pats[n].expires, life[l].deadline)
    <3>1. PICK at \in {"done", "provision"} : IssueGoes(l, at) /\ (at = "done" => l \in TestLeases)
      BY <1>14, <2>4, <2>6 DEF MintAnswered
    <3>2. /\ pats' = [pats EXCEPT ![n].accepted = TRUE] /\ pendingCred' = CredPut(pendingCred, l, n)
          /\ patIds' = CredPut(patIds, l, n) /\ boxEnv' = [boxEnv EXCEPT ![l] = @ \cup {Ticket(l)}]
      BY <1>14, <2>4, <2>6 DEF MintAnswered
    <3>3. at \in IssueSteps
      BY DEF IssueSteps
    <3>4. /\ issue' \in [CredLeases -> Issues] /\ \A k \in CredLeases \ {l} : issue'[k] = issue[k]
          /\ issue'[l].at = at
      BY <1>0, <3>1, <3>3, IssueGoesEffect
    <3>5. n \in DOMAIN pats /\ pats \in Seq(PatRecords) /\ pats[n] \in PatRecords
      BY <1>0, <2>2 DEF Fresh, CredTyped
    <3>6. PICK p : p = [pats[n] EXCEPT !.accepted = TRUE]
      OBVIOUS
    <3>7. /\ p \in PatRecords /\ p.lease = pats[n].lease /\ p.drift = pats[n].drift /\ p.expires = pats[n].expires
          /\ p.accepted /\ p.handed = pats[n].handed
      BY <3>5, <3>6 DEF PatRecords
    <3>8. /\ pats' \in Seq(PatRecords) /\ DOMAIN pats' = DOMAIN pats /\ pats'[n] = p
          /\ \A k \in DOMAIN pats \ {n} : pats'[k] = pats[k]
      BY <3>2, <3>5, <3>6, <3>7
    <3>9. /\ DOMAIN patIds' = DOMAIN patIds \cup {l} /\ patIds'[l] = n /\ \A k \in DOMAIN patIds \ {l} : patIds'[k] = patIds[k]
          /\ DOMAIN pendingCred' = DOMAIN pendingCred \cup {l} /\ pendingCred'[l] = n
          /\ \A k \in DOMAIN pendingCred \ {l} : pendingCred'[k] = pendingCred[k]
      BY <3>2 DEF CredPut
    <3>10. /\ boxEnv' = [k \in CredLeases |-> boxEnv'[k]] /\ boxEnv'[l] = boxEnv[l] \cup {Ticket(l)}
           /\ \A k \in CredLeases \ {l} : boxEnv'[k] = boxEnv[k]
      BY <1>b, <3>2
    <3>11. CredTyped'
      BY <1>0, <2>1, <3>4, <3>8, <3>10 DEF CredTyped
    <3>12. EnvIsOwn' /\ RedeemersAreOwn'
      BY <1>0, <2>1, <3>10 DEF EnvIsOwn, RedeemersAreOwn, Secrets
    <3>13. StartedTogether' /\ AsksInTime' /\ OpenIsUnclean'
      BY <1>0, <2>1, <3>1, <3>4 DEF StartedTogether, AsksInTime, OpenIsUnclean
    <3>14. NoneOnRecord' /\ SettledIsForgotten'
      BY <1>0, <2>1, <3>1, <3>4, <3>9 DEF NoneOnRecord, SettledIsForgotten, CredSettled
    <3>15. pats[n].lease = l /\ pats[n].handed = <<>> /\ l \notin DOMAIN patIds
      BY <1>0, <2>1, <2>2 DEF Fresh, NoneOnRecord
    <3>16. AnswersAreFresh'
      <4> SUFFICES ASSUME NEW k \in CredLeases, issue'[k].at = "answer" PROVE \E m : Fresh(k, m)'
        BY DEF AnswersAreFresh
      <4>1. k # l
        BY <3>1, <3>4
      <4>2. PICK m : Fresh(k, m)
        BY <1>0, <3>4, <4>1 DEF AnswersAreFresh
      <4>3. m # n
        BY <3>15, <4>1, <4>2 DEF Fresh
      <4>4. Fresh(k, m)'
        BY <3>7, <3>8, <4>2, <4>3 DEF Fresh
      <4> QED  BY <4>4
    <3>17. RecordsAreOwn'
      <4>1. \A k \in DOMAIN patIds : patIds[k] # n
        BY <1>0, <3>15 DEF RecordsAreOwn
      <4> QED  BY <1>0, <3>5, <3>7, <3>8, <3>9, <3>15, <4>1 DEF RecordsAreOwn
    <3>18. PatsAreRecorded'
      BY <1>0, <2>1, <3>7, <3>8, <3>9, <3>15 DEF PatsAreRecorded
    <3>19. NoPatOutlivesLease'
      BY <1>0, <2>1, <2>6, <3>7, <3>8, <3>15 DEF NoPatOutlivesLease, AcceptsMint
    <3>20. TokenLeavesOnce'
      BY <1>0, <3>7, <3>8 DEF TokenLeavesOnce
    <3> QED  BY <3>11, <3>12, <3>13, <3>14, <3>16, <3>17, <3>18, <3>19, <3>20 DEF CredInv
  <2> QED  BY <2>5, <2>6
<1>15. ASSUME NEW r \in Redeemers, NEW l \in CredLeases, NEW holder \in CredLeases, RedeemCheck(r, l, holder) PROVE CredInv'
  <2>1. UNCHANGED <<credNow, life, issue, pats, patIds, pendingCred, boxEnv>>
    BY <1>15 DEF RedeemCheck
  <2>a. PICK shown \in boxEnv[holder] :
          redeem' = [redeem EXCEPT ![r] =
            IF Verifies(l, shown) /\ life[l].state = "held"
            THEN [at |-> "take", lease |-> l, holder |-> holder] ELSE Answered("refused")]
    BY <1>15 DEF RedeemCheck
  <2>2. PICK answer :
          /\ redeem' = [redeem EXCEPT ![r] = answer]
          /\ answer = IF Verifies(l, shown) /\ life[l].state = "held"
                      THEN [at |-> "take", lease |-> l, holder |-> holder] ELSE Answered("refused")
    BY <2>a
  <2>3. shown = Ticket(l) => l = holder
    BY <1>e, <2>a DEF Secrets, Ticket, IngestToken
  <2>4. answer.at = "take" => answer.lease = l /\ answer.holder = l
    BY <2>2, <2>3 DEF Verifies, Answered, NoRedeem
  <2>5. redeem' = [q \in Redeemers |-> redeem'[q]] /\ redeem'[r] = answer /\ \A q \in Redeemers \ {r} : redeem'[q] = redeem[q]
    BY <1>0, <2>2 DEF CredTyped
  <2>6. RedeemersAreOwn'
    BY <1>0, <2>4, <2>5 DEF RedeemersAreOwn
  <2>7. CredTyped'
    BY <1>0, <2>1, <2>5 DEF CredTyped
  <2> QED  BY <1>0, <2>1, <2>6, <2>7 DEF CredInv, StartedTogether, AsksInTime, AnswersAreFresh, Fresh,
    NoneOnRecord, OpenIsUnclean,
   SettledIsForgotten, RecordsAreOwn, EnvIsOwn, PatsAreRecorded, NoPatOutlivesLease, TokenLeavesOnce,
   CredSettled
<1>16. ASSUME NEW r \in Redeemers, RedeemTake(r) PROVE CredInv'
  <2>1. PICK l : l = redeem[r].lease
    OBVIOUS
  <2>2. redeem[r].at = "take" /\ UNCHANGED <<credNow, life, issue, patIds, boxEnv>> /\ l \in CredLeases /\ redeem[r].holder = l
    BY <1>0, <1>16, <2>1 DEF RedeemTake, RedeemersAreOwn
  <2>3. PICK status \in {"ok", "gone"} : redeem' = [redeem EXCEPT ![r] = Answered(status)]
    BY <1>16 DEF RedeemTake
  <2>4. Answered(status).at = status
    BY DEF Answered, NoRedeem
  <2>5. /\ redeem' = [q \in Redeemers |-> redeem'[q]] /\ redeem'[r] = Answered(status)
        /\ \A q \in Redeemers \ {r} : redeem'[q] = redeem[q]
    BY <1>0, <2>3 DEF CredTyped
  <2>6. RedeemersAreOwn'
    BY <1>0, <2>4, <2>5 DEF RedeemersAreOwn
  <2>7. CASE l \notin DOMAIN pendingCred
    <3>1. UNCHANGED <<pats, pendingCred>>
      BY <1>16, <2>1, <2>7 DEF RedeemTake
    <3>2. CredTyped'
      BY <1>0, <2>2, <2>5, <3>1 DEF CredTyped
    <3> QED  BY <1>0, <2>2, <2>6, <3>1, <3>2 DEF CredInv, StartedTogether, AsksInTime, AnswersAreFresh, Fresh,
      NoneOnRecord, OpenIsUnclean,
     SettledIsForgotten, RecordsAreOwn, EnvIsOwn, PatsAreRecorded, NoPatOutlivesLease, TokenLeavesOnce,
   CredSettled
  <2>8. CASE l \in DOMAIN pendingCred
    <3>1. PICK n : n = pendingCred[l]
      OBVIOUS
    <3>2. /\ pats' = [pats EXCEPT ![n].handed = Append(@, l)] /\ pendingCred' = CredDrop(pendingCred, l)
      BY <1>16, <2>1, <2>2, <2>8, <3>1 DEF RedeemTake, TakeCred
    <3>3. /\ n = patIds[l] /\ l \in DOMAIN patIds /\ n \in DOMAIN pats /\ pats[n].lease = l /\ pats[n].accepted
          /\ pats[n].handed = <<>>
      BY <1>0, <2>8, <3>1 DEF RecordsAreOwn
    <3>4. pats \in Seq(PatRecords) /\ pats[n] \in PatRecords
      BY <1>0, <3>3 DEF CredTyped
    <3>5. PICK once : once = Append(pats[n].handed, l)
      OBVIOUS
    <3>6. once \in Seq(CredLeases) /\ Len(once) = 1 /\ \A i \in DOMAIN once : once[i] = l
      <4>1. <<>> \in Seq(CredLeases) /\ Len(<<>>) = 0
        OBVIOUS
      <4>2. PICK none \in Seq(CredLeases) : none = pats[n].handed /\ Len(none) = 0
        BY <3>3, <4>1
      <4>3. once = Append(none, l)
        BY <3>5, <4>2
      <4> QED  BY <2>2, <4>2, <4>3
    <3>7. PICK p : p = [pats[n] EXCEPT !.handed = once]
      OBVIOUS
    <3>8. /\ p \in PatRecords /\ p.lease = l /\ p.drift = pats[n].drift /\ p.expires = pats[n].expires
          /\ p.accepted = pats[n].accepted /\ p.tried = pats[n].tried /\ p.handed = once
      BY <3>3, <3>4, <3>6, <3>7 DEF PatRecords
    <3>9. pats' = [pats EXCEPT ![n] = p]
      BY <3>2, <3>4, <3>5, <3>7
    <3>10. /\ pats' \in Seq(PatRecords) /\ DOMAIN pats' = DOMAIN pats /\ pats'[n] = p
           /\ \A k \in DOMAIN pats \ {n} : pats'[k] = pats[k]
      BY <3>3, <3>4, <3>8, <3>9
    <3>11. DOMAIN pendingCred' = DOMAIN pendingCred \ {l} /\ \A k \in DOMAIN pendingCred' : pendingCred'[k] = pendingCred[k]
      BY <3>2 DEF CredDrop
    <3>12. CredTyped'
      BY <1>0, <2>2, <2>5, <3>10 DEF CredTyped
    <3>13. /\ StartedTogether' /\ AsksInTime' /\ NoneOnRecord' /\ OpenIsUnclean' /\ SettledIsForgotten' /\ EnvIsOwn'
      BY <1>0, <2>2 DEF StartedTogether, AsksInTime, NoneOnRecord, OpenIsUnclean, SettledIsForgotten,
         CredSettled, EnvIsOwn
    <3>14. AnswersAreFresh'
      <4> SUFFICES ASSUME NEW k \in CredLeases, issue'[k].at = "answer" PROVE \E m : Fresh(k, m)'
        BY DEF AnswersAreFresh
      <4>1. PICK m : Fresh(k, m)
        BY <1>0, <2>2 DEF AnswersAreFresh
      <4>2. m # n
        BY <3>3, <4>1 DEF Fresh
      <4>3. Fresh(k, m)'
        BY <3>3, <3>8, <3>10, <4>1, <4>2 DEF Fresh
      <4> QED  BY <4>3
    <3>15. RecordsAreOwn'
      <4>1. \A k \in DOMAIN patIds \ {l} : patIds[k] # n
        BY <1>0, <3>3 DEF RecordsAreOwn
      <4> QED  BY <1>0, <2>2, <3>3, <3>8, <3>10, <3>11, <4>1 DEF RecordsAreOwn
    <3>16. PatsAreRecorded'
      BY <1>0, <2>2, <3>3, <3>8, <3>10 DEF PatsAreRecorded
    <3>17. NoPatOutlivesLease'
      BY <1>0, <2>2, <3>3, <3>8, <3>10 DEF NoPatOutlivesLease
    <3>18. TokenLeavesOnce'
      <4>1. Len(pats'[n].handed) <= 1 /\ \A i \in DOMAIN pats'[n].handed : pats'[n].handed[i] = pats'[n].lease
        <5>1. pats'[n].handed = once /\ pats'[n].lease = l
          BY <3>8, <3>10
        <5>2. Len(once) <= 1 /\ \A i \in DOMAIN once : once[i] = l
          BY <3>6
        <5> QED  BY <5>1, <5>2, Zenon
      <4>2. \A k \in DOMAIN pats \ {n} : /\ Len(pats'[k].handed) <= 1
                                       /\ \A i \in DOMAIN pats'[k].handed : pats'[k].handed[i] = pats'[k].lease
        BY <1>0, <3>10 DEF TokenLeavesOnce
      <4> QED  BY <3>10, <4>1, <4>2 DEF TokenLeavesOnce
    <3> QED  BY <2>6, <3>12, <3>13, <3>14, <3>15, <3>16, <3>17, <3>18 DEF CredInv
  <2> QED  BY <2>7, <2>8
<1>20. CASE CredTick
  <2>1. credNow' \in Nat /\ UNCHANGED <<life, issue, pats, patIds, pendingCred, boxEnv, redeem>>
    BY <1>0, <1>20 DEF CredTick, CredTyped
  <2> QED  BY <1>0, <2>1 DEF CredInv, CredTyped, StartedTogether, AsksInTime, AnswersAreFresh, Fresh,
    NoneOnRecord, OpenIsUnclean,
   SettledIsForgotten, RecordsAreOwn, EnvIsOwn, RedeemersAreOwn, PatsAreRecorded, NoPatOutlivesLease, TokenLeavesOnce,
   CredSettled
<1>21. CASE UNCHANGED credVars
  BY <1>0, <1>21 DEF credVars, CredInv, CredTyped, StartedTogether, AsksInTime, AnswersAreFresh, Fresh,
     NoneOnRecord, OpenIsUnclean,
   SettledIsForgotten, RecordsAreOwn, EnvIsOwn, RedeemersAreOwn, PatsAreRecorded, NoPatOutlivesLease, TokenLeavesOnce,
   CredSettled
<1> QED  BY <1>1, <1>2, <1>3, <1>4, <1>5, <1>6, <1>7, <1>8, <1>9, <1>10, <1>11, <1>12, <1>13, <1>14, <1>15,
  <1>16,
            <1>20, <1>21 DEF CredNext

(* The invariant of the credentials, for any leases and redeemers and any     *)
(* bounds on TTL, margin and drift.                                           *)
THEOREM CredInvariance == CredSpec => []CredInv
BY CredStarts, CredKeeps, PTL DEF CredSpec

(* No PAT is valid past its lease, none is handed out twice or to another     *)
(* lease, and a lease that is over leaves no secret behind.                   *)
THEOREM CredentialsAlwaysDieWithTheLease == CredSpec => []CredentialsDieWithTheLease
BY CredInvariance, CredSafe, PTL

--------------------------------------------------------------------------------
(* Slot metering and its two ways out *)

(* The values of the journal and of the push. *)
SlotEvent == [slot : Slots, kind : {"Acquired", "Ended"}, at : Int]
UsageEvent == [key : Slots, qty : Int]

(* Types, as far as the arithmetic needs them. *)
BillTypes ==
  /\ slot \in [Slots -> [state : {"none", "held", "ended"}, acquired : Int]]
  /\ clock \in Int
  /\ meter.total \in Nat /\ meter.dropped \in Nat
  /\ journal \in Seq(SlotEvent)
  /\ export \in [at : {"idle", "persist", "drain"}, events : Seq(SlotEvent), watermark : Nat]
  /\ open \in [DOMAIN open -> Int]
  /\ buffer \in Seq(UsageEvent)
  /\ flush \in [at : {"idle", "post", "acked"}, batch : Seq(UsageEvent)]
  /\ tapped \in [usage : SUBSET UsageEvent, events : SUBSET SlotEvent, evicted : SUBSET SlotEvent]

(* A slot is acquired once and ends once, so an event that is recorded is new. *)
EventsAreNew ==
  \A e \in tapped.events :
    /\ e.kind = "Acquired" => slot[e.slot].state # "none"
    /\ e.kind = "Ended" => slot[e.slot].state = "ended"

(* The journal holds different events that were recorded and not evicted, and *)
(* the evicted ones are counted.                                              *)
JournalFits ==
  /\ Len(journal) <= meter.total
  /\ \A i \in 1..Len(journal) : journal[i] \in tapped.events \ tapped.evicted
  /\ \A i, j \in 1..Len(journal) : journal[i] = journal[j] => i = j
  /\ tapped.evicted \subseteq tapped.events
  /\ IsFiniteSet(tapped.evicted) /\ Cardinality(tapped.evicted) = meter.dropped

(* The number of the event before the journal's first, and before that of the *)
(* export's copy: an event keeps its number while the journal moves.          *)
JournalBase == meter.total - Len(journal)
CopyBase == export.watermark - Len(export.events)

(* What the journal still holds of the copy stands in both under one number,  *)
(* and once the copy is written the table has its keys.                       *)
CopyFits ==
  export.at # "idle" =>
    /\ CopyBase <= JournalBase /\ export.watermark <= meter.total
    /\ \A i \in 1..Len(journal) : JournalBase + i <= export.watermark => journal[i] = export.events[JournalBase + i - CopyBase]
    /\ export.at = "drain" => \A i \in 1..Len(export.events) : EventKey(export.events[i]) \in billedEvents

(* Every event is where NoEventLostSilently says. *)
EventsKept ==
  \A e \in tapped.events \ tapped.evicted :
    (\E i \in 1..Len(journal) : journal[i] = e) \/ EventKey(e) \in billedEvents

(* A batch that was acknowledged is charged, and usage is where               *)
(* UsageIsPostedOrShed says.                                                  *)
UsageKept ==
  /\ flush.at = "acked" => \A i \in 1..Len(flush.batch) : flush.batch[i].key \in DOMAIN charged
  /\ \A u \in tapped.usage : (\E i \in 1..Len(buffer) : buffer[i] = u) \/ u \in shed \/ u.key \in DOMAIN charged

(* The inductive invariant of the two ways out. *)
BillInv == BillTypes /\ EventsAreNew /\ JournalFits /\ CopyFits /\ EventsKept /\ UsageKept

(* What the range of a sequence is. *)
LEMMA InRange ==
  ASSUME NEW S, NEW s \in Seq(S), NEW i \in 1..Len(s)
  PROVE  s[i] \in Range(s)
  BY DEF Range

(* ... and every element of it has a place. *)
LEMMA RangeIndexed ==
  ASSUME NEW S, NEW s \in Seq(S), NEW e \in Range(s)
  PROVE  \E i \in 1..Len(s) : s[i] = e
  BY DEF Range

(* A sequence that grows, and one whose head makes room at its end. *)
LEMMA AppendIs ==
  ASSUME NEW S, NEW s \in Seq(S), NEW x \in S
  PROVE  /\ Append(s, x) \in Seq(S) /\ Len(Append(s, x)) = Len(s) + 1
         /\ \A i \in 1..Len(s) : Append(s, x)[i] = s[i]
         /\ Append(s, x)[Len(s) + 1] = x
  OBVIOUS

(* At the cap everything moves down by one. *)
LEMMA ShiftIs ==
  ASSUME NEW S, NEW s \in Seq(S), NEW x \in S, Len(s) > 0
  PROVE  /\ Append(Tail(s), x) \in Seq(S) /\ Len(Append(Tail(s), x)) = Len(s)
         /\ \A i \in 1..(Len(s) - 1) : Append(Tail(s), x)[i] = s[i + 1]
         /\ Append(Tail(s), x)[Len(s)] = x
         /\ Head(s) = s[1] /\ s[1] \in S
<1>1. s # <<>> /\ Tail(s) \in Seq(S) /\ Len(Tail(s)) = Len(s) - 1 /\ Head(s) = s[1] /\ s[1] \in S
  OBVIOUS
<1>2. \A i \in 1..(Len(s) - 1) : Tail(s)[i] = s[i + 1]
  BY <1>1
<1>3. PICK t \in Seq(S) : t = Tail(s)
  BY <1>1
<1> QED  BY <1>1, <1>2, <1>3, AppendIs

(* At first nothing is recorded. *)
LEMMA BillStarts == BillInit => BillInv
<1> SUFFICES ASSUME BillInit PROVE BillInv
  OBVIOUS
<1> USE DEF BillInit, NoExport, NoFlush, NoMeter, NoTaps
<1>1. BillTypes
  BY DEF BillTypes
<1>2. JournalFits
  BY FS_EmptySet DEF JournalFits
<1> QED  BY <1>1, <1>2 DEF BillInv, EventsAreNew, CopyFits, EventsKept, UsageKept

(* SlotMeter::record of a new event keeps the journal in step with the copy:  *)
(* at the cap everything moves down by one and so does its number.            *)
LEMMA RecordKeeps ==
  ASSUME BillInv, NEW event \in SlotEvent, event \notin tapped.events, Record(event),
         tapped'.events = tapped.events \cup {event},
         tapped'.evicted = tapped.evicted \cup Evicted,
         UNCHANGED <<billedEvents, export>>
  PROVE  /\ journal' \in Seq(SlotEvent) /\ meter'.total \in Nat /\ meter'.dropped \in Nat
         /\ Evicted \subseteq SlotEvent
         /\ JournalFits' /\ CopyFits' /\ EventsKept'
<1> USE BillingAssumption
<1>1. BillTypes /\ JournalFits /\ CopyFits /\ EventsKept
  BY DEF BillInv
<1> DEFINE full == Len(journal) >= JournalCap
<1>2. full \in BOOLEAN /\ (full => Len(journal) > 0) /\ journal \in Seq(SlotEvent) /\ Len(journal) \in Nat
  BY <1>1 DEF BillTypes
<1>3. journal' = Append(IF full THEN Tail(journal) ELSE journal, event)
  BY DEF Record
<1>4. meter'.total = meter.total + 1 /\ meter'.dropped = IF full THEN meter.dropped + 1 ELSE meter.dropped
  BY DEF Record
<1>5. Evicted = IF full THEN {journal[1]} ELSE {}
  BY <1>2 DEF Evicted
<1>7. CASE full
  <2>1. /\ journal' \in Seq(SlotEvent) /\ Len(journal') = Len(journal)
        /\ \A i \in 1..(Len(journal) - 1) : journal'[i] = journal[i + 1]
        /\ journal'[Len(journal)] = event
    BY <1>2, <1>3, <1>7, ShiftIs
  <2>2. Evicted = {journal[1]} /\ 1 \in 1..Len(journal) /\ journal[1] \in SlotEvent
    BY <1>2, <1>5, <1>7
  <2>3. journal[1] \in tapped.events \ tapped.evicted /\ event \notin tapped'.evicted
    BY <1>1, <2>2 DEF JournalFits
  <2>4. meter'.total = meter.total + 1 /\ meter'.dropped = meter.dropped + 1 /\ meter.total \in Nat
        /\ meter.dropped \in Nat
    BY <1>1, <1>4, <1>7 DEF BillTypes
  <2>5. Cardinality(tapped'.evicted) = meter'.dropped /\ IsFiniteSet(tapped'.evicted)
    BY <1>1, <2>2, <2>3, <2>4, FS_AddElement DEF JournalFits
  <2>6. \A i \in 1..Len(journal') : journal'[i] \in tapped'.events \ tapped'.evicted
    BY <1>1, <1>2, <2>1, <2>2, <2>3 DEF JournalFits
  <2>7. ASSUME NEW i \in 1..Len(journal'), NEW j \in 1..Len(journal'), journal'[i] = journal'[j] PROVE i = j
    <3>1. \A k \in 1..(Len(journal) - 1) : journal'[k] = journal[k + 1] /\ k + 1 \in 1..Len(journal)
      BY <1>2, <2>1
    <3>2. \A k \in 1..(Len(journal) - 1) : journal'[k] # event
      BY <1>1, <3>1 DEF JournalFits
    <3>3. CASE i = Len(journal) \/ j = Len(journal)
      BY <1>2, <2>1, <2>7, <3>2, <3>3
    <3>4. CASE i # Len(journal) /\ j # Len(journal)
      <4>1. i \in 1..(Len(journal) - 1) /\ j \in 1..(Len(journal) - 1)
        BY <1>2, <2>1, <3>4
      <4>2. journal[i + 1] = journal[j + 1] /\ i + 1 \in 1..Len(journal) /\ j + 1 \in 1..Len(journal)
        BY <2>7, <3>1, <4>1
      <4>3. i + 1 = j + 1
        BY <1>1, <4>2 DEF JournalFits
      <4> QED  BY <4>1, <4>3
    <3> QED  BY <3>3, <3>4
  <2>8. JournalFits'
    BY <1>1, <1>2, <2>1, <2>2, <2>3, <2>4, <2>5, <2>6, <2>7 DEF JournalFits
  <2>9. CopyFits'
    <3> SUFFICES ASSUME export'.at # "idle" PROVE CopyFits'
      BY DEF CopyFits
    <3>1. /\ CopyBase <= JournalBase /\ export.watermark <= meter.total
          /\ \A i \in 1..Len(journal) : JournalBase + i <= export.watermark => journal[i] = export.events[JournalBase + i - CopyBase]
      BY <1>1 DEF CopyFits
    <3>2. CopyBase' = CopyBase /\ JournalBase' = JournalBase + 1 /\ CopyBase \in Int /\ JournalBase \in Int /\ export.watermark \in Nat
      <4>1. export.events \in Seq(SlotEvent) /\ Len(export.events) \in Nat /\ export.watermark \in Nat
        BY <1>1 DEF BillTypes
      <4>2. CopyBase' = CopyBase /\ CopyBase \in Int
        BY <4>1 DEF CopyBase
      <4>3. JournalBase' = meter'.total - Len(journal') /\ JournalBase = meter.total - Len(journal)
        BY DEF JournalBase
      <4>4. PICK n \in Nat, m \in Nat : n = Len(journal) /\ m = meter.total
        BY <1>2, <2>4
      <4>5. Len(journal') = n /\ meter'.total = m + 1
        BY <2>1, <2>4, <4>4
      <4>6. JournalBase' = JournalBase + 1 /\ JournalBase \in Int
        BY <4>3, <4>4, <4>5
      <4> QED  BY <4>1, <4>2, <4>6
    <3>3. ASSUME NEW i \in 1..Len(journal'), JournalBase' + i <= export'.watermark
          PROVE  journal'[i] = export'.events[JournalBase' + i - CopyBase']
      <4>1. i # Len(journal)
        BY <1>2, <2>1, <2>4, <3>1, <3>2, <3>3 DEF JournalBase
      <4>2. i + 1 \in 1..Len(journal) /\ journal'[i] = journal[i + 1]
        BY <1>2, <2>1, <4>1
      <4>3. JournalBase + (i + 1) <= export.watermark /\ JournalBase + (i + 1) - CopyBase = JournalBase' + i - CopyBase'
        BY <3>2, <3>3
      <4> QED  BY <3>1, <4>2, <4>3
    <3>4. CopyBase' <= JournalBase' /\ export'.watermark <= meter'.total
      BY <2>4, <3>1, <3>2
    <3>5. export.at = "drain" => \A i \in 1..Len(export.events) : EventKey(export.events[i]) \in billedEvents
      BY <1>1 DEF CopyFits
    <3> QED
      BY <3>3, <3>4, <3>5 DEF CopyFits, EventKey
  <2>10. EventsKept'
    <3> SUFFICES ASSUME NEW e \in tapped'.events \ tapped'.evicted, EventKey(e) \notin billedEvents'
                 PROVE  \E i \in 1..Len(journal') : journal'[i] = e
      BY DEF EventsKept, EventKey
    <3>1. CASE e = event
      BY <1>2, <1>7, <2>1, <3>1
    <3>2. CASE e # event
      <4>1. PICK i \in 1..Len(journal) : journal[i] = e
        BY <1>1, <3>2 DEF EventsKept
      <4>2. i # 1
        BY <2>2, <4>1
      <4>3. i - 1 \in 1..(Len(journal) - 1) /\ journal'[i - 1] = e
        BY <1>2, <2>1, <4>1, <4>2
      <4> QED  BY <1>2, <2>1, <4>3
    <3> QED  BY <3>1, <3>2
  <2> QED  BY <2>1, <2>2, <2>4, <2>8, <2>9, <2>10
<1>8. CASE ~full
  <2>1. /\ journal' \in Seq(SlotEvent) /\ Len(journal') = Len(journal) + 1
        /\ \A i \in 1..Len(journal) : journal'[i] = journal[i]
        /\ journal'[Len(journal) + 1] = event
    BY <1>2, <1>3, <1>8, AppendIs
  <2>2. Evicted = {} /\ tapped'.evicted = tapped.evicted
    BY <1>5, <1>8
  <2>4. meter'.total = meter.total + 1 /\ meter'.dropped = meter.dropped /\ meter.total \in Nat
        /\ meter.dropped \in Nat
    BY <1>1, <1>4, <1>8 DEF BillTypes
  <2>6. \A i \in 1..Len(journal') : journal'[i] \in tapped'.events \ tapped'.evicted
    BY <1>1, <1>2, <2>1, <2>2 DEF JournalFits
  <2>7. ASSUME NEW i \in 1..Len(journal'), NEW j \in 1..Len(journal'), journal'[i] = journal'[j] PROVE i = j
    BY <1>1, <1>2, <2>1, <2>7 DEF JournalFits
  <2>8. JournalFits'
    BY <1>1, <1>2, <2>1, <2>2, <2>4, <2>6, <2>7 DEF JournalFits
  <2>9. CopyFits'
    <3> SUFFICES ASSUME export'.at # "idle" PROVE CopyFits'
      BY DEF CopyFits
    <3>1. /\ CopyBase <= JournalBase /\ export.watermark <= meter.total
          /\ \A i \in 1..Len(journal) : JournalBase + i <= export.watermark => journal[i] = export.events[JournalBase + i - CopyBase]
      BY <1>1 DEF CopyFits
    <3>2. CopyBase' = CopyBase /\ JournalBase' = JournalBase /\ CopyBase \in Int /\ JournalBase \in Int /\ export.watermark \in Nat
      <4>1. export.events \in Seq(SlotEvent) /\ Len(export.events) \in Nat /\ export.watermark \in Nat
        BY <1>1 DEF BillTypes
      <4> QED  BY <1>2, <2>1, <2>4, <4>1 DEF CopyBase, JournalBase
    <3>3. ASSUME NEW i \in 1..Len(journal'), JournalBase' + i <= export'.watermark
          PROVE  journal'[i] = export'.events[JournalBase' + i - CopyBase']
      <4>1. i # Len(journal) + 1
        BY <1>2, <2>1, <2>4, <3>1, <3>2, <3>3 DEF JournalBase
      <4>2. i \in 1..Len(journal) /\ journal'[i] = journal[i]
        BY <1>2, <2>1, <4>1
      <4> QED  BY <3>1, <3>2, <3>3, <4>2
    <3>4. CopyBase' <= JournalBase' /\ export'.watermark <= meter'.total
      BY <2>4, <3>1, <3>2
    <3>5. export.at = "drain" => \A i \in 1..Len(export.events) : EventKey(export.events[i]) \in billedEvents
      BY <1>1 DEF CopyFits
    <3> QED
      BY <3>3, <3>4, <3>5 DEF CopyFits, EventKey
  <2>10. EventsKept'
    <3> SUFFICES ASSUME NEW e \in tapped'.events \ tapped'.evicted, EventKey(e) \notin billedEvents'
                 PROVE  \E i \in 1..Len(journal') : journal'[i] = e
      BY DEF EventsKept, EventKey
    <3>1. CASE e = event
      BY <1>2, <1>8, <2>1, <3>1
    <3>2. CASE e # event
      <4>1. PICK i \in 1..Len(journal) : journal[i] = e
        BY <1>1, <2>2, <3>2 DEF EventsKept
      <4> QED  BY <1>2, <2>1, <4>1
    <3> QED  BY <3>1, <3>2
  <2> QED  BY <2>1, <2>2, <2>4, <2>8, <2>9, <2>10
<1> QED  BY <1>7, <1>8

(* The Acquired event of a slot. *)
LEMMA SlotAcquiredKeeps ==
  ASSUME BillInv, NEW s \in Slots, SlotAcquired(s)
  PROVE  BillInv'
<1> DEFINE event == [slot |-> s, kind |-> "Acquired", at |-> clock]
<1>1. BillTypes /\ EventsAreNew /\ UsageKept
  BY DEF BillInv
<1>2. /\ slot[s].state = "none" /\ slot' = [slot EXCEPT ![s] = [state |-> "held", acquired |-> clock]]
      /\ Record(event)
      /\ open' = [o \in DOMAIN open \cup {s} |-> IF o = s THEN clock ELSE open[o]]
      /\ tapped' = [tapped EXCEPT !.events = @ \cup {event}, !.evicted = @ \cup Evicted]
      /\ UNCHANGED <<clock, billedEvents, export, buffer, flush, charged, shed, restarts>>
  BY DEF SlotAcquired
<1>3. event \in SlotEvent /\ event.kind = "Acquired" /\ event.slot = s
  BY <1>1 DEF BillTypes, SlotEvent
<1> HIDE DEF event
<1>4. event \notin tapped.events
  BY <1>1, <1>2, <1>3 DEF EventsAreNew
<1>5. /\ tapped'.events = tapped.events \cup {event} /\ tapped'.evicted = tapped.evicted \cup Evicted
      /\ tapped'.usage = tapped.usage
  BY <1>1, <1>2 DEF BillTypes
<1>6. /\ journal' \in Seq(SlotEvent) /\ meter'.total \in Nat /\ meter'.dropped \in Nat
      /\ Evicted \subseteq SlotEvent
      /\ JournalFits' /\ CopyFits' /\ EventsKept'
  BY <1>2, <1>3, <1>4, <1>5, RecordKeeps
<1>7. slot' \in [Slots -> [state : {"none", "held", "ended"}, acquired : Int]]
  BY <1>1, <1>2 DEF BillTypes
<1>8. open' \in [DOMAIN open' -> Int]
  BY <1>1, <1>2 DEF BillTypes
<1>9. tapped' \in [usage : SUBSET UsageEvent, events : SUBSET SlotEvent, evicted : SUBSET SlotEvent]
  BY <1>1, <1>2, <1>3, <1>6 DEF BillTypes
<1>10. BillTypes'
  BY <1>1, <1>2, <1>6, <1>7, <1>8, <1>9 DEF BillTypes
<1>11. EventsAreNew'
  <2> SUFFICES ASSUME NEW e \in tapped'.events
               PROVE  /\ e.kind = "Acquired" => slot'[e.slot].state # "none"
                      /\ e.kind = "Ended" => slot'[e.slot].state = "ended"
    BY DEF EventsAreNew
  <2>1. CASE e = event
    BY <1>1, <1>2, <1>3, <2>1 DEF BillTypes
  <2>2. CASE e # event
    <3>1. e \in tapped.events /\ e.slot \in Slots
      BY <1>1, <1>5, <2>2 DEF BillTypes, SlotEvent
    <3> QED  BY <1>1, <1>2, <3>1 DEF BillTypes, EventsAreNew
  <2> QED  BY <2>1, <2>2
<1>12. UsageKept'
  BY <1>1, <1>2, <1>5 DEF UsageKept
<1> QED  BY <1>6, <1>10, <1>11, <1>12 DEF BillInv

(* The terminal event, and the usage that is buffered for the push. *)
LEMMA SlotEndsKeeps ==
  ASSUME BillInv, NEW s \in Slots, SlotEnds(s)
  PROVE  BillInv'
<1> DEFINE event == [slot |-> s, kind |-> "Ended", at |-> clock]
           used == Usage(s, AcquireTime(s))
           full == Len(buffer) >= BufferCap
<1>1. BillTypes /\ EventsAreNew /\ UsageKept
  BY DEF BillInv
<1>2. /\ slot[s].state = "held" /\ slot' = [slot EXCEPT ![s].state = "ended"]
      /\ Record(event)
      /\ open' = [o \in DOMAIN open \ {s} |-> open[o]]
      /\ buffer' = Append(IF full THEN Tail(buffer) ELSE buffer, used)
      /\ shed' = IF full THEN shed \cup {Head(buffer)} ELSE shed
      /\ tapped' = [usage |-> tapped.usage \cup {used}, events |-> tapped.events \cup {event},
                    evicted |-> tapped.evicted \cup Evicted]
      /\ UNCHANGED <<clock, billedEvents, export, flush, charged, restarts>>
  BY DEF SlotEnds
<1>3. event \in SlotEvent /\ event.kind = "Ended" /\ event.slot = s
  BY <1>1 DEF BillTypes, SlotEvent
<1>4. used \in UsageEvent
  <2>1. AcquireTime(s) \in Int
    BY <1>1 DEF AcquireTime, BillTypes
  <2> QED  BY <1>1, <2>1 DEF Usage, UsageEvent, IdemKey, BillTypes
<1> HIDE DEF event, used
<1>5. event \notin tapped.events
  BY <1>1, <1>2, <1>3 DEF EventsAreNew
<1>6. /\ tapped'.events = tapped.events \cup {event} /\ tapped'.evicted = tapped.evicted \cup Evicted
      /\ tapped'.usage = tapped.usage \cup {used}
  BY <1>2
<1>7. /\ journal' \in Seq(SlotEvent) /\ meter'.total \in Nat /\ meter'.dropped \in Nat
      /\ Evicted \subseteq SlotEvent
      /\ JournalFits' /\ CopyFits' /\ EventsKept'
  BY <1>2, <1>3, <1>5, <1>6, RecordKeeps
<1>8. slot' \in [Slots -> [state : {"none", "held", "ended"}, acquired : Int]]
  BY <1>1, <1>2 DEF BillTypes
<1>9. open' \in [DOMAIN open' -> Int]
  BY <1>1, <1>2 DEF BillTypes
<1>10. tapped' \in [usage : SUBSET UsageEvent, events : SUBSET SlotEvent, evicted : SUBSET SlotEvent]
  BY <1>1, <1>2, <1>3, <1>4, <1>7 DEF BillTypes
<1>11. /\ buffer' \in Seq(UsageEvent)
       /\ \A u : (\E i \in 1..Len(buffer) : buffer[i] = u) => (\E i \in 1..Len(buffer') : buffer'[i] = u) \/ u \in shed'
       /\ \E i \in 1..Len(buffer') : buffer'[i] = used
       /\ shed \subseteq shed'
  <2>1. buffer \in Seq(UsageEvent) /\ Len(buffer) \in Nat
    BY <1>1 DEF BillTypes
  <2>2. CASE full
    <3>1. Len(buffer) > 0
      BY <2>1, <2>2, BillingAssumption
    <3>2. /\ buffer' \in Seq(UsageEvent) /\ Len(buffer') = Len(buffer)
          /\ \A i \in 1..(Len(buffer) - 1) : buffer'[i] = buffer[i + 1]
          /\ buffer'[Len(buffer)] = used /\ Head(buffer) = buffer[1]
      BY <1>2, <1>4, <2>1, <2>2, <3>1, ShiftIs
    <3>3. shed' = shed \cup {buffer[1]}
      BY <1>2, <2>2, <3>2
    <3>4. ASSUME NEW i \in 1..Len(buffer), i # 1 PROVE i - 1 \in 1..Len(buffer') /\ buffer'[i - 1] = buffer[i]
      BY <2>1, <3>2, <3>4
    <3>5. Len(buffer) \in 1..Len(buffer')
      BY <2>1, <3>1, <3>2
    <3> QED  BY <3>2, <3>3, <3>4, <3>5
  <2>3. CASE ~full
    <3>1. /\ buffer' \in Seq(UsageEvent) /\ Len(buffer') = Len(buffer) + 1
          /\ \A i \in 1..Len(buffer) : buffer'[i] = buffer[i]
          /\ buffer'[Len(buffer) + 1] = used
      BY <1>2, <1>4, <2>1, <2>3, AppendIs
    <3>2. shed' = shed /\ Len(buffer) + 1 \in 1..Len(buffer') /\ 1..Len(buffer) \subseteq 1..Len(buffer')
      BY <1>2, <2>1, <2>3, <3>1
    <3> QED  BY <3>1, <3>2
  <2> QED  BY <2>2, <2>3
<1>12. BillTypes'
  BY <1>1, <1>2, <1>7, <1>8, <1>9, <1>10, <1>11 DEF BillTypes
<1>13. EventsAreNew'
  <2> SUFFICES ASSUME NEW e \in tapped'.events
               PROVE  /\ e.kind = "Acquired" => slot'[e.slot].state # "none"
                      /\ e.kind = "Ended" => slot'[e.slot].state = "ended"
    BY DEF EventsAreNew
  <2>1. CASE e = event
    BY <1>1, <1>2, <1>3, <2>1 DEF BillTypes
  <2>2. CASE e # event
    <3>1. e \in tapped.events /\ e.slot \in Slots
      BY <1>1, <1>6, <2>2 DEF BillTypes, SlotEvent
    <3> QED  BY <1>1, <1>2, <3>1 DEF BillTypes, EventsAreNew
  <2> QED  BY <2>1, <2>2
<1>14. UsageKept'
  <2>1. flush'.at = "acked" => \A i \in 1..Len(flush'.batch) : flush'.batch[i].key \in DOMAIN charged'
    BY <1>1, <1>2 DEF UsageKept
  <2>2. ASSUME NEW u \in tapped'.usage
        PROVE  (\E i \in 1..Len(buffer') : buffer'[i] = u) \/ u \in shed' \/ u.key \in DOMAIN charged'
    <3>1. CASE u = used
      BY <1>11, <3>1
    <3>2. CASE u # used
      <4>1. (\E i \in 1..Len(buffer) : buffer[i] = u) \/ u \in shed \/ u.key \in DOMAIN charged
        BY <1>1, <1>6, <3>2 DEF UsageKept
      <4> QED  BY <1>2, <1>11, <4>1
    <3> QED  BY <3>1, <3>2
  <2> QED  BY <2>1, <2>2 DEF UsageKept
<1> QED  BY <1>7, <1>12, <1>13, <1>14 DEF BillInv

(* The export copies the journal: the copy and the journal agree. *)
LEMMA SnapshotKeeps == BillInv /\ Snapshot => BillInv'
<1> SUFFICES ASSUME BillInv, Snapshot PROVE BillInv'
  OBVIOUS
<1>1. /\ export' = [at |-> "persist", events |-> journal, watermark |-> meter.total]
      /\ UNCHANGED <<clock, slot, meter, journal, billedEvents, open, buffer, flush, charged, shed, tapped, restarts>>
  BY DEF Snapshot, pushVars
<1>2. BillTypes /\ EventsAreNew /\ JournalFits /\ EventsKept /\ UsageKept
  BY DEF BillInv
<1>3. BillTypes' /\ EventsAreNew' /\ UsageKept'
  BY <1>1, <1>2 DEF BillTypes, EventsAreNew, UsageKept
<1>4. JournalFits' /\ EventsKept'
  BY <1>1, <1>2 DEF JournalFits, EventsKept, EventKey
<1>5. CopyFits'
  <2>1. JournalBase' = CopyBase' /\ CopyBase' \in Int /\ export'.watermark = meter'.total /\ meter'.total \in Nat
    BY <1>1, <1>2 DEF JournalBase, CopyBase, BillTypes
  <2>2. ASSUME NEW i \in 1..Len(journal') PROVE JournalBase' + i - CopyBase' = i
    <3>1. PICK b \in Int : b = CopyBase' /\ b = JournalBase'
      BY <2>1
    <3>2. b + i - b = i
      OBVIOUS
    <3> QED  BY <3>1, <3>2
  <2> QED  BY <1>1, <2>1, <2>2 DEF CopyFits
<1> QED  BY <1>3, <1>4, <1>5 DEF BillInv

(* The copy is written, with or without an answer, or is not. *)
LEMMA PersistKeeps == BillInv /\ Persist => BillInv'
<1> SUFFICES ASSUME BillInv, Persist PROVE BillInv'
  OBVIOUS
<1>1. /\ UNCHANGED <<clock, slot, meter, journal, open, buffer, flush, charged, shed, tapped, restarts>>
      /\ export.at = "persist"
      /\ \/ billedEvents' = Upserted(export.events) /\ export' = [export EXCEPT !.at = "drain"]
         \/ billedEvents' = Upserted(export.events) /\ export' = NoExport
         \/ billedEvents' = billedEvents /\ export' = NoExport
  BY DEF Persist, pushVars
<1>2. BillTypes /\ EventsAreNew /\ JournalFits /\ CopyFits /\ EventsKept /\ UsageKept
  BY DEF BillInv
<1>3. export' \in [at : {"idle", "persist", "drain"}, events : Seq(SlotEvent), watermark : Nat]
  <2>1. NoExport \in [at : {"idle", "persist", "drain"}, events : Seq(SlotEvent), watermark : Nat]
    BY DEF NoExport
  <2>2. [export EXCEPT !.at = "drain"] \in [at : {"idle", "persist", "drain"}, events : Seq(SlotEvent), watermark : Nat]
    BY <1>2 DEF BillTypes
  <2> QED  BY <1>1, <2>1, <2>2
<1>4. BillTypes' /\ EventsAreNew' /\ UsageKept' /\ JournalFits'
  BY <1>1, <1>2, <1>3 DEF BillTypes, EventsAreNew, UsageKept, JournalFits
<1>5. billedEvents \subseteq billedEvents'
  BY <1>1 DEF Upserted
<1>6. EventsKept'
  <2> SUFFICES ASSUME NEW e \in tapped'.events \ tapped'.evicted, EventKey(e) \notin billedEvents'
               PROVE  \E i \in 1..Len(journal') : journal'[i] = e
    BY DEF EventsKept, EventKey
  <2> QED  BY <1>1, <1>2, <1>5 DEF EventsKept
<1>7. CASE export' = NoExport
  BY <1>4, <1>6, <1>7 DEF CopyFits, NoExport, BillInv
<1>8. CASE billedEvents' = Upserted(export.events) /\ export' = [export EXCEPT !.at = "drain"]
  <2>1. export'.events = export.events /\ export'.watermark = export.watermark /\ export.events \in Seq(SlotEvent)
    BY <1>2, <1>8 DEF BillTypes
  <2>2. ASSUME NEW i \in 1..Len(export'.events) PROVE EventKey(export'.events[i]) \in billedEvents'
    <3>1. export.events[i] \in Range(export.events)
      BY <2>1, <2>2, InRange
    <3> QED  BY <1>8, <2>1, <3>1 DEF Upserted
  <2>3. CopyBase' = CopyBase /\ JournalBase' = JournalBase
    BY <1>1, <2>1 DEF CopyBase, JournalBase
  <2>4. CopyFits'
    BY <1>1, <1>2, <2>1, <2>2, <2>3 DEF CopyFits, EventKey
  <2> QED  BY <1>4, <1>6, <2>4 DEF BillInv
<1> QED  BY <1>1, <1>7, <1>8

(* What drain_through removes was copied, and the copy was written. *)
LEMMA DrainKeeps == BillInv /\ Drain => BillInv'
<1> SUFFICES ASSUME BillInv, Drain PROVE BillInv'
  OBVIOUS
<1> DEFINE k == MaxOf(export.watermark - JournalBase, 0)
<1>1. /\ UNCHANGED <<clock, slot, meter, billedEvents, open, buffer, flush, charged, shed, tapped, restarts>>
      /\ export.at = "drain" /\ export' = NoExport /\ journal' = SubSeq(journal, k + 1, Len(journal))
  BY DEF Drain, Drained, JournalBase, pushVars
<1>2. BillTypes /\ EventsAreNew /\ JournalFits /\ CopyFits /\ EventsKept /\ UsageKept
  BY DEF BillInv
<1>3. /\ journal \in Seq(SlotEvent) /\ Len(journal) \in Nat /\ export.events \in Seq(SlotEvent)
      /\ Len(export.events) \in Nat /\ export.watermark \in Nat /\ meter.total \in Nat
  BY <1>2 DEF BillTypes
<1>4. JournalBase \in Int /\ CopyBase \in Int /\ CopyBase <= JournalBase /\ export.watermark <= meter.total
  BY <1>1, <1>2, <1>3 DEF CopyFits, JournalBase, CopyBase
<1>5. k \in 0..Len(journal) /\ \A i \in 1..k : JournalBase + i <= export.watermark
  BY <1>2, <1>3, <1>4 DEF MaxOf, JournalBase, JournalFits
<1> HIDE DEF k
<1>6. /\ journal' \in Seq(SlotEvent) /\ Len(journal') = Len(journal) - k
      /\ \A i \in 1..(Len(journal) - k) : journal'[i] = journal[i + k]
  BY <1>1, <1>3, <1>5
<1>7. export' \in [at : {"idle", "persist", "drain"}, events : Seq(SlotEvent), watermark : Nat]
  BY <1>1 DEF NoExport
<1>8. BillTypes' /\ EventsAreNew' /\ UsageKept' /\ CopyFits'
  BY <1>1, <1>2, <1>6, <1>7 DEF BillTypes, EventsAreNew, UsageKept, CopyFits, NoExport
<1>9. JournalFits'
  <2>1. \A i \in 1..Len(journal') : i + k \in 1..Len(journal) /\ journal'[i] = journal[i + k]
    BY <1>3, <1>5, <1>6
  <2>2. ASSUME NEW i \in 1..Len(journal'), NEW j \in 1..Len(journal'), journal'[i] = journal'[j] PROVE i = j
    <3>1. i + k = j + k
      BY <1>2, <2>1, <2>2 DEF JournalFits
    <3> QED  BY <1>5, <3>1
  <2>3. Len(journal') <= meter'.total
    BY <1>1, <1>2, <1>3, <1>5, <1>6 DEF JournalFits
  <2> QED  BY <1>1, <1>2, <2>1, <2>2, <2>3 DEF JournalFits
<1>10. EventsKept'
  <2> SUFFICES ASSUME NEW e \in tapped'.events \ tapped'.evicted, EventKey(e) \notin billedEvents'
               PROVE  \E i \in 1..Len(journal') : journal'[i] = e
    BY DEF EventsKept, EventKey
  <2>1. PICK i \in 1..Len(journal) : journal[i] = e
    BY <1>1, <1>2 DEF EventsKept
  <2>2. i \notin 1..k
    <3> SUFFICES ASSUME i \in 1..k PROVE FALSE
      OBVIOUS
    <3>1. JournalBase + i <= export.watermark
      BY <1>5
    <3>2. journal[i] = export.events[JournalBase + i - CopyBase]
      BY <1>1, <1>2, <3>1 DEF CopyFits
    <3>3. JournalBase + i - CopyBase \in 1..Len(export.events)
      BY <1>3, <1>4, <3>1 DEF CopyBase
    <3>4. EventKey(export.events[JournalBase + i - CopyBase]) \in billedEvents
      BY <1>1, <1>2, <3>3 DEF CopyFits
    <3> QED  BY <1>1, <2>1, <3>2, <3>4
  <2>3. i - k \in 1..Len(journal') /\ journal'[i - k] = e
    BY <1>3, <1>5, <1>6, <2>1, <2>2
  <2> QED  BY <2>3
<1> QED  BY <1>8, <1>9, <1>10 DEF BillInv

(* What the push and the clock do not touch stays in order. *)
LEMMA MeterAside ==
  ASSUME BillInv, UNCHANGED <<slot, meter, journal, billedEvents, export, tapped>>
  PROVE  EventsAreNew' /\ JournalFits' /\ CopyFits' /\ EventsKept'
<1>1. EventsAreNew /\ JournalFits /\ CopyFits /\ EventsKept
  BY DEF BillInv
<1>2. EventsAreNew' /\ JournalFits'
  BY <1>1 DEF EventsAreNew, JournalFits
<1>3. EventsKept'
  BY <1>1 DEF EventsKept, EventKey
<1>4. CopyBase' = CopyBase /\ JournalBase' = JournalBase
  BY DEF CopyBase, JournalBase
<1>5. CopyFits'
  BY <1>1, <1>4 DEF CopyFits, EventKey
<1> QED  BY <1>2, <1>3, <1>5

(* flush_now: the batch is posted, charged or not, and leaves the buffer only *)
(* when it was charged.                                                       *)
LEMMA PushKeeps == BillInv /\ (PostBatch \/ Ingest \/ Acknowledge) => BillInv'
<1> SUFFICES ASSUME BillInv, PostBatch \/ Ingest \/ Acknowledge PROVE BillInv'
  OBVIOUS
<1>1. UNCHANGED <<clock, slot, meter, journal, billedEvents, export, open, shed, tapped>>
  BY DEF PostBatch, Ingest, Acknowledge, meterVars
<1>2. EventsAreNew' /\ JournalFits' /\ CopyFits' /\ EventsKept'
  BY <1>1, MeterAside
<1>3. BillTypes /\ UsageKept
  BY DEF BillInv
<1>4. /\ buffer \in Seq(UsageEvent) /\ Len(buffer) \in Nat /\ flush.batch \in Seq(UsageEvent)
      /\ Len(flush.batch) \in Nat
  BY <1>3 DEF BillTypes
<1>5. NoFlush \in [at : {"idle", "post", "acked"}, batch : Seq(UsageEvent)]
  BY DEF NoFlush
<1>6. CASE PostBatch
  <2> DEFINE n == IF Len(buffer) < MaxBatch THEN Len(buffer) ELSE MaxBatch
  <2>1. n \in 0..Len(buffer)
    BY <1>4, BillingAssumption
  <2>2. flush' = [at |-> "post", batch |-> SubSeq(buffer, 1, n)] /\ UNCHANGED <<buffer, charged>>
    BY <1>6 DEF PostBatch
  <2> HIDE DEF n
  <2>3. SubSeq(buffer, 1, n) \in Seq(UsageEvent)
    BY <1>4, <2>1
  <2>4. BillTypes'
    BY <1>1, <1>3, <2>2, <2>3 DEF BillTypes
  <2>5. UsageKept'
    BY <1>1, <1>3, <2>2 DEF UsageKept
  <2> QED  BY <1>2, <2>4, <2>5 DEF BillInv
<1>7. CASE Ingest
  <2>1. /\ UNCHANGED buffer /\ flush.at = "post"
        /\ \/ /\ charged' = [k \in DOMAIN charged \cup {u.key : u \in Range(flush.batch)} |->
                   IF k \in DOMAIN charged THEN charged[k]
                   ELSE (CHOOSE u \in Range(flush.batch) : u.key = k).qty]
              /\ flush' \in {NoFlush, [flush EXCEPT !.at = "acked"]}
           \/ flush' = NoFlush /\ UNCHANGED charged
    BY <1>7 DEF Ingest
  <2>2. [flush EXCEPT !.at = "acked"] \in [at : {"idle", "post", "acked"}, batch : Seq(UsageEvent)]
    BY <1>3 DEF BillTypes
  <2>3. flush' \in [at : {"idle", "post", "acked"}, batch : Seq(UsageEvent)]
    BY <1>5, <2>1, <2>2
  <2>4. BillTypes'
    BY <1>1, <1>3, <2>1, <2>3 DEF BillTypes
  <2>5. DOMAIN charged \subseteq DOMAIN charged'
    BY <2>1
  <2>6. ASSUME flush'.at = "acked", NEW i \in 1..Len(flush'.batch) PROVE flush'.batch[i].key \in DOMAIN charged'
    <3>1. flush' # NoFlush
      BY <2>6 DEF NoFlush
    <3>2. flush' = [flush EXCEPT !.at = "acked"]
          /\ DOMAIN charged' = DOMAIN charged \cup {u.key : u \in Range(flush.batch)}
      BY <2>1, <3>1
    <3>3. flush'.batch = flush.batch
      BY <1>3, <3>2 DEF BillTypes
    <3>4. flush.batch[i] \in Range(flush.batch)
      BY <1>4, <2>6, <3>3, InRange
    <3> QED  BY <3>2, <3>3, <3>4
  <2>7. UsageKept'
    BY <1>1, <1>3, <2>1, <2>5, <2>6 DEF UsageKept
  <2> QED  BY <1>2, <2>4, <2>7 DEF BillInv
<1>8. CASE Acknowledge
  <2> DEFINE n == Len(flush.batch)
  <2>1. /\ flush.at = "acked" /\ flush' = NoFlush /\ UNCHANGED charged
        /\ buffer' = IF IsPrefix(flush.batch, buffer) THEN SubSeq(buffer, n + 1, Len(buffer)) ELSE buffer
    BY <1>8 DEF Acknowledge
  <2>2. flush'.at # "acked"
    BY <2>1 DEF NoFlush
  <2>3. CASE ~IsPrefix(flush.batch, buffer)
    <3>1. buffer' = buffer
      BY <2>1, <2>3
    <3>2. BillTypes'
      BY <1>1, <1>3, <1>5, <2>1, <3>1 DEF BillTypes
    <3>3. UsageKept'
      BY <1>1, <1>3, <2>1, <2>2, <3>1 DEF UsageKept
    <3> QED  BY <1>2, <3>2, <3>3 DEF BillInv
  <2>4. CASE IsPrefix(flush.batch, buffer)
    <3>1. n \in 0..Len(buffer) /\ SubSeq(flush.batch, 1, n) = SubSeq(buffer, 1, n)
      BY <1>4, <2>4 DEF IsPrefix
    <3>2. \A i \in 1..n : flush.batch[i] = buffer[i]
      <4>1. \A i \in 1..n : SubSeq(flush.batch, 1, n)[i] = flush.batch[i]
        BY <1>4
      <4>2. \A i \in 1..n : SubSeq(buffer, 1, n)[i] = buffer[i]
        BY <1>4, <3>1
      <4> QED  BY <3>1, <4>1, <4>2
    <3>3. \A i \in 1..n : buffer[i].key \in DOMAIN charged
      BY <1>3, <2>1, <3>2 DEF UsageKept
    <3> HIDE DEF n
    <3>4. buffer' = SubSeq(buffer, n + 1, Len(buffer))
      BY <2>1, <2>4
    <3>5. /\ buffer' \in Seq(UsageEvent) /\ Len(buffer') = Len(buffer) - n
          /\ \A i \in 1..(Len(buffer) - n) : buffer'[i] = buffer[i + n]
      BY <1>4, <3>1, <3>4
    <3>6. BillTypes'
      BY <1>1, <1>3, <1>5, <2>1, <3>5 DEF BillTypes
    <3>7. ASSUME NEW u \in tapped'.usage, u \notin shed', u.key \notin DOMAIN charged'
          PROVE  \E i \in 1..Len(buffer') : buffer'[i] = u
      <4>1. PICK i \in 1..Len(buffer) : buffer[i] = u
        BY <1>1, <1>3, <2>1, <3>7 DEF UsageKept
      <4>2. i \notin 1..n
        BY <2>1, <3>3, <3>7, <4>1
      <4>3. i - n \in 1..Len(buffer') /\ buffer'[i - n] = u
        BY <1>4, <3>1, <3>5, <4>1, <4>2
      <4> QED  BY <4>3
    <3>8. UsageKept'
      BY <2>2, <3>7 DEF UsageKept
    <3> QED  BY <1>2, <3>6, <3>8 DEF BillInv
  <2> QED  BY <2>3, <2>4
<1> QED  BY <1>6, <1>7, <1>8

(* A restart forgets the journal, the buffer and what was tapped; the clock   *)
(* touches nothing.                                                           *)
LEMMA RestKeeps == BillInv /\ (Restart \/ BillTick \/ UNCHANGED billVars) => BillInv'
<1> SUFFICES ASSUME BillInv, Restart \/ BillTick \/ UNCHANGED billVars PROVE BillInv'
  OBVIOUS
<1>1. BillTypes /\ UsageKept
  BY DEF BillInv
<1>2. CASE Restart
  <2>1. BillTypes'
    BY <1>1, <1>2 DEF Restart, BillTypes, NoMeter, NoExport, NoFlush, NoTaps
  <2>2. JournalFits'
    BY <1>2, FS_EmptySet DEF Restart, JournalFits, NoMeter, NoTaps
  <2>3. EventsAreNew' /\ CopyFits' /\ EventsKept' /\ UsageKept'
    BY <1>2 DEF Restart, EventsAreNew, CopyFits, EventsKept, UsageKept, NoExport, NoFlush, NoTaps
  <2> QED  BY <2>1, <2>2, <2>3 DEF BillInv
<1>3. CASE BillTick \/ UNCHANGED billVars
  <2>1. /\ UNCHANGED <<slot, meter, journal, billedEvents, export, open, buffer, flush, charged, shed, tapped>>
        /\ clock' = clock \/ clock' = clock + 1
    BY <1>3 DEF BillTick, meterVars, pushVars, billVars
  <2>2. BillTypes' /\ UsageKept'
    BY <1>1, <2>1 DEF BillTypes, UsageKept
  <2> QED  BY <2>1, <2>2, MeterAside DEF BillInv
<1> QED  BY <1>2, <1>3

(* Every step keeps the invariant. *)
LEMMA BillKeeps == BillInv /\ [BillNext]_billVars => BillInv'
  BY SlotAcquiredKeeps, SlotEndsKeeps, SnapshotKeeps, PersistKeeps, DrainKeeps, PushKeeps, RestKeeps DEF BillNext

(* The invariant is what the two properties say. *)
LEMMA BillSafe == BillInv => NoEventLostSilently /\ UsageIsPostedOrShed
<1> SUFFICES ASSUME BillInv PROVE NoEventLostSilently /\ UsageIsPostedOrShed
  OBVIOUS
<1>1. BillTypes /\ JournalFits /\ EventsKept /\ UsageKept
  BY DEF BillInv
<1>2. journal \in Seq(SlotEvent) /\ buffer \in Seq(UsageEvent)
  BY <1>1 DEF BillTypes
<1>3. NoEventLostSilently
  BY <1>1, <1>2, InRange DEF NoEventLostSilently, JournalFits, EventsKept
<1>4. UsageIsPostedOrShed
  BY <1>1, <1>2, InRange DEF UsageIsPostedOrShed, UsageKept
<1> QED  BY <1>3, <1>4

(* The invariant of the journal, its copy, the buffer and the batch holds for  *)
(* any number of slots, any cap and any restarts (billing.rs, billing_export.rs, *)
(* corelink_billing.rs).                                                       *)
THEOREM BillInvariance == BillSpec => []BillInv
BY BillStarts, BillKeeps, PTL DEF BillSpec

(* Usage survives: whatever the two loops copy, lose or repeat while events   *)
(* arrive, a slot event is in the journal or in the billing table unless it   *)
(* was evicted at the cap and counted, a usage event is in the buffer or with *)
(* corelink-billing unless it was shed at the cap, and the shutdown flushes.  *)
THEOREM UsageAlwaysSurvives == BillSpec /\ BootSpec => []UsageSurvives
<1>1. BillInv /\ NoUsageForgotten => UsageSurvives
  BY BillSafe DEF UsageSurvives
<1> QED  BY <1>1, BillInvariance, UsageNeverForgotten, PTL

-------------------------------------------------------------------------------
(* The calendar of the billing periods *)

(* Months have between 28 and 31 days, and start where the months before end. *)
LEMMA MonthLength == \A y \in Nat, m \in 1..12 : DaysIn(y, m) \in 28..31
  BY DEF DaysIn

(* ... and the days before them are a number. *)
LEMMA MonthStart == \A y \in Nat, m \in 1..12 : DaysBefore(y, m) \in Nat
  BY DEF DaysBefore

(* A month begins where the one before it ends. *)
LEMMA NextMonth ==
  ASSUME NEW y \in Nat, NEW m \in 1..11
  PROVE  DaysBefore(y, m + 1) = DaysBefore(y, m) + DaysIn(y, m)
  BY DEF DaysIn, DaysBefore

(* days_from_civil counts the days of the calendar. *)
LEMMA DaysAreNumbered ==
  ASSUME NEW y \in Nat, y >= 1, NEW m \in 1..12, NEW dom \in Int
  PROVE  DaysFromCivil(y, m, dom) = DayNumber([y |-> y, m |-> m, d |-> dom])
  BY DEF DaysFromCivil, DayNumber, DaysBefore, Leap

(* A year ends after its December. *)
LEMMA NextYear ==
  ASSUME NEW y \in Nat, y >= 1
  PROVE  DayNumber([y |-> y + 1, m |-> 1, d |-> 1]) = DayNumber([y |-> y, m |-> 12, d |-> 31]) + 1
  BY DEF DayNumber, DaysBefore, Leap

(* The day after a date is a date, and one day later. *)
LEMMA TomorrowIs ==
  ASSUME NEW c, IsDate(c), c = [y |-> c.y, m |-> c.m, d |-> c.d]
  PROVE  /\ IsDate(Tomorrow(c)) /\ DayNumber(Tomorrow(c)) = DayNumber(c) + 1 /\ DayNumber(c) \in Int
         /\ Tomorrow(c) = [y |-> Tomorrow(c).y, m |-> Tomorrow(c).m, d |-> Tomorrow(c).d]
<1>1. PICK y \in Nat, m \in 1..12, d \in Nat : c = [y |-> y, m |-> m, d |-> d] /\ y >= 1970 /\ d \in 1..DaysIn(y, m)
  <2>1. c.y \in Nat /\ c.m \in 1..12 /\ c.y >= 1970 /\ c.d \in 1..DaysIn(c.y, c.m)
    BY DEF IsDate
  <2>2. c.d \in Nat
    BY <2>1, MonthLength
  <2> QED  BY <2>1, <2>2
<1>2. DaysIn(y, m) \in 28..31 /\ DaysBefore(y, m) \in Nat
  BY MonthLength, MonthStart
<1>3. c.y = y /\ c.m = m /\ c.d = d
  BY <1>1
<1>4. PICK n \in Int : n = 365 * (y - 1970) + (y - 1) \div 4 - (y - 1) \div 100 + (y - 1) \div 400 - 477
  BY <1>1
<1>5. DayNumber(c) = n + DaysBefore(y, m) + d - 1
  BY <1>3, <1>4 DEF DayNumber
<1>6. CASE d < DaysIn(y, m)
  <2>1. Tomorrow(c) = [y |-> y, m |-> m, d |-> d + 1]
    BY <1>1, <1>3, <1>6 DEF Tomorrow
  <2>2. DayNumber(Tomorrow(c)) = n + DaysBefore(y, m) + (d + 1) - 1
    BY <1>4, <2>1 DEF DayNumber
  <2>3. IsDate(Tomorrow(c))
    BY <1>1, <1>2, <1>6, <2>1 DEF IsDate
  <2> QED  BY <1>1, <1>2, <1>5, <2>1, <2>2, <2>3
<1>7. CASE d = DaysIn(y, m) /\ m < 12
  <2>a. ~(c.d < DaysIn(c.y, c.m)) /\ c.m < 12 /\ m \in 1..11
    BY <1>2, <1>3, <1>7
  <2>1. Tomorrow(c) = [y |-> y, m |-> m + 1, d |-> 1] /\ m \in 1..11
    BY <1>3, <2>a DEF Tomorrow
  <2>2. DayNumber(Tomorrow(c)) = n + DaysBefore(y, m + 1) + 1 - 1
    BY <1>4, <2>1 DEF DayNumber
  <2>3. DaysBefore(y, m + 1) = DaysBefore(y, m) + d
    BY <1>7, <2>1, NextMonth
  <2>4. DaysIn(y, m + 1) \in 28..31
    BY <2>1, MonthLength
  <2>5. IsDate(Tomorrow(c))
    BY <1>1, <2>1, <2>4 DEF IsDate
  <2> QED  BY <1>1, <1>2, <1>5, <2>1, <2>2, <2>3, <2>5
<1>8. CASE d = DaysIn(y, m) /\ m = 12
  <2>1. d = 31 /\ c = [y |-> y, m |-> 12, d |-> 31]
    BY <1>1, <1>8 DEF DaysIn
  <2>2. Tomorrow(c) = [y |-> y + 1, m |-> 1, d |-> 1]
    BY <1>3, <1>8 DEF Tomorrow
  <2>3. DayNumber(Tomorrow(c)) = DayNumber(c) + 1
    BY <1>1, <2>1, <2>2, NextYear
  <2>4. DaysIn(y + 1, 1) = 31
    BY DEF DaysIn
  <2>5. IsDate(Tomorrow(c))
    BY <1>1, <2>2, <2>4 DEF IsDate
  <2> QED  BY <1>2, <1>5, <2>2, <2>3, <2>5
<1> QED  BY <1>1, <1>2, <1>6, <1>7, <1>8

(* Every day since the epoch is the day of a date. *)
LEMMA EveryDayHasADate ==
  ASSUME NEW n \in Nat
  PROVE  \E c : IsDate(c) /\ c = [y |-> c.y, m |-> c.m, d |-> c.d] /\ DayNumber(c) = n
<1> DEFINE Dated(k) == \E c : IsDate(c) /\ c = [y |-> c.y, m |-> c.m, d |-> c.d] /\ DayNumber(c) = k
           T == {k \in Nat : Dated(k)}
<1>1. 0 \in T
  <2> DEFINE epoch == [y |-> 1970, m |-> 1, d |-> 1]
  <2>1. IsDate(epoch)
    BY DEF IsDate, DaysIn
  <2>2. DayNumber(epoch) = 0
    BY DEF DayNumber, DaysBefore
  <2>3. epoch = [y |-> epoch.y, m |-> epoch.m, d |-> epoch.d]
    OBVIOUS
  <2> QED  BY <2>1, <2>2, <2>3
<1>2. ASSUME NEW k \in Nat, k \in T PROVE k + 1 \in T
  <2>1. PICK c : IsDate(c) /\ c = [y |-> c.y, m |-> c.m, d |-> c.d] /\ DayNumber(c) = k
    BY <1>2
  <2>2. /\ IsDate(Tomorrow(c)) /\ DayNumber(Tomorrow(c)) = k + 1
        /\ Tomorrow(c) = [y |-> Tomorrow(c).y, m |-> Tomorrow(c).m, d |-> Tomorrow(c).d]
    BY <2>1, TomorrowIs
  <2> QED  BY <2>2
<1> HIDE DEF T
<1>3. \A k \in Nat : k \in T
  BY <1>1, <1>2, NatSetInduction
<1> QED  BY <1>3 DEF T

(* The month whose days, counted from March, hold the day doy of the year. *)
LEMMA MonthOfYear ==
  ASSUME NEW mp \in 0..11, NEW doy \in Nat, doy >= (153 * mp + 2) \div 5, doy < (153 * (mp + 1) + 2) \div 5
  PROVE  (5 * doy + 2) \div 153 = mp
  OBVIOUS

(* period_key names the year and the month of a date. *)
LEMMA PeriodOfDate ==
  ASSUME NEW y \in Nat, y >= 1970, NEW m \in 1..12, NEW d \in 1..DaysIn(y, m)
  PROVE  PeriodKey(DayNumber([y |-> y, m |-> m, d |-> d])) = y * 100 + m
<1>0. DaysIn(y, m) \in 28..31
  BY MonthLength
<1>1. DaysIn(y, m) \in 28..31 /\ d \in 1..31
  BY <1>0
<1>2. PICK Y \in Nat, mp \in 0..11 : /\ Y = y - (IF m <= 2 THEN 1 ELSE 0)
                                     /\ mp = m + (IF m > 2 THEN 0 - 3 ELSE 9)
  OBVIOUS
<1>3. PICK era \in Nat, yoe \in 0..399 : era = Y \div 400 /\ yoe = Y - era * 400
  OBVIOUS
<1>4. PICK doy \in Int : doy = (153 * mp + 2) \div 5 + d - 1
  BY <1>1
<1>5. /\ doy \in 0..365 /\ doy >= (153 * mp + 2) \div 5 /\ doy < (153 * (mp + 1) + 2) \div 5
      /\ doy = 365 => m = 2 /\ Leap(y)
  BY <1>1, <1>2, <1>4 DEF DaysIn
<1>6. PICK q \in 0..3, r \in 0..99 : yoe = 100 * q + r
  <2>1. yoe = 100 * (yoe \div 100) + (yoe % 100) /\ yoe \div 100 \in 0..3 /\ yoe % 100 \in 0..99
    BY <1>3, SMTT(30)
  <2> QED  BY <2>1, SMTT(30)
<1>7. PICK b \in 0..24, c \in 0..3 : r = 4 * b + c
  <2>1. r = 4 * (r \div 4) + (r % 4) /\ r \div 4 \in 0..24 /\ r % 4 \in 0..3
    BY <1>6, SMTT(30)
  <2> QED  BY <2>1, SMTT(30)
<1>a. yoe \div 4 = 25 * q + b /\ yoe \div 100 = q /\ yoe = 100 * q + 4 * b + c
  BY <1>6, <1>7, SMTT(30)
<1>b. doy = 365 => c = 3 /\ (b # 24 \/ q = 3)
  <2> SUFFICES ASSUME doy = 365 PROVE c = 3 /\ (b # 24 \/ q = 3)
    OBVIOUS
  <2>1. y = 400 * era + 100 * q + 4 * b + c + 1 /\ y % 4 = 0 /\ (y % 100 # 0 \/ y % 400 = 0)
    BY <1>2, <1>3, <1>5, <1>6, <1>7, SMTT(30) DEF Leap
  <2>2. c = 3
    BY <1>3, <1>6, <1>7, <2>1, SMTT(30)
  <2>3. b = 24 => y = 400 * era + 100 * (q + 1)
    BY <2>1, <2>2, SMTT(30)
  <2>4. b = 24 /\ q < 3 => y % 100 = 0 /\ y % 400 # 0
    BY <1>3, <1>6, <2>3, SMTT(30)
  <2> QED  BY <1>6, <2>1, <2>2, <2>4, SMTT(30)
<1>c. PICK doe \in Int : doe = 36524 * q + 1461 * b + 365 * c + doy
  BY <1>5, <1>6, <1>7, SMTT(30)
<1>d. doe - (365 * yoe + yoe \div 4 - yoe \div 100) = doy
  BY <1>a, <1>c, SMTT(30)
<1>8. 0 <= doe /\ doe <= 146096
  BY <1>5, <1>6, <1>7, <1>b, <1>c, SMTT(30)
<1>e. (doe - doe \div 1460 + doe \div 36524 - doe \div 146096) \div 365 = yoe
  BY <1>5, <1>6, <1>7, <1>a, <1>b, <1>c, SMTT(60)
<1>9. (5 * doy + 2) \div 153 = mp
  BY <1>5, MonthOfYear
<1>10. PICK n \in Int : n = DayNumber([y |-> y, m |-> m, d |-> d]) /\ n + 719468 = era * 146097 + doe
  <2>1. DayNumber([y |-> y, m |-> m, d |-> d]) = DaysFromCivil(y, m, d)
    BY DaysAreNumbered
  <2>2. DaysFromCivil(y, m, d) = era * 146097 + yoe * 365 + yoe \div 4 - yoe \div 100 + doy - 719468
    BY <1>1, <1>2, <1>3, <1>4 DEF DaysFromCivil
  <2> QED  BY <1>3, <1>d, <2>1, <2>2, SMTT(30)
<1>11. (n + 719468) \div 146097 = era /\ (n + 719468) - era * 146097 = doe
  BY <1>8, <1>10, SMTT(30)
<1>12. CivilFromDays(n).month = m
  <2> DEFINE z == n + 719468
             MonthAt(o) == IF (5 * o + 2) \div 153 < 10 THEN (5 * o + 2) \div 153 + 3 ELSE (5 * o + 2) \div 153 - 9
             YoeAt(e) == (e - e \div 1460 + e \div 36524 - e \div 146096) \div 365
             DoyAt(e) == e - (365 * YoeAt(e) + YoeAt(e) \div 4 - YoeAt(e) \div 100)
  <2>1. CivilFromDays(n).month = MonthAt(DoyAt(z - (z \div 146097) * 146097))
    BY <1>10, SMTT(60) DEF CivilFromDays
  <2>2. z - (z \div 146097) * 146097 = doe
    BY <1>11, SMTT(60)
  <2>3. DoyAt(doe) = doy
    BY <1>d, <1>e, SMTT(60)
  <2>4. MonthAt(doy) = m
    BY <1>2, <1>9, SMTT(60)
  <2> HIDE DEF z, MonthAt, DoyAt, YoeAt
  <2> QED  BY <2>1, <2>2, <2>3, <2>4, SMTT(60)
<1>13. CivilFromDays(n).year = yoe + era * 400 + (IF m <= 2 THEN 1 ELSE 0)
  BY <1>2, <1>9, <1>11, <1>d, <1>e, SMTT(60) DEF CivilFromDays
<1>14. CivilFromDays(n).month = m /\ CivilFromDays(n).year = y
  BY <1>2, <1>3, <1>12, <1>13
<1> QED  BY <1>10, <1>14 DEF PeriodKey

(* The period of a date is the days of its month. *)
LEMMA PeriodSpan ==
  ASSUME NEW y \in Nat, y >= 1970, NEW m \in 1..12, NEW d \in 1..DaysIn(y, m), NEW w \in Nat \ {0},
         NEW n \in Nat, n = DayNumber([y |-> y, m |-> m, d |-> d])
  PROVE  WallStaysInPeriod(PeriodKey(n), n, w) <=> PeriodKey(n + w - 1) = PeriodKey(n)
<1>a. DaysIn(y, m) \in 28..31
  BY MonthLength
<1>1. DaysIn(y, m) \in 28..31 /\ d \in 1..31
  BY <1>a
<1>2. PeriodKey(n) = y * 100 + m
  BY PeriodOfDate
<1>3. PICK start \in Int : start = DaysFromCivil(y, m, 1) /\ \A k \in Int : DaysFromCivil(y, m, k) = start + k - 1
  BY DEF DaysFromCivil
<1>4. ASSUME NEW k \in Int PROVE DayNumber([y |-> y, m |-> m, d |-> k]) = start + k - 1
  <2>1. DaysFromCivil(y, m, k) = DayNumber([y |-> y, m |-> m, d |-> k])
    BY DaysAreNumbered
  <2> QED  BY <1>3, <2>1
<1>5. (IF m = 12 THEN DaysFromCivil(y + 1, 1, 1) ELSE DaysFromCivil(y, m + 1, 1)) = start + DaysIn(y, m)
  <2>1. CASE m = 12
    <3>1. DaysIn(y, m) = 31
      BY <2>1 DEF DaysIn
    <3>2. DaysFromCivil(y + 1, 1, 1) = DayNumber([y |-> y + 1, m |-> 1, d |-> 1])
      BY DaysAreNumbered
    <3>3. DayNumber([y |-> y + 1, m |-> 1, d |-> 1]) = DayNumber([y |-> y, m |-> 12, d |-> 31]) + 1
      BY NextYear
    <3> QED  BY <1>4, <2>1, <3>1, <3>2, <3>3
  <2>2. CASE m # 12
    <3>1. m \in 1..11 /\ m + 1 \in 1..12
      BY <2>2
    <3>2. DaysFromCivil(y, m + 1, 1) = DayNumber([y |-> y, m |-> m + 1, d |-> 1])
      BY <3>1, DaysAreNumbered
    <3>a. DaysBefore(y, m + 1) = DaysBefore(y, m) + DaysIn(y, m)
      BY <3>1, NextMonth
    <3>b. DaysBefore(y, m) \in Nat
      BY <3>1 DEF DaysBefore
    <3>3. DaysBefore(y, m + 1) = DaysBefore(y, m) + DaysIn(y, m) /\ DaysBefore(y, m) \in Nat
      BY <3>a, <3>b
    <3>4. PICK b \in Int : b = 365 * (y - 1970) + (y - 1) \div 4 - (y - 1) \div 100 + (y - 1) \div 400 - 477
      OBVIOUS
    <3>5. /\ DayNumber([y |-> y, m |-> m + 1, d |-> 1]) = b + DaysBefore(y, m + 1) + 1 - 1
          /\ DayNumber([y |-> y, m |-> m, d |-> 1]) = b + DaysBefore(y, m) + 1 - 1
      BY <3>4 DEF DayNumber
    <3>6. DayNumber([y |-> y, m |-> m, d |-> 1]) = start + 1 - 1
      BY <1>4
    <3> QED  BY <1>1, <2>2, <3>2, <3>3, <3>5, <3>6
  <2> QED  BY <2>1, <2>2
<1>6. WallStaysInPeriod(PeriodKey(n), n, w) <=> n >= start /\ n + w <= start + DaysIn(y, m)
  <2>1. PeriodKey(n) \div 100 = y /\ PeriodKey(n) % 100 = m
    BY <1>2
  <2> QED  BY <1>3, <1>5, <2>1 DEF WallStaysInPeriod
<1>7. n = start + d - 1
  BY <1>1, <1>4
<1>8. ASSUME n + w <= start + DaysIn(y, m) PROVE PeriodKey(n + w - 1) = PeriodKey(n)
  <2>1. PICK k \in Int : k = d + w - 1 /\ k \in 1..DaysIn(y, m)
    BY <1>1, <1>7, <1>8
  <2>2. DayNumber([y |-> y, m |-> m, d |-> k]) = n + w - 1
    BY <1>1, <1>4, <1>7, <2>1
  <2>3. PeriodKey(DayNumber([y |-> y, m |-> m, d |-> k])) = y * 100 + m
    BY <2>1, PeriodOfDate
  <2> QED  BY <1>2, <2>2, <2>3
<1>9. ASSUME PeriodKey(n + w - 1) = PeriodKey(n) PROVE n + w <= start + DaysIn(y, m)
  <2>a. PICK k \in Nat : k = n + w - 1
    OBVIOUS
  <2>b. PICK c : IsDate(c) /\ c = [y |-> c.y, m |-> c.m, d |-> c.d] /\ DayNumber(c) = k
    BY EveryDayHasADate
  <2>c. c.y \in Nat /\ c.m \in 1..12 /\ c.y >= 1970 /\ c.d \in 1..DaysIn(c.y, c.m)
    BY <2>b DEF IsDate
  <2>d. PICK y2 \in Nat, m2 \in 1..12, d2 \in Int : y2 = c.y /\ m2 = c.m /\ d2 = c.d
    BY <2>c
  <2>1. y2 >= 1970 /\ d2 \in 1..DaysIn(y2, m2) /\ DayNumber([y |-> y2, m |-> m2, d |-> d2]) = n + w - 1
    BY <2>a, <2>b, <2>c, <2>d
  <2>2. PeriodKey(n + w - 1) = y2 * 100 + m2
    BY <2>1, PeriodOfDate
  <2>3. y2 = y /\ m2 = m
    BY <1>2, <1>9, <2>2
  <2>4. n + w - 1 = start + d2 - 1
    BY <1>4, <2>1, <2>3
  <2> QED  BY <1>1, <2>1, <2>3, <2>4
<1> QED  BY <1>1, <1>6, <1>7, <1>8, <1>9

(* A table of the powers of ten up to the n-th. *)
IsPowTable(pow, n) == pow = [k \in 0..n |-> IF k = 0 THEN 1 ELSE 10 * pow[k - 1]]

(* Such tables exist, and the power of ten is an entry of one. *)
LEMMA PowTableExists ==
  ASSUME NEW n \in Nat
  PROVE  \E pow : IsPowTable(pow, n)
<1> DEFINE T == {m \in Nat : \E f : IsPowTable(f, m)}
<1>1. 0 \in T
  <2> DEFINE f == [k \in 0..0 |-> 1]
  <2>1. f = [k \in 0..0 |-> IF k = 0 THEN 1 ELSE 10 * f[k - 1]]
    OBVIOUS
  <2> QED  BY <2>1 DEF IsPowTable
<1>2. ASSUME NEW m \in Nat, m \in T PROVE m + 1 \in T
  <2>1. PICK f : f = [k \in 0..m |-> IF k = 0 THEN 1 ELSE 10 * f[k - 1]]
    BY <1>2 DEF IsPowTable
  <2> DEFINE g == [k \in 0..(m + 1) |-> IF k = m + 1 THEN 10 * f[m] ELSE f[k]]
  <2>2. ASSUME NEW k \in 0..(m + 1) PROVE g[k] = IF k = 0 THEN 1 ELSE 10 * g[k - 1]
    <3>1. CASE k = m + 1
      <4>1. g[k - 1] = f[m] /\ g[k] = 10 * f[m]
        BY <3>1
      <4> QED  BY <3>1, <4>1
    <3>2. CASE k # m + 1
      <4>1. k \in 0..m /\ g[k] = f[k]
        BY <3>2
      <4>2. k # 0 => k - 1 \in 0..(m + 1) /\ k - 1 # m + 1 /\ g[k - 1] = f[k - 1]
        BY <4>1
      <4>3. f[k] = IF k = 0 THEN 1 ELSE 10 * f[k - 1]
        BY <2>1, <4>1
      <4> HIDE DEF g
      <4> QED  BY <4>1, <4>2, <4>3
    <3> QED  BY <3>1, <3>2
  <2>3. g = [k \in 0..(m + 1) |-> g[k]]
    OBVIOUS
  <2> HIDE DEF g
  <2>4. g = [k \in 0..(m + 1) |-> IF k = 0 THEN 1 ELSE 10 * g[k - 1]]
    BY <2>2, <2>3
  <2> QED  BY <2>4 DEF IsPowTable
<1> HIDE DEF T
<1>3. \A m \in Nat : m \in T
  BY <1>1, <1>2, NatSetInduction
<1> QED  BY <1>3 DEF T

(* A power of ten is positive. *)
LEMMA Pow10Positive ==
  ASSUME NEW n \in Nat
  PROVE  Pow10(n) \in Nat \ {0}
<1>1. Pow10(n) = (CHOOSE pow : IsPowTable(pow, n))[n]
  BY DEF Pow10, IsPowTable
<1>2. PICK pow : pow = CHOOSE f : IsPowTable(f, n)
  OBVIOUS
<1>3. IsPowTable(pow, n)
  BY <1>2, PowTableExists
<1>4. pow = [k \in 0..n |-> IF k = 0 THEN 1 ELSE 10 * pow[k - 1]]
  BY <1>3 DEF IsPowTable
<1> DEFINE T == {k \in Nat : k \in 0..n => pow[k] \in Nat \ {0}}
<1>5. 0 \in T
  BY <1>4
<1>6. ASSUME NEW k \in Nat, k \in T PROVE k + 1 \in T
  <2> SUFFICES ASSUME k + 1 \in 0..n PROVE pow[k + 1] \in Nat \ {0}
    OBVIOUS
  <2>1. pow[k] \in Nat \ {0} /\ (k + 1) - 1 = k /\ k + 1 # 0
    BY <1>6
  <2>2. pow[k + 1] = 10 * pow[k]
    BY <1>4, <2>1
  <2> QED  BY <2>1, <2>2
<1> HIDE DEF T
<1>7. n \in T
  BY <1>5, <1>6, NatSetInduction
<1> QED  BY <1>1, <1>2, <1>7 DEF T

(* What a quotient is. *)
LEMMA Quotient ==
  ASSUME NEW a \in Nat, NEW b \in Nat \ {0}
  PROVE  a \div b \in Nat /\ (a \div b) * b <= a /\ a < (a \div b + 1) * b
  OBVIOUS

--------------------------------------------------------------------------------
(* The allowance of a plan *)

(* The walk stands at the date of its day, and the allowance is what          *)
(* max_vcpu_h_ceiling_ms made of the plan's number.                           *)
MeterInv ==
  /\ civil = [y |-> civil.y, m |-> civil.m, d |-> civil.d] /\ IsDate(civil)
  /\ day \in Nat /\ DayNumber(civil) = day
  /\ allowance.mantissa \in Nat /\ allowance.digits \in Nat /\ allowance.exponent \in Int
  /\ allowance.ms = CeilingMs(allowance.mantissa, allowance.digits, allowance.exponent)

(* An anchor is a date with its day. *)
LEMMA MeterStarts == MeterInit => MeterInv
<1> SUFFICES ASSUME MeterInit PROVE MeterInv
  OBVIOUS
<1>1. /\ anchor \in Anchors /\ day = anchor.day
      /\ civil = [y |-> anchor.y, m |-> anchor.m, d |-> anchor.d]
      /\ allowance = [mantissa |-> 0, digits |-> 0, exponent |-> 0, ms |-> 0]
  BY DEF MeterInit
<1>2. IsDate(anchor) /\ anchor.day = DayNumber(anchor)
  BY <1>1, AnchorAssumption
<1>3. IsDate(civil) /\ DayNumber(civil) = DayNumber(anchor) /\ civil = [y |-> civil.y, m |-> civil.m, d |-> civil.d]
  BY <1>1, <1>2 DEF IsDate, DayNumber
<1>4. DayNumber(civil) \in Nat
  <2>1. civil.y \in Nat /\ civil.y >= 1970 /\ civil.m \in 1..12 /\ civil.d \in 1..DaysIn(civil.y, civil.m)
    BY <1>3 DEF IsDate
  <2>2. PICK y \in Nat, m \in 1..12 : y = civil.y /\ m = civil.m
    BY <2>1
  <2>3. DaysIn(y, m) \in 28..31 /\ DaysBefore(y, m) \in Nat
    BY MonthLength, MonthStart
  <2>4. civil.d \in Nat \ {0}
    BY <2>1, <2>2, <2>3
  <2>5. 365 * (y - 1970) + (y - 1) \div 4 - (y - 1) \div 100 + (y - 1) \div 400 - 477 \in Nat
    BY <2>1, <2>2, SMTT(30)
  <2>6. DayNumber(civil) = 365 * (y - 1970) + (y - 1) \div 4 - (y - 1) \div 100 + (y - 1) \div 400 - 477
                           + DaysBefore(y, m) + civil.d - 1
    BY <2>2 DEF DayNumber
  <2> QED  BY <2>3, <2>4, <2>5, <2>6, SMTT(30)
<1>5. allowance.ms = CeilingMs(allowance.mantissa, allowance.digits, allowance.exponent)
  BY <1>1 DEF CeilingMs
<1> QED  BY <1>1, <1>2, <1>3, <1>4, <1>5 DEF MeterInv

(* Every step keeps the invariant. *)
LEMMA MeterKeeps == MeterInv /\ [MeterNext]_computeMeterVars => MeterInv'
<1> SUFFICES ASSUME MeterInv, [MeterNext]_computeMeterVars PROVE MeterInv'
  OBVIOUS
<1>1. CASE NextDay
  <2>1. civil' = Tomorrow(civil) /\ day' = day + 1 /\ allowance' = allowance
    BY <1>1 DEF NextDay
  <2>2. /\ IsDate(Tomorrow(civil)) /\ DayNumber(Tomorrow(civil)) = DayNumber(civil) + 1
        /\ Tomorrow(civil) = [y |-> Tomorrow(civil).y, m |-> Tomorrow(civil).m, d |-> Tomorrow(civil).d]
    BY TomorrowIs DEF MeterInv
  <2>3. IsDate(civil') /\ DayNumber(civil') = day' /\ civil' = [y |-> civil'.y, m |-> civil'.m, d |-> civil'.d]
    BY <2>1, <2>2 DEF MeterInv
  <2> QED  BY <2>1, <2>3 DEF MeterInv, IsDate, DayNumber, CeilingMs
<1>2. ASSUME NEW m \in Mantissas, NEW f \in FractionDigits, NEW e \in Exponents, ReadAllowance(m, f, e)
      PROVE  MeterInv'
  <2>1. /\ allowance' = [mantissa |-> m, digits |-> f, exponent |-> e, ms |-> CeilingMs(m, f, e)]
        /\ UNCHANGED <<anchor, day, civil>>
    BY <1>2 DEF ReadAllowance
  <2>2. m \in Nat /\ f \in Nat /\ e \in Int
    BY MeterAssumption
  <2> QED  BY <2>1, <2>2 DEF MeterInv, IsDate, DayNumber, CeilingMs
<1>3. CASE UNCHANGED computeMeterVars
  BY <1>3 DEF MeterInv, computeMeterVars, IsDate, DayNumber, CeilingMs
<1> QED  BY <1>1, <1>2, <1>3 DEF MeterNext

(* The walk of the calendar stands at the date of its day, and an allowance is *)
(* what the conversion of decimal.rs makes of the plan's number.              *)
THEOREM MeterInvariance == MeterSpec => []MeterInv
BY MeterStarts, MeterKeeps, PTL DEF MeterSpec

(* The two calendars of the code agree with the walk. *)
LEMMA MeterPeriods == MeterInv => PeriodsAreCalendarMonths
<1> SUFFICES ASSUME MeterInv PROVE PeriodsAreCalendarMonths
  OBVIOUS
<1>1. /\ civil = [y |-> civil.y, m |-> civil.m, d |-> civil.d] /\ day \in Nat /\ DayNumber(civil) = day
      /\ civil.y \in Nat /\ civil.y >= 1970 /\ civil.m \in 1..12 /\ civil.d \in 1..DaysIn(civil.y, civil.m)
  BY DEF MeterInv, IsDate
<1>2. PICK y \in Nat, m \in 1..12, d \in 1..DaysIn(civil.y, civil.m) : y = civil.y /\ m = civil.m /\ d = civil.d
  BY <1>1
<1>3. d \in 1..DaysIn(y, m) /\ y >= 1970 /\ DayNumber([y |-> y, m |-> m, d |-> d]) = day
  BY <1>1, <1>2
<1>4. d \in Int
  BY <1>3
<1>5. PeriodKey(day) = y * 100 + m
  BY <1>3, PeriodOfDate
<1>6. DaysFromCivil(y, m, d) = day
  BY <1>3, <1>4, DaysAreNumbered
<1>7. ASSUME NEW w \in WallDays
      PROVE  WallStaysInPeriod(PeriodKey(day), day, w) <=> PeriodKey(day + w - 1) = PeriodKey(day)
  <2>1. w \in Nat \ {0}
    BY MeterAssumption
  <2> QED  BY <1>1, <1>3, <2>1, PeriodSpan
<1> QED  BY <1>2, <1>5, <1>6, <1>7 DEF PeriodsAreCalendarMonths

(* The conversion floors, and refuses what would floor to 0. *)
LEMMA MeterAllowance == MeterInv => AllowanceIsExact
<1> SUFFICES ASSUME MeterInv PROVE AllowanceIsExact
  OBVIOUS
<1>1. PICK a \in Nat, f \in Nat, e \in Int : /\ a = allowance.mantissa /\ f = allowance.digits /\ e = allowance.exponent
                                             /\ allowance.ms = CeilingMs(a, f, e)
  BY DEF MeterInv
<1>2. PICK num \in Nat : num = a * MsPerVcpuHour /\ (a # 0 => num # 0)
  BY <1>1, MeterAssumption
<1>3. PICK scale \in Int : scale = f - e
  BY <1>1
<1>4. CASE a = 0
  <2>1. allowance.ms = 0 /\ num = 0
    BY <1>1, <1>2, <1>4, MeterAssumption DEF CeilingMs
  <2>2. scale > 0 => Pow10(scale) \in Nat \ {0}
    BY <1>3, Pow10Positive
  <2>3. ~(scale > 0) => Pow10(0 - scale) \in Nat \ {0}
    <3>1. ~(scale > 0) => 0 - scale \in Nat
      BY <1>3
    <3> QED  BY <3>1, Pow10Positive
  <2> QED  BY <1>1, <1>2, <1>3, <1>4, <2>1, <2>2, <2>3 DEF AllowanceIsExact, Unreachable
<1>5. CASE a # 0 /\ scale > 0
  <2>1. PICK up \in Nat \ {0} : up = Pow10(scale)
    BY <1>3, <1>5, Pow10Positive
  <2>2. PICK ms \in Nat : ms = num \div up /\ ms * up <= num /\ num < (ms + 1) * up
    BY <1>2, <2>1, Quotient
  <2>3. allowance.ms = IF ms = 0 \/ ms > LedgerMax THEN Unreachable ELSE ms
    BY <1>1, <1>2, <1>3, <1>5, <2>1, <2>2 DEF CeilingMs
  <2> QED  BY <1>1, <1>2, <1>3, <1>5, <2>1, <2>2, <2>3 DEF AllowanceIsExact, Unreachable
<1>6. CASE a # 0 /\ scale <= 0
  <2>1. PICK down \in Nat \ {0} : down = Pow10(0 - scale)
    <3>1. 0 - scale \in Nat
      BY <1>3, <1>6
    <3> QED  BY <3>1, Pow10Positive
  <2>2. PICK ms \in Nat : ms = num * down
    BY <1>2, <2>1
  <2>3. allowance.ms = IF ms = 0 \/ ms > LedgerMax THEN Unreachable ELSE ms
    BY <1>1, <1>2, <1>3, <1>6, <2>1, <2>2 DEF CeilingMs
  <2> QED  BY <1>1, <1>2, <1>3, <1>6, <2>1, <2>2, <2>3 DEF AllowanceIsExact, Unreachable
<1> QED  BY <1>1, <1>3, <1>4, <1>5, <1>6

--------------------------------------------------------------------------------
(* The compute-budget API *)

(* The requests whose blocking thread runs. *)
Blocking == {q \in GrantRequests : grantCall[q] = "blocking"}

(* A grant that was signed and whose wall ends in its period. *)
GoodGrant(g) == GrantOf[g].signed /\ WallFits(GrantOf[g])

(* What has passed the handler was signed and fits its period, whatever the   *)
(* clock says by now; work began before the expiry and in the period.         *)
GrantsFit ==
  /\ grantNow \in Nat
  /\ grantCall \in [GrantRequests -> {"new", "blocking", "answered", "refused"}]
  /\ reservation \in [OfferedGrants -> [state : {"none", "prepared", "active", "cancelled"}, started : Nat]]
  /\ \A q \in Blocking : GrantRequestOf[q].op # "baseline" => GoodGrant(GrantRequestOf[q].grant)
  /\ \A g \in OfferedGrants : reservation[g].state \in {"prepared", "active"} => GoodGrant(g)
  /\ \A g \in OfferedGrants : reservation[g].state = "active" =>
       reservation[g].started < GrantOf[g].expires /\ PeriodAt(reservation[g].started) = GrantOf[g].period

(* A permit is out for every thread that runs and for nothing else. *)
PermitsFit ==
  IsFiniteSet(Blocking) /\ Cardinality(Blocking) = permits /\ permits \in Nat /\ permits <= BlockingPermits

(* The inductive invariant of the compute-budget API. *)
GrantInv == GrantsFit /\ PermitsFit

(* The types of the constants. *)
LEMMA GrantTypes ==
  /\ \A g \in OfferedGrants : /\ GrantOf[g].expires \in Nat /\ GrantOf[g].wall \in Nat /\ GrantOf[g].period \in Nat
                              /\ GrantOf[g].signed \in BOOLEAN
  /\ \A q \in GrantRequests : GrantRequestOf[q].grant \in OfferedGrants
  /\ BlockingPermits \in Nat /\ PeriodLength \in Nat \ {0}
  BY GrantAssumption

(* At first no thread runs and nothing is reserved. *)
LEMMA GrantStarts == GrantInit => GrantInv
<1> SUFFICES ASSUME GrantInit PROVE GrantInv
  OBVIOUS
<1>1. Blocking = {}
  BY DEF GrantInit, Blocking
<1>2. GrantsFit
  BY <1>1 DEF GrantInit, GrantsFit
<1>3. PermitsFit
  BY <1>1, GrantTypes, FS_EmptySet DEF GrantInit, PermitsFit
<1> QED  BY <1>2, <1>3 DEF GrantInv

(* A request that is admitted was verified. *)
LEMMA AdmittedIsGood ==
  ASSUME NEW q \in GrantRequests, Authenticated(q), GrantRequestOf[q].op # "baseline"
  PROVE  GoodGrant(GrantRequestOf[q].grant)
<1> DEFINE g == GrantRequestOf[q].grant
           late == GrantRequestOf[q].op \in {"cancel", "settle"}
<1>1. Verify(g, late) = "ok"
  BY DEF Authenticated
<1>2. GrantOf[g].signed \in BOOLEAN
  BY GrantTypes
<1> HIDE DEF g, late
<1>3. CASE ~GrantOf[g].signed
  BY <1>1, <1>3 DEF Verify
<1>4. CASE GrantOf[g].signed /\ ~late /\ GrantOf[g].expires <= grantNow
  BY <1>1, <1>4 DEF Verify
<1>5. CASE GrantOf[g].signed /\ ~(~late /\ GrantOf[g].expires <= grantNow)
  <2> DEFINE p == GrantOf[g]
             sane == /\ p.issued <= grantNow /\ p.issued < p.expires /\ p.expires - p.issued <= MaxTtl
                     /\ p.wall > 0 /\ WallFits(p)
  <2>1. Verify(g, late) = IF sane THEN "ok" ELSE "Malformed"
    BY <1>5 DEF Verify
  <2>2. sane
    <3> HIDE DEF sane
    <3> QED  BY <1>1, <2>1
  <2> QED  BY <1>5, <2>2 DEF GoodGrant, g
<1> QED  BY <1>2, <1>3, <1>4, <1>5 DEF g

(* The handler takes a permit for every request it lets through. *)
LEMMA ReceiveKeeps ==
  ASSUME GrantInv, NEW q \in GrantRequests, Receive(q)
  PROVE  GrantInv'
<1> DEFINE admitted == Authenticated(q) /\ NeedsLedger(q) /\ permits < BlockingPermits
<1>1. /\ grantCall[q] = "new"
      /\ grantCall' = [grantCall EXCEPT ![q] = IF admitted THEN "blocking" ELSE "refused"]
      /\ permits' = permits + (IF admitted THEN 1 ELSE 0)
      /\ UNCHANGED <<grantNow, reservation>>
  BY DEF Receive
<1>2. GrantsFit /\ PermitsFit
  BY DEF GrantInv
<1>3. grantCall \in [GrantRequests -> {"new", "blocking", "answered", "refused"}]
  BY <1>2 DEF GrantsFit
<1>4. Blocking' = Blocking \cup (IF admitted THEN {q} ELSE {}) /\ q \notin Blocking
  BY <1>1, <1>3 DEF Blocking
<1>5. admitted /\ GrantRequestOf[q].op # "baseline" => GoodGrant(GrantRequestOf[q].grant)
  BY AdmittedIsGood
<1> HIDE DEF admitted
<1>6. \A p \in Blocking' : GrantRequestOf[p].op # "baseline" => GoodGrant(GrantRequestOf[p].grant)
  BY <1>2, <1>4, <1>5 DEF GrantsFit
<1>7. GrantsFit'
  BY <1>1, <1>2, <1>3, <1>6 DEF GrantsFit, GoodGrant, WallFits, PeriodStart, PeriodEnd, PeriodAt
<1>8. PermitsFit'
  <2>1. CASE admitted
    <3>1. Blocking' = Blocking \cup {q} /\ permits' = permits + 1
      BY <1>1, <1>4, <2>1
    <3>2. permits < BlockingPermits
      BY <2>1 DEF admitted
    <3> QED  BY <1>2, <1>4, <3>1, <3>2, GrantTypes, FS_AddElement DEF PermitsFit
  <2>2. CASE ~admitted
    <3>1. Blocking' = Blocking /\ permits' = permits
      BY <1>1, <1>2, <1>4, <2>2 DEF PermitsFit
    <3> QED  BY <1>2, <3>1 DEF PermitsFit
  <2> QED  BY <2>1, <2>2
<1> QED  BY <1>7, <1>8 DEF GrantInv

(* The row of a grant after an operation of the ledger. *)
LEMMA MovedFits ==
  ASSUME GrantsFit, NEW q \in Blocking
  PROVE  /\ Moved(q) \in [OfferedGrants -> [state : {"none", "prepared", "active", "cancelled"}, started : Nat]]
         /\ \A g \in OfferedGrants : Moved(q)[g].state \in {"prepared", "active"} => GoodGrant(g)
         /\ \A g \in OfferedGrants : Moved(q)[g].state = "active" =>
              Moved(q)[g].started < GrantOf[g].expires /\ PeriodAt(Moved(q)[g].started) = GrantOf[g].period
<1>1. q \in GrantRequests
  BY DEF Blocking
<1>2. PICK g \in OfferedGrants : g = GrantRequestOf[q].grant
  BY <1>1, GrantTypes
<1>3. /\ reservation \in [OfferedGrants -> [state : {"none", "prepared", "active", "cancelled"}, started : Nat]]
      /\ \A h \in OfferedGrants : reservation[h].state \in {"prepared", "active"} => GoodGrant(h)
      /\ \A h \in OfferedGrants : reservation[h].state = "active" =>
           reservation[h].started < GrantOf[h].expires /\ PeriodAt(reservation[h].started) = GrantOf[h].period
      /\ grantNow \in Nat
  BY DEF GrantsFit
<1>4. CASE GrantRequestOf[q].op = "reserve" /\ Reserves(g)
  <2>1. Moved(q) = [reservation EXCEPT ![g].state = "prepared"]
    BY <1>2, <1>4 DEF Moved
  <2>2. GoodGrant(g)
    BY <1>2, <1>4 DEF GrantsFit
  <2> QED  BY <1>3, <2>1, <2>2
<1>5. CASE GrantRequestOf[q].op = "activate" /\ Activates(g)
  <2>1. Moved(q) = [reservation EXCEPT ![g] = [state |-> "active", started |-> grantNow]]
    BY <1>2, <1>5 DEF Moved
  <2>2. reservation[g].state = "prepared" /\ grantNow < GrantOf[g].expires /\ PeriodAt(grantNow) = GrantOf[g].period
    BY <1>5 DEF Activates
  <2>3. GoodGrant(g)
    BY <1>3, <2>2
  <2> QED  BY <1>3, <2>1, <2>2, <2>3
<1>6. CASE GrantRequestOf[q].op = "cancel" /\ Cancels(g)
  <2>1. Moved(q) = [reservation EXCEPT ![g].state = "cancelled"]
    BY <1>2, <1>6 DEF Moved
  <2> QED  BY <1>3, <2>1
<1>7. CASE /\ ~(GrantRequestOf[q].op = "reserve" /\ Reserves(g))
           /\ ~(GrantRequestOf[q].op = "activate" /\ Activates(g))
           /\ ~(GrantRequestOf[q].op = "cancel" /\ Cancels(g))
  <2>1. Moved(q) = reservation
    BY <1>2, <1>7 DEF Moved
  <2> QED  BY <1>3, <2>1
<1> QED  BY <1>4, <1>5, <1>6, <1>7

(* A thread that ends gives its permit back. *)
LEMMA BlockingEndsKeeps ==
  ASSUME GrantInv, NEW q \in GrantRequests, NEW ok \in BOOLEAN, BlockingEnds(q, ok)
  PROVE  GrantInv'
<1>1. /\ grantCall[q] = "blocking" /\ grantCall' = [grantCall EXCEPT ![q] = "answered"]
      /\ permits' = permits - 1 /\ grantNow' = grantNow
      /\ reservation' = IF ok THEN Moved(q) ELSE reservation
  BY DEF BlockingEnds
<1>2. GrantsFit /\ PermitsFit
  BY DEF GrantInv
<1>3. grantCall \in [GrantRequests -> {"new", "blocking", "answered", "refused"}]
  BY <1>2 DEF GrantsFit
<1>4. Blocking' = Blocking \ {q} /\ q \in Blocking
  BY <1>1, <1>3 DEF Blocking
<1>5. /\ reservation' \in [OfferedGrants -> [state : {"none", "prepared", "active", "cancelled"}, started : Nat]]
      /\ \A g \in OfferedGrants : reservation'[g].state \in {"prepared", "active"} => GoodGrant(g)
      /\ \A g \in OfferedGrants : reservation'[g].state = "active" =>
           reservation'[g].started < GrantOf[g].expires /\ PeriodAt(reservation'[g].started) = GrantOf[g].period
  <2>1. CASE ok
    <3>1. reservation' = Moved(q)
      BY <1>1, <2>1
    <3> QED  BY <1>2, <1>4, <3>1, MovedFits
  <2>2. CASE ~ok
    BY <1>1, <1>2, <2>2 DEF GrantsFit
  <2> QED  BY <2>1, <2>2
<1>6. grantCall' \in [GrantRequests -> {"new", "blocking", "answered", "refused"}]
  BY <1>1, <1>3
<1>7. GrantsFit'
  BY <1>1, <1>2, <1>4, <1>5, <1>6 DEF GrantsFit, GoodGrant, WallFits, PeriodStart, PeriodEnd, PeriodAt
<1>8. PermitsFit'
  <2>1. IsFiniteSet(Blocking \ {q}) /\ Cardinality(Blocking \ {q}) = Cardinality(Blocking) - 1
    BY <1>2, <1>4, FS_RemoveElement DEF PermitsFit
  <2>2. Cardinality(Blocking \ {q}) \in Nat
    BY <2>1, FS_CardinalityType
  <2> QED  BY <1>1, <1>2, <1>4, <2>1, <2>2, GrantTypes DEF PermitsFit
<1> QED  BY <1>7, <1>8 DEF GrantInv

(* Every step keeps the invariant. *)
LEMMA GrantKeeps == GrantInv /\ [GrantNext]_grantVars => GrantInv'
<1> SUFFICES ASSUME GrantInv, [GrantNext]_grantVars PROVE GrantInv'
  OBVIOUS
<1>1. CASE GrantClock \/ (\E q \in GrantRequests : HangUp(q)) \/ UNCHANGED grantVars
  <2>1. /\ UNCHANGED <<grantCall, permits, reservation>> /\ grantNow' \in Nat
    BY <1>1 DEF GrantInv, GrantsFit, GrantClock, HangUp, grantVars
  <2>2. Blocking' = Blocking
    BY <2>1 DEF Blocking
  <2>3. PermitsFit'
    BY <2>1, <2>2 DEF GrantInv, PermitsFit
  <2>4. GrantsFit'
    BY <2>1, <2>2 DEF GrantInv, GrantsFit, GoodGrant, WallFits, PeriodStart, PeriodEnd, PeriodAt
  <2> QED  BY <2>3, <2>4 DEF GrantInv
<1> QED  BY <1>1, ReceiveKeeps, BlockingEndsKeeps DEF GrantNext

(* The invariant of compute_budget_api.rs holds for any grants, requests and  *)
(* number of permits.                                                         *)
THEOREM GrantInvariance == GrantSpec => []GrantInv
BY GrantStarts, GrantKeeps, PTL DEF GrantSpec

(* The invariant is stronger than the two properties. *)
LEMMA GrantSafe == GrantInv => WorkStaysInPeriod /\ LedgerCallsBounded
<1> SUFFICES ASSUME GrantInv PROVE WorkStaysInPeriod /\ LedgerCallsBounded
  OBVIOUS
<1>1. LedgerCallsBounded
  BY DEF GrantInv, PermitsFit, Blocking, LedgerCallsBounded
<1>2. ASSUME NEW g \in OfferedGrants, reservation[g].state = "active"
      PROVE  /\ GrantOf[g].signed /\ reservation[g].started < GrantOf[g].expires
             /\ PeriodStart(GrantOf[g].period) <= reservation[g].started
             /\ reservation[g].started + GrantOf[g].wall <= PeriodEnd(GrantOf[g].period)
  <2>1. PICK s \in Nat : s = reservation[g].started
    BY DEF GrantInv, GrantsFit
  <2>2. GoodGrant(g) /\ s < GrantOf[g].expires /\ s \div PeriodLength = GrantOf[g].period
    BY <1>2, <2>1 DEF GrantInv, GrantsFit, PeriodAt
  <2>3. GrantOf[g].expires \in Nat /\ GrantOf[g].wall \in Nat /\ GrantOf[g].period \in Nat /\ PeriodLength \in Nat \ {0}
    BY GrantTypes
  <2>4. GrantOf[g].period * PeriodLength <= s
    BY <2>1, <2>2, <2>3, Quotient
  <2>5. PICK end \in Int : end = PeriodEnd(GrantOf[g].period)
    BY <2>3 DEF PeriodEnd
  <2>6. GrantOf[g].signed /\ GrantOf[g].expires + GrantOf[g].wall <= end
    BY <2>2, <2>5 DEF GoodGrant, WallFits
  <2>7. s + GrantOf[g].wall <= end
    BY <2>1, <2>2, <2>3, <2>5, <2>6
  <2> QED  BY <2>1, <2>2, <2>4, <2>5, <2>6, <2>7 DEF PeriodStart
<1> QED  BY <1>1, <1>2 DEF WorkStaysInPeriod

(* Budgets, for every calendar day, plan and grant: billing periods are the   *)
(* months of the calendar, an allowance is never rounded up nor turned into   *)
(* "no ceiling", granted work ends in the period it was granted in, and the   *)
(* budget API never runs more ledger calls than it has permits.               *)
THEOREM BudgetsAlwaysHold == MeterSpec /\ GrantSpec => []BudgetsHold
<1>1. MeterInv /\ GrantInv => BudgetsHold
  BY MeterPeriods, MeterAllowance, GrantSafe DEF BudgetsHold
<1> QED  BY <1>1, MeterInvariance, GrantInvariance, PTL
================================================================================
