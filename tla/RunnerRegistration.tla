-------------------------- MODULE RunnerRegistration --------------------------
(****************************************************************************)
(* Just-in-time registration of a GitHub runner (runner_broker.rs, and the     *)
(* gates of acquire in leases.rs): the broker the environment selects, the     *)
(* authorization of the runner's target, the App's two legs (a signed JWT for  *)
(* an installation token, the token for a jitconfig) or the token's single     *)
(* leg, and GitHub (external), whose registry keeps a runner name that was     *)
(* taken although the answer was lost.  Times are minutes.                     *)
(****************************************************************************)
EXTENDS Integers, FiniteSets

CONSTANTS
  RunnerMints,    \* runner acquires
  AllowedTarget,  \* AllowedTarget[m]: the target of m is on its tenant's repo_allowlist
  Skews           \* the server's clock less GitHub's

ASSUME RegistrationAssumption == Skews \subseteq Int

VARIABLES
  broker,      \* AppState.runner_broker
  skew,
  mints,       \* mints[m]: where the mint is, its error and the credential it sends
  ghRunners,   \* runner names GitHub has registered
  drawn,       \* random suffixes drawn so far
  revoked      \* GitHub no longer accepts the App's key or the token

registrationVars == <<broker, skew, mints, ghRunners, drawn, revoked>>

(* BrokerError *)
BrokerErrors == {"Unreachable", "Unauthorized", "BadStatus", "BadResponse", "SigningFailed"}

NoMint == [at |-> "new", error |-> "none", entropy |-> TRUE, conflict |-> FALSE]

RegistrationInit ==
  /\ broker = "unread" /\ skew \in Skews
  /\ mints = [m \in RunnerMints |-> NoMint]
  /\ ghRunners = {} /\ drawn = 0 /\ revoked = FALSE

--------------------------------------------------------------------------------
(* runner_broker_from_env; a variable that is blank counts as absent. *)

Given == {"absent", "given"}
PemForms == {"absent", "pkcs1", "headers", "not base64", "rsa", "not rsa"}

(* reject_weak_secret: a development sentinel, or shorter than 16. *)
WeakToken(token) == token \in {"sentinel", "short"}

(* parse_pkcs8_pem: whether the bytes are an RSA key is not looked at. *)
ParsePkcs8Pem(pem) == pem \in {"rsa", "not rsa"}

(* The base64 variable is preferred, also when it cannot be decoded. *)
KeyPem(b64, raw) == IF b64 # "absent" THEN b64 ELSE raw

BrokerFromEnv ==
  \E token \in {"absent", "sentinel", "short", "strong"}, app, installation \in Given,
     b64 \in PemForms \cup {"undecodable"}, raw \in PemForms :
    /\ broker = "unread"
    /\ broker' = IF token # "absent" THEN (IF WeakToken(token) THEN "none" ELSE "pat")
                 ELSE IF app = "given" /\ installation = "given" /\ ParsePkcs8Pem(KeyPem(b64, raw))
                      THEN (IF KeyPem(b64, raw) = "rsa" THEN "app" ELSE "app, unusable key")
                      ELSE "none"
    /\ UNCHANGED <<skew, mints, ghRunners, drawn, revoked>>

--------------------------------------------------------------------------------
(* acquire *)

MintGoes(m, at) == mints' = [mints EXCEPT ![m].at = at]

MintFails(m, error) == mints' = [mints EXCEPT ![m].at = "failed", ![m].error = error]

RunnerModeEnabled == broker # "none"

(* The target, lower-cased, must be on the tenant's list. *)
TargetPermitted(m) == AllowedTarget[m]

(* The token's broker has one leg, the App's has two. *)
FirstStep == IF broker = "pat" THEN "jitconfig" ELSE "sign"

AcquireRunner(m) ==
  /\ broker # "unread" /\ mints[m].at = "new"
  /\ MintGoes(m, IF RunnerModeEnabled /\ TargetPermitted(m) THEN FirstStep ELSE "refused")
  /\ UNCHANGED <<broker, skew, ghRunners, drawn, revoked>>

(* mint_jit_offloaded: a panic of the blocking task. *)
MintPanics(m) ==
  /\ mints[m].at \in {"sign", "exchange", "jitconfig"}
  /\ MintFails(m, "Unreachable")
  /\ UNCHANGED <<broker, skew, ghRunners, drawn, revoked>>

--------------------------------------------------------------------------------
(* The App's first leg *)

(* Mutant: iat is the server's own now. *)
IssuedAtNow == skew

(* The claims, as GitHub's clock reads them: iat is backdated by a minute,   *)
(* exp is at most ten minutes ahead.                                         *)
IssuedAt == skew - 1
ExpiresAt == skew + 10

SignJwt(m) ==
  /\ mints[m].at = "sign"
  /\ IF broker = "app" THEN MintGoes(m, "exchange") ELSE MintFails(m, "SigningFailed")
  /\ UNCHANGED <<broker, skew, ghRunners, drawn, revoked>>

(* check_status *)
CheckStatus(status) ==
  CASE status \in 200..299 -> "none"
    [] status \in {401, 403} -> "Unauthorized"
    [] OTHER -> "BadStatus"

(* GitHubHttp::post: a timeout or a broken body is an error of the transport. *)
Lost == "Unreachable"

(* GitHub verifies the JWT against its own clock, which reads 0. *)
InstallationTokenStatus ==
  IF revoked \/ IssuedAt > 0 \/ ExpiresAt <= 0 THEN {401} ELSE {201, 500}

ExchangeJwt(m) ==
  /\ mints[m].at = "exchange"
  /\ \/ MintFails(m, Lost)
     \/ \E status \in InstallationTokenStatus, token \in {"present", "empty", "malformed"} :
          LET error == CheckStatus(status) IN
          IF error # "none" THEN MintFails(m, error)
          ELSE IF token # "present" THEN MintFails(m, "BadResponse")
          ELSE MintGoes(m, "jitconfig")
  /\ UNCHANGED <<broker, skew, ghRunners, drawn, revoked>>

--------------------------------------------------------------------------------
(* jit_config, the same for both brokers but for the credential *)

(* unique_runner_name: 64 random bits, or zeros when the draw fails. *)
UniqueRunnerName(random) == IF random THEN drawn + 1 ELSE 0

JitConfigStatus(name) ==
  IF revoked THEN {401} ELSE IF name \in ghRunners THEN {409} ELSE {201, 500}

(* Answered or lost, a request that reached GitHub has registered its name. *)
PostJitConfig(m) ==
  \E random \in BOOLEAN :
    LET name == UniqueRunnerName(random) IN
    /\ mints[m].at = "jitconfig"
    /\ drawn' = IF random THEN drawn + 1 ELSE drawn
    /\ \E status \in JitConfigStatus(name), lost \in BOOLEAN, body \in {"config", "empty", "malformed"} :
         LET error == IF lost THEN Lost ELSE CheckStatus(status)
             failed == error # "none" \/ body # "config"
         IN  /\ ghRunners' = IF status = 201 THEN ghRunners \cup {name} ELSE ghRunners
             /\ mints' = [mints EXCEPT ![m] =
                  [at |-> IF failed THEN "failed" ELSE "registered",
                   error |-> IF error # "none" THEN error ELSE IF failed THEN "BadResponse" ELSE "none",
                   entropy |-> random, conflict |-> status = 409]]
    /\ UNCHANGED <<broker, skew, revoked>>

(* The App is uninstalled, or the token revoked, on GitHub's side. *)
RevokeAtGitHub ==
  /\ ~revoked /\ revoked' = TRUE
  /\ UNCHANGED <<broker, skew, mints, ghRunners, drawn>>

RegistrationNext ==
  \/ BrokerFromEnv \/ RevokeAtGitHub
  \/ \E m \in RunnerMints :
       AcquireRunner(m) \/ MintPanics(m) \/ SignJwt(m) \/ ExchangeJwt(m) \/ PostJitConfig(m)

RegistrationSpec == RegistrationInit /\ [][RegistrationNext]_registrationVars

--------------------------------------------------------------------------------
RegistrationTypeOK ==
  /\ broker \in {"unread", "none", "pat", "app", "app, unusable key"}
  /\ \A m \in RunnerMints : mints[m].error \in BrokerErrors \cup {"none"}

(* A mint is refused by GitHub only for a cause that lies outside the broker: *)
(* no name is taken twice, whatever mints run at once or lost their answer    *)
(* before, unless the random draw failed; and while nobody revoked the        *)
(* credential, a clock at most a minute ahead and less than ten minutes       *)
(* behind does not make it Unauthorized.                                      *)
MintRefusedForCause ==
  \A m \in RunnerMints :
    /\ mints[m].conflict => ~mints[m].entropy
    /\ mints[m].error = "Unauthorized" /\ ~revoked => skew > 1 \/ skew <= 0 - 10
===============================================================================
