---------------------------- MODULE MintReadiness -----------------------------
(****************************************************************************)
(* The readiness gate in front of every acquire and of /readyz                *)
(* (mint_readiness.rs): the first caller starts a probe of the mint that      *)
(* nobody can cancel; every caller waits for it on a Notify.  The outcome is  *)
(* final for the life of the process.                                         *)
(****************************************************************************)
EXTENDS Naturals, FiniteSets

CONSTANTS
  ReadyCallers,   \* calls of wait_ready
  MaxAttempts     \* MAX_ATTEMPTS

ASSUME ReadyAssumption == MaxAttempts \in Nat \ {0}

VARIABLES
  readiness,   \* State: "Unknown", "Running", "Ready" or "Terminal"
  attempts,    \* transport failures of the probe so far
  probes,      \* probes ever started
  notices,     \* calls of notify_waiters
  caller       \* caller[c]: [at, since]; since is notices when its Notified was made

readyVars == <<readiness, attempts, probes, notices, caller>>

Settled == readiness \in {"Ready", "Terminal"}

ReadyInit ==
  /\ readiness = "Unknown"
  /\ attempts = 0 /\ probes = 0 /\ notices = 0
  /\ caller = [c \in ReadyCallers |-> [at |-> "new", since |-> 0]]


(* start: test and set under the lock. *)
StartProbe(c) ==
  /\ caller[c].at = "new"
  /\ probes' = probes + (IF readiness = "Unknown" THEN 1 ELSE 0)
  /\ readiness' = IF readiness = "Unknown" THEN "Running" ELSE readiness
  /\ caller' = [caller EXCEPT ![c].at = "loop"]
  /\ UNCHANGED <<attempts, notices>>

(* The Notified is made before the state is read. *)
MakeNotified(c) ==
  /\ caller[c].at = "loop"
  /\ caller' = [caller EXCEPT ![c] = [at |-> "look", since |-> notices]]
  /\ UNCHANGED <<readiness, attempts, probes, notices>>

LookAtState(c) ==
  /\ caller[c].at = "look"
  /\ caller' = [caller EXCEPT ![c].at = IF readiness = "Ready" THEN "true" ELSE IF readiness = "Terminal" THEN "false" ELSE "wait"]
  /\ UNCHANGED <<readiness, attempts, probes, notices>>

Woken(c) ==
  /\ caller[c].at = "wait" /\ notices > caller[c].since
  /\ caller' = [caller EXCEPT ![c].at = "loop"]
  /\ UNCHANGED <<readiness, attempts, probes, notices>>

(* READINESS_WAIT, shorter than the attempts of a probe together. *)
WaitTimesOut(c) ==
  /\ caller[c].at = "wait" /\ notices = caller[c].since
  /\ caller' = [caller EXCEPT ![c].at = "false"]
  /\ UNCHANGED <<readiness, attempts, probes, notices>>

(* The request is cancelled; the probe is a task of its own. *)
CallerDropped(c) ==
  /\ caller[c].at \in {"loop", "look", "wait"}
  /\ caller' = [caller EXCEPT ![c].at = "dropped"]
  /\ UNCHANGED <<readiness, attempts, probes, notices>>

(* An attempt that fails in transport is repeated. *)
ProbeRetries ==
  /\ readiness = "Running" /\ attempts + 1 < MaxAttempts
  /\ attempts' = attempts + 1
  /\ UNCHANGED <<readiness, probes, notices, caller>>

(* Mutant: only a success is announced. *)
AnnouncedSuccess(ready) == notices + (IF ready THEN 1 ELSE 0)

(* notify_waiters, whatever the outcome and with the state's lock held. *)
Announced(ready) == notices + 1

(* Any response is final, and so is the last transport failure or a panic. *)
ProbeEnds(ready) ==
  /\ readiness = "Running"
  /\ readiness' = IF ready THEN "Ready" ELSE "Terminal"
  /\ notices' = Announced(ready)
  /\ UNCHANGED <<attempts, probes, caller>>

ReadyNext ==
  \/ \E c \in ReadyCallers : \/ StartProbe(c) \/ MakeNotified(c) \/ LookAtState(c)
                             \/ Woken(c) \/ WaitTimesOut(c) \/ CallerDropped(c)
  \/ ProbeRetries
  \/ \E ready \in BOOLEAN : ProbeEnds(ready)

ReadySpec == ReadyInit /\ [][ReadyNext]_readyVars

(* No wakeup is lost between reading the state and waiting, whoever gave up   *)
(* in between, and no two probes are ever started.                            *)
NoReadinessWakeupLost ==
  /\ \A c \in ReadyCallers : caller[c].at = "wait" /\ Settled => notices > caller[c].since
  /\ probes <= 1
===============================================================================
