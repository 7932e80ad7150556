----------------------------- MODULE BoxExecServer -----------------------------
(***************************************************************************)
(* The exec server inside a check-host box: what it refuses to start       *)
(* without, which requests it admits, and run_captured, which runs a       *)
(* command in a process group of its own, drains its output and races the  *)
(* whole against a deadline.                                               *)
(*                                                                         *)
(* A command may leave one descendant behind, in its process group or in a *)
(* session of its own, which may keep the output pipe open.  Output is     *)
(* counted in bytes; stdout stands for both streams.                       *)
(***************************************************************************)
EXTENDS Integers, FiniteSets

CONSTANTS
  BoxCalls,          \* requests
  MaxCaptureBytes,   \* MAX_CAPTURE_BYTES
  PipeBytes,         \* what a pipe holds before its writer blocks
  MaxWritten         \* bound: bytes a command writes

ASSUME BoxExecAssumption == MaxCaptureBytes \in Nat /\ PipeBytes \in Nat \ {0} /\ MaxWritten \in Nat

VARIABLES
  boxServer,   \* whether it serves, and the dev-environment identity it was started with
  boxCall,     \* each request and where its answer stands
  boxProc      \* the process of each request, its descendant and its pipe

boxExecVars == <<boxServer, boxCall, boxProc>>

TokenFiles == {"unset", "unreadable", "symlink", "mode0644", "oversized", "blank", "token"}
Identities == {"none", "partial", "s1", "s2"}

(* ExecAuth::from_env: never a token in the environment, only one in a     *)
(* regular file of mode 0400.                                              *)
AuthFromEnv(envToken, file) == ~envToken /\ file = "token"

NoProc == [child |-> "none", kid |-> "none", holds |-> FALSE, written |-> 0, pipe |-> 0]

BoxExecInit ==
  /\ \E envToken \in BOOLEAN, file \in TokenFiles, id \in Identities :
       boxServer = [serves |-> AuthFromEnv(envToken, file), id |-> id]
  /\ boxCall = [c \in BoxCalls |-> [at |-> "idle", buf |-> 0, code |-> "none", out |-> 0]]
  /\ boxProc = [c \in BoxCalls |-> NoProc]

BoxExecTypeOK ==
  /\ \A c \in BoxCalls : boxCall[c].at \in {"idle", "running", "killed", "answered", "timedout", "refused", "gone"}
  /\ \A c \in BoxCalls : boxProc[c].pipe \in 0..PipeBytes /\ boxCall[c].buf \in 0..MaxCaptureBytes

AnswerWith(c, at) == boxCall' = [boxCall EXCEPT ![c].at = at]

(* matches: no identity on either side, or the same complete one on both. *)
IdentityMatches(expected) == boxServer.id = expected /\ expected # "partial"

(* require_bearer_or_header: one of the two headers carries the token. *)
Authorized(bearer, header) == bearer = "token" \/ header = "token"

(* require_bearer_or_header, then clw_handler's identity or exec_handler; an   *)
(* empty argv and a command that cannot be spawned are refused as well.        *)
BoxRequest(c, bearer, header, clw, expected, spawns) ==
  /\ boxServer.serves /\ boxCall[c].at = "idle"
  /\ IF Authorized(bearer, header) /\ (clw => IdentityMatches(expected)) /\ spawns
     THEN AnswerWith(c, "running") /\ boxProc' = [boxProc EXCEPT ![c].child = "alive"]
     ELSE AnswerWith(c, "refused") /\ UNCHANGED boxProc
  /\ UNCHANGED boxServer

--------------------------------------------------------------------------------
(* The command *)

CommandWrites(c) ==
  /\ boxProc[c].child = "alive" /\ boxProc[c].written < MaxWritten /\ boxProc[c].pipe < PipeBytes
  /\ boxProc' = [boxProc EXCEPT ![c].written = @ + 1, ![c].pipe = @ + 1]
  /\ UNCHANGED <<boxServer, boxCall>>

CommandForks(c, kid, holds) ==
  /\ boxProc[c].child = "alive" /\ boxProc[c].kid = "none"
  /\ boxProc' = [boxProc EXCEPT ![c].kid = kid, ![c].holds = holds]
  /\ UNCHANGED <<boxServer, boxCall>>

CommandExits(c, how) ==
  /\ boxProc[c].child = "alive" /\ boxProc' = [boxProc EXCEPT ![c].child = how]
  /\ UNCHANGED <<boxServer, boxCall>>

KidExits(c) ==
  /\ boxProc[c].kid \in {"group", "detached"} /\ boxProc' = [boxProc EXCEPT ![c].kid = "dead"]
  /\ UNCHANGED <<boxServer, boxCall>>

--------------------------------------------------------------------------------
(* run_captured *)

PipeOpen(c) == boxProc[c].child = "alive" \/ (boxProc[c].kid \in {"group", "detached"} /\ boxProc[c].holds)
AtEof(c) == ~PipeOpen(c) /\ boxProc[c].pipe = 0

(* read_capped: past the cap it reads and drops. *)
ReadCapped(c) ==
  /\ boxCall[c].at \in {"running", "killed"} /\ boxProc[c].pipe > 0
  /\ boxProc' = [boxProc EXCEPT ![c].pipe = @ - 1]
  /\ boxCall' = [boxCall EXCEPT ![c].buf = IF @ < MaxCaptureBytes THEN @ + 1 ELSE @]
  /\ UNCHANGED boxServer

(* Mutant: the answer waits for the child alone and not for its output. *)
PipesJoinedChildOnly(c) == boxProc[c].child # "alive"

(* The child has been waited for and both drains are at the end. *)
PipesJoined(c) == boxProc[c].child # "alive" /\ AtEof(c)

ExitCode(c) == IF boxProc[c].child \in {"0", "1"} THEN boxProc[c].child ELSE "null"

AnswerCompleted(c) ==
  /\ boxCall[c].at = "running" /\ PipesJoined(c)
  /\ boxCall' = [boxCall EXCEPT ![c].at = "answered", ![c].code = ExitCode(c), ![c].out = boxCall[c].buf]
  /\ UNCHANGED <<boxServer, boxProc>>

(* kill_group *)
KillGroup(proc) == [proc EXCEPT !.child = IF @ = "alive" THEN "killed" ELSE @, !.kid = IF @ = "group" THEN "dead" ELSE @]

(* The deadline: the drains are dropped with what they had read. *)
DeadlineHits(c) ==
  /\ boxCall[c].at = "running"
  /\ boxProc' = [boxProc EXCEPT ![c] = KillGroup(@)]
  /\ boxCall' = [boxCall EXCEPT ![c].at = "killed", ![c].buf = 0]
  /\ UNCHANGED boxServer

AnswerTimeout(c) ==
  /\ boxCall[c].at = "killed" /\ AtEof(c)
  /\ boxCall' = [boxCall EXCEPT ![c].at = "timedout", ![c].code = "null", ![c].out = boxCall[c].buf]
  /\ UNCHANGED <<boxServer, boxProc>>

(* The caller hangs up: the future is dropped, and kill_on_drop kills the child. *)
CallerHangsUp(c) ==
  /\ boxCall[c].at \in {"running", "killed"} /\ AnswerWith(c, "gone")
  /\ boxProc' = [boxProc EXCEPT ![c].child = IF @ = "alive" THEN "killed" ELSE @]
  /\ UNCHANGED boxServer

BoxExecNext ==
  \E c \in BoxCalls :
    \/ \E bearer, header \in {"none", "other", "token"}, clw, spawns \in BOOLEAN, expected \in Identities :
         BoxRequest(c, bearer, header, clw, expected, spawns)
    \/ CommandWrites(c) \/ KidExits(c) \/ ReadCapped(c)
    \/ \E kid \in {"group", "detached"}, holds \in BOOLEAN : CommandForks(c, kid, holds)
    \/ \E how \in {"0", "1", "signal"} : CommandExits(c, how)
    \/ AnswerCompleted(c) \/ DeadlineHits(c) \/ AnswerTimeout(c) \/ CallerHangsUp(c)

BoxExecSpec == BoxExecInit /\ [][BoxExecNext]_boxExecVars

--------------------------------------------------------------------------------
(* An exit code is that of a command that ended by itself, and comes with all *)
(* it wrote up to the cap; after a timeout nothing of the command's process   *)
(* group is alive, and the answer carries no exit code.                       *)
ExecAnswerIsTrue ==
  \A c \in BoxCalls :
    /\ boxCall[c].code \in {"0", "1"} =>
         /\ boxProc[c].child = boxCall[c].code
         /\ boxCall[c].out = IF boxProc[c].written < MaxCaptureBytes THEN boxProc[c].written ELSE MaxCaptureBytes
    /\ boxCall[c].at = "timedout" => boxCall[c].code = "null" /\ boxProc[c].child # "alive" /\ boxProc[c].kid # "group"

(* "drain whatever the pipes already hold so partial output is still          *)
(* returned": the answer after a timeout has what the command wrote.          *)
PartialOutputKept ==
  \A c \in BoxCalls : boxCall[c].at = "timedout" =>
    boxCall[c].out = IF boxProc[c].written < MaxCaptureBytes THEN boxProc[c].written ELSE MaxCaptureBytes
================================================================================
