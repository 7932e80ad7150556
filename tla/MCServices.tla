------------------------------ MODULE MCServices ------------------------------
(****************************************************************************)
(* The services around a lease, for TLC: budgets, billing, credentials, the   *)
(* autoscaler, exec and attestation, and the server that starts and stops     *)
(* them.  They share no state: what one does to another is an input of the    *)
(* other's actions.  One run therefore checks them as a sum, not a product:   *)
(* `part` names the component that moves and the others stay in their initial *)
(* state, so the reachable states of each are exactly those of its own        *)
(* specification.                                                             *)
(****************************************************************************)
EXTENDS SlotBilling, ComputeMeter, Autoscaler, Execution, Attestation,
        RunnerCredentials, RunnerRegistration, ServerBoot

VARIABLE part

(* Constants too long for a configuration file. *)

MCAllowedTarget == [m \in RunnerMints |-> m # "m3"]
MCStrings == {<<>>, <<0>>, <<1, 0>>}

(* The walk starts at the epoch, a year before a century that is a leap year  *)
(* and a year before one that is not.                                         *)
MCAnchors == {[day |-> 0, y |-> 1970, m |-> 1, d |-> 1], [day |-> 10592, y |-> 1999, m |-> 1, d |-> 1],
              [day |-> 47117, y |-> 2099, m |-> 1, d |-> 1]}
MCExponents == {-4, -2, 0, 1, 2}

(* The clocks around which a JWT starts and stops being accepted. *)
MCSkews == {-10, -9, 1, 2}

GrantToken(issued, expires, wall, signedOk) ==
  [issued |-> issued, expires |-> expires, wall |-> wall, period |-> 0, signed |-> signedOk]
MCGrantOf == <<GrantToken(0, 2, 2, TRUE), GrantToken(1, 2, 3, TRUE), GrantToken(0, 2, 1, FALSE)>>
MCGrantRequestOf ==
  LET ops == <<"reserve", "activate", "cancel", "baseline", "reserve", "settle", "reserve">>
      of  == <<1, 1, 1, 1, 2, 1, 3>>
  IN  [q \in GrantRequests |-> [op |-> ops[q], grant |-> of[q]]]

--------------------------------------------------------------------------------
(* A component that does not move starts in one of its initial states only. *)
OneIdleStart ==
  /\ part # "meter" => anchor.day = 0
  /\ part # "registration" => skew = 1

ServicesInit ==
  /\ part \in {"billing", "meter", "grants", "autoscaler", "execution", "attestation", "credentials",
               "registration", "boot"}
  /\ BillInit /\ MeterInit /\ GrantInit /\ ScalerInit /\ ExecInit /\ AttInit /\ CredInit
  /\ RegistrationInit /\ BootInit
  /\ OneIdleStart

OthersIdle ==
  /\ UNCHANGED part
  /\ part # "billing" => UNCHANGED billVars
  /\ part # "meter" => UNCHANGED computeMeterVars
  /\ part # "grants" => UNCHANGED grantVars
  /\ part # "autoscaler" => UNCHANGED scalerVars
  /\ part # "execution" => UNCHANGED execVars
  /\ part # "attestation" => UNCHANGED attVars
  /\ part # "credentials" => UNCHANGED credVars
  /\ part # "registration" => UNCHANGED registrationVars
  /\ part # "boot" => UNCHANGED bootVars

ServicesNext ==
  \/ part = "billing" /\ BillNext /\ OthersIdle
  \/ part = "meter" /\ MeterNext /\ OthersIdle
  \/ part = "grants" /\ GrantNext /\ OthersIdle
  \/ part = "autoscaler" /\ ScalerNext /\ OthersIdle
  \/ part = "execution" /\ ExecNext /\ OthersIdle
  \/ part = "attestation" /\ AttNext /\ OthersIdle
  \/ part = "credentials" /\ CredNext /\ OthersIdle
  \/ part = "registration" /\ RegistrationNext /\ OthersIdle
  \/ part = "boot" /\ BootNext /\ OthersIdle

--------------------------------------------------------------------------------
(* Properties that join what several modules promise about one concern *)

(* Billing: a slot event or a usage event is gone only when it was delivered   *)
(* or dropped at a cap and counted, the shutdown's last flush included.        *)
UsageSurvives == NoEventLostSilently /\ UsageIsPostedOrShed /\ NoUsageForgotten

(* Budgets: periods are calendar months, an allowance is converted exactly or  *)
(* refused, granted work never runs past the period it was granted in, and     *)
(* callers who hang up do not free the permits of calls that still run.        *)
BudgetsHold == PeriodsAreCalendarMonths /\ AllowanceIsExact /\ WorkStaysInPeriod /\ LedgerCallsBounded

(* Exec and attestation: what is signed really ran in a Held lease, and what   *)
(* verifies is what was signed.                                                *)
AttestationsAreReal == SignedResultsAreReal /\ AcceptedWasSigned
===============================================================================
