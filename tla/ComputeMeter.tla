----------------------------- MODULE ComputeMeter -----------------------------
(****************************************************************************)
(* The arithmetic of metered compute: the billing period of an instant        *)
(* (compute_meter.rs, period_key), the window a grant may run in              *)
(* (compute_grant.rs, wall_stays_in_period) and the conversion of a plan's    *)
(* decimal max_vcpu_h to milliseconds (decimal.rs).  The clock walks the      *)
(* calendar a day at a time, because milliseconds leave TLC's integers; the   *)
(* code's formulas are compared with that walk.  The second half is the       *)
(* compute-budget API, which spends the allowance through signed grants.      *)
(****************************************************************************)
EXTENDS Integers, FiniteSets, Sequences

CONSTANTS
  Anchors,      \* dates a walk starts at: [day, y, m, d], day counted from 1970-01-01
  WalkDays,     \* bound on the length of a walk
  WallDays,     \* walls asked for, in days
  MsPerVcpuHour, LedgerMax,  \* the scale and the i64 limit of the ledger
  Mantissas, FractionDigits, Exponents  \* the numbers of a plan

ASSUME MeterAssumption ==
  /\ WalkDays \in Nat /\ WallDays \subseteq Nat \ {0}
  /\ MsPerVcpuHour \in Nat \ {0} /\ LedgerMax \in Nat
  /\ Mantissas \subseteq Nat /\ FractionDigits \subseteq Nat /\ Exponents \subseteq Int

VARIABLES
  anchor,    \* where the walk began
  day,       \* days since the epoch
  civil,     \* the date, kept by counting
  allowance  \* the number of a plan and what max_vcpu_h_ceiling_ms makes of it

computeMeterVars == <<anchor, day, civil, allowance>>

(* The calendar, as the reference. *)
Leap(y) == y % 4 = 0 /\ (y % 100 # 0 \/ y % 400 = 0)

DaysIn(y, m) == IF m = 2 THEN (IF Leap(y) THEN 29 ELSE 28) ELSE IF m \in {4, 6, 9, 11} THEN 30 ELSE 31

Tomorrow(c) ==
  IF c.d < DaysIn(c.y, c.m) THEN [c EXCEPT !.d = @ + 1]
  ELSE IF c.m < 12 THEN [y |-> c.y, m |-> c.m + 1, d |-> 1] ELSE [y |-> c.y + 1, m |-> 1, d |-> 1]

(* The day of a date, counted from 1970-01-01: the years before it with their *)
(* leap days (477 of them precede 1970), then the months before it.           *)
DaysBefore(y, m) ==
  <<0, 31, 59, 90, 120, 151, 181, 212, 243, 273, 304, 334>>[m] + (IF m > 2 /\ Leap(y) THEN 1 ELSE 0)

DayNumber(c) ==
  365 * (c.y - 1970) + (c.y - 1) \div 4 - (c.y - 1) \div 100 + (c.y - 1) \div 400 - 477
    + DaysBefore(c.y, c.m) + c.d - 1

IsDate(c) == c.y \in Nat /\ c.y >= 1970 /\ c.m \in 1..12 /\ c.d \in 1..DaysIn(c.y, c.m)

ASSUME AnchorAssumption == \A a \in Anchors : IsDate(a) /\ a.day = DayNumber(a)

(* civil_from_days; for days since 1970 the era is a plain quotient. *)
CivilFromDays(days) ==
  LET z     == days + 719468
      era   == z \div 146097
      doe   == z - era * 146097
      yoe   == (doe - doe \div 1460 + doe \div 36524 - doe \div 146096) \div 365
      doy   == doe - (365 * yoe + yoe \div 4 - yoe \div 100)
      mp    == (5 * doy + 2) \div 153
      month == IF mp < 10 THEN mp + 3 ELSE mp - 9
  IN  [year |-> yoe + era * 400 + (IF month <= 2 THEN 1 ELSE 0), month |-> month]

PeriodKey(days) == CivilFromDays(days).year * 100 + CivilFromDays(days).month

DaysFromCivil(year, month, dom) ==
  LET y   == year - (IF month <= 2 THEN 1 ELSE 0)
      era == y \div 400
      yoe == y - era * 400
      mp  == month + (IF month > 2 THEN 0 - 3 ELSE 9)
      doy == (153 * mp + 2) \div 5 + dom - 1
  IN  era * 146097 + yoe * 365 + yoe \div 4 - yoe \div 100 + doy - 719468

(* wall_stays_in_period *)
WallStaysInPeriod(period, expires, wall) ==
  LET year == period \div 100
      month == period % 100
      start == DaysFromCivil(year, month, 1)
      end   == IF month = 12 THEN DaysFromCivil(year + 1, 1, 1) ELSE DaysFromCivil(year, month + 1, 1)
  IN  expires >= start /\ expires + wall <= end

(* The power of ten by which the decimal point moves. *)
Pow10(n) ==
  LET pow[k \in 0..n] == IF k = 0 THEN 1 ELSE 10 * pow[k - 1]
  IN  pow[n]

Unreachable == 0 - 1

(* max_vcpu_h_ceiling_ms: 0 disables the ceiling, so nothing that is positive *)
(* may become 0.                                                              *)
CeilingMs(mantissa, digits, exponent) ==
  LET scale     == digits - exponent
      numerator == mantissa * MsPerVcpuHour
      ms        == IF scale <= 0 THEN numerator * Pow10(0 - scale) ELSE numerator \div Pow10(scale)
  IN  IF mantissa = 0 THEN 0 ELSE IF ms = 0 \/ ms > LedgerMax THEN Unreachable ELSE ms

MeterInit ==
  /\ anchor \in Anchors
  /\ day = anchor.day
  /\ civil = [y |-> anchor.y, m |-> anchor.m, d |-> anchor.d]
  /\ allowance = [mantissa |-> 0, digits |-> 0, exponent |-> 0, ms |-> 0]

NextDay ==
  /\ day < anchor.day + WalkDays
  /\ allowance.mantissa = 0
  /\ day' = day + 1
  /\ civil' = Tomorrow(civil)
  /\ UNCHANGED <<anchor, allowance>>

ReadAllowance(m, f, e) ==
  /\ day = 0
  /\ allowance' = [mantissa |-> m, digits |-> f, exponent |-> e, ms |-> CeilingMs(m, f, e)]
  /\ UNCHANGED <<anchor, day, civil>>

MeterNext ==
  \/ NextDay
  \/ \E m \in Mantissas, f \in FractionDigits, e \in Exponents : ReadAllowance(m, f, e)

MeterSpec == MeterInit /\ [][MeterNext]_computeMeterVars

(* The two calendars are inverses of each other and of the real one, and a    *)
(* wall that is accepted for a grant that expires today ends within today's   *)
(* billing period (compute_meter.rs:83, compute_grant.rs:194).                *)
PeriodsAreCalendarMonths ==
  /\ PeriodKey(day) = civil.y * 100 + civil.m
  /\ DaysFromCivil(civil.y, civil.m, civil.d) = day
  /\ \A w \in WallDays : WallStaysInPeriod(PeriodKey(day), day, w) <=> PeriodKey(day + w - 1) = PeriodKey(day)

(* A plan's allowance is never rounded up, loses less than a millisecond, and *)
(* never turns into the 0 that means "no ceiling" (decimal.rs:18).            *)
AllowanceIsExact ==
  LET scale == allowance.digits - allowance.exponent
      up    == IF scale > 0 THEN Pow10(scale) ELSE 1
      down  == IF scale > 0 THEN 1 ELSE Pow10(0 - scale)
      exact == allowance.mantissa * MsPerVcpuHour * down
  IN  /\ allowance.ms # Unreachable => allowance.ms * up <= exact /\ exact < (allowance.ms + 1) * up
      /\ allowance.ms = 0 => allowance.mantissa = 0

--------------------------------------------------------------------------------
(* The compute-budget API (compute_budget_api.rs): signed grants              *)
(* (compute_grant.rs) reserve, activate and cancel external compute in the    *)
(* ledger (pg_ledger/external_compute.rs, each operation one transaction      *)
(* under the tenant's lock; PgLedger looks inside it).  An operation runs on  *)
(* a blocking thread that outlives a client that hangs up.  It shares no      *)
(* state with the calendar above.                                             *)

CONSTANTS
  OfferedGrants,    \* tokens
  GrantOf,          \* GrantOf[g]: [issued, expires, wall, period, signed]
  GrantRequests,    \* requests
  GrantRequestOf,   \* GrantRequestOf[q]: [op, grant]
  BlockingPermits,  \* BLOCKING_PERMITS
  MaxTtl,           \* MAX_TTL_MS
  PeriodLength,     \* the length of a billing period
  GrantMaxNow       \* bound on the clock

ASSUME GrantAssumption ==
  /\ {BlockingPermits, MaxTtl, GrantMaxNow} \subseteq Nat /\ PeriodLength \in Nat \ {0}
  /\ GrantOf \in [OfferedGrants -> [issued : Nat, expires : Nat, wall : Nat, period : Nat, signed : BOOLEAN]]
  /\ GrantRequestOf \in [GrantRequests ->
       [op : {"reserve", "activate", "cancel", "settle", "baseline"}, grant : OfferedGrants]]

VARIABLES
  grantNow,    \* the clock
  grantCall,   \* grantCall[q]: "new", "blocking", "answered" or "refused"
  hungUp,      \* requests whose handler was dropped
  permits,     \* permits of the semaphore that are out
  reservation, \* reservation[g]: [state, started]
  baselineSet  \* the period's baseline has been imported

grantVars == <<grantNow, grantCall, hungUp, permits, reservation, baselineSet>>

GrantInit ==
  /\ grantNow = 0
  /\ grantCall = [q \in GrantRequests |-> "new"]
  /\ hungUp = {}
  /\ permits = 0
  /\ reservation = [g \in OfferedGrants |-> [state |-> "none", started |-> 0]]
  /\ baselineSet = FALSE

PeriodAt(t) == t \div PeriodLength

PeriodStart(p) == p * PeriodLength
PeriodEnd(p) == (p + 1) * PeriodLength

(* wall_stays_in_period, with periods of one length instead of the calendar. *)
WallFits(p) == p.expires >= PeriodStart(p.period) /\ p.expires + p.wall <= PeriodEnd(p.period)

(* validate_payload: a key that is known and a signature that verifies come   *)
(* before any field is believed.                                              *)
Verify(g, allow_expired) ==
  LET p == GrantOf[g] IN
  CASE ~p.signed -> "InvalidSignature"
    [] p.signed /\ ~allow_expired /\ p.expires <= grantNow -> "Expired"
    [] OTHER -> IF /\ p.issued <= grantNow /\ p.issued < p.expires /\ p.expires - p.issued <= MaxTtl
                   /\ p.wall > 0 /\ WallFits(p)
                THEN "ok" ELSE "Malformed"

(* cancel and settle take an expired grant; the baseline takes the operator's key. *)
Authenticated(q) ==
  LET r == GrantRequestOf[q] IN
  r.op = "baseline" \/ Verify(r.grant, r.op \in {"cancel", "settle"}) = "ok"

(* settle answers 503 without asking the ledger: nobody may attest the end of *)
(* external work yet.                                                         *)
NeedsLedger(q) == GrantRequestOf[q].op # "settle"

(* The handler up to try_acquire_owned: a request that does not authenticate, *)
(* settles, or finds no permit is refused at once.                            *)
Receive(q) ==
  LET admitted == Authenticated(q) /\ NeedsLedger(q) /\ permits < BlockingPermits IN
  /\ grantCall[q] = "new"
  /\ grantCall' = [grantCall EXCEPT ![q] = IF admitted THEN "blocking" ELSE "refused"]
  /\ permits' = permits + (IF admitted THEN 1 ELSE 0)
  /\ UNCHANGED <<grantNow, hungUp, reservation, baselineSet>>

(* reserve: in the grant's period, before its expiry, once, after the baseline. *)
Reserves(g) ==
  /\ PeriodAt(grantNow) = GrantOf[g].period
  /\ GrantOf[g].expires + GrantOf[g].wall <= PeriodEnd(GrantOf[g].period)
  /\ GrantOf[g].expires > grantNow
  /\ reservation[g].state = "none"
  /\ baselineSet

(* Mutant: the ledger trusts the check of the handler. *)
ActivatesUnchecked(g) == reservation[g].state = "prepared"

(* transition to active: the clock is read again under the lock. *)
Activates(g) ==
  /\ reservation[g].state = "prepared"
  /\ grantNow < GrantOf[g].expires
  /\ PeriodAt(grantNow) = GrantOf[g].period

(* transition to cancelled; without a row a fence is left behind. *)
Cancels(g) == reservation[g].state \in {"none", "prepared"}

Moved(q) ==
  LET r == GrantRequestOf[q] IN
  CASE r.op = "reserve" /\ Reserves(r.grant) -> [reservation EXCEPT ![r.grant].state = "prepared"]
    [] r.op = "activate" /\ Activates(r.grant) -> [reservation EXCEPT ![r.grant] = [state |-> "active", started |-> grantNow]]
    [] r.op = "cancel" /\ Cancels(r.grant) -> [reservation EXCEPT ![r.grant].state = "cancelled"]
    [] OTHER -> reservation

(* The blocking thread commits, or the ledger fails, and drops its permit. *)
BlockingEnds(q, ok) ==
  /\ grantCall[q] = "blocking"
  /\ reservation' = IF ok THEN Moved(q) ELSE reservation
  /\ baselineSet' = (baselineSet \/ (ok /\ GrantRequestOf[q].op = "baseline"))
  /\ permits' = permits - 1
  /\ grantCall' = [grantCall EXCEPT ![q] = "answered"]
  /\ UNCHANGED <<grantNow, hungUp>>

(* The client hangs up: the handler is dropped, the thread goes on. *)
HangUp(q) ==
  /\ grantCall[q] = "blocking" /\ q \notin hungUp
  /\ hungUp' = hungUp \cup {q}
  /\ UNCHANGED <<grantNow, grantCall, permits, reservation, baselineSet>>

GrantClock ==
  /\ grantNow < GrantMaxNow
  /\ grantNow' = grantNow + 1
  /\ UNCHANGED <<grantCall, hungUp, permits, reservation, baselineSet>>

GrantNext ==
  \/ \E q \in GrantRequests : Receive(q) \/ HangUp(q) \/ \E ok \in BOOLEAN : BlockingEnds(q, ok)
  \/ GrantClock

GrantSpec == GrantInit /\ [][GrantNext]_grantVars

(* However long a request waits for its thread, work that was activated runs  *)
(* its whole wall inside the billing period it was reserved in, under a grant *)
(* that was signed and still valid when it began.                             *)
WorkStaysInPeriod ==
  \A g \in OfferedGrants : reservation[g].state = "active" =>
    LET p == GrantOf[g]
        s == reservation[g].started
    IN  p.signed /\ s < p.expires /\ PeriodStart(p.period) <= s /\ s + p.wall <= PeriodEnd(p.period)

(* Clients that hang up never make room for more ledger operations than the   *)
(* semaphore has permits (compute_budget_api.rs:255, the permit moves into    *)
(* the blocking closure).                                                     *)
LedgerCallsBounded == Cardinality({q \in GrantRequests : grantCall[q] = "blocking"}) <= BlockingPermits
===============================================================================
