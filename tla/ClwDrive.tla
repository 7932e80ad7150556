------------------------------- MODULE ClwDrive -------------------------------
(****************************************************************************)
(* Driving clw in a box (clw_drive.rs): snapshot, hydrate, a receipt directory *)
(* from mktemp, the run, the receipt read back, the directory removed.  Any    *)
(* command may fail or be killed.  clw (external) exits with the wrapped       *)
(* command's code, or with 125 for a failure of its own, and writes EXECUTED   *)
(* to the receipt when the command ran; the command itself may exit with 125.  *)
(****************************************************************************)
EXTENDS Integers

CONSTANTS Drives,     \* concurrent drives
          ChildCodes  \* exit codes of wrapped commands

VARIABLE drive   \* drive[d]: the command it is at, and what became of clw

InternalExit == 125   \* CLW_INTERNAL_EXIT_CODE
NoCode == 0 - 1
NoDrive == [at |-> "snapshot", code |-> NoCode, receipt |-> "none", child |-> NoCode, outcome |-> "none"]

ASSUME DriveAssumption == InternalExit \in ChildCodes /\ ChildCodes \subseteq Nat

DriveInit == drive = [d \in Drives |-> NoDrive]

DriveGoes(d, r) == drive' = [drive EXCEPT ![d] = r]
ClwFailed(d) == DriveGoes(d, [drive[d] EXCEPT !.at = "done", !.outcome = "ClwFailed"])

(* snapshot, hydrate and mktemp: anything but exit 0 ends the drive; so does a *)
(* receipt directory that is not where mktemp was told to put it.              *)
Prepare(d) ==
  LET next == [snapshot |-> "hydrate", hydrate |-> "mktemp", mktemp |-> "run"]
  IN  /\ drive[d].at \in DOMAIN next
      /\ DriveGoes(d, [drive[d] EXCEPT !.at = next[drive[d].at]]) \/ ClwFailed(d)

(* clw runs: the command's exit, clw's own failure, or a signal before or after *)
(* the command ran.                                                             *)
ClwRuns(d) ==
  /\ drive[d].at = "run"
  /\ \/ \E c \in ChildCodes :
          DriveGoes(d, [drive[d] EXCEPT !.at = "cat", !.code = c, !.child = c, !.receipt = "EXECUTED"])
     \/ DriveGoes(d, [drive[d] EXCEPT !.at = "cat", !.code = InternalExit, !.receipt = "NOT_STARTED"])
     \/ \E r \in {"none", "NOT_STARTED", "EXECUTED"} :
          DriveGoes(d, [drive[d] EXCEPT !.at = "cat", !.receipt = r])
     \/ DriveGoes(d, [drive[d] EXCEPT !.at = "done", !.outcome = "Error"])

(* The receipt is read back; a cat that fails leaves it unknown. *)
ReadReceipt(d) ==
  /\ drive[d].at = "cat"
  /\ \E r \in {"none", drive[d].receipt} : DriveGoes(d, [drive[d] EXCEPT !.at = "judge", !.receipt = r])

(* 125 is the command's own only with the receipt; a signal is nobody's verdict. *)
Outcome(r) ==
  IF r.code = NoCode \/ (r.code = InternalExit /\ r.receipt # "EXECUTED") THEN "ClwFailed" ELSE "Ran"

(* The verdict, and whether clw wrote the result back to its cache. *)
Judge(d) ==
  /\ drive[d].at = "judge"
  /\ DriveGoes(d, [drive[d] EXCEPT !.at = "done", !.outcome = Outcome(drive[d])])

DriveNext == \E d \in Drives : Prepare(d) \/ ClwRuns(d) \/ ReadReceipt(d) \/ Judge(d)

DriveSpec == DriveInit /\ [][DriveNext]_drive

--------------------------------------------------------------------------------
(* A drive reports a verdict only if the wrapped command ran, and then with   *)
(* the command's own code, 125 included; what cannot be told apart fails.     *)
VerdictIsTheChilds ==
  \A d \in Drives : drive[d].outcome = "Ran" => drive[d].child = drive[d].code /\ drive[d].code # NoCode
===============================================================================
