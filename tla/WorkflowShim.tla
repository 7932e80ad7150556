---------------------------- MODULE WorkflowShim ----------------------------
(***************************************************************************)
(* The Actions-YAML shim of the runner (corelink-runner, shim/): a         *)
(* line-by-line parser of workflow files, the executor of the first job's  *)
(* steps, the secrets broker it asks, and the equivalence harness.         *)
(*                                                                         *)
(* A workflow file is a sequence of lines.  The parser looks only at a     *)
(* line's indentation, at whether it opens a list item, at its key and at  *)
(* a few values, so a line is                                              *)
(*    [in |-> indentation, dash |-> BOOLEAN, key |-> STRING, val |-> STRING] *)
(* where val is the text after the colon: "" for none, "|" for a block     *)
(* scalar, the name of a secret when the text refers to that secret, or    *)
(* one of the words the parser and the executor tell apart.  A key that    *)
(* none of the code's cases names is an entry of whatever map is open.     *)
(* The key "text" is a line without a colon and "blank" an empty line.     *)
(***************************************************************************)
EXTENDS Naturals, Sequences, SequencesExt

CONSTANTS
    ShimPrefixes,   \* how the workflow files begin: a set of sequences of lines
    ShimLines,      \* the lines their authors go on with
    MaxShimLines,   \* how many of these a file has at most
    ShimSecrets     \* the names of secrets

ShimLine == [in : Nat, dash : BOOLEAN, key : STRING, val : STRING]

ASSUME ShimAssumption ==
    /\ \A prefix \in ShimPrefixes : prefix \in Seq(ShimLine)
    /\ \A l \in ShimLines : l \in ShimLine

VARIABLES
    shimFile,       \* [lines, added]: the workflow file being written
    shimBroker,     \* [kind, tokens]: the broker the executor was built with
    shimWork,       \* [phase, jobs, triggers, error]: the parsed workflow
    shimRun,        \* [outcomes, ok, denied]: the execution so far
    shimReports,    \* out_of_contract of the parse, then of the result
    shimCompared    \* what the equivalence harness answered

shimVars ==
    <<shimFile, shimBroker, shimWork, shimRun, shimReports, shimCompared>>

-----------------------------------------------------------------------------
(* What the parser sees of a line                                          *)

IsBlank(l) == l.key = "blank"

HasColon(l) == l.key \notin {"text", "blank"}

\* Exactly two blanks of indentation and a trailing colon: a job id.
OpensJob(l) == l.in = 2 /\ HasColon(l) /\ l.val = ""

\* extract_secret_refs: the secrets that a text refers to, in order.
SecretRefs(val) == IF val \in ShimSecrets THEN <<val>> ELSE <<>>

\* An entry of a map, later ones overwriting earlier ones.
WithEntry(map, l) ==
    [k \in DOMAIN map \cup {l.key} |-> IF k = l.key THEN l.val ELSE map[k]]

NoEntries == [k \in {} |-> ""]

SupportedAction(uses) == uses = "artifact"

-----------------------------------------------------------------------------
(* parse_step: the lines of one step, from its dash to the next one        *)

NoStep ==
    [named |-> FALSE, run |-> <<>>, uses |-> <<>>, env |-> NoEntries,
     with |-> NoEntries, continues |-> FALSE, cond |-> <<>>,
     block |-> FALSE, text |-> <<>>, open |-> "none",
     reports |-> {}, stop |-> FALSE]

\* A run: key: a block scalar begins, or the command is the rest of the line.
StepRun(s, l) ==
    IF l.val = "|" THEN [s EXCEPT !.block = TRUE, !.text = <<>>]
    ELSE IF l.val # "" THEN [s EXCEPT !.run = <<SecretRefs(l.val)>>]
    ELSE s

\* The line that holds the dash: only these three keys are looked at.
FirstLineOfStep(l) ==
    CASE l.key = "name" -> [NoStep EXCEPT !.named = TRUE]
      [] l.key = "run"  -> StepRun(NoStep, l)
      [] l.key = "uses" -> [NoStep EXCEPT !.uses = <<l.val>>]
      [] OTHER          -> NoStep

StepKeys == {"name", "run", "uses", "continue-on-error", "if", "with", "env"}

\* A line of the step outside a block scalar.
StepKey(s, l) ==
    CASE l.key = "name" -> [s EXCEPT !.named = TRUE, !.open = "none"]
      [] l.key = "run"  -> [StepRun(s, l) EXCEPT !.open = "none"]
      [] l.key = "uses" -> [s EXCEPT !.uses = <<l.val>>, !.open = "none"]
      [] l.key = "continue-on-error" ->
            [s EXCEPT !.continues = (l.val = "true"), !.open = "none"]
      [] l.key = "if"   -> [s EXCEPT !.cond = <<l.val>>, !.open = "none"]
      [] l.key \in {"with", "env"} -> [s EXCEPT !.open = l.key]
      [] l.key \notin StepKeys /\ HasColon(l) /\ s.open = "with" ->
            [s EXCEPT !.with = WithEntry(@, l)]
      [] l.key \notin StepKeys /\ HasColon(l) /\ s.open = "env" ->
            [s EXCEPT !.env = WithEntry(@, l)]
      [] l.key \in {"timeout-minutes", "retry"} /\ s.open = "none" ->
            [s EXCEPT !.reports = @ \cup {<<"step", l.key>>}]
      [] OTHER -> s

\* A step ends at the next dash and at a line that is indented less.
EndsStep(l) == l.dash \/ (l.in < 8 /\ ~IsBlank(l))

StepLine(s, l) ==
    IF s.stop \/ EndsStep(l) THEN [s EXCEPT !.stop = TRUE]
    ELSE IF s.block /\ ~IsBlank(l)
         THEN [s EXCEPT !.text = Append(@, SecretRefs(l.val))]
    ELSE IF s.block THEN [s EXCEPT !.text = Append(@, <<>>)]
    ELSE StepKey(s, l)

\* After the last line: the block scalar becomes the command, line by line, and
\* an action outside the subset is reported.
StepOf(s) ==
    [name      |-> s.named,
     run       |-> IF s.block /\ s.text # <<>> THEN s.text ELSE s.run,
     uses      |-> s.uses,
     env       |-> s.env,
     continues |-> s.continues,
     cond      |-> s.cond]

StepReports(s) ==
    s.reports \cup
        {<<"uses", s.uses[i]>> : i \in {j \in DOMAIN s.uses : ~SupportedAction(s.uses[j])}}

\* What is known of the step that begins at a line, after the n lines below it.
ParseStep(lines, start) ==
    LET known[n \in 0..(Len(lines) - start)] ==
            IF n = 0 THEN FirstLineOfStep(lines[start])
            ELSE StepLine(known[n - 1], lines[start + n])
    IN  known[Len(lines) - start]

-----------------------------------------------------------------------------
(* parse_single_job: the walk over a job's lines, its steps' lines included *)

NoJob ==
    [env |-> NoEntries, cond |-> <<>>, steps |-> <<>>, from |-> <<>>,
     open |-> "none", reports |-> {}, stop |-> FALSE]

\* The job ends at a line with less than two blanks, an empty one included,
\* and at the next job id.
EndsJob(l) == l.in < 2 \/ IsBlank(l) \/ OpensJob(l)

JobKey(job, lines, i) ==
    LET l == lines[i] IN
    CASE l.key = "runs-on" /\ ~l.dash ->
            [job EXCEPT !.open = "none",
                        !.reports = IF l.val = "ubuntu" THEN @
                                    ELSE @ \cup {<<"runs-on", l.val>>}]
      [] l.key = "if" /\ ~l.dash ->
            [job EXCEPT !.open = "none", !.cond = <<l.val>>]
      [] l.key \in {"env", "steps"} /\ ~l.dash -> [job EXCEPT !.open = l.key]
      [] l.key \notin {"runs-on", "if", "env", "steps"} /\ ~l.dash
            /\ job.open = "env" /\ HasColon(l) ->
            [job EXCEPT !.env = WithEntry(@, l)]
      [] l.key \in {"strategy", "services", "container", "timeout-minutes"}
            /\ ~l.dash /\ job.open # "env" ->
            [job EXCEPT !.reports = @ \cup {<<"job", l.key>>}]
      [] l.dash /\ job.open = "steps" ->
            LET s == ParseStep(lines, i)
            IN  [job EXCEPT !.steps   = Append(@, StepOf(s)),
                            !.from    = Append(@, i),
                            !.reports = @ \cup StepReports(s)]
      [] OTHER -> job

JobLine(job, lines, i) ==
    IF job.stop \/ EndsJob(lines[i]) THEN [job EXCEPT !.stop = TRUE]
    ELSE JobKey(job, lines, i)

\* What is known of the job whose id is on the line before, after n lines.
ParseSingleJob(lines, start) ==
    LET known[n \in 0..(Len(lines) - start + 1)] ==
            IF n = 0 THEN NoJob ELSE JobLine(known[n - 1], lines, start + n - 1)
    IN  known[Len(lines) - start + 1]

-----------------------------------------------------------------------------
(* parse_jobs, parse_triggers and parse_workflow                           *)

TopLevel(l) == l.in = 0 /\ ~IsBlank(l)

UnsupportedTopLevel ==
    {"concurrency", "defaults", "strategy", "matrix", "services", "container",
     "timeout-minutes"}

TopReports(lines) ==
    {<<"top", lines[i].key>> :
        i \in {j \in DOMAIN lines : TopLevel(lines[j]) /\ lines[j].key \in UnsupportedTopLevel}}

\* The lines after jobs: and before the next top-level one.
InJobs(lines, i) ==
    \E j \in 1..(i - 1) :
        /\ lines[j].in = 0 /\ lines[j].key = "jobs"
        /\ \A k \in (j + 1)..(i - 1) :
              ~TopLevel(lines[k]) \/ lines[k].key = "jobs"

ParseJobs(lines) ==
    LET ids    == {i \in DOMAIN lines : OpensJob(lines[i]) /\ InJobs(lines, i)}
        nth(n) == CHOOSE i \in ids : Cardinality({j \in ids : j <= i}) = n
    IN  [n \in 1..Cardinality(ids) |-> ParseSingleJob(lines, nth(n) + 1)]

\* The events on the on: line, or the keys below it; push when there is none.
ParseTriggers(lines) ==
    LET inline == {lines[i].val : i \in {j \in DOMAIN lines :
                        lines[j].in = 0 /\ lines[j].key = "on" /\ lines[j].val # ""}}
        below  == {lines[i].key : i \in {j \in DOMAIN lines :
                        /\ lines[j].in > 0 /\ ~IsBlank(lines[j])
                        /\ \E k \in 1..(j - 1) :
                              /\ lines[k].in = 0 /\ lines[k].key = "on"
                              /\ \A m \in (k + 1)..(j - 1) : lines[m].in > 0}}
        all    == inline \cup below
    IN  IF all = {} THEN {"push"} ELSE all

\* The errors of parse_workflow, in the order in which it looks for them.
ParseError(lines) ==
    LET on(l)   == l.key = "on" /\ ~l.dash /\ (l.in = 0 \/ l.val = "")
        jobs(l) == l.key = "jobs" /\ l.in = 0
    IN  IF \A i \in DOMAIN lines : IsBlank(lines[i]) THEN "EmptyInput"
        ELSE IF \A i \in DOMAIN lines : ~on(lines[i]) THEN "MissingOnKey"
        ELSE IF \A i \in DOMAIN lines : ~jobs(lines[i]) THEN "MissingJobsKey"
        ELSE "none"

-----------------------------------------------------------------------------
(* The broker                                                              *)

\* What resolve_secret may answer: NullBroker denies everything, StubBroker
\* what it was not configured with; the C5 broker behind the trait may also
\* answer Denied without an error, or be unreachable.
Resolutions(broker, secret) ==
    CASE broker.kind = "null" -> {"error denied"}
      [] broker.kind = "stub" -> IF secret \in broker.tokens THEN {"resolved"}
                                 ELSE {"error denied"}
      [] broker.kind = "c5"   -> {"resolved", "denied", "error denied", "unavailable"}

\* The answers that let a step go on, for a reference in run: and in env:.
RunAccepts(answer) == answer = "resolved"
EnvAccepts(answer) == answer = "resolved"

-----------------------------------------------------------------------------
(* ShimExecutor::execute_step                                              *)

\* Only a condition that is recognised as true lets a step run.
Gated(step) == step.cond # <<>> /\ step.cond[1] # "always"

EnvRefs(step) == {step.env[k] : k \in DOMAIN step.env} \cap ShimSecrets
RunRefs(step) == UNION {ToSet(step.run[i]) : i \in DOMAIN step.run}

\* The outcomes of a step under the broker's answers to its references.
Outcomes(step, answers) ==
    LET runDenied == {n \in RunRefs(step) : ~RunAccepts(answers["run"][n])}
        envDenied == {n \in EnvRefs(step) : ~EnvAccepts(answers["env"][n])}
        denied    == IF runDenied # {} THEN runDenied ELSE envDenied
    IN  IF Gated(step) THEN {[kind |-> "Skipped", secret |-> ""]}
        ELSE IF \E i \in DOMAIN step.uses : ~SupportedAction(step.uses[i])
             THEN {[kind |-> "OutOfContract", secret |-> ""]}
        ELSE IF denied # {} THEN {[kind |-> "SecretDenied", secret |-> n] : n \in denied}
        ELSE {[kind |-> "Success", secret |-> ""]}

\* The answers a broker may give to the references of a step.
AnswersOf(broker, step) ==
    {a \in [{"run", "env"} -> [ShimSecrets ->
                {"unasked", "resolved", "denied", "error denied", "unavailable"}]] :
        \A n \in ShimSecrets :
            /\ a["run"][n] \in (IF n \in RunRefs(step) THEN Resolutions(broker, n)
                                ELSE {"unasked"})
            /\ a["env"][n] \in (IF n \in EnvRefs(step) THEN Resolutions(broker, n)
                                ELSE {"unasked"})}

-----------------------------------------------------------------------------
NoRun == [outcomes |-> <<>>, ok |-> TRUE, denied |-> {}]

ShimInit ==
    /\ \E p \in ShimPrefixes : shimFile = [lines |-> p, added |-> 0]
    /\ shimBroker \in [kind : {"null", "c5"}, tokens : {{}}]
                         \cup [kind : {"stub"}, tokens : SUBSET ShimSecrets]
    /\ shimWork = [phase |-> "writing", jobs |-> <<>>, triggers |-> {}, error |-> "none"]
    /\ shimRun = NoRun
    /\ shimReports = {}
    /\ shimCompared = "none"

\* The author of the workflow writes one more line.
WriteLine ==
    /\ shimWork.phase = "writing" /\ shimFile.added < MaxShimLines
    /\ \E l \in ShimLines :
          shimFile' = [lines |-> Append(shimFile.lines, l), added |-> shimFile.added + 1]
    /\ UNCHANGED <<shimBroker, shimWork, shimRun, shimReports, shimCompared>>

\* parse_workflow refuses the file.
ParseFails ==
    /\ shimWork.phase = "writing" /\ ParseError(shimFile.lines) # "none"
    /\ shimWork' = [shimWork EXCEPT !.phase = "refused",
                                    !.error = ParseError(shimFile.lines)]
    /\ UNCHANGED <<shimFile, shimBroker, shimRun, shimReports, shimCompared>>

\* parse_workflow accepts it, with what it found outside the subset.
ParseWorkflow ==
    /\ shimWork.phase = "writing" /\ ParseError(shimFile.lines) = "none"
    /\ LET jobs == ParseJobs(shimFile.lines) IN
          /\ shimWork' = [phase |-> "parsed", jobs |-> jobs, error |-> "none",
                          triggers |-> ParseTriggers(shimFile.lines)]
          /\ shimReports' = TopReports(shimFile.lines)
                               \cup UNION {jobs[n].reports : n \in DOMAIN jobs}
    /\ UNCHANGED <<shimFile, shimBroker, shimRun, shimCompared>>

\* A file without a job is a failed run.
ExecuteNoJob ==
    /\ shimWork.phase = "parsed" /\ shimWork.jobs = <<>>
    /\ shimRun' = [shimRun EXCEPT !.ok = FALSE]
    /\ shimWork' = [shimWork EXCEPT !.phase = "done"]
    /\ UNCHANGED <<shimFile, shimBroker, shimReports, shimCompared>>

\* execute: the next step of the first job.  A failure can only come from a
\* command, and none is run: the simulated step always succeeds.
ExecuteStep ==
    /\ shimWork.phase = "parsed" /\ shimWork.jobs # <<>>
    /\ shimRun.ok /\ Len(shimRun.outcomes) < Len(shimWork.jobs[1].steps)
    /\ LET step == shimWork.jobs[1].steps[Len(shimRun.outcomes) + 1] IN
          \E answers \in AnswersOf(shimBroker, step) :
          \E o \in Outcomes(step, answers) :
             /\ shimRun' =
                   [outcomes |-> Append(shimRun.outcomes, o),
                    ok       |-> o.kind \notin {"SecretDenied", "OutOfContract"},
                    denied   |-> shimRun.denied \cup
                        {<<Len(shimRun.outcomes) + 1, n>> : n \in
                            {m \in ShimSecrets :
                                \/ answers["run"][m] \notin {"unasked", "resolved"}
                                \/ answers["env"][m] \notin {"unasked", "resolved"}}}]
             /\ shimReports' = shimReports \cup
                   CASE o.kind = "SecretDenied"  -> {<<"secret", o.secret>>}
                     [] o.kind = "OutOfContract" -> {<<"uses", step.uses[1]>>}
                     [] OTHER -> {}
    /\ UNCHANGED <<shimFile, shimBroker, shimWork, shimCompared>>

\* execute returns: every step has run, or one stopped the job.
ExecuteReturns ==
    /\ shimWork.phase = "parsed" /\ shimWork.jobs # <<>>
    /\ ~shimRun.ok \/ Len(shimRun.outcomes) = Len(shimWork.jobs[1].steps)
    /\ shimWork' = [shimWork EXCEPT !.phase = "done"]
    /\ UNCHANGED <<shimFile, shimBroker, shimRun, shimReports, shimCompared>>

\* check_determinism_precondition: one job, pinned actions, static values.
Deterministic(jobs) ==
    /\ Len(jobs) <= 1
    /\ \A n \in DOMAIN jobs : \A i \in DOMAIN jobs[n].steps :
          LET step == jobs[n].steps[i] IN
          /\ step.uses # <<"latest">>
          /\ \A k \in DOMAIN step.env : step.env[k] # "github"
          /\ \A k \in DOMAIN jobs[n].env : jobs[n].env[k] # "github"

\* EquivalenceHarness::compare: the precondition first; without it the shim
\* is not run, with it there is no live lane to compare with.
CompareGated ==
    /\ shimWork.phase = "parsed" /\ shimRun = NoRun /\ ~Deterministic(shimWork.jobs)
    /\ shimCompared' = "Partial: precondition"
    /\ shimWork' = [shimWork EXCEPT !.phase = "compared"]
    /\ UNCHANGED <<shimFile, shimBroker, shimRun, shimReports>>

CompareRan ==
    /\ shimWork.phase = "done" /\ Deterministic(shimWork.jobs)
    /\ shimCompared' = "Partial: no live lane"
    /\ shimWork' = [shimWork EXCEPT !.phase = "compared"]
    /\ UNCHANGED <<shimFile, shimBroker, shimRun, shimReports>>

ShimNext ==
    \/ WriteLine \/ ParseFails \/ ParseWorkflow
    \/ ExecuteNoJob \/ ExecuteStep \/ ExecuteReturns
    \/ CompareGated \/ CompareRan

ShimSpec == ShimInit /\ [][ShimNext]_shimVars

-----------------------------------------------------------------------------
(* Properties                                                              *)

\* The lines of the file that belong to the k-th step that was executed: from
\* its dash up to the next dash or the next line of a job.
StepBody(k) ==
    LET lines == shimFile.lines
        from  == shimWork.jobs[1].from[k]
    IN  {i \in from..Len(lines) :
            \A j \in (from + 1)..i : ~EndsStep(lines[j])}

\* A step that the shim reports as run had every secret its run: lines refer
\* to granted by the broker, and so had the values left in its env: map, the
\* text of a block scalar included; a denied or unreachable secret always
\* ends the job and is named in the report.
SecretsFailClosed ==
    \A k \in DOMAIN shimRun.outcomes :
        LET o == shimRun.outcomes[k]
            named == {shimFile.lines[i].val : i \in StepBody(k)} \cap ShimSecrets
        IN  /\ o.kind = "Success" => \A n \in ShimSecrets : <<k, n>> \notin shimRun.denied
            /\ o.kind = "SecretDenied" =>
                  /\ o.secret \in named
                  /\ k = Len(shimRun.outcomes) /\ ~shimRun.ok
                  /\ <<"secret", o.secret>> \in shimReports

\* What parser.rs says of itself: nothing is skipped silently.  A run that
\* succeeded without any report has an outcome for every step that the first
\* job of the file lists.
NoSilentSkip ==
    (shimWork.phase = "done" /\ shimRun.ok /\ shimReports = {}) =>
        \A i \in DOMAIN shimFile.lines :
            (shimFile.lines[i].dash /\ shimFile.lines[i].in = 6
                /\ InJobs(shimFile.lines, i)) =>
                \E k \in DOMAIN shimRun.outcomes :
                    shimWork.jobs[1].from[k] = i
=============================================================================
