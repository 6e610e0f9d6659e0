------------------------------- MODULE FixChecks -------------------------------
(***************************************************************************)
(* The test runs behind an environment and a fix (suite_runs.py,           *)
(* FixChecks): the baseline that an environment is accepted with, and the  *)
(* red/green and regression steps that compare later runs with it.         *)
(*                                                                         *)
(* One step is one test run.  A run gives each test any result, so every   *)
(* test may be flaky, new, removed, or broken by the patch; a run may break *)
(* as a whole, and time may run out before any run.                        *)
(***************************************************************************)
EXTENDS Naturals, Sequences, FiniteSets

CONSTANTS
    Tests,          \* test ids
    File,           \* a file that is reported instead of its tests when it cannot be collected
    InFile,         \* the tests in it
    MinPassPercent  \* _MIN_PASS_RATE in percent; 80 in the code, less for few tests

FixChecksConstants ==
    /\ File \notin Tests /\ InFile \subseteq Tests
    /\ MinPassPercent \in 0 .. 100

GreenRuns == 3
RegressionReruns == 2

Ids == Tests \cup {File}
Statuses == {"passed", "failed", "error", "skipped", "absent"}  \* failed: with an assertion
Failing == {"failed", "error"}
Regressed == {"failed", "error", "skipped"}

\* What one run that did not break reports.
Runs ==
    {r \in [Ids -> Statuses] :
        /\ r[File] \in {"absent", "error"}
        /\ r[File] = "error" => \A t \in InFile : r[t] = "absent"}

VARIABLES
    step,
    seen,       \* the baseline's runs
    base,       \* each test's place in the baseline
    patch,      \* what the patch changes
    edited,     \* the tests it edits
    found,      \* the Reproduction: targets, reproduced, uncollected; known: it was looked for
    green,      \* green runs so far
    failure,    \* one of them failed
    kind,       \* the regression run: related or full
    fails,      \* its new failures
    reruns,
    related,    \* what the related run said: none, ran or broken
    redGreen, regression,
    \* history
    red,        \* tests that failed with an assertion without the fix
    missed,     \* tests that did not pass in some green run
    failed,     \* tests that failed in one
    shown,      \* the green runs showed the fix
    fine        \* tests that passed in a regression run of this kind

history == <<red, missed, failed, shown>>
redgreen == <<edited, found, green, failure, redGreen, history>>
regress == <<kind, fails, reruns, related, regression, fine>>
vars == <<step, seen, base, patch, redgreen, regress>>

NoPatch == [sources |-> FALSE, tests |-> FALSE, related |-> FALSE]
NotFound == [known |-> FALSE, targets |-> {}, reproduced |-> {}, uncollected |-> {}]

Init ==
    /\ step = "baseline"
    /\ seen = <<>>
    /\ base = [i \in Ids |-> "unknown"]
    /\ patch = NoPatch /\ edited = {}
    /\ found = NotFound
    /\ green = 0 /\ failure = FALSE
    /\ kind = "none" /\ fails = {} /\ reruns = 0 /\ related = "none"
    /\ redGreen = "none" /\ regression = "none"
    /\ red = {} /\ missed = {} /\ failed = {} /\ shown = FALSE /\ fine = {}

------------------------------------------------------------------------------
(* The baseline. *)

\* summarize_baseline
summarize_baseline(runs) ==
    [i \in Ids |->
        LET S == {runs[k][i] : k \in DOMAIN runs} IN
        CASE S = {"absent"} -> "unknown"
          [] S = {"passed"} -> "pass_stable"
          [] S = {"skipped"} -> "skip"
          [] S \subseteq Failing -> "fail_before"
          [] OTHER -> "flaky"]

Placed(b, place) == {i \in Ids : b[i] = place}

\* acceptance_failure: tests ran, most of them passed, at most one is flaky.
Accepted(b) ==
    LET considered == Cardinality(Ids) - Cardinality(Placed(b, "unknown"))
                      - Cardinality(Placed(b, "skip"))
    IN  /\ considered > 0
        /\ 100 * Cardinality(Placed(b, "pass_stable")) >= MinPassPercent * considered
        /\ Cardinality(Placed(b, "flaky")) <= 1

\* run_baseline: twice, and a third time when a result differs.
BaselineRun ==
    /\ step = "baseline"
    /\ \E r \in Runs :
          LET runs == Append(seen, r) IN
          IF Len(runs) = 1 \/ (Len(runs) = 2 /\ runs[1] # runs[2])
          THEN seen' = runs /\ UNCHANGED <<step, base>>
          ELSE /\ seen' = <<>>
               /\ base' = summarize_baseline(runs)
               /\ step' = IF Accepted(base') THEN "gates" ELSE "refused"
    /\ UNCHANGED <<patch, redgreen, regress>>

\* A run that breaks or takes too long: the environment is refused.
BaselineBreaks ==
    /\ step = "baseline"
    /\ step' = "refused"
    /\ UNCHANGED <<seen, base, patch, redgreen, regress>>

------------------------------------------------------------------------------
(* A fix is submitted; its gates passed. *)

SubmitFix ==
    /\ step = "gates"
    /\ patch' \in [sources : BOOLEAN, tests : BOOLEAN, related : BOOLEAN]
    /\ patch'.sources \/ patch'.tests
    /\ edited' \in IF patch'.tests THEN SUBSET Tests ELSE {{}}
    /\ step' = IF ~patch'.tests THEN "related" ELSE IF patch'.sources THEN "red" ELSE "green"
    /\ redGreen' = IF patch'.tests THEN "none" ELSE "not_applicable"
    /\ UNCHANGED <<seen, base, found, green, failure, history, regress>>

\* _red_green ends; what it kept is local to it.
RedGreenEnds(status) ==
    /\ redGreen' = status /\ step' = "related"
    /\ edited' = {} /\ found' = NotFound /\ green' = 0 /\ failure' = FALSE
    /\ red' = {} /\ missed' = {} /\ failed' = {}

\* Time is over before the run, in red/green.
RedGreenOutOfTime ==
    /\ step \in {"red", "green"}
    /\ RedGreenEnds("failed")
    /\ UNCHANGED <<seen, base, patch, shown, regress>>

\* Mutant: an error counts as the bug.
Reproduced_errors(r, targets) == {i \in targets : r[i] \in Failing}

\* Failing with an assertion, not with an import, syntax or collection error.
Reproduced(r, targets) == {i \in targets : r[i] = "failed"}

\* reproduction: tests that are new, or that the patch edits and that now fail.
reproduction(r) ==
    LET new == {i \in Ids : /\ r[i] # "absent"
                            /\ \/ base[i] = "unknown"
                               \/ /\ base[i] = "pass_stable" /\ r[i] \in Failing
                                  /\ i \in edited}
        targets == new \ {File}
    IN  [known |-> TRUE, targets |-> targets, reproduced |-> Reproduced(r, targets),
         uncollected |-> new \cap {File}]

\* The tests of the patch run without its sources.
RedRun ==
    /\ step = "red"
    /\ \/ \E r \in Runs : found' = reproduction(r) /\ red' = {i \in Tests : r[i] = "failed"}
       \/ found' = [NotFound EXCEPT !.known = TRUE] /\ UNCHANGED red        \* it broke
    /\ step' = "green"
    /\ UNCHANGED <<seen, base, patch, edited, green, failure, redGreen, missed, failed, shown, regress>>

\* green_failure, of one run: every target passes, and a file that could not be
\* collected is, with a test that passes and none that fails.
green_failure(f, r) ==
    \/ \E i \in f.targets : r[i] # "passed"
    \/ /\ f.uncollected # {}
       /\ \/ r[File] # "absent"
          \/ \A t \in InFile : r[t] # "passed"
          \/ \E t \in InFile : r[t] \in Failing

RedGreenStatus(f, broken) ==
    IF broken \/ (patch.sources /\ f.reproduced = {}) THEN "failed" ELSE "passed"

\* What one green run says: what it looked for, whether that failed, and the
\* tests that did not pass and that failed.
GreenOutcomes ==
    {LET f == IF found.known THEN found ELSE reproduction(r) IN
     [found |-> f, failure |-> green_failure(f, r),
      missed |-> {i \in Ids : r[i] # "passed"}, failed |-> {i \in Ids : r[i] \in Failing}]
     : r \in Runs}
    \cup {[found |-> [found EXCEPT !.known = TRUE], failure |-> TRUE,
           missed |-> Ids, failed |-> {}]}                                  \* it broke

\* With the whole patch, three times unless one fails.
GreenRun ==
    /\ step = "green"
    /\ \E o \in GreenOutcomes :
          IF o.failure \/ green + 1 = GreenRuns
          THEN /\ RedGreenEnds(RedGreenStatus(o.found, o.failure))
               /\ shown' = /\ green + 1 = GreenRuns
                           /\ \E t \in red : t \notin missed \cup o.missed
                           /\ o.found.uncollected # {} => InFile \cap (failed \cup o.failed) = {}
          ELSE /\ green' = green + 1
               /\ found' = o.found /\ failure' = o.failure
               /\ missed' = missed \cup o.missed /\ failed' = failed \cup o.failed
               /\ UNCHANGED <<step, edited, redGreen, red, shown>>
    /\ UNCHANGED <<seen, base, patch, regress>>

------------------------------------------------------------------------------
(* New failures. *)

\* new_failures: tests that passed in every baseline run and do not now; one
\* that is missing counts in the full suite only.
new_failures(r, full) ==
    {i \in Ids : /\ base[i] = "pass_stable"
                 /\ \/ r[i] \in Regressed
                    \/ full /\ r[i] = "absent"}

still_failing(S, r) == {i \in S : r[i] \in Regressed \cup {"absent"}}

PassedIn(r) == {i \in Ids : r[i] = "passed"}

\* _regression with nothing related to run, or no time for it.
NoRelatedRun ==
    /\ step = "related"
    /\ step' = "full"
    /\ UNCHANGED <<seen, base, patch, redgreen, regress>>

Compare(k) ==
    \E r \in Runs :
        /\ kind' = k
        /\ fails' = new_failures(r, k = "full")
        /\ fine' = PassedIn(r)
        /\ reruns' = 0

RelatedRun ==
    /\ step = "related" /\ patch.related
    /\ \/ Compare("related") /\ step' = "rerun" /\ UNCHANGED related
       \/ /\ related' = "broken" /\ step' = "full"
          /\ UNCHANGED <<kind, fails, reruns, fine>>
    /\ UNCHANGED <<seen, base, patch, redgreen, regression>>

\* The full suite runs, breaks, or does not fit in the time that is left.
FullRun ==
    /\ step = "full"
    /\ \/ Compare("full") /\ step' = "rerun" /\ UNCHANGED regression
       \/ /\ regression' \in {"failed",
                              CASE related = "broken" -> "failed"
                                [] related = "ran" -> "passed"
                                [] OTHER -> "not_run"}
          /\ step' = "done"
          /\ UNCHANGED <<kind, fails, reruns, fine>>
    /\ UNCHANGED <<seen, base, patch, redgreen, related>>

\* What failed runs again, twice; a run that breaks says nothing.
Rerun ==
    /\ step = "rerun" /\ fails # {} /\ reruns < RegressionReruns
    /\ reruns' = reruns + 1
    /\ \/ \E r \in Runs : fails' = still_failing(fails, r) /\ fine' = fine \cup PassedIn(r)
       \/ UNCHANGED <<fails, fine>>
    /\ UNCHANGED <<step, seen, base, patch, redgreen, kind, related, regression>>

\* _regression_run ends: no failure is left, every re-run was made or time is over.
Compared ==
    /\ step = "rerun"
    /\ IF fails # {} THEN regression' = "failed" /\ step' = "done" /\ UNCHANGED related
       ELSE IF kind = "full" THEN regression' = "passed" /\ step' = "done" /\ UNCHANGED related
       ELSE related' = "ran" /\ step' = "full" /\ UNCHANGED regression
    /\ UNCHANGED <<seen, base, patch, redgreen, kind, fails, reruns, fine>>

\* _result
Passed == redGreen # "failed" /\ regression # "failed"

\* The same environment serves the next submit.
NextSubmit ==
    /\ step = "done"
    /\ step' = "gates"
    /\ patch' = NoPatch
    /\ redGreen' = "none" /\ shown' = FALSE
    /\ kind' = "none" /\ fails' = {} /\ reruns' = 0 /\ related' = "none" /\ regression' = "none"
    /\ fine' = {}
    /\ UNCHANGED <<seen, base, edited, found, green, failure, red, missed, failed>>

Refused == step = "refused" /\ UNCHANGED vars

Next ==
    \/ BaselineRun \/ BaselineBreaks \/ Refused
    \/ SubmitFix \/ RedGreenOutOfTime \/ RedRun \/ GreenRun
    \/ NoRelatedRun \/ RelatedRun \/ FullRun \/ Rerun \/ Compared \/ NextSubmit

Spec == Init /\ [][Next]_vars

------------------------------------------------------------------------------
(* Properties. *)

\* A change of sources with a test passes only when some test failed with an
\* assertion without the change and passed in three runs with it, and a file
\* whose tests could not be collected before has one that passes and none that
\* fails (_red_green, reproduction, green_failure).
FixIsShown ==
    step = "done" /\ Passed /\ patch.sources /\ patch.tests => shown

\* A fix that passes on the full suite has broken nothing: each test that passed
\* in every baseline run passed in a run with the fix, however runs broke or
\* time ran out in between (new_failures, still_failing).
NothingBroken ==
    step = "done" /\ regression = "passed" /\ kind = "full" => Placed(base, "pass_stable") \subseteq fine

\* A test is held against the fix only if it passed in every baseline run and
\* in none with the fix: a flaky test or one that failed before never is
\* (new_failures, still_failing).
NoFalseAlarm ==
    step = "done" /\ fails # {} => fails \subseteq Placed(base, "pass_stable") \ fine

===============================================================================
