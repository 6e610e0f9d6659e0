-------------------------- MODULE PreparationProofs --------------------------
(***************************************************************************)
(* Proofs about what MCPreparation puts side by side: the containers of runs *)
(* (Sandbox), the test runs of a fix (FixChecks), the agent's transcript     *)
(* (Solver), the test environment (Environments) and the choice of an issue  *)
(* (Discovery), for every value of the constants.  A step of                 *)
(* PreparationSpec is a step of one of them and leaves the others alone, so   *)
(* an invariant of one is an invariant of the whole.                         *)
(***************************************************************************)
EXTENDS MCPreparation, Sequences, FiniteSets, TLAPS


----------------------------------------------------------------------------
(***************************************************************************)
(* Sandbox, for any number of runs, where Docker does what it is asked to.  *)
(* QuietWorkspace is not inductive: a replaced container must be gone      *)
(* whatever the session is doing, not only while the host works.           *)
(***************************************************************************)
Tidy == ~stray /\ QuietWorkspace

LEMMA TidyInit == Init => Tidy
  BY DEF Init, Tidy, QuietWorkspace

LEMMA TidyNext == ASSUME ~KillMayFail PROVE Tidy /\ [Next]_vars => Tidy'
<1> SUFFICES ASSUME Tidy, [Next]_vars PROVE Tidy'
  OBVIOUS
<1> USE DEF Tidy, QuietWorkspace, session
<1>1. CASE Recover \/ SweepContainers \/ SweepNetworks \/ SweepFails \/ create_run \/ NoRun
  BY <1>1 DEF Recover, SweepContainers, SweepNetworks, SweepFails, create_run, NoRun
<1>2. CASE StartSession
  BY <1>2 DEF StartSession
<1>3. CASE Exec \/ Inspect
  BY <1>3 DEF Exec, Inspect
<1>4. CASE Reap
  BY <1>4 DEF Reap, Quiet
<1>5. CASE Restart
  <2>1. PICK killed \in {TRUE} :
          LET alive == ~killed /\ state # "stopped" /\ procs # "none" IN
          \/ procs' = (IF alive THEN procs ELSE "none") /\ stray' = stray
          \/ \E old \in Removed({Thing(run, "old")}) :
                stray' = (stray \/ (alive /\ old # {})) /\ procs' = "none"
    BY <1>5 DEF Restart
  <2>2. CASE procs' = "none" /\ stray' = stray
    BY <2>2
  <2>3. CASE \E old \in Removed({Thing(run, "old")}) :
                stray' = (stray \/ (FALSE /\ old # {})) /\ procs' = "none"
    BY <2>3, Zenon
  <2>4. killed = TRUE
    BY <2>1
  <2>5. QED
    BY <2>1, <2>2, <2>3, <2>4, Zenon
<1>6. CASE EndSession \/ EndRun \/ Crash
  BY <1>6 DEF EndSession, EndRun, Crash
<1>7. CASE UNCHANGED vars
  BY <1>7 DEF vars
<1>8. QED
  BY <1>1, <1>2, <1>3, <1>4, <1>5, <1>6, <1>7 DEF Next

\* Where docker kill and rm do what they say, no process that a command left is
\* running while the host reads or edits the workspace.
THEOREM WorkspaceIsQuiet == ASSUME ~KillMayFail PROVE PreparationSpec => []QuietWorkspace
<1>1. Tidy => QuietWorkspace
  BY DEF Tidy
<1>2. PreparationInit => Tidy
  BY TidyInit DEF PreparationInit
<1>3. Tidy /\ [PreparationNext]_AllVars => Tidy'
  BY TidyNext DEF PreparationNext, AllVars, sandbox
<1>4. QED
  BY <1>1, <1>2, <1>3, PTL DEF PreparationSpec
----------------------------------------------------------------------------
(***************************************************************************)
(* FixChecks, for any tests, baselines and patches.  What is held against a  *)
(* fix never passed with it; in the full suite every test of the baseline    *)
(* has passed or is held against it; while green runs are made, no target     *)
(* has been missed and what was reproduced failed with an assertion.         *)
(***************************************************************************)
Stable == Check!Placed(base, "pass_stable")
Checked == {"related", "full", "rerun", "done"}

FailuresAreNew ==
    /\ step = "baseline" => fails = {}
    /\ fails \subseteq Stable \ fine

NothingIsMissed ==
    /\ kind = "full" => step \in {"rerun", "done"}
    /\ regression = "passed" => step = "done"
    /\ step = "rerun" /\ kind = "full" => Stable \subseteq fine \cup fails
    /\ step = "done" /\ regression = "passed" /\ kind = "full" => Stable \subseteq fine

GreenSoFar ==
    /\ step # "green" => found = Check!NotFound /\ missed = {} /\ failed = {}
    /\ step = "green" /\ patch.sources =>
          /\ found.known
          /\ found.reproduced \subseteq found.targets \cap red
          /\ found.targets \cap missed = {}
          /\ found.uncollected # {} => InFile \cap failed = {}
    /\ step \in Checked /\ patch.sources /\ patch.tests /\ redGreen # "failed" => shown

Verdict == FailuresAreNew /\ NothingIsMissed /\ GreenSoFar

LEMMA VerdictInit == Check!Init => Verdict
  BY DEF Check!Init, Verdict, FailuresAreNew, NothingIsMissed, GreenSoFar, Checked

\* A run gives each test one result.
LEMMA OneResult ==
  ASSUME NEW r \in Check!Runs, NEW i \in Check!Ids
  PROVE  /\ r[i] \in Check!Statuses
         /\ r[i] # "passed" <=> r[i] \in Check!Regressed \cup {"absent"}
  BY DEF Check!Runs, Check!Statuses, Check!Regressed

LEMMA CompareVerdict ==
  ASSUME Verdict, NEW suite \in {"related", "full"}, Check!Compare(suite), base' = base
  PROVE  /\ fails' \subseteq (Stable \ fine)' /\ kind' = suite
         /\ suite = "full" => Stable' \subseteq fine' \cup fails'
<1>1. PICK r \in Check!Runs :
        /\ kind' = suite /\ fails' = Check!new_failures(r, suite = "full")
        /\ fine' = Check!PassedIn(r)
  BY DEF Check!Compare
<1>2. Stable' = Stable
  BY DEF Stable, Check!Placed
<1>3. fails' \subseteq Stable \ fine'
  BY <1>1, OneResult DEF Check!new_failures, Check!PassedIn, Stable, Check!Placed
<1>4. suite = "full" => Stable \subseteq fine' \cup fails'
  BY <1>1, OneResult DEF Check!new_failures, Check!PassedIn, Stable, Check!Placed
<1>5. QED
  BY <1>1, <1>2, <1>3, <1>4

LEMMA GreenVerdict ==
  ASSUME Verdict, Check!GreenRun
  PROVE  GreenSoFar'
<1>1. step = "green" /\ UNCHANGED patch
  BY DEF Check!GreenRun
<1>2. PICK o \in Check!GreenOutcomes :
        IF o.failure \/ green + 1 = 3
        THEN /\ Check!RedGreenEnds(Check!RedGreenStatus(o.found, o.failure))
             /\ shown' = /\ green + 1 = 3
                         /\ \E t \in red : t \notin missed \cup o.missed
                         /\ o.found.uncollected # {} => InFile \cap (failed \cup o.failed) = {}
        ELSE /\ green' = green + 1
             /\ found' = o.found /\ failure' = o.failure
             /\ missed' = missed \cup o.missed /\ failed' = failed \cup o.failed
             /\ UNCHANGED <<step, edited, redGreen, red, shown>>
  BY DEF Check!GreenRun, Check!GreenRuns
<1>3. ASSUME ~o.failure, patch.sources
      PROVE  /\ o.found = found
             /\ found.targets \cap (missed \cup o.missed) = {}
             /\ found.uncollected # {} => InFile \cap (failed \cup o.failed) = {}
  <2>1. /\ found.known /\ found.targets \cap missed = {}
        /\ found.uncollected # {} => InFile \cap failed = {}
    BY <1>1, <1>3 DEF Verdict, GreenSoFar
  <2>2. PICK r \in Check!Runs :
          o = [found |-> found, failure |-> Check!green_failure(found, r),
               missed |-> {i \in Check!Ids : r[i] # "passed"},
               failed |-> {i \in Check!Ids : r[i] \in Check!Failing}]
    <3>1. o \notin {[found |-> [found EXCEPT !.known = TRUE], failure |-> TRUE,
                     missed |-> Check!Ids, failed |-> {}]}
      BY <1>3
    <3>2. PICK r \in Check!Runs :
            o = LET f == IF found.known THEN found ELSE Check!reproduction(r) IN
                [found |-> f, failure |-> Check!green_failure(f, r),
                 missed |-> {i \in Check!Ids : r[i] # "passed"},
                 failed |-> {i \in Check!Ids : r[i] \in Check!Failing}]
      BY <3>1, Zenon DEF Check!GreenOutcomes
    <3>3. QED
      BY <2>1, <3>2, Zenon
  <2>3. /\ o.found = found /\ ~Check!green_failure(found, r)
        /\ o.missed = {i \in Check!Ids : r[i] # "passed"}
        /\ o.failed = {i \in Check!Ids : r[i] \in Check!Failing}
    <3>1. o.failure = Check!green_failure(found, r)
      BY <2>2, Zenon
    <3>2. QED
      BY <1>3, <2>2, <3>1, Zenon
  <2>4. found.targets \cap o.missed = {}
    BY <2>3 DEF Check!green_failure
  <2>5. found.uncollected # {} => InFile \cap o.failed = {}
    BY <2>3 DEF Check!green_failure
  <2>6. QED
    BY <2>1, <2>3, <2>4, <2>5
<1>4. CASE o.failure \/ green + 1 = 3
  <2>1. step' = "related" /\ found' = Check!NotFound /\ missed' = {} /\ failed' = {}
        /\ redGreen' = Check!RedGreenStatus(o.found, o.failure)
    BY <1>2, <1>4 DEF Check!RedGreenEnds
  <2>2. ASSUME patch.sources, redGreen' # "failed" PROVE shown'
    <3>1. ~o.failure /\ o.found.reproduced # {}
      BY <2>1, <2>2 DEF Check!RedGreenStatus
    <3>2. PICK t \in found.reproduced : TRUE
      BY <1>3, <2>2, <3>1
    <3>3. t \in red /\ t \notin missed \cup o.missed
      BY <1>1, <1>3, <2>2, <3>1, <3>2 DEF Verdict, GreenSoFar
    <3>4. QED
      BY <1>2, <1>3, <1>4, <2>2, <3>1, <3>3
  <2>3. QED
    BY <1>1, <2>1, <2>2 DEF GreenSoFar
<1>5. CASE ~(o.failure \/ green + 1 = 3)
  BY <1>1, <1>2, <1>3, <1>5 DEF Verdict, GreenSoFar, Checked
<1>6. QED
  BY <1>4, <1>5

LEMMA VerdictNext == Verdict /\ [Check!Next]_checks => Verdict'
<1> SUFFICES ASSUME Verdict, [Check!Next]_checks PROVE Verdict'
  OBVIOUS
<1>1. CASE Check!BaselineRun \/ Check!BaselineBreaks
  <2>1. step = "baseline" /\ fails = {} /\ step' \in {"baseline", "gates", "refused"}
        /\ UNCHANGED <<patch, Check!redgreen, Check!regress>>
    BY <1>1 DEF Check!BaselineRun, Check!BaselineBreaks, Verdict, FailuresAreNew
  <2>2. FailuresAreNew'
    BY <2>1 DEF FailuresAreNew, Check!regress
  <2>3. NothingIsMissed' /\ GreenSoFar'
    BY <2>1 DEF Verdict, NothingIsMissed, GreenSoFar, Checked, Check!regress, Check!redgreen,
       Check!history
  <2>4. QED
    BY <2>2, <2>3 DEF Verdict
<1>2. CASE Check!SubmitFix
  <2>1. step = "gates" /\ UNCHANGED <<base, found, Check!history, Check!regress>>
        /\ step' = (IF ~patch'.tests THEN "related" ELSE IF patch'.sources THEN "red" ELSE "green")
    BY <1>2 DEF Check!SubmitFix
  <2>2. FailuresAreNew' /\ NothingIsMissed'
    BY <2>1 DEF Verdict, FailuresAreNew, NothingIsMissed, Stable, Check!Placed, Check!regress
  <2>3. GreenSoFar'
    BY <2>1 DEF Verdict, GreenSoFar, Checked, Check!history
  <2>4. QED
    BY <2>2, <2>3 DEF Verdict
<1>3. CASE Check!RedGreenOutOfTime
  <2>1. UNCHANGED <<base, patch, shown, Check!regress>> /\ step' = "related"
        /\ redGreen' = "failed" /\ found' = Check!NotFound /\ missed' = {} /\ failed' = {}
        /\ step \in {"red", "green"}
    BY <1>3 DEF Check!RedGreenOutOfTime, Check!RedGreenEnds
  <2>2. FailuresAreNew' /\ NothingIsMissed'
    BY <2>1 DEF Verdict, FailuresAreNew, NothingIsMissed, Stable, Check!Placed, Check!regress
  <2>3. QED
    BY <2>1, <2>2 DEF Verdict, GreenSoFar
<1>4. CASE Check!RedRun
  <2>1. step = "red" /\ step' = "green" /\ found = Check!NotFound /\ missed = {} /\ failed = {}
        /\ UNCHANGED <<base, patch, missed, failed, Check!regress>>
    BY <1>4 DEF Check!RedRun, Verdict, GreenSoFar
  <2>2. FailuresAreNew' /\ NothingIsMissed'
    BY <2>1 DEF Verdict, FailuresAreNew, NothingIsMissed, Stable, Check!Placed, Check!regress
  <2>3. found'.known /\ found'.reproduced \subseteq found'.targets \cap red'
    <3>1. CASE found' = [Check!NotFound EXCEPT !.known = TRUE]
      BY <3>1 DEF Check!NotFound
    <3>2. ASSUME NEW r \in Check!Runs, found' = Check!reproduction(r),
                 red' = {i \in Tests : r[i] = "failed"}
          PROVE  found'.known /\ found'.reproduced \subseteq found'.targets \cap red'
      BY <3>2 DEF Check!reproduction, Check!Reproduced, Check!Ids
    <3>3. QED
      BY <1>4, <3>1, <3>2 DEF Check!RedRun
  <2>4. QED
    BY <2>1, <2>2, <2>3 DEF Verdict, GreenSoFar, Checked
<1>5. CASE Check!GreenRun
  <2>1. step = "green" /\ step' \in {"green", "related"} /\ UNCHANGED <<base, Check!regress>>
    BY <1>5 DEF Check!GreenRun, Check!RedGreenEnds
  <2>2. FailuresAreNew' /\ NothingIsMissed'
    BY <2>1 DEF Verdict, FailuresAreNew, NothingIsMissed, Stable, Check!Placed, Check!regress
  <2>3. QED
    BY <1>5, <2>2, GreenVerdict DEF Verdict
<1>6. CASE Check!NoRelatedRun \/ Check!RelatedRun \/ Check!FullRun
  <2>1. /\ step \in {"related", "full"} /\ step' \in {"full", "rerun", "done"}
        /\ UNCHANGED <<base, patch, Check!redgreen>>
        /\ regression' = "passed" => step' = "done"
    BY <1>6 DEF Check!NoRelatedRun, Check!RelatedRun, Check!FullRun, Check!regress, Verdict,
       NothingIsMissed
  <2>2. GreenSoFar'
    BY <2>1 DEF Verdict, GreenSoFar, Checked, Check!redgreen, Check!history
  <2>3. \/ UNCHANGED <<fails, fine, kind>> /\ step' # "rerun"
        \/ Check!Compare("related") /\ step' = "rerun"
        \/ Check!Compare("full") /\ step' = "rerun"
    BY <1>6 DEF Check!NoRelatedRun, Check!RelatedRun, Check!FullRun, Check!regress
  <2>4. CASE UNCHANGED <<fails, fine, kind>> /\ step' # "rerun"
    BY <2>1, <2>2, <2>4 DEF Verdict, FailuresAreNew, NothingIsMissed, Stable, Check!Placed
  <2>5. CASE Check!Compare("related") /\ step' = "rerun"
    BY <2>1, <2>2, <2>5, CompareVerdict DEF Verdict, FailuresAreNew, NothingIsMissed
  <2>6. CASE Check!Compare("full") /\ step' = "rerun"
    BY <2>1, <2>2, <2>6, CompareVerdict DEF Verdict, FailuresAreNew, NothingIsMissed
  <2>7. QED
    BY <2>3, <2>4, <2>5, <2>6
<1>7. CASE Check!Rerun
  <2>1. step = "rerun" /\ UNCHANGED <<step, base, patch, Check!redgreen, kind, regression>>
    BY <1>7 DEF Check!Rerun
  <2>2. GreenSoFar'
    BY <2>1 DEF Verdict, GreenSoFar, Checked, Check!redgreen, Check!history
  <2>3. Stable' = Stable
    BY <2>1 DEF Stable, Check!Placed
  <2>4. CASE UNCHANGED <<fails, fine>>
    BY <2>1, <2>2, <2>3, <2>4 DEF Verdict, FailuresAreNew, NothingIsMissed
  <2>5. ASSUME NEW r \in Check!Runs, fails' = Check!still_failing(fails, r),
               fine' = fine \cup Check!PassedIn(r)
        PROVE  Verdict'
    <3>1. fails \subseteq Check!Ids /\ fails \subseteq Stable \ fine
      BY DEF Verdict, FailuresAreNew, Stable, Check!Placed
    <3>2. fails' \subseteq Stable \ fine' /\ fails \subseteq fine' \cup fails'
      BY <2>5, <3>1, OneResult DEF Check!still_failing, Check!PassedIn
    <3>3. fine \subseteq fine'
      BY <2>5
    <3>4. QED
      BY <2>1, <2>2, <2>3, <3>2, <3>3 DEF Verdict, FailuresAreNew, NothingIsMissed
  <2>6. QED
    BY <1>7, <2>4, <2>5 DEF Check!Rerun
<1>8. CASE Check!Compared
  <2>1. /\ step = "rerun" /\ step' \in {"done", "full"} /\ (step' = "full" => kind # "full")
        /\ UNCHANGED <<base, patch, Check!redgreen, kind, fails, fine>>
        /\ regression' = "passed" => step' = "done" /\ (kind = "full" => fails = {})
    BY <1>8 DEF Check!Compared, Verdict, NothingIsMissed
  <2>2. QED
    BY <2>1 DEF Verdict, FailuresAreNew, NothingIsMissed, GreenSoFar, Checked, Stable,
       Check!Placed, Check!redgreen, Check!history
<1>9. CASE Check!NextSubmit
  BY <1>9 DEF Check!NextSubmit, Verdict, FailuresAreNew, NothingIsMissed, GreenSoFar, Checked
<1>10. CASE Check!Refused \/ UNCHANGED checks
  <2>1. UNCHANGED checks
    BY <1>10 DEF Check!Refused, checks, Check!vars, Check!redgreen, Check!regress, Check!history
  <2>2. QED
    BY <2>1 DEF checks, Verdict, FailuresAreNew, NothingIsMissed, GreenSoFar, Checked, Stable,
       Check!Placed
<1>11. QED
  BY <1>1, <1>2, <1>3, <1>4, <1>5, <1>6, <1>7, <1>8, <1>9, <1>10 DEF Check!Next

\* What the test runs of a fix conclude is right, for any tests, baselines and patches,
\* however tests flake, runs break and time runs out (_red_green, _regression).
THEOREM VerdictIsRightHolds == PreparationSpec => []VerdictIsRight
<1>1. Verdict => VerdictIsRight
  BY DEF Verdict, FailuresAreNew, NothingIsMissed, GreenSoFar, Checked, Stable, VerdictIsRight,
     Check!FixIsShown, Check!NothingBroken, Check!NoFalseAlarm, Check!Passed
<1>2. PreparationInit => Verdict
  BY VerdictInit DEF PreparationInit
<1>3. Verdict /\ [PreparationNext]_AllVars => Verdict'
  BY VerdictNext DEF PreparationNext, AllVars
<1>4. QED
  BY <1>1, <1>2, <1>3, PTL DEF PreparationSpec

----------------------------------------------------------------------------
(***************************************************************************)
(* Solver, for any diffs, commands, turns and reports.  A diff that passed   *)
(* is the one its latest check passed, and V is its tree; the agent was told  *)
(* in an earlier turn, or is about to be; what was confirmed is what passed.  *)
(***************************************************************************)
TurnFields == {"calls", "invalid", "submitted", "ended", "last", "report"}
Decisions == {"reject", "approve", "request_changes"}
Round == [diff : Diffs \cup {None}, decision : Decisions, confirmed : SUBSET Solve!Blocker]

Transcript ==
    /\ diff \in Diffs /\ validated \in Diffs \cup {None}
    /\ rounds \in Seq(Round)
    /\ DOMAIN turn = TurnFields /\ turn.calls \in Nat
    /\ turn.submitted => turn.calls > 0
    /\ turn.ended \in {"no", "fix", "skip", "stop"}
    /\ turn.ended # "no" => turn.calls > 0

\* The agent was told of it in an earlier turn, is being told, or can take no other.
Told == passed \in told \/ turn.last
BeingTold == solving = "calls" /\ turn.submitted /\ turn.report = passed
MayConfirm == solving = "next" \/ (solving = "calls" /\ turn.ended = "no")

PassedWasChecked ==
    solving # "done" /\ passed # None =>
        /\ passed \in DOMAIN results /\ results[passed]
        /\ passed \notin Leaking /\ validated = passed
        /\ MayConfirm => passed \in told \/ BeingTold

AcceptedPassed ==
    solving \in {"fix", "review", "ready"} \/ (solving = "calls" /\ turn.ended = "fix") =>
        accepted = passed /\ passed # None /\ Told

LastApproved ==
    /\ rounds # <<>>
    /\ LET last == rounds[Len(rounds)] IN
       last.diff = accepted /\ last.decision = "approve" /\ last.confirmed = {}

Reviews ==
    /\ solving = "ready" => LastApproved
    /\ outcome = "ready" => solving = "done" /\ Solve!ReadyWasCheckedAndReviewed

Solved == Transcript /\ PassedWasChecked /\ AcceptedPassed /\ Reviews

LEMMA SolvedInit == Solve!Init => Solved
<1> SUFFICES ASSUME Solve!Init PROVE Solved
  OBVIOUS
<1>1. Transcript
  BY PreparationConstants DEF Solve!Init, Transcript, Solve!NoTurn, TurnFields, Solve!SolverConstants
<1>2. QED
  BY <1>1 DEF Solved, Solve!Init, Solve!NoTurn, PassedWasChecked, AcceptedPassed, Reviews

\* The run ends, and not as ready.
LEMMA EndKeeps ==
  ASSUME Solved, solving' = "done", outcome' # "ready", UNCHANGED <<diff, turn, rounds>>,
         validated' \in {validated, None}
  PROVE  Solved'
<1>1. Transcript'
  BY DEF Solved, Transcript
<1>2. QED
  BY <1>1 DEF Solved, PassedWasChecked, AcceptedPassed, Reviews

\* A call that neither checks nor confirms anything.
LEMMA CallKeeps ==
  ASSUME Solved, Solve!MayCall, diff' \in Diffs,
         UNCHANGED <<outcome, solving, passed, accepted, results, validated, rounds, told>>,
         DOMAIN turn' = TurnFields, turn'.calls = turn.calls + 1,
         turn'.last = turn.last, turn'.report = turn.report, turn.submitted => turn'.submitted,
         turn'.ended = turn.ended \/ (turn.ended = "no" /\ turn'.ended \in {"stop", "skip"})
  PROVE  Solved'
<1>1. solving = "calls" /\ outcome # "ready"
  BY DEF Solve!MayCall, Solved, Reviews
<1>2. Transcript'
  BY DEF Solved, Transcript
<1>3. PassedWasChecked'
  BY <1>1 DEF Solved, PassedWasChecked, BeingTold, MayConfirm
<1>4. AcceptedPassed'
  BY <1>1 DEF Solved, AcceptedPassed, Told
<1>5. QED
  BY <1>1, <1>2, <1>3, <1>4 DEF Solved, Reviews

LEMMA CallStep ==
  ASSUME Solved,
         \/ Solve!Ignored \/ Solve!BadCall \/ Solve!Edit \/ Solve!Shell
         \/ Solve!SecondSubmit \/ Solve!InvalidSubmit \/ Solve!SkipIssue \/ Solve!SubmitLimit
  PROVE  Solved'
<1>1. /\ Solve!MayCall /\ diff' \in Diffs
      /\ UNCHANGED <<outcome, solving, passed, accepted, results, validated, rounds, told>>
  BY DEF Solved, Transcript, Solve!Ignored, Solve!BadCall, Solve!Edit, Solve!Shell,
     Solve!SecondSubmit, Solve!InvalidSubmit, Solve!SkipIssue, Solve!SubmitLimit, Solve!MaySubmit,
     Solve!solver, Solve!checks
<1>2. DOMAIN turn = TurnFields
  BY DEF Solved, Transcript
<1>3. ASSUME NEW invalid \in BOOLEAN, NEW ended, Solve!Answer(invalid, ended)
      PROVE  /\ DOMAIN turn' = TurnFields /\ turn'.calls = turn.calls + 1
             /\ turn'.last = turn.last /\ turn'.report = turn.report
             /\ turn'.submitted = turn.submitted /\ turn'.ended = ended
  BY <1>2, <1>3 DEF Solve!Answer, TurnFields
<1>4. ASSUME NEW ended, \/ turn' = Solve!Submitted(ended)
                        \/ turn' = [Solve!Submitted(ended) EXCEPT !.invalid = @ + 1]
      PROVE  /\ DOMAIN turn' = TurnFields /\ turn'.calls = turn.calls + 1
             /\ turn'.last = turn.last /\ turn'.report = turn.report
             /\ turn'.submitted /\ turn'.ended = ended
  BY <1>2, <1>4 DEF Solve!Submitted, TurnFields
<1>5. CASE Solve!Ignored
  BY <1>1, <1>3, <1>5, CallKeeps DEF Solve!Ignored
<1>6. CASE Solve!BadCall \/ Solve!Edit \/ Solve!SecondSubmit
  BY <1>1, <1>3, <1>6, CallKeeps DEF Solve!BadCall, Solve!Edit, Solve!SecondSubmit
<1>7. CASE Solve!Shell
  <2>1. turn.ended = "no" /\ \E ended \in {"no", "stop"} : Solve!Answer(FALSE, ended)
    BY <1>7 DEF Solve!Shell
  <2>2. QED
    BY <1>1, <1>3, <2>1, CallKeeps
<1>8. CASE Solve!InvalidSubmit \/ Solve!SkipIssue \/ Solve!SubmitLimit
  <2>1. turn.ended = "no"
    BY <1>8 DEF Solve!InvalidSubmit, Solve!SkipIssue, Solve!SubmitLimit, Solve!MaySubmit
  <2>2. \E ended \in {"no", "skip", "stop"} :
          \/ turn' = Solve!Submitted(ended)
          \/ turn' = [Solve!Submitted(ended) EXCEPT !.invalid = @ + 1]
    BY <1>8 DEF Solve!InvalidSubmit, Solve!SkipIssue, Solve!SubmitLimit
  <2>3. QED
    BY <1>1, <1>4, <2>1, <2>2, CallKeeps
<1>9. QED
  BY <1>5, <1>6, <1>7, <1>8

LEMMA ConfirmStep ==
  ASSUME Solved, Solve!ConfirmFix
  PROVE  Solved'
<1>1. /\ Solve!MayCall /\ turn.ended = "no" /\ ~turn.submitted /\ passed # None
      /\ UNCHANGED <<diff, outcome, solving, passed, results, validated, rounds, told>>
  BY DEF Solve!ConfirmFix, Solve!MaySubmit, Solve!Confirms, Solve!checks
<1>2. solving = "calls" /\ outcome # "ready" /\ DOMAIN turn = TurnFields /\ turn.calls \in Nat
      /\ diff \in Diffs
  BY <1>1 DEF Solve!MayCall, Solved, Reviews, Transcript
<1>3. ASSUME NEW ended, turn' = Solve!Submitted(ended)
      PROVE  /\ DOMAIN turn' = TurnFields /\ turn'.calls = turn.calls + 1
             /\ turn'.last = turn.last /\ turn'.report = turn.report
             /\ turn'.submitted /\ turn'.ended = ended
  BY <1>2, <1>3 DEF Solve!Submitted, TurnFields
<1>4. CASE accepted' = passed /\ turn' = Solve!Submitted("fix")
  <2>1. /\ DOMAIN turn' = TurnFields /\ turn'.calls = turn.calls + 1 /\ turn'.ended = "fix"
    BY <1>3, <1>4
  <2>2. passed \in told
    BY <1>1, <1>2 DEF Solved, PassedWasChecked, MayConfirm, BeingTold
  <2>3. Transcript'
    BY <1>1, <1>2, <2>1 DEF Solved, Transcript
  <2>4. PassedWasChecked' /\ AcceptedPassed'
    BY <1>1, <1>2, <1>4, <2>1, <2>2 DEF Solved, PassedWasChecked, AcceptedPassed, MayConfirm, Told
  <2>5. QED
    BY <1>1, <1>2, <2>3, <2>4 DEF Solved, Reviews
<1>5. CASE UNCHANGED accepted /\ turn' = Solve!Submitted(IF Solve!Left = 0 THEN "stop" ELSE "no")
  <2>1. \E ended \in {"stop", "no"} : turn' = Solve!Submitted(ended)
    BY <1>5
  <2>2. QED
    BY <1>1, <1>2, <1>3, <1>5, <2>1, CallKeeps
<1>6. QED
  BY <1>4, <1>5 DEF Solve!ConfirmFix

LEMMA CheckStep ==
  ASSUME Solved, Solve!CheckFix
  PROVE  Solved'
<1>1. /\ solving = "calls" /\ turn.ended = "no" /\ diff \notin Leaking
      /\ UNCHANGED <<outcome, solving, diff, rounds, told>>
  BY DEF Solve!CheckFix, Solve!MaySubmit, Solve!MayCall
<1>2. /\ diff \in Diffs /\ diff # None /\ outcome # "ready" /\ DOMAIN turn = TurnFields
      /\ turn.calls \in Nat
  BY <1>1, PreparationConstants DEF Solved, Transcript, Reviews, Solve!SolverConstants
<1>3. PICK gates \in BOOLEAN, tests \in BOOLEAN :
        LET ok == gates /\ tests /\ diff # Base IN
        /\ tests => gates
        /\ results' = Solve!With(results, diff, ok)
        /\ validated' \in (IF gates /\ diff # Base THEN {diff} ELSE {None})
                          \cup (IF tests THEN {} ELSE {None})
        /\ passed' = Solve!PassedBy(ok)
        /\ accepted' = (IF ok /\ turn.last THEN diff ELSE accepted)
        /\ turn' = [Solve!Submitted(IF ok THEN IF turn.last THEN "fix" ELSE "no"
                                    ELSE IF Solve!Left < 2 THEN "stop" ELSE "no")
                    EXCEPT !.report = IF ok THEN diff ELSE None]
  BY DEF Solve!CheckFix
<1> DEFINE ok == gates /\ tests /\ diff # Base
<1>4. /\ DOMAIN turn' = TurnFields /\ turn'.calls = turn.calls + 1 /\ turn'.last = turn.last
      /\ turn'.submitted
      /\ ok => turn'.ended = (IF turn.last THEN "fix" ELSE "no") /\ turn'.report = diff
      /\ ~ok => turn'.ended \in {"stop", "no"}
  BY <1>2, <1>3 DEF Solve!Submitted, TurnFields
<1>5. Transcript'
  BY <1>1, <1>2, <1>3, <1>4 DEF Solved, Transcript
<1>6. CASE ok
  <2>1. passed' = diff /\ validated' = diff /\ results' = Solve!With(results, diff, TRUE)
        /\ (turn.last => accepted' = diff)
    BY <1>3, <1>6 DEF Solve!PassedBy
  <2>2. passed' \in DOMAIN results' /\ results'[passed']
    BY <2>1 DEF Solve!With
  <2>3. PassedWasChecked'
    BY <1>1, <1>2, <1>4, <1>6, <2>1, <2>2 DEF PassedWasChecked, MayConfirm, BeingTold
  <2>4. AcceptedPassed'
    BY <1>1, <1>2, <1>4, <1>6, <2>1 DEF AcceptedPassed, Told
  <2>5. QED
    BY <1>1, <1>2, <1>5, <2>3, <2>4 DEF Solved, Reviews
<1>7. CASE ~ok
  <2>1. passed' = None
    BY <1>3, <1>7 DEF Solve!PassedBy
  <2>2. QED
    BY <1>1, <1>2, <1>4, <1>5, <1>7, <2>1 DEF Solved, PassedWasChecked, AcceptedPassed, Reviews
<1>8. QED
  BY <1>6, <1>7

LEMMA TurnStep ==
  ASSUME Solved, Solve!RequestTurn \/ Solve!Nudged \/ Solve!EndTurn
  PROVE  Solved'
<1>1. outcome # "ready" /\ solving # "done"
  BY DEF Solve!RequestTurn, Solve!Nudged, Solve!EndTurn, Solved, Reviews
<1>2. CASE Solve!RequestTurn
  <2>1. /\ solving = "next" /\ solving' = "calls"
        /\ UNCHANGED <<outcome, diff, passed, accepted, results, validated, rounds, told>>
        /\ \E l \in {long, TRUE} : turn' = [Solve!NoTurn EXCEPT !.last = l]
    BY <1>2 DEF Solve!RequestTurn, Solve!solver, Solve!checks
  <2>2. /\ DOMAIN turn' = TurnFields /\ turn'.calls = 0 /\ ~turn'.submitted /\ turn'.ended = "no"
    BY <2>1 DEF Solve!NoTurn, TurnFields
  <2>3. Transcript'
    BY <2>1, <2>2 DEF Solved, Transcript
  <2>4. QED
    BY <1>1, <2>1, <2>2, <2>3 DEF Solved, PassedWasChecked, AcceptedPassed, Reviews, MayConfirm,
       BeingTold
<1>3. CASE Solve!Nudged
  <2>1. /\ solving = "calls" /\ turn.calls = 0
        /\ UNCHANGED <<diff, turn, passed, accepted, results, validated, rounds, told>>
        /\ \/ solving' = "next" /\ outcome' = outcome
           \/ solving' = "done" /\ outcome' = "rejected"
    BY <1>3 DEF Solve!Nudged, Solve!End, Solve!solver, Solve!checks
  <2>2. ~turn.submitted /\ turn.ended = "no" /\ Transcript'
    BY <2>1 DEF Solved, Transcript
  <2>3. CASE solving' = "done"
    BY <2>1, <2>3, EndKeeps
  <2>4. CASE solving' = "next"
    <3>1. passed # None => passed \in told
      BY <1>1, <2>1, <2>2 DEF Solved, PassedWasChecked, MayConfirm, BeingTold, AcceptedPassed
    <3>2. QED
      BY <1>1, <2>1, <2>2, <2>4, <3>1 DEF Solved, PassedWasChecked, AcceptedPassed, Reviews
  <2>5. QED
    BY <2>1, <2>3, <2>4
<1>4. CASE Solve!EndTurn
  <2>1. /\ solving = "calls"
        /\ UNCHANGED <<diff, turn, passed, accepted, results, validated, rounds>>
        /\ told' = (IF turn.ended = "no" THEN told \cup ({turn.report} \ {None}) ELSE told)
        /\ \/ turn.ended = "fix" /\ solving' = "fix" /\ outcome' = outcome
           \/ turn.ended = "no" /\ solving' = "next" /\ outcome' = outcome
           \/ solving' = "done" /\ outcome' # "ready"
    <3>1. turn.ended \in {"no", "fix", "skip", "stop"}
      BY DEF Solved, Transcript
    <3>2. CASE turn.ended = "fix"
      BY <1>4, <3>2 DEF Solve!EndTurn, Solve!solver, Solve!checks
    <3>3. CASE turn.ended = "no"
      BY <1>4, <3>3 DEF Solve!EndTurn, Solve!End, Solve!solver, Solve!checks
    <3>4. CASE turn.ended = "skip" \/ turn.ended = "stop"
      BY <1>4, <3>4 DEF Solve!EndTurn, Solve!End, Solve!solver, Solve!checks
    <3>5. QED
      BY <3>1, <3>2, <3>3, <3>4
  <2>2. Transcript'
    BY <2>1 DEF Solved, Transcript
  <2>3. CASE solving' = "done"
    BY <2>1, <2>3, EndKeeps
  <2>4. CASE turn.ended = "fix" /\ solving' = "fix"
    BY <1>1, <2>1, <2>2, <2>4 DEF Solved, PassedWasChecked, AcceptedPassed, Reviews, MayConfirm, Told
  <2>5. CASE turn.ended = "no" /\ solving' = "next"
    <3>1. passed # None => passed \in told'
      BY <1>1, <2>1, <2>5 DEF Solved, PassedWasChecked, MayConfirm, BeingTold
    <3>2. QED
      BY <1>1, <2>1, <2>2, <2>5, <3>1 DEF Solved, PassedWasChecked, AcceptedPassed, Reviews
  <2>6. QED
    BY <2>1, <2>3, <2>4, <2>5
<1>5. QED
  BY <1>2, <1>3, <1>4

\* A review that approves finds nothing that stands.
LEMMA ReviewStep ==
  ASSUME Solved, Solve!review
  PROVE  Solved'
<1>1. /\ solving = "review" /\ outcome # "ready"
      /\ UNCHANGED <<diff, turn, passed, accepted, results, validated, told>>
  BY DEF Solve!review, Solve!solver, Solve!checks, Solved, Reviews
<1>2. PICK reported \in SUBSET Solve!Blocker, abandon \in BOOLEAN, noTestNeeded \in BOOLEAN :
        \E checked \in [reported -> UNION {Solve!Evidence(bl) : bl \in Solve!Blocker}] :
          LET confirmed == Solve!Confirmed(reported, checked, noTestNeeded)
              decision == Solve!_decide(Len(rounds) + 1, abandon, confirmed, Solve!Earlier)
          IN  /\ rounds' = Append(rounds, [diff |-> validated, decision |-> decision,
                                           confirmed |-> confirmed])
              /\ CASE decision = "approve" -> solving' = "ready" /\ UNCHANGED outcome
                   [] decision = "reject" -> Solve!End("rejected")
                   [] decision = "request_changes" -> solving' = "address" /\ UNCHANGED outcome
  BY ZenonT(40), <1>1 DEF Solve!review
<1>3. PICK checked : 
        LET confirmed == Solve!Confirmed(reported, checked, noTestNeeded)
            decision == Solve!_decide(Len(rounds) + 1, abandon, confirmed, Solve!Earlier)
        IN  /\ rounds' = Append(rounds, [diff |-> validated, decision |-> decision,
                                         confirmed |-> confirmed])
            /\ CASE decision = "approve" -> solving' = "ready" /\ UNCHANGED outcome
                 [] decision = "reject" -> Solve!End("rejected")
                 [] decision = "request_changes" -> solving' = "address" /\ UNCHANGED outcome
  BY <1>2
<1> DEFINE confirmed == Solve!Confirmed(reported, checked, noTestNeeded)
           decision == Solve!_decide(Len(rounds) + 1, abandon, confirmed, Solve!Earlier)
<1>4. Solve!Waiver \in Solve!Blocker
  BY DEF Solve!Waiver, Solve!Blocker, Solve!Categories
<1>5. confirmed \in SUBSET Solve!Blocker
  BY <1>4 DEF Solve!Confirmed
<1>6. decision \in Decisions /\ (decision = "approve" => confirmed = {})
  BY DEF Solve!_decide, Decisions
<1> HIDE DEF confirmed, decision
<1>7. rounds \in Seq(Round) /\ validated \in Diffs \cup {None}
  BY DEF Solved, Transcript
<1> DEFINE entry == [diff |-> validated, decision |-> decision, confirmed |-> confirmed]
<1>8. entry \in Round
  BY <1>5, <1>6, <1>7 DEF Round
<1>9. entry.diff = validated /\ entry.decision = decision /\ entry.confirmed = confirmed
  OBVIOUS
<1> HIDE DEF entry
<1>10. rounds' = Append(rounds, entry)
  BY <1>3 DEF entry, confirmed, decision
<1>11. rounds' \in Seq(Round) /\ rounds' # <<>> /\ rounds'[Len(rounds')] = entry
  BY <1>7, <1>8, <1>10
<1>12. Transcript'
  BY <1>1, <1>11 DEF Solved, Transcript
<1>13. \/ decision = "approve" /\ solving' = "ready" /\ outcome' = outcome
       \/ decision # "approve" /\ solving' = "done" /\ outcome' = "rejected"
       \/ decision # "approve" /\ solving' = "address" /\ outcome' = outcome
  BY <1>3, <1>6 DEF Solve!End, Decisions, confirmed, decision
<1>14. PassedWasChecked' /\ AcceptedPassed'
  BY <1>1, <1>13 DEF Solved, PassedWasChecked, AcceptedPassed, MayConfirm, Told
<1>15. ASSUME solving' = "ready" PROVE LastApproved'
  <2>1. accepted = validated
    BY <1>1 DEF Solved, PassedWasChecked, AcceptedPassed
  <2>2. QED
    BY <1>1, <1>6, <1>9, <1>11, <1>13, <1>15, <2>1 DEF LastApproved
<1>16. QED
  BY <1>1, <1>12, <1>13, <1>14, <1>15 DEF Solved, Reviews

LEMMA HandStep ==
  ASSUME Solved, Solve!HandOver \/ Solve!address_blockers
  PROVE  Solved'
<1>1. outcome # "ready"
  BY DEF Solve!HandOver, Solve!address_blockers, Solved, Reviews
<1>2. CASE Solve!HandOver
  <2>1. /\ solving = "fix"
        /\ UNCHANGED <<diff, turn, passed, accepted, results, validated, rounds, told>>
        /\ \/ solving' = "done" /\ outcome' = "failed"
           \/ solving' = "review" /\ outcome' = "critiquing"
    BY <1>2 DEF Solve!HandOver, Solve!End, Solve!solver, Solve!checks
  <2>2. Transcript'
    BY <2>1 DEF Solved, Transcript
  <2>3. QED
    BY <2>1, <2>2 DEF Solved, PassedWasChecked, AcceptedPassed, Reviews, MayConfirm, Told
<1>3. CASE Solve!address_blockers
  <2>1. /\ solving' = "next" /\ outcome' = "implementing" /\ passed' = None
        /\ UNCHANGED <<diff, turn, results, validated, rounds>>
    BY <1>3 DEF Solve!address_blockers, Solve!checks
  <2>2. Transcript'
    BY <2>1 DEF Solved, Transcript
  <2>3. QED
    BY <2>1, <2>2 DEF Solved, PassedWasChecked, AcceptedPassed, Reviews
<1>4. QED
  BY <1>2, <1>3

\* Only what was confirmed, checked and approved becomes ready.
LEMMA ReadyStep ==
  ASSUME Solved, Solve!_ready
  PROVE  Solved'
<1>1. /\ solving = "ready" /\ solving' = "done"
      /\ UNCHANGED <<diff, turn, passed, accepted, results, validated, rounds, told>>
      /\ (outcome' = "ready" => diff = accepted)
  BY DEF Solve!_ready, Solve!End, Solve!solver, Solve!checks
<1>2. Transcript'
  BY <1>1 DEF Solved, Transcript
<1>3. accepted = passed /\ results[passed] /\ passed \notin Leaking /\ LastApproved
  BY <1>1 DEF Solved, PassedWasChecked, AcceptedPassed, Reviews
<1>4. outcome' = "ready" => Solve!ReadyWasCheckedAndReviewed'
  BY <1>1, <1>3 DEF Solve!ReadyWasCheckedAndReviewed, LastApproved
<1>5. QED
  BY <1>1, <1>2, <1>4 DEF Solved, PassedWasChecked, AcceptedPassed, Reviews

LEMMA SolvedStep ==
  ASSUME Solved, Solve!Next
  PROVE  Solved'
<1>1. CASE Solve!TurnCap \/ Solve!RequestFails \/ Solve!SandboxFails \/ Solve!LeakFound
           \/ Solve!ReviewFails
  <2>1. /\ solving' = "done" /\ outcome' # "ready" /\ UNCHANGED <<diff, turn, rounds>>
        /\ validated' \in {validated, None}
    BY <1>1 DEF Solve!TurnCap, Solve!RequestFails, Solve!SandboxFails, Solve!LeakFound,
       Solve!ReviewFails, Solve!End, Solve!checks
  <2>2. QED
    BY <2>1, EndKeeps
<1>2. CASE Solve!Finished
  BY <1>2 DEF Solve!Finished, Solve!vars, Solve!loop, Solve!solver, Solve!checks, Solved,
     Transcript, PassedWasChecked, AcceptedPassed, Reviews, MayConfirm, BeingTold, Told,
     LastApproved, Solve!ReadyWasCheckedAndReviewed
<1>3. QED
  BY <1>1, <1>2, CallStep, ConfirmStep, CheckStep, TurnStep, ReviewStep, HandStep, ReadyStep
  DEF Solve!Next

LEMMA SolvedStays ==
  ASSUME Solved, UNCHANGED solver
  PROVE  Solved'
BY DEF solver, Solved, Transcript, PassedWasChecked, AcceptedPassed, Reviews, MayConfirm,
   BeingTold, Told, LastApproved, Solve!ReadyWasCheckedAndReviewed

\* A run waits for approval only with what was checked, reported and reviewed, for any
\* diffs, commands, turns and reports (_on_submit, FixChecks.check, Critic.review, _ready).
THEOREM ReadyWasCheckedAndReviewedHolds == PreparationSpec => []ReadyWasCheckedAndReviewed
<1>1. Solved => ReadyWasCheckedAndReviewed
  BY DEF Solved, AcceptedPassed, Told, Reviews, ReadyWasCheckedAndReviewed,
     Solve!ReadyWasCheckedAndReviewed, Solve!ConfirmedWasReported
<1>2. PreparationInit => Solved
  BY SolvedInit DEF PreparationInit
<1>3. Solved /\ [PreparationNext]_AllVars => Solved'
  <2>1. PreparationNext \/ UNCHANGED AllVars => Solve!Next \/ UNCHANGED solver
    BY DEF PreparationNext, AllVars
  <2>2. QED
    BY <2>1, SolvedStep, SolvedStays
<1>4. QED
  BY <1>1, <1>2, <1>3, PTL DEF PreparationSpec

----------------------------------------------------------------------------
(***************************************************************************)
(* Environments, for any dependency files, digests and days.  An image with a *)
(* label was built from what the label says and its archive holds no other    *)
(* output; the output of an attempt that goes on is that of its own setup,     *)
(* because an attempt after a failed one starts from a clean workspace.       *)
(***************************************************************************)
PrepareFields == {"deps", "override", "base", "setup", "source", "key", "tried", "failures",
                  "cause", "out", "image"}

\* What the present attempt builds.
Built == <<p.setup, p.base, p.deps>>

\* An image's label says what built it, and what output its archive holds.
LabelIsTrue(i) ==
    \A recipe, digest, files :
       Prepare!environment_label(recipe, Prepare!environment_cache_key(digest, files)) \in i.labels
          => /\ i.built = <<recipe, digest, files>>
             /\ i.from \subseteq {<<recipe, digest, files>>}

Clean == p.failures \/ p.out = {}

Attempts ==
    /\ preparing = "cached" => Clean /\ p.tried = {}
    /\ preparing = "detect" => Clean /\ (p.failures \/ p.tried = {})
    /\ preparing = "failed" => p.failures
    /\ preparing = "attempt" =>
          Clean /\ (p.key # None => p.base # None /\ p.key = <<p.base, p.deps>>)
    /\ preparing \in {"reuse", "build", "tag", "baseline"} =>
          p.key = <<p.base, p.deps>> /\ p.out \subseteq {Built}
    /\ preparing = "reuse" => p.out = {}
    /\ preparing \in {"tag", "baseline"} => p.image.built = Built
    /\ preparing = "tag" => LabelIsTrue(p.image)

EnvironmentIsOwn ==
    /\ DOMAIN p = PrepareFields /\ p.failures \in BOOLEAN
    /\ \A i \in images : LabelIsTrue(i)
    /\ Attempts
    /\ Prepare!ImageMatches /\ Prepare!SnapshotIsClean

LEMMA IdleIsTyped ==
  /\ DOMAIN Prepare!Idle = PrepareFields /\ Prepare!Idle.failures = FALSE
  /\ Prepare!Idle.out = {} /\ Prepare!Idle.tried = {} /\ Prepare!Idle.key = None
BY DEF Prepare!Idle, PrepareFields

LEMMA EnvironmentInit == Prepare!Init => EnvironmentIsOwn
<1> SUFFICES ASSUME Prepare!Init PROVE EnvironmentIsOwn
  OBVIOUS
<1>1. images = {} /\ preparing = "idle" /\ p = Prepare!Idle /\ prepared.setup = None
  BY DEF Prepare!Init, Prepare!NotPrepared
<1>2. DOMAIN p = PrepareFields /\ p.failures \in BOOLEAN
  BY <1>1, IdleIsTyped
<1>3. Prepare!ImageMatches /\ Prepare!SnapshotIsClean
  BY <1>1 DEF Prepare!ImageMatches, Prepare!SnapshotIsClean
<1>4. QED
  BY <1>1, <1>2, <1>3 DEF EnvironmentIsOwn, Attempts

\* A run that is over leaves nothing behind.
LEMMA OverKeeps ==
  ASSUME EnvironmentIsOwn, Prepare!Over, UNCHANGED images,
         (Prepare!ImageMatches /\ Prepare!SnapshotIsClean)'
  PROVE  EnvironmentIsOwn'
BY IdleIsTyped DEF Prepare!Over, EnvironmentIsOwn, Attempts

LEMMA FailedKeeps ==
  ASSUME EnvironmentIsOwn, UNCHANGED prepared, NEW cause, NEW out,
         \A i \in images' : LabelIsTrue(i), Prepare!AttemptFails(cause, out)
  PROVE  EnvironmentIsOwn'
<1>1. /\ DOMAIN p' = PrepareFields /\ p'.failures = TRUE
      /\ preparing' \in {"detect", "blocked", "failed"}
  <2>1. DOMAIN p = PrepareFields
    BY DEF EnvironmentIsOwn
  <2>2. p' = [p EXCEPT !.failures = TRUE, !.cause = cause, !.out = out, !.image = None]
        /\ preparing' \in {"detect", "blocked", "failed"}
    BY DEF Prepare!AttemptFails
  <2>3. QED
    BY <2>1, <2>2 DEF PrepareFields
<1>2. \A i \in images' : LabelIsTrue(i)'
  BY DEF LabelIsTrue, Prepare!environment_label, Prepare!environment_cache_key
<1>3. QED
  BY <1>1, <1>2 DEF EnvironmentIsOwn, Attempts, Clean, Prepare!ImageMatches,
     Prepare!SnapshotIsClean

\* An attempt begins in a clean workspace, or will clean it.
LEMMA AttemptKeeps ==
  ASSUME EnvironmentIsOwn, UNCHANGED <<images, prepared>>, NEW q, NEW recipe, NEW source, NEW key,
         DOMAIN q = PrepareFields, q.failures \in BOOLEAN, q.failures \/ q.out = {},
         key # None => q.base # None /\ key = <<q.base, q.deps>>,
         Prepare!Attempt(q, recipe, source, key)
  PROVE  EnvironmentIsOwn'
<1>1. /\ preparing' = "attempt" /\ DOMAIN p' = PrepareFields /\ p'.failures = q.failures
      /\ p'.out = q.out /\ p'.key = key /\ p'.base = q.base /\ p'.deps = q.deps
  BY DEF Prepare!Attempt, PrepareFields
<1>2. QED
  BY <1>1 DEF EnvironmentIsOwn, Attempts, Clean, LabelIsTrue, Prepare!ImageMatches,
     Prepare!SnapshotIsClean

LEMMA BeginStep ==
  ASSUME EnvironmentIsOwn, Prepare!prepare(None) \/ Prepare!prepare("detected")
                           \/ Prepare!prepare("config")
  PROVE  EnvironmentIsOwn'
<1>1. PICK override : Prepare!prepare(override)
  OBVIOUS
<1>2. /\ UNCHANGED images /\ (Prepare!ImageMatches /\ Prepare!SnapshotIsClean)'
      /\ preparing = "idle"
  BY <1>1 DEF Prepare!prepare, Prepare!NotPrepared, Prepare!ImageMatches, Prepare!SnapshotIsClean
<1>3. CASE UNCHANGED <<preparing, p>>
  BY <1>2, <1>3 DEF EnvironmentIsOwn, Attempts, LabelIsTrue
<1>4. CASE /\ preparing' \in {"cached", "detect"}
           /\ p' = [Prepare!Idle EXCEPT !.deps = deps, !.override = override]
  <2>1. DOMAIN p' = PrepareFields /\ p'.failures = FALSE /\ p'.out = {} /\ p'.tried = {}
    BY <1>4, IdleIsTyped DEF PrepareFields
  <2>2. QED
    BY <1>2, <1>4, <2>1 DEF EnvironmentIsOwn, Attempts, Clean, LabelIsTrue
<1>5. QED
  BY <1>1, <1>3, <1>4 DEF Prepare!prepare

LEMMA RecipeStep ==
  ASSUME EnvironmentIsOwn,
         Prepare!TryCached \/ Prepare!TryDetected \/ Prepare!DetectionFails \/ Prepare!SetupAgent
  PROVE  EnvironmentIsOwn'
<1>1. DOMAIN p = PrepareFields /\ p.failures \in BOOLEAN
  BY DEF EnvironmentIsOwn
<1>2. CASE Prepare!TryCached
  <2>1. /\ preparing = "cached" /\ UNCHANGED <<images, prepared>> /\ Clean /\ p.tried = {}
    BY <1>2 DEF Prepare!TryCached, EnvironmentIsOwn, Attempts
  <2>2. CASE preparing' = "detect" /\ UNCHANGED p
    BY <2>1, <2>2 DEF EnvironmentIsOwn, Attempts, Clean, LabelIsTrue, Prepare!ImageMatches,
       Prepare!SnapshotIsClean
  <2>3. ASSUME NEW digest, NEW q, q = [p EXCEPT !.base = digest],
               \/ Prepare!Current(digest) /\ Prepare!Attempt(q, row.setup, "cached", row.key)
               \/ preparing' = "detect" /\ p' = q
        PROVE  EnvironmentIsOwn'
    <3>1. /\ DOMAIN q = PrepareFields /\ q.failures = p.failures /\ q.out = p.out
          /\ q.tried = p.tried /\ q.deps = p.deps /\ q.base = digest
      BY <1>1, <2>3 DEF PrepareFields
    <3>2. CASE Prepare!Current(digest) /\ Prepare!Attempt(q, row.setup, "cached", row.key)
      <4>1. q.base # None /\ row.key = <<q.base, q.deps>>
        BY <3>1, <3>2 DEF Prepare!Current, Prepare!environment_cache_key
      <4>2. q.failures \in BOOLEAN /\ (q.failures \/ q.out = {})
        BY <1>1, <2>1, <3>1 DEF Clean
      <4>3. QED
        BY <2>1, <3>1, <3>2, <4>1, <4>2, AttemptKeeps
    <3>3. CASE preparing' = "detect" /\ p' = q
      BY <1>1, <2>1, <3>1, <3>3 DEF EnvironmentIsOwn, Attempts, Clean, LabelIsTrue,
         Prepare!ImageMatches, Prepare!SnapshotIsClean
    <3>4. QED
      BY <2>3, <3>2, <3>3
  <2>4. QED
    BY <1>2, <2>2, <2>3 DEF Prepare!TryCached
<1>3. CASE Prepare!TryDetected
  <2>1. /\ preparing = "detect" /\ UNCHANGED <<images, prepared>> /\ Clean
        /\ p.failures \/ p.tried = {}
    BY <1>3 DEF Prepare!TryDetected, EnvironmentIsOwn, Attempts
  <2>2. CASE p.tried # {} /\ preparing' = "failed" /\ UNCHANGED p
    BY <2>1, <2>2 DEF EnvironmentIsOwn, Attempts, LabelIsTrue, Prepare!ImageMatches,
       Prepare!SnapshotIsClean
  <2>3. CASE \E recipe : Prepare!Attempt(p, recipe, "detected", None)
    BY <1>1, <2>1, <2>3, AttemptKeeps DEF Clean
  <2>4. QED
    BY <1>3, <2>2, <2>3 DEF Prepare!TryDetected
<1>4. CASE Prepare!DetectionFails
  <2>1. UNCHANGED <<images, prepared>>
    BY <1>4 DEF Prepare!DetectionFails
  <2>2. CASE p.failures /\ preparing' = "failed" /\ UNCHANGED p
    BY <2>1, <2>2 DEF EnvironmentIsOwn, Attempts, LabelIsTrue, Prepare!ImageMatches,
       Prepare!SnapshotIsClean
  <2>3. CASE Prepare!Over
    BY <2>1, <2>3, OverKeeps DEF EnvironmentIsOwn, Prepare!ImageMatches, Prepare!SnapshotIsClean
  <2>4. QED
    BY <1>4, <2>2, <2>3 DEF Prepare!DetectionFails
<1>5. CASE Prepare!SetupAgent
  <2>1. preparing = "failed" /\ UNCHANGED <<images, prepared>> /\ p.failures
    BY <1>5 DEF Prepare!SetupAgent, EnvironmentIsOwn, Attempts
  <2>2. CASE preparing' = "blocked" /\ UNCHANGED p
    BY <2>1, <2>2 DEF EnvironmentIsOwn, Attempts, LabelIsTrue, Prepare!ImageMatches,
       Prepare!SnapshotIsClean
  <2>3. ASSUME NEW q, q = [p EXCEPT !.out = @ \cup {<<"session", None, None>>}],
               Prepare!Attempt(q, "agent", "agent", None)
        PROVE  EnvironmentIsOwn'
    <3>1. DOMAIN q = PrepareFields /\ q.failures = p.failures
      BY <1>1, <2>3 DEF PrepareFields
    <3>2. QED
      BY <1>1, <2>1, <2>3, <3>1, AttemptKeeps
  <2>4. QED
    BY <1>5, <2>2, <2>3 DEF Prepare!SetupAgent
<1>6. QED
  BY <1>2, <1>3, <1>4, <1>5

LEMMA BeginAttemptStep ==
  ASSUME EnvironmentIsOwn, Prepare!BeginAttempt
  PROVE  EnvironmentIsOwn'
<1>1. /\ preparing = "attempt" /\ UNCHANGED <<images, prepared>> /\ Clean
      /\ p.key # None => p.base # None /\ p.key = <<p.base, p.deps>>
      /\ DOMAIN p = PrepareFields /\ \A i \in images' : LabelIsTrue(i)
  BY DEF Prepare!BeginAttempt, EnvironmentIsOwn, Attempts
<1>2. PICK digest \in Digests \cup {None} :
        /\ p.base # None => digest = p.base
        /\ \/ \E cause : Prepare!AttemptFails(cause, Prepare!Replay)
           \/ /\ p' = [p EXCEPT !.base = digest, !.out = Prepare!Replay,
                         !.key = IF @ = None THEN Prepare!environment_cache_key(digest, p.deps)
                                 ELSE @]
              /\ preparing' \in {"build", "reuse"}
  BY Zenon DEF Prepare!BeginAttempt, Prepare!_base_image
<1>3. CASE \E cause : Prepare!AttemptFails(cause, Prepare!Replay)
  BY <1>1, <1>3, FailedKeeps
<1>4. CASE /\ p' = [p EXCEPT !.base = digest, !.out = Prepare!Replay,
                      !.key = IF @ = None THEN Prepare!environment_cache_key(digest, p.deps)
                              ELSE @]
           /\ preparing' \in {"build", "reuse"}
  <2>1. /\ DOMAIN p' = PrepareFields /\ p'.failures = p.failures /\ p'.base = digest
        /\ p'.deps = p.deps /\ p'.out = Prepare!Replay
        /\ p'.key = IF p.key = None THEN Prepare!environment_cache_key(digest, p.deps) ELSE p.key
    BY <1>1, <1>4 DEF PrepareFields
  <2>2. p'.out = {}
    BY <1>1, <2>1 DEF Prepare!Replay, Clean
  <2>3. p'.key = <<p'.base, p'.deps>>
    BY <1>1, <1>2, <2>1 DEF Prepare!environment_cache_key
  <2>4. QED
    BY <1>1, <1>4, <2>1, <2>2, <2>3 DEF EnvironmentIsOwn, Attempts, LabelIsTrue,
       Prepare!ImageMatches, Prepare!SnapshotIsClean
<1>5. QED
  BY <1>2, <1>3, <1>4

LEMMA ReuseStep ==
  ASSUME EnvironmentIsOwn, Prepare!Reuse
  PROVE  EnvironmentIsOwn'
<1>1. /\ preparing = "reuse" /\ UNCHANGED <<images, prepared>> /\ p.out = {}
      /\ p.key = <<p.base, p.deps>> /\ DOMAIN p = PrepareFields /\ p.failures \in BOOLEAN
      /\ \A i \in images' : LabelIsTrue(i)
  BY Zenon DEF Prepare!Reuse, EnvironmentIsOwn, Attempts
<1>2. CASE preparing' = "build" /\ UNCHANGED p
  BY <1>1, <1>2 DEF EnvironmentIsOwn, Attempts, Built, LabelIsTrue, Prepare!ImageMatches,
     Prepare!SnapshotIsClean
<1>3. ASSUME NEW i \in Prepare!Matching(p.setup, p.key), NEW out, out = p.out \cup i.from,
             \/ preparing' = "baseline" /\ p' = [p EXCEPT !.image = i, !.out = out]
             \/ preparing' = "build" /\ p' = [p EXCEPT !.out = out]
             \/ Prepare!AttemptFails("recipe", out)
      PROVE  EnvironmentIsOwn'
  <2>1. i \in images /\ i.built = Built /\ i.from \subseteq {Built}
    BY <1>1 DEF Prepare!Matching, EnvironmentIsOwn, LabelIsTrue, Prepare!environment_cache_key,
       Built
  <2>2. out \subseteq {Built}
    BY <1>1, <1>3, <2>1
  <2>3. CASE Prepare!AttemptFails("recipe", out)
    BY <1>1, <2>3, FailedKeeps
  <2>4. CASE /\ preparing' \in {"baseline", "build"}
             /\ \/ p' = [p EXCEPT !.image = i, !.out = out]
                \/ preparing' = "build" /\ p' = [p EXCEPT !.out = out]
    <3>1. /\ DOMAIN p' = PrepareFields /\ p'.failures = p.failures /\ p'.out = out
          /\ p'.key = p.key /\ p'.setup = p.setup /\ p'.base = p.base /\ p'.deps = p.deps
          /\ preparing' = "baseline" => p'.image = i
      BY <1>1, <2>4 DEF PrepareFields
    <3>2. Built' = Built
      BY <3>1 DEF Built
    <3>3. QED
      BY <1>1, <2>1, <2>2, <2>4, <3>1, <3>2 DEF EnvironmentIsOwn, Attempts, LabelIsTrue,
         Prepare!ImageMatches, Prepare!SnapshotIsClean
  <2>5. QED
    BY <1>3, <2>3, <2>4
<1>4. QED
  BY Zenon, <1>2, <1>3 DEF Prepare!Reuse

LEMMA BuildStep ==
  ASSUME EnvironmentIsOwn, Prepare!Build
  PROVE  EnvironmentIsOwn'
<1>1. /\ preparing = "build" /\ UNCHANGED <<images, prepared>> /\ p.out \subseteq {Built}
      /\ p.key = <<p.base, p.deps>> /\ DOMAIN p = PrepareFields /\ p.failures \in BOOLEAN
      /\ \A i \in images' : LabelIsTrue(i)
  BY Zenon DEF Prepare!Build, EnvironmentIsOwn, Attempts
<1>2. CASE \E out : Prepare!AttemptFails("recipe", out)
  BY <1>1, <1>2, FailedKeeps
<1>3. ASSUME NEW archived \in BOOLEAN, NEW out, out = p.out \cup {Built}, preparing' = "tag",
             NEW image,
             image = [built |-> Built, tag |-> p.key, from |-> IF archived THEN out ELSE {},
                      labels |-> IF archived THEN {Prepare!environment_label(p.setup, p.key)}
                                 ELSE {}],
             p' = [p EXCEPT !.out = out, !.image = image]
      PROVE  EnvironmentIsOwn'
  <2>1. /\ DOMAIN p' = PrepareFields /\ p'.failures = p.failures /\ p'.out = out
        /\ p'.key = p.key /\ p'.setup = p.setup /\ p'.base = p.base /\ p'.deps = p.deps
        /\ p'.image = image
    BY <1>1, <1>3 DEF PrepareFields
  <2>2. out = {Built} /\ Built' = Built
    BY <1>1, <1>3, <2>1 DEF Built
  <2>3. /\ image.built = Built /\ image.from \subseteq {Built}
        /\ image.labels \subseteq {Prepare!environment_label(p.setup, p.key)}
    BY <1>3, <2>2
  <2>4. LabelIsTrue(image)
    BY <1>1, <2>3 DEF LabelIsTrue, Built, Prepare!environment_label,
       Prepare!environment_cache_key
  <2>5. LabelIsTrue(p.image)'
    BY <2>1, <2>4 DEF LabelIsTrue, Prepare!environment_label, Prepare!environment_cache_key
  <2>6. QED
    BY <1>1, <1>3, <2>1, <2>2, <2>3, <2>5 DEF EnvironmentIsOwn, Attempts, LabelIsTrue,
       Prepare!ImageMatches, Prepare!SnapshotIsClean
<1>4. QED
  BY Zenon, <1>2, <1>3 DEF Prepare!Build, Built

LEMMA AcceptStep ==
  ASSUME EnvironmentIsOwn, Prepare!Tag \/ Prepare!Baseline
  PROVE  EnvironmentIsOwn'
<1>1. CASE Prepare!Tag
  <2>1. /\ preparing = "tag" /\ images' = {p.image} /\ UNCHANGED prepared /\ LabelIsTrue(p.image)
    BY <1>1 DEF Prepare!Tag, Prepare!tag_image, EnvironmentIsOwn, Attempts
  <2>2. CASE Prepare!AttemptFails("recipe", p.out)
    BY <2>1, <2>2, FailedKeeps
  <2>3. CASE preparing' = "baseline" /\ UNCHANGED p
    BY <2>1, <2>3 DEF EnvironmentIsOwn, Attempts, Built, LabelIsTrue, Prepare!ImageMatches,
       Prepare!SnapshotIsClean
  <2>4. QED
    BY <1>1, <2>2, <2>3 DEF Prepare!Tag
<1>2. CASE Prepare!Baseline
  <2>1. /\ preparing = "baseline" /\ UNCHANGED images /\ p.out \subseteq {Built}
        /\ p.image.built = Built /\ \A i \in images' : LabelIsTrue(i)
    BY <1>2 DEF Prepare!Baseline, EnvironmentIsOwn, Attempts
  <2>2. CASE Prepare!AttemptFails("recipe", p.out) /\ UNCHANGED prepared
    BY <2>1, <2>2, FailedKeeps
  <2>3. CASE /\ Prepare!Over
             /\ prepared' = [setup |-> p.setup, base |-> p.base, deps |-> p.deps,
                             built |-> p.image.built, from |-> p.out]
    <3>1. (Prepare!ImageMatches /\ Prepare!SnapshotIsClean)'
      BY <2>1, <2>3 DEF Prepare!ImageMatches, Prepare!SnapshotIsClean, Built
    <3>2. QED
      BY <2>1, <2>3, <3>1, OverKeeps
  <2>4. QED
    BY <1>2, <2>2, <2>3 DEF Prepare!Baseline
<1>3. QED
  BY <1>1, <1>2

LEMMA EnvironmentStep ==
  ASSUME EnvironmentIsOwn, Prepare!Next
  PROVE  EnvironmentIsOwn'
<1>1. CASE Prepare!NextDay \/ Prepare!Change \/ Prepare!DockerStopsOrStarts
  BY <1>1 DEF Prepare!NextDay, Prepare!Change, Prepare!DockerStopsOrStarts, EnvironmentIsOwn,
     Attempts, Clean, Built, LabelIsTrue, Prepare!ImageMatches, Prepare!SnapshotIsClean
<1>2. CASE Prepare!RunFails \/ Prepare!Unavailable
  BY <1>2, OverKeeps DEF Prepare!RunFails, Prepare!Unavailable, EnvironmentIsOwn,
     Prepare!ImageMatches, Prepare!SnapshotIsClean
<1>3. CASE Prepare!ReplayFails
  BY <1>3, FailedKeeps DEF Prepare!ReplayFails, EnvironmentIsOwn
<1>4. QED
  BY <1>1, <1>2, <1>3, BeginStep, RecipeStep, BeginAttemptStep, ReuseStep, BuildStep, AcceptStep
  DEF Prepare!Next

\* An accepted environment is the one of its run, for any dependency files, digests
\* and days, whatever changes and fails between and during the runs
\* (environment_cache_key, environment_label, _attempt).
THEOREM EnvironmentIsItsOwnHolds == PreparationSpec => []EnvironmentIsItsOwn
<1> DEFINE Inv == scene \in {"sandbox", "solver", "checks", "choice"}
                  \/ (scene = "environment" /\ EnvironmentIsOwn)
<1>1. Inv => EnvironmentIsItsOwn
  BY DEF EnvironmentIsItsOwn, EnvironmentIsOwn
<1>2. PreparationInit => Inv
  BY EnvironmentInit DEF PreparationInit
<1>3. Inv /\ [PreparationNext]_AllVars => Inv'
  <2> SUFFICES ASSUME Inv, PreparationNext \/ UNCHANGED AllVars PROVE Inv'
    OBVIOUS
  <2>1. UNCHANGED scene /\ (scene = "environment" => Prepare!Next \/ UNCHANGED environment)
    BY DEF PreparationNext, AllVars
  <2>2. CASE scene = "environment" /\ Prepare!Next
    BY <2>1, <2>2, EnvironmentStep
  <2>3. CASE scene = "environment" /\ UNCHANGED environment
    BY <2>1, <2>3 DEF environment, EnvironmentIsOwn, Attempts, Clean, Built, LabelIsTrue,
       Prepare!ImageMatches, Prepare!SnapshotIsClean
  <2>4. QED
    BY <2>1, <2>2, <2>3
<1>4. QED
  BY <1>1, <1>2, <1>3, PTL DEF PreparationSpec

----------------------------------------------------------------------------
(***************************************************************************)
(* Discovery, for any repositories, issues, scores and limits.  What is        *)
(* eligible lies in a repository that was not held and in which nothing was     *)
(* recorded, since what was recorded lies in repositories that were left; a     *)
(* reading that lets a repository pass quotes a ban of the very files that      *)
(* identify it.                                                                 *)
(***************************************************************************)
IssuesIn(r) == Choose!Range(IssuesOf[r])
StopsOf(i) == Choose!Range(stops[i])
Stopped(c, r) == \E i \in IssuesIn(r) : c \in StopsOf(i)

Comments ==
    /\ stops \in [Choose!Issues -> Seq(Choose!Comments)]
    /\ \A i, j \in Choose!Issues : \A c \in StopsOf(i) \cap StopsOf(j) : i = j

RecordedIsBehind == \A c \in recorded : \E m \in DOMAIN Repos : m < k /\ Stopped(c, Repos[m])

LeftAlone(r) == r \notin held /\ \A c \in recorded : ~Stopped(c, r)
MayBeChosen(e) == \E r \in Choose!Repositories : e.issue \in IssuesIn(r) /\ LeftAlone(r)

QuotesBan(reading, files) ==
    "ban" \in Choose!Texts(files) =>
        reading.quotes # {} /\ reading.quotes \subseteq Choose!Texts(files)

Evaluated == eligible \cup ranked \cup ({winner} \ {None})
Evaluations == \A e \in Evaluated : MayBeChosen(e) /\ QuotesBan(e.reading, e.files)

Pinned == {<<"repository", pin>>, <<"organization", orgPin>>}

Place ==
    /\ k \in Nat /\ (choosing # "idle" => k # 0)
    /\ choosing \notin {"select", "done"} => ranked = {}
    /\ choosing # "done" => winner = None
    /\ choosing \in {"review", "issue"} =>
          /\ k \in DOMAIN Repos /\ Repos[k] \notin held
          /\ queue \subseteq DOMAIN IssuesOf[Repos[k]]
    /\ choosing = "issue" => QuotesBan(review, Pinned)

Readings ==
    \A e \in cache : ~Choose!_ai_policy_blocker(e.reading) => QuotesBan(e.reading, e.digest)

ChoiceIsRight == Comments /\ RecordedIsBehind /\ Evaluations /\ Place /\ Readings

LEMMA RepositoryOf ==
  ASSUME NEW r \in Choose!Repositories, NEW i \in IssuesIn(r)
  PROVE  i \in Choose!Issues /\ Choose!RepoOf(i) = r
<1>1. \A r1, r2 \in Choose!Repositories : r1 # r2 => IssuesIn(r1) \cap IssuesIn(r2) = {}
  BY PreparationConstants DEF Choose!DiscoveryConstants, IssuesIn
<1>2. i \in Choose!Issues
  BY DEF Choose!Issues, IssuesIn
<1>3. \A r2 \in Choose!Repositories : i \in IssuesIn(r2) <=> r2 = r
  BY <1>1
<1>4. Choose!RepoOf(i) = CHOOSE r2 \in Choose!Repositories : i \in IssuesIn(r2)
  BY DEF Choose!RepoOf, IssuesIn
<1>5. QED
  BY <1>2, <1>3, <1>4

\* A comment stops one repository, while no comment is on two issues.
LEMMA OneRepository ==
  ASSUME ChoiceIsRight, NEW r1 \in Choose!Repositories, NEW r2 \in Choose!Repositories, NEW c,
         Stopped(c, r1), Stopped(c, r2)
  PROVE  r1 = r2
<1>1. PICK i1 \in IssuesIn(r1) : c \in StopsOf(i1)
  BY DEF Stopped
<1>2. PICK i2 \in IssuesIn(r2) : c \in StopsOf(i2)
  BY DEF Stopped
<1>3. i1 \in Choose!Issues /\ i2 \in Choose!Issues
      /\ Choose!RepoOf(i1) = r1 /\ Choose!RepoOf(i2) = r2
  BY RepositoryOf
<1>4. i1 = i2
  BY <1>1, <1>2, <1>3 DEF ChoiceIsRight, Comments
<1>5. QED
  BY <1>3, <1>4

LEMMA ReposAreOrdered ==
  /\ Len(Repos) \in Nat /\ DOMAIN Repos = 1 .. Len(Repos)
  /\ \A m \in DOMAIN Repos : Repos[m] \in Choose!Repositories
  /\ \A m, n \in DOMAIN Repos : Repos[m] = Repos[n] => m = n
<1>1. Repos \in Seq(Choose!Repositories) /\ Choose!IsInjective(Repos)
  BY PreparationConstants DEF Choose!DiscoveryConstants
<1>2. QED
  BY <1>1 DEF Choose!IsInjective

LEMMA ChoiceInit == Choose!Init => ChoiceIsRight
<1> SUFFICES ASSUME Choose!Init PROVE ChoiceIsRight
  OBVIOUS
<1>1. /\ stops = [i \in Choose!Issues |-> <<>>] /\ recorded = {} /\ eligible = {} /\ ranked = {}
      /\ winner = None /\ cache = {} /\ choosing = "idle" /\ k = 0
  BY DEF Choose!Init
<1>2. \A i \in Choose!Issues : StopsOf(i) = {}
  BY <1>1 DEF StopsOf, Choose!Range
<1>3. Comments
  BY <1>1, <1>2 DEF Comments
<1>4. QED
  BY <1>1, <1>3 DEF ChoiceIsRight, RecordedIsBehind, Evaluations, Evaluated, Place, Readings

\* Stops, holds and what was recorded stay; at most the choice narrows.
LEMMA NarrowKeeps ==
  ASSUME ChoiceIsRight, UNCHANGED <<stops, held, recorded>>, Readings', Place', k' >= k,
         Evaluated' \subseteq Evaluated
  PROVE  ChoiceIsRight'
<1>1. \A i : StopsOf(i)' = StopsOf(i)
  BY DEF StopsOf
<1>2. \A c, r : Stopped(c, r)' <=> Stopped(c, r)
  BY <1>1 DEF Stopped, IssuesIn
<1>3. \A r : LeftAlone(r)' <=> LeftAlone(r)
  BY <1>2 DEF LeftAlone
<1>4. \A e : MayBeChosen(e)' <=> MayBeChosen(e)
  BY <1>3 DEF MayBeChosen, IssuesIn
<1>5. Comments'
  BY <1>1 DEF ChoiceIsRight, Comments
<1>6. RecordedIsBehind'
  <2> SUFFICES ASSUME NEW c \in recorded
               PROVE  \E m \in DOMAIN Repos : m < k' /\ Stopped(c, Repos[m])
    BY <1>2 DEF RecordedIsBehind
  <2>1. PICK m \in DOMAIN Repos : m < k /\ Stopped(c, Repos[m])
    BY DEF ChoiceIsRight, RecordedIsBehind
  <2>2. m \in Nat /\ k \in Nat /\ k' \in Nat
    BY ReposAreOrdered DEF ChoiceIsRight, Place
  <2>3. QED
    BY <2>1, <2>2
<1>7. Evaluations'
  BY <1>4 DEF ChoiceIsRight, Evaluations, QuotesBan
<1>8. QED
  BY <1>5, <1>6, <1>7 DEF ChoiceIsRight

LEMMA CacheKeeps == ASSUME ChoiceIsRight, UNCHANGED cache PROVE Readings'
BY DEF ChoiceIsRight, Readings, QuotesBan

\* A discovery begins or is over.
LEMMA BlankKeeps ==
  ASSUME ChoiceIsRight, UNCHANGED <<stops, cache>>,
         \/ choosing' = "idle" /\ k' = 0
         \/ choosing' = "repository" /\ k' = 1,
         recorded' = {}, eligible' = {}, ranked' = {}, winner' = None
  PROVE  ChoiceIsRight'
<1>1. \A i : StopsOf(i)' = StopsOf(i)
  BY DEF StopsOf
<1>2. Comments'
  BY <1>1 DEF ChoiceIsRight, Comments
<1>3. Readings'
  BY DEF ChoiceIsRight, Readings, QuotesBan
<1>4. QED
  BY <1>2, <1>3 DEF ChoiceIsRight, RecordedIsBehind, Evaluations, Evaluated, Place

\* A new comment is on one issue, and nothing was recorded of it.
LEMMA PostStep ==
  ASSUME ChoiceIsRight, Choose!PostStop
  PROVE  ChoiceIsRight'
<1>1. PICK j \in Choose!Issues, new \in Choose!Comments \ Choose!Posted :
        stops' = [stops EXCEPT ![j] = Append(@, new)]
  BY DEF Choose!PostStop
<1>2. UNCHANGED <<cache, choosing, held, k, pin, orgPin, review, queue, eligible, ranked, winner,
                  recorded>>
  BY DEF Choose!PostStop, Choose!pass
<1>3. stops \in [Choose!Issues -> Seq(Choose!Comments)]
  BY DEF ChoiceIsRight, Comments
<1>4. \A i \in Choose!Issues : new \notin StopsOf(i)
  BY <1>1 DEF Choose!Posted, StopsOf
<1>5. stops' \in [Choose!Issues -> Seq(Choose!Comments)]
  BY <1>1, <1>3
<1>6. ASSUME NEW i \in Choose!Issues
      PROVE  StopsOf(i)' = StopsOf(i) \cup (IF i = j THEN {new} ELSE {})
  <2>1. CASE i # j
    BY <1>1, <1>3, <2>1 DEF StopsOf
  <2>2. CASE i = j
    <3>1. stops[j] \in Seq(Choose!Comments) /\ stops'[j] = Append(stops[j], new)
      BY <1>1, <1>3
    <3>2. Choose!Range(Append(stops[j], new)) = Choose!Range(stops[j]) \cup {new}
      BY <3>1, <1>1 DEF Choose!Range
    <3>3. QED
      BY <2>2, <3>1, <3>2 DEF StopsOf
  <2>3. QED
    BY <2>1, <2>2
<1>7. Comments'
  <2> SUFFICES ASSUME NEW i1 \in Choose!Issues, NEW i2 \in Choose!Issues,
                      NEW c \in StopsOf(i1)' \cap StopsOf(i2)'
               PROVE  i1 = i2
    BY <1>5 DEF Comments
  <2>1. \A i \in Choose!Issues : c \in StopsOf(i)' => c \in StopsOf(i) \/ (i = j /\ c = new)
    BY <1>6
  <2>2. CASE c = new
    BY <1>4, <2>1, <2>2
  <2>3. CASE c # new
    BY <2>1, <2>3 DEF ChoiceIsRight, Comments
  <2>4. QED
    BY <2>2, <2>3
<1>8. ASSUME NEW c, NEW r \in Choose!Repositories
      PROVE  /\ Stopped(c, r) => Stopped(c, r)'
             /\ c # new /\ Stopped(c, r)' => Stopped(c, r)
  BY <1>6, RepositoryOf DEF Stopped, IssuesIn
<1>9. \A c \in recorded : c # new
  BY <1>4, RepositoryOf, ReposAreOrdered DEF ChoiceIsRight, RecordedIsBehind, Stopped
<1>10. RecordedIsBehind'
  BY <1>2, <1>8, ReposAreOrdered DEF ChoiceIsRight, RecordedIsBehind
<1>11. \A r \in Choose!Repositories : LeftAlone(r) => LeftAlone(r)'
  BY <1>2, <1>8, <1>9 DEF LeftAlone
<1>12. \A e : MayBeChosen(e) => MayBeChosen(e)'
  BY <1>11 DEF MayBeChosen, IssuesIn
<1>13. Evaluations'
  BY <1>2, <1>12 DEF ChoiceIsRight, Evaluations, Evaluated, QuotesBan
<1>14. Place' /\ Readings'
  BY <1>2 DEF ChoiceIsRight, Place, Readings, QuotesBan, Pinned
<1>15. QED
  BY <1>7, <1>10, <1>13, <1>14 DEF ChoiceIsRight

\* The next repository is looked at.
LEMMA NextKeeps ==
  ASSUME ChoiceIsRight, UNCHANGED <<stops, held, recorded, cache>>, Choose!NextRepository,
         choosing \notin {"idle", "select", "done"}, UNCHANGED <<eligible, ranked, winner>>
  PROVE  ChoiceIsRight'
<1>1. k \in Nat /\ k' = k + 1 /\ choosing' = "repository" /\ ranked = {} /\ winner = None
  BY DEF Choose!NextRepository, ChoiceIsRight, Place
<1>2. Place' /\ k' >= k
  BY <1>1 DEF Place
<1>3. QED
  BY <1>2, NarrowKeeps, CacheKeeps DEF Evaluated

LEMMA SearchStep ==
  ASSUME ChoiceIsRight, Choose!SkipRepository \/ Choose!Search \/ Choose!Unreadable
  PROVE  ChoiceIsRight'
<1>1. CASE Choose!SkipRepository
  BY <1>1, NextKeeps DEF Choose!SkipRepository, Choose!world
<1>2. CASE Choose!Unreadable
  BY <1>2, NextKeeps DEF Choose!Unreadable, Choose!world
<1>3. CASE Choose!Search
  <2>1. /\ choosing = "repository" /\ choosing' = "review" /\ k <= Len(Repos)
        /\ Repos[k] \notin held /\ queue' \subseteq DOMAIN IssuesOf[Repos[k]]
        /\ UNCHANGED <<stops, held, recorded, cache, k, eligible, ranked, winner>>
    BY <1>3 DEF Choose!Search, Choose!world
  <2>2. k \in Nat /\ k # 0 /\ ranked = {} /\ winner = None
    BY <2>1 DEF ChoiceIsRight, Place
  <2>3. Place' /\ k' >= k
    BY <2>1, <2>2, ReposAreOrdered DEF Place
  <2>4. QED
    BY <2>1, <2>3, NarrowKeeps, CacheKeeps DEF Evaluated
<1>4. QED
  BY <1>1, <1>2, <1>3

----------------------------------------------------------------------------
\* What _ai_policy returns quotes a ban of the files, or is a blocker.
LEMMA DigestSaysIt ==
  ASSUME NEW reading, NEW files, QuotesBan(reading, Choose!ai_policy_digest(files))
  PROVE  QuotesBan(reading, files)
BY DEF QuotesBan, Choose!ai_policy_digest, Choose!Texts

LEMMA CheckedQuotes ==
  ASSUME NEW claimed \in Choose!Claims, NEW files, NEW reading,
         reading = Choose!checked_ai_policy(claimed, files, Choose!deterministic_ai_policy(files)),
         ~Choose!_ai_policy_blocker(reading)
  PROVE  QuotesBan(reading, Choose!ai_policy_digest(files))
<1> SUFFICES ASSUME "ban" \in Choose!Texts(Choose!ai_policy_digest(files))
             PROVE  /\ reading.quotes # {}
                    /\ reading.quotes \subseteq Choose!Texts(Choose!ai_policy_digest(files))
  BY DEF QuotesBan
<1>1. "ban" \in Choose!Texts(files)
  BY DEF Choose!ai_policy_digest, Choose!Texts
<1>2. Choose!deterministic_ai_policy(files) = [stance |-> "ban", quotes |-> {"ban"}]
  BY <1>1 DEF Choose!deterministic_ai_policy
<1> DEFINE verified == claimed.quotes \cap Choose!Texts(files)
<1>3. reading # Choose!deterministic_ai_policy(files)
  BY <1>2 DEF Choose!_ai_policy_blocker
<1>4. reading # [stance |-> "unclear", quotes |-> verified]
  BY DEF Choose!_ai_policy_blocker
<1>5. reading = claimed /\ claimed.quotes = verified /\ verified # {}
  BY <1>2, <1>3, <1>4 DEF Choose!checked_ai_policy
<1>6. "silent" \notin claimed.quotes
  BY DEF Choose!Claims
<1>7. verified \subseteq Choose!Texts(Choose!ai_policy_digest(files))
  BY <1>6 DEF Choose!Texts, Choose!ai_policy_digest
<1>8. QED
  BY <1>5, <1>7

LEMMA PolicyQuotes ==
  ASSUME Readings, NEW r, NEW files, NEW reading, Choose!_ai_policy(r, files, reading)
  PROVE  Readings' /\ (~Choose!_ai_policy_blocker(reading) => QuotesBan(reading, files))
<1> DEFINE digest == Choose!ai_policy_digest(files)
<1>1. CASE reading = Choose!deterministic_ai_policy(files) /\ UNCHANGED cache
  <2>1. Readings'
    BY <1>1 DEF Readings, QuotesBan
  <2>2. ~Choose!_ai_policy_blocker(reading) => "ban" \notin Choose!Texts(files)
    BY <1>1 DEF Choose!_ai_policy_blocker, Choose!deterministic_ai_policy
  <2>3. QED
    BY <2>1, <2>2 DEF QuotesBan
<1>2. CASE /\ \E e \in {f \in cache : f.repository = r /\ f.digest = digest} : reading = e.reading
           /\ UNCHANGED cache
  <2>1. Readings'
    BY <1>2 DEF Readings, QuotesBan
  <2>2. ~Choose!_ai_policy_blocker(reading) => QuotesBan(reading, digest)
    BY <1>2 DEF Readings
  <2>3. QED
    BY <2>1, <2>2, DigestSaysIt
<1>3. ASSUME NEW claimed \in Choose!Claims,
             reading = Choose!checked_ai_policy(claimed, files,
                                                Choose!deterministic_ai_policy(files)),
             cache' = cache \cup {[repository |-> r, digest |-> digest, reading |-> reading]}
      PROVE  Readings' /\ (~Choose!_ai_policy_blocker(reading) => QuotesBan(reading, files))
  <2>1. ~Choose!_ai_policy_blocker(reading) => QuotesBan(reading, digest)
    BY <1>3, CheckedQuotes
  <2> HIDE DEF digest
  <2> DEFINE kept == [repository |-> r, digest |-> digest, reading |-> reading]
  <2>2. kept.digest = digest /\ kept.reading = reading
    OBVIOUS
  <2>3. \A e \in cache' : e \in cache \/ e = kept
    BY <1>3 DEF digest
  <2> HIDE DEF kept
  <2>4. Readings'
    BY <2>1, <2>2, <2>3 DEF Readings, QuotesBan, Choose!_ai_policy_blocker
  <2>5. QED
    BY <2>1, <2>4, DigestSaysIt DEF digest
<1>4. QED
  BY <1>1, <1>2, <1>3 DEF Choose!_ai_policy

LEMMA PolicyStep ==
  ASSUME ChoiceIsRight, Choose!Review
  PROVE  ChoiceIsRight'
<1>1. /\ choosing = "review" /\ UNCHANGED <<stops, held, recorded, eligible, ranked, winner>>
  BY DEF Choose!Review, Choose!world
<1>2. PICK reading \in Choose!Claims :
        /\ Choose!_ai_policy(Repos[k], Choose!Files, reading)
        /\ \/ /\ ~Choose!_ai_policy_blocker(reading)
              /\ review' = reading /\ choosing' = "issue" /\ UNCHANGED <<k, pin, queue>>
           \/ Choose!NextRepository
  BY DEF Choose!Review
<1>3. Readings' /\ (~Choose!_ai_policy_blocker(reading) => QuotesBan(reading, Choose!Files))
  BY <1>2, PolicyQuotes DEF ChoiceIsRight
<1>4. /\ k \in Nat /\ k # 0 /\ k \in DOMAIN Repos /\ Repos[k] \notin held /\ ranked = {}
      /\ winner = None /\ queue \subseteq DOMAIN IssuesOf[Repos[k]]
  BY <1>1 DEF ChoiceIsRight, Place
<1>5. Place' /\ k' >= k
  <2>1. CASE Choose!NextRepository
    BY <1>1, <1>4, <2>1 DEF Choose!NextRepository, Place
  <2>2. CASE /\ ~Choose!_ai_policy_blocker(reading)
             /\ review' = reading /\ choosing' = "issue" /\ UNCHANGED <<k, pin, queue>>
    <3>1. Pinned' = Choose!Files
      BY <2>2 DEF Pinned, Choose!Files
    <3>2. QuotesBan(review, Pinned)'
      BY <1>3, <2>2, <3>1 DEF QuotesBan
    <3>3. QED
      BY <1>1, <1>4, <2>2, <3>2 DEF Place
  <2>3. QED
    BY <1>2, <2>1, <2>2
<1>6. QED
  BY <1>1, <1>3, <1>5, NarrowKeeps DEF Evaluated

----------------------------------------------------------------------------
\* The issue that is looked at lies in the repository, and the repository is left alone.
LEMMA FoundIsHere ==
  ASSUME ChoiceIsRight, choosing = "issue", NEW n \in queue
  PROVE  /\ Repos[k] \in Choose!Repositories /\ Choose!Found(n) \in IssuesIn(Repos[k])
         /\ LeftAlone(Repos[k])
<1>1. /\ k \in DOMAIN Repos /\ Repos[k] \notin held /\ n \in DOMAIN IssuesOf[Repos[k]]
  BY DEF ChoiceIsRight, Place
<1>2. Repos[k] \in Choose!Repositories
  BY <1>1, ReposAreOrdered
<1>3. Choose!Found(n) \in IssuesIn(Repos[k])
  BY <1>1 DEF Choose!Found, IssuesIn, Choose!Range
<1>4. ASSUME NEW c \in recorded PROVE ~Stopped(c, Repos[k])
  <2>1. PICK m \in DOMAIN Repos : m < k /\ Stopped(c, Repos[m])
    BY DEF ChoiceIsRight, RecordedIsBehind
  <2>2. m # k /\ Repos[m] # Repos[k] /\ Repos[m] \in Choose!Repositories
    BY <1>1, <2>1, ReposAreOrdered
  <2>3. QED
    BY <1>2, <2>1, <2>2, OneRepository
<1>5. QED
  BY <1>1, <1>2, <1>3, <1>4 DEF LeftAlone

LEMMA AssessStep ==
  ASSUME ChoiceIsRight, Choose!AssessStopped
  PROVE  ChoiceIsRight'
<1>1. /\ choosing = "issue" /\ UNCHANGED <<stops, held, cache, ranked, winner>>
  BY DEF Choose!AssessStopped
<1>2. PICK n \in queue :
        LET c == Head(stops[Choose!Found(n)]) IN
        /\ stops[Choose!Found(n)] # <<>>
        /\ \/ /\ recorded' = recorded \cup {c}
              /\ eligible' = Choose!Dropped(Repos[k])
              /\ Choose!NextRepository
           \/ /\ queue' = queue \ {n}
              /\ UNCHANGED <<recorded, eligible, choosing, k, pin, review>>
  BY DEF Choose!AssessStopped
<1>3. /\ k \in Nat /\ k # 0 /\ ranked = {} /\ winner = None
      /\ k \in DOMAIN Repos /\ Repos[k] \notin held /\ queue \subseteq DOMAIN IssuesOf[Repos[k]]
      /\ QuotesBan(review, Pinned)
  BY <1>1 DEF ChoiceIsRight, Place
<1>4. Repos[k] \in Choose!Repositories /\ Choose!Found(n) \in IssuesIn(Repos[k])
  BY <1>1, FoundIsHere
<1> DEFINE c == Head(stops[Choose!Found(n)])
<1>5. CASE queue' = queue \ {n} /\ UNCHANGED <<recorded, eligible, choosing, k, pin, review>>
  <2>1. UNCHANGED orgPin
    BY DEF Choose!AssessStopped
  <2>2. Place' /\ k' >= k
    BY SMTT(30), <1>1, <1>3, <1>5, <2>1 DEF Place, QuotesBan, Pinned
  <2>3. QED
    BY <1>1, <1>5, <2>2, NarrowKeeps, CacheKeeps DEF Evaluated
<1>6. CASE /\ recorded' = recorded \cup {c} /\ eligible' = Choose!Dropped(Repos[k])
           /\ Choose!NextRepository
  <2>1. k' = k + 1 /\ Place'
    BY <1>1, <1>3, <1>6 DEF Choose!NextRepository, Place
  <2>2. c \in StopsOf(Choose!Found(n))
    <3>1. stops[Choose!Found(n)] \in Seq(Choose!Comments)
      BY <1>4, RepositoryOf DEF ChoiceIsRight, Comments
    <3>2. 1 \in DOMAIN stops[Choose!Found(n)] /\ c = stops[Choose!Found(n)][1]
      BY <1>2, <3>1
    <3>3. QED
      BY <3>2 DEF StopsOf, Choose!Range
  <2>3. Stopped(c, Repos[k])
    BY <1>4, <2>2 DEF Stopped
  <2>4. \A d, r : Stopped(d, r)' <=> Stopped(d, r)
    BY <1>1 DEF Stopped, StopsOf, IssuesIn
  <2>5. Comments'
    BY <1>1 DEF ChoiceIsRight, Comments, StopsOf
  <2>6. RecordedIsBehind'
    <3> SUFFICES ASSUME NEW d \in recorded'
                 PROVE  \E m \in DOMAIN Repos : m < k' /\ Stopped(d, Repos[m])
      BY <2>4 DEF RecordedIsBehind
    <3>1. CASE d = c
      BY <1>3, <2>1, <2>3, <3>1
    <3>2. CASE d \in recorded
      <4>1. PICK m \in DOMAIN Repos : m < k /\ Stopped(d, Repos[m])
        BY <3>2 DEF ChoiceIsRight, RecordedIsBehind
      <4>2. m \in Nat
        BY ReposAreOrdered
      <4>3. QED
        BY <1>3, <2>1, <4>1, <4>2
    <3>3. QED
      BY <1>6, <3>1, <3>2
  <2>7. Evaluations'
    <3> SUFFICES ASSUME NEW e \in Evaluated' PROVE MayBeChosen(e)' /\ QuotesBan(e.reading, e.files)
      BY DEF Evaluations, QuotesBan
    <3>1. e \in eligible /\ Choose!RepoOf(e.issue) # Repos[k]
      BY <1>1, <1>3, <1>6 DEF Evaluated, Choose!Dropped
    <3>2. MayBeChosen(e) /\ QuotesBan(e.reading, e.files)
      BY <3>1 DEF ChoiceIsRight, Evaluations, Evaluated
    <3>3. PICK r \in Choose!Repositories : e.issue \in IssuesIn(r) /\ LeftAlone(r)
      BY <3>2 DEF MayBeChosen
    <3>4. r # Repos[k]
      BY <3>1, <3>3, RepositoryOf
    <3>5. ~Stopped(c, r)
      BY <1>4, <2>3, <3>4, OneRepository
    <3>6. LeftAlone(r)'
      BY <1>1, <1>6, <2>4, <3>3, <3>5 DEF LeftAlone
    <3>7. QED
      BY <3>2, <3>3, <3>6 DEF MayBeChosen, IssuesIn
  <2>8. QED
    BY <1>1, <2>1, <2>5, <2>6, <2>7, CacheKeeps DEF ChoiceIsRight
<1>7. QED
  BY <1>2, <1>5, <1>6

LEMMA EligibleStep ==
  ASSUME ChoiceIsRight, Choose!AssessEligible
  PROVE  ChoiceIsRight'
<1>1. /\ choosing = "issue"
      /\ UNCHANGED <<stops, held, recorded, cache, ranked, winner, choosing, k, pin, orgPin, review>>
  BY DEF Choose!AssessEligible, Choose!world
<1>2. PICK n \in queue :
        /\ eligible' = eligible \cup {Choose!Evaluation(Choose!Found(n))}
        /\ queue' = queue \ {n}
  BY DEF Choose!AssessEligible
<1> DEFINE new == Choose!Evaluation(Choose!Found(n))
<1>3. new.issue = Choose!Found(n) /\ new.files = Pinned /\ new.reading = review
  BY DEF Choose!Evaluation, Pinned
<1> HIDE DEF new
<1>4. MayBeChosen(new) /\ QuotesBan(new.reading, new.files)
  BY <1>1, <1>3, FoundIsHere DEF MayBeChosen, ChoiceIsRight, Place
<1>5. \A e \in Evaluated' : e \in Evaluated \/ e = new
  BY <1>1, <1>2 DEF Evaluated, new
<1>6. \A e : MayBeChosen(e)' <=> MayBeChosen(e)
  BY <1>1 DEF MayBeChosen, LeftAlone, Stopped, StopsOf, IssuesIn
<1>7. Evaluations'
  BY <1>4, <1>5, <1>6 DEF ChoiceIsRight, Evaluations, QuotesBan
<1>8. Comments' /\ RecordedIsBehind' /\ Place' /\ Readings'
  BY <1>1, <1>2 DEF ChoiceIsRight, Comments, RecordedIsBehind, Stopped, StopsOf, IssuesIn, Place,
     Readings, QuotesBan, Pinned
<1>9. QED
  BY <1>7, <1>8 DEF ChoiceIsRight

LEMMA PickStep ==
  ASSUME ChoiceIsRight, \/ Choose!Rank \/ Choose!Accept \/ Choose!TurnDown \/ Choose!NoCandidate
                        \/ Choose!PassOver
  PROVE  ChoiceIsRight'
<1>1. /\ UNCHANGED <<stops, held, recorded, cache, k, eligible, pin, orgPin, review>>
      /\ choosing # "idle" /\ k \in Nat /\ k # 0
  BY DEF Choose!Rank, Choose!Accept, Choose!TurnDown, Choose!NoCandidate, Choose!PassOver,
     Choose!world, ChoiceIsRight, Place
<1>2. CASE Choose!Rank
  BY <1>1, <1>2, NarrowKeeps, CacheKeeps DEF Choose!Rank, ChoiceIsRight, Place, Evaluated
<1>3. CASE Choose!Accept
  BY <1>1, <1>3, NarrowKeeps, CacheKeeps DEF Choose!Accept, ChoiceIsRight, Place, Evaluated
<1>4. CASE Choose!TurnDown
  BY <1>1, <1>4, NarrowKeeps, CacheKeeps DEF Choose!TurnDown, ChoiceIsRight, Place, Evaluated
<1>5. CASE Choose!NoCandidate
  BY <1>1, <1>5, NarrowKeeps, CacheKeeps DEF Choose!NoCandidate, ChoiceIsRight, Place, Evaluated
<1>6. CASE Choose!PassOver
  <2>1. choosing = "issue" /\ UNCHANGED <<choosing, ranked, winner>> /\ queue' \subseteq queue
    BY <1>6 DEF Choose!PassOver
  <2>2. Place' /\ k' >= k
    BY <1>1, <2>1 DEF ChoiceIsRight, Place, QuotesBan, Pinned
  <2>3. QED
    BY <1>1, <2>1, <2>2, NarrowKeeps, CacheKeeps DEF Evaluated
<1>7. QED
  BY <1>2, <1>3, <1>4, <1>5, <1>6

LEMMA ChoiceStays ==
  ASSUME ChoiceIsRight,
         UNCHANGED <<stops, cache, choosing, held, k, pin, orgPin, review, queue, eligible, ranked,
                     winner, recorded>>
  PROVE  ChoiceIsRight'
<1>1. Place' /\ k' >= k
  <2>1. Place /\ k \in Nat
    BY DEF ChoiceIsRight, Place
  <2>2. Place'
    BY <2>1 DEF Place, QuotesBan, Pinned
  <2>3. QED
    BY <2>1, <2>2
<1>2. QED
  BY <1>1, NarrowKeeps, CacheKeeps DEF Evaluated

LEMMA ChoiceStep ==
  ASSUME ChoiceIsRight, Choose!Next \/ UNCHANGED choice
  PROVE  ChoiceIsRight'
<1>1. CASE Choose!Begin \/ Choose!Fatal \/ Choose!End
  BY <1>1, BlankKeeps DEF Choose!Begin, Choose!Fatal, Choose!End, Choose!world
<1>2. CASE \/ Choose!ChangePolicy \/ Choose!Release \/ Choose!RecordElsewhere \/ UNCHANGED choice
  BY <1>2, ChoiceStays DEF Choose!ChangePolicy, Choose!Release, Choose!RecordElsewhere,
     Choose!pass, choice
<1>3. CASE Choose!LeaveRepository
  BY <1>3, NextKeeps DEF Choose!LeaveRepository, Choose!world
<1>4. QED
  BY <1>1, <1>2, <1>3, PostStep, SearchStep, PolicyStep, AssessStep, EligibleStep, PickStep
  DEF Choose!Next

\* An issue is chosen on a reading that quotes the policy it was chosen under, and
\* never in a repository that was held or in which this discovery recorded a stop, for
\* any repositories and issues, whatever maintainers post meanwhile (checked_ai_policy,
\* _ai_policy, discover).
THEOREM ChoiceIsAllowedHolds == PreparationSpec => []ChoiceIsAllowed
<1>1. ChoiceIsRight => ChoiceIsAllowed
  <2> SUFFICES ASSUME ChoiceIsRight, winner # None
               PROVE  ChoiceIsAllowed
    BY DEF ChoiceIsAllowed, Choose!BanNeedsQuote, Choose!HeldIsLeftAlone
  <2>1. MayBeChosen(winner) /\ QuotesBan(winner.reading, winner.files)
    BY DEF ChoiceIsRight, Evaluations, Evaluated
  <2>2. PICK r \in Choose!Repositories : winner.issue \in IssuesIn(r) /\ LeftAlone(r)
    BY <2>1 DEF MayBeChosen
  <2>3. Choose!RepoOf(winner.issue) = r
    BY <2>2, RepositoryOf
  <2>4. Choose!HeldIsLeftAlone
    BY <2>2, <2>3 DEF Choose!HeldIsLeftAlone, LeftAlone, Stopped, StopsOf, IssuesIn
  <2>5. Choose!BanNeedsQuote
    BY <2>1 DEF Choose!BanNeedsQuote, QuotesBan
  <2>6. QED
    BY <2>4, <2>5 DEF ChoiceIsAllowed
<1>2. PreparationInit => ChoiceIsRight
  BY ChoiceInit DEF PreparationInit
<1>3. ChoiceIsRight /\ [PreparationNext]_AllVars => ChoiceIsRight'
  <2>1. PreparationNext \/ UNCHANGED AllVars => Choose!Next \/ UNCHANGED choice
    BY DEF PreparationNext, AllVars
  <2>2. QED
    BY <2>1, ChoiceStep
<1>4. QED
  BY <1>1, <1>2, <1>3, PTL DEF PreparationSpec
==============================================================================
