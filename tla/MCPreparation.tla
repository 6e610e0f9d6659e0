----------------------------- MODULE MCPreparation -----------------------------
(***************************************************************************)
(* The steps of a preparation, each on a small instance: the choice of an   *)
(* issue (Discovery), the test environment (Environments), the containers   *)
(* (Sandbox), the agent's transcript and its review (Solver) and the test    *)
(* runs of a fix (FixChecks).  They share no state, so a behaviour is one of *)
(* one scene; what belongs to the others never changes in it.                *)
(***************************************************************************)
EXTENDS Sandbox

CONSTANTS
    None,
    b, d1, d2, x, c1, Diffs, Base, Leaking, Untested, Commands, MaxTurns, MaxCalls, MaxReports,
    t1, t2, Tests, File, InFile, MinPassPercent,
    Deps, Digests, BlockDays, MaxDays, MaxChanges, DockerMayStop, RegistryMayFail,
    Repos, IssuesOf, Score, CandidateLimit, MaxElsewhere

VARIABLES
    scene,
    outcome, solving, diff, turns, nudges, malformed, failing, turn, long, submits, passed,
    accepted, results, validated, rounds, told,
    step, seen, base, patch, edited, found, green, failure, kind, fails, reruns, related,
    redGreen, regression, red, missed, failed, shown, fine,
    day, changes, deps, tag, up, local, images, row, preparing, p, prepared,
    head, stops, holds, cache, attempted, choosing, held, k, pin, orgPin, review, queue, eligible,
    ranked, winner, recorded, runs, policyChanges, elsewhere

sandbox == vars
solver == <<outcome, solving, diff, turns, nudges, malformed, failing, turn, long, submits, passed,
            accepted, results, validated, rounds, told>>
checks == <<step, seen, base, patch, edited, found, green, failure, kind, fails, reruns, related,
            redGreen, regression, red, missed, failed, shown, fine>>
environment == <<day, changes, deps, tag, up, local, images, row, preparing, p, prepared>>
choice == <<head, stops, holds, cache, attempted, choosing, held, k, pin, orgPin, review, queue,
            eligible, ranked, winner, recorded, runs, policyChanges, elsewhere>>

Solve == INSTANCE Solver WITH status <- outcome, pc <- solving
Check == INSTANCE FixChecks
Prepare == INSTANCE Environments WITH pc <- preparing
Choose == INSTANCE Discovery WITH pc <- choosing, changes <- policyChanges

ASSUME PreparationConstants ==
    /\ Solve!SolverConstants /\ Check!FixChecksConstants
    /\ Prepare!EnvironmentsConstants /\ Choose!DiscoveryConstants

\* Two repositories of one owner.
TwoRepos == <<"r1", "r2">>
ThreeIssues == [r \in {"r1", "r2"} |-> IF r = "r1" THEN <<"a", "b">> ELSE <<"c">>]
Scores == [i \in {"a", "b", "c"} |-> CASE i = "a" -> 60 [] i = "b" -> 80 [] OTHER -> 70]

NoEnvironment ==
    /\ day = 0 /\ changes = 0 /\ deps = 0 /\ tag = 0 /\ up = 0 /\ local = 0 /\ images = 0 /\ row = 0
    /\ preparing = 0 /\ p = 0 /\ prepared = 0

PreparationInit ==
    /\ Init /\ Solve!Init /\ Check!Init /\ Choose!Init
    /\ \/ scene \in {"sandbox", "solver", "checks", "choice"} /\ NoEnvironment
       \/ scene = "environment" /\ Prepare!Init

PreparationNext ==
    /\ UNCHANGED scene
    /\ \/ /\ scene = "sandbox" /\ Next
          /\ UNCHANGED <<solver, checks, environment, choice>>
       \/ /\ scene = "solver" /\ Solve!Next
          /\ UNCHANGED <<sandbox, checks, environment, choice>>
       \/ /\ scene = "checks" /\ Check!Next
          /\ UNCHANGED <<sandbox, solver, environment, choice>>
       \/ /\ scene = "environment" /\ Prepare!Next
          /\ UNCHANGED <<sandbox, solver, checks, choice>>
       \/ /\ scene = "choice" /\ Choose!Next
          /\ UNCHANGED <<sandbox, solver, checks, environment>>

AllVars == <<scene, sandbox, solver, checks, environment, choice>>

PreparationSpec == PreparationInit /\ [][PreparationNext]_AllVars

\* A run waits for approval only with what was checked, reported and reviewed:
\* the workspace holds the confirmed diff, its latest check passed and was shown
\* to the agent before it confirmed, and the last critic was given the tree of that
\* very diff and found nothing that stands (_on_submit, FixChecks.check,
\* Critic.review).
ReadyWasCheckedAndReviewed == Solve!ReadyWasCheckedAndReviewed /\ Solve!ConfirmedWasReported

\* What the test runs of a fix conclude: it shows the bug and its repair, it broke
\* no test of the baseline, and no test is held against it that it did not break,
\* however tests flake, runs break and time runs out (_red_green, _regression).
VerdictIsRight == Check!FixIsShown /\ Check!NothingBroken /\ Check!NoFalseAlarm

\* An accepted environment is the one of this run: its image was built from its
\* setup, base image and dependency files, and its tests ran over nothing else's
\* output (environment_cache_key, environment_label, _attempt).
EnvironmentIsItsOwn == scene = "environment" => Prepare!ImageMatches /\ Prepare!SnapshotIsClean

\* An issue is chosen on a reading that quotes the policy it was chosen under, and
\* never in a repository that was held or is stopped by what discovery recorded
\* (checked_ai_policy, discover).
ChoiceIsAllowed == Choose!BanNeedsQuote /\ Choose!HeldIsLeftAlone
===============================================================================
