-------------------------------- MODULE Solver --------------------------------
(***************************************************************************)
(* The agent's transcript and the review of what it submits (agent_loop.py, *)
(* critic.py, Orchestrator._solve).  The agent edits the workspace and runs *)
(* commands turn by turn; a submit is checked, a second one with the same   *)
(* diff confirms it, and a critic reviews the confirmed fix, at most twice. *)
(*                                                                         *)
(* One step is one tool call of a turn, one answer of the controller, or   *)
(* one review.  The model may call anything in any order; a check of the   *)
(* same diff may come out differently each time (module FixChecks).        *)
(***************************************************************************)
EXTENDS Naturals, Sequences, FiniteSets

CONSTANTS
    Diffs,              \* contents of the workspace; Base is the unchanged one
    Base,
    Leaking,            \* diffs with a secret value of this machine
    Untested,           \* diffs that change sources and no test
    Commands,           \* shell commands
    MaxTurns,           \* SCOPES["agent"].max_turns, scaled down
    MaxCalls,           \* bound: tool calls in one turn
    MaxReports,         \* bound: blockers in one review
    None

SolverConstants ==
    /\ Base \in Diffs /\ Leaking \subseteq Diffs /\ Untested \subseteq Diffs
    /\ Base \notin Leaking \cup Untested
    /\ None \notin Diffs \cup Commands
    /\ MaxTurns \in Nat \ {0} /\ MaxCalls \in Nat \ {0} /\ MaxReports \in Nat

MaxNudges == 2
MaxMalformedTurns == 3
MaxRepeatedFailures == 3
MaxFixSubmits == 4
MaxCriticRounds == 2

VARIABLES
    status,     \* of the run
    pc,         \* next: a turn is due; calls: its calls are answered; fix; review
    diff,       \* what the workspace holds
    \* AgentLoop
    turns, nudges, malformed,
    failing,    \* the command that failed last, and how often in a row
    turn,       \* this turn: calls made, invalid ones, submitted, ended, last
    long,       \* the transcript has reached its context limit
    \* Solver
    submits,
    passed,     \* the diff whose check passed last
    accepted,   \* the diff that was confirmed
    \* FixChecks
    results,    \* diff -> did its latest check pass
    validated,  \* the diff of the tree V
    \* Critic
    rounds,
    told        \* history: the diffs whose passing check an earlier turn reported this round

loop == <<turns, nudges, malformed, failing, long>>
solver == <<submits, passed, accepted>>
checks == <<results, validated>>
vars == <<status, pc, diff, loop, turn, solver, checks, rounds, told>>

NoTurn == [calls |-> 0, invalid |-> 0, submitted |-> FALSE, ended |-> "no", last |-> FALSE,
           report |-> None]
NoStreak == [command |-> None, times |-> 0]

Init ==
    /\ status = "implementing"
    /\ pc = "next"
    /\ diff = Base
    /\ turns = 0 /\ nudges = 0 /\ malformed = 0
    /\ failing = NoStreak
    /\ turn = NoTurn
    /\ long = FALSE
    /\ submits = 0 /\ passed = None /\ accepted = None
    /\ results = <<>>
    /\ validated = None
    /\ rounds = <<>>
    /\ told = {}

\* _end, or an error that ends the run.
End(s) == status' = s /\ pc' = "done"

------------------------------------------------------------------------------
(* Turns. *)

\* _run_turns: the cap on turns.
TurnCap ==
    /\ pc = "next" /\ turns >= MaxTurns
    /\ End("rejected")
    /\ UNCHANGED <<diff, loop, turn, solver, checks, rounds, told>>

\* A turn is requested and comes; the transcript may have reached its context
\* limit, and then this is the last one.
RequestTurn ==
    /\ pc = "next" /\ turns < MaxTurns
    /\ turns' = turns + 1
    /\ \E l \in {long, TRUE} : long' = l /\ turn' = [NoTurn EXCEPT !.last = l]
    /\ pc' = "calls"
    /\ UNCHANGED <<status, diff, nudges, malformed, failing, solver, checks, rounds, told>>

\* _request ends without a turn: budget, time or room ran out, or the provider failed.
RequestFails ==
    /\ pc = "next" /\ turns < MaxTurns
    /\ \E s \in {"rejected", "failed"} : End(s)
    /\ UNCHANGED <<diff, loop, turn, solver, checks, rounds, told>>

\* A call's answer, which may be that it did nothing or that it ends the task.
Answer(invalid, ended) ==
    turn' = [turn EXCEPT !.calls = @ + 1, !.invalid = IF invalid THEN @ + 1 ELSE @,
                         !.ended = ended]

MayCall == pc = "calls" /\ turn.calls < MaxCalls

\* After a call that ended the task, the others of the turn are not run.
Ignored ==
    /\ MayCall /\ turn.ended # "no"
    /\ Answer(FALSE, turn.ended)
    /\ UNCHANGED <<status, pc, diff, loop, solver, checks, rounds, told>>

\* Arguments that do not fit, or that hold a credential: nothing runs.
BadCall ==
    /\ MayCall /\ turn.ended = "no"
    /\ failing' = NoStreak
    /\ Answer(TRUE, "no")
    /\ UNCHANGED <<status, pc, diff, turns, nudges, malformed, long, solver, checks, rounds, told>>

\* An edit or a look at a file, or a restart of the session.
Edit ==
    /\ MayCall /\ turn.ended = "no"
    /\ diff' \in Diffs
    /\ failing' = NoStreak
    /\ Answer(FALSE, "no")
    /\ UNCHANGED <<status, pc, turns, nudges, malformed, long, solver, checks, rounds, told>>

\* _after_tool: the streak of one failing command.
_after_tool(c, ok) ==
    IF ok THEN NoStreak
    ELSE [command |-> c, times |-> IF failing.command = c THEN failing.times + 1 ELSE 1]

\* A shell command runs, or the run's time is over.
Shell ==
    /\ MayCall /\ turn.ended = "no"
    /\ \/ \E c \in Commands, ok \in BOOLEAN :
             /\ failing' = _after_tool(c, ok)
             /\ diff' \in Diffs
             /\ Answer(FALSE, IF failing'.times >= MaxRepeatedFailures THEN "stop" ELSE "no")
       \/ Answer(FALSE, "stop") /\ UNCHANGED <<failing, diff>>
    /\ UNCHANGED <<status, pc, turns, nudges, malformed, long, solver, checks, rounds, told>>

\* The sandbox itself failed.
SandboxFails ==
    /\ pc = "calls"
    /\ End("failed")
    /\ UNCHANGED <<diff, loop, turn, solver, checks, rounds, told>>

------------------------------------------------------------------------------
(* Submits. *)

MaySubmit == MayCall /\ turn.ended = "no" /\ ~turn.submitted

\* A second submit of a turn would answer the first one's result unread.
SecondSubmit ==
    /\ MayCall /\ turn.ended = "no" /\ turn.submitted
    /\ Answer(TRUE, "no")
    /\ UNCHANGED <<status, pc, diff, loop, solver, checks, rounds, told>>

Submitted(ended) == [turn EXCEPT !.calls = @ + 1, !.submitted = TRUE, !.ended = ended]

InvalidSubmit ==
    /\ MaySubmit
    /\ failing' = NoStreak
    /\ turn' = [Submitted("no") EXCEPT !.invalid = @ + 1]
    /\ UNCHANGED <<status, pc, diff, turns, nudges, malformed, long, solver, checks, rounds, told>>

SkipIssue ==
    /\ MaySubmit
    /\ failing' = NoStreak
    /\ turn' = Submitted("skip")
    /\ UNCHANGED <<status, pc, diff, turns, nudges, malformed, long, solver, checks, rounds, told>>

Left == MaxFixSubmits - submits'

\* The workspace still holds the diff whose check passed.
Confirms == passed # None /\ diff = passed

\* _on_submit: the confirming submit of an unchanged diff; its text may not do.
ConfirmFix ==
    /\ MaySubmit /\ Confirms
    /\ submits' = submits + 1
    /\ \/ accepted' = passed /\ turn' = Submitted("fix")
       \/ UNCHANGED accepted /\ turn' = Submitted(IF Left = 0 THEN "stop" ELSE "no")
    /\ failing' = NoStreak
    /\ UNCHANGED <<status, pc, diff, turns, nudges, malformed, long, passed, checks, rounds, told>>

\* The last submit of a round does not check.
SubmitLimit ==
    /\ MaySubmit /\ ~Confirms
    /\ submits' = submits + 1 /\ Left = 0
    /\ turn' = Submitted("stop")
    /\ failing' = NoStreak
    /\ UNCHANGED <<status, pc, diff, turns, nudges, malformed, long, passed, accepted, checks,
                   rounds, told>>

\* A host secret in the diff stops every run.
LeakFound ==
    /\ MaySubmit /\ ~Confirms /\ submits + 1 < MaxFixSubmits
    /\ diff \in Leaking
    /\ submits' = submits + 1
    /\ validated' = None
    /\ End("failed")
    /\ UNCHANGED <<diff, loop, turn, passed, accepted, results, rounds, told>>

With(f, d, v) == [x \in DOMAIN f \cup {d} |-> IF x = d THEN v ELSE f[x]]

\* Mutant: a failed check leaves what passed before.
PassedBy_kept(ok) == IF ok THEN diff ELSE passed

\* What a check leaves for the confirming submit.
PassedBy(ok) == IF ok THEN diff ELSE None

\* FixChecks.check and its report: V is the tree of this diff when its gates
\* passed.  On the last turn a passing check is enough.
CheckFix ==
    /\ MaySubmit /\ ~Confirms
    /\ submits' = submits + 1 /\ Left > 0
    /\ diff \notin Leaking
    /\ \E gates, tests \in BOOLEAN :
          LET ok == gates /\ tests /\ diff # Base IN
          /\ tests => gates
          /\ results' = With(results, diff, ok)
          /\ validated' \in (IF gates /\ diff # Base THEN {diff} ELSE {None})
                            \cup (IF tests THEN {} ELSE {None})
          /\ passed' = PassedBy(ok)
          /\ accepted' = IF ok /\ turn.last THEN diff ELSE accepted
          /\ turn' = [Submitted(IF ok THEN IF turn.last THEN "fix" ELSE "no"
                                ELSE IF Left < 2 THEN "stop" ELSE "no")
                      EXCEPT !.report = IF ok THEN diff ELSE None]
    /\ failing' = NoStreak
    /\ UNCHANGED <<status, pc, diff, turns, nudges, malformed, long, rounds, told>>

------------------------------------------------------------------------------
(* The end of a turn. *)

OnlyInvalid == turn.calls > 0 /\ turn.invalid = turn.calls

Nudged ==
    /\ pc = "calls" /\ turn.calls = 0
    /\ \/ turn.last /\ End("rejected") /\ UNCHANGED nudges
       \/ ~turn.last /\ nudges >= MaxNudges /\ End("rejected") /\ UNCHANGED nudges
       \/ ~turn.last /\ nudges < MaxNudges /\ nudges' = nudges + 1
          /\ pc' = "next" /\ UNCHANGED status
    /\ UNCHANGED <<diff, turns, malformed, failing, turn, long, solver, checks, rounds, told>>

Malformed == IF OnlyInvalid THEN malformed + 1 ELSE 0

\* _answer after the calls, and _outcome.
EndTurn ==
    /\ pc = "calls" /\ turn.calls > 0
    /\ malformed' = Malformed
    /\ told' = IF turn.ended = "no" THEN told \cup ({turn.report} \ {None}) ELSE told
    /\ CASE turn.ended = "fix" -> pc' = "fix" /\ UNCHANGED status
         [] turn.ended = "skip" -> End("skipped")
         [] turn.ended = "stop" -> End("rejected")
         [] turn.ended = "no" -> IF malformed' >= MaxMalformedTurns \/ turn.last
                                 THEN End("rejected")
                                 ELSE pc' = "next" /\ UNCHANGED status
    /\ UNCHANGED <<diff, turns, nudges, failing, turn, long, solver, checks, rounds>>

------------------------------------------------------------------------------
(* Review. *)

\* The run is handed to a fresh critic.
HandOver ==
    /\ pc = "fix"
    /\ \E s \in {"critiquing", "failed"} :
          IF s = "failed" THEN End(s) ELSE status' = s /\ pc' = "review"
    /\ UNCHANGED <<diff, loop, turn, solver, checks, rounds, told>>

Quoted == {"scope_creep"}           \* QUOTED_CATEGORIES
Hang == {"regression"}              \* HANG_CATEGORIES
Categories == Quoted \cup Hang \cup {"weak_test"}
Blocker == [category : Categories, path : {"no_path", "file"}]
Waiver == [category |-> "weak_test", path |-> "no_path"]

\* What confirming a blocker finds: its quote, or how its check ended.
Evidence(b) ==
    IF b.category \in Quoted THEN {"quote", "no_quote"}
    ELSE {"no_command", "not_run", "timed_out", "passes", "fails"}

\* _confirm with _quote_missing and _check_reason.
Stands(b, e) == e \in {"quote", "fails"} \/ (e = "timed_out" /\ b.category \in Hang)

\* The blockers that stand; an untested fix needs a waiver.
Confirmed(reported, found, noTestNeeded) ==
    {b \in reported : Stands(b, found[b])}
        \cup IF accepted \in Untested /\ ~noTestNeeded THEN {Waiver} ELSE {}

_decide(number, abandon, confirmed, earlier) ==
    IF abandon \/ confirmed \cap earlier # {} THEN "reject"
    ELSE IF confirmed = {} THEN "approve"
    ELSE IF number >= MaxCriticRounds THEN "reject" ELSE "request_changes"

Earlier == IF rounds = <<>> THEN {} ELSE rounds[Len(rounds)].confirmed

\* A review, on a copy of V; each blocker is confirmed or dropped.
review ==
    /\ pc = "review"
    /\ Len(rounds) < MaxCriticRounds
    /\ \E reported \in SUBSET Blocker, abandon, noTestNeeded \in BOOLEAN :
       /\ Cardinality(reported) <= MaxReports
       /\ \E found \in [reported -> UNION {Evidence(b) : b \in Blocker}] :
          /\ \A b \in reported : found[b] \in Evidence(b)
          /\ LET confirmed == Confirmed(reported, found, noTestNeeded)
                 decision == _decide(Len(rounds) + 1, abandon, confirmed, Earlier)
             IN  /\ rounds' = Append(rounds, [diff |-> validated, decision |-> decision,
                                              confirmed |-> confirmed])
                 /\ CASE decision = "approve" -> pc' = "ready" /\ UNCHANGED status
                      [] decision = "reject" -> End("rejected")
                      [] decision = "request_changes" -> pc' = "address" /\ UNCHANGED status
    /\ UNCHANGED <<diff, loop, turn, solver, checks, told>>

\* The review ends without a verdict.
ReviewFails ==
    /\ pc = "review"
    /\ \E s \in {"rejected", "failed"} : End(s)
    /\ UNCHANGED <<diff, loop, turn, solver, checks, rounds, told>>

\* A new round on the same transcript: its submits start again, its turns go on.
address_blockers ==
    /\ pc = "address"
    /\ status' = "implementing" /\ pc' = "next"
    /\ submits' = 0 /\ passed' = None /\ accepted' = None
    /\ told' = {}
    /\ UNCHANGED <<diff, loop, turn, checks, rounds>>

\* _ready: the workspace must hold the checked diff; the text may not do.
_ready ==
    /\ pc = "ready"
    /\ IF diff # accepted THEN End("failed")
       ELSE \E s \in {"ready", "rejected", "failed"} : End(s)
    /\ UNCHANGED <<diff, loop, turn, solver, checks, rounds, told>>

\* The run is over; nothing else may stop it.
Finished == pc = "done" /\ UNCHANGED vars

Next ==
    \/ TurnCap \/ RequestTurn \/ RequestFails
    \/ Ignored \/ BadCall \/ Edit \/ Shell \/ SandboxFails
    \/ SecondSubmit \/ InvalidSubmit \/ SkipIssue \/ ConfirmFix \/ SubmitLimit \/ LeakFound
    \/ CheckFix \/ Nudged \/ EndTurn
    \/ HandOver \/ review \/ ReviewFails \/ address_blockers \/ _ready
    \/ Finished

Spec == Init /\ [][Next]_vars

------------------------------------------------------------------------------
(* Properties. *)

\* A run waits for approval only with what was checked and reviewed: the
\* workspace holds the confirmed diff, the latest check of that diff passed, the
\* last critic was given the tree of that very diff, found nothing that stands
\* and no secret is in it; in whatever order the agent edited and submitted, and
\* also when a second check of the same diff came out differently (_on_submit,
\* FixChecks.check, Critic.review).
ReadyWasCheckedAndReviewed ==
    status = "ready" =>
        /\ accepted = diff /\ results[diff]
        /\ diff \notin Leaking
        /\ LET last == rounds[Len(rounds)] IN
           last.diff = diff /\ last.decision = "approve" /\ last.confirmed = {}

\* A fix is confirmed by an agent that was given the check report of that diff
\* in an earlier turn of the round, unless no turn can follow: never in the turn
\* that checked it, and never on a report of the round before (_answer,
\* _on_submit).
ConfirmedWasReported ==
    pc \in {"fix", "review", "ready"} => accepted \in told \/ turn.last

===============================================================================
