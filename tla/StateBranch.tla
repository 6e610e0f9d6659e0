---------------------------- MODULE StateBranch ----------------------------
(***************************************************************************)
(* The GitHub Actions runner (runner.py, state_archive.py and the          *)
(* `actions` commands of cli.py).  No job keeps a disk: the state is one    *)
(* archive on the branch autocontribute-state.  A prepare job works on a    *)
(* copy and may not write; its record job checks that copy, saves it and    *)
(* opens one issue per ready run; an approve job, started by the owner's    *)
(* comment, publishes and saves.  Record and approve share a concurrency    *)
(* group, a prepare job does not, and any job can be cut off and re-run.    *)
(*                                                                         *)
(* An archive is a function of the state (export_state writes equal bytes   *)
(* for equal state), so states are compared where the code compares hashes. *)
(* What publish does to GitHub is module Publication's; here it is the       *)
(* status it leaves and whether a pull request is open.                     *)
(***************************************************************************)
EXTENDS Naturals, FiniteSets, FiniteSetsExt

CONSTANTS Runs, Preps, Approvals,
          Serial,      \* the concurrency group is respected
          Untrusted,   \* repository code may write anything into a prepared state
          Daily,       \* the schedule starts another preparation after the last
          MaxFaults,   \* jobs cut off, pushes that fail, comments edited
          MaxReruns,   \* jobs re-run, unless two jobs overlapped
          MaxIssues,
          PushAttempts \* _PUSH_ATTEMPTS

ASSUME StateBranchConstants ==
    /\ IsFiniteSet(Runs) /\ IsFiniteSet(Preps) /\ IsFiniteSet(Approvals)
    /\ Preps \cap Approvals = {}
    /\ {Serial, Untrusted, Daily} \subseteq BOOLEAN
    /\ {MaxFaults, MaxReruns, MaxIssues} \subseteq Nat
    /\ PushAttempts \in Nat \ {0}

VARIABLES
    branch,    \* what the state branch holds
    enabled,   \* the prepare workflow is on
    pr,        \* the runs whose pull request is open on GitHub
    issues,    \* the runner's issues, by number
    noticed,   \* how often each run's attention item was posted
    job,       \* every job
    saved,     \* the jobs whose save succeeded
    asked,     \* the run each approve comment names, while it reads as posted
    faults, reruns,
    overlapped \* history: two jobs of the group ran at once

vars == <<branch, enabled, pr, issues, noticed, job, saved, asked, faults, reruns, overlapped>>
github == <<pr, issues, noticed>>
bounds == <<faults, reruns, overlapped>>

Jobs == Preps \cup Approvals
None == "none"
Active == {"ready", "approved", "submitting"}
Approved == {"approved", "submitting", "pr_open"}
Waiting == {"ready", "approved"}
Terminal == {"cancelled", "failed"}
Statuses == {None, "preparing"} \cup Active \cup {"pr_open"} \cup Terminal

\* A state is a record [runs, stopped, facts, noted]: the status of every run and the
\* safety stop; facts stands for every append-only table, one row per job that wrote
\* there; noted for the attention entries lifecycle observation left on open runs.
NoBranch == [none |-> "branch"]
NoState == [none |-> "state"]
Empty == [runs |-> [r \in Runs |-> None], stopped |-> FALSE, facts |-> {}, noted |-> {}]
Store(s) == IF s = NoState THEN Empty ELSE s

Idle == [pc |-> "idle", base |-> NoState, copy |-> NoState, work |-> NoState, tries |-> 0,
         todo |-> {}, listed |-> {}, at |-> 0, failed |-> FALSE]

Init ==
    /\ branch = NoBranch
    /\ enabled = FALSE
    /\ pr = {}
    /\ issues = <<>>
    /\ noticed = [r \in Runs |-> 0]
    /\ job = [j \in Jobs |-> Idle]
    /\ saved = {}
    /\ asked = [a \in Approvals |-> None]
    /\ faults = 0 /\ reruns = 0
    /\ overlapped = FALSE

At(j, step) == job[j].pc = step
Go(j, step) == job' = [job EXCEPT ![j].pc = step]
InGroup == {"record", "push", "list", "offer", "describe", "close", "closing", "relay", "publish",
            "report", "reporting"}

\* GitHub starts a job of the concurrency group.
Enters ==
    LET busy == \E j \in Jobs : job[j].pc \in InGroup
    IN  /\ busy => ~Serial /\ reruns = 0
        /\ overlapped' = (overlapped \/ busy)

----------------------------------------------------------------------------
(* Setup *)

\* The branch is created when it is missing; preparation is on only while
\* every check passes.
apply_setup ==
    /\ branch' = IF branch = NoBranch THEN NoState ELSE branch
    /\ enabled' \in BOOLEAN
    /\ UNCHANGED <<github, job, saved, asked, bounds>>

----------------------------------------------------------------------------
(* The prepare job *)

actions_prepare(p) ==
    /\ enabled /\ At(p, "idle")
    /\ \A q \in Preps : ~At(q, "prepare")
    /\ job' = [job EXCEPT ![p] = [Idle EXCEPT !.pc = "prepare", !.base = branch]]
    /\ UNCHANGED <<branch, enabled, github, saved, asked, bounds>>

\* What lifecycle observation, one scheduled attempt and _retire_unpublishable
\* may leave: a new or a recovered run, waiting runs that can no longer
\* publish, what was seen on open pull requests.
MayBecome(s, r) ==
    CASE s.runs[r] = None        -> IF s.stopped THEN {None} ELSE {None, "preparing", "ready", "failed"}
      [] s.runs[r] = "preparing" -> {"preparing", "failed"}
      [] s.runs[r] \in Waiting   -> {s.runs[r], "cancelled"}
      [] OTHER                   -> {s.runs[r]}

Honest(s, p) ==
    {t \in [runs : [Runs -> Statuses], stopped : {s.stopped, TRUE}, facts : {s.facts \cup {p}},
            noted : {s.noted \cup {r \in Runs : s.runs[r] = "pr_open"}, s.noted}] :
        /\ \A r \in Runs : t.runs[r] \in MayBecome(s, r)
        /\ Cardinality({r \in Runs : s.runs[r] = None /\ t.runs[r] # None}) <= 1}

\* The job runs repository code, so nothing in its output is certain.
Forged(s, p) ==
    [runs : [Runs -> Statuses], stopped : BOOLEAN, facts : {s.facts \cup {p}, {p}},
     noted : {s.noted}]

export_state(p) ==
    /\ At(p, "prepare")
    /\ \E t \in Honest(Store(job[p].base), p)
                \cup (IF Untrusted THEN Forged(Store(job[p].base), p) ELSE {}) :
         job' = [job EXCEPT ![p].pc = "prepared", ![p].work = t,
                            ![p].todo = t.noted \ Store(job[p].base).noted]
    /\ UNCHANGED <<branch, enabled, github, saved, asked, bounds>>

----------------------------------------------------------------------------
(* The record job *)

actions_record(p) ==
    /\ At(p, "prepared") /\ Enters
    /\ job' = [job EXCEPT ![p].pc = "record", ![p].copy = branch, ![p].tries = 0,
                          ![p].failed = FALSE]
    /\ UNCHANGED <<branch, enabled, github, saved, asked, faults, reruns>>

\* Mutants: a waiting run may become anything; the stop is not compared.
_preparation_may_change_waiting(old, new) ==
    \/ old = new
    \/ old \in Waiting
    \/ old \notin Approved \cup Waiting \cup Terminal /\ new \notin Approved \cup {None}

_preparation_may_change(old, new) ==
    \/ old = new
    \/ old \in Waiting /\ new = "cancelled"
    \/ old \notin Approved \cup Waiting \cup Terminal /\ new \notin Approved \cup {None}

_assert_extends_stop(trusted, prepared) ==
    /\ trusted.facts \subseteq prepared.facts
    /\ \A r \in Runs : _preparation_may_change(trusted.runs[r], prepared.runs[r])

_assert_extends(trusted, prepared) ==
    /\ trusted.facts \subseteq prepared.facts
    /\ trusted.stopped => prepared.stopped
    /\ \A r \in Runs : _preparation_may_change(trusted.runs[r], prepared.runs[r])

\* An untrusted job may name any base, the current one among them.
Based(p) == Untrusted \/ job[p].copy \in {job[p].base, job[p].work}

\* The checks, then StateBranch.save: nothing to do when the archive is the
\* one already there.
Record(p) ==
    /\ At(p, "record")
    /\ IF Based(p) /\ _assert_extends(Store(job[p].copy), job[p].work)
       THEN Go(p, IF job[p].copy = job[p].work THEN "list" ELSE "push")
       ELSE Go(p, "failed")
    /\ UNCHANGED <<branch, enabled, github, saved, asked, bounds>>

----------------------------------------------------------------------------
(* StateBranch.save *)

After(j) == IF j \in Preps THEN "list" ELSE "report"
SaveFailed(j) ==
    job' = [job EXCEPT ![j].pc = IF j \in Preps THEN "failed" ELSE "report", ![j].failed = TRUE]

\* Mutant: the push is forced.
Push_force(j) ==
    /\ At(j, "push")
    /\ branch' = job[j].work
    /\ saved' = saved \cup {j}
    /\ Go(j, After(j))
    /\ UNCHANGED <<enabled, github, asked, bounds>>

\* A fast-forward push of this job's commit.
Push(j) ==
    /\ At(j, "push")
    /\ branch \in {job[j].copy, job[j].work}
    /\ branch' = job[j].work
    /\ saved' = saved \cup {j}
    /\ Go(j, After(j))
    /\ UNCHANGED <<enabled, github, asked, bounds>>

\* The branch moved and the archive differs on both sides, so the rebase
\* conflicts.
Rejected(j) ==
    /\ At(j, "push")
    /\ branch \notin {job[j].copy, job[j].work}
    /\ SaveFailed(j)
    /\ UNCHANGED <<branch, enabled, github, saved, asked, bounds>>

\* Any other error, after the push landed or not, is tried again.
PushErrs(j) ==
    /\ At(j, "push") /\ faults < MaxFaults
    /\ faults' = faults + 1
    /\ branch' \in {branch} \cup
         (IF branch \in {job[j].copy, job[j].work} THEN {job[j].work} ELSE {})
    /\ IF job[j].tries + 1 = PushAttempts THEN SaveFailed(j)
       ELSE job' = [job EXCEPT ![j].tries = @ + 1]
    /\ UNCHANGED <<enabled, github, saved, asked, reruns, overlapped>>

----------------------------------------------------------------------------
(* sync_issues, from the state this job saved *)

Numbers == DOMAIN issues
Open(n) == n \in Numbers /\ issues[n].open
Of(r) == {n \in Numbers : issues[n].run = r}
Offered(r) == \E n \in Of(r) : Open(n) /\ issues[n].label
Status(j, r) == job[j].work.runs[r]

\* The list is read once.
List(p) ==
    /\ At(p, "list")
    /\ job' = [job EXCEPT ![p].pc = "offer", ![p].listed = {n \in Numbers : Open(n)}]
    /\ UNCHANGED <<branch, enabled, github, saved, asked, bounds>>

Listed(p, r) == {n \in job[p].listed : issues[n].run = r}

\* Mutant: any open issue will do.
Unoffered_any(p) == {r \in Runs : Status(p, r) = "ready" /\ Listed(p, r) = {}}

\* Ready runs that have no labelled issue in the list.
Unoffered(p) ==
    {r \in Runs : Status(p, r) = "ready" /\ ~\E n \in Listed(p, r) : issues[n].label}

CloseIncomplete(p, r) ==
    [n \in Numbers |-> IF n \in Listed(p, r) THEN [issues[n] EXCEPT !.open = FALSE] ELSE issues[n]]

\* Mutant: the label goes on with the issue, before its parts.
Created_labelled(r) == [run |-> r, open |-> TRUE, label |-> TRUE, whole |-> FALSE, published |-> FALSE]

Created(r) == [run |-> r, open |-> TRUE, label |-> FALSE, whole |-> FALSE, published |-> FALSE]

\* Issues an earlier job left without a label are closed, then a new one is
\* created and locked.
_open_approval_issue(p) ==
    /\ At(p, "offer") /\ Cardinality(Numbers) < MaxIssues
    /\ \E r \in Unoffered(p) :
         LET number == Cardinality(Numbers) + 1 IN
         /\ issues' = [n \in 1..number |->
                         IF n = number THEN Created(r) ELSE CloseIncomplete(p, r)[n]]
         /\ job' = [job EXCEPT ![p].pc = "describe", ![p].at = number,
                               ![p].listed = (@ \ Listed(p, r)) \cup {number}]
    /\ UNCHANGED <<branch, enabled, pr, noticed, saved, asked, bounds>>

\* The patch parts, then the label.
Describe(p) ==
    /\ At(p, "describe") /\ ~issues[job[p].at].whole
    /\ issues' = [issues EXCEPT ![job[p].at].whole = TRUE]
    /\ UNCHANGED <<branch, enabled, pr, noticed, job, saved, asked, bounds>>

Label(p) ==
    /\ At(p, "describe") /\ issues[job[p].at].whole
    /\ issues' = [issues EXCEPT ![job[p].at].label = TRUE]
    /\ Go(p, "offer")
    /\ UNCHANGED <<branch, enabled, pr, noticed, saved, asked, bounds>>

Offering(p) ==
    /\ At(p, "offer")
    /\ Unoffered(p) = {} \/ Cardinality(Numbers) = MaxIssues
    /\ Go(p, "close")
    /\ UNCHANGED <<branch, enabled, github, saved, asked, bounds>>

\* Mutant: an issue that lost its label is passed over.
Stale_labelled(p) ==
    {n \in job[p].listed : Open(n) /\ issues[n].label /\ Status(p, issues[n].run) \notin Active}

\* Listed issues whose run no longer waits: the label comes off first.
Stale(p) == {n \in job[p].listed : Open(n) /\ Status(p, issues[n].run) \notin Active}

Unlabelled(n, published) == [issues EXCEPT ![n].label = FALSE, ![n].published = published]
Closed(n) == [issues EXCEPT ![n].open = FALSE]

Unlabel(p) ==
    /\ At(p, "close")
    /\ \E n \in Stale(p) :
         /\ issues' = Unlabelled(n, Status(p, issues[n].run) = "pr_open")
         /\ job' = [job EXCEPT ![p].pc = "closing", ![p].at = n]
    /\ UNCHANGED <<branch, enabled, pr, noticed, saved, asked, bounds>>

Close(p) ==
    /\ At(p, "closing")
    /\ issues' = Closed(job[p].at)
    /\ Go(p, "close")
    /\ UNCHANGED <<branch, enabled, pr, noticed, saved, asked, bounds>>

Closing(p) ==
    /\ At(p, "close") /\ Stale(p) = {}
    /\ Go(p, "relay")
    /\ UNCHANGED <<branch, enabled, github, saved, asked, bounds>>

\* The marker of this item starts a comment already.
Relayed(r) == noticed[r] > 0

\* Attention for a run that is not open, or that has no issue, is dropped.
_relay_attention(p) ==
    /\ At(p, "relay")
    /\ \E r \in job[p].todo :
         /\ noticed' = [noticed EXCEPT ![r] =
                IF Status(p, r) # "pr_open" \/ Of(r) = {} \/ Relayed(r) THEN @ ELSE @ + 1]
         /\ job' = [job EXCEPT ![p].todo = @ \ {r}]
    /\ UNCHANGED <<branch, enabled, pr, issues, saved, asked, bounds>>

Recorded(p) ==
    /\ At(p, "relay") /\ job[p].todo = {}
    /\ Go(p, "done")
    /\ UNCHANGED <<branch, enabled, github, saved, asked, bounds>>

----------------------------------------------------------------------------
(* The approve job *)

Approvable(n) == Open(n) /\ issues[n].label

\* The owner's comment; the event keeps the issue as it was then.
read_approval_event(a) ==
    /\ At(a, "idle")
    /\ \E n \in Numbers :
         /\ Approvable(n)
         /\ asked' = [asked EXCEPT ![a] = issues[n].run]
         /\ job' = [job EXCEPT ![a].pc = "approve", ![a].at = n]
    /\ UNCHANGED <<branch, enabled, github, saved, bounds>>

EditComment(a) ==
    /\ asked[a] # None /\ faults < MaxFaults
    /\ faults' = faults + 1
    /\ asked' = [asked EXCEPT ![a] = None]
    /\ UNCHANGED <<branch, enabled, github, job, saved, reruns, overlapped>>

\* confirm_comment_unchanged, then the state is imported.
actions_approve(a) ==
    /\ At(a, "approve") /\ Enters
    /\ IF asked[a] = None \/ branch \in {NoBranch, NoState} THEN Go(a, "failed")
       ELSE job' = [job EXCEPT ![a].pc = "publish", ![a].copy = branch, ![a].tries = 0,
                               ![a].failed = FALSE]
    /\ UNCHANGED <<branch, enabled, github, saved, asked, faults, reruns>>

\* approve_run unless that approval is on record, then publish.  A pull request
\* this state knows nothing of is found and not adopted: the run stays approved
\* or submitting.
Outcomes(s, r) ==
    CASE s.runs[r] = "ready" /\ s.stopped    -> {"ready", "approved"}
      [] s.runs[r] = "approved" /\ s.stopped -> {"approved"}
      [] s.runs[r] = "ready" /\ r \in pr     -> {"ready", "approved", "submitting"}
      [] s.runs[r] = "approved" /\ r \in pr  -> {"approved", "submitting"}
      [] s.runs[r] = "ready"                 -> {"ready", "approved", "submitting", "pr_open", "failed"}
      [] s.runs[r] = "approved"              -> {"approved", "submitting", "pr_open", "failed"}
      [] s.runs[r] = "submitting" /\ r \in pr -> {"submitting", "pr_open"}
      [] s.runs[r] = "submitting" -> IF s.stopped THEN {"submitting", "failed"}
                                     ELSE {"submitting", "pr_open", "failed"}
      [] OTHER -> {s.runs[r]}

\* The state it leaves, with a row of this job when anything changed.
Published(s, a, r, to, stop) ==
    [s EXCEPT !.runs[r] = to, !.stopped = stop,
              !.facts = IF to # s.runs[r] \/ stop # s.stopped THEN @ \cup {a} ELSE @]

\* A publication that did not finish may have opened its pull request; a
\* lifecycle stop can be recorded on the way.
_approve_and_publish(a) ==
    /\ At(a, "publish")
    /\ LET s == job[a].copy
           r == issues[job[a].at].run IN
       \E to \in Outcomes(s, r), stop \in {s.stopped, TRUE} :
         /\ pr' = IF to = "pr_open" THEN pr \cup {r} ELSE pr
         /\ LET t == Published(s, a, r, to, stop) IN
            job' = [job EXCEPT ![a].work = t, ![a].pc = IF t = s THEN "report" ELSE "push"]
    /\ UNCHANGED <<branch, enabled, issues, noticed, saved, asked, bounds>>

\* A pull request whose answer was lost.
OpenedUnanswered(a) ==
    /\ At(a, "push") /\ faults < MaxFaults
    /\ LET r == issues[job[a].at].run IN
       /\ job[a].work.runs[r] = "submitting" /\ r \notin pr
       /\ pr' = pr \cup {r}
    /\ faults' = faults + 1
    /\ UNCHANGED <<branch, enabled, issues, noticed, job, saved, asked, reruns, overlapped>>

Over(status) == status \notin Active

\* report_approval: a published run's issue, or a finished run's, loses its
\* label and is closed; a save that failed is only said.
report_approval(a) ==
    /\ At(a, "report")
    /\ LET n == job[a].at
           status == Status(a, issues[n].run) IN
       IF Over(status)
       THEN issues' = Unlabelled(n, status = "pr_open") /\ Go(a, "reporting")
       ELSE Go(a, IF job[a].failed THEN "failed" ELSE "done") /\ UNCHANGED issues
    /\ UNCHANGED <<branch, enabled, pr, noticed, saved, asked, bounds>>

Reported(a) ==
    /\ At(a, "reporting")
    /\ issues' = Closed(job[a].at)
    /\ Go(a, IF job[a].failed THEN "failed" ELSE "done")
    /\ UNCHANGED <<branch, enabled, pr, noticed, saved, asked, bounds>>

----------------------------------------------------------------------------
(* GitHub Actions *)

\* A job is cancelled, times out, or a call of it fails.
CutOff(j) ==
    /\ job[j].pc \in InGroup \cup {"prepare"} /\ faults < MaxFaults
    /\ faults' = faults + 1
    /\ Go(j, IF At(j, "prepare") THEN "lost" ELSE "failed")
    /\ UNCHANGED <<branch, enabled, github, saved, asked, reruns, overlapped>>

\* Re-run from the Actions tab: the prepared artifact and the event are kept.
Rerun(j) ==
    /\ job[j].pc \in {"failed", "done"} /\ reruns < MaxReruns /\ ~overlapped
    /\ reruns' = reruns + 1
    /\ job' = [job EXCEPT ![j].pc = IF j \in Preps THEN "prepared" ELSE "approve",
                          ![j].todo = IF j \in Preps
                                      THEN job[j].work.noted \ Store(job[j].base).noted ELSE @]
    /\ UNCHANGED <<branch, enabled, github, saved, asked, faults, overlapped>>

NextPreparation(p) ==
    /\ Daily /\ job[p].pc \in {"failed", "done", "lost"}
    /\ Go(p, "idle")
    /\ UNCHANGED <<branch, enabled, github, saved, asked, bounds>>

PrepStep(p) ==
    \/ actions_prepare(p) \/ export_state(p) \/ actions_record(p) \/ Record(p) \/ List(p)
    \/ _open_approval_issue(p) \/ Describe(p) \/ Label(p) \/ Offering(p) \/ Unlabel(p)
    \/ Close(p) \/ Closing(p) \/ _relay_attention(p) \/ Recorded(p) \/ NextPreparation(p)

ApproveStep(a) ==
    \/ actions_approve(a) \/ _approve_and_publish(a) \/ report_approval(a) \/ Reported(a)

Saves(j) == Push(j) \/ Rejected(j)

Next ==
    \/ apply_setup
    \/ \E p \in Preps : PrepStep(p)
    \/ \E a \in Approvals : ApproveStep(a) \/ read_approval_event(a) \/ EditComment(a)
                            \/ OpenedUnanswered(a)
    \/ \E j \in Jobs : Saves(j) \/ PushErrs(j) \/ CutOff(j) \/ Rerun(j)

Spec == Init /\ [][Next]_vars

\* The owner completes the setup, the schedule starts a preparation on a day
\* on which preparation is on, and GitHub runs the jobs of a group one after
\* the other.
Fairness ==
    /\ WF_vars(apply_setup /\ enabled')
    /\ \A p \in Preps : /\ SF_vars(actions_prepare(p))
                        /\ WF_vars(PrepStep(p)) /\ WF_vars(Saves(p))
    /\ \A a \in Approvals : WF_vars(ApproveStep(a)) /\ WF_vars(Saves(a))

FairSpec == Spec /\ Fairness

----------------------------------------------------------------------------
(* Properties *)

HasState == branch \notin {NoBranch, NoState}
OnBranch(r) == IF HasState THEN branch.runs[r] ELSE None

\* A run the branch calls approved, submitting or open was named by a comment
\* of the owner on its complete issue, whatever a preparation wrote
\* (_assert_extends, read_approval_event).
ApprovedByOwner ==
    \A r \in Runs : OnBranch(r) \in Approved =>
      \E a \in Approvals : job[a].at \in Of(r) /\ issues[job[a].at].whole

\* No save drops what another job saved: the rows of every job that saved are
\* on the branch for good (StateBranch.save, _assert_extends, apply_setup).
NothingSavedIsLost == \A j \in saved : HasState /\ j \in branch.facts

\* A pull request the branch tracks stays tracked, and a safety stop the branch
\* records is not ended by any job (_assert_extends).
TrackedForGood ==
    [][HasState => /\ HasState'
                   /\ branch.stopped => branch'.stopped
                   /\ \A r \in Runs : OnBranch(r) = "pr_open" => OnBranch(r)' = "pr_open"]_vars

\* An owner finds one issue to approve a run on, and it shows the whole patch
\* (_open_approval_issue, sync_issues): at most one open issue of a run carries
\* the label, and only once every part is there, as long as the jobs of the
\* group ran one after the other.
OneWholeIssue ==
    ~overlapped => \A r \in Runs :
      /\ Cardinality({n \in Of(r) : Open(n) /\ issues[n].label}) <= 1
      /\ \A n \in Of(r) : issues[n].label => issues[n].whole

\* Every ready run on the branch is offered for approval, or stops being ready
\* (sync_issues), with the jobs cut off only finitely often.
ReadyIsOffered ==
    \A r \in Runs : (OnBranch(r) = "ready") ~> (Offered(r) \/ OnBranch(r) # "ready")

\* An issue whose run no longer waits for an approval is closed (sync_issues,
\* report_approval).
FinishedIsClosed ==
    \A n \in 1..MaxIssues :
      (Open(n) /\ OnBranch(issues[n].run) \notin Active) ~> ~Open(n)

=============================================================================
