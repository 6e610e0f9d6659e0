------------------------------- MODULE Attempts -------------------------------
(***************************************************************************)
(* The run store's rows from the creation of a run to its end (store.py),  *)
(* written by preparation workers (orchestrator.py, Orchestrator.run) and  *)
(* by operators' commands (cli.py).                                        *)
(*                                                                         *)
(* A step is one transaction, or the write of the file that mirrors a row. *)
(* Every save is a compare-and-swap on the row's updated_at: fresh[w] says *)
(* that a worker's manifest still is the stored one.  An operator's        *)
(* command reads a row, asks, and saves; the compare-and-swap makes that   *)
(* one step.  Of a row's time only one thing matters: whether it lies      *)
(* ahead of the clock, after the clock was set back.                       *)
(***************************************************************************)
EXTENDS Naturals, FiniteSets

CONSTANTS
    Workers,        \* processes that prepare runs
    NoWorker,       \* the run lease is free
    Issues,
    NoIssue,        \* the row has no candidate
    MaxRuns,        \* bound: runs ever created
    MaxRevision,    \* bound: revisions of an issue
    MaxMishaps,     \* bound: kinds of mishap in one behaviour
    RetireLimit     \* recover_stale_runs takes so many runs at once

ASSUME AttemptsConstants ==
    /\ NoWorker \notin Workers
    /\ NoIssue \notin Issues
    /\ {MaxRuns, MaxRevision, RetireLimit} \subseteq Nat \ {0}
    /\ MaxMishaps \in Nat

Runs == 1 .. MaxRuns

Preparing == {"queued", "discovering", "candidate_selected", "eligibility_checked",
              "setting_up", "implementing", "validating", "critiquing"}
Suppressed == {"skipped", "rejected", "cancelled"}
Released == Suppressed \cup {"failed"}

\* ALLOWED_TRANSITIONS
Allowed ==
    [queued |-> {"discovering", "cancelled", "failed"},
     discovering |-> {"candidate_selected", "skipped", "failed"},
     candidate_selected |-> {"eligibility_checked", "skipped", "failed"},
     eligibility_checked |-> {"setting_up", "skipped", "failed"},
     setting_up |-> {"implementing", "skipped", "failed"},
     implementing |-> {"validating", "skipped", "rejected", "failed"},
     validating |-> {"critiquing", "implementing", "rejected", "failed"},
     critiquing |-> {"implementing", "ready_for_approval", "rejected", "failed"},
     ready_for_approval |-> {"approved", "cancelled"},
     approved |-> {"submitting", "cancelled"},
     submitting |-> {"pr_open", "ready_for_approval", "failed"}]

VARIABLES
    \* the store
    status, issue, revision,    \* a run's row: status, candidate, issue_revision
    ahead,      \* the row's updated_at is later than the clock
    selected,   \* number of candidate.selected events of a run
    auth,       \* its row in candidate_retry_authorizations: prior run and its status
    marker,     \* it has a row in manifest_artifact_sync
    mirror,     \* its manifest.json: "missing", "stale" or "current"
    created,    \* number of runs created
    lease,      \* holder of lease autocontribute.run
    \* GitHub
    latest,     \* an issue's revision now
    \* workers
    pc, run,
    fresh,      \* the manifest in memory is the stored one
    then,       \* the step after the mirror is written
    pinned, retry,      \* run --issue, --retry-unchanged
    target, seen,       \* the issue found, and its revision as read
    \* the world
    mishaps     \* the kinds of mishap that happened

rows == <<status, issue, revision, ahead, selected, auth>>
files == <<marker, mirror>>
args == <<pinned, retry, target, seen>>
world == <<latest, mishaps>>
vars == <<rows, files, created, lease, pc, run, fresh, then, args, world>>

NoAuth == [prior |-> 0, status |-> "absent"]

Init ==
    /\ status = [r \in Runs |-> "absent"]
    /\ issue = [r \in Runs |-> NoIssue]
    /\ revision = [r \in Runs |-> 0]
    /\ ahead = [r \in Runs |-> FALSE]
    /\ selected = [r \in Runs |-> 0]
    /\ auth = [r \in Runs |-> NoAuth]
    /\ marker = [r \in Runs |-> FALSE]
    /\ mirror = [r \in Runs |-> "missing"]
    /\ created = 0
    /\ lease = NoWorker
    /\ latest = [i \in Issues |-> 1]
    /\ pc = [w \in Workers |-> "idle"]
    /\ run = [w \in Workers |-> 0]
    /\ fresh = [w \in Workers |-> FALSE]
    /\ then = [w \in Workers |-> "idle"]
    /\ pinned = [w \in Workers |-> FALSE]
    /\ retry = [w \in Workers |-> FALSE]
    /\ target = [w \in Workers |-> NoIssue]
    /\ seen = [w \in Workers |-> 0]
    /\ mishaps = {}

------------------------------------------------------------------------------
(* How a step ends. *)

\* A process dies, a worker is paused past its lease and wakes up, a manifest
\* file cannot be written, the clock is set back: each at most once, and a pause
\* and a failed write not both.
Mishap(kind) ==
    /\ Cardinality(mishaps) < MaxMishaps
    /\ kind \notin mishaps
    /\ mishaps' = mishaps \cup {kind}
    /\ ~ {"pause", "file"} \subseteq mishaps'

Halt(w) ==
    /\ pc' = [pc EXCEPT ![w] = "idle"]
    /\ lease' = IF lease = w THEN NoWorker ELSE lease

\* The next step asserts the lease first.
Go(w, next) ==
    IF lease = w /\ next \notin {"idle", "done"}
    THEN pc' = [pc EXCEPT ![w] = next] /\ UNCHANGED lease
    ELSE Halt(w)

\* A save raised; nothing is stored.
Refused(w, next) ==
    /\ Go(w, next)
    /\ UNCHANGED <<rows, files, created, run, fresh, then>>

\* Mutant: only the row is written.
RowsWritten_unmarked(R) ==
    /\ mirror' = [r \in Runs |-> IF r \in R /\ mirror[r] = "current" THEN "stale" ELSE mirror[r]]
    /\ UNCHANGED marker

\* _mark_manifest_artifact_sync, in the transaction that writes the rows.
RowsWritten(R) ==
    /\ marker' = [r \in Runs |-> marker[r] \/ r \in R]
    /\ mirror' = [r \in Runs |-> IF r \in R /\ mirror[r] = "current" THEN "stale" ELSE mirror[r]]

\* Whoever else has the manifests of R in memory has an old version.
Outdated(R, w) ==
    fresh' = [x \in Workers |-> IF x = w THEN TRUE ELSE fresh[x] /\ run[x] \notin R]

\* What a worker's committed save leaves: the mirror is written next.
Saved(w, next) ==
    /\ RowsWritten({run[w]})
    /\ Outdated({run[w]}, w)
    /\ pc' = [pc EXCEPT ![w] = "mirror"]
    /\ then' = [then EXCEPT ![w] = next]
    /\ UNCHANGED <<created, lease, run>>

\* Mutant: the row is written without comparing its updated_at.
Save_blind(w, to, next) ==
    /\ status' = [status EXCEPT ![run[w]] = to]
    /\ Saved(w, next)
    /\ UNCHANGED <<issue, revision, ahead, selected, auth>>

\* _save, by way of transition or for an event: to is the status saved.
Save(w, to, next) ==
    IF fresh[w] /\ (to = status[run[w]] \/ to \in Allowed[status[run[w]]])
    THEN /\ status' = [status EXCEPT ![run[w]] = to]
         /\ Saved(w, next)
         /\ UNCHANGED <<issue, revision, ahead, selected, auth>>
    ELSE Refused(w, "fail")

\* The worker's own version is published, unless a newer one is pending.
_synchronize_manifest_artifact(w) ==
    IF fresh[w] /\ marker[run[w]]
    THEN /\ mirror' = [mirror EXCEPT ![run[w]] = "current"]
         /\ marker' = [marker EXCEPT ![run[w]] = FALSE]
    ELSE UNCHANGED files

WriteMirror(w) ==
    /\ pc[w] = "mirror"
    /\ \/ _synchronize_manifest_artifact(w) /\ Go(w, then[w]) /\ UNCHANGED mishaps
       \/ /\ Mishap("file")
          /\ Go(w, CASE then[w] \in {"idle", "begin"} -> "idle" [] OTHER -> "fail")
          /\ UNCHANGED files
    /\ UNCHANGED <<rows, created, run, fresh, then, args, latest>>

\* synchronize_manifest_artifacts
SyncAll ==
    /\ mirror' = [r \in Runs |-> IF marker[r] THEN "current" ELSE mirror[r]]
    /\ marker' = [r \in Runs |-> FALSE]

\* A process opens the store and writes what others left pending.
OpenStore ==
    /\ \E r \in Runs : marker[r]
    /\ SyncAll
    /\ UNCHANGED <<rows, created, lease, pc, run, fresh, then, args, world>>

------------------------------------------------------------------------------
(* Orchestrator.run: recover, create, find an issue. *)

\* run: an issue reference and a retry authorization are an operator's.
Start(w) ==
    /\ pc[w] = "idle"
    /\ lease = NoWorker
    /\ lease' = w
    /\ pc' = [pc EXCEPT ![w] = "recover"]
    /\ \E p \in BOOLEAN, t \in BOOLEAN :
          /\ t => p
          /\ pinned' = [pinned EXCEPT ![w] = p]
          /\ retry' = [retry EXCEPT ![w] = t]
    /\ UNCHANGED <<rows, files, created, run, fresh, then, target, seen, world>>

Stale == {r \in Runs : status[r] \in Preparing /\ ~ahead[r]}

\* _retire_runs: R, unchanged since the cutoff, end as to.
Retire(R, to) ==
    /\ status' = [r \in Runs |-> IF r \in R THEN to ELSE status[r]]
    /\ RowsWritten(R)
    /\ fresh' = [x \in Workers |-> fresh[x] /\ run[x] \notin R]
    /\ UNCHANGED <<issue, revision, ahead, selected, auth>>

\* recover_stale_runs: the runs that older workers left in preparation fail.
recover_stale_runs(w) ==
    /\ pc[w] = "recover"
    /\ \E R \in SUBSET Stale :
          /\ Cardinality(R) = IF Cardinality(Stale) < RetireLimit
                              THEN Cardinality(Stale) ELSE RetireLimit
          /\ Retire(R, "failed")
    /\ Go(w, "tidy")
    /\ UNCHANGED <<created, run, then, args, world>>

\* The end of _retire_runs: all pending files are written, or the command fails.
Tidy(w) ==
    /\ pc[w] = "tidy"
    /\ \/ SyncAll /\ Go(w, "create") /\ UNCHANGED mishaps
       \/ Mishap("file") /\ Halt(w) /\ UNCHANGED files
    /\ UNCHANGED <<rows, created, run, fresh, then, args, latest>>

create_run(w) ==
    /\ pc[w] = "create"
    /\ created < MaxRuns
    /\ LET r == created + 1 IN
       /\ created' = r
       /\ status' = [status EXCEPT ![r] = "queued"]
       /\ marker' = [marker EXCEPT ![r] = TRUE]
       /\ run' = [run EXCEPT ![w] = r]
       /\ fresh' = [fresh EXCEPT ![w] = TRUE]
       /\ pc' = [pc EXCEPT ![w] = "mirror"]
       /\ then' = [then EXCEPT ![w] = "begin"]
    /\ UNCHANGED <<issue, revision, ahead, selected, auth, mirror, lease, args, world>>

\* A safety stop lets a command recover old runs and create no new one.
Stopped(w) ==
    /\ pc[w] = "create"
    /\ Halt(w)
    /\ UNCHANGED <<rows, files, created, run, fresh, then, args, world>>

\* candidate_attempt_disposition
Active(i) == \E q \in Runs : issue[q] = i /\ status[q] \notin Released

\* Mutant: an issue whose run was cancelled is not suppressed.
Ended_kept(i, v) ==
    {q \in Runs : issue[q] = i /\ revision[q] = v /\ status[q] \in Suppressed \ {"cancelled"}}

Ended(i, v) ==
    {q \in Runs : issue[q] = i /\ revision[q] = v /\ status[q] \in Suppressed}

Disposition(i, v) ==
    IF Active(i) THEN "active" ELSE IF Ended(i, v) # {} THEN "suppressed" ELSE "available"

Found(w, i) ==
    /\ target' = [target EXCEPT ![w] = i]
    /\ seen' = [seen EXCEPT ![w] = latest[i]]

\* The issue given on the command line is read and classified.
Look(w) ==
    /\ pc[w] = "search" /\ pinned[w]
    /\ \E i \in Issues :
          /\ Found(w, i)
          /\ LET d == Disposition(i, latest[i]) IN
             Go(w, CASE d = "active" -> "note"
                     [] d = "suppressed" /\ retry[w] -> "reclaim"
                     [] d = "suppressed" /\ ~retry[w] -> "note"
                     [] d = "available" /\ retry[w] -> "fail"
                     [] OTHER -> "claim")
    /\ UNCHANGED <<rows, files, created, run, fresh, then, pinned, retry, world>>

\* discover: some issue that is available, or none.
Discover(w) ==
    /\ pc[w] = "search" /\ ~pinned[w]
    /\ \/ \E i \in Issues :
             /\ Disposition(i, latest[i]) = "available"
             /\ Found(w, i)
             /\ Go(w, "claim")
       \/ Go(w, "note") /\ UNCHANGED <<target, seen>>
    /\ UNCHANGED <<rows, files, created, run, fresh, then, pinned, retry, world>>

\* What claim_candidate binds: the run must still be unclaimed and the lease
\* the worker's, inside the transaction.
MayClaim(w) ==
    /\ lease = w
    /\ fresh[w]
    /\ status[run[w]] = "discovering"
    /\ issue[run[w]] = NoIssue
    /\ ~Active(target[w])

Bind(w) ==
    /\ issue' = [issue EXCEPT ![run[w]] = target[w]]
    /\ revision' = [revision EXCEPT ![run[w]] = seen[w]]
    /\ UNCHANGED <<status, ahead>>

\* claim_candidate: classified again, and bound, in one transaction.
claim_candidate(w) ==
    /\ pc[w] = "claim"
    /\ IF MayClaim(w) /\ Ended(target[w], seen[w]) = {}
       THEN /\ Bind(w)
            /\ selected' = [selected EXCEPT ![run[w]] = @ + 1]
            /\ Saved(w, "select")
            /\ UNCHANGED auth
       ELSE Refused(w, "fail")
    /\ UNCHANGED <<args, world>>

\* Rows are read in the order of their run ids, and the first that ended counts.
FirstOf(S) == {q \in S : \A p \in S : q <= p}

\* Mutant: the selection event is written with the authorization already.
claim_candidate_retry_selects(w) ==
    /\ pc[w] = "reclaim"
    /\ IF MayClaim(w) /\ Ended(target[w], seen[w]) # {}
       THEN \E prior \in FirstOf(Ended(target[w], seen[w])) :
            /\ Bind(w)
            /\ auth' = [auth EXCEPT ![run[w]] = [prior |-> prior, status |-> status[prior]]]
            /\ selected' = [selected EXCEPT ![run[w]] = @ + 1]
            /\ Saved(w, "evaluate")
       ELSE Refused(w, "fail")
    /\ UNCHANGED <<args, world>>

\* claim_candidate with a retry authorization: the prior run is recorded.
claim_candidate_retry(w) ==
    /\ pc[w] = "reclaim"
    /\ IF MayClaim(w) /\ Ended(target[w], seen[w]) # {}
       THEN \E prior \in FirstOf(Ended(target[w], seen[w])) :
            /\ Bind(w)
            /\ auth' = [auth EXCEPT ![run[w]] = [prior |-> prior, status |-> status[prior]]]
            /\ Saved(w, "evaluate")
            /\ UNCHANGED selected
       ELSE Refused(w, "fail")
    /\ UNCHANGED <<args, world>>

\* After the evaluation, a retried issue gets its selection event.
SelectRetried(w) ==
    /\ pc[w] = "evaluate"
    /\ IF fresh[w]
       THEN /\ selected' = [selected EXCEPT ![run[w]] = @ + 1]
            /\ Saved(w, "select")
            /\ UNCHANGED <<status, issue, revision, ahead, auth>>
       ELSE Refused(w, "fail")
    /\ UNCHANGED <<args, world>>

------------------------------------------------------------------------------
(* The rest of a preparation: each step saves a status (an event alone keeps *)
(* it) and leads to another step.  The critic has two rounds.              *)

Plan ==
    [begin |-> {<<"discovering", "search">>},
     note |-> {<<"discovering", "skip">>},
     skip |-> {<<"skipped", "done">>},
     select |-> {<<"candidate_selected", "evaluated">>},
     evaluated |-> {<<"candidate_selected", "decide">>},
     decide |-> {<<"eligibility_checked", "setup">>, <<"skipped", "done">>},
     setup |-> {<<"setting_up", "accept">>},
     accept |-> {<<"setting_up", "implement">>, <<"skipped", "done">>},
     implement |-> {<<"implementing", "agent">>},
     agent |-> {<<"validating", "critique">>, <<"skipped", "done">>, <<"rejected", "done">>},
     critique |-> {<<"critiquing", "review">>},
     review |-> {<<"critiquing", "verdict">>, <<"rejected", "done">>},
     verdict |-> {<<"ready_for_approval", "done">>, <<"implementing", "agent2">>,
                  <<"rejected", "done">>},
     agent2 |-> {<<"validating", "critique2">>, <<"skipped", "done">>, <<"rejected", "done">>},
     critique2 |-> {<<"critiquing", "review2">>},
     review2 |-> {<<"critiquing", "verdict2">>, <<"rejected", "done">>},
     verdict2 |-> {<<"ready_for_approval", "done">>, <<"rejected", "done">>}]

_prepare(w) ==
    /\ pc[w] \in DOMAIN Plan
    /\ \E p \in Plan[pc[w]] : Save(w, p[1], p[2])
    /\ UNCHANGED <<args, world>>

\* daily_budget_left: nothing may be spent today.
NoBudget(w) ==
    /\ pc[w] = "search"
    /\ Save(w, "skipped", "done")
    /\ UNCHANGED <<args, world>>

\* Any step may raise: a safety stop, an error, an interruption.
Raise(w) ==
    /\ pc[w] \in DOMAIN Plan \cup {"search", "claim", "reclaim", "evaluate"}
    /\ Go(w, "fail")
    /\ UNCHANGED <<rows, files, created, run, fresh, then, args, world>>

\* _record_failure: failed, whatever status the manifest in memory has; the
\* row keeps the candidate it has.
_record_failure(w) ==
    /\ pc[w] = "fail"
    /\ IF fresh[w]
       THEN /\ status' = [status EXCEPT ![run[w]] = "failed"]
            /\ Saved(w, "idle")
            /\ UNCHANGED <<issue, revision, ahead, selected, auth>>
       ELSE Refused(w, "idle")
    /\ UNCHANGED <<args, world>>

------------------------------------------------------------------------------
(* Operators' commands, and what the publisher saves. *)

\* A transition by a process that just read the row.  It then writes the
\* file, unless it dies, fails, or finds a newer version pending.
Transition(r, to) ==
    /\ status[r] \in DOMAIN Allowed /\ to \in Allowed[status[r]]
    /\ status' = [status EXCEPT ![r] = to]
    /\ \/ /\ marker' = [marker EXCEPT ![r] = FALSE]
          /\ mirror' = [mirror EXCEPT ![r] = "current"]
       \/ RowsWritten({r})
    /\ fresh' = [x \in Workers |-> fresh[x] /\ run[x] # r]
    /\ UNCHANGED <<issue, revision, ahead, selected, auth, created, lease, pc, run, then, args,
                   world>>

approve_run(r) == status[r] = "ready_for_approval" /\ Transition(r, "approved")

\* cancel_run, and _retire_unpublishable of what can never publish.
cancel_run(r) == status[r] \in {"ready_for_approval", "approved"} /\ Transition(r, "cancelled")

\* expire_ready_for_approval_runs: those nobody approved in time, by the clock.
expire_ready_for_approval_runs ==
    /\ \E R \in SUBSET {r \in Runs : status[r] = "ready_for_approval" /\ ~ahead[r]} :
          /\ R # {} /\ Cardinality(R) <= RetireLimit
          /\ Retire(R, "cancelled")
    /\ UNCHANGED <<created, lease, pc, run, then, args, world>>

\* What module Publication does with an approved run.
Publish(r) ==
    \/ status[r] = "approved" /\ Transition(r, "submitting")
    \/ status[r] = "submitting" /\ \E to \in {"pr_open", "failed"} : Transition(r, to)

------------------------------------------------------------------------------
(* The world. *)

\* Someone comments on an issue or edits it.
Edit(i) ==
    /\ latest[i] < MaxRevision
    /\ latest' = [latest EXCEPT ![i] = @ + 1]
    /\ UNCHANGED <<rows, files, created, lease, pc, run, fresh, then, args, mishaps>>

\* A process dies with its lease.
Die(w) ==
    /\ pc[w] # "idle"
    /\ Mishap("death")
    /\ pc' = [pc EXCEPT ![w] = "idle"]
    /\ UNCHANGED <<rows, files, created, lease, run, fresh, then, args, latest>>

\* The lease of a dead or paused worker expires.
Lapse ==
    /\ lease # NoWorker
    /\ IF pc[lease] = "idle" THEN UNCHANGED mishaps ELSE Mishap("pause")
    /\ lease' = NoWorker
    /\ UNCHANGED <<rows, files, created, pc, run, fresh, then, args, latest>>

\* The clock is set back behind what was saved, and catches up again.
SetBack ==
    /\ Mishap("clock")
    /\ ahead' = [r \in Runs |-> status[r] # "absent"]
    /\ UNCHANGED <<status, issue, revision, selected, auth, files, created, lease, pc, run, fresh,
                   then, args, latest>>

CatchUp ==
    /\ \E r \in Runs : ahead[r]
    /\ ahead' = [r \in Runs |-> FALSE]
    /\ UNCHANGED <<status, issue, revision, selected, auth, files, created, lease, pc, run, fresh,
                   then, args, world>>

WorkerStep(w) ==
    \/ WriteMirror(w) \/ recover_stale_runs(w) \/ Tidy(w) \/ create_run(w) \/ Stopped(w)
    \/ Look(w) \/ Discover(w) \/ claim_candidate(w) \/ claim_candidate_retry(w)
    \/ SelectRetried(w) \/ _prepare(w) \/ NoBudget(w) \/ Raise(w) \/ _record_failure(w)

Next ==
    \/ \E w \in Workers : Start(w) \/ WorkerStep(w) \/ Die(w)
    \/ \E r \in Runs : approve_run(r) \/ cancel_run(r) \/ Publish(r)
    \/ \E i \in Issues : Edit(i)
    \/ expire_ready_for_approval_runs \/ OpenStore \/ Lapse \/ SetBack \/ CatchUp

Spec == Init /\ [][Next]_vars

------------------------------------------------------------------------------
(* Properties. *)

\* Two runs never work on the same issue, or have a pull request for it: not
\* when a worker is paused past its lease, another recovers its run and takes
\* the issue up, and the first one wakes (claim_candidate, _save).
OneAttemptPerIssue ==
    \A r, q \in Runs :
        r # q /\ issue[r] = issue[q] /\ issue[r] # NoIssue =>
            status[r] \in Released \/ status[q] \in Released

\* An issue on which a run ended skipped, rejected or cancelled is not taken
\* up again unchanged unless an operator authorized it ("passed over until
\* updated", docs/how-it-works.md): of two such runs, one has the authorization.
NoSilentRetry ==
    \A r, q \in Runs :
        /\ r # q /\ issue[r] = issue[q] /\ issue[r] # NoIssue /\ revision[r] = revision[q]
        /\ status[r] \in Suppressed /\ status[q] # "failed"
        => auth[r] # NoAuth \/ auth[q] # NoAuth

\* What opening the store verifies of a claimed issue: the selection events
\* and the authorization that allowed a retry.
_verify_candidate_selection_events(r) ==
    /\ selected[r] <= 1
    /\ issue[r] = NoIssue => selected[r] = 0
    /\ issue[r] # NoIssue => selected[r] = 1 \/ auth[r] # NoAuth

_verify_candidate_retry_authorizations(r) ==
    auth[r] # NoAuth =>
        /\ issue[r] # NoIssue
        /\ status[auth[r].prior] = auth[r].status
        /\ issue[auth[r].prior] = issue[r]
        /\ revision[auth[r].prior] = revision[r]

\* The evidence of a claimed issue passes the checks that every later start of
\* the program makes before it opens the store: one selection, missing only
\* while an authorized retry is not yet selected, and an authorization whose
\* prior run still has the status and revision it had then.
EvidenceVerifies ==
    \A r \in Runs :
        _verify_candidate_selection_events(r) /\ _verify_candidate_retry_authorizations(r)

\* A run's manifest.json is its row, or the row's change is marked as not yet
\* written: whatever dies, fails or comes late between the two
\* (_synchronize_manifest_artifact).
MirrorIsCurrent ==
    \A r \in Runs : status[r] # "absent" => marker[r] \/ mirror[r] = "current"
===============================================================================
