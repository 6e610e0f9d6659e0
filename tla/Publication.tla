----------------------------- MODULE Publication -----------------------------
(***************************************************************************)
(* One approved run on its way to a pull request (publication.py, class    *)
(* Publisher: publish, abandon, reconcile_submitting), the durable row and *)
(* event ledger it leaves in the run store (store.py), and GitHub.         *)
(*                                                                         *)
(* A worker is one process running one command at a time.  A step of a     *)
(* worker is one durable save, one write to GitHub or one round of reads,  *)
(* and ends with the ownership and safety-stop checks the code makes       *)
(* before the next one: what happens in the gap between those checks and   *)
(* the next write is what other workers, GitHub, outsiders and crashes do. *)
(*                                                                         *)
(* The run is configured without the draft-to-ready step.  Repository and  *)
(* head identities are compared by what the comparison tells apart: the    *)
(* branch and the pull request have the run's exact commit, or another.    *)
(***************************************************************************)
EXTENDS Integers, FiniteSets

CONSTANTS
    Workers,        \* processes
    NoWorker,       \* the publication lease is free
    Ops,            \* commands used, among "publish", "abandon", "reconcile"
    Interruptions,  \* bound: crashes, failed calls and pauses of all workers together
    LeaseMayLapse,  \* may a worker be paused past its lease and wake up?
    Republish,      \* may a withdrawn run be published, not abandoned, again?
    OutsiderActs    \* may others move or delete the contribution branch?

ASSUME PublicationConstants ==
    /\ NoWorker \notin Workers
    /\ Ops \subseteq {"publish", "abandon", "reconcile"}
    /\ Interruptions \in Nat
    /\ LeaseMayLapse \in BOOLEAN
    /\ Republish \in BOOLEAN
    /\ OutsiderActs \in BOOLEAN

VARIABLES
    \* RunManifest, as stored
    status,     \* RunStatus, from approved on
    commit,     \* commit_sha is stored
    started,    \* pull_request_creation_started
    url,        \* pull_request_url is stored
    reason,     \* publication_compensation_reason, "none" for None
    \* the run's event ledger, as far as a later decision reads it
    pushes,     \* branch.pushed events, 2 standing for more than one
    ledger,     \* other events present
    latest,     \* the kind of the newest event
    \* the safety stop
    tripped,    \* the circuit breaker is tripped
    fired,      \* evidence that has tripped it once, which never does so again
    \* GitHub
    branch,     \* the run's branch: "absent", "exact" commit, "other" commit
    pr,         \* the branch's pull request: "none", "open", "closed", "merged"
    prHead,     \* its head commit: "exact" or "other"
    prBase,     \* its base commit passed _base_drift_is_safe when it was made
    prText,     \* it carries the approved title, body and base branch
    baseSafe,   \* the upstream base passes _base_drift_is_safe now
    policyFresh,\* issue and policy evidence pass _check_freshness now
    post,       \* each worker's POST: "none", "sent", "created", "refused"
    \* workers
    lease,      \* holder of the publication lease, dead or alive
    pc,         \* the step a worker takes next
    fresh,      \* the worker's copy of the manifest is the stored one
    seen,       \* the pull request as the worker last read it
    interrupts, \* interruptions so far
    paused,     \* history: a worker was paused past its lease
    unresolved  \* history: POSTs sent, neither refused nor withdrawn since

run == <<status, commit, started, url, reason>>
events == <<pushes, ledger, latest>>
breaker == <<tripped, fired>>
github == <<branch, pr, prHead, prBase, prText, baseSafe, policyFresh, post>>
locals == <<seen, interrupts, paused>>
vars == <<run, events, breaker, github, lease, pc, fresh, locals, unresolved>>

Reasons == {"pre_pr_base_moved", "pre_pr_policy_stale", "pre_pr_creation_refused",
            "created_pr_base_moved"}
PrePr == Reasons \ {"created_pr_base_moved"}

\* Steps that the code takes only after assert_circuit_breaker_clear.
Constructive == {"gates", "recover", "commit", "recommit", "readopt", "push", "pushed", "verify_new", "verify_old",
                 "drift", "boundary", "post", "open"}

\* A pull request as _created_pull_request_mismatches classifies it.
Views == {"exact", "moved", "differs", "foreign", "closed", "merged"}

View == IF prHead = "other" THEN "foreign"
        ELSE IF pr # "open" THEN pr
        ELSE IF ~prBase THEN "moved"
        ELSE IF prText THEN "exact" ELSE "differs"

Init ==
    /\ status = "approved" /\ reason = "none"
    /\ commit = FALSE /\ started = FALSE /\ url = FALSE
    /\ pushes = 0 /\ ledger = {} /\ latest = "other"
    /\ tripped = FALSE /\ fired = {}
    /\ branch = "absent" /\ pr = "none" /\ prHead = "exact"
    /\ prBase = TRUE /\ prText = TRUE
    /\ baseSafe = TRUE /\ policyFresh = TRUE
    /\ post = [w \in Workers |-> "none"]
    /\ lease = NoWorker
    /\ pc = [w \in Workers |-> "idle"]
    /\ fresh = [w \in Workers |-> FALSE]
    /\ seen = [w \in Workers |-> "exact"]
    /\ interrupts = 0 /\ paused = FALSE
    /\ unresolved = 0

------------------------------------------------------------------------------
(* How a step of a worker ends, and the operations steps are made of. *)

\* The command ends, normally or by an exception; LeaseHeartbeatGuard.close
\* releases the lease if it is still the worker's.
Halt(w) ==
    /\ pc' = [pc EXCEPT ![w] = "idle"]
    /\ lease' = IF lease = w THEN NoWorker ELSE lease

\* The checks before the next step, assert_owned and, for a constructive one,
\* assert_circuit_breaker_clear: go on, or raise.
Go(w, next) ==
    IF lease = w /\ (next \in Constructive => ~tripped)
    THEN pc' = [pc EXCEPT ![w] = next] /\ UNCHANGED lease
    ELSE Halt(w)

At(w, step) == pc[w] = step

\* RunStore.save: compare-and-swap on the stored row, with its event.
Save(w, event) ==
    /\ fresh[w]
    /\ fresh' = [v \in Workers |-> v = w]
    /\ latest' = event

\* _trip_publication_breaker: evidence that already fired does not fire again.
Trip(source) ==
    IF source \in fired THEN UNCHANGED breaker
    ELSE tripped' = TRUE /\ fired' = fired \cup {source}

\* A save that finds the row changed raises StateError.
SavingSteps == {"gates", "recover", "reread", "commit", "recommit", "readopt", "pushed",
                "verify_old", "drift", "boundary", "post", "refused", "refused_mark",
                "reject", "mark", "open", "accept", "accepted", "deleted", "withdrawn",
                "absent", "finalize", "close", "closed", "confirm", "compensate", "merged",
                "adopt", "manage", "reject_existing"}

StaleSave(w) ==
    /\ pc[w] \in SavingSteps
    /\ ~fresh[w]
    /\ Halt(w)
    /\ UNCHANGED <<run, events, breaker, github, fresh, locals, unresolved>>

------------------------------------------------------------------------------
(* Starting a command. *)

\* The lease is taken and the row is loaded; the first decision is made on it.
Start(w, next) ==
    /\ At(w, "idle")
    /\ post[w] # "sent"     \* a process whose request is under way is not reused
    /\ lease = NoWorker
    /\ lease' = w
    /\ fresh' = [fresh EXCEPT ![w] = TRUE]
    /\ pc' = [pc EXCEPT ![w] = next]
    /\ post' = [post EXCEPT ![w] = "none"]
    /\ seen' = [seen EXCEPT ![w] = "exact"]
    /\ UNCHANGED <<run, events, breaker, branch, pr, prHead, prBase, prText, baseSafe,
                   policyFresh, interrupts, paused, unresolved>>

\* The event of an abandon that released the creation marker.  Nothing in the
\* code reads it: with Republish FALSE, operators answer an abandon that was
\* interrupted after it by abandoning again.
Withdrawal == "pull_request.creation.withdrawn"

Publish(w) ==
    /\ "publish" \in Ops
    /\ \/ status = "approved" /\ ~tripped /\ Start(w, "gates")
       \/ status = "submitting" /\ reason # "none" /\ Start(w, "compensate")
       \/ /\ status = "submitting" /\ reason = "none" /\ ~tripped
          /\ Republish \/ Withdrawal \notin ledger
          /\ Start(w, "recover")

Reconcile(w) ==
    /\ "reconcile" \in Ops
    /\ status = "submitting"
    /\ \/ reason # "none" /\ Start(w, "compensate")
       \/ reason = "none" /\ Start(w, "reread")

\* Mutant: any run without a pull request may be abandoned.
Abandon_any(w) ==
    /\ "abandon" \in Ops
    /\ reason = "none"
    /\ \/ started /\ ~url /\ Start(w, "withdraw")
       \/ ~started /\ ~url /\ Start(w, "absent")

Abandon(w) ==
    /\ "abandon" \in Ops
    /\ status = "submitting"
    /\ reason = "none"
    /\ \/ started /\ ~url /\ Start(w, "withdraw")
       \/ ~started /\ ~url /\ Start(w, "absent")

------------------------------------------------------------------------------
(* publish, up to the pushed branch. *)

\* The gates hold, then begin_publication stores the intent.
BeginPublication(w) ==
    /\ At(w, "gates")
    /\ baseSafe /\ policyFresh
    /\ Save(w, "other")
    /\ status' = "submitting"
    /\ Go(w, "commit")
    /\ UNCHANGED <<commit, started, url, reason, pushes, ledger, breaker, github, locals,
                   unresolved>>

\* A gate refuses (stale evidence, a limit, a hold, an expired approval): the
\* run stays approved.
GateRefuses(w) ==
    /\ At(w, "gates")
    /\ Halt(w)
    /\ UNCHANGED <<run, events, breaker, github, fresh, locals, unresolved>>

\* Mutant: a creation without an answer is taken up again, not stopped.
Recover_resends(w) ==
    /\ At(w, "recover")
    /\ fresh[w]
    /\ IF url \/ (commit /\ pr # "none") THEN Go(w, "accept")
       ELSE IF branch = "other" \/ (~commit /\ branch # "absent") THEN Halt(w)
       ELSE Go(w, IF branch = "exact" THEN "readopt" ELSE "recommit")
    /\ UNCHANGED <<run, events, breaker, github, fresh, locals, unresolved>>

\* _publish on a submitting run.  begin_publication checks that the row is the
\* one loaded; then a stored or discovered pull request is accepted, an
\* unanswered creation stops, a branch that is not the stored commit stops,
\* and anything else is resumed.
Recover(w) ==
    /\ At(w, "recover")
    /\ fresh[w]
    /\ IF url \/ (commit /\ pr # "none") THEN Go(w, "accept")
       ELSE IF started \/ branch = "other" \/ (~commit /\ branch # "absent") THEN Halt(w)
       ELSE Go(w, IF branch = "exact" THEN "readopt" ELSE "recommit")
    /\ UNCHANGED <<run, events, breaker, github, fresh, locals, unresolved>>

\* The patch, its evidence or the workspace is gone.  With no branch on GitHub
\* the run can only be ended; with one, publish raises.
EvidenceLost(w) ==
    /\ pc[w] \in {"recommit", "readopt"}
    /\ IF At(w, "recommit") THEN Go(w, "absent") ELSE Halt(w)
    /\ UNCHANGED <<run, events, breaker, github, fresh, locals, unresolved>>

\* The head is looked up again before anything is prepared.
FindExisting(w) ==
    /\ pc[w] \in {"commit", "recommit", "readopt"}
    /\ pr # "none"
    /\ Go(w, "accept")
    /\ UNCHANGED <<run, events, breaker, github, fresh, locals, unresolved>>

\* commit.created is saved, then the branch is read unless Recover saw it.  A
\* resumed push first passes _check_freshness again; a stale one ends the run.
Commit(w) ==
    /\ pc[w] \in {"commit", "recommit", "readopt"}
    /\ Save(w, "other")
    /\ commit' = TRUE
    /\ IF At(w, "readopt") \/ branch = "exact" THEN Go(w, "verify_old")
       ELSE IF branch = "other" THEN Halt(w)
       ELSE IF At(w, "recommit") /\ ~(baseSafe /\ policyFresh) THEN Go(w, "absent")
       ELSE Go(w, "push")
    /\ UNCHANGED <<status, started, url, reason, pushes, ledger, breaker, github, locals,
                   unresolved>>

\* _push: --force-with-lease against an absent ref never overwrites.
Push(w) ==
    /\ At(w, "push")
    /\ IF branch = "absent" THEN branch' = "exact" /\ Go(w, "pushed")
       ELSE UNCHANGED branch /\ Halt(w)
    /\ UNCHANGED <<run, events, breaker, pr, prHead, prBase, prText, baseSafe, policyFresh,
                   post, fresh, locals, unresolved>>

RecordPush(w) ==
    /\ At(w, "pushed")
    /\ Save(w, "other")
    /\ pushes' = IF pushes = 2 THEN 2 ELSE pushes + 1
    /\ Go(w, "verify_new")
    /\ UNCHANGED <<run, ledger, breaker, github, locals, unresolved>>

\* The branch is read back; one that this command did not push is adopted by
\* _ensure_durable_existing_branch_evidence, which wants one branch event, or
\* none yet and then saves branch.reconciled.
BranchEvents == pushes + Cardinality(ledger \cap {"branch.reconciled"})

VerifyNew(w) ==
    /\ At(w, "verify_new")
    /\ IF branch = "exact" THEN Go(w, "drift") ELSE Halt(w)
    /\ UNCHANGED <<run, events, breaker, github, fresh, locals, unresolved>>

VerifyOld(w) ==
    /\ At(w, "verify_old")
    /\ \/ /\ branch = "exact" /\ BranchEvents = 0
          /\ Save(w, "other")
          /\ ledger' = ledger \cup {"branch.reconciled"}
          /\ Go(w, "drift")
       \/ /\ branch = "exact" /\ BranchEvents = 1
          /\ Go(w, "drift")
          /\ UNCHANGED <<fresh, latest, ledger>>
       \/ /\ branch # "exact" \/ BranchEvents > 1
          /\ Halt(w)
          /\ UNCHANGED <<fresh, latest, ledger>>
    /\ UNCHANGED <<run, pushes, breaker, github, locals, unresolved>>

------------------------------------------------------------------------------
(* publish, creating the pull request. *)

\* A marker is saved before the cleanup it announces; the same command then
\* goes on with _resume_started_compensation.
MarkCompensation(w, why) ==
    /\ Save(w, "other")
    /\ reason' = why
    /\ Go(w, "compensate")
    /\ UNCHANGED <<status, commit, started, url, pushes, ledger, breaker, github, locals,
                   unresolved>>

\* The base is read, then _check_pre_pull_request_policy_freshness.
CheckDrift(w) ==
    /\ At(w, "drift")
    /\ \/ ~baseSafe /\ MarkCompensation(w, "pre_pr_base_moved")
       \/ baseSafe /\ ~policyFresh /\ MarkCompensation(w, "pre_pr_policy_stale")
       \/ /\ baseSafe /\ policyFresh
          /\ Go(w, "boundary")
          /\ UNCHANGED <<run, events, breaker, github, fresh, locals, unresolved>>

\* Mutant: the POST is sent before its marker is durable.
BeginCreation_unmarked(w) ==
    /\ At(w, "boundary")
    /\ baseSafe /\ policyFresh /\ branch = "exact"
    /\ Go(w, "post")
    /\ UNCHANGED <<run, events, breaker, github, fresh, locals, unresolved>>

\* begin_pull_request_creation, called at the mutation boundary: everything is
\* checked once more, and the creation marker is durable before the POST.
BeginCreation(w) ==
    /\ At(w, "boundary")
    /\ baseSafe /\ policyFresh /\ branch = "exact"
    /\ Save(w, "other")
    /\ started' = TRUE
    /\ Go(w, "post")
    /\ UNCHANGED <<status, commit, url, reason, pushes, ledger, breaker, github, locals,
                   unresolved>>

\* One of these checks fails, or a read it needs.
BoundaryFails(w) ==
    /\ At(w, "boundary")
    /\ MarkCompensation(w, "pre_pr_policy_stale")

SendPost(w) ==
    /\ At(w, "post")
    /\ post' = [post EXCEPT ![w] = "sent"]
    /\ unresolved' = unresolved + 1
    /\ pc' = [pc EXCEPT ![w] = "await"]
    /\ UNCHANGED <<run, events, breaker, branch, pr, prHead, prBase, prText, baseSafe,
                   policyFresh, lease, fresh, locals>>

\* GitHubRequestNotSentError: the marker is released and the command raises.
NotSent(w) ==
    /\ At(w, "post")
    /\ Save(w, "other")
    /\ started' = FALSE
    /\ Halt(w)
    /\ UNCHANGED <<status, commit, url, reason, pushes, ledger, breaker, github, locals,
                   unresolved>>

\* No answer, or one that proves nothing (408, 429, 5xx): the head is looked up
\* once; without a pull request the marker stays and the command raises.
AnswerLost(w) ==
    /\ At(w, "await")
    /\ IF pr # "none" THEN Go(w, "accept") ELSE Halt(w)
    /\ UNCHANGED <<run, events, breaker, github, fresh, locals, unresolved>>

AnswerCreated(w) ==
    /\ At(w, "await")
    /\ post[w] = "created"
    /\ seen' = [seen EXCEPT ![w] = View]
    /\ pc' = [pc EXCEPT ![w] = "persist"]
    /\ UNCHANGED <<run, events, breaker, github, lease, fresh, interrupts, paused, unresolved>>

\* _definitive_refusal, and the lookup finds no pull request.
AnswerRefused(w) ==
    /\ At(w, "await")
    /\ post[w] = "refused"
    /\ IF pr # "none" THEN Go(w, "accept") ELSE Go(w, "refused")
    /\ UNCHANGED <<run, events, breaker, github, fresh, locals, unresolved>>

\* _fail_refused_pull_request_creation: release, then mark and clean up.
ReleaseRefused(w) ==
    /\ At(w, "refused")
    /\ Save(w, "other")
    /\ started' = FALSE
    /\ unresolved' = 0
    /\ Go(w, "refused_mark")
    /\ UNCHANGED <<status, commit, url, reason, pushes, ledger, breaker, github, locals>>

MarkRefused(w) ==
    /\ At(w, "refused_mark")
    /\ MarkCompensation(w, "pre_pr_creation_refused")
------------------------------------------------------------------------------
(* publish, after GitHub returned a pull request. *)

\* _persist_created_pull_request stores the identity before judging it.
Persist(w) ==
    /\ At(w, "persist")
    /\ Save(w, "other")
    /\ url' = TRUE
    /\ ledger' = ledger \cup {"pull_request.created.response"}
    /\ Go(w, CASE seen[w] \in {"exact", "merged"} -> "open"
               [] seen[w] = "closed" -> "closed_pr"
               [] OTHER -> "reject")
    /\ UNCHANGED <<status, commit, started, reason, pushes, breaker, github, locals, unresolved>>

NotPersisted(w) ==
    /\ At(w, "persist")
    /\ ~fresh[w]
    /\ Trip("created_pr_not_persisted")
    /\ Halt(w)
    /\ UNCHANGED <<run, events, github, fresh, locals, unresolved>>

\* An exact pull request that is already closed: stop, but keep managing it.
StopOnClosed(w) ==
    /\ At(w, "closed_pr")
    /\ Trip("closed_unmerged_pr")
    /\ Go(w, "manage")
    /\ UNCHANGED <<run, events, github, fresh, locals, unresolved>>

\* The run reaches pr_open.
Open(w) ==
    /\ pc[w] \in {"open", "manage"}
    /\ Save(w, "other")
    /\ status' = "pr_open"
    /\ Halt(w)
    /\ UNCHANGED <<commit, started, url, reason, pushes, ledger, breaker, github, locals,
                   unresolved>>

\* _reject_created_pull_request: evidence, safety stop, then the marker of a
\* proven base race, or no automatic cleanup at all.
Reject(w) ==
    /\ At(w, "reject")
    /\ Save(w, "other")
    /\ ledger' = ledger \cup {"pull_request.created.rejected"}
    /\ Go(w, "stop")
    /\ UNCHANGED <<run, pushes, breaker, github, locals, unresolved>>

StopOnRejected(w) ==
    /\ At(w, "stop")
    /\ Trip(IF seen[w] = "moved" THEN "base_moved_during_pr_creation"
            ELSE "created_pr_response_mismatch")
    /\ Go(w, "mark")
    /\ UNCHANGED <<run, events, github, fresh, locals, unresolved>>

MarkCreated(w) ==
    /\ At(w, "mark")
    /\ \/ seen[w] = "moved" /\ MarkCompensation(w, "created_pr_base_moved")
       \/ /\ seen[w] # "moved"
          /\ Save(w, "other")
          /\ Halt(w)
          /\ UNCHANGED <<run, pushes, ledger, breaker, github, locals, unresolved>>

------------------------------------------------------------------------------
(* A pull request found on GitHub: _reconcile_submitting and                *)
(* _accept_existing_pull_request.                                           *)

Reread(w) ==
    /\ At(w, "reread")
    /\ fresh[w]
    /\ IF commit /\ (url \/ pr # "none") THEN Go(w, "accept") ELSE Halt(w)
    /\ UNCHANGED <<run, events, breaker, github, fresh, locals, unresolved>>

Accept(w) ==
    /\ At(w, "accept")
    /\ View # "foreign"
    /\ seen' = [seen EXCEPT ![w] = View]
    /\ \/ ~url /\ Save(w, "other") /\ url' = TRUE
       \/ url /\ UNCHANGED <<fresh, latest, url>>
    /\ Go(w, "accepted")
    /\ UNCHANGED <<status, commit, started, reason, pushes, ledger, breaker, github, interrupts, paused,
                   unresolved>>

AcceptForeign(w) ==
    /\ At(w, "accept")
    /\ View = "foreign"
    /\ Trip("discovered_pr_identity_mismatch")
    /\ Halt(w)
    /\ UNCHANGED <<run, events, github, fresh, locals, unresolved>>

\* Mutant: an open pull request is managed whatever it contains.
Accepted_lenient(w) ==
    /\ At(w, "accepted")
    /\ Save(w, "other")
    /\ Go(w, IF seen[w] = "closed" THEN "closed_pr" ELSE "manage")
    /\ UNCHANGED <<run, pushes, ledger, breaker, github, locals, unresolved>>

\* pull_request.reconciled is saved; an open pull request must also still have
\* its branch.
Accepted(w) ==
    /\ At(w, "accepted")
    /\ Save(w, "other")
    /\ Go(w, CASE seen[w] = "closed" -> "closed_pr"
               [] seen[w] = "merged" \/ (seen[w] = "exact" /\ branch = "exact") -> "manage"
               [] OTHER -> "reject_existing")
    /\ UNCHANGED <<run, pushes, ledger, breaker, github, locals, unresolved>>

RejectExisting(w) ==
    /\ At(w, "reject_existing")
    /\ Save(w, "other")
    /\ Trip("reconciled_pr_semantic_mismatch")
    /\ Halt(w)
    /\ UNCHANGED <<run, pushes, ledger, github, locals, unresolved>>

------------------------------------------------------------------------------
(* Cleaning up: _resume_started_compensation. *)

\* _delete_remote_branch reads the ref before it deletes: an absent branch
\* needs no deletion, another commit is refused.
ToDelete(w) ==
    CASE branch = "absent" -> Go(w, "deleted")
      [] branch = "exact" -> Go(w, "delete")
      [] OTHER -> Halt(w)

\* Mutant: an adopted branch (branch.reconciled) is no evidence.
MarkerIsBound_pushed ==
    /\ pushes = 1
    /\ reason \in PrePr => ~url /\ ~started
    /\ reason = "created_pr_base_moved" =>
          {"pull_request.created.response", "pull_request.created.rejected"} \subseteq ledger

\* _assert_durable_compensation_marker, and no sign of a pull request behind
\* a marker that says there is none.
MarkerIsBound ==
    /\ BranchEvents = 1
    /\ reason \in PrePr => ~url /\ ~started
    /\ reason = "created_pr_base_moved" =>
          {"pull_request.created.response", "pull_request.created.rejected"} \subseteq ledger

CompensatePrePr(w) ==
    /\ At(w, "compensate")
    /\ reason \in PrePr
    /\ MarkerIsBound
    /\ \/ pr # "none" /\ Trip("unexpected_pr_during_pre_pr_compensation") /\ Halt(w)
       \/ pr = "none" /\ branch = "other" /\ Trip("compensation_branch_mismatch") /\ Halt(w)
       \/ /\ pr = "none" /\ branch # "other"
          /\ Go(w, IF branch = "absent" THEN "absent" ELSE "delete")
          /\ UNCHANGED breaker
    /\ UNCHANGED <<run, events, github, fresh, locals, unresolved>>

CompensateCreated(w) ==
    /\ At(w, "compensate")
    /\ reason = "created_pr_base_moved"
    /\ MarkerIsBound
    /\ \/ prHead = "other" /\ Trip("compensation_identity_mismatch") /\ Halt(w)
       \/ /\ prHead = "exact"
          /\ Go(w, IF pr = "merged" THEN "merged" ELSE "close")
          /\ UNCHANGED breaker
    /\ UNCHANGED <<run, events, github, fresh, locals, unresolved>>

MarkerUnbound(w) ==
    /\ At(w, "compensate")
    /\ ~MarkerIsBound
    /\ Halt(w)
    /\ UNCHANGED <<run, events, breaker, github, fresh, locals, unresolved>>

\* close_pull_request: an open pull request is closed, a merged one refused.
ClosePullRequest(w) ==
    /\ At(w, "close")
    /\ \/ pr \in {"open", "closed"} /\ prHead = "exact" /\ pr' = "closed" /\ Go(w, "closed")
       \/ (pr = "merged" \/ prHead = "other") /\ Halt(w) /\ UNCHANGED pr
    /\ UNCHANGED <<run, events, breaker, branch, prHead, prBase, prText, baseSafe, policyFresh,
                   post, fresh, locals, unresolved>>

RecordClosed(w) ==
    /\ At(w, "closed")
    /\ Save(w, "other")
    /\ ledger' = ledger \cup {"pull_request.compensation.closed"}
    /\ IF pr = "closed" THEN ToDelete(w) ELSE Halt(w)
    /\ UNCHANGED <<run, pushes, breaker, github, locals, unresolved>>

\* _delete_remote_branch: --force-with-lease against the exact commit.  GitHub
\* closes the pull request of a deleted head.
DeleteBranch(w) ==
    /\ At(w, "delete")
    /\ \/ /\ branch = "exact"
          /\ branch' = "absent"
          /\ pr' = IF pr = "open" THEN "closed" ELSE pr
          /\ Go(w, "deleted")
       \/ /\ branch # "exact"
          /\ Halt(w)
          /\ UNCHANGED <<branch, pr>>
    /\ UNCHANGED <<run, events, breaker, prHead, prBase, prText, baseSafe, policyFresh, post,
                   fresh, locals, unresolved>>

RecordDeleted(w) ==
    /\ At(w, "deleted")
    /\ Save(w, "branch.compensated")
    /\ Go(w, CASE reason = "created_pr_base_moved" -> "confirm"
               [] reason = "none" -> "withdrawn"
               [] OTHER -> "absent")
    /\ UNCHANGED <<run, pushes, ledger, breaker, github, locals, unresolved>>

\* The last reads, then finalize_publication_compensation with the evidence
\* _assert_failed_publication_compensation_events wants: one branch.pushed,
\* and the cleanup of the branch as the newest event.
CreatedCleanupIsProved ==
    /\ pushes = 1
    /\ {"pull_request.created.response", "pull_request.created.rejected",
        "pull_request.compensation.closed"} \subseteq ledger
    /\ latest = "branch.compensated"

Confirm(w) ==
    /\ At(w, "confirm")
    /\ pr = "closed" /\ prHead = "exact" /\ branch = "absent"
    /\ CreatedCleanupIsProved
    /\ Save(w, "other")
    /\ status' = "failed"
    /\ Halt(w)
    /\ UNCHANGED <<commit, started, url, reason, pushes, ledger, breaker, github, locals,
                   unresolved>>

Unconfirmed(w) ==
    /\ At(w, "confirm")
    /\ ~(pr = "closed" /\ prHead = "exact" /\ branch = "absent" /\ CreatedCleanupIsProved)
    /\ Halt(w)
    /\ UNCHANGED <<run, events, breaker, github, fresh, locals, unresolved>>

\* A compensating pull request that was merged is kept:
\* finalize_merged_publication_compensation.
RecordMerged(w) ==
    /\ At(w, "merged")
    /\ Save(w, "pull_request.compensation.reconciled")
    /\ Go(w, "adopt")
    /\ UNCHANGED <<run, pushes, ledger, breaker, github, locals, unresolved>>

MergedIsProved ==
    /\ pushes = 1
    /\ {"pull_request.created.response", "pull_request.created.rejected"} \subseteq ledger
    /\ latest = "pull_request.compensation.reconciled"

Adopt(w) ==
    /\ At(w, "adopt")
    /\ MergedIsProved
    /\ Save(w, "other")
    /\ status' = "pr_open"
    /\ Halt(w)
    /\ UNCHANGED <<commit, started, url, reason, pushes, ledger, breaker, github, locals,
                   unresolved>>

AdoptRefused(w) ==
    /\ At(w, "adopt")
    /\ ~MergedIsProved
    /\ Halt(w)
    /\ UNCHANGED <<run, events, breaker, github, fresh, locals, unresolved>>
------------------------------------------------------------------------------
(* Ending a run that left nothing: abandon and                              *)
(* _finalize_absent_pre_post_publication.                                   *)

\* _withdraw_unanswered_pull_request_creation: no pull request, delete the
\* head, still no pull request, release the marker.
Withdraw(w) ==
    /\ At(w, "withdraw")
    /\ IF pr = "none" THEN ToDelete(w) ELSE Halt(w)
    /\ UNCHANGED <<run, events, breaker, github, fresh, locals, unresolved>>

Withdrawn(w) ==
    /\ At(w, "withdrawn")
    /\ \/ /\ pr = "none"
          /\ Save(w, "other")
          /\ started' = FALSE
          /\ ledger' = ledger \cup {Withdrawal}
          /\ unresolved' = 0
          /\ Go(w, "absent")
       \/ /\ pr # "none"
          /\ Halt(w)
          /\ UNCHANGED <<started, fresh, latest, ledger, unresolved>>
    /\ UNCHANGED <<status, commit, url, reason, pushes, breaker, github, locals>>

\* Mutant: only the pull request is looked for.
VerifyAbsence_half(w) ==
    /\ At(w, "absent")
    /\ \/ /\ pr = "none"
          /\ Save(w, "publication.absence.verified")
          /\ Go(w, "finalize")
       \/ /\ pr # "none"
          /\ Halt(w)
          /\ UNCHANGED <<fresh, latest>>
    /\ UNCHANGED <<run, pushes, ledger, breaker, github, locals, unresolved>>

\* Neither a pull request nor a branch: publication.absence.verified.
VerifyAbsence(w) ==
    /\ At(w, "absent")
    /\ \/ /\ pr = "none" /\ branch = "absent"
          /\ Save(w, "publication.absence.verified")
          /\ Go(w, "finalize")
       \/ /\ pr # "none" \/ branch # "absent"
          /\ Halt(w)
          /\ UNCHANGED <<fresh, latest>>
    /\ UNCHANGED <<run, pushes, ledger, breaker, github, locals, unresolved>>

\* finalize_publication_compensation: that event must be the newest.
Finalize(w) ==
    /\ At(w, "finalize")
    /\ latest = "publication.absence.verified"
    /\ Save(w, "other")
    /\ status' = "failed"
    /\ Halt(w)
    /\ UNCHANGED <<commit, started, url, reason, pushes, ledger, breaker, github, locals,
                   unresolved>>

------------------------------------------------------------------------------
(* GitHub, other people, other commands, and failures. *)

\* A POST that is still under way creates the pull request: GitHub needs its
\* head branch and refuses a second open one for it.
Land(w) ==
    /\ post[w] = "sent"
    /\ branch # "absent" /\ pr # "open"
    /\ post' = [post EXCEPT ![w] = "created"]
    /\ pr' = "open"
    /\ prHead' = branch
    /\ prBase' = baseSafe
    /\ prText' \in BOOLEAN
    /\ UNCHANGED <<run, events, breaker, branch, baseSafe, policyFresh, lease, pc, fresh, locals,
                   unresolved>>

Refuse(w) ==
    /\ post[w] = "sent"
    /\ post' = [post EXCEPT ![w] = "refused"]
    /\ UNCHANGED <<run, events, breaker, branch, pr, prHead, prBase, prText, baseSafe,
                   policyFresh, lease, pc, fresh, locals, unresolved>>

\* Maintainers merge or close it.
Maintainer ==
    /\ pr = "open"
    /\ pr' \in {"closed", "merged"}
    /\ UNCHANGED <<run, events, breaker, branch, prHead, prBase, prText, baseSafe, policyFresh,
                   post, lease, pc, fresh, locals, unresolved>>

\* The base or the issue and policy evidence drifts.
Drift ==
    /\ \/ baseSafe /\ baseSafe' = FALSE /\ UNCHANGED policyFresh
       \/ policyFresh /\ policyFresh' = FALSE /\ UNCHANGED baseSafe
    /\ UNCHANGED <<run, events, breaker, branch, pr, prHead, prBase, prText, post, lease, pc,
                   fresh, locals, unresolved>>

\* Someone else pushes to the branch, or deletes it.
Outsider ==
    /\ OutsiderActs
    /\ branch = "exact"
    /\ branch' \in {"other", "absent"}
    /\ prHead' = IF pr = "open" /\ branch' = "other" THEN "other" ELSE prHead
    /\ pr' = IF pr = "open" /\ branch' = "absent" THEN "closed" ELSE pr
    /\ UNCHANGED <<run, events, breaker, prBase, prText, baseSafe, policyFresh, post, lease, pc,
                   fresh, locals, unresolved>>

\* Another command trips the breaker, or an operator resumes it.
Operator ==
    /\ tripped' = ~tripped
    /\ UNCHANGED <<run, events, fired, github, lease, pc, fresh, locals, unresolved>>

\* A call fails and the command raises, or the process dies with its lease.
Interrupt(w) ==
    /\ pc[w] # "idle"
    /\ interrupts < Interruptions
    /\ interrupts' = interrupts + 1
    /\ pc' = [pc EXCEPT ![w] = "idle"]
    /\ lease' \in IF lease = w THEN {NoWorker, w} ELSE {lease}
    /\ UNCHANGED <<run, events, breaker, github, fresh, seen, paused, unresolved>>

\* The lease of a dead or, if that may happen, paused worker expires.
Lapse ==
    /\ lease # NoWorker
    /\ lease' = NoWorker
    /\ \/ pc[lease] = "idle" /\ UNCHANGED <<interrupts, paused>>
       \/ /\ pc[lease] # "idle" /\ LeaseMayLapse
          /\ interrupts < Interruptions
          /\ interrupts' = interrupts + 1
          /\ paused' = TRUE
    /\ UNCHANGED <<run, events, breaker, github, pc, fresh, seen, unresolved>>

------------------------------------------------------------------------------
PublishStep(w) ==
    \/ BeginPublication(w) \/ GateRefuses(w) \/ Recover(w) \/ EvidenceLost(w)
    \/ FindExisting(w) \/ Commit(w) \/ Push(w) \/ RecordPush(w) \/ VerifyNew(w)
    \/ VerifyOld(w) \/ CheckDrift(w) \/ BeginCreation(w) \/ BoundaryFails(w)
    \/ SendPost(w) \/ NotSent(w) \/ AnswerLost(w) \/ AnswerCreated(w)
    \/ AnswerRefused(w) \/ ReleaseRefused(w) \/ MarkRefused(w) \/ Persist(w)
    \/ NotPersisted(w) \/ StopOnClosed(w) \/ Open(w) \/ Reject(w) \/ StopOnRejected(w)
    \/ MarkCreated(w)

AcceptStep(w) ==
    \/ Reread(w) \/ Accept(w) \/ AcceptForeign(w) \/ Accepted(w) \/ RejectExisting(w)

CleanupStep(w) ==
    \/ CompensatePrePr(w) \/ CompensateCreated(w) \/ MarkerUnbound(w) \/ ClosePullRequest(w)
    \/ RecordClosed(w) \/ DeleteBranch(w) \/ RecordDeleted(w) \/ Confirm(w) \/ Unconfirmed(w)
    \/ RecordMerged(w) \/ Adopt(w) \/ AdoptRefused(w)
    \/ Withdraw(w) \/ Withdrawn(w) \/ VerifyAbsence(w) \/ Finalize(w)

Step(w) == PublishStep(w) \/ AcceptStep(w) \/ CleanupStep(w) \/ StaleSave(w)

Command(w) == Publish(w) \/ Reconcile(w) \/ Abandon(w)

Next ==
    \/ \E w \in Workers : Command(w) \/ Step(w) \/ Land(w) \/ Refuse(w) \/ Interrupt(w)
    \/ Maintainer \/ Drift \/ Outsider \/ Operator \/ Lapse

Spec == Init /\ [][Next]_vars

\* A running command goes on, a dead worker's lease expires, GitHub answers,
\* and someone keeps coming back to the run: lifecycle sync re-checks every
\* submitting run at each scheduled run and each publish.
Fairness ==
    /\ \A w \in Workers :
          /\ WF_vars(Step(w))
          /\ WF_vars(Land(w) \/ Refuse(w))
          /\ SF_vars(Publish(w) \/ Reconcile(w))
    /\ WF_vars(Lapse)

FairSpec == Spec /\ Fairness

------------------------------------------------------------------------------
(* Properties. *)

Steps == Constructive \cup SavingSteps \cup
    {"idle", "await", "persist", "closed_pr", "stop", "delete", "withdraw"}

\* Evidence that trips the breaker.
Sources == {"created_pr_not_persisted", "closed_unmerged_pr", "base_moved_during_pr_creation",
            "created_pr_response_mismatch", "discovered_pr_identity_mismatch",
            "reconciled_pr_semantic_mismatch", "unexpected_pr_during_pre_pr_compensation",
            "compensation_branch_mismatch", "compensation_identity_mismatch"}

\* Events that a later decision tells apart when they are the newest.
Marks == {"other", "branch.compensated", "publication.absence.verified",
          "pull_request.compensation.reconciled"}

\* Every variable has its type.
TypeOK ==
    /\ status \in {"approved", "submitting", "pr_open", "failed"}
    /\ commit \in BOOLEAN /\ started \in BOOLEAN /\ url \in BOOLEAN
    /\ reason \in Reasons \cup {"none"}
    /\ pushes \in 0 .. 2
    /\ ledger \subseteq {"branch.reconciled", "pull_request.created.response",
                         "pull_request.created.rejected", "pull_request.compensation.closed",
                         Withdrawal}
    /\ latest \in Marks
    /\ tripped \in BOOLEAN
    /\ fired \subseteq Sources
    /\ branch \in {"absent", "exact", "other"}
    /\ pr \in {"none", "open", "closed", "merged"}
    /\ prHead \in {"exact", "other"}
    /\ prBase \in BOOLEAN /\ prText \in BOOLEAN
    /\ baseSafe \in BOOLEAN /\ policyFresh \in BOOLEAN
    /\ post \in [Workers -> {"none", "sent", "created", "refused"}]
    /\ lease \in Workers \cup {NoWorker}
    /\ pc \in [Workers -> Steps]
    /\ fresh \in [Workers -> BOOLEAN]
    /\ seen \in [Workers -> Views]
    /\ interrupts \in 0 .. Interruptions /\ paused \in BOOLEAN
    /\ unresolved \in Nat

\* Workers exclude each other by their lease; one that was paused past it can
\* undo that where the code relies on the lease alone, which is a withdrawal.
Excluded == paused => Withdrawal \notin ledger

\* A POST whose outcome is unknown is never followed by another one: between
\* two POSTs of a run lies a refusal by GitHub or a withdrawal that deleted the
\* head and found no pull request, whatever crashes, retries and second
\* workers do ("that run stays `submitting` and never sends a second
\* request"; begin_pull_request_creation, _stop_ambiguous_pull_request_creation).
\* It survives workers that wake up after their lease, until an abandon withdraws.
NoSecondPost == Excluded => unresolved <= 1

\* A run that ends failed left nothing behind and nothing that could still
\* appear, if no worker outlived its lease: its branch is gone, its pull request
\* was never made or is closed unmerged with its identity stored, and no request
\* of it is unaccounted for (abandon, _finalize_absent_pre_post_publication,
\* _resume_started_compensation).
FailedLeavesNothing ==
    status = "failed" /\ ~paused =>
        /\ branch = "absent"
        /\ pr = (IF url THEN "closed" ELSE "none")
        /\ url \/ unresolved = 0

\* A run ends pr_open only with a pull request of exactly its commit, and
\* while that one is open it carries the approved text on a base that had not
\* moved under the patch (_accept_existing_pull_request,
\* _created_pull_request_mismatches).
PublishedIsApproved ==
    status = "pr_open" => url /\ View \in {"exact", "merged", "closed"}

\* The run's head never gets a second pull request after its first one was
\* closed or merged.
NoSecondPullRequest == [][(pr \in {"closed", "merged"}) => pr' # "open"]_vars

\* The publication as its owner and GitHub see it.
Outcome == IF status = "pr_open" THEN "published"
           ELSE IF status = "failed" THEN "failed" ELSE "pending"

Pull == IF pr # "open" THEN pr ELSE IF prBase /\ prText THEN "approved" ELSE "wrong"

Promised == INSTANCE Promise WITH outcome <- Outcome, pull <- Pull

\* The workers, with their crashes, lost answers and retries, keep the promise:
\* one branch, one pull request, one end, and nothing after it; and a pull
\* request that is as approved is closed by nobody but the maintainers
\* (_create_pull_request, _reject_created_pull_request, abandon).
KeepsThePromise ==
    /\ Promised!Spec
    /\ [][View = "exact" /\ View' # "exact" =>
              Maintainer \/ (reason = "none" /\ branch' = "absent")]_vars

\* A run that is over stays over: no later step of any worker writes to its
\* branch, its pull request or its row.
OverIsOver ==
    [][(status \in {"failed", "pr_open"}) =>
          /\ UNCHANGED <<run, events>>
          /\ (Maintainer \/ UNCHANGED <<branch, pr>>)]_vars

Over == status \in {"failed", "pr_open"}

\* A cleanup that was started is finished, through crashes, failed calls,
\* retries by other workers and the safety stop: the run reaches failed, or
\* pr_open when its pull request was merged first (_resume_started_compensation).
\* It is stated for the cleanups whose evidence the store accepts.
CleanupFinishes ==
    (reason \in PrePr \/ (reason = "created_pr_base_moved" /\ pushes = 1)) ~> Over

\* The same sentence, for a branch that is to be deleted before any pull
\* request was made.
PrePrCleanupFinishes == (reason \in PrePr) ~> Over

=============================================================================
