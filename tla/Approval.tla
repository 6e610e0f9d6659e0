------------------------------ MODULE Approval ------------------------------
(***************************************************************************)
(* What a person approves is what goes out (approval.py, preparation.py,    *)
(* build_approval_review to approve_run and the authority checks of          *)
(* publication.py, approve, publish and cancel of cli.py).  A review is a     *)
(* fingerprint over the patch file, the recorded evidence, the publishing     *)
(* account, the Git identity and the repository the branch goes to.  All of   *)
(* these can change between the review, the answer, the publication and its   *)
(* resumption; every step reads them again.  A hash is the record it covers,  *)
(* so equal hashes are equal contents.  One process publishes at a time and   *)
(* may stop anywhere; that a paused one is fenced is module Publication's.    *)
(***************************************************************************)
EXTENDS Naturals, FiniteSets

CONSTANTS Sessions,    \* people at `approve`, or approve jobs
          Publishers,  \* processes at `publish`
          Logins, Versions,
          Life,        \* approval_expires_hours
          MaxTime, MaxEdits, MaxStops

ApprovalConstants ==
    /\ IsFiniteSet(Sessions) /\ IsFiniteSet(Publishers)
    /\ Logins # {} /\ Versions # {}
    /\ Life \in Nat \ {0}
    /\ {MaxTime, MaxEdits, MaxStops} \subseteq Nat

VARIABLES
    now, edits, stops,
    row,      \* the run in the database, with its version
    files,    \* contribution.patch and validation.json
    conf,     \* what the preparation seals of the configuration, and the identity
    token,    \* the account the GitHub token belongs to
    owned,    \* that account owns the upstream repository
    who,      \* the sessions
    worker,   \* the publishers
    agreed,   \* the surfaces a person was shown and answered yes to
    sent      \* what reached GitHub

vars == <<now, edits, stops, row, files, conf, token, owned, who, worker, agreed, sent>>
world == <<files, conf, token, owned>>
bounds == <<now, edits, stops>>

None == [none |-> TRUE]
Away == [pc |-> "idle", shown |-> None, copy |-> None]

Init ==
    /\ now = 0 /\ edits = 0 /\ stops = 0
    /\ conf \in [gates : Versions, identity : Versions]
    /\ files \in [patch : Versions, evidence : Versions]
    /\ row = [status |-> "ready", ver |-> 0, seal |-> files, gates |-> conf.gates,
              bound |-> None, approval |-> None, intent |-> MaxTime + 1, commit |-> None]
    /\ token \in Logins
    /\ owned \in BOOLEAN
    /\ who = [s \in Sessions |-> Away]
    /\ worker = [w \in Publishers |->
                   [pc |-> "idle", copy |-> None, patch |-> None, recovering |-> FALSE]]
    /\ agreed = {} /\ sent = {}

----------------------------------------------------------------------------
(* The fingerprint *)

\* _publication_context: the account, the identity and draft mode as
\* configured now.
Context == [login |-> token, identity |-> conf.identity]

\* _review_head_repository: the upstream only when the account owns it.
Head == IF owned THEN "upstream" ELSE "fork"

\* build_approval_manifest and manifest_fingerprint: every field goes in.
Surface(seal, bound, patch) ==
    [patch |-> patch, seal |-> seal, login |-> bound.login, identity |-> bound.identity,
     head |-> bound.head]

\* validate_preparation_fingerprint and validate_validation_artifact.
Sealed(r, f) == r.seal = f

\* _build_approval_review raises unless all of this holds.
Reviewable ==
    /\ row.status = "ready"
    /\ row.gates = conf.gates
    /\ Sealed(row, files)

Bound == [login |-> Context.login, identity |-> Context.identity, head |-> Head]
Review == Surface(row.seal, Bound, files.patch)

----------------------------------------------------------------------------
(* Approving *)

\* build_approval_review; the person reads it.
build_approval_review(s) ==
    /\ who[s].pc = "idle" /\ Reviewable
    /\ who' = [who EXCEPT ![s].pc = "shown", ![s].shown = Review]
    /\ UNCHANGED <<bounds, row, world, worker, agreed, sent>>

\* The person answers; a run already approved with this fingerprint is not
\* approved again.
Confirm(s) ==
    /\ who[s].pc = "shown"
    /\ agreed' = agreed \cup {who[s].shown}
    /\ who' = [who EXCEPT ![s].pc = "confirmed"]
    /\ UNCHANGED <<bounds, row, world, worker, sent>>

Decline(s) ==
    /\ who[s].pc \in {"shown", "confirmed", "write"}
    /\ who' = [who EXCEPT ![s] = Away]
    /\ UNCHANGED <<bounds, row, world, worker, agreed, sent>>

create_approval(surface) ==
    [hash |-> surface, actor |-> token, at |-> now, expires |-> now + Life]

\* Mutant: the review is built again and not compared.
approve_run_blind(s) ==
    /\ who[s].pc = "confirmed" /\ Reviewable
    /\ who' = [who EXCEPT ![s].pc = "write",
                 ![s].copy = [row EXCEPT !.bound = Bound, !.approval = create_approval(Review)]]
    /\ UNCHANGED <<bounds, row, world, worker, agreed, sent>>

\* The review is built again from what is there now; another fingerprint
\* raises ApprovalMismatchError.
approve_run(s) ==
    /\ who[s].pc = "confirmed" /\ Reviewable
    /\ who[s].shown = Review
    /\ who' = [who EXCEPT ![s].pc = "write",
                 ![s].copy = [row EXCEPT !.bound = Bound, !.approval = create_approval(Review)]]
    /\ UNCHANGED <<bounds, row, world, worker, agreed, sent>>

\* Every write names the version it read.
Current(copy) == copy.ver = row.ver

Written(copy, status) == [copy EXCEPT !.status = status, !.ver = @ + 1]

transition(s) ==
    /\ who[s].pc = "write" /\ Current(who[s].copy)
    /\ row' = Written(who[s].copy, "approved")
    /\ who' = [who EXCEPT ![s] = Away]
    /\ UNCHANGED <<bounds, world, worker, agreed, sent>>

\* cancel_run, and the retirement of runs whose approval ran out.
cancel_run ==
    /\ row.status \in {"ready", "approved"}
    /\ row' = Written(row, "cancelled")
    /\ UNCHANGED <<bounds, world, who, worker, agreed, sent>>

----------------------------------------------------------------------------
(* Publishing *)

\* publish reads the run.
Start(w) ==
    /\ worker[w].pc = "idle" /\ row.status \in {"approved", "submitting"}
    /\ worker' = [worker EXCEPT ![w] = [pc |-> "validate", copy |-> row, patch |-> None,
                                        recovering |-> row.status = "submitting"]]
    /\ UNCHANGED <<bounds, row, world, who, agreed, sent>>

validate_approval(r, patch, at) ==
    /\ r.approval.at <= at /\ at < r.approval.expires
    /\ r.approval.hash = Surface(r.seal, r.bound, patch)
    /\ r.approval.actor = r.bound.login

\* A first attempt: the account, identity and settings of now must be the bound
\* ones and the approval must be live.
Validated(r) ==
    /\ r.gates = conf.gates
    /\ Sealed(r, files)
    /\ Context = [login |-> r.bound.login, identity |-> r.bound.identity]
    /\ validate_approval(r, files.patch, now)

\* A resumed one: the durable context of the intent, under the account that
\* began it, and an approval that was live when the intent was recorded.
Recoverable(r) ==
    /\ token = r.bound.login
    /\ r.approval.at <= r.intent /\ r.intent < r.approval.expires
    /\ Sealed(r, files)
    /\ validate_approval(r, files.patch, r.intent)

Validate(w) ==
    /\ worker[w].pc = "validate"
    /\ LET r == worker[w].copy IN
       /\ IF worker[w].recovering THEN Recoverable(r) ELSE Validated(r)
       /\ worker' = [worker EXCEPT ![w].pc = IF worker[w].recovering THEN "commit" ELSE "gates",
                                   ![w].patch = [bytes |-> files.patch]]
    /\ UNCHANGED <<bounds, row, world, who, agreed, sent>>

\* _publication_gates: minutes of GitHub reads.  The head must still be able
\* to take the branch.
Gates(w) ==
    /\ worker[w].pc = "gates"
    /\ worker[w].copy.bound.head = "upstream" => owned
    /\ worker' = [worker EXCEPT ![w].pc = "begin"]
    /\ UNCHANGED <<bounds, row, world, who, agreed, sent>>

\* begin_publication: the row must be the one that was read.
begin_publication(w) ==
    /\ worker[w].pc = "begin" /\ Current(worker[w].copy)
    /\ row' = [Written(row, "submitting") EXCEPT !.intent = now]
    /\ worker' = [worker EXCEPT ![w].pc = "commit", ![w].copy = row']
    /\ UNCHANGED <<bounds, world, who, agreed, sent>>

\* _commit and _validate_exact_commit: the bytes that were validated, the bound
\* identity and the intent's time, so a rebuilt commit is the same one.
Commit(w) ==
    /\ worker[w].pc = "commit"
    /\ LET r == worker[w].copy
           made == [patch |-> worker[w].patch.bytes, identity |-> r.bound.identity, at |-> r.intent] IN
       /\ Current(r)
       /\ r.commit \in {None, made}
       /\ row' = [Written(row, "submitting") EXCEPT !.commit = made]
       /\ worker' = [worker EXCEPT ![w].pc = "push", ![w].copy = row']
    /\ UNCHANGED <<bounds, world, who, agreed, sent>>

\* The branch and the pull request.
Push(w) ==
    /\ worker[w].pc = "push"
    /\ LET r == worker[w].copy IN
       /\ r.bound.head = "upstream" => owned
       /\ sent' = sent \cup {[surface |-> Surface(r.seal, r.bound, r.commit.patch),
                              commit |-> r.commit, by |-> token]}
    /\ worker' = [worker EXCEPT ![w].pc = "open"]
    /\ UNCHANGED <<bounds, row, world, who, agreed>>

Opened(w) ==
    /\ worker[w].pc = "open" /\ Current(worker[w].copy)
    /\ row' = Written(row, "pr_open")
    /\ worker' = [worker EXCEPT ![w].pc = "idle"]
    /\ UNCHANGED <<bounds, world, who, agreed, sent>>

\* A check that fails, an error, or the process ends.
Stop(w) ==
    /\ worker[w].pc # "idle" /\ stops < MaxStops
    /\ stops' = stops + 1
    /\ worker' = [worker EXCEPT ![w].pc = "idle"]
    /\ UNCHANGED <<now, edits, row, world, who, agreed, sent>>

----------------------------------------------------------------------------
(* The world *)

\* Files rewritten, configuration edited, another account's token, the
\* repository changing hands (between jobs: a process keeps its token).
Edit ==
    /\ edits < MaxEdits
    /\ edits' = edits + 1
    /\ \/ /\ \E f \in [patch : Versions, evidence : Versions] : files' = f /\ f # files
          /\ UNCHANGED <<conf, token, owned>>
       \/ /\ \E c \in [gates : Versions, identity : Versions] : conf' = c /\ c # conf
          /\ UNCHANGED <<files, token, owned>>
       \/ /\ \A w \in Publishers : worker[w].pc = "idle"
          /\ \A s \in Sessions : who[s].pc \notin {"confirmed", "write"}
          /\ \E l \in Logins \ {token} : token' = l
          /\ UNCHANGED <<files, conf, owned>>
       \/ /\ owned' = ~owned
          /\ UNCHANGED <<files, conf, token>>
    /\ UNCHANGED <<now, stops, row, who, worker, agreed, sent>>

Tick ==
    /\ now < MaxTime
    /\ now' = now + 1
    /\ UNCHANGED <<edits, stops, row, world, who, worker, agreed, sent>>

Next ==
    \/ \E s \in Sessions : \/ build_approval_review(s) \/ Confirm(s) \/ Decline(s)
                           \/ approve_run(s) \/ transition(s)
    \/ cancel_run
    \/ \E w \in Publishers : \/ Start(w) \/ Validate(w) \/ Gates(w) \/ begin_publication(w)
                             \/ Commit(w) \/ Push(w) \/ Opened(w) \/ Stop(w)
    \/ Edit \/ Tick

Spec == Init /\ [][Next]_vars

----------------------------------------------------------------------------
(* Properties *)

\* What reaches GitHub is what a person was shown and confirmed: the patch
\* bytes in the commit, the identity on it, the account and the repository it
\* goes to, however files, settings and accounts changed in between, in a
\* first attempt and in a resumed one (approve_run, publish).
PublishedWasReviewed ==
    \A p \in sent : /\ p.surface \in agreed
                    /\ p.commit.identity = p.surface.identity
                    /\ p.by = p.surface.login

\* A publication makes one commit: a resumed attempt rebuilds the one that was
\* recorded (the commit date is the intent's, _rebuild_committed_workspace).
OneCommit == \A p, q \in sent : p.commit = q.commit

=============================================================================
