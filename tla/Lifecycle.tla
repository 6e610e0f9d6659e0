------------------------------- MODULE Lifecycle -------------------------------
(***************************************************************************)
(* Lifecycle sync (lifecycle.py): workers read the pull requests that runs *)
(* opened, record what they find as stops (module SafetyStop) and note it  *)
(* on the run's row; and publishers that those holds turn away.  Each      *)
(* repository has one pull request, so a repository names both.            *)
(*                                                                         *)
(* A worker's step is one read of GitHub, or one transaction.  Everything  *)
(* on GitHub may change between two of them.                               *)
(***************************************************************************)
EXTENDS SafetyStop

CONSTANTS
    Workers,
    NoWorker,       \* the publication lease is free
    Unreadable,     \* pull requests GitHub cannot serve
    MaxActivity,    \* bound: changes of one pull request, pushes included
    MaxEvents       \* bound: changes of all, publications and days together

VARIABLES
    \* GitHub
    pr,         \* state, number of changes, the change that closed it, merge day, evidence
    pushes,     \* updates of its branch, oldest first; commit 0 is the prepared one
    ended,      \* history: the stops on it when it was first closed or merged
    \* the store
    row,        \* a run's row: pull_request_state, merged_at, pull_request_attention
    lease,
    \* workers
    pc,
    fresh,      \* the manifest in memory is the stored one
    todo,       \* pull requests still to observe, and still to watch
    at,         \* the one being read
    first,      \* its first top-level read
    found,      \* its signals
    left,       \* stops still to record
    posted,     \* number of pull requests opened since
    events,     \* number of changes, publications and days
    mishap      \* what went wrong: "none", "abort" or "pause"

github == <<pr, pushes, ended>>
worker == <<pc, fresh, todo, at, first, found, left>>
syncVars == <<vars, github, row, lease, worker, posted, events, mishap>>

ASSUME LifecycleConstants ==
    /\ NoWorker \notin Workers
    /\ Unreadable \subseteq Repositories
    /\ {MaxActivity, MaxEvents} \subseteq Nat

Happens == events < MaxEvents /\ events' = events + 1

NothingRead == [state |-> "open", changes |-> 0, closing |-> 0, mergedOn |-> 0, on |-> {}]

SyncInit ==
    /\ Init
    /\ pr = [p \in Repositories |-> NothingRead]
    /\ pushes = [p \in Repositories |-> <<>>]
    /\ ended = [p \in Repositories |-> {}]
    /\ row = [p \in Repositories |-> [state |-> "open", mergedOn |-> 0, attention |-> {}]]
    /\ lease = NoWorker
    /\ pc = [w \in Workers |-> "idle"]
    /\ fresh = [w \in Workers |-> {}]
    /\ todo = [w \in Workers |-> [open |-> {}, merged |-> {}]]
    /\ at = [w \in Workers |-> NoRepository]
    /\ first = [w \in Workers |-> NothingRead]
    /\ found = [w \in Workers |-> {}]
    /\ left = [w \in Workers |-> {}]
    /\ posted = 0
    /\ events = 0
    /\ mishap = "none"

------------------------------------------------------------------------------
(* What the evidence on a pull request means. *)

HeadOf(p) == IF pushes[p] = <<>> THEN 0 ELSE pushes[p][Len(pushes[p])].after

\* The last push that led to commit c: GitHub lists the newest first.
PushTo(p, c) ==
    LET I == {i \in DOMAIN pushes[p] : pushes[p][i].after = c}
    IN  IF I = {} THEN 0 ELSE CHOOSE i \in I : \A j \in I : j <= i

\* Not a commit: the walk has met a push that was forced, or this account's.
NotTheirs == MaxActivity + 1

\* Mutant: a forced push counts like any other.
Back_forced(p, c) ==
    LET i == PushTo(p, c) IN
    IF c \in {0, NotTheirs} THEN c
    ELSE IF i = 0 \/ pushes[p][i].own THEN NotTheirs
    ELSE pushes[p][i].before

\* From commit c back to what the last push to it found there.
Back(p, c) ==
    LET i == PushTo(p, c) IN
    IF c \in {0, NotTheirs} THEN c
    ELSE IF i = 0 \/ ~pushes[p][i].plain \/ pushes[p][i].own THEN NotTheirs
    ELSE pushes[p][i].before

\* _pushed_by_others: plain pushes by other accounts lead from the prepared
\* commit to the head.
_pushed_by_others(p) ==
    LET walk[n \in 0 .. Len(pushes[p])] ==
            IF n = 0 THEN HeadOf(p) ELSE Back(p, walk[n - 1])
    IN  walk[Len(pushes[p])] = 0

\* classify_lifecycle: the evidence on the pull request, what its head says
\* (GitHub's push record may be missing) and what its state says.
classify_lifecycle(p, read, recorded) ==
    read.on
    \cup (IF HeadOf(p) = 0 THEN {}
          ELSE IF recorded /\ _pushed_by_others(p)
               THEN {[kind |-> "maintainer_push", version |-> HeadOf(p)]}
               ELSE {[kind |-> "head_drift", version |-> HeadOf(p)]})
    \cup (IF read.state = "closed"
          THEN {[kind |-> "closed_unmerged", version |-> read.closing]} ELSE {})

\* _ATTENTION_KINDS
Attention(S) == {s \in S : s.kind \in {"changes_requested", "ci_failed", "maintainer_push"}}

\* LifecycleSignal.stops: each signal's stops, the narrower one first.
Scopes ==
    [automation_stop |-> <<"automation_stop">>, closed_unmerged |-> <<"closed_unmerged">>,
     head_drift |-> <<"head_drift">>,
     maintainer_stop |-> <<"maintainer_stop_here", "maintainer_stop">>,
     reverted |-> <<"reverted", "reverted_everywhere">>,
     changes_requested |-> <<>>, ci_failed |-> <<>>, maintainer_push |-> <<>>]

Triggers(p, S) ==
    UNION {{[kind |-> Scopes[s.kind][i], repo |-> p, version |-> s.version] :
               i \in DOMAIN Scopes[s.kind]} : s \in S}

\* _ordered: the kinds' order, and the narrower scope before the wider.
RecordingOrder ==
    <<"automation_stop", "closed_unmerged", "head_drift", "maintainer_stop_here",
      "maintainer_stop", "reverted", "reverted_everywhere">>

Rank(t) == CHOOSE i \in DOMAIN RecordingOrder : RecordingOrder[i] = t.kind

NextToRecord(t, T) ==
    t \in T /\ \A u \in T : Rank(t) < Rank(u) \/ (Rank(t) = Rank(u) /\ t.version <= u.version)

------------------------------------------------------------------------------
(* Sync. *)

Quit(w) ==
    /\ pc' = [pc EXCEPT ![w] = "idle"]
    /\ lease' = IF lease = w THEN NoWorker ELSE lease

\* The lease is asserted before the next step.
Go(w, next) ==
    IF lease = w THEN pc' = [pc EXCEPT ![w] = next] /\ UNCHANGED lease ELSE Quit(w)

\* sync_open_pull_requests lists its targets: the open ones, and those merged
\* in the last 30 days.
StartSync(w) ==
    /\ pc[w] = "idle"
    /\ lease = NoWorker
    /\ lease' = w
    /\ pc' = [pc EXCEPT ![w] = "next"]
    /\ fresh' = [fresh EXCEPT ![w] = Repositories]
    /\ todo' = [todo EXCEPT ![w] =
                  [open |-> {p \in Repositories : row[p].state = "open"},
                   merged |-> {p \in Repositories :
                                 row[p].state = "merged" /\ row[p].mergedOn + Window >= now}]]
    /\ UNCHANGED <<vars, github, row, at, first, found, left, posted, events, mishap>>

\* The open ones come first; a pull request's first read.
ReadPullRequest(w) ==
    /\ pc[w] = "next"
    /\ LET T == IF todo[w].open # {} THEN todo[w].open ELSE todo[w].merged IN
       \E p \in T :
          /\ at' = [at EXCEPT ![w] = p]
          /\ first' = [first EXCEPT ![w] = pr[p]]
          /\ Go(w, IF p \in Unreadable THEN "failed" ELSE "lists")
    /\ UNCHANGED <<vars, github, row, fresh, todo, found, left, posted, events, mishap>>

EndSync(w) ==
    /\ pc[w] = "next"
    /\ todo[w].open = {} /\ todo[w].merged = {}
    /\ Quit(w)
    /\ UNCHANGED <<vars, github, row, fresh, todo, at, first, found, left, posted, events, mishap>>

Watching(w) == at[w] \notin todo[w].open

\* observe reads reviews, comments, checks, references and pushes;
\* watch_for_revert only the references.
ReadLists(w) ==
    /\ pc[w] = "lists"
    /\ \E recorded \in BOOLEAN :
          found' = [found EXCEPT ![w] =
                      IF Watching(w) THEN {s \in pr[at[w]].on : s.kind = "reverted"}
                      ELSE {s \in classify_lifecycle(at[w], [first[w] EXCEPT !.on = pr[at[w]].on],
                                                     recorded) :
                               s.kind = "reverted" => first[w].state = "merged"}]
    /\ Go(w, "confirm")
    /\ UNCHANGED <<vars, github, row, fresh, todo, at, first, left, posted, events, mishap>>

\* The second top-level read: nothing changed in between, or the observation failed.
Confirm(w) ==
    /\ pc[w] = "confirm"
    /\ IF pr[at[w]].changes = first[w].changes
       THEN /\ left' = [left EXCEPT ![w] = Triggers(at[w], found[w])]
            /\ Go(w, "record")
       ELSE Go(w, "failed") /\ UNCHANGED left
    /\ UNCHANGED <<vars, github, row, fresh, todo, at, first, found, posted, events, mishap>>

\* _record_stops: one after the other, each in its own transaction.
_record_stops(w) ==
    /\ pc[w] = "record"
    /\ \E t \in left[w] :
          /\ NextToRecord(t, left[w])
          /\ record_stop(t)
          /\ left' = [left EXCEPT ![w] = @ \ {t}]
    /\ Go(w, "record")
    /\ UNCHANGED <<streak, started, shown, now, stops, runs, reports, seen, inARow, github, row,
                   fresh, todo, at, first, found, posted, events, mishap>>

\* Mutant: the run is saved while stops are left to record.
AllRecorded_early(w) == pc[w] = "record"

AllRecorded(w) == pc[w] = "record" /\ left[w] = {}

Done(w) ==
    todo' = [todo EXCEPT ![w] = [open |-> @.open \ {at[w]}, merged |-> @.merged \ {at[w]}]]

\* Mutant: an old copy of the manifest overwrites the row.
Save_blind(w, p, new) ==
    /\ row' = [row EXCEPT ![p] = new]
    /\ Go(w, "next")
    /\ Done(w)
    /\ UNCHANGED fresh

\* store.save, unless nothing is new: refused, and the sync ends, when the copy is old.
Save(w, p, new) ==
    IF p \in fresh[w] /\ new # row[p]
    THEN /\ row' = [row EXCEPT ![p] = new]
         /\ fresh' = [x \in Workers |-> IF x = w THEN fresh[x] ELSE fresh[x] \ {p}]
         /\ Go(w, "next")
         /\ Done(w)
    ELSE /\ UNCHANGED <<row, fresh>>
         /\ \/ Go(w, "next") /\ Done(w)
            \/ p \notin fresh[w] /\ Quit(w) /\ UNCHANGED todo

\* _record_on_run after an observation; a watched merge saves nothing.
_record_on_run(w) ==
    /\ AllRecorded(w)
    /\ IF Watching(w) THEN Go(w, "next") /\ Done(w) /\ UNCHANGED <<row, fresh>>
       ELSE Save(w, at[w], [state |-> first[w].state, mergedOn |-> first[w].mergedOn,
                            attention |-> row[at[w]].attention \cup Attention(found[w])])
    /\ UNCHANGED <<vars, github, at, first, found, left, posted, events, mishap>>

\* A failed observation is noted, and the others go on.
ObservationFailed(w) ==
    /\ pc[w] = "failed"
    /\ Save(w, at[w], [row[at[w]] EXCEPT !.attention =
                          @ \cup {[kind |-> "observation_failed", version |-> 0]}])
    /\ UNCHANGED <<vars, github, at, first, found, left, posted, events, mishap>>

\* A rate limit, GitHub's block, or the death of the process: at most once, and
\* not in a behaviour in which a worker is paused past its lease.
Abort(w) ==
    /\ pc[w] # "idle"
    /\ mishap = "none" /\ mishap' = "abort"
    /\ \/ Quit(w)
       \/ pc' = [pc EXCEPT ![w] = "idle"] /\ UNCHANGED lease
    /\ UNCHANGED <<vars, github, row, fresh, todo, at, first, found, left, posted, events>>

\* The lease of a dead or paused worker expires.
Lapse ==
    /\ lease # NoWorker
    /\ IF pc[lease] = "idle" THEN UNCHANGED mishap
       ELSE mishap \in {"none", "pause"} /\ mishap' = "pause"
    /\ lease' = NoWorker
    /\ UNCHANGED <<vars, github, row, worker, posted, events>>

------------------------------------------------------------------------------
(* A publication of another run, under the same lease (module Publication). *)

\* Mutant: the holds are not looked at again under the lease.
StartPublish_unheld(w, p) ==
    /\ pc[w] = "idle" /\ lease = NoWorker
    /\ Happens
    /\ lease' = w
    /\ pc' = [pc EXCEPT ![w] = "post"]
    /\ at' = [at EXCEPT ![w] = p]
    /\ UNCHANGED <<vars, github, row, fresh, todo, first, found, left, posted, mishap>>

\* _check_freshness: neither stopped nor held.
StartPublish(w, p) ==
    /\ pc[w] = "idle" /\ lease = NoWorker
    /\ Happens
    /\ ~tripped /\ ~PublicationHeld(p)
    /\ lease' = w
    /\ pc' = [pc EXCEPT ![w] = "post"]
    /\ at' = [at EXCEPT ![w] = p]
    /\ UNCHANGED <<vars, github, row, fresh, todo, first, found, left, posted, mishap>>

Post(w) ==
    /\ pc[w] = "post"
    /\ IF lease = w /\ ~tripped THEN posted' = posted + 1 ELSE UNCHANGED posted
    /\ Quit(w)
    /\ UNCHANGED <<vars, github, row, fresh, todo, at, first, found, left, events, mishap>>

------------------------------------------------------------------------------
(* The world. *)

\* The stops that what is on a pull request, and its end, ask for.
Stops(p, state, closing, on) ==
    Triggers(p, {s \in on : s.kind # "reverted"}
                \cup (IF state = "closed"
                      THEN {[kind |-> "closed_unmerged", version |-> closing]} ELSE {}))

Change(p, state, on) ==
    /\ Happens /\ pr[p].changes < MaxActivity
    /\ LET n == pr[p].changes + 1
           turned == state # pr[p].state
       IN  /\ pr' = [pr EXCEPT ![p] =
                       [state |-> state, changes |-> n, on |-> on,
                        closing |-> IF turned /\ state = "closed" THEN n ELSE @.closing,
                        mergedOn |-> IF turned /\ state = "merged" THEN now ELSE @.mergedOn]]
           /\ ended' = [ended EXCEPT ![p] =
                          IF ~turned \/ pr[p].closing # 0 THEN @ ELSE Stops(p, state, n, on)]
    /\ UNCHANGED <<vars, pushes, row, lease, worker, posted, mishap>>

\* A review or comment is written or edited: a new version of the evidence.
Write(p) ==
    \E k \in {"automation_stop", "maintainer_stop", "changes_requested"} :
        Change(p, pr[p].state, {s \in pr[p].on : s.kind # k}
                               \cup {[kind |-> k, version |-> pr[p].changes + 1]})

Close(p) == pr[p].state = "open" /\ Change(p, "closed", pr[p].on)

Reopen(p) == pr[p].state = "closed" /\ Change(p, "open", pr[p].on)

Merge(p) == pr[p].state = "open" /\ Change(p, "merged", pr[p].on)

\* A merged pull request is reverted by another one.
Revert(p) ==
    /\ pr[p].state = "merged"
    /\ \A s \in pr[p].on : s.kind # "reverted"
    /\ Change(p, "merged", pr[p].on \cup {[kind |-> "reverted", version |-> 1]})

\* A check fails: GitHub does not count that as a change of the pull request.
CheckFails(p) ==
    /\ \A s \in pr[p].on : s.kind # "ci_failed"
    /\ Happens /\ pr[p].changes < MaxActivity
    /\ pr' = [pr EXCEPT ![p].on = @ \cup {[kind |-> "ci_failed", version |-> 1]}]
    /\ UNCHANGED <<vars, pushes, ended, row, lease, worker, posted, mishap>>

\* Someone pushes to the branch, with this tool's account or another.
Push(p) ==
    /\ Happens /\ pr[p].changes < MaxActivity
    /\ \E c \in 0 .. MaxActivity, plain \in BOOLEAN, own \in BOOLEAN :
          /\ c # HeadOf(p)
          /\ plain => c > HeadOf(p)
          /\ pushes' = [pushes EXCEPT ![p] =
                          Append(@, [before |-> HeadOf(p), after |-> c, plain |-> plain,
                                     own |-> own])]
    /\ pr' = [pr EXCEPT ![p].changes = @ + 1]
    /\ UNCHANGED <<vars, ended, row, lease, worker, posted, mishap>>

\* Operators and the calendar, as in SafetyStop.
Outside ==
    /\ \/ /\ \/ \E h \in holds : release_hold(h)
             \/ \E o \in Operators : circuit_breaker_status(o) \/ resume_circuit_breaker(o)
          /\ UNCHANGED events
       \/ Happens /\ NextDay
    /\ UNCHANGED <<github, row, lease, worker, posted, mishap>>

Step(w) ==
    \/ ReadPullRequest(w) \/ EndSync(w) \/ ReadLists(w) \/ Confirm(w) \/ _record_stops(w)
    \/ _record_on_run(w) \/ ObservationFailed(w) \/ Post(w)

SyncNext ==
    \/ \E w \in Workers : StartSync(w) \/ Step(w) \/ Abort(w)
                          \/ \E p \in Repositories : StartPublish(w, p)
    \/ \E p \in Repositories : Write(p) \/ Close(p) \/ Reopen(p) \/ Merge(p) \/ Revert(p)
                               \/ CheckFails(p) \/ Push(p)
    \/ Lapse \/ Outside

SyncSpec == SyncInit /\ [][SyncNext]_syncVars

------------------------------------------------------------------------------
(* Properties. *)

\* Once the row says that a pull request is closed or merged, sync reads it no
\* more (a merged one only for reverts), so by then every stop it carried when
\* it ended is recorded, or a later edit of it is: whatever was written while it was read, and wherever
\* a sync died (observe, _record_stops, _record_on_run).
NothingEndsUnrecorded ==
    \A p \in Repositories :
        row[p].state # "open" =>
            \A t \in ended[p] :
                \/ t.kind = "closed_unmerged" /\ row[p].state = "merged"
                \/ \E h \in holds : /\ h.trigger.kind = t.kind /\ h.trigger.repo = p
                                    /\ h.trigger.version >= t.version

\* An observation that comes late never undoes a newer one: what the row says
\* about an ended pull request stays (store.save, _record_on_run).
EndedStaysEnded ==
    [][\A p \in Repositories :
          row[p].state # "open" => row'[p].state = row[p].state
                                   /\ row'[p].mergedOn = row[p].mergedOn]_syncVars

\* A publication does not overtake a hold of lifecycle sync: no pull request
\* is opened in a repository, or anywhere, that sync has put on hold by then,
\* as long as no sync goes on past its lease (assert_publication_not_held, the
\* publication lease).
HoldsComeFirst ==
    [][posted' > posted /\ mishap # "pause" => \A w \in Workers : pc[w] = "post" => ~PublicationHeld(at[w])]_syncVars

\* Commits since the branch was last at the prepared commit are put down to
\* maintainers only if this tool's account made none of the pushes and none was
\* forced (_pushed_by_others).
MaintainerPushIsTheirs ==
    \A p \in Repositories :
        HeadOf(p) # 0 /\ _pushed_by_others(p) =>
            LET I == DOMAIN pushes[p]
                since == {i \in I : \A j \in I : j >= i => pushes[p][j].after # 0}
            IN  \A i \in since : pushes[p][i].plain /\ ~pushes[p][i].own
===============================================================================
