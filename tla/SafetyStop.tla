------------------------------ MODULE SafetyStop ------------------------------
(***************************************************************************)
(* The safety stop and the holds of the run store (store.py), what raises  *)
(* them, and the operators who review and lift them (cli.py, safety).      *)
(*                                                                         *)
(* A step is one transaction.  A trigger stands for its hash: the hash is  *)
(* taken over the trigger's kind, its repository and a version of the      *)
(* evidence, so edited evidence is another trigger.  Time is in days.      *)
(***************************************************************************)
EXTENDS Naturals, Sequences, FiniteSets

CONSTANTS
    Repositories,
    NoRepository,   \* triggers that are about no repository
    Evidence,       \* what lifecycle sync, discovery and the checks may come across
    Operators,
    Window,         \* _ESCALATION_WINDOW, and REPOSITORY_COOLDOWN
    MaxTime,        \* bound: days
    MaxStops,       \* bound: uses of safety stop
    MaxRuns,        \* bound: invocations of run
    MaxReports      \* bound: content blocks reported by GitHub

\* What stops work, by scope.  A signal with stops at two scopes makes two triggers.
GlobalKinds == {"head_drift", "operator", "escalation", "rate_limits"}
RepositoryKinds == {"automation_stop", "issue_comment", "closed_unmerged", "maintainer_stop",
                    "reverted"}
PullRequestKinds == {"maintainer_stop_here"}
PublicationKinds == {"content_blocked", "reverted_everywhere"}
Kinds == GlobalKinds \cup RepositoryKinds \cup PullRequestKinds \cup PublicationKinds
Trigger == [kind : Kinds, repo : Repositories \cup {NoRepository}, version : Nat]

ASSUME SafetyStopConstants ==
    /\ IsFiniteSet(Repositories) /\ NoRepository \notin Repositories
    /\ \A t \in Evidence :
          /\ t \in Trigger
          /\ t.kind \in Kinds \ {"operator", "escalation", "rate_limits", "content_blocked"}
          /\ t.repo # NoRepository
    /\ {Window, MaxTime, MaxStops, MaxRuns, MaxReports} \subseteq Nat

VARIABLES
    \* table circuit_breaker
    tripped, epoch,
    latest,     \* the row's trigger: a sequence of at most one
    \* table circuit_breaker_events
    trips,      \* the trip events in the order of their ids
    resumes,    \* the resume events
    \* table holds
    holds,
    \* table secondary_rate_limit_streak
    streak, started,
    \* operators, and the world
    shown,      \* the trigger-set revision safety status showed
    now, stops, runs, reports,
    \* history
    seen,       \* triggers some operator was shown
    inARow      \* runs in a row that ended on a secondary rate limit

breaker == <<tripped, epoch, latest, trips, resumes>>
limits == <<streak, started>>
world == <<now, stops, runs, reports>>
vars == <<breaker, holds, limits, shown, world, seen, inARow>>

Init ==
    /\ tripped = FALSE
    /\ epoch = 1
    /\ latest = <<>>
    /\ trips = <<>>
    /\ resumes = <<>>
    /\ holds = {}
    /\ streak = 0
    /\ started = 0
    /\ shown = [o \in Operators |-> <<>>]
    /\ now = 0
    /\ stops = 0
    /\ runs = 0
    /\ reports = 0
    /\ seen = {}
    /\ inARow = 0

------------------------------------------------------------------------------
(* The stop. *)

Tripped(t) == \E i \in DOMAIN trips : trips[i].trigger = t

\* _trip_circuit_breaker: a trigger counts once, whatever epoch it was recorded in.
_trip_circuit_breaker(t) ==
    IF Tripped(t)
    THEN UNCHANGED breaker
    ELSE /\ trips' = Append(trips, [epoch |-> epoch, trigger |-> t])
         /\ tripped' = TRUE
         /\ latest' = <<t>>
         /\ UNCHANGED <<epoch, resumes>>

\* _active_circuit_breaker_triggers, by the ids of their events.
Active == {i \in DOMAIN trips : trips[i].epoch = epoch}

\* The revision is over the triggers in the order of their ids; a trigger has one
\* event, so the ids tell no more than their order.
Revision == [i \in Active |-> trips[i].trigger]

\* Mutant: what the operator was shown is not compared.
resume_circuit_breaker_unchecked(o) ==
    /\ shown[o] # <<>>
    /\ tripped
    /\ resumes' = Append(resumes, [epoch |-> epoch, revision |-> shown[o]])
    /\ tripped' = FALSE
    /\ latest' = <<>>
    /\ epoch' = epoch + 1
    /\ UNCHANGED <<trips, holds, limits, shown, world, seen, inARow>>

\* Mutant: the epoch stays.
resume_circuit_breaker_same_epoch(o) ==
    /\ shown[o] # <<>>
    /\ tripped /\ Revision = shown[o]
    /\ resumes' = Append(resumes, [epoch |-> epoch, revision |-> shown[o]])
    /\ tripped' = FALSE
    /\ latest' = <<>>
    /\ UNCHANGED <<epoch, trips, holds, limits, shown, world, seen, inARow>>

\* resume_circuit_breaker: only what was reviewed is resumed.
resume_circuit_breaker(o) ==
    /\ shown[o] # <<>>
    /\ tripped /\ Revision = shown[o]
    /\ resumes' = Append(resumes, [epoch |-> epoch, revision |-> shown[o]])
    /\ tripped' = FALSE
    /\ latest' = <<>>
    /\ epoch' = epoch + 1
    /\ UNCHANGED <<trips, holds, limits, shown, world, seen, inARow>>

\* safety status
circuit_breaker_status(o) ==
    /\ tripped
    /\ shown' = [shown EXCEPT ![o] = Revision]
    /\ seen' = seen \cup {trips[i].trigger : i \in Active}
    /\ UNCHANGED <<breaker, holds, limits, world, inARow>>

\* safety stop: a nonce makes every use a trigger of its own.
safety_stop ==
    /\ stops < MaxStops
    /\ stops' = stops + 1
    /\ _trip_circuit_breaker([kind |-> "operator", repo |-> NoRepository, version |-> stops'])
    /\ UNCHANGED <<holds, limits, shown, now, runs, reports, seen, inARow>>

------------------------------------------------------------------------------
(* Holds. *)

Recorded(t) == \E h \in holds : h.trigger = t

\* LifecycleSignal.stops and discovery's _automation_stop_hold: a hold's lifetime.
Expires(t) ==
    IF t.kind \in {"closed_unmerged", "maintainer_stop"} THEN now + Window ELSE MaxTime + 1

\* Only a pull request's own maintainers count.
Counts(t) == t.kind = "automation_stop"

Hold(t) == [trigger |-> t, created |-> now, expires |-> Expires(t), released |-> FALSE]

\* The repositories that turned automated work away lately.
Against(H) ==
    {h.trigger.repo : h \in {g \in H : Counts(g.trigger) /\ ~g.released
                                       /\ g.created + Window >= now}}

\* Mutant: the repository just held is looked for among the earlier ones only.
Escalates_before(t) == Counts(t) /\ Cardinality(Against(holds)) >= 2

Escalates(t) == Counts(t) /\ Cardinality(Against(holds \cup {Hold(t)})) >= 2

\* record_stop: at its scope, once; two repositories within the window stop everything.
record_stop(t) ==
    IF t.kind \in GlobalKinds
    THEN _trip_circuit_breaker(t) /\ UNCHANGED holds
    ELSE IF Recorded(t)
    THEN UNCHANGED <<breaker, holds>>
    ELSE /\ holds' = holds \cup {Hold(t)}
         /\ IF Escalates(t)
            THEN _trip_circuit_breaker([t EXCEPT !.kind = "escalation"])
            ELSE UNCHANGED breaker

\* Lifecycle sync, discovery or a check comes across evidence, for the first
\* time or again.
Observe(t) ==
    /\ record_stop(t)
    /\ UNCHANGED <<limits, shown, world, seen, inARow>>

\* _raise_safety_stop: GitHub blocks the account; the UTC day names the incident.
ContentBlocked ==
    /\ reports < MaxReports
    /\ reports' = reports + 1
    /\ record_stop([kind |-> "content_blocked", repo |-> NoRepository, version |-> now])
    /\ UNCHANGED <<limits, shown, now, stops, runs, seen, inARow>>

\* safety release
release_hold(h) ==
    /\ ~h.released
    /\ holds' = (holds \ {h}) \cup {[h EXCEPT !.released = TRUE]}
    /\ UNCHANGED <<breaker, limits, shown, world, seen, inARow>>

\* active_holds
active_holds == {h \in holds : ~h.released /\ h.expires > now}

\* assert_publication_not_held, for a pull request that does not exist yet
PublicationHeld(r) ==
    \E h \in active_holds :
        \/ h.trigger.kind \in PublicationKinds
        \/ h.trigger.kind \in RepositoryKinds /\ h.trigger.repo = r

------------------------------------------------------------------------------
(* Runs that end on a GitHub secondary rate limit. *)

\* Mutant: the time the streak started is kept when it ends.
record_run_rate_limits_start_kept(limited) ==
    /\ runs < MaxRuns
    /\ runs' = runs + 1
    /\ inARow' = IF limited THEN inARow + 1 ELSE 0
    /\ started' = IF started = 0 THEN runs' ELSE started
    /\ IF limited /\ streak + 1 < 3
       THEN streak' = streak + 1 /\ UNCHANGED breaker
       ELSE /\ streak' = 0
            /\ IF limited
               THEN _trip_circuit_breaker([kind |-> "rate_limits", repo |-> NoRepository,
                                           version |-> started'])
               ELSE UNCHANGED breaker
    /\ UNCHANGED <<holds, shown, now, stops, reports, seen>>

\* record_run_rate_limits: three in a row stop everything and start a new streak.
record_run_rate_limits(limited) ==
    /\ runs < MaxRuns
    /\ runs' = runs + 1
    /\ inARow' = IF limited THEN inARow + 1 ELSE 0
    /\ LET first == IF started = 0 THEN runs' ELSE started IN
       IF limited /\ streak + 1 < 3
       THEN /\ streak' = streak + 1
            /\ started' = first
            /\ UNCHANGED breaker
       ELSE /\ streak' = 0
            /\ started' = 0
            /\ IF limited
               THEN _trip_circuit_breaker([kind |-> "rate_limits", repo |-> NoRepository,
                                           version |-> first])
               ELSE UNCHANGED breaker
    /\ UNCHANGED <<holds, shown, now, stops, reports, seen>>

NextDay ==
    /\ now < MaxTime
    /\ now' = now + 1
    /\ UNCHANGED <<breaker, holds, limits, shown, stops, runs, reports, seen, inARow>>

Next ==
    \/ \E t \in Evidence : Observe(t)
    \/ \E o \in Operators : circuit_breaker_status(o) \/ resume_circuit_breaker(o)
    \/ \E h \in holds : release_hold(h)
    \/ safety_stop \/ ContentBlocked \/ NextDay
    \/ \E limited \in BOOLEAN : record_run_rate_limits(limited)

Spec == Init /\ [][Next]_vars

------------------------------------------------------------------------------
(* Properties. *)

\* The stop is lifted only by someone who was shown all of it: a trigger that
\* comes in between safety status and safety resume, or between two operators'
\* reviews, is never resumed unseen (resume_circuit_breaker).
ReviewedBeforeResume ==
    \A i \in DOMAIN trips : trips[i].epoch < epoch => trips[i].trigger \in seen

\* What opening the store verifies: the stop is on exactly while this epoch
\* has a trigger, and the row names the last one.
_verify_circuit_breaker_evidence ==
    /\ tripped <=> Active # {}
    /\ tripped => \E i \in Active : latest = <<trips[i].trigger>> /\ \A j \in Active : j <= i

\* The row agrees with the events, so that the store can be opened again,
\* whatever operators, observations and runs did to it: it passes
\* _verify_circuit_breaker_evidence, and a lifted stop names no trigger.
RowMatchesEvents == _verify_circuit_breaker_evidence /\ (~tripped => latest = <<>>)

\* Two repositories that turned automated work away within 30 days of each
\* other stop everything, in whatever order holds were released and evidence
\* came again: while neither hold is released, the later one has its escalation
\* (record_stop).
TwoRepositoriesStop ==
    \A g, h \in holds :
        /\ Counts(g.trigger) /\ Counts(h.trigger) /\ g.trigger.repo # h.trigger.repo
        /\ ~g.released /\ ~h.released
        /\ g.created <= h.created /\ h.created <= g.created + Window
        => Tripped([h.trigger EXCEPT !.kind = "escalation"])
           \/ (g.created = h.created /\ Tripped([g.trigger EXCEPT !.kind = "escalation"]))

\* Only holds nobody released count: an escalation comes with another
\* repository's hold that stands (record_stop; "counting only holds you have
\* not released", docs/how-it-works.md).
EscalationStands ==
    [][Len(trips') > Len(trips) /\ trips'[Len(trips')].trigger.kind = "escalation"
       => \E g \in holds' : /\ Counts(g.trigger) /\ ~g.released
                            /\ g.trigger.repo # trips'[Len(trips')].trigger.repo]_vars

\* Each third run in a row that ends on a secondary rate limit turns the stop
\* on, also after operators resumed in between (record_run_rate_limits).
EveryThirdLimitStops ==
    [][inARow' > inARow /\ inARow' % 3 = 0 => tripped']_vars

\* What an operator resumed or released does not fire again (record_stop,
\* _trip_circuit_breaker): a trigger is in one epoch only, and a hold never
\* comes back.
ResumedStaysQuiet ==
    /\ \A i, j \in DOMAIN trips : trips[i].trigger = trips[j].trigger => i = j
    /\ \A g, h \in holds : g.trigger = h.trigger => g = h

\* The stop comes on with its evidence: an escalation with another repository's
\* hold that stands, and each third limit in a row (record_stop,
\* record_run_rate_limits).
StopsOnItsEvidence == EscalationStands /\ EveryThirdLimitStops

\* The evidence is kept as it happened: the row agrees with the events, and what
\* was resumed or released is there once (_trip_circuit_breaker,
\* _verify_circuit_breaker_evidence).
EvidenceIsKept == RowMatchesEvents /\ ResumedStaysQuiet
===============================================================================
