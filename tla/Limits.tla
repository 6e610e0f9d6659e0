------------------------------- MODULE Limits -------------------------------
(***************************************************************************)
(* The publication limits: what the account's pull requests on GitHub        *)
(* allow (_check_account_limits, authored_pull_requests) and the             *)
(* reservations the store keeps (reserve_publication, begin_publication,      *)
(* _reconcile_publication_state).  The first is read before the intent, from  *)
(* outside; the second is decided with it, in one transaction, and is all     *)
(* that holds when GitHub answers late, a worker outlives its lease or the    *)
(* clock is set back.  A run that has its reservation resumes without asking  *)
(* again.                                                                     *)
(***************************************************************************)
EXTENDS Naturals, FiniteSets

CONSTANTS Runs, Repositories, Workers, RepositoryOf,
          MaxPerDay,     \* max_new_pull_requests_per_day
          MaxOpen,       \* max_open_pull_requests
          Cooldown,      \* repository_cooldown_days
          Day,           \* the length of a UTC day
          MaxTime, MaxFaults

LimitsConstants ==
    /\ IsFiniteSet(Runs) /\ RepositoryOf \in [Runs -> Repositories]
    /\ {MaxPerDay, MaxOpen, Day} \subseteq Nat \ {0}
    /\ {Cooldown, MaxTime, MaxFaults} \subseteq Nat

VARIABLES now, faults,
          status,    \* approved, submitting, pr_open or failed
          rows,      \* publication_reservations: run -> time
          ledger,    \* the publication.reserved events: run -> time
          github,    \* the pull requests: created, updated, open
          indexed,   \* the runs whose pull request GitHub's search shows
          at         \* each worker's run and step

vars == <<now, faults, status, rows, ledger, github, indexed, at>>
store == <<status, rows, ledger>>

Idle == [pc |-> "idle"]
Created == DOMAIN github
DayOf(t) == t \div Day
With(f, r, v) == [x \in DOMAIN f \cup {r} |-> IF x = r THEN v ELSE f[x]]

Init ==
    /\ now = 0 /\ faults = 0
    /\ status = [r \in Runs |-> "approved"]
    /\ rows = <<>> /\ ledger = <<>> /\ github = <<>> /\ indexed = {}
    /\ at = [w \in Workers |-> Idle]

----------------------------------------------------------------------------
(* What GitHub shows of this account's branches *)

Shown == Created \cap indexed
OpenNow == {r \in Shown : github[r].open}

InFlight == {r \in Runs : status[r] = "submitting"}

\* Open and in-flight publications, without this run's own branch; today's
\* pull requests; this repository's, open or updated within the cooldown.
_check_account_limits(r) ==
    LET others == (OpenNow \cup InFlight) \ {r}
        recent == Shown \ {r}
        here == {q \in Runs : RepositoryOf[q] = RepositoryOf[r]} IN
    /\ Cardinality(others) < MaxOpen
    /\ others \cap here = {}
    /\ Cardinality({q \in recent : github[q].created >= DayOf(now) * Day}) < MaxPerDay
    /\ Cooldown > 0 => \A q \in recent \cap here : github[q].updated + Cooldown < now

----------------------------------------------------------------------------
(* What the store holds *)

\* Mutant: a reservation whose row is missing is forgotten.
_reconcile_publication_state_rows == rows

\* Rows that are missing come back from the ledger; any other disagreement
\* raises.
_reconcile_publication_state == ledger

\* The day is [day_start, day_end); a reservation exactly a cooldown old does
\* not count, one in the future does.
Room(held, r) ==
    /\ Cardinality({q \in DOMAIN held : DayOf(held[q]) = DayOf(now)}) < MaxPerDay
    /\ Cooldown > 0 =>
         \A q \in DOMAIN held : RepositoryOf[q] = RepositoryOf[r] => held[q] + Cooldown <= now

----------------------------------------------------------------------------
(* Publishing *)

\* The limits gate of a first attempt.
CheckLimits(w, r) ==
    /\ at[w] = Idle /\ status[r] = "approved"
    /\ _check_account_limits(r)
    /\ at' = [at EXCEPT ![w] = [pc |-> "begin", run |-> r]]
    /\ UNCHANGED <<now, faults, store, github, indexed>>

\* begin_publication with _reserve_publication_in_transaction: the reservation
\* of this run is reused, otherwise there must be room; the row, its event and
\* SUBMITTING are one commit.
begin_publication(w) ==
    /\ at[w].pc = "begin"
    /\ LET r == at[w].run
           held == _reconcile_publication_state
           mine == IF r \in DOMAIN held THEN held ELSE With(held, r, now) IN
       /\ status[r] = "approved"
       /\ r \in DOMAIN held \/ Room(held, r)
       /\ rows' = mine
       /\ ledger' = IF r \in DOMAIN ledger THEN ledger ELSE With(ledger, r, now)
       /\ status' = [status EXCEPT ![r] = "submitting"]
       /\ at' = [at EXCEPT ![w].pc = "open"]
    /\ UNCHANGED <<now, faults, github, indexed>>

\* A resumed publication has its reservation and passes no gate.
Resume(w, r) ==
    /\ at[w] = Idle /\ status[r] = "submitting"
    /\ at' = [at EXCEPT ![w] = [pc |-> "open", run |-> r]]
    /\ rows' = _reconcile_publication_state
    /\ UNCHANGED <<now, faults, status, ledger, github, indexed>>

\* GitHub opens the pull request, or has it already; its search shows it later.
OpenPullRequest(w) ==
    /\ at[w].pc = "open" /\ status[at[w].run] = "submitting"
    /\ LET r == at[w].run IN
       /\ github' = IF r \in Created THEN github
                    ELSE With(github, r, [created |-> now, updated |-> now, open |-> TRUE])
    /\ at' = [at EXCEPT ![w].pc = "record"]
    /\ UNCHANGED <<now, faults, store, indexed>>

Record(w) ==
    /\ at[w].pc = "record" /\ status[at[w].run] = "submitting"
    /\ status' = [status EXCEPT ![at[w].run] = "pr_open"]
    /\ at' = [at EXCEPT ![w] = Idle]
    /\ UNCHANGED <<now, faults, rows, ledger, github, indexed>>

\* The publication is cleaned up and ends; its reservation stays.
Fail(w) ==
    /\ at[w].pc = "open" /\ status[at[w].run] = "submitting" /\ at[w].run \notin Created
    /\ status' = [status EXCEPT ![at[w].run] = "failed"]
    /\ at' = [at EXCEPT ![w] = Idle]
    /\ UNCHANGED <<now, faults, rows, ledger, github, indexed>>

\* The command refuses, fails or ends.
Stop(w) ==
    /\ at[w] # Idle
    /\ at' = [at EXCEPT ![w] = Idle]
    /\ UNCHANGED <<now, faults, store, github, indexed>>

----------------------------------------------------------------------------
(* Everything else *)

Index(r) ==
    /\ r \in Created \ indexed
    /\ indexed' = indexed \cup {r}
    /\ UNCHANGED <<now, faults, store, github, at>>

Touch(r) ==
    /\ r \in Created
    /\ \E open \in {github[r].open, FALSE} :
         github' = With(github, r, [github[r] EXCEPT !.updated = now, !.open = open])
    /\ github' # github
    /\ UNCHANGED <<now, faults, store, indexed, at>>

\* A restored database without a row its ledger has.
LoseRow(r) ==
    /\ r \in DOMAIN rows /\ faults < MaxFaults
    /\ faults' = faults + 1
    /\ rows' = [q \in DOMAIN rows \ {r} |-> rows[q]]
    /\ UNCHANGED <<now, status, ledger, github, indexed, at>>

Tick ==
    /\ now < MaxTime
    /\ now' = now + 1
    /\ UNCHANGED <<faults, store, github, indexed, at>>

SetBack ==
    /\ now > 0 /\ faults < MaxFaults
    /\ faults' = faults + 1
    /\ now' = now - 1
    /\ UNCHANGED <<store, github, indexed, at>>

Next ==
    \/ \E w \in Workers : \/ begin_publication(w) \/ OpenPullRequest(w) \/ Record(w) \/ Fail(w)
                          \/ Stop(w)
                          \/ \E r \in Runs : CheckLimits(w, r) \/ Resume(w, r)
    \/ \E r \in Runs : Index(r) \/ Touch(r) \/ LoseRow(r)
    \/ Tick \/ SetBack

Spec == Init /\ [][Next]_vars

----------------------------------------------------------------------------
(* Properties *)

\* No UTC day has more publications begun in it than the limit, and two
\* publications to one repository begin at least a cooldown apart, although
\* GitHub's search lags, workers overlap, rows are lost and the clock is set
\* back (_reserve_publication_in_transaction).
ReservationsKeepLimits ==
    \A r \in DOMAIN ledger :
      /\ Cardinality({q \in DOMAIN ledger : DayOf(ledger[q]) = DayOf(ledger[r])}) <= MaxPerDay
      /\ \A q \in DOMAIN ledger \ {r} :
           RepositoryOf[q] = RepositoryOf[r] =>
             ledger[q] + Cooldown <= ledger[r] \/ ledger[r] + Cooldown <= ledger[q]

=============================================================================
