-------------------------------- MODULE Requests --------------------------------
(***************************************************************************)
(* The GitHub client's requests (GitHubClient._request): which answers are *)
(* retried, how long a client waits, and how fast it searches.             *)
(*                                                                         *)
(* Time is in units of two seconds and kept as ages.  GitHub may apply a   *)
(* change whose answer is lost or is a server error; it applies none that  *)
(* it answers with a limit.                                                *)
(***************************************************************************)
EXTENDS Naturals, Sequences, FiniteSets

CONSTANTS
    SearchesPerMinute,  \* _SEARCHES_PER_MINUTE; 25 in the code
    Latencies,          \* how long an answer may take
    Pauses,             \* how long the client may do other things between requests
    RetryAfters,        \* the waits GitHub may ask for
    MaxRequests         \* bound: requests of one client

RequestsConstants ==
    /\ SearchesPerMinute \in Nat \ {0} /\ MaxRequests \in Nat
    /\ Latencies \subseteq Nat /\ Pauses \subseteq Nat /\ RetryAfters \subseteq Nat

Minute == 30
MaxAttempts == 4
MaxSingleWait == 30
MaxTotalWait == 90
TransientBackoff == <<1, 2, 4>>
SecondaryBackoff == <<30, 60, 120>>
SecondaryWaitBudget == 300

Kinds == {"read", "search", "mutation"}

VARIABLES
    pc,         \* idle, send, or sent
    made,       \* requests so far
    kind, attempt, total, limits,   \* the request: attempt, total_wait, secondary_limits
    recent,     \* _recent_searches, as ages
    waited,     \* _secondary_wait_seconds
    exhausted,  \* _secondary_limit_exhausted
    outcome,    \* of the last request
    \* history
    applied,    \* times GitHub applied the change
    searches    \* ages of the searches of the last minute, as GitHub saw them

vars == <<pc, made, kind, attempt, total, limits, recent, waited, exhausted, outcome, applied,
          searches>>

Init ==
    /\ pc = "idle" /\ made = 0
    /\ kind = "read" /\ attempt = 0 /\ total = 0 /\ limits = 0
    /\ recent = <<>>
    /\ waited = 0 /\ exhausted = FALSE
    /\ outcome = "none"
    /\ applied = 0 /\ searches = <<>>

Least(a, b) == IF a < b THEN a ELSE b
Most(a, b) == IF a > b THEN a ELSE b

\* Time passes: ages grow; from a minute on they are all the same.
Aged(ages, d) == [i \in DOMAIN ages |-> Least(ages[i] + d, Minute)]
InLastMinute(age) == age < Minute

\* Those that are a minute old leave the deque at its front.
AgedWithinMinute(ages, d) ==
    LET now == Aged(ages, d)
        young == {i \in DOMAIN now : InLastMinute(now[i])}
    IN  IF young = {} THEN <<>>
        ELSE SubSeq(now, CHOOSE i \in young : \A j \in young : i <= j, Len(now))

Begin ==
    /\ pc = "idle" /\ made < MaxRequests
    /\ made' = made + 1
    /\ kind' \in Kinds
    /\ attempt' = 1 /\ total' = 0 /\ limits' = 0
    /\ \E d \in Pauses :
          recent' = Aged(recent, d) /\ searches' = AgedWithinMinute(searches, d)
    /\ pc' = "send"
    /\ outcome' = "none" /\ applied' = 0
    /\ UNCHANGED <<waited, exhausted>>

\* _throttle_search: how long it waits.
Throttle(ages) ==
    IF Len(ages) >= SearchesPerMinute /\ InLastMinute(ages[1]) THEN Minute - ages[1] ELSE 0

\* One attempt goes out; the answer takes a while.  A search is recorded before it
\* is sent, so GitHub may see it later than that.
Send ==
    /\ pc = "send"
    /\ \E d \in Latencies :
          IF kind = "search"
          THEN LET w == Throttle(recent) IN
               /\ recent' = Aged(Append(AgedWithinMinute(recent, w), 0), d)
               /\ searches' = Append(AgedWithinMinute(searches, w + d), 0)
          ELSE recent' = Aged(recent, d) /\ searches' = AgedWithinMinute(searches, d)
    /\ pc' = "sent"
    /\ UNCHANGED <<made, kind, attempt, total, limits, waited, exhausted, outcome, applied>>

\* The client sleeps and tries again.
Again(w) ==
    /\ pc' = "send" /\ attempt' = attempt + 1
    /\ recent' = Aged(recent, w) /\ searches' = AgedWithinMinute(searches, w)
    /\ UNCHANGED <<made, kind, outcome>>

Ends(result) ==
    /\ pc' = "idle" /\ outcome' = result
    /\ attempt' = 0
    /\ UNCHANGED <<made, kind, recent, searches>>

AttemptsRemain == attempt < MaxAttempts
Backoff == TransientBackoff[Least(attempt, 3)]

MayBeApplied == applied' \in {applied, applied + 1}

\* Mutant: every lost answer is retried.
Retried_any(k) == TRUE

\* Only reads are retried.
Retried(k) == k # "mutation"

\* A connection that was never made is known not to have reached GitHub.
NotSent ==
    /\ pc = "sent"
    /\ IF Retried(kind) /\ AttemptsRemain /\ total + Backoff <= MaxTotalWait
       THEN Again(Backoff) /\ total' = total + Backoff
       ELSE Ends("not_sent") /\ UNCHANGED total
    /\ UNCHANGED <<limits, waited, exhausted, applied>>

\* The answer is lost, or a server error.
Lost ==
    /\ pc = "sent"
    /\ IF kind = "mutation" THEN MayBeApplied ELSE UNCHANGED applied
    /\ IF Retried(kind) /\ AttemptsRemain /\ total + Backoff <= MaxTotalWait
       THEN Again(Backoff) /\ total' = total + Backoff
       ELSE Ends("unknown") /\ UNCHANGED total
    /\ UNCHANGED <<limits, waited, exhausted>>

\* An account suspension, a block on creating content, or an error of the request.
Refused ==
    /\ pc = "sent"
    /\ \/ Ends("stopped")
       \/ kind = "mutation" /\ Ends("held")
       \/ Ends("error")
    /\ UNCHANGED <<total, limits, waited, exhausted, applied>>

\* A secondary limit: at least one, two and four minutes, within the client's budget.
SecondaryLimit(after) ==
    /\ pc = "sent"
    /\ limits' = limits + 1
    /\ LET w == Most(after, SecondaryBackoff[Least(limits', 3)]) IN
       IF AttemptsRemain /\ limits' <= 3 /\ waited + w <= SecondaryWaitBudget
       THEN Again(w) /\ waited' = waited + w /\ UNCHANGED exhausted
       ELSE Ends("rate_limited") /\ exhausted' = TRUE /\ UNCHANGED waited
    /\ UNCHANGED <<total, applied>>

\* A rate limit: what GitHub asks for, within the request's budget.
RateLimit(after) ==
    /\ pc = "sent"
    /\ LET w == IF after = 0 THEN Backoff ELSE after IN
       IF AttemptsRemain /\ w <= MaxSingleWait /\ total + w <= MaxTotalWait
       THEN Again(w) /\ total' = total + w
       ELSE Ends("rate_limited") /\ UNCHANGED total
    /\ UNCHANGED <<limits, waited, exhausted, applied>>

Answered ==
    /\ pc = "sent"
    /\ applied' = IF kind = "mutation" THEN applied + 1 ELSE applied
    /\ Ends("done")
    /\ UNCHANGED <<total, limits, waited, exhausted>>

Finished == pc = "idle" /\ made = MaxRequests /\ UNCHANGED vars

Next ==
    \/ Begin \/ Send \/ NotSent \/ Lost \/ Refused \/ Answered \/ Finished
    \/ \E after \in RetryAfters \cup {0} : SecondaryLimit(after) \/ RateLimit(after)

Spec == Init /\ [][Next]_vars

------------------------------------------------------------------------------
(* Properties. *)

\* GitHub applies a change at most once for one call, whatever is retried, and a
\* call that ends as limited, refused or not sent was not applied: the caller may
\* make it again (_request, _TransportFailure, _RequestNotSent).
AppliedOnce ==
    /\ applied <= 1
    /\ outcome \in {"not_sent", "rate_limited", "held", "stopped", "error"} => applied = 0

\* However long answers take, at most one search more than the client allows itself
\* reaches GitHub within a minute: 26 of the 30 that GitHub allows
\* (_throttle_search, "staying under it avoids secondary limits").
SearchesWithinLimit == Len(searches) <= SearchesPerMinute + 1
===============================================================================
