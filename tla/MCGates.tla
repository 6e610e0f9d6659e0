-------------------------------- MODULE MCGates --------------------------------
(***************************************************************************)
(* The checks a publication passes, each on a small instance: the last look *)
(* (Freshness), the client's requests (Requests), the read of an issue      *)
(* (IssueRead), the approval (Approval) and the limits (Limits).  They share *)
(* no state, so a behaviour is one of one scene; what belongs to the others   *)
(* never changes in it.                                                      *)
(***************************************************************************)
EXTENDS Freshness, TLC

CONSTANTS
    SearchesPerMinute, Latencies, Pauses, RetryAfters, MaxRequests,
    PageSize, MaxComments, MaxIssueEdits,
    Sessions, Publishers, Logins, Versions, Life, MaxTime, MaxEdits, MaxStops,
    r1, r2, r3, a, b, Runs, Repositories, Workers, RepositoryOf, MaxPerDay, MaxOpen, Cooldown, Day,
    MaxDays, MaxFaults

VARIABLES
    scene,
    request, made, kind, attempt, total, limits, recent, waited, exhausted, outcome, applied,
    searches,
    issue, issueEdits, reading, page, comments, initial, discussion, result, seen,
    now, approvalEdits, stops, row, files, conf, token, owned, who, worker, agreed, sent,
    time, faults, status, rows, ledger, github, indexed, at

client == <<request, made, kind, attempt, total, limits, recent, waited, exhausted, outcome,
            applied, searches>>
reader == <<issue, issueEdits, reading, page, comments, initial, discussion, result, seen>>
approval == <<now, approvalEdits, stops, row, files, conf, token, owned, who, worker, agreed, sent>>
limit == <<time, faults, status, rows, ledger, github, indexed, at>>

Client == INSTANCE Requests WITH pc <- request
Reader == INSTANCE IssueRead WITH
              pc <- reading, edits <- issueEdits, first <- discussion, MaxEdits <- MaxIssueEdits
Approve == INSTANCE Approval WITH edits <- approvalEdits
Limit == INSTANCE Limits WITH now <- time, MaxTime <- MaxDays

ASSUME GatesConstants ==
    /\ Client!RequestsConstants /\ Reader!IssueReadConstants
    /\ Approve!ApprovalConstants /\ Limit!LimitsConstants

\* Two runs of one repository and one of another.
TwoRepositories == [r \in {r1, r2, r3} |-> IF r = r3 THEN b ELSE a]

Symmetry == Permutations(Sessions) \cup Permutations(Logins) \cup Permutations(Versions)

NoReader ==
    /\ issue = 0 /\ issueEdits = 0 /\ reading = 0 /\ page = 0 /\ comments = 0 /\ initial = 0
    /\ discussion = 0 /\ result = 0 /\ seen = 0
NoApprove ==
    /\ now = 0 /\ approvalEdits = 0 /\ stops = 0 /\ row = 0 /\ files = 0 /\ conf = 0 /\ token = 0
    /\ owned = 0 /\ who = 0 /\ worker = 0 /\ agreed = 0 /\ sent = 0

GatesInit ==
    /\ Init /\ Client!Init /\ Limit!Init
    /\ \/ scene \in {"freshness", "client", "limits"} /\ NoReader /\ NoApprove
       \/ scene = "reader" /\ Reader!Init /\ NoApprove
       \/ scene = "approval" /\ NoReader /\ Approve!Init

GatesNext ==
    /\ UNCHANGED scene
    /\ \/ /\ scene = "freshness" /\ Next
          /\ UNCHANGED <<client, reader, approval, limit>>
       \/ /\ scene = "client" /\ Client!Next
          /\ UNCHANGED <<vars, reader, approval, limit>>
       \/ /\ scene = "reader" /\ Reader!Next
          /\ UNCHANGED <<vars, client, approval, limit>>
       \/ /\ scene = "approval" /\ Approve!Next
          /\ UNCHANGED <<vars, client, reader, limit>>
       \/ /\ scene = "limits" /\ Limit!Next
          /\ UNCHANGED <<vars, client, reader, approval>>

AllVars == <<scene, vars, client, reader, approval, limit>>

GatesSpec == GatesInit /\ [][GatesNext]_AllVars

\* GitHub applies a change at most once for one call of the client, a call that ends
\* as limited, refused or not sent was not applied, and searches stay within the
\* limit of a minute however long answers take (_request, _throttle_search).
CallsAreSafe == Client!AppliedOnce /\ Client!SearchesWithinLimit

\* What get_issue returns was the issue with exactly these comments at one instant.
ReadIsWhole == scene = "reader" => Reader!ReadIsWhole

\* What reaches GitHub is what a person was shown and confirmed, and a resumed
\* publication makes the same commit again (approve_run, publish, _commit).
PublishedWasReviewed ==
    scene = "approval" => Approve!PublishedWasReviewed /\ Approve!OneCommit

\* No UTC day and no cooldown has more publications begun in it than the limits
\* allow (_reserve_publication_in_transaction).
ReservationsKeepLimits == Limit!ReservationsKeepLimits
===============================================================================
