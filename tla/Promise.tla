------------------------------- MODULE Promise -------------------------------
(***************************************************************************)
(* What publishing one approved run promises, as GitHub and the run's owner  *)
(* see it, with no workers, ledger, leases or crashes: the run's branch goes  *)
(* up, one pull request is opened from it, and the run is over once, either   *)
(* published, with a pull request that is as approved or that maintainers     *)
(* decided about, or failed, with nothing left.  The branch goes away only    *)
(* when no pull request needs it, and after the end only maintainers act.     *)
(***************************************************************************)
VARIABLES
    outcome,    \* "pending", "published" or "failed"
    branch,     \* "absent" or "exact"
    pull        \* "none"; "approved" or "wrong" while open; "closed"; "merged"

Init == outcome = "pending" /\ branch = "absent" /\ pull = "none"

Upload ==
    /\ outcome = "pending" /\ branch = "absent" /\ pull = "none"
    /\ branch' = "exact"
    /\ UNCHANGED <<outcome, pull>>

\* GitHub may have moved the base, or made another text of it, by then.
Propose ==
    /\ outcome = "pending" /\ branch = "exact" /\ pull = "none"
    /\ pull' \in {"approved", "wrong"}
    /\ UNCHANGED <<outcome, branch>>

\* Maintainers close or merge; a pull request that is wrong is also closed by
\* the publication itself.
Conclude ==
    /\ pull \in {"approved", "wrong"}
    /\ pull' \in {"closed", "merged"}
    /\ UNCHANGED <<outcome, branch>>

\* A deleted branch takes an open pull request with it.
Remove ==
    /\ outcome = "pending" /\ branch = "exact"
    /\ branch' = "absent"
    /\ pull' = IF pull \in {"approved", "wrong"} THEN "closed" ELSE pull
    /\ UNCHANGED outcome

Succeed ==
    /\ outcome = "pending" /\ pull \in {"approved", "closed", "merged"}
    /\ outcome' = "published"
    /\ UNCHANGED <<branch, pull>>

Fail ==
    /\ outcome = "pending" /\ branch = "absent" /\ pull \in {"none", "closed"}
    /\ outcome' = "failed"
    /\ UNCHANGED <<branch, pull>>

Next == Upload \/ Propose \/ Conclude \/ Remove \/ Succeed \/ Fail

Spec == Init /\ [][Next]_<<outcome, branch, pull>>
===============================================================================
