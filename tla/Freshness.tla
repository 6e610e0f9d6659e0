------------------------------ MODULE Freshness ------------------------------
(***************************************************************************)
(* The last look before a publication goes on (publication.py,             *)
(* _check_freshness, then _check_mutation_boundary_freshness).  GitHub     *)
(* answers one question at a time, so the issue, the base branch and the   *)
(* organization's policy are read one after another while people change    *)
(* them; nothing can be read together.                                     *)
(*                                                                         *)
(* Holds, rival pull requests, the repository's name and default branch    *)
(* and legal evidence only add refusals: Refuse.                           *)
(***************************************************************************)
EXTENDS Naturals

CONSTANTS
    MaxBase,    \* bound: commits on the base branch after the prepared one
    MaxOrg,     \* bound: commits in the organization's .github
    MaxIssue    \* bound: changes of the issue

ASSUME FreshnessConstants == {MaxBase, MaxOrg, MaxIssue} \subseteq Nat

VARIABLES
    fit,        \* the issue: open, unlocked, unclaimed, nobody asks to stop
    base,       \* the base branch's commit; 0 is the prepared one
    safe,       \* commits whose changes touch neither the patch nor a policy file
    org,        \* the organization's commit; 0 is the recorded one
    edits,      \* changes of the issue
    pc,         \* the next read
    first,      \* what the check read first
    together    \* history: since the check began all three were as they should be at once

world == <<fit, base, safe, org, edits>>
vars == <<world, pc, first, together>>

Init ==
    /\ fit = TRUE /\ base = 0 /\ safe = {0} /\ org = 0 /\ edits = 0
    /\ pc = "idle" /\ together = FALSE
    /\ first = [fit |-> FALSE, base |-> 0, org |-> 0]

AsApproved == fit /\ base \in safe /\ org = 0

------------------------------------------------------------------------------
(* The world. *)

EditIssue ==
    /\ edits < MaxIssue
    /\ edits' = edits + 1 /\ fit' = ~fit
    /\ UNCHANGED <<base, safe, org>>

\* Commits are new; what they change adds up, or undoes an earlier change.
PushBase ==
    /\ base < MaxBase
    /\ base' = base + 1
    /\ safe' \in {safe, safe \cup {base'}}
    /\ UNCHANGED <<fit, org, edits>>

PushOrg ==
    /\ org < MaxOrg
    /\ org' = org + 1
    /\ UNCHANGED <<fit, base, safe, edits>>

World ==
    /\ EditIssue \/ PushBase \/ PushOrg
    /\ together' = (together \/ (pc # "idle" /\ AsApproved'))
    /\ UNCHANGED <<pc, first>>

------------------------------------------------------------------------------
(* The check, one read a step. *)

Begin ==
    /\ pc \in {"idle", "created"}
    /\ pc' = "issue" /\ together' = AsApproved
    /\ first' = [fit |-> FALSE, base |-> 0, org |-> 0]
    /\ UNCHANGED world

\* Any read fails, or finds one of the other reasons.
Refuse ==
    /\ pc \notin {"idle", "created"}
    /\ pc' = "idle"
    /\ UNCHANGED <<world, first, together>>

\* One read, and what the code makes of it.
Read(at, ok, next) ==
    /\ pc = at /\ ok
    /\ pc' = next
    /\ UNCHANGED <<world, together>>

ReadIssue == Read("issue", TRUE, "base") /\ first' = [first EXCEPT !.fit = fit]

\* _base_drift_is_safe: the head may be newer if it changed nothing that matters.
_base_drift_is_safe(observed) == observed \in safe

ReadBase == Read("base", _base_drift_is_safe(base), "policy") /\ first' = [first EXCEPT !.base = base]

\* evaluate reads the policy at the prepared commit and the organization's as it
\* is; _assert_current_eligibility_evidence compares both with what was recorded
\* and judges the issue that was read at the start.
ReadPolicy == Read("policy", first.fit /\ org = 0, "search") /\ first' = [first EXCEPT !.org = org]

\* _assert_issue_drift_allowed, of the issue read again, with the search for rivals.
Search == Read("search", fit, "organization") /\ UNCHANGED first

\* Mutant: the organization is not looked at again.
FinalOrganization_once == Read("organization", TRUE, "final") /\ UNCHANGED first

FinalOrganization == Read("organization", org = first.org, "final") /\ UNCHANGED first

FinalIssue == Read("final", fit, "head") /\ UNCHANGED first

FinalBase == Read("head", base = first.base, "passed") /\ UNCHANGED first

------------------------------------------------------------------------------
(* _check_mutation_boundary_freshness, right before the pull request is made. *)

BoundaryOrganization == Read("passed", org = 0, "boundary_base") /\ UNCHANGED first
BoundaryBase == Read("boundary_base", _base_drift_is_safe(base), "boundary_issue") /\ UNCHANGED first
BoundaryIssue == Read("boundary_issue", fit, "created") /\ UNCHANGED first

Next ==
    \/ World \/ Begin \/ Refuse
    \/ ReadIssue \/ ReadBase \/ ReadPolicy \/ Search
    \/ FinalOrganization \/ FinalIssue \/ FinalBase
    \/ BoundaryOrganization \/ BoundaryBase \/ BoundaryIssue

Spec == Init /\ [][Next]_vars

------------------------------------------------------------------------------
(* Properties. *)

\* A publication goes on only if there was a moment since the check began at which
\* the issue, the base branch and the organization's policy were all as approved:
\* no mixture of an issue read before a change and a policy read after it passes,
\* though each is read alone (_check_freshness reads the organization and the base
\* branch again at the end, and the issue in between).
OneMoment ==
    pc \in {"passed", "boundary_base", "boundary_issue", "created"} => together

===============================================================================
