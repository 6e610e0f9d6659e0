----------------------------- MODULE MCSafetyStop -----------------------------
(* Model-checking instances of SafetyStop. *)
EXTENDS SafetyStop, TLC

Seen(k, r, v) == [kind |-> k, repo |-> r, version |-> v]

\* Two repositories turn automated work away.
StopEvidence == {Seen("automation_stop", r, 1) : r \in Repositories}

\* Operators are interchangeable, and so are the repositories.
Symmetry == Permutations(Operators) \cup Permutations(Repositories)
===============================================================================
