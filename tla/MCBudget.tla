------------------------------- MODULE MCBudget -------------------------------
(* Model-checking instances of Budget. *)
EXTENDS Budget, TLC

\* Workers are interchangeable: only their identity is ever compared.
WorkerSymmetry == Permutations(Workers)

\* States that differ only in values no later step reads are explored once: an
\* idle worker sets its locals before it uses them, and nobody can save to a
\* run that is over, which is what its calls and spending are read for; what an
\* overbilled run was billed is in no property.
Relevant ==
    <<status, cost, pending, counted, created, lease, cap, pc,
      [r \in Runs \ Overbilled |-> billed[r]],
      [w \in Workers |-> IF pc[w] = "idle" THEN <<>>
                         ELSE <<run[w], scope[w], failures[w],
                                IF pc[w] \in {"wait", "settle"} THEN usage[w] ELSE 0>>],
      [r \in Runs |-> IF status[r] = "over" THEN <<>> ELSE <<calls[r], spent[r]>>]>>
===============================================================================
