------------------------------ MODULE MCAttempts ------------------------------
(* Model-checking instances of Attempts. *)
EXTENDS Attempts, TLC

\* Workers are interchangeable: only their identity is ever compared.
WorkerSymmetry == Permutations(Workers)

\* An idle worker sets its locals before it reads them, and the step after the
\* mirror is read only while the mirror is written.
Relevant ==
    <<rows, files, created, lease, world, pc,
      [w \in Workers |-> IF pc[w] = "idle" THEN <<>>
                         ELSE <<run[w], fresh[w], IF pc[w] = "mirror" THEN then[w] ELSE "idle",
                                pinned[w], retry[w], target[w], seen[w]>>]>>
===============================================================================
