------------------------------ MODULE MCLifecycle ------------------------------
(* Model-checking instances of Lifecycle. *)
EXTENDS Lifecycle, TLC

WorkerSymmetry == Permutations(Workers)

\* What a worker has in memory and will not read again: an idle one everything, a
\* publisher all but its repository, and a sync between two pull requests what it
\* read of the last.
Relevant ==
    <<vars, github, row, lease, posted, events, mishap, pc,
      [w \in Workers |->
         CASE pc[w] = "idle" -> <<>>
           [] pc[w] = "post" -> at[w]
           [] pc[w] = "next" -> <<fresh[w], todo[w]>>
           [] OTHER -> <<fresh[w], todo[w], at[w], first[w], found[w], left[w]>>]>>
==============================================================================
