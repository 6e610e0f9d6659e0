---------------------------- MODULE MCPublication ----------------------------
(* Model-checking instances of Publication. *)
EXTENDS Publication, TLC

\* Workers are interchangeable: only their identity is ever compared.
WorkerSymmetry == Permutations(Workers)
=============================================================================
