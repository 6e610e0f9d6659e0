------------------------------- MODULE MCLease -------------------------------
(* Model-checking instances of Lease: three guards, a clock of a few ttls.  *)
EXTENDS Lease, TLC

\* Guards are interchangeable: only their identity is ever compared.
GuardSymmetry == Permutations(Guards)
=============================================================================
