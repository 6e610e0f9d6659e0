--------------------------- MODULE MCStateBranch ---------------------------
(* Model-checking instances of StateBranch: the jobs as they may overlap, and *)
(* the jobs one after the other with what must come of them.                  *)
EXTENDS StateBranch
=============================================================================
