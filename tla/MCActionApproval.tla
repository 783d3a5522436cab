--------------------------- MODULE MCActionApproval ---------------------------
(* A batch of two actions and three requests: two that decide, and one more   *)
(* click.  A request is used once, so every behaviour ends.                   *)
EXTENDS ActionApproval, TLC

Symmetry == Permutations(Actions) \union Permutations(Deciders)
===============================================================================
