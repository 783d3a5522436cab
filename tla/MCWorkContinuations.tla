------------------------- MODULE MCWorkContinuations -------------------------
(* One goal; a user's turn and one or two runs that may continue its work.    *)
(* Ids of runs and actions are used once, so every behaviour ends: deadlock   *)
(* is not checked.                                                            *)
EXTENDS WorkContinuations, TLC

\* The ids that are alike
Symmetry == Permutations(Runs \ Turns) \union Permutations(Actions)

\* Not everything at once: a behaviour with two later runs has no actions, and is not followed
\* into states where both controls have come and the turn is under way.
LaterRuns == {r \in Runs \ Turns : task[r] # NoTask}
Within ==
  Cardinality(LaterRuns) = 2 =>
    /\ \A a \in Actions : act[a].status = "none"
    /\ controls <= 1 \/ ~ \E t \in Turns : Alive(t)
==============================================================================
