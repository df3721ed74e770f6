--------------------------- MODULE MCRolloutCycle ---------------------------
(* Instances of the whole system; the .cfg files say which of its parts    *)
(* may misbehave.                                                          *)
EXTENDS RolloutCycle, TLC

(* The rollouts are interchangeable, and so are the runners.               *)
Symmetry == Permutations(Rollouts) \cup Permutations(Runners)

=============================================================================
