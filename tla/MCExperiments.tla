--------------------------- MODULE MCExperiments ----------------------------
(* An instance of Experiments for TLC: every script, one rollout.          *)
EXTENDS Experiments

=============================================================================
