---------------------------- MODULE MCProvenance ----------------------------
(* Instances of Provenance for TLC.                                        *)
EXTENDS Provenance, TLC

(* Steps 0 and 1 differ in the logprobs only; what a dummy engine emits    *)
(* differs in the tokens.  Logprobs are negated, in units of the tolerance;*)
(* those of different weights are further apart than tolerance and noise.  *)
Symmetry == Permutations(Requests)

MCManifest == [s \in Steps |-> "opt-125m"]
MCTokens == [w \in Weights |-> IF w \in Steps THEN <<5, 8>> ELSE <<5, 9>>]
Scored(a, b, c) == [k \in {5, 8, 9} |-> IF k = 5 THEN a ELSE IF k = 8 THEN b ELSE c]
MCLogprobs ==
    [w \in Weights |->
        IF w \notin Steps THEN Scored(2, 12, 4)
        ELSE IF w = 0 THEN Scored(2, 4, 12) ELSE Scored(2, 8, 16)]

ASSUME Distinguishable /\ SameManifest

=============================================================================
