------------------------------- MODULE Replay -------------------------------
(***************************************************************************)
(* The comparison of a recorded rollout with its replay: replay.py as      *)
(* operators on records, and the definition it is checked against.         *)
(*                                                                         *)
(* A trajectory is what matters of a Trajectory: the request, the binding  *)
(* (version and identity), the prompt, the token ids and their logprobs.   *)
(* Logprobs are integers in units of a fraction of the tolerance.          *)
(***************************************************************************)
EXTENDS Integers, Sequences, FiniteSetsExt

CONSTANTS
    Tolerance,   \* |delta logprob| at or below this is agreement
    Absent       \* a field the observation does not have

(* A record names its weights only if it declares where they come from.    *)
ReplayReady(t) == t.identity.source # Absent

(* ReplayPlan.from_trajectory, for a record that is replay-ready.          *)
Plan(t) ==
    [request |-> t.request, prompt |-> t.prompt, tokens |-> t.tokens,
     version |-> t.version, digest |-> t.identity.digest,
     logprobs |-> t.logprobs]

-----------------------------------------------------------------------------
(* validate_replay.                                                        *)

Compared(plan, obs) ==
    IF Len(plan.tokens) <= Len(obs.tokens) THEN Len(plan.tokens) ELSE Len(obs.tokens)

MismatchIndexes(plan, obs) ==
    {i \in 1..Compared(plan, obs) : plan.tokens[i] # obs.tokens[i]}

SameLength(plan, obs) == Len(plan.tokens) = Len(obs.tokens)

(* Counted from 1; Absent when the sequences are equal.                    *)
FirstDivergence(plan, obs) ==
    IF MismatchIndexes(plan, obs) # {} THEN Min(MismatchIndexes(plan, obs))
    ELSE IF SameLength(plan, obs) THEN Absent
    ELSE Compared(plan, obs) + 1

(* What makes the comparison itself meaningless.                           *)
Protocol(plan, obs) ==
    {v \in {"version", "identity", "prompt", "early stop", "echo"} :
        CASE v = "version"    -> obs.version # plan.version
          [] v = "identity"   -> obs.digest \notin {Absent, plan.digest}
          [] v = "prompt"     -> obs.prompt \notin {Absent, plan.prompt}
          [] v = "early stop" -> Len(obs.tokens) < Len(plan.tokens)
          [] v = "echo"       -> /\ obs.forced
                                 /\ \/ MismatchIndexes(plan, obs) # {}
                                    \/ ~SameLength(plan, obs)}

(* Logprobs cover a comparison if there are any and they are long enough.  *)
Covers(logprobs, n) == logprobs # <<>> /\ Len(logprobs) >= n

Lane(plan, obs) ==
    LET n == Compared(plan, obs)
        record == Covers(plan.logprobs, n)
        replay == Covers(obs.logprobs, n)
    IN CASE record /\ replay   -> "compared"
         [] record /\ ~replay  -> "replay-missing"
         [] ~record /\ replay  -> "record-missing"
         [] ~record /\ ~replay -> "both-missing"

Distance(x, y) == IF x < y THEN y - x ELSE x - y

(* Mutant: the difference instead of its absolute value.                   *)
Deltas_Signed(plan, obs) ==
    {obs.logprobs[i] - plan.logprobs[i] : i \in 1..Compared(plan, obs)}

Deltas(plan, obs) ==
    {Distance(plan.logprobs[i], obs.logprobs[i]) : i \in 1..Compared(plan, obs)}

(* The greatest delta is within the tolerance; a comparison of logprobs    *)
(* over nothing does not agree.                                            *)
LogprobsAgree(plan, obs) ==
    Lane(plan, obs) = "compared" =>
        /\ Deltas(plan, obs) # {}
        /\ \A d \in Deltas(plan, obs) : d <= Tolerance

(* Mutant: the tokens that were compared are all that counts.              *)
Agrees_SharedPrefix(plan, obs) ==
    /\ Protocol(plan, obs) = {}
    /\ MismatchIndexes(plan, obs) = {}
    /\ LogprobsAgree(plan, obs)

Agrees(plan, obs) ==
    /\ Protocol(plan, obs) = {}
    /\ MismatchIndexes(plan, obs) = {}
    /\ SameLength(plan, obs)
    /\ LogprobsAgree(plan, obs)

Verdict(plan, obs) ==
    [agrees   |-> Agrees(plan, obs),
     protocol |-> Protocol(plan, obs),
     first    |-> FirstDivergence(plan, obs),
     lane     |-> Lane(plan, obs)]

-----------------------------------------------------------------------------
(* The reference: what a verdict is to mean.                               *)

(* The observation is the recorded rollout over again, as far as it says.  *)
Reproduces(plan, obs) ==
    /\ obs.version = plan.version
    /\ obs.digest \in {Absent, plan.digest}
    /\ obs.prompt \in {Absent, plan.prompt}
    /\ obs.tokens = plan.tokens
    /\ LET both == /\ plan.logprobs # <<>>
                   /\ Len(obs.logprobs) >= Len(plan.logprobs)
       IN both => \A i \in DOMAIN plan.tokens :
                      Distance(plan.logprobs[i], obs.logprobs[i]) <= Tolerance

(* d is where two sequences part: equal before it and not beyond.          *)
PartAt(s, t, d) ==
    IF d = Absent THEN s = t
    ELSE /\ d \in 1..(1 + Min({Len(s), Len(t)}))
         /\ SubSeq(s, 1, d - 1) = SubSeq(t, 1, d - 1)
         /\ ~(d \in DOMAIN s /\ d \in DOMAIN t /\ s[d] = t[d])

(* A verdict is right if it agrees with exactly the reproductions, points  *)
(* at the first difference, and puts the blame where it belongs: tokens    *)
(* that were dictated and did not come back are a fault of the replay,     *)
(* tokens that were only expected are a finding about the weights.         *)
RightVerdict(v, plan, obs) ==
    /\ v.agrees <=> Reproduces(plan, obs)
    /\ PartAt(plan.tokens, obs.tokens, v.first)
    /\ "echo" \in v.protocol <=> obs.forced /\ obs.tokens # plan.tokens
    /\ v.lane = "compared" => plan.logprobs # <<>> /\ obs.logprobs # <<>>

=============================================================================
