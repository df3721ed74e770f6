---------------------------- MODULE ReplayProofs ----------------------------
(***************************************************************************)
(* validate_replay agrees with exactly the reproductions, finds the first  *)
(* difference and blames the right side, for plans and observations of any *)
(* length.                                                                 *)
(***************************************************************************)
EXTENDS Replay, SequenceTheorems, WellFoundedInduction, TLAPS

(* What a plan and an observation are: as many logprobs as tokens, or none *)
(* (Trajectory checks it), and any logprobs in a replay.                   *)
WellFormed(plan, obs) ==
    /\ plan.tokens \in Seq(Int) /\ obs.tokens \in Seq(Int)
    /\ plan.logprobs \in Seq(Int) /\ obs.logprobs \in Seq(Int)
    /\ plan.logprobs = <<>> \/ Len(plan.logprobs) = Len(plan.tokens)
    /\ obs.forced \in BOOLEAN

(* No protocol violation, clause by clause.                                *)
LEMMA NoViolation ==
    ASSUME NEW plan, NEW obs
    PROVE  Protocol(plan, obs) = {} <=>
              /\ obs.version = plan.version
              /\ obs.digest \in {Absent, plan.digest}
              /\ obs.prompt \in {Absent, plan.prompt}
              /\ ~(Len(obs.tokens) < Len(plan.tokens))
              /\ ~(obs.forced /\ (MismatchIndexes(plan, obs) # {}
                                     \/ ~SameLength(plan, obs)))
<1> DEFINE P(v) == CASE v = "version"    -> obs.version # plan.version
                     [] v = "identity"   -> obs.digest \notin {Absent, plan.digest}
                     [] v = "prompt"     -> obs.prompt \notin {Absent, plan.prompt}
                     [] v = "early stop" -> Len(obs.tokens) < Len(plan.tokens)
                     [] v = "echo"       -> /\ obs.forced
                                            /\ \/ MismatchIndexes(plan, obs) # {}
                                               \/ ~SameLength(plan, obs)
           K == {"version", "identity", "prompt", "early stop", "echo"}
<1>1. Protocol(plan, obs) = {v \in K : P(v)}
  BY DEF Protocol
<1>2. /\ P("version") <=> obs.version # plan.version
      /\ P("identity") <=> obs.digest \notin {Absent, plan.digest}
      /\ P("prompt") <=> obs.prompt \notin {Absent, plan.prompt}
      /\ P("early stop") <=> Len(obs.tokens) < Len(plan.tokens)
      /\ P("echo") <=> /\ obs.forced
                       /\ \/ MismatchIndexes(plan, obs) # {}
                          \/ ~SameLength(plan, obs)
  OBVIOUS
<1> HIDE DEF P
<1>3. {v \in K : P(v)} = {} <=>
         ~P("version") /\ ~P("identity") /\ ~P("prompt") /\ ~P("early stop") /\ ~P("echo")
  OBVIOUS
<1> QED
  BY <1>1, <1>2, <1>3

(* Same length and no mismatch: the same tokens.                           *)
LEMMA SameTokens ==
    ASSUME NEW plan, NEW obs, WellFormed(plan, obs)
    PROVE  MismatchIndexes(plan, obs) = {} /\ SameLength(plan, obs)
              <=> obs.tokens = plan.tokens
<1>1. ASSUME MismatchIndexes(plan, obs) = {}, SameLength(plan, obs)
      PROVE  obs.tokens = plan.tokens
  <2>1. Compared(plan, obs) = Len(plan.tokens) /\ Len(plan.tokens) = Len(obs.tokens)
    BY <1>1 DEF SameLength, Compared, WellFormed
  <2>2. \A i \in 1..Len(plan.tokens) : plan.tokens[i] = obs.tokens[i]
    BY <1>1, <2>1 DEF MismatchIndexes
  <2> QED
    BY <2>1, <2>2, SeqEqual DEF WellFormed
<1>2. ASSUME obs.tokens = plan.tokens
      PROVE  MismatchIndexes(plan, obs) = {} /\ SameLength(plan, obs)
  BY <1>2 DEF MismatchIndexes, SameLength
<1> QED
  BY <1>1, <1>2

(* With the same tokens, the logprobs agree when every pair that both      *)
(* sides report is within the tolerance.                                   *)
LEMMA LogprobsCompared ==
    ASSUME NEW plan, NEW obs, WellFormed(plan, obs), obs.tokens = plan.tokens
    PROVE  LogprobsAgree(plan, obs) <=>
              (plan.logprobs # <<>> /\ Len(obs.logprobs) >= Len(plan.logprobs) =>
                  \A i \in DOMAIN plan.tokens :
                      Distance(plan.logprobs[i], obs.logprobs[i]) <= Tolerance)
<1> DEFINE n == Len(plan.tokens)
<1>1. Compared(plan, obs) = n /\ n \in Nat /\ DOMAIN plan.tokens = 1..n
  BY DEF Compared, WellFormed
<1>2. Covers(plan.logprobs, n) <=> plan.logprobs # <<>>
  BY <1>1 DEF Covers, WellFormed
<1>3. CASE plan.logprobs = <<>>
  <2>1. Lane(plan, obs) # "compared"
    BY <1>1, <1>2, <1>3 DEF Lane
  <2> QED
    BY <2>1, <1>3 DEF LogprobsAgree
<1>4. CASE plan.logprobs # <<>>
  <2>1. Len(plan.logprobs) = n /\ n > 0
    BY <1>1, <1>4 DEF WellFormed
  <2>2. Covers(obs.logprobs, n) <=> Len(obs.logprobs) >= n
    BY <1>1, <2>1 DEF Covers, WellFormed
  <2>3. Lane(plan, obs) = "compared" <=> Len(obs.logprobs) >= n
    BY <1>1, <1>2, <1>4, <2>2 DEF Lane
  <2>4. Deltas(plan, obs) = {Distance(plan.logprobs[i], obs.logprobs[i]) : i \in 1..n}
    BY <1>1 DEF Deltas
  <2>5. Deltas(plan, obs) # {}
    BY <2>4, <2>1, 1 \in 1..n
  <2> QED
    BY <1>1, <1>4, <2>1, <2>3, <2>4, <2>5 DEF LogprobsAgree
<1> QED
  BY <1>3, <1>4

(* replay.py agrees exactly when the observation is the recorded rollout   *)
(* over again: same label, same weights and prompt as far as reported, the *)
(* same tokens, and logprobs within the tolerance wherever both sides have *)
(* them, whether the tokens were dictated or only expected.                *)
THEOREM AgreementIsReproduction ==
    ASSUME NEW plan, NEW obs, WellFormed(plan, obs)
    PROVE  Agrees(plan, obs) <=> Reproduces(plan, obs)
<1>1. ASSUME Agrees(plan, obs) PROVE Reproduces(plan, obs)
  BY <1>1, NoViolation, SameTokens, LogprobsCompared DEF Agrees, Reproduces
<1>2. ASSUME Reproduces(plan, obs) PROVE Agrees(plan, obs)
  <2>1. obs.tokens = plan.tokens /\ ~(Len(obs.tokens) < Len(plan.tokens))
    BY <1>2 DEF Reproduces, WellFormed
  <2>2. MismatchIndexes(plan, obs) = {} /\ SameLength(plan, obs)
    BY <2>1, SameTokens
  <2>3. Protocol(plan, obs) = {}
    BY <1>2, <2>1, <2>2, NoViolation DEF Reproduces
  <2> QED
    BY <1>2, <2>1, <2>2, <2>3, LogprobsCompared DEF Agrees, Reproduces
<1> QED
  BY <1>1, <1>2

-----------------------------------------------------------------------------
(* The other parts of a verdict.                                           *)

(* Min of FiniteSetsExt is the least element of a set of natural numbers.  *)
LEMMA MinIsLeast ==
    ASSUME NEW S \in SUBSET Nat, S # {}
    PROVE  Min(S) \in S /\ \A y \in S : Min(S) <= y
<1>1. PICK x \in S : \A y \in S : <<y, x>> \notin OpToRel(<, Nat)
  BY NatLessThanWellFounded, WFMin
<1>2. \A y \in S : ~(y < x)
  BY <1>1 DEF OpToRel
<1>3. \E z \in S : \A y \in S : z <= y
  BY <1>2
<1> QED
  BY <1>3 DEF Min

(* A protocol violation of the kind "echo".                                *)
LEMMA EchoViolation ==
    ASSUME NEW plan, NEW obs
    PROVE  "echo" \in Protocol(plan, obs) <=>
              obs.forced /\ (MismatchIndexes(plan, obs) # {} \/ ~SameLength(plan, obs))
<1> DEFINE P(v) == CASE v = "version"    -> obs.version # plan.version
                     [] v = "identity"   -> obs.digest \notin {Absent, plan.digest}
                     [] v = "prompt"     -> obs.prompt \notin {Absent, plan.prompt}
                     [] v = "early stop" -> Len(obs.tokens) < Len(plan.tokens)
                     [] v = "echo"       -> /\ obs.forced
                                            /\ \/ MismatchIndexes(plan, obs) # {}
                                               \/ ~SameLength(plan, obs)
<1>1. Protocol(plan, obs) = {v \in {"version", "identity", "prompt", "early stop", "echo"} : P(v)}
  BY DEF Protocol
<1>2. P("echo") <=> /\ obs.forced
                    /\ \/ MismatchIndexes(plan, obs) # {}
                       \/ ~SameLength(plan, obs)
  OBVIOUS
<1> HIDE DEF P
<1> QED
  BY <1>1, <1>2

(* first_divergence is where the two token sequences part.                 *)
LEMMA DivergenceIsFirst ==
    ASSUME NEW plan, NEW obs, WellFormed(plan, obs), Absent \notin Nat
    PROVE  PartAt(plan.tokens, obs.tokens, FirstDivergence(plan, obs))
<1> DEFINE s == plan.tokens
           t == obs.tokens
           n == Compared(plan, obs)
           M == MismatchIndexes(plan, obs)
           d == FirstDivergence(plan, obs)
<1>1. /\ s \in Seq(Int) /\ t \in Seq(Int)
      /\ Len(s) \in Nat /\ Len(t) \in Nat
      /\ DOMAIN s = 1..Len(s) /\ DOMAIN t = 1..Len(t)
  BY DEF WellFormed
<1>2. n \in Nat /\ n <= Len(s) /\ n <= Len(t) /\ (n = Len(s) \/ n = Len(t))
  BY <1>1 DEF Compared
<1>3. Min({Len(s), Len(t)}) = n
  <2> DEFINE L == {Len(s), Len(t)}
  <2>1. L \in SUBSET Nat /\ L # {} /\ n \in L /\ \A y \in L : n <= y
    BY <1>1, <1>2
  <2> HIDE DEF L
  <2>2. Min(L) \in L /\ Min(L) <= n
    BY <2>1, MinIsLeast
  <2> QED
    BY <1>2, <2>1, <2>2 DEF L
<1>4. M = {i \in 1..n : s[i] # t[i]}
  BY DEF MismatchIndexes
<1>5. ASSUME NEW e \in 1..(n + 1), \A i \in 1..(e - 1) : s[i] = t[i],
             ~(e \in DOMAIN s /\ e \in DOMAIN t /\ s[e] = t[e])
      PROVE  PartAt(s, t, e)
  <2>1. SubSeq(s, 1, e - 1) = SubSeq(t, 1, e - 1)
    <3> DEFINE p == SubSeq(s, 1, e - 1)
               q == SubSeq(t, 1, e - 1)
    <3>1. e - 1 \in Nat /\ e - 1 <= Len(s) /\ e - 1 <= Len(t)
      BY <1>1, <1>2, <1>5
    <3>2. \A i \in 1..(e - 1) : s[i] \in Int /\ t[i] \in Int
      BY <1>1, <3>1, ElementOfSeq
    <3>3. p \in Seq(Int) /\ Len(p) = e - 1 /\ \A i \in 1..(e - 1) : p[i] = s[i]
      BY <3>1, <3>2, SubSeqProperties
    <3>4. q \in Seq(Int) /\ Len(q) = e - 1 /\ \A i \in 1..(e - 1) : q[i] = t[i]
      BY <3>1, <3>2, SubSeqProperties
    <3> HIDE DEF p, q
    <3>5. \A i \in 1..Len(p) : p[i] = q[i]
      BY <1>5, <3>3, <3>4
    <3>6. p = q
      BY <3>3, <3>4, <3>5, SeqEqual
    <3> QED
      BY <3>6 DEF p, q
  <2> QED
    BY <1>2, <1>3, <1>5, <2>1 DEF PartAt
<1>6. CASE M # {}
  <2>1. d = Min(M)
    BY <1>6 DEF FirstDivergence
  <2>2. M \in SUBSET Nat
    BY <1>2, <1>4
  <2> HIDE DEF M, d
  <2>3. d \in M /\ \A y \in M : d <= y
    BY <1>6, <2>1, <2>2, MinIsLeast
  <2> HIDE DEF n
  <2>4. d \in 1..n /\ s[d] # t[d] /\ \A i \in 1..n : s[i] # t[i] => d <= i
    BY <1>2, <1>4, <2>3
  <2>5. d \in 1..(n + 1) /\ \A i \in 1..(d - 1) : s[i] = t[i]
    BY <1>2, <2>4
  <2>6. PartAt(s, t, d)
    BY <1>5, <2>4, <2>5
  <2> QED
    BY <2>6 DEF d
<1>7. CASE M = {} /\ SameLength(plan, obs)
  BY <1>7, SameTokens DEF FirstDivergence, PartAt
<1>8. CASE M = {} /\ ~SameLength(plan, obs)
  <2>1. d = n + 1 /\ n + 1 \in 1..(n + 1)
    BY <1>2, <1>8 DEF FirstDivergence
  <2>2. ~(d \in DOMAIN s /\ d \in DOMAIN t)
    BY <1>1, <1>2, <1>8, <2>1 DEF SameLength
  <2>3. \A i \in 1..(d - 1) : s[i] = t[i]
    BY <1>2, <1>4, <1>8, <2>1
  <2> QED
    BY <1>5, <2>1, <2>2, <2>3
<1> QED
  BY <1>6, <1>7, <1>8

(* A verdict of replay.py is right in every part: it agrees with exactly   *)
(* the reproductions, its first divergence is where the sequences part, it *)
(* blames the replay for dictated tokens that did not come back and for    *)
(* those only, and it compares logprobs only where both sides have some.   *)
THEOREM VerdictIsAlwaysRight ==
    ASSUME NEW plan, NEW obs, WellFormed(plan, obs), Absent \notin Nat
    PROVE  RightVerdict(Verdict(plan, obs), plan, obs)
<1>1. Verdict(plan, obs).agrees <=> Reproduces(plan, obs)
  BY AgreementIsReproduction DEF Verdict
<1>2. PartAt(plan.tokens, obs.tokens, Verdict(plan, obs).first)
  BY DivergenceIsFirst DEF Verdict
<1>3. "echo" \in Verdict(plan, obs).protocol <=> obs.forced /\ obs.tokens # plan.tokens
  BY EchoViolation, SameTokens DEF Verdict
<1>4. ASSUME Verdict(plan, obs).lane = "compared"
      PROVE  plan.logprobs # <<>> /\ obs.logprobs # <<>>
  BY <1>4 DEF Verdict, Lane, Covers
<1> QED
  BY <1>1, <1>2, <1>3, <1>4 DEF RightVerdict

=============================================================================
