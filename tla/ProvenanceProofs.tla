-------------------------- MODULE ProvenanceProofs --------------------------
(***************************************************************************)
(* Theorems about NcclDriver.tla and Provenance.tla: that a committed      *)
(* update names its weights, and what a verdict of validate_replay.py says *)
(* of the weights behind a record, for any training steps, number of       *)
(* records, tokens and logprobs.                                           *)
(*                                                                         *)
(* The invariant follows a record from the rollout to the verdict: its     *)
(* tokens and logprobs are those of the weights that ran, before the file  *)
(* and after it; replays without a flaw stand in the order of the file;    *)
(* and a verdict is the comparison of the two files.  That a comparison    *)
(* agrees with exactly the reproductions is taken from ReplayProofs.       *)
(***************************************************************************)
EXTENDS Provenance, SequenceTheorems, TLAPS

R == INSTANCE ReplayProofs WITH Absent <- None

-----------------------------------------------------------------------------
(* The driver alone, for any number of updates: a committed update names   *)
(* its weights.                                                            *)

(* The cache speaks for the provenance declared now; from the check of the *)
(* transfer on the target names what is declared, and the trainer, being   *)
(* careful, stays where it is until the label is written.                  *)
CacheFollows == cached # Uncomputed => cached.source = provenance

Transferring == phase \in {"sending", "half", "sent", "finished"}

TargetNames ==
    careful /\ Transferring => target.identity.source \in {None, trainer}

Undisturbed ==
    /\ careful /\ phase = "draining" => provenance \in {None, trainer}
    /\ careful /\ phase = "half" => half = trainer
    /\ careful /\ phase \in {"sent", "finished"} => holds = trainer

(* An open update has a target.                                            *)
HasTarget == phase = "draining" \/ Transferring => target \in NTargets

NInv == NTypeOK /\ CacheFollows /\ TargetNames /\ Undisturbed /\ HasTarget /\ LabelNamesWeights

-----------------------------------------------------------------------------
(* What the driver answers for its identity carries the provenance it was  *)
(* last told, whether it comes from the cache or is computed again.        *)
LEMMA IdentityIsDeclared ==
    ASSUME NTypeOK, CacheFollows
    PROVE  IdentityNow \in Identities /\ IdentityNow.source = provenance
  BY DEF NTypeOK, CacheFollows, IdentityNow, Identities, Identity, Declared

(* An identity computed from the model is one, with the source declared.   *)
LEMMA IdentityComputed ==
    ASSUME NEW s \in Steps, NEW p \in Declared
    PROVE  Identity(s, p) \in Identities /\ Identity(s, p).source = p
  BY DEF Identities, Identity

(* The initial states.                                                     *)
LEMMA NccInit == ASSUME NcclAssumption PROVE NInit => NInv
  BY DEF NcclAssumption, NInit, NInv, NTypeOK, CacheFollows, TargetNames, Undisturbed,
         HasTarget, LabelNamesWeights, Transferring, Serving, Declared, Weights, Phases

(* Every step keeps the invariant; NTypeOK with each.                      *)
LEMMA NcclStep == ASSUME NcclAssumption, NInv, [DriverNext]_nvars PROVE NInv'
<1> USE DEF NInv, NTypeOK, CacheFollows, TargetNames, Undisturbed,
        HasTarget, LabelNamesWeights, Transferring, Serving, Declared, Weights, Phases,
        driver, engine
<1>1. CASE TrainerStep
  BY <1>1 DEF TrainerStep
<1>2. CASE AskIdentity
  BY <1>2, IdentityIsDeclared DEF AskIdentity
<1>3. ASSUME NEW p \in Steps, Declare(p) PROVE NInv'
  BY <1>3, IdentityComputed DEF Declare
<1>4. ASSUME NEW d \in Devices \cup {None}, DriverInitialize(d) PROVE NInv'
  <2>1. IdentityNow \in Identities /\ IdentityNow.source = provenance
    BY IdentityIsDeclared
  <2>2. committed' \in NTargets /\ committed'.version = 0
    BY <1>4, <2>1 DEF DriverInitialize, NTargets
  <2>3. attached' \in BOOLEAN
    BY <1>4, Zenon DEF DriverInitialize
  <2> QED
    BY <1>4, <2>1, <2>2, <2>3 DEF DriverInitialize
<1>5. ASSUME NEW i \in Identities, OpenUpdate(i) PROVE NInv'
  BY <1>5 DEF OpenUpdate, NTargets
<1>6. ASSUME NEW d \in Devices \cup {None}, TransferRefused(d) PROVE NInv'
  BY <1>6, IdentityIsDeclared DEF TransferRefused
<1>7. ASSUME NEW d \in Devices \cup {None}, TransferStart(d) PROVE NInv'
  BY <1>7, IdentityIsDeclared DEF TransferStart, NTargets
<1>8. CASE SendHalf
  BY <1>8 DEF SendHalf
<1>9. CASE SendRest
  BY <1>9 DEF SendRest
<1>10. CASE FinishLabel
  BY <1>10 DEF FinishLabel
<1>11. CASE SendFails
  BY <1>11 DEF SendFails
<1>12. CASE CommitUpdate
  <2>1. target \in NTargets /\ committed' \in NTargets
    BY <1>12 DEF CommitUpdate
  <2>2. careful => committed'.identity.source \in {None, holds}
    BY <1>12, <2>1 DEF CommitUpdate
  <2> QED
    BY <1>12, <2>1, <2>2 DEF CommitUpdate
<1>13. CASE DriverShutdown
  <2>1. attached' \in BOOLEAN
    BY <1>13, Zenon DEF DriverShutdown
  <2> QED
    BY <1>13, <2>1 DEF DriverShutdown
<1>14. CASE UNCHANGED nvars
  BY <1>14 DEF nvars
<1> QED
  BY <1>1, <1>2, <1>3, <1>4, <1>5, <1>6, <1>7, <1>8, <1>9, <1>10, <1>11,
     <1>12, <1>13, <1>14 DEF DriverNext

(* The invariant holds always.                                             *)
THEOREM NcclInductive == ASSUME NcclAssumption PROVE NSpec => []NInv
  BY NccInit, NcclStep, PTL DEF NSpec

(* Type correctness of the driver, the sync client and the engine.         *)
THEOREM NcclTypeCorrect == ASSUME NcclAssumption PROVE NSpec => []NTypeOK
<1>1. NInv => NTypeOK
  BY DEF NInv
<1> QED
  BY NcclInductive, <1>1, PTL

(* A version that an update installed names the weights it serves, under a *)
(* careful trainer, for any number of updates, declarations, refusals and  *)
(* failed transfers.                                                       *)
THEOREM WeightsAreNamed == ASSUME NcclAssumption PROVE NSpec => []LabelNamesWeights
<1>1. NInv => LabelNamesWeights
  BY DEF NInv
<1> QED
  BY NcclInductive, <1>1, PTL

-----------------------------------------------------------------------------
(* What the sequences hold.                                                *)

(* The tokens to which all weights give a logprob.                         *)
Vocabulary == {k \in Int : \A w \in Weights : Logprobs[w][k] \in Int}

Recs == [request : Requests, version : Nat, identity : Identities, prompt : {Prompt},
         tokens : Seq(Vocabulary), logprobs : Seq(Int)]

Lines == {Encode(t) : t \in Recs}

HowMade == [weights : Steps \cup {Boot}, flaw : Flaws \cup {None}]

Digests == {i.digest : i \in Identities}

Observations ==
    [request : Requests \cup {Stray}, version : Nat, tokens : Seq(Int),
     logprobs : Seq(Int), digest : Digests \cup {None},
     prompt : {Prompt, OtherPrompt}, forced : BOOLEAN]

-----------------------------------------------------------------------------
(* The inductive invariant.                                                *)

(* t is the record of a rollout that the weights w produced.               *)
RanOn(t, w) ==
    /\ t \in Recs
    /\ t.tokens = Tokens[w]
    /\ t.logprobs \in {<<>>, Scores(w, Tokens[w])}

(* The records before and after the file is written.                       *)
Recording ==
    /\ ran \in Seq(Weights) /\ recorded \in Seq(Recs) /\ file \in Seq(Lines)
    /\ Len(ran) <= MaxRecords
    /\ file = <<>> => /\ Len(recorded) = Len(ran)
                      /\ \A i \in 1..Len(ran) : RanOn(recorded[i], ran[i])
    /\ file # <<>> => /\ Len(file) = Len(ran)
                      /\ \A i \in 1..Len(ran) : RanOn(Decode(file[i]), ran[i])

ReplaysTyped ==
    /\ mode \in Modes \cup {None}
    /\ file = <<>> => mode = None
    /\ mode = None => by = <<>> /\ replays = <<>> /\ verdict = None
    /\ by \in Seq(HowMade) /\ replays \in Seq(Observations)
    /\ Len(by) <= Len(file) /\ Len(replays) <= Len(by)

(* o is a replay of t under the weights w with nothing wrong but noise.    *)
Made(t, w, o) == \E noise \in 0..Tolerance : o = Observation(t, w, noise, None)

(* As long as no replay had a flaw, they stand in the order of the file.   *)
Aligned ==
    (\A i \in 1..Len(by) : by[i].flaw = None) =>
        /\ Len(replays) = Len(by)
        /\ \A i \in 1..Len(by) : Made(Decode(file[i]), by[i].weights, replays[i])

Outcomes == [i \in DOMAIN file |-> Outcome(Trajectories[i])]

Clean == (\A i \in DOMAIN file : Outcomes[i] = "agrees") /\ Replayed \subseteq Matched

Result ==
    IF BadReplayFile THEN [code |-> 2, outcomes |-> <<>>]
    ELSE [code |-> IF Clean THEN 0 ELSE 1, outcomes |-> Outcomes]

VerdictGiven == verdict # None => Len(by) = Len(file) /\ verdict = Result

PInv == NInv /\ Recording /\ ReplaysTyped /\ Aligned /\ VerdictGiven

-----------------------------------------------------------------------------
(* Records and observations.                                               *)

(* What to_json writes, from_json reads back.                              *)
LEMMA RoundTrip ==
  ASSUME NEW t \in Recs
  PROVE  /\ Decode(Encode(t)) = t
         /\ Encode(t).request_id = t.request /\ Encode(t).logprobs = t.logprobs
         /\ Encode(t).identity.source =
               IF ReplayReady(t) THEN <<t.identity.source>> ELSE <<>>
<1>1. PICK s \in Steps, p \in Declared : t.identity = Identity(s, p)
  BY DEF Recs, Identities
<1>2. t = [request |-> t.request, version |-> t.version, identity |-> t.identity,
           prompt |-> t.prompt, tokens |-> t.tokens, logprobs |-> t.logprobs]
  BY DEF Recs
<1>3. IdentityFromJson(Encode(t).identity) = t.identity
  BY <1>1 DEF IdentityFromJson, Encode, Identity
<1>4. Decode(Encode(t)) = t
  BY <1>2, <1>3 DEF Decode, Encode
<1>5. /\ Encode(t).request_id = t.request /\ Encode(t).logprobs = t.logprobs
      /\ Encode(t).identity.source =
            IF ReplayReady(t) THEN <<t.identity.source>> ELSE <<>>
  BY DEF Encode, ReplayReady
<1> QED
  BY <1>4, <1>5

(* What the weights emit is in the vocabulary.                             *)
LEMMA TokensTyped ==
  ASSUME NEW w \in Weights
  PROVE  /\ Tokens[w] \in Seq(Vocabulary) /\ Len(Tokens[w]) \in Nat \ {0}
         /\ DOMAIN Tokens[w] = 1..Len(Tokens[w])
<1>1. Tokens[w] \in Seq(Int) /\ Tokens[w] # <<>>
  BY ProvenanceAssumption
<1>2. \A k \in 1..Len(Tokens[w]) : Tokens[w][k] \in Vocabulary
  <2> SUFFICES ASSUME NEW k \in 1..Len(Tokens[w]) PROVE Tokens[w][k] \in Vocabulary
    OBVIOUS
  <2>1. Tokens[w][k] \in Int /\ k \in DOMAIN Tokens[w]
    BY <1>1, ElementOfSeq
  <2>2. \A v \in Weights : Logprobs[v][Tokens[w][k]] \in Int
    BY <2>1, ProvenanceAssumption
  <2> QED
    BY <2>1, <2>2 DEF Vocabulary
<1>3. Len(Tokens[w]) \in Nat /\ Len(Tokens[w]) # 0 /\ DOMAIN Tokens[w] = 1..Len(Tokens[w])
  BY <1>1, EmptySeq, LenProperties
<1>4. Tokens[w] \in Seq(Vocabulary)
  BY <1>1, <1>2, <1>3, SeqDef
<1> QED
  BY <1>3, <1>4

(* There is one score for each token.                                      *)
LEMMA ScoresTyped ==
  ASSUME NEW w \in Weights, NEW ids \in Seq(Vocabulary)
  PROVE  /\ Scores(w, ids) \in Seq(Int) /\ Len(Scores(w, ids)) = Len(ids)
         /\ \A k \in 1..Len(ids) : Scores(w, ids)[k] = Logprobs[w][ids[k]]
<1>1. Len(ids) \in Nat /\ DOMAIN ids = 1..Len(ids)
  BY LenProperties
<1>2. Scores(w, ids) = [k \in 1..Len(ids) |-> Logprobs[w][ids[k]]]
  BY <1>1 DEF Scores
<1>3. \A k \in 1..Len(ids) : Logprobs[w][ids[k]] \in Int
  BY ElementOfSeq DEF Vocabulary
<1>4. Scores(w, ids) \in [1..Len(ids) -> Int]
  BY <1>2, <1>3
<1>5. Scores(w, ids) \in Seq(Int)
  BY <1>1, <1>4, SeqDef
<1>6. Len(Scores(w, ids)) = Len(ids)
  BY <1>1, <1>4, <1>5, LenProperties
<1> QED
  BY <1>2, <1>5, <1>6

LEMMA ShorterTyped ==
  ASSUME NEW S, NEW s \in Seq(S)
  PROVE  /\ Shorter(s) \in Seq(S)
         /\ Len(Shorter(s)) = IF s = <<>> THEN 0 ELSE Len(s) - 1
<1>1. Len(s) \in Nat /\ (Len(s) = 0 <=> s = <<>>)
  BY LenProperties, EmptySeq
<1>2. \A k \in 1..(Len(s) - 1) : s[k] \in S
  BY <1>1, ElementOfSeq
<1>3. /\ Shorter(s) \in Seq(S)
      /\ Len(Shorter(s)) = IF 1 <= Len(s) - 1 THEN Len(s) - 1 - 1 + 1 ELSE 0
  BY <1>1, <1>2, SubSeqProperties DEF Shorter
<1> QED
  BY <1>1, <1>3

(* Noise at the last position moves the last score only.                   *)
LEMMA NoisyTyped ==
  ASSUME NEW s \in Seq(Int), NEW noise \in Nat
  PROVE  /\ [s EXCEPT ![Len(s)] = @ + noise] \in Seq(Int)
         /\ Len([s EXCEPT ![Len(s)] = @ + noise]) = Len(s)
         /\ \A k \in 1..Len(s) : [s EXCEPT ![Len(s)] = @ + noise][k] \in {s[k], s[k] + noise}
<1> DEFINE z == [s EXCEPT ![Len(s)] = @ + noise]
<1>1. Len(s) \in Nat /\ s \in [1..Len(s) -> Int]
  BY LenProperties
<1>2. z \in [1..Len(s) -> Int] /\ \A k \in 1..Len(s) : z[k] \in {s[k], s[k] + noise}
  <2>1. z = [k \in 1..Len(s) |-> IF k = Len(s) THEN s[k] + noise ELSE s[k]]
    BY <1>1
  <2>2. \A k \in 1..Len(s) : s[k] \in Int /\ s[k] + noise \in Int
    BY <1>1
  <2> HIDE DEF z
  <2> QED
    BY <2>1, <2>2
<1> HIDE DEF z
<1>3. z \in Seq(Int)
  BY <1>1, <1>2, SeqDef
<1>4. Len(z) = Len(s)
  BY <1>1, <1>2, <1>3, LenProperties
<1> QED
  BY <1>2, <1>3, <1>4 DEF z

(* An observation is well typed, whatever weights it is made under and     *)
(* whatever is wrong with it.                                              *)
LEMMA ObservationTyped ==
  ASSUME NEW t \in Recs, t.tokens # <<>>, NEW w \in Weights, NEW noise \in Nat,
         NEW flaw \in Flaws \cup {None}, mode \in Modes
  PROVE  Observation(t, w, noise, flaw) \in Observations
<1> DEFINE ids == ReplayedTokens(t, w, flaw)
           lps == ReplayedLogprobs(w, ids, noise)
<1>1. ids \in Seq(Vocabulary)
  <2> DEFINE base == IF mode.forced /\ flaw # "bad echo" THEN t.tokens ELSE Tokens[w]
  <2>1. base \in Seq(Vocabulary) /\ base # <<>>
    BY TokensTyped, EmptySeq DEF Recs
  <2> HIDE DEF base
  <2>2. base[1] \in Vocabulary
    BY <2>1, EmptySeq, ElementOfSeq
  <2>3. Append(base, base[1]) \in Seq(Vocabulary) /\ Shorter(base) \in Seq(Vocabulary)
    BY <2>1, <2>2, AppendProperties, ShorterTyped
  <2>4. ids \in {Shorter(base), Append(base, base[1]), base}
    BY DEF ReplayedTokens, base
  <2> QED
    BY <2>1, <2>3, <2>4
<1> HIDE DEF ids
<1>2. lps \in Seq(Int)
  <2> DEFINE all == [Scores(w, ids) EXCEPT ![Len(ids)] = @ + noise]
  <2>1. all \in Seq(Int)
    BY <1>1, ScoresTyped, NoisyTyped
  <2>2. lps \in {all, Shorter(all), <<>>}
    BY DEF ReplayedLogprobs
  <2> HIDE DEF all, lps
  <2> QED
    BY <2>1, <2>2, ShorterTyped, EmptySeq
<1> HIDE DEF lps
<1>3. ids \in Seq(Int)
  BY <1>1, SeqMonotonic DEF Vocabulary
<1>4. \A v \in Steps : Identity(v, v).digest \in Digests
  BY IdentityComputed DEF Digests, Declared
<1>5. t.request \in Requests /\ t.version \in Nat /\ t.prompt = Prompt
  BY DEF Recs
<1>6. mode.forced \in BOOLEAN
  BY DEF Modes
<1> DEFINE request == IF flaw = "stray" THEN Stray ELSE t.request
           version == IF flaw = "wrong label" THEN t.version + 1 ELSE t.version
           digest  == IF mode.digest /\ w \in Steps THEN Identity(w, w).digest ELSE None
           prompt  == IF flaw = "wrong prompt" THEN OtherPrompt ELSE t.prompt
<1>7. Observation(t, w, noise, flaw) =
         [request |-> request, version |-> version, tokens |-> ids, logprobs |-> lps,
          digest |-> digest, prompt |-> prompt, forced |-> mode.forced]
  BY DEF Observation, ids, lps
<1>8. digest \in Digests \cup {None}
  BY <1>4
<1>9. request \in Requests \cup {Stray} /\ prompt \in {Prompt, OtherPrompt}
  BY <1>5
<1>10. version \in Nat
  <2>1. t.version + 1 \in Nat
    BY <1>5
  <2> QED
    BY <1>5, <2>1, Zenon
<1> HIDE DEF request, version, digest, prompt
<1> QED
  BY <1>2, <1>3, <1>6, <1>7, <1>8, <1>9, <1>10 DEF Observations

(* A record of a rollout that ran names some weights or none.              *)
LEMMA NamedTyped ==
  ASSUME NEW t \in Recs
  PROVE  Named(t) \in Steps \cup {Boot}
  BY DEF Named, ReplayReady, Recs, Identities, Identity, Declared

-----------------------------------------------------------------------------
(* Every step preserves the invariant.                                     *)

LEMMA PInitInv == PInit => PInv
<1> SUFFICES ASSUME PInit PROVE PInv
  OBVIOUS
<1>1. NInv
  BY NccInit, NcclAssumption DEF PInit
<1>2. Recording
  <2>1. Len(ran) = 0 /\ ran = <<>> /\ recorded = <<>> /\ file = <<>>
    BY DEF PInit
  <2> QED
    BY <2>1, EmptySeq, ProvenanceAssumption DEF Recording
<1>3. ReplaysTyped /\ Aligned
  <2>1. /\ by = <<>> /\ replays = <<>> /\ file = <<>> /\ mode = None /\ verdict = None
        /\ Len(by) = 0 /\ Len(replays) = 0 /\ Len(file) = 0
    BY DEF PInit
  <2> QED
    BY <2>1, EmptySeq DEF ReplaysTyped, Aligned
<1>4. VerdictGiven
  BY DEF PInit, VerdictGiven
<1> QED
  BY <1>1, <1>2, <1>3, <1>4 DEF PInv

(* How a replay is made depends on the mode only.                          *)
LEMMA MadeInMode ==
  ASSUME UNCHANGED mode
  PROVE  \A t, w, o : Made(t, w, o)' <=> Made(t, w, o)
<1>1. \A t, w, flaw : ReplayedTokens(t, w, flaw)' = ReplayedTokens(t, w, flaw)
  BY DEF ReplayedTokens
<1>2. \A w, ids, noise : ReplayedLogprobs(w, ids, noise)' = ReplayedLogprobs(w, ids, noise)
  BY DEF ReplayedLogprobs
<1>3. \A t, w, noise, flaw : Observation(t, w, noise, flaw)' = Observation(t, w, noise, flaw)
  BY <1>1, <1>2 DEF Observation
<1> QED
  BY <1>3 DEF Made

(* What is said of the files and of the verdict depends on nothing else.   *)
LEMMA FilesUnchanged ==
  ASSUME PInv, UNCHANGED <<records, replaying, verdict>>
  PROVE  Recording' /\ ReplaysTyped' /\ Aligned' /\ VerdictGiven'
<1>1. /\ UNCHANGED <<asked, recorded, ran, file>>
      /\ UNCHANGED <<mode, replays, by>> /\ UNCHANGED verdict
  BY DEF records, replaying
<1>2. Recording' /\ ReplaysTyped'
  BY <1>1 DEF PInv, Recording, ReplaysTyped
<1>3. Aligned'
  BY <1>1, MadeInMode DEF PInv, Aligned
<1>4. Result' = Result
  BY <1>1 DEF Result, BadReplayFile, Clean, Outcomes, Outcome, Trajectories, Replayed,
              Matched, ByRequest
<1>5. VerdictGiven'
  BY <1>1, <1>4 DEF PInv, VerdictGiven
<1> QED
  BY <1>2, <1>3, <1>5

LEMMA RecordPreserves ==
  ASSUME PInv, Record
  PROVE  PInv'
<1>1. /\ file = <<>> /\ Serving /\ Len(recorded) < MaxRecords
      /\ ran' = Append(ran, holds)
      /\ UNCHANGED <<nvars, asked, file, mode, replays, by, verdict>>
  BY DEF Record, replaying
<1>2. holds \in Weights /\ committed \in NTargets
  BY <1>1 DEF PInv, NInv, NTypeOK
<1>3. PICK r \in Requests :
         recorded' = Append(recorded,
            [request |-> r, version |-> committed.version,
             identity |-> committed.identity, prompt |-> Prompt,
             tokens |-> Tokens[holds],
             logprobs |-> IF asked THEN Scores(holds, Tokens[holds]) ELSE <<>>])
  BY DEF Record
<1> DEFINE lps == IF asked THEN Scores(holds, Tokens[holds]) ELSE <<>>
           rec == [request |-> r, version |-> committed.version,
                   identity |-> committed.identity, prompt |-> Prompt,
                   tokens |-> Tokens[holds], logprobs |-> lps]
<1>4. RanOn(rec, holds)
  <2>1. lps \in Seq(Int) /\ lps \in {<<>>, Scores(holds, Tokens[holds])}
    BY <1>2, TokensTyped, ScoresTyped, EmptySeq
  <2> HIDE DEF lps
  <2> QED
    BY <1>2, <2>1, TokensTyped DEF RanOn, Recs, NTargets
<1>5. rec \in Recs /\ recorded' = Append(recorded, rec)
  BY <1>3, <1>4 DEF RanOn
<1> HIDE DEF rec
<1>6. /\ ran \in Seq(Weights) /\ recorded \in Seq(Recs) /\ Len(recorded) = Len(ran)
      /\ Len(ran) \in Nat /\ MaxRecords \in Nat
      /\ \A i \in 1..Len(ran) : RanOn(recorded[i], ran[i])
  BY <1>1, LenProperties, ProvenanceAssumption DEF PInv, Recording
<1>7. /\ ran' \in Seq(Weights) /\ recorded' \in Seq(Recs)
      /\ Len(ran') = Len(ran) + 1 /\ Len(recorded') = Len(ran) + 1
      /\ ran'[Len(ran) + 1] = holds /\ recorded'[Len(ran) + 1] = rec
      /\ \A i \in 1..Len(ran) : ran'[i] = ran[i] /\ recorded'[i] = recorded[i]
  BY <1>1, <1>2, <1>5, <1>6, AppendProperties
<1>8. \A i \in 1..Len(ran') : RanOn(recorded'[i], ran'[i])
  <2> SUFFICES ASSUME NEW i \in 1..Len(ran') PROVE RanOn(recorded'[i], ran'[i])
    OBVIOUS
  <2>1. CASE i = Len(ran) + 1
    BY <1>4, <1>7, <2>1
  <2>2. CASE i # Len(ran) + 1
    <3>1. i \in 1..Len(ran)
      BY <1>6, <1>7, <2>2
    <3> QED
      BY <1>6, <1>7, <3>1
  <2> QED
    BY <2>1, <2>2
<1>9. Recording'
  <2>1. Len(ran') <= MaxRecords
    BY <1>1, <1>6, <1>7
  <2>2. file' = <<>> /\ file' \in Seq(Lines)
    BY <1>1 DEF PInv, Recording
  <2>3. \A i \in 1..Len(ran') : RanOn(recorded[i], ran[i])'
    BY <1>8 DEF RanOn, Scores
  <2> QED
    BY <1>7, <2>1, <2>2, <2>3 DEF Recording
<1>10. NInv'
  BY <1>1, NcclStep, NcclAssumption DEF PInv
<1>11. /\ mode = None /\ by = <<>> /\ replays = <<>> /\ verdict = None
       /\ mode' = None /\ by' = <<>> /\ replays' = <<>> /\ verdict' = None
  BY <1>1 DEF PInv, ReplaysTyped
<1>12. ReplaysTyped'
  BY <1>1 DEF PInv, ReplaysTyped
<1>13. Aligned'
  <2>1. Len(by') = 0 /\ Len(replays') = 0
    BY <1>11
  <2> QED
    BY <2>1 DEF Aligned
<1>14. VerdictGiven'
  BY <1>11 DEF VerdictGiven
<1> QED
  BY <1>9, <1>10, <1>12, <1>13, <1>14 DEF PInv

LEMMA WritePreserves ==
  ASSUME PInv, WriteRecords
  PROVE  PInv'
<1>1. /\ file = <<>> /\ recorded # <<>>
      /\ file' = [i \in DOMAIN recorded |-> Encode(recorded[i])]
      /\ recorded' = <<>>
      /\ UNCHANGED <<ran, mode, replays, by, verdict>>
  BY DEF WriteRecords, replaying
<1>2. /\ ran \in Seq(Weights) /\ recorded \in Seq(Recs) /\ Len(recorded) = Len(ran)
      /\ Len(ran) \in Nat \ {0} /\ DOMAIN recorded = 1..Len(ran)
      /\ \A i \in 1..Len(ran) : RanOn(recorded[i], ran[i])
  BY <1>1, LenProperties, EmptySeq DEF PInv, Recording
<1>3. \A i \in 1..Len(ran) :
         file'[i] \in Lines /\ Decode(file'[i]) = recorded[i]
  <2> SUFFICES ASSUME NEW i \in 1..Len(ran)
               PROVE  file'[i] \in Lines /\ Decode(file'[i]) = recorded[i]
    OBVIOUS
  <2>1. file'[i] = Encode(recorded[i]) /\ recorded[i] \in Recs
    BY <1>1, <1>2 DEF RanOn
  <2> QED
    BY <2>1, RoundTrip DEF Lines
<1>4. file' \in Seq(Lines) /\ Len(file') = Len(ran)
  <2>1. file' \in [1..Len(ran) -> Lines]
    BY <1>1, <1>2, <1>3
  <2>2. file' \in Seq(Lines)
    BY <1>2, <2>1, SeqDef
  <2> QED
    BY <1>2, <2>1, <2>2, LenProperties
<1>5. Recording'
  <2>1. file' # <<>>
    BY <1>2, <1>4, EmptySeq
  <2>2. \A i \in 1..Len(ran) : RanOn(Decode(file[i]), ran[i])'
    BY <1>1, <1>2, <1>3 DEF RanOn, Scores
  <2>3. recorded' \in Seq(Recs) /\ Len(ran') <= MaxRecords
    BY <1>1, EmptySeq DEF PInv, Recording
  <2> QED
    BY <1>1, <1>2, <1>4, <2>1, <2>2, <2>3 DEF Recording
<1>6. /\ mode = None /\ by = <<>> /\ replays = <<>> /\ verdict = None
      /\ mode' = None /\ by' = <<>> /\ replays' = <<>> /\ verdict' = None
  BY <1>1 DEF PInv, ReplaysTyped
<1>7. ReplaysTyped' /\ Aligned' /\ VerdictGiven'
  <2>1. Len(by') = 0 /\ Len(replays') = 0
    BY <1>6
  <2> QED
    BY <1>2, <1>4, <1>6, <2>1, EmptySeq DEF ReplaysTyped, Aligned, VerdictGiven
<1>8. NInv'
  <2>1. /\ careful' = TRUE /\ trainer' = CHOOSE s \in Steps : TRUE
        /\ provenance' = None /\ cached' = Uncomputed /\ attached' = FALSE
        /\ device' = None /\ pending' = None
        /\ phase' = "stopped" /\ target' = None /\ half' = None
        /\ holds' = Torn /\ label' = None /\ committed' = None
    BY DEF WriteRecords
  <2>2. trainer' \in Steps
    BY <2>1 DEF PInv, NInv, NTypeOK
  <2> QED
    BY <2>1, <2>2 DEF NInv, NTypeOK, CacheFollows, TargetNames, Undisturbed, HasTarget,
                      LabelNamesWeights, Transferring, Serving, Declared, Weights, Phases
<1> QED
  BY <1>5, <1>7, <1>8 DEF PInv

LEMMA StartPreserves ==
  ASSUME PInv, StartReplay
  PROVE  PInv'
<1>1. /\ file # <<>> /\ mode = None /\ mode' \in Modes
      /\ UNCHANGED <<nvars, asked, recorded, ran, file, replays, by, verdict>>
  BY DEF StartReplay, records
<1>2. by = <<>> /\ replays = <<>> /\ verdict = None
  BY <1>1 DEF PInv, ReplaysTyped
<1>3. NInv'
  BY <1>1, NcclStep, NcclAssumption DEF PInv
<1>4. Recording'
  BY <1>1 DEF PInv, Recording, RanOn, Scores
<1>5. ReplaysTyped'
  BY <1>1, <1>2 DEF PInv, ReplaysTyped
<1>6. Aligned' /\ VerdictGiven'
  <2>1. Len(by') = 0 /\ Len(replays') = 0 /\ verdict' = None
    BY <1>1, <1>2
  <2> QED
    BY <2>1 DEF Aligned, VerdictGiven
<1> QED
  BY <1>3, <1>4, <1>5, <1>6 DEF PInv

(* The record that is replayed next.                                       *)
LEMMA NextRecord ==
  ASSUME PInv, NEW i \in 1..Len(file)
  PROVE  /\ Trajectories[i] = Decode(file[i])
         /\ Trajectories[i] \in Recs /\ Trajectories[i].tokens # <<>>
         /\ ran[i] \in Weights /\ RanOn(Trajectories[i], ran[i])
         /\ file[i].request_id = Trajectories[i].request
         /\ file[i].logprobs = Trajectories[i].logprobs
         /\ file[i].identity.source =
               IF ReplayReady(Trajectories[i]) THEN <<Trajectories[i].identity.source>>
               ELSE <<>>
<1>1. file \in Seq(Lines) /\ Len(file) \in Nat /\ DOMAIN file = 1..Len(file) /\ file # <<>>
  BY LenProperties, EmptySeq DEF PInv, Recording
<1>2. Trajectories[i] = Decode(file[i])
  BY <1>1 DEF Trajectories
<1>3. ran[i] \in Weights /\ RanOn(Decode(file[i]), ran[i])
  BY <1>1, ElementOfSeq DEF PInv, Recording
<1>4. PICK t \in Recs : file[i] = Encode(t)
  BY <1>1, ElementOfSeq DEF Lines
<1>5. Decode(file[i]) = t
  BY <1>4, RoundTrip
<1>6. t.tokens # <<>>
  BY <1>3, <1>5, TokensTyped, EmptySeq DEF RanOn
<1> QED
  BY <1>2, <1>3, <1>4, <1>5, <1>6, RoundTrip

LEMMA ReplayPreserves ==
  ASSUME PInv, ReplayOne
  PROVE  PInv'
<1> DEFINE t == Trajectories[Len(by) + 1]
<1>1. /\ mode # None /\ verdict = None /\ Len(by) < Len(file)
      /\ UNCHANGED <<nvars, asked, recorded, ran, file, mode, verdict>>
  BY DEF ReplayOne, records
<1>2. PICK w \in Steps \cup {Boot}, noise \in 0..Tolerance, flaw \in Flaws \cup {None} :
        /\ by' = Append(by, [weights |-> w, flaw |-> flaw])
        /\ \/ replays' = replays /\ flaw # None
           \/ replays' = Append(replays, Observation(t, w, noise, flaw))
  <2>1. Len(by) + 1 \in 1..Len(file) /\ t \in Recs
    <3>1. Len(by) \in Nat /\ Len(file) \in Nat
      BY LenProperties DEF PInv, ReplaysTyped, Recording
    <3>2. Len(by) + 1 \in 1..Len(file)
      BY <1>1, <3>1
    <3> QED
      BY <3>2, NextRecord
  <2>2. 0 \in 0..Tolerance /\ Named(t) \in Steps \cup {Boot}
    BY <2>1, NamedTyped, ProvenanceAssumption
  <2> HIDE DEF t
  <2>3. CASE \E v \in Steps \cup {Boot}, noise \in 0..Tolerance :
               /\ by' = Append(by, [weights |-> v, flaw |-> None])
               /\ replays' = Append(replays, Observation(t, v, noise, None))
    BY <2>3
  <2>4. CASE \E flaw \in Flaws :
               /\ by' = Append(by, [weights |-> Named(t), flaw |-> flaw])
               /\ replays' = IF flaw = "omitted" THEN replays
                             ELSE Append(replays, Observation(t, Named(t), 0, flaw))
    <3>1. PICK flaw \in Flaws :
               /\ by' = Append(by, [weights |-> Named(t), flaw |-> flaw])
               /\ replays' = IF flaw = "omitted" THEN replays
                             ELSE Append(replays, Observation(t, Named(t), 0, flaw))
      BY <2>4
    <3>2. flaw \in Flaws \cup {None} /\ flaw # None
      BY FlawAssumption
    <3> QED
      BY <2>2, <3>1, <3>2
  <2> QED
    BY <2>3, <2>4 DEF ReplayOne, t
<1>3. /\ Len(by) \in Nat /\ Len(replays) \in Nat /\ Len(file) \in Nat
      /\ by \in Seq(HowMade) /\ replays \in Seq(Observations)
      /\ mode \in Modes /\ file # <<>> /\ Len(replays) <= Len(by)
  BY <1>1, LenProperties DEF PInv, ReplaysTyped, Recording
<1>4. Len(by) + 1 \in 1..Len(file)
  BY <1>1, <1>3
<1>5. t \in Recs /\ t.tokens # <<>> /\ t = Decode(file[Len(by) + 1])
  BY <1>4, NextRecord
<1> HIDE DEF t
<1>6. noise \in Nat /\ w \in Weights
  BY ProvenanceAssumption DEF Weights
<1>7. Observation(t, w, noise, flaw) \in Observations
  BY <1>3, <1>5, <1>6, ObservationTyped
<1> DEFINE h == [weights |-> w, flaw |-> flaw]
           o == Observation(t, w, noise, flaw)
<1>8. h \in HowMade /\ h.flaw = flaw /\ h.weights = w
  BY DEF HowMade
<1> HIDE DEF h, o
<1>9. /\ by' \in Seq(HowMade) /\ Len(by') = Len(by) + 1
      /\ by'[Len(by) + 1] = h /\ \A i \in 1..Len(by) : by'[i] = by[i]
  BY <1>2, <1>3, <1>8, AppendProperties DEF h
<1>10. \/ replays' = replays /\ flaw # None
       \/ /\ replays' \in Seq(Observations) /\ Len(replays') = Len(replays) + 1
          /\ replays'[Len(replays) + 1] = o
          /\ \A i \in 1..Len(replays) : replays'[i] = replays[i]
  <2>1. (replays' = replays /\ flaw # None) \/ replays' = Append(replays, o)
    BY <1>2 DEF o
  <2>2. o \in Observations
    BY <1>7 DEF o
  <2>3. ASSUME replays' = Append(replays, o)
        PROVE  /\ replays' \in Seq(Observations) /\ Len(replays') = Len(replays) + 1
               /\ replays'[Len(replays) + 1] = o
               /\ \A i \in 1..Len(replays) : replays'[i] = replays[i]
    BY <1>3, <2>2, <2>3, AppendProperties
  <2> QED
    BY <2>1, <2>3
<1>11. NInv'
  BY <1>1, NcclStep, NcclAssumption DEF PInv
<1>12. Recording'
  BY <1>1 DEF PInv, Recording, RanOn, Scores
<1>13. ReplaysTyped'
  <2>1. Len(replays') <= Len(by') /\ replays' \in Seq(Observations) /\ Len(by') <= Len(file')
    BY <1>1, <1>3, <1>4, <1>9, <1>10
  <2> QED
    BY <1>1, <1>3, <1>9, <2>1 DEF ReplaysTyped
<1>14. Aligned'
  <2> SUFFICES ASSUME \A i \in 1..Len(by') : by'[i].flaw = None
               PROVE  /\ Len(replays') = Len(by')
                      /\ \A i \in 1..Len(by') :
                            Made(Decode(file'[i]), by'[i].weights, replays'[i])
    BY <1>1, MadeInMode DEF Aligned
  <2>1. flaw = None /\ \A i \in 1..Len(by) : by[i].flaw = None
    BY <1>3, <1>8, <1>9
  <2>2. /\ Len(replays) = Len(by)
        /\ \A i \in 1..Len(by) : Made(Decode(file[i]), by[i].weights, replays[i])
    BY <2>1 DEF PInv, Aligned
  <2>3. Made(t, w, o)
    BY <2>1 DEF Made, o
  <2>4. ASSUME NEW i \in 1..Len(by')
        PROVE  Made(Decode(file'[i]), by'[i].weights, replays'[i])
    <3>1. CASE i = Len(by) + 1
      <4>1. by'[i].weights = w /\ replays'[i] = o /\ Decode(file'[i]) = t
        BY <1>1, <1>5, <1>8, <1>9, <1>10, <2>1, <2>2, <3>1
      <4> QED
        BY <2>3, <4>1
    <3>2. CASE i # Len(by) + 1
      <4>1. i \in 1..Len(by)
        BY <1>3, <1>9, <3>2
      <4>2. by'[i] = by[i] /\ replays'[i] = replays[i] /\ file'[i] = file[i]
        BY <1>1, <1>9, <1>10, <2>1, <2>2, <4>1
      <4> QED
        BY <2>2, <4>1, <4>2
    <3> QED
      BY <3>1, <3>2
  <2>5. Len(replays') = Len(by')
    BY <1>9, <1>10, <2>1, <2>2
  <2> QED
    BY <2>4, <2>5
<1>15. VerdictGiven'
  BY <1>1 DEF VerdictGiven
<1> QED
  BY <1>11, <1>12, <1>13, <1>14, <1>15 DEF PInv

LEMMA ValidatePreserves ==
  ASSUME PInv, Validate
  PROVE  PInv'
<1>1. /\ mode # None /\ verdict = None /\ Len(by) = Len(file)
      /\ UNCHANGED <<nvars, asked, recorded, ran, file, mode, replays, by>>
  BY DEF Validate, records, replaying
<1>2. verdict' = Result
  BY DEF Validate, Result, Clean, Outcomes
<1>3. NInv'
  BY <1>1, NcclStep, NcclAssumption DEF PInv
<1>4. Recording'
  BY <1>1 DEF PInv, Recording, RanOn, Scores
<1>5. ReplaysTyped'
  BY <1>1 DEF PInv, ReplaysTyped
<1>6. Aligned'
  BY <1>1, MadeInMode DEF PInv, Aligned
<1>7. Result' = Result
  BY <1>1 DEF Result, BadReplayFile, Clean, Outcomes, Outcome, Trajectories, Replayed,
              Matched, ByRequest
<1>8. VerdictGiven'
  BY <1>1, <1>2, <1>7 DEF VerdictGiven
<1> QED
  BY <1>3, <1>4, <1>5, <1>6, <1>8 DEF PInv

LEMMA PNextPreserves == PInv /\ [PNext]_pvars => PInv'
<1> SUFFICES ASSUME PInv, [PNext]_pvars PROVE PInv'
  OBVIOUS
<1>1. ASSUME [DriverNext]_nvars, UNCHANGED <<records, replaying, verdict>> PROVE PInv'
  <2>1. NInv'
    BY <1>1, NcclStep, NcclAssumption DEF PInv
  <2> QED
    BY <1>1, <2>1, FilesUnchanged DEF PInv
<1>2. CASE DriverStep
  BY <1>1, <1>2 DEF DriverStep
<1>3. CASE Record
  BY <1>3, RecordPreserves
<1>4. CASE WriteRecords
  BY <1>4, WritePreserves
<1>5. CASE StartReplay
  BY <1>5, StartPreserves
<1>6. CASE ReplayOne
  BY <1>6, ReplayPreserves
<1>7. CASE Validate
  BY <1>7, ValidatePreserves
<1>8. CASE UNCHANGED pvars
  BY <1>1, <1>8 DEF pvars
<1> QED
  BY <1>2, <1>3, <1>4, <1>5, <1>6, <1>7, <1>8 DEF PNext

(* The invariant holds in every reachable state.                           *)
THEOREM PInductive == PSpec => []PInv
  BY PInitInv, PNextPreserves, PTL DEF PSpec

-----------------------------------------------------------------------------
(* The operators of Replay.tla, under the names they have in ReplayProofs. *)

LEMMA SameOperators ==
  ASSUME NEW plan, NEW obs
  PROVE  /\ Agrees(plan, obs) <=> R!Agrees(plan, obs)
         /\ Reproduces(plan, obs) <=> R!Reproduces(plan, obs)
         /\ RightVerdict(Verdict(plan, obs), plan, obs)
               <=> R!RightVerdict(R!Verdict(plan, obs), plan, obs)
<1>1. /\ Compared(plan, obs) = R!Compared(plan, obs)
      /\ SameLength(plan, obs) <=> R!SameLength(plan, obs)
      /\ \A s, n : Covers(s, n) <=> R!Covers(s, n)
      /\ \A x, y : Distance(x, y) = R!Distance(x, y)
      /\ \A S : Min(S) = R!Min(S)
  BY DEF Compared, R!Compared, SameLength, R!SameLength, Covers, R!Covers,
         Distance, R!Distance, Min, R!Min
<1>2. MismatchIndexes(plan, obs) = R!MismatchIndexes(plan, obs)
  BY <1>1 DEF MismatchIndexes, R!MismatchIndexes
<1>3. Protocol(plan, obs) = R!Protocol(plan, obs)
  BY Zenon DEF Protocol, R!Protocol, MismatchIndexes, R!MismatchIndexes,
               Compared, R!Compared, SameLength, R!SameLength
<1>4. /\ FirstDivergence(plan, obs) = R!FirstDivergence(plan, obs)
      /\ Lane(plan, obs) = R!Lane(plan, obs)
      /\ Deltas(plan, obs) = R!Deltas(plan, obs)
  BY <1>1, <1>2 DEF FirstDivergence, R!FirstDivergence, Lane, R!Lane, Deltas, R!Deltas
<1>5. LogprobsAgree(plan, obs) <=> R!LogprobsAgree(plan, obs)
  BY <1>4 DEF LogprobsAgree, R!LogprobsAgree
<1>6. Agrees(plan, obs) <=> R!Agrees(plan, obs)
  BY <1>1, <1>2, <1>3, <1>5 DEF Agrees, R!Agrees
<1>7. Reproduces(plan, obs) <=> R!Reproduces(plan, obs)
  BY <1>1 DEF Reproduces, R!Reproduces
<1> DEFINE v == Verdict(plan, obs)
           w == R!Verdict(plan, obs)
<1>8. /\ v.agrees <=> w.agrees
      /\ v.protocol = w.protocol /\ v.first = w.first /\ v.lane = w.lane
  BY <1>3, <1>4, <1>6 DEF Verdict, R!Verdict
<1>9. \A s, t, d : PartAt(s, t, d) <=> R!PartAt(s, t, d)
  BY <1>1 DEF PartAt, R!PartAt
<1> HIDE DEF v, w
<1>10. RightVerdict(v, plan, obs) <=> R!RightVerdict(w, plan, obs)
  BY <1>7, <1>8, <1>9 DEF RightVerdict, R!RightVerdict
<1> QED
  BY <1>6, <1>7, <1>10 DEF v, w

(* A plan of a recorded rollout and an observation can be compared.        *)
LEMMA Comparable ==
  ASSUME NEW t, NEW w \in Weights, RanOn(t, w), NEW obs \in Observations
  PROVE  R!WellFormed(Plan(t), obs)
<1>1. t \in Recs /\ t.tokens = Tokens[w] /\ t.logprobs \in {<<>>, Scores(w, Tokens[w])}
  BY DEF RanOn
<1>2. t.tokens \in Seq(Vocabulary) /\ t.logprobs \in Seq(Int) /\ Vocabulary \subseteq Int
  BY <1>1 DEF Recs, Vocabulary
<1>3. t.tokens \in Seq(Int)
  BY <1>2, SeqMonotonic
<1>4. t.logprobs = <<>> \/ Len(t.logprobs) = Len(t.tokens)
  BY <1>1, TokensTyped, ScoresTyped
<1>5. obs.tokens \in Seq(Int) /\ obs.logprobs \in Seq(Int) /\ obs.forced \in BOOLEAN
  BY DEF Observations
<1> QED
  BY <1>2, <1>3, <1>4, <1>5 DEF R!WellFormed, Plan

(* So agreement is reproduction, and every verdict is right.               *)
LEMMA Judged ==
  ASSUME NEW t, NEW w \in Weights, RanOn(t, w), NEW obs \in Observations
  PROVE  /\ Agrees(Plan(t), obs) <=> Reproduces(Plan(t), obs)
         /\ RightVerdict(Verdict(Plan(t), obs), Plan(t), obs)
<1>1. R!WellFormed(Plan(t), obs) /\ None \notin Nat
  BY Comparable, ProvenanceAssumption
<1> QED
  BY <1>1, SameOperators, R!AgreementIsReproduction, R!VerdictIsAlwaysRight

(* The observation that counts for a request is one of its observations.   *)
LEMMA LastObservation ==
  ASSUME PInv, NEW r \in Replayed
  PROVE  \E k \in 1..Len(replays) : replays[k].request = r /\ ByRequest(r) = replays[k]
<1> DEFINE n == Len(replays)
           S == {k \in 1..n : replays[k].request = r}
           T == {n - k : k \in S}
<1>1. n \in Nat /\ DOMAIN replays = 1..n
  BY LenProperties DEF PInv, ReplaysTyped
<1>2. S # {}
  BY <1>1 DEF Replayed
<1>3. T \in SUBSET Nat /\ T # {}
  BY <1>1, <1>2
<1>4. PICK m \in T : \A y \in T : m <= y
  <2> HIDE DEF T
  <2> QED
    BY <1>3, R!MinIsLeast
<1>5. PICK k \in S : m = n - k
  OBVIOUS
<1>6. /\ k \in 1..n /\ replays[k].request = r
      /\ \A l \in (k + 1)..n : replays[l].request # r
  <2>1. ASSUME NEW l \in (k + 1)..n, replays[l].request = r PROVE FALSE
    <3>1. k \in 1..n /\ l \in 1..n /\ n - l < n - k
      BY <1>1, <1>5, <2>1
    <3>2. n - l \in T
      BY <2>1, <3>1
    <3> HIDE DEF T, S
    <3>3. m <= n - l
      BY <1>4, <3>2
    <3> QED
      BY <1>1, <1>5, <3>1, <3>3
  <2> QED
    BY <1>5, <2>1
<1> DEFINE Last(j) == /\ replays[j].request = r
                      /\ \A l \in (j + 1)..n : replays[l].request # r
           c == CHOOSE j \in DOMAIN replays : Last(j)
<1>7. k \in DOMAIN replays /\ Last(k)
  BY <1>1, <1>6
<1>8. c \in DOMAIN replays /\ Last(c)
  <2> HIDE DEF Last
  <2> QED
    BY <1>7
<1>9. ByRequest(r) = replays[c]
  BY DEF ByRequest
<1> QED
  BY <1>1, <1>8, <1>9

-----------------------------------------------------------------------------
(* The properties of Provenance.tla.                                       *)

(* Type correctness of the trainer, its records, the replays and verdicts. *)
THEOREM ProvenanceTypeCorrect == PSpec => []PTypeOK
<1>1. PInv => PTypeOK
  <2> SUFFICES ASSUME PInv PROVE PTypeOK
    OBVIOUS
  <2>1. NTypeOK
    BY DEF PInv, NInv
  <2>2. \A i \in DOMAIN ran : ran[i] \in Weights
    BY LenProperties, ElementOfSeq DEF PInv, Recording
  <2>3. verdict # None => verdict.code \in 0..2
    BY DEF PInv, VerdictGiven, Result
  <2> QED
    BY <2>1, <2>2, <2>3 DEF PTypeOK, PInv, Recording, ReplaysTyped
<1> QED
  BY <1>1, PInductive, PTL

(* VerdictIsRight (validate_replay): whatever was recorded, declared or    *)
(* replayed, a verdict agrees with exactly the reproductions, finds the    *)
(* first difference and blames the right side.                             *)
THEOREM EveryVerdictIsRight == PSpec => []VerdictIsRight
<1>1. PInv => VerdictIsRight
  <2> SUFFICES ASSUME PInv, NEW i \in DOMAIN file, NEW k \in DOMAIN replays
               PROVE  RightVerdict(Verdict(Plan(Trajectories[i]), replays[k]),
                                   Plan(Trajectories[i]), replays[k])
    BY DEF VerdictIsRight
  <2>1. i \in 1..Len(file) /\ replays[k] \in Observations
    BY LenProperties, ElementOfSeq DEF PInv, Recording, ReplaysTyped
  <2>2. ran[i] \in Weights /\ RanOn(Trajectories[i], ran[i])
    BY <2>1, NextRecord
  <2> QED
    BY <2>1, <2>2, Judged
<1> QED
  BY <1>1, PInductive, PTL

(* What a pass says of the two files.                                      *)
LEMMA PassMeans ==
  ASSUME PInv, Passed
  PROVE  /\ Len(by) = Len(file) /\ Replayed \subseteq Matched
         /\ \A i \in 1..Len(file) :
               /\ Trajectories[i].request \in Replayed
               /\ Agrees(Plan(Trajectories[i]), ByRequest(Trajectories[i].request))
<1>1. Len(by) = Len(file) /\ verdict = Result /\ verdict.code = 0
  BY DEF PInv, VerdictGiven, Passed
<1>2. Clean
  BY <1>1 DEF Result
<1>3. DOMAIN file = 1..Len(file)
  BY LenProperties DEF PInv, Recording
<1>4. ASSUME NEW i \in 1..Len(file) PROVE Outcome(Trajectories[i]) = "agrees"
  BY <1>2, <1>3 DEF Clean, Outcomes
<1> QED
  BY <1>1, <1>2, <1>4 DEF Outcome, Clean

(* PassCoversFiles (validate_replay.py, run): an exit code of 0 means that *)
(* every record was reproduced by an observation of its request and that   *)
(* no observation is of a request the records do not have.                 *)
THEOREM PassCoversBothFiles == PSpec => []PassCoversFiles
<1>1. PInv => PassCoversFiles
  <2> SUFFICES ASSUME PInv, Passed
               PROVE  /\ \A i \in DOMAIN file : \E k \in DOMAIN replays :
                            /\ replays[k].request = file[i].request_id
                            /\ Reproduces(Plan(Trajectories[i]), replays[k])
                      /\ \A k \in DOMAIN replays : \E i \in DOMAIN file :
                            file[i].request_id = replays[k].request
    BY DEF PassCoversFiles
  <2>1. /\ DOMAIN file = 1..Len(file) /\ DOMAIN replays = 1..Len(replays)
        /\ replays \in Seq(Observations)
    BY LenProperties DEF PInv, Recording, ReplaysTyped
  <2>2. ASSUME NEW i \in 1..Len(file)
        PROVE  \E k \in 1..Len(replays) :
                  /\ replays[k].request = file[i].request_id
                  /\ Reproduces(Plan(Trajectories[i]), replays[k])
    <3>1. PICK k \in 1..Len(replays) :
             /\ replays[k].request = Trajectories[i].request
             /\ ByRequest(Trajectories[i].request) = replays[k]
      BY PassMeans, LastObservation
    <3>2. Agrees(Plan(Trajectories[i]), replays[k])
      BY <3>1, PassMeans
    <3>3. replays[k] \in Observations
      BY <2>1, ElementOfSeq
    <3>4. /\ ran[i] \in Weights /\ RanOn(Trajectories[i], ran[i])
          /\ file[i].request_id = Trajectories[i].request
      BY NextRecord
    <3> QED
      BY <3>1, <3>2, <3>3, <3>4, Judged
  <2>3. ASSUME NEW k \in 1..Len(replays)
        PROVE  \E i \in 1..Len(file) : file[i].request_id = replays[k].request
    <3>1. replays[k].request \in Matched
      BY <2>1, PassMeans DEF Replayed
    <3>2. PICK i \in DOMAIN file : replays[k].request = Trajectories[i].request
      BY <3>1 DEF Matched
    <3> QED
      BY <2>1, <3>2, NextRecord
  <2> QED
    BY <2>1, <2>2, <2>3
<1> QED
  BY <1>1, PInductive, PTL

(* A replay without a flaw, field by field.                                *)
LEMMA MadeFields ==
  ASSUME NEW t \in Recs, NEW w \in Steps, NEW o, Made(t, w, o)
  PROVE  /\ o.request = t.request /\ o.version = t.version /\ o.prompt = t.prompt
         /\ o.tokens = IF mode.forced THEN t.tokens ELSE Tokens[w]
         /\ o.digest \in {Identity(w, w).digest, None}
         /\ \E noise \in 0..Tolerance :
               o.logprobs = ReplayedLogprobs(w, o.tokens, noise)
<1>1. PICK noise \in 0..Tolerance : o = Observation(t, w, noise, None)
  BY DEF Made
<1>2. /\ None # "stray" /\ None # "early" /\ None # "late" /\ None # "wrong label"
      /\ None # "wrong prompt" /\ None # "bad echo"
  BY FlawAssumption DEF Flaws
<1>3. ReplayedTokens(t, w, None) = IF mode.forced THEN t.tokens ELSE Tokens[w]
  BY <1>2 DEF ReplayedTokens
<1>4. /\ o.request = t.request /\ o.version = t.version /\ o.prompt = t.prompt
      /\ o.tokens = ReplayedTokens(t, w, None)
      /\ o.logprobs = ReplayedLogprobs(w, ReplayedTokens(t, w, None), noise)
  BY <1>1, <1>2 DEF Observation
<1>5. o.digest = IF mode.digest /\ w \in Steps THEN Identity(w, w).digest ELSE None
  BY <1>1 DEF Observation
<1> QED
  BY <1>3, <1>4, <1>5

(* Faithful replays of distinct requests: the i-th observation is the one  *)
(* that counts for the i-th record, made on the weights the record names.  *)
LEMMA FaithfulOrder ==
  ASSUME PInv, Len(by) = Len(file), FaithfulReplay, DistinctRequests,
         NEW i \in 1..Len(file)
  PROVE  /\ by[i].weights \in Steps
         /\ file[i].identity.source = <<by[i].weights>>
         /\ ReplayReady(Trajectories[i])
         /\ Trajectories[i].identity.source = by[i].weights
         /\ Len(replays) = Len(file)
         /\ Trajectories[i].request \in Replayed
         /\ ByRequest(Trajectories[i].request) = replays[i]
         /\ Made(Trajectories[i], by[i].weights, replays[i])
         /\ replays[i] \in Observations /\ replays[i].request = Trajectories[i].request
<1> DEFINE n == Len(file)
<1>1. n \in Nat /\ DOMAIN file = 1..n
  BY LenProperties DEF PInv, Recording
<1>2. \A j \in 1..n : by[j].flaw = None /\ file[j].identity.source = <<by[j].weights>>
  BY <1>1 DEF FaithfulReplay
<1>3. ASSUME NEW j \in 1..n
      PROVE  /\ by[j].weights \in Steps /\ ReplayReady(Trajectories[j])
             /\ Trajectories[j].identity.source = by[j].weights
  <2>1. file[j].identity.source = <<by[j].weights>>
    BY <1>2
  <2>2. /\ ReplayReady(Trajectories[j]) /\ Trajectories[j] \in Recs
        /\ file[j].identity.source = <<Trajectories[j].identity.source>>
    <3>1. file[j].identity.source # <<>>
      BY <2>1
    <3>2. /\ Trajectories[j] \in Recs
          /\ file[j].identity.source =
                IF ReplayReady(Trajectories[j]) THEN <<Trajectories[j].identity.source>>
                ELSE <<>>
      BY NextRecord
    <3> QED
      BY <3>1, <3>2
  <2>3. Trajectories[j].identity.source = by[j].weights
    BY <2>1, <2>2
  <2>4. Trajectories[j].identity.source \in Steps
    BY <2>2 DEF ReplayReady, Recs, Identities, Identity, Declared
  <2> QED
    BY <2>2, <2>3, <2>4
<1>4. /\ Len(replays) = n /\ DOMAIN replays = 1..n
      /\ \A j \in 1..n : Made(Trajectories[j], by[j].weights, replays[j])
  <2>1. Len(replays) = n
    BY <1>2 DEF PInv, Aligned
  <2>2. \A j \in 1..n : Made(Trajectories[j], by[j].weights, replays[j])
    BY <1>2, NextRecord DEF PInv, Aligned
  <2> QED
    BY <2>1, <2>2, LenProperties DEF PInv, ReplaysTyped
<1>5. ASSUME NEW j \in 1..n
      PROVE  /\ replays[j].request = Trajectories[j].request
             /\ replays[j].request = file[j].request_id
  <2>1. Trajectories[j] \in Recs /\ file[j].request_id = Trajectories[j].request
    BY NextRecord
  <2>2. by[j].weights \in Steps /\ Made(Trajectories[j], by[j].weights, replays[j])
    BY <1>3, <1>4
  <2> QED
    BY <2>1, <2>2, MadeFields
<1>6. \A j, k \in 1..n : replays[j].request = replays[k].request => j = k
  BY <1>1, <1>5 DEF DistinctRequests
<1>7. Trajectories[i].request \in Replayed
  BY <1>4, <1>5 DEF Replayed
<1>8. ByRequest(Trajectories[i].request) = replays[i]
  <2>1. PICK k \in 1..n : /\ replays[k].request = Trajectories[i].request
                          /\ ByRequest(Trajectories[i].request) = replays[k]
    BY <1>4, <1>7, LastObservation
  <2> QED
    BY <1>5, <1>6, <2>1
<1>9. replays[i] \in Observations
  BY <1>4, ElementOfSeq DEF PInv, ReplaysTyped
<1> QED
  BY <1>2, <1>3, <1>4, <1>5, <1>7, <1>8, <1>9

(* ReplayCatchesMisattribution: whatever the trainer declared, transferred *)
(* or left out, records that pass a faithful replay comparing logprobs     *)
(* name the weights that produced them, if weights can be told apart by    *)
(* their logprobs at all.                                                  *)
THEOREM MisattributionIsCaught ==
  ASSUME Distinguishable
  PROVE  PSpec => []ReplayCatchesMisattribution
<1>1. PInv => ReplayCatchesMisattribution
  <2> SUFFICES ASSUME PInv, Passed, FaithfulReplay, DistinctRequests,
                      mode.logprobs = "full", NEW i \in DOMAIN file,
                      file[i].logprobs # <<>>
               PROVE  Attributed(i)
    BY DEF ReplayCatchesMisattribution
  <2> DEFINE t == Trajectories[i]
             v == ran[i]
             w == by[i].weights
             o == replays[i]
  <2>1. i \in 1..Len(file)
    BY LenProperties DEF PInv, Recording
  <2>2. Len(by) = Len(file) /\ Agrees(Plan(t), ByRequest(t.request))
    BY <2>1, PassMeans
  <2>3. /\ w \in Steps /\ file[i].identity.source = <<w>>
        /\ ByRequest(t.request) = o /\ Made(t, w, o) /\ o \in Observations
    BY <2>1, <2>2, FaithfulOrder
  <2>4. v \in Weights /\ RanOn(t, v) /\ t \in Recs /\ t.logprobs # <<>>
    BY <2>1, NextRecord
  <2>5. Reproduces(Plan(t), o)
    BY <2>2, <2>3, <2>4, Judged
  <2> HIDE DEF t, v, w, o
  <2> DEFINE ids == Tokens[v]
             n   == Len(ids)
  <2>6. /\ ids \in Seq(Vocabulary) /\ n \in Nat \ {0} /\ DOMAIN ids = 1..n
        /\ t.tokens = ids /\ t.logprobs = Scores(v, ids) /\ o.tokens = ids
        /\ w \in Weights
    BY <2>3, <2>4, <2>5, TokensTyped DEF RanOn, Reproduces, Plan, Weights
  <2>7. PICK noise \in 0..Tolerance : o.logprobs = ReplayedLogprobs(w, ids, noise)
    BY <2>3, <2>4, <2>6, MadeFields
  <2>8. noise \in Nat /\ noise <= Tolerance /\ Tolerance \in Nat
    BY ProvenanceAssumption
  <2> HIDE DEF ids, n
  <2> DEFINE s == Scores(w, ids)
  <2>9. /\ s \in Seq(Int) /\ Len(s) = n /\ \A k \in 1..n : s[k] = Logprobs[w][ids[k]]
        /\ Scores(v, ids) \in Seq(Int) /\ Len(Scores(v, ids)) = n
        /\ \A k \in 1..n : Scores(v, ids)[k] = Logprobs[v][ids[k]]
    BY <2>4, <2>6, ScoresTyped DEF n
  <2>10. o.logprobs = [s EXCEPT ![Len(s)] = @ + noise]
    BY <2>7, <2>9 DEF ReplayedLogprobs, n
  <2> HIDE DEF s
  <2>11. /\ Len(o.logprobs) = n
         /\ \A k \in 1..n : o.logprobs[k] \in {s[k], s[k] + noise}
    BY <2>8, <2>9, <2>10, NoisyTyped
  <2>12. \A k \in 1..n : Distance(t.logprobs[k], o.logprobs[k]) <= Tolerance
    <3>1. Plan(t).logprobs = t.logprobs /\ Plan(t).tokens = ids
      BY <2>6 DEF Plan
    <3>2. t.logprobs = Scores(v, ids) /\ Len(t.logprobs) = n
      BY <2>6, <2>9
    <3>3. Plan(t).logprobs # <<>> /\ Len(o.logprobs) >= Len(Plan(t).logprobs)
      BY <2>4, <2>6, <2>11, <3>1, <3>2
    <3>4. \A k \in DOMAIN Plan(t).tokens :
            Distance(Plan(t).logprobs[k], o.logprobs[k]) <= Tolerance
      BY <2>5, <3>3 DEF Reproduces
    <3> QED
      BY <2>6, <3>1, <3>4
  <2>13. ASSUME NEW k \in 1..n
         PROVE  Distance(Logprobs[v][ids[k]], Logprobs[w][ids[k]]) <= 2 * Tolerance
    <3>1. Logprobs[v][ids[k]] \in Int /\ Logprobs[w][ids[k]] \in Int
      BY <2>4, <2>6, ElementOfSeq DEF Vocabulary, n
    <3>2. \/ Distance(Logprobs[v][ids[k]], Logprobs[w][ids[k]]) <= Tolerance
          \/ Distance(Logprobs[v][ids[k]], Logprobs[w][ids[k]] + noise) <= Tolerance
      BY <2>6, <2>9, <2>11, <2>12
    <3> QED
      BY <2>8, <3>1, <3>2 DEF Distance
  <2>14. v = w
    <3> SUFFICES ASSUME v # w PROVE FALSE
      OBVIOUS
    <3>1. PICK k \in 1..n :
             Distance(Logprobs[v][ids[k]], Logprobs[w][ids[k]]) > 2 * Tolerance
      BY <2>3, <2>4, <2>6 DEF Distinguishable, ids
    <3>2. Distance(Logprobs[v][ids[k]], Logprobs[w][ids[k]]) \in Int
      BY <2>4, <2>6, ElementOfSeq DEF Vocabulary, n, Distance
    <3> QED
      BY <2>8, <2>13, <3>1, <3>2
  <2> QED
    BY <2>3, <2>14 DEF Attributed, v
<1> QED
  BY <1>1, PInductive, PTL

(* A faithful replay of a record that names its weights reproduces it.     *)
LEMMA FaithfulReproduces ==
  ASSUME SameManifest, mode \in Modes, NEW t \in Recs, NEW w \in Steps, RanOn(t, w),
         t.identity.source = w, NEW o, Made(t, w, o)
  PROVE  Reproduces(Plan(t), o)
<1> DEFINE ids == Tokens[w]
           s   == Scores(w, ids)
<1>1. w \in Weights /\ t.tokens = ids /\ t.logprobs \in {<<>>, s} /\ ids \in Seq(Vocabulary)
  BY TokensTyped DEF RanOn, Weights
<1>2. /\ o.version = t.version /\ o.prompt = t.prompt /\ o.tokens = ids
      /\ o.digest \in {Identity(w, w).digest, None}
  BY <1>1, MadeFields
<1>3. PICK noise \in 0..Tolerance : o.logprobs = ReplayedLogprobs(w, ids, noise)
  BY <1>2, MadeFields
<1>4. Identity(w, w).digest = t.identity.digest
  <2>1. PICK m \in Steps, p \in Declared : t.identity = Identity(m, p)
    BY DEF Recs, Identities
  <2> QED
    BY <2>1 DEF Identity, SameManifest
<1>5. noise \in Nat /\ noise <= Tolerance /\ Tolerance \in Nat
  BY ProvenanceAssumption
<1> HIDE DEF ids
<1>6. s \in Seq(Int) /\ Len(s) = Len(ids) /\ Len(ids) \in Nat /\ DOMAIN ids = 1..Len(ids)
  BY <1>1, ScoresTyped, LenProperties
<1> HIDE DEF s
<1> DEFINE z == [s EXCEPT ![Len(s)] = @ + noise]
<1>7. /\ z \in Seq(Int) /\ Len(z) = Len(s)
      /\ \A k \in 1..Len(s) : z[k] \in {s[k], s[k] + noise}
  BY <1>5, <1>6, NoisyTyped
<1>8. o.logprobs \in {z, Shorter(z), <<>>}
  BY <1>3, <1>6 DEF ReplayedLogprobs, s
<1> HIDE DEF z
<1>9. ASSUME t.logprobs # <<>>, Len(o.logprobs) >= Len(t.logprobs), NEW k \in 1..Len(ids)
      PROVE  Distance(t.logprobs[k], o.logprobs[k]) <= Tolerance
  <2>1. t.logprobs = s /\ Len(s) \in Nat /\ Len(s) # 0 /\ Len(z) # 0
    BY <1>1, <1>6, <1>7, <1>9
  <2>2. Len(Shorter(z)) < Len(s) /\ Len(<<>>) = 0
    <3>1. Len(Shorter(z)) = IF z = <<>> THEN 0 ELSE Len(z) - 1
      BY <1>7, ShorterTyped
    <3> QED
      BY <1>7, <2>1, <3>1
  <2>3. o.logprobs = z
    BY <1>8, <1>9, <2>1, <2>2
  <2>4. s[k] \in Int /\ z[k] \in {s[k], s[k] + noise}
    BY <1>6, <1>7, ElementOfSeq
  <2> QED
    BY <1>5, <2>1, <2>3, <2>4 DEF Distance
<1> QED
  BY <1>1, <1>2, <1>4, <1>6, <1>9 DEF Reproduces, Plan

(* FaithfulReplayPasses: records that name the weights they came from pass *)
(* every faithful replay the command accepts, dictated or greedy, with or  *)
(* without logprobs, through the file and back; provided that training     *)
(* steps leave the parameter manifest alone.                               *)
THEOREM NoFalseAlarm ==
  ASSUME SameManifest
  PROVE  PSpec => []FaithfulReplayPasses
<1>1. PInv => FaithfulReplayPasses
  <2> SUFFICES ASSUME PInv, verdict # None, verdict.code # 2, FaithfulReplay,
                      DistinctRequests, \A i \in DOMAIN file : Attributed(i)
               PROVE  Passed
    BY DEF FaithfulReplayPasses
  <2>1. /\ Len(by) = Len(file) /\ verdict = Result
        /\ DOMAIN file = 1..Len(file) /\ DOMAIN replays = 1..Len(replays)
        /\ mode \in Modes
    BY LenProperties DEF PInv, VerdictGiven, Recording, ReplaysTyped
  <2>2. verdict.code = IF Clean THEN 0 ELSE 1
    BY <2>1 DEF Result
  <2>3. ASSUME NEW i \in 1..Len(file)
        PROVE  /\ Outcome(Trajectories[i]) = "agrees"
               /\ Len(replays) = Len(file) /\ replays[i].request = Trajectories[i].request
    <3> DEFINE t == Trajectories[i]
               w == by[i].weights
               o == replays[i]
    <3>1. /\ w \in Steps /\ file[i].identity.source = <<w>> /\ ReplayReady(t)
          /\ t.identity.source = w /\ Len(replays) = Len(file)
          /\ t.request \in Replayed /\ ByRequest(t.request) = o
          /\ Made(t, w, o) /\ o \in Observations /\ o.request = t.request
      BY <2>1, FaithfulOrder
    <3>2. t \in Recs /\ ran[i] \in Weights /\ RanOn(t, ran[i])
      BY NextRecord
    <3>3. ran[i] = w
      BY <2>1, <3>1 DEF Attributed
    <3> HIDE DEF t, w, o
    <3>4. Agrees(Plan(t), o)
      BY <2>1, <3>1, <3>2, <3>3, FaithfulReproduces, Judged
    <3>5. Outcome(t) = "agrees"
      BY <3>1, <3>4 DEF Outcome
    <3> QED
      BY <3>1, <3>5 DEF t, o
  <2>4. \A i \in DOMAIN file : Outcomes[i] = "agrees"
    BY <2>1, <2>3 DEF Outcomes
  <2>5. Replayed \subseteq Matched
    <3> SUFFICES ASSUME NEW k \in 1..Len(replays) PROVE replays[k].request \in Matched
      BY <2>1 DEF Replayed
    <3>1. k \in 1..Len(file)
      BY <2>1, <2>3, LenProperties DEF PInv, ReplaysTyped
    <3>2. /\ replays[k].request = Trajectories[k].request
          /\ Outcome(Trajectories[k]) = "agrees"
      BY <2>3, <3>1
    <3> QED
      BY <2>1, <3>1, <3>2 DEF Matched
  <2>6. Clean
    BY <2>4, <2>5 DEF Clean
  <2> QED
    BY <2>2, <2>6 DEF Passed
<1> QED
  BY <1>1, PInductive, PTL

=============================================================================
