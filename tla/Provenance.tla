---------------------------- MODULE Provenance ------------------------------
(***************************************************************************)
(* From a rollout to a verdict about the weights that produced it.         *)
(*                                                                         *)
(* The trainer process updates an engine (NcclDriver) and records          *)
(* rollouts; each record carries the target its rollout was bound to.  The *)
(* records go to a JSONL file and the process exits.  Somebody replays     *)
(* them, record by record, on engines of their own, and                    *)
(* validate_replay.py compares the two files.  Nothing but these files     *)
(* links the two halves; "ran" and "by" remember, for the properties only, *)
(* which weights really were at work.                                      *)
(***************************************************************************)
EXTENDS NcclDriver, Integers, Sequences, FiniteSets

CONSTANTS
    Requests,    \* request ids
    Tokens,      \* Tokens[w]: what greedy decoding yields under the weights w
    Logprobs,    \* Logprobs[w][k]: logprob of the token k under the weights w
    Prompt, OtherPrompt, Stray,
    Tolerance,
    MaxRecords   \* bound on the records of a file

(* Greedy decoding yields at least one token, and every weights give every *)
(* token a logprob.                                                        *)
ASSUME ProvenanceAssumption ==
    /\ Tolerance \in Nat /\ MaxRecords \in Nat
    /\ None \notin Nat
    /\ \A w \in Weights : Tokens[w] \in Seq(Int) /\ Tokens[w] # <<>>
    /\ \A v, w \in Weights : \A k \in DOMAIN Tokens[v] : Logprobs[w][Tokens[v][k]] \in Int

INSTANCE Replay WITH Absent <- None

VARIABLES
    asked,       \* are rollouts asked for their logprobs?
    recorded,    \* of the recorder: the trajectories so far
    ran,         \* ran[i]: the weights that produced the i-th (history)
    file,        \* the JSONL file, <<>> until it is written
    mode,        \* how the replays are made
    replays,     \* the observations so far
    by,          \* by[i]: how the i-th replay was made (history)
    verdict      \* what validate_replay.py says, or None

records == <<asked, recorded, ran, file>>
replaying == <<mode, replays, by>>
pvars == <<nvars, records, replaying, verdict>>

PInit ==
    /\ NInit
    /\ asked \in BOOLEAN
    /\ recorded = <<>> /\ ran = <<>>
    /\ file = <<>>
    /\ mode = None
    /\ replays = <<>> /\ by = <<>>
    /\ verdict = None

-----------------------------------------------------------------------------
(* Recording.                                                              *)

DriverStep == file = <<>> /\ DriverNext /\ UNCHANGED <<records, replaying, verdict>>

(* The logprobs of a sequence of tokens under the weights w.               *)
Scores(w, ids) == [i \in DOMAIN ids |-> Logprobs[w][ids[i]]]

(* A rollout, bound at its admission to the committed target, and its      *)
(* record.                                                                 *)
Record ==
    /\ file = <<>> /\ Serving
    /\ Len(recorded) < MaxRecords
    /\ \E r \in Requests :
          recorded' = Append(recorded,
              [request |-> r, version |-> committed.version,
               identity |-> committed.identity, prompt |-> Prompt,
               tokens |-> Tokens[holds],
               logprobs |-> IF asked THEN Scores(holds, Tokens[holds]) ELSE <<>>])
    /\ ran' = Append(ran, holds)
    /\ UNCHANGED <<nvars, asked, file, replaying, verdict>>

(* to_json: the digest and, if it was declared, the source.                *)
Encode(t) ==
    [request_id |-> t.request, version |-> t.version,
     identity |-> [digest |-> t.identity.digest,
                   manifest_digest |-> t.identity.manifest,
                   source |-> IF t.identity.source = None THEN <<>>
                              ELSE <<t.identity.source>>],
     replay_ready |-> ReplayReady(t), prompt |-> t.prompt,
     token_ids |-> t.tokens, logprobs |-> t.logprobs]

(* Mutant: the identity is rebuilt from its digest, by WeightIdentity.parse.*)
IdentityFromJson_Parsed(j) ==
    [digest |-> j.digest, manifest |-> None, source |-> None]

IdentityFromJson(j) ==
    [digest |-> j.digest, manifest |-> j.manifest_digest,
     source |-> IF j.source = <<>> THEN None ELSE j.source[1]]

(* from_json; the fields it could derive itself are not read.              *)
Decode(j) ==
    [request |-> j.request_id, version |-> j.version,
     identity |-> IdentityFromJson(j.identity), prompt |-> j.prompt,
     tokens |-> j.token_ids, logprobs |-> j.logprobs]

(* write_jsonl, and the end of the trainer process: the driver, the engine *)
(* and the recorder are gone.                                              *)
WriteRecords ==
    /\ file = <<>> /\ recorded # <<>>
    /\ file' = [i \in DOMAIN recorded |-> Encode(recorded[i])]
    /\ recorded' = <<>>
    /\ careful' = TRUE /\ trainer' = CHOOSE s \in Steps : TRUE
    /\ provenance' = None /\ cached' = Uncomputed /\ attached' = FALSE
    /\ device' = None /\ pending' = None
    /\ phase' = "stopped" /\ target' = None /\ half' = None
    /\ holds' = Torn /\ label' = None /\ committed' = None
    /\ UNCHANGED <<asked, ran, replaying, verdict>>

-----------------------------------------------------------------------------
(* Replaying.                                                              *)

Trajectories == [i \in DOMAIN file |-> Decode(file[i])]

(* Trace-forced or greedy; whether the API reports logprobs for all        *)
(* positions, for some, for none, or null for one; whether it reports the  *)
(* digest of its weights.                                                  *)
Modes == [forced : BOOLEAN, digest : BOOLEAN,
          logprobs : {"full", "short", "none", "null"}]

(* What can be wrong with one replay.                                      *)
Flaws == {"omitted", "stray", "early", "late", "wrong label", "wrong prompt",
          "bad echo"}

ASSUME FlawAssumption == None \notin Flaws

StartReplay ==
    /\ file # <<>> /\ mode = None
    /\ mode' \in Modes
    /\ UNCHANGED <<nvars, records, replays, by, verdict>>

Shorter(s) == SubSeq(s, 1, Len(s) - 1)

(* The token ids that come back.  Dictated ones are those of the record,   *)
(* whatever the weights, unless the engine ignores the dictation.          *)
ReplayedTokens(t, w, flaw) ==
    LET ids == IF mode.forced /\ flaw # "bad echo" THEN t.tokens ELSE Tokens[w]
    IN CASE flaw = "early" -> Shorter(ids)
         [] flaw = "late"  -> Append(ids, ids[1])
         [] OTHER          -> ids

(* Logprobs differ a little from run to run: by noise, at the last token.  *)
ReplayedLogprobs(w, ids, noise) ==
    LET all == [Scores(w, ids) EXCEPT ![Len(ids)] = @ + noise]
    IN CASE mode.logprobs = "full"  -> all
         [] mode.logprobs = "short" -> Shorter(all)
         [] OTHER                   -> <<>>

(* The replay of t under the weights w.                                    *)
Observation(t, w, noise, flaw) ==
    [request  |-> IF flaw = "stray" THEN Stray ELSE t.request,
     version  |-> IF flaw = "wrong label" THEN t.version + 1 ELSE t.version,
     tokens   |-> ReplayedTokens(t, w, flaw),
     logprobs |-> ReplayedLogprobs(w, ReplayedTokens(t, w, flaw), noise),
     digest   |-> IF mode.digest /\ w \in Steps
                  THEN Identity(w, w).digest ELSE None,
     prompt   |-> IF flaw = "wrong prompt" THEN OtherPrompt ELSE t.prompt,
     forced   |-> mode.forced]

(* The weights a record names, as far as it names any.                     *)
Named(t) == IF ReplayReady(t) THEN t.identity.source ELSE Boot

(* The replays are made in the order of the file.  One without a flaw may  *)
(* be noisy, and made on any weights; a flaw comes alone.                  *)
ReplayOne ==
    /\ mode # None /\ verdict = None /\ Len(by) < Len(file)
    /\ LET t == Trajectories[Len(by) + 1]
       IN \/ \E w \in Steps \cup {Boot}, noise \in 0..Tolerance :
                /\ by' = Append(by, [weights |-> w, flaw |-> None])
                /\ replays' = Append(replays, Observation(t, w, noise, None))
          \/ \E flaw \in Flaws :
                /\ by' = Append(by, [weights |-> Named(t), flaw |-> flaw])
                /\ replays' = IF flaw = "omitted" THEN replays
                              ELSE Append(replays, Observation(t, Named(t), 0, flaw))
    /\ UNCHANGED <<nvars, records, mode, verdict>>

-----------------------------------------------------------------------------
(* validate_replay.py.                                                     *)

(* A replay file with a null logprob is a usage error.                     *)
BadReplayFile == mode.logprobs = "null" /\ replays # <<>>

Replayed == {replays[k].request : k \in DOMAIN replays}

(* Of several observations of one request the last counts.                 *)
ByRequest(r) ==
    replays[CHOOSE k \in DOMAIN replays :
        /\ replays[k].request = r
        /\ \A l \in (k + 1)..Len(replays) : replays[l].request # r]

(* Mutant: a record that was not replayed is passed over.                  *)
Outcome_Lenient(t) ==
    IF ~ReplayReady(t) THEN "not replayable"
    ELSE IF t.request \notin Replayed THEN "agrees"
    ELSE IF Agrees(Plan(t), ByRequest(t.request)) THEN "agrees"
    ELSE "disagrees"

(* What becomes of one record.                                             *)
Outcome(t) ==
    IF ~ReplayReady(t) THEN "not replayable"
    ELSE IF t.request \notin Replayed THEN "no replay"
    ELSE IF Agrees(Plan(t), ByRequest(t.request)) THEN "agrees"
    ELSE "disagrees"

Matched == {Trajectories[i].request : i \in
               {k \in DOMAIN file : Outcome(Trajectories[k]) \in {"agrees", "disagrees"}}}

(* run: 0 if every record agreed and no observation was left over.         *)
Validate ==
    /\ mode # None /\ verdict = None /\ Len(by) = Len(file)
    /\ verdict' =
          IF BadReplayFile THEN [code |-> 2, outcomes |-> <<>>]
          ELSE LET outcomes == [i \in DOMAIN file |-> Outcome(Trajectories[i])]
                   clean == /\ \A i \in DOMAIN file : outcomes[i] = "agrees"
                            /\ Replayed \subseteq Matched
               IN [code |-> IF clean THEN 0 ELSE 1, outcomes |-> outcomes]
    /\ UNCHANGED <<nvars, records, replaying>>

PNext == DriverStep \/ Record \/ WriteRecords \/ StartReplay \/ ReplayOne \/ Validate

PSpec == PInit /\ [][PNext]_pvars

-----------------------------------------------------------------------------
(* Properties.                                                             *)

PTypeOK ==
    /\ NTypeOK
    /\ Len(ran) <= MaxRecords /\ (\A i \in DOMAIN ran : ran[i] \in Weights)
    /\ file = <<>> => Len(ran) = Len(recorded)
    /\ mode \in Modes \cup {None}
    /\ Len(replays) <= Len(by)
    /\ verdict # None => verdict.code \in 0..2

Passed == verdict # None /\ verdict.code = 0

(* The records that name the weights they really came from.                *)
Attributed(i) == file[i].identity.source = <<ran[i]>>

(* Every record was replayed, without a flaw, on the weights it names.     *)
FaithfulReplay ==
    \A i \in DOMAIN file :
        by[i].flaw = None /\ file[i].identity.source = <<by[i].weights>>

DistinctRequests ==
    \A i, j \in DOMAIN file : file[i].request_id = file[j].request_id => i = j

(* What is true of weights, not of the code: other weights give some token *)
(* a logprob that differs by more than tolerance and noise can hide; and a *)
(* training step changes the values of the parameters, not the manifest.   *)
Distinguishable ==
    \A v \in Weights, w \in Steps : v # w =>
        \E k \in DOMAIN Tokens[v] :
            Distance(Logprobs[v][Tokens[v][k]], Logprobs[w][Tokens[v][k]]) > 2 * Tolerance

SameManifest == \A s, t \in Steps : Manifest[s] = Manifest[t]

(* What replay validation is for: records that name weights which did not  *)
(* produce them, because the trainer did not declare, or stepped during a  *)
(* transfer, or started from an engine with other weights, do not pass a   *)
(* faithful replay that compares logprobs.                                 *)
ReplayCatchesMisattribution ==
    Passed /\ FaithfulReplay /\ DistinctRequests /\ mode.logprobs = "full" =>
        \A i \in DOMAIN file : file[i].logprobs # <<>> => Attributed(i)

(* And no false alarm: records that name their weights, faithfully         *)
(* replayed with noise up to the tolerance, pass in every mode that the    *)
(* command accepts, through the file and back.                             *)
FaithfulReplayPasses ==
    verdict # None /\ verdict.code # 2 /\ FaithfulReplay /\ DistinctRequests
        /\ (\A i \in DOMAIN file : Attributed(i)) => Passed

(* A verdict agrees with exactly the reproductions, finds the first        *)
(* difference and blames the right side; see RightVerdict.                 *)
VerdictIsRight ==
    \A i \in DOMAIN file, k \in DOMAIN replays :
        LET plan == Plan(Trajectories[i])
        IN replays[k].request = plan.request =>
               RightVerdict(Verdict(plan, replays[k]), plan, replays[k])

(* "0 every record replayed and agreed": a pass covers the whole of both   *)
(* files, whatever was omitted, stray or repeated.                         *)
PassCoversFiles ==
    Passed =>
        /\ \A i \in DOMAIN file : \E k \in DOMAIN replays :
              replays[k].request = file[i].request_id
              /\ Reproduces(Plan(Trajectories[i]), replays[k])
        /\ \A k \in DOMAIN replays : \E i \in DOMAIN file :
              file[i].request_id = replays[k].request

=============================================================================
