---------------------------- MODULE ServingStack ----------------------------
(***************************************************************************)
(* What the demo and the GPU scripts drive: one controller, one runner and *)
(* one engine.  The runner's cycle (runner.py, run_cycle) is taken one     *)
(* adapter call at a time.  A call has its effect on the engine, or it     *)
(* raises: because the engine is gone, because the fake engine was told to *)
(* refuse that operation (adapters/fake_engine.py, faults), or, over HTTP, *)
(* for no reason on the engine's side, and then with its effect or without.*)
(*                                                                         *)
(* RolloutCycle.tla models the same cycle next to rollouts, other runners  *)
(* and pauses that arrive late.  Here the subject is the caller: which     *)
(* state a cycle that raises, or that never returns, leaves behind for a   *)
(* script.  Of the three caches of the engine only the prefix cache        *)
(* matters to what is generated; the others are in the evidence alone.     *)
(***************************************************************************)
EXTENDS Lifecycle

CONSTANTS
    ModelA,  \* the identity declared at bootstrap
    ModelB   \* another identity: other weights, or another manifest

ASSUME ModelAssumption == {ModelA, ModelB} \subseteq Identities /\ ModelA # ModelB

VARIABLES
    eng,      \* the engine: see Engines
    faults,   \* what can fail while the engine is up: operations the fake engine
              \* refuses, "blocks held"; "network" when it is reached over HTTP
    at,       \* the adapter call the cycle is about to make, or its outcome
    aim,      \* the target of the cycle
    before,   \* ghost: the committed target when the cycle was called
    byHand,   \* the cycle is made call by call, without the runner's _effect
    request,  \* the long generation in flight
    used      \* ghost: the weights that generation has been computed with

stackVars == <<eng, faults, at, aim, before, byHand, request, used>>

(* "loaded": what the engine booted with; "sent": what the trainer sent.   *)
Weights == {"loaded", "sent", "corrupted"}

(* up: it answers.  kv: the weights that computed the cached prefix.       *)
Engines == [up : BOOLEAN, label : Labels, paused : BOOLEAN, session : BOOLEAN,
            weights : Weights, kv : Weights \cup {None}]

Calls    == {"called", "pause", "begin", "start", "transfer", "finish", "invalidate",
             "validate", "resume", "commit"}
Outcomes == {"returned", "raised"}

FreshEngine(up, kv) ==
    [up |-> up, label |-> Unmanaged, paused |-> FALSE, session |-> FALSE,
     weights |-> "loaded", kv |-> kv]

SInit ==
    /\ Init
    /\ eng = FreshEngine(FALSE, None)
    /\ faults \in {{}, {"network"}}
    /\ at = "idle"
    /\ aim = None
    /\ before = None
    /\ byHand = FALSE
    /\ request = "none"
    /\ used = {}

(* Over HTTP any call may fail: a timeout, a 5xx, a connection reset.      *)
Remote == "network" \in faults

Answers(op) == eng.up /\ op \notin faults
Raises(op)  == ~Answers(op) \/ Remote

(* What a call that raised has left of its effect e on the engine.         *)
Lost(e) == eng' = eng \/ (Remote /\ eng.up /\ eng' = e)

-----------------------------------------------------------------------------
(* bootstrap: LifecycleRunner.bootstrap over the adapter's.                *)

Refused == Answers("get_weight_info") /\ eng.label \in Versions

(* The refusal comes before any write.  Any other exception is a taint,    *)
(* unless the caller makes the adapter's call without the runner; rc-0 may *)
(* have been written by then.                                              *)
BootstrapRaises(byRunner) ==
    \/ Refused /\ UNCHANGED <<vars, eng>>
    \/ /\ Raises("get_weight_info")
       /\ Lost(IF Refused THEN eng ELSE [eng EXCEPT !.label = INITIAL_VERSION])
       /\ IF byRunner THEN TaintWith ELSE UNCHANGED vars

Adopt ==
    /\ Answers("get_weight_info")
    /\ ~Refused
    /\ Initialize([observed_engine_label |-> INITIAL_VERSION,
                   pre_seed_label |-> eng.label,
                   weight_transfer_initialised |-> TRUE, has_driver |-> TRUE,
                   weight_identity |-> ModelA])
    /\ eng' = [eng EXCEPT !.label = INITIAL_VERSION]

-----------------------------------------------------------------------------
(* run_cycle, call by call.                                                *)

(* The caller computes the target before the call, a fresh controller's    *)
(* from the one that came before it.                                       *)
NextTarget(i) ==
    [version |-> IF current = None THEN 1 ELSE current.version + 1, identity |-> i]

Call(first, t, hand) ==
    /\ at' = first
    /\ aim' = t
    /\ before' = current
    /\ byHand' = hand

(* begin_drain: legal in READY only.  The pause stops admission as soon as *)
(* it arrives; over HTTP it may not.                                       *)
BeginCycle ==
    /\ at = "called"
    /\ IF state = "READY"
       THEN /\ BeginDrain
            /\ \/ Answers("pause") /\ eng' = [eng EXCEPT !.paused = TRUE]
               \/ Raises("pause") /\ UNCHANGED eng
            /\ at' = "pause"
       ELSE at' = "raised" /\ UNCHANGED <<vars, eng>>

(* An attempt to pause has failed: its request arrives late or not at all, *)
(* the stragglers are aborted, and another attempt is made.                *)
PauseReissued ==
    /\ at = "pause"
    /\ Remote /\ Lost([eng EXCEPT !.paused = TRUE])
    /\ request' \in {request, IF request = "running" THEN "aborted" ELSE request}
    /\ UNCHANGED <<vars, at>>

(* The engine's drain is complete: paused, and no request of its running.  *)
AwaitDrain ==
    /\ at = "pause"
    /\ eng.up /\ eng.paused
    /\ request # "running"
    /\ ConfirmDrained([engine_drain_completed |-> TRUE, engine_busy |-> FALSE])
    /\ at' = IF state' = "QUIESCED" THEN "begin" ELSE "raised"
    /\ UNCHANGED eng

(* The poll budget or the pause attempts run out: not a taint.             *)
DrainGivesUp ==
    /\ at = "pause"
    /\ Remote \/ ~(eng.up /\ eng.paused) \/ request = "running"
    /\ at' = "raised"
    /\ UNCHANGED <<vars, eng>>

OpenUpdate ==
    /\ at = "begin"
    /\ BeginUpdate(aim)
    /\ at' = "start"
    /\ UNCHANGED eng

(* A foreign exception of a mutating call: _effect taints.  A caller that  *)
(* makes the calls itself has no _effect.                                  *)
EffectFails ==
    /\ at' = "raised"
    /\ IF byHand THEN UNCHANGED vars ELSE TaintWith

(* Mutant: an operation that fails reopens the engine on its way out.      *)
EffectRaises_Reopening(op, e) == Raises(op) /\ eng' = [eng EXCEPT !.paused = FALSE] /\ EffectFails

EffectRaises(op, e) == Raises(op) /\ Lost(e) /\ EffectFails

StartWeightUpdate ==
    /\ at = "start"
    /\ LET opened == [eng EXCEPT !.session = TRUE]
       IN  \/ /\ Answers("start_weight_update") /\ ~eng.session
              /\ at' = "transfer" /\ eng' = opened /\ UNCHANGED vars
           \/ /\ Raises("start_weight_update") \/ eng.session
              /\ Lost(opened) /\ EffectFails

(* complete_weight_update, the data plane: the weights are the target's    *)
(* whether or not the finalize that follows succeeds, and anything after a *)
(* broadcast that broke off.  It may also never return (Collective).       *)
SendWeights ==
    /\ at = "transfer"
    /\ \/ /\ Answers("update_weights")
          /\ at' = "finish" /\ eng' = [eng EXCEPT !.weights = "sent"] /\ UNCHANGED vars
       \/ \E w \in Weights : EffectRaises("update_weights", [eng EXCEPT !.weights = w])

(* The label is written once the finalize has returned.                    *)
FinishWeightUpdate ==
    /\ at = "finish"
    /\ LET finished == [eng EXCEPT !.label = aim.version, !.session = FALSE]
       IN  \/ /\ Answers("finish_weight_update")
              /\ eng' = finished
              /\ ConfirmUpdated([target |-> aim, weights_loaded |-> TRUE,
                                 data_plane_complete |-> TRUE, finish_acknowledged |-> TRUE,
                                 observed_identity |-> aim.identity])
              /\ at' = "invalidate"
           \/ EffectRaises("finish_weight_update", finished)

(* "blocks held": the reset of the prefix cache answers success = false.   *)
(* The other two resets report a failure of theirs instead of raising it.  *)
InvalidateCaches ==
    /\ at = "invalidate"
    /\ \/ /\ Answers("reset_prefix_cache")
          /\ \E prefix, others \in BOOLEAN :
                /\ Remote \/ (others /\ prefix = ("blocks held" \notin faults))
                /\ eng' = [eng EXCEPT !.kv = IF prefix THEN None ELSE @]
                /\ ConfirmInvalidated([prefix_cache_reset |-> prefix,
                                       encoder_cache_reset |-> others, mm_cache_reset |-> others])
          /\ at' = IF state' = "VALIDATING" THEN "validate" ELSE "raised"
       \/ EffectRaises("reset_prefix_cache", [eng EXCEPT !.kv = None])

(* A read: its failure is not a taint.                                     *)
ValidatePreResume ==
    /\ at = "validate"
    /\ UNCHANGED eng
    /\ \/ /\ Answers("get_weight_info")
          /\ ConfirmValidated([target |-> aim, observed_engine_label |-> eng.label,
                               is_paused |-> eng.paused,
                               caches_still_clean |-> eng.kv = None])
          /\ at' = IF state' = "RESUMING" THEN "resume" ELSE "raised"
       \/ Raises("get_weight_info") /\ at' = "raised" /\ UNCHANGED vars

Confirmed(acknowledged, e) ==
    ConfirmResumed([target |-> aim, resume_acknowledged |-> acknowledged,
                    is_paused |-> e.paused, observed_engine_label |-> e.label])

(* A POST that fails over HTTP is reported as unacknowledged, with what the*)
(* reads behind it then show of an engine that may well have resumed.      *)
Resume ==
    /\ at = "resume"
    /\ LET resumed == [eng EXCEPT !.paused = FALSE]
       IN  \/ Answers("resume") /\ at' = "commit" /\ eng' = resumed /\ UNCHANGED vars
           \/ /\ Remote /\ eng.up
              /\ eng' \in {eng, resumed} /\ Confirmed(FALSE, eng') /\ at' = "raised"
           \/ EffectRaises("resume", resumed)

(* resume reads the pause state and the label back before the commit; the  *)
(* reads can fail too, and the engine has resumed by then.                 *)
Commit ==
    /\ at = "commit"
    /\ UNCHANGED eng
    /\ \/ /\ Answers("get_weight_info")
          /\ Confirmed(TRUE, eng)
          /\ at' = IF state' = "READY" THEN "returned" ELSE "raised"
       \/ Raises("get_weight_info") /\ EffectFails

(* send_weights is a collective with the engine's workers, and nothing     *)
(* bounds it: it may never return, whether its peers are dead or alive.    *)
Collective == at \in {"transfer", "finish"} /\ Remote

CycleCall ==
    /\ \/ PauseReissued
       \/ /\ \/ BeginCycle \/ AwaitDrain \/ DrainGivesUp \/ OpenUpdate \/ StartWeightUpdate
             \/ SendWeights \/ FinishWeightUpdate \/ InvalidateCaches
             \/ ValidatePreResume \/ Resume \/ Commit
          /\ UNCHANGED request
    /\ used' = IF request = "running" THEN used \cup {eng'.weights} ELSE used
    /\ UNCHANGED <<faults, aim, before, byHand>>

-----------------------------------------------------------------------------
(* Where the cycle stood when the controller was tainted.                  *)
Struck == IF state = "TAINTED" THEN taintedIn ELSE state

(* A cycle that raised has published nothing and admits nothing, whatever  *)
(* call failed, with or without its effect, and whether an exception, a    *)
(* refusal, a lost answer or a death made it fail (runner.py, run_cycle:   *)
(* "every step is fail-closed").  The engine may still serve in two cases  *)
(* only, and then one generation it was meant to serve: the pause never    *)
(* arrived, and it serves the one committed before; or the resume did, and *)
(* it serves the validated target that nobody commits.                     *)
FailClosed ==
    at = "raised" =>
        /\ current = before
        /\ state \notin ADMITTING_STATES
        /\ eng.up /\ ~eng.paused =>
              \/ Struck = "DRAINING" /\ eng.label = before.version
              \/ /\ Struck = "RESUMING" /\ eng.label = aim.version
                 /\ eng.weights = "sent" /\ eng.kv = None

=============================================================================
