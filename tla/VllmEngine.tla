---------------------------- MODULE VllmEngine ------------------------------
(***************************************************************************)
(* The part of a vLLM server that RolloutCore drives.  vLLM is outside the *)
(* repository; this is the engine as the repository uses and mirrors it:   *)
(* adapters/fake_engine.py for the operations it has, and the facts of     *)
(* docs/source-map-vllm-main.md that the adapters rely on for the queue of *)
(* requests, which the fake engine reduces to a counter.                   *)
(*                                                                         *)
(*  - A request that arrives while the engine is paused is accepted and    *)
(*    waits; pausing stops scheduling, not arrival (source map 4.3).       *)
(*  - pause(mode=wait) sets the pause state first and answers once no      *)
(*    request is RUNNING: waiting ones do not hold it (PAUSED_NEW).        *)
(*  - Weights are neither old nor new while they are being loaded (Mixed). *)
(*  - finish_weight_update writes the label and drops no cache.            *)
(***************************************************************************)
EXTENDS Naturals

CONSTANTS
    Requests,        \* request ids, those of the rollouts
    EngineVersions,  \* labels rc-n, and the weights they name
    FreshLabel,      \* "default": the label of a server nobody seeded
    Mixed            \* weights of which some tensors are old and some new

Caches  == {"prefix", "encoder", "mm"}
Weights == EngineVersions \cup {Mixed}

VARIABLES
    paused,     \* is_paused: PAUSED_NEW or not
    stray,      \* ghost: since the last resume a pause came that nobody awaits
    waiting,    \* requests accepted and not scheduled
    running,    \* requests being generated
    ranUnder,   \* ranUnder[r]: the weights r's tokens were generated under
    weights,    \* what the workers hold
    label,      \* weight_version
    caches      \* caches[k]: the weights the content of cache k comes from

pauseState == <<paused, stray>>
engineVars == <<pauseState, waiting, running, ranUnder, weights, label, caches>>

EngineInit ==
    /\ paused = FALSE
    /\ stray = FALSE
    /\ waiting = {}
    /\ running = {}
    /\ ranUnder = [r \in Requests |-> {}]
    /\ weights = 0
    /\ label = FreshLabel
    /\ caches = [k \in Caches |-> {0}]

EngineTypeOK ==
    /\ paused \in BOOLEAN /\ stray \in BOOLEAN
    /\ waiting \in SUBSET Requests
    /\ running \in SUBSET Requests
    /\ ranUnder \in [Requests -> SUBSET Weights]
    /\ weights \in Weights
    /\ label \in EngineVersions \cup {FreshLabel}
    /\ caches \in [Caches -> SUBSET Weights]

-----------------------------------------------------------------------------
(* Requests.                                                               *)

EngineAccept(r) ==
    /\ waiting' = waiting \cup {r}
    /\ ranUnder' = [ranUnder EXCEPT ![r] = {}]
    /\ UNCHANGED <<pauseState, running, weights, label, caches>>

(* A scheduled request generates under the present weights and may leave   *)
(* content computed from them in every cache.                              *)
EngineSchedule(r) ==
    /\ ~paused
    /\ r \in waiting
    /\ waiting' = waiting \ {r}
    /\ running' = running \cup {r}
    /\ ranUnder' = [ranUnder EXCEPT ![r] = {weights}]
    /\ caches' = [k \in Caches |-> caches[k] \cup {weights}]
    /\ UNCHANGED <<pauseState, weights, label>>

EngineFinish(r) ==
    /\ r \in running
    /\ running' = running \ {r}
    /\ UNCHANGED <<pauseState, waiting, ranUnder, weights, label, caches>>

(* POST /abort_requests with an empty body aborts everything tracked.      *)
EngineAbortAll ==
    /\ waiting' = {}
    /\ running' = {}
    /\ UNCHANGED <<pauseState, ranUnder, weights, label, caches>>

-----------------------------------------------------------------------------
(* Pause and resume.                                                       *)

EnginePause ==
    /\ paused' = TRUE
    /\ UNCHANGED <<stray, waiting, running, ranUnder, weights, label, caches>>

(* The same call, read after its client has given up on it.                *)
EngineStrayPause ==
    /\ paused' = TRUE
    /\ stray' = TRUE
    /\ UNCHANGED <<waiting, running, ranUnder, weights, label, caches>>

(* The condition on which a pause(mode=wait) call answers.                 *)
EngineDrained == running = {}

EngineResume ==
    /\ paused' = FALSE
    /\ stray' = FALSE
    /\ UNCHANGED <<waiting, running, ranUnder, weights, label, caches>>

-----------------------------------------------------------------------------
(* Weights and caches.                                                     *)

(* New tensors arrive under whatever is being generated.                   *)
EngineHolds(w) ==
    /\ weights' = w
    /\ ranUnder' = [r \in Requests |-> IF r \in running THEN ranUnder[r] \cup {w}
                                                        ELSE ranUnder[r]]
    /\ UNCHANGED <<pauseState, waiting, running, label, caches>>

EngineWriteLabel(v) ==
    /\ label' = v
    /\ UNCHANGED <<pauseState, waiting, running, ranUnder, weights, caches>>

EngineReset(k) ==
    /\ caches' = [caches EXCEPT ![k] = {}]
    /\ UNCHANGED <<pauseState, waiting, running, ranUnder, weights, label>>

=============================================================================
