---------------------------- MODULE RolloutCycle ----------------------------
(***************************************************************************)
(* The whole system: the controller (Lifecycle), the HTTP adapter and its  *)
(* drain threads (HttpDrain), the engine (VllmEngine), the runner that     *)
(* drives update cycles (src/rolloutcore/runner.py), and the threads that  *)
(* own the rollouts.                                                       *)
(*                                                                         *)
(* A runner step is one call: of the controller, which is atomic under its *)
(* lock, or of the engine, whose effect and answer can come apart.  So     *)
(* everything the runner knows is old by the time it acts on it: another   *)
(* thread may release a rollout, a second runner may start a cycle, or an  *)
(* operator may taint the controller in between.                           *)
(*                                                                         *)
(* Rollout thread: admit_rollout, send the request, receive the answer,    *)
(* read the engine's label, finish_rollout (the order of                   *)
(* diagnostics/rolloutcore_trajectory_2gpu.py); or give up on a request    *)
(* that is still in the engine and abort_rollout.                          *)
(***************************************************************************)
EXTENDS Lifecycle, HttpDrain

CONSTANTS
    Runners,         \* threads that call install_next or run_cycle
    Refusals,        \* may the driver or the engine refuse a call it received?
    StaleTargets,    \* may run_cycle be called with any target, not the next one?
    PollsRunOut,     \* may the poll budget be spent?
    OperatorTaints,  \* may an operator taint the controller at any time?
    Impatient,       \* may a rollout thread give up on its request?
    RedrainFrom      \* where an operator may take over a failed drain by hand

ASSUME CycleAssumption ==
    /\ Requests = Rollouts /\ EngineVersions = Versions /\ FreshLabel = Unmanaged
    /\ Mixed \notin Versions
    /\ {Refusals, StaleTargets, PollsRunOut, OperatorTaints, Impatient} \subseteq BOOLEAN
    /\ RedrainFrom \subseteq {"drain_failed", "budget_spent"}

VARIABLES
    pc,          \* pc[c]: the next call of runner c
    target,      \* target[c]: the argument of its run_cycle
    seen,        \* seen[c]: what its last adapter call has read so far
    thread,      \* thread[r]: where the thread that owns rollout r is
    completion   \* completion[r]: Trajectory.engine_version_at_completion

runnerVars == <<pc, target, seen>>
threadVars == <<thread, completion>>
allVars    == <<vars, engineVars, drainVars, runnerVars, threadVars>>

Stopped == {"drain_failed", "budget_spent", "raised"}
RunnerPCs == Stopped \cup
    {"idle", "chosen", "pause", "attempt", "poll", "abort", "reissue",
     "confirm_drained", "begin_update", "open", "load", "install", "finish",
     "confirm_updated", "reset_prefix", "reset_encoder", "reset_mm",
     "confirm_invalidated", "validate", "confirm_validated", "resume",
     "read_back", "confirm_resumed"}
ThreadPCs == {"idle", "admitted", "sent", "answered", "observed", "gave_up", "refused"}

Nothing == [reset |-> {}, label |-> None, paused |-> FALSE, acknowledged |-> FALSE]

CInit ==
    /\ Init /\ EngineInit /\ DrainInit
    /\ pc = [c \in Runners |-> "idle"]
    /\ target = [c \in Runners |-> None]
    /\ seen = [c \in Runners |-> Nothing]
    /\ thread = [r \in Rollouts |-> "idle"]
    /\ completion = [r \in Rollouts |-> None]

-----------------------------------------------------------------------------
(* Frames.                                                                 *)

(* The next call of runner c.  When run_cycle returns or raises, its       *)
(* argument is gone.                                                       *)
Goto(c, next) ==
    /\ pc' = [pc EXCEPT ![c] = next]
    /\ target' = [target EXCEPT ![c] = IF next \in {"idle", "raised"} THEN None ELSE @]

(* A runner step that leaves the engine, the drain and the rollout threads *)
(* alone: a call of the controller.                                        *)
ControllerCall == UNCHANGED <<engineVars, drainVars, threadVars>>

(* A runner step that leaves the controller and the drain alone: a call of *)
(* the engine.                                                             *)
EngineCall == UNCHANGED <<vars, drainVars>>

(* The outcomes of an HTTP call other than "ok".                           *)
Failures == Outcomes \ {"ok"}

(* The effect of a call whose outcome is o.                                *)
Reached(o, Effect) == IF o = "lost" THEN UNCHANGED engineVars ELSE Effect

(* _effect: a foreign exception of a mutating call taints the controller,  *)
(* and run_cycle raises.                                                   *)
TaintAndRaise(c) ==
    /\ Goto(c, "raised")
    /\ \/ TaintWith
       \/ state = "TAINTED" /\ UNCHANGED vars
    /\ seen' = [seen EXCEPT ![c] = Nothing]
    /\ UNCHANGED <<drainVars, threadVars>>

Raise(c) ==
    /\ Goto(c, "raised")
    /\ seen' = [seen EXCEPT ![c] = Nothing]
    /\ UNCHANGED <<vars, engineVars, drainVars, threadVars>>

-----------------------------------------------------------------------------
(* bootstrap and install_next.                                             *)

(* Bootstrap of a fresh engine by its only controller: label read, seeded, *)
(* read back, confirmed.                                                   *)
RunnerBootstrap(c) ==
    /\ pc[c] = "idle"
    /\ \E i \in Identities :
          Initialize([observed_engine_label |-> INITIAL_VERSION, pre_seed_label |-> label,
                      weight_transfer_initialised |-> TRUE, has_driver |-> TRUE,
                      weight_identity |-> i])
    /\ EngineWriteLabel(INITIAL_VERSION)
    /\ UNCHANGED <<drainVars, runnerVars, threadVars>>

(* install_next computes the target before the cycle starts; a caller of   *)
(* run_cycle brings its own.                                               *)
RunnerNextTarget(c) ==
    /\ pc[c] = "idle"
    /\ current # None
    /\ \E t \in Targets :
          /\ StaleTargets \/ t.version = current.version + 1
          /\ target' = [target EXCEPT ![c] = t]
    /\ pc' = [pc EXCEPT ![c] = "chosen"]
    /\ UNCHANGED <<vars, engineVars, drainVars, threadVars, seen>>

-----------------------------------------------------------------------------
(* run_cycle: the drain.                                                   *)

RunnerBeginDrain(c) ==
    /\ pc[c] = "chosen"
    /\ \/ BeginDrain /\ Goto(c, "pause")
       \/ state # "READY" /\ Goto(c, "idle") /\ UNCHANGED vars
    /\ ControllerCall /\ UNCHANGED seen

(* The two critical sections of the adapter's begin_drain.                 *)
RunnerResetAttempts(c) ==
    /\ pc[c] = "pause"
    /\ ResetAttempts
    /\ Goto(c, "attempt")
    /\ UNCHANGED <<vars, engineVars, threadVars, seen>>

RunnerStartAttempt(c) ==
    /\ pc[c] = "attempt"
    /\ StartAttempt
    /\ Goto(c, "poll")
    /\ UNCHANGED <<vars, engineVars, threadVars, seen>>

(* Mutant: polling has no deadline.                                        *)
RunnerPoll_NoDeadline(c) ==
    /\ pc[c] = "poll"
    /\ \/ drainState = "COMPLETED" /\ Goto(c, "confirm_drained")
       \/ drainState = "FAILED" /\ Goto(c, "abort")
       \/ drainState = "IN_FLIGHT" /\ state # "DRAINING" /\ Goto(c, "raised")
    /\ UNCHANGED <<vars, engineVars, drainVars, threadVars, seen>>

(* await_drain and the confirm_drained that follows it.  An attempt in     *)
(* flight yields EvidenceNotReady, and the runner sleeps and polls again.  *)
RunnerPoll(c) ==
    /\ pc[c] = "poll"
    /\ \/ drainState = "COMPLETED" /\ Goto(c, "confirm_drained")
       \/ drainState = "FAILED" /\ Goto(c, "abort")
       \/ drainState = "IN_FLIGHT" /\ state # "DRAINING" /\ Goto(c, "raised")
       \/ drainState = "IN_FLIGHT" /\ PollsRunOut /\ Goto(c, "budget_spent")
    /\ UNCHANGED <<vars, engineVars, drainVars, threadVars, seen>>

(* _abort_all: an HTTPAdapterError is retried and then ignored, any other  *)
(* exception (a read timeout) leaves run_cycle.  The aborted requests      *)
(* answer their threads.                                                   *)
RunnerAbortAll(c) ==
    /\ pc[c] = "abort"
    /\ \E o \in Outcomes :
          /\ \/ Goto(c, "reissue")
             \/ o # "ok" /\ Goto(c, "raised")
          /\ Reached(o, EngineAbortAll)
          /\ thread' = IF o = "lost" THEN thread
                       ELSE [r \in Rollouts |->
                               IF r \notin waiting \cup running THEN thread[r]
                               ELSE IF thread[r] = "gave_up" THEN "idle" ELSE "answered"]
    /\ EngineCall /\ UNCHANGED <<seen, completion>>

RunnerReissue(c) ==
    /\ pc[c] = "reissue"
    /\ \/ /\ BudgetOfAttemptsSpent
          /\ Goto(c, "drain_failed")
          /\ UNCHANGED drainVars
       \/ /\ ~BudgetOfAttemptsSpent
          /\ StartAttempt
          /\ Goto(c, IF state = "DRAINING" THEN "poll" ELSE "raised")
    /\ UNCHANGED <<vars, engineVars, threadVars, seen>>

(* The drain was seen COMPLETED; by now a rollout thread may have released *)
(* its rollout, or not yet.                                                *)
RunnerConfirmDrained(c) ==
    /\ pc[c] = "confirm_drained"
    /\ \/ /\ ConfirmDrained([engine_drain_completed |-> TRUE, engine_busy |-> FALSE])
          /\ Goto(c, IF state' = "QUIESCED" THEN "begin_update" ELSE "raised")
       \/ state # "DRAINING" /\ Goto(c, "raised") /\ UNCHANGED vars
    /\ ControllerCall /\ UNCHANGED seen

-----------------------------------------------------------------------------
(* run_cycle: the update.                                                  *)

RunnerBeginUpdate(c) ==
    /\ pc[c] = "begin_update"
    /\ \/ BeginUpdate(target[c]) /\ Goto(c, "open")
       \/ /\ \/ state # "QUIESCED"
             \/ target[c].version <= current.version
          /\ Goto(c, "raised") /\ UNCHANGED vars
    /\ ControllerCall /\ UNCHANGED seen

(* start_weight_update sends nothing; it refuses a driver that moves no    *)
(* tensors.                                                                *)
RunnerOpen(c) ==
    /\ pc[c] = "open"
    /\ \/ Goto(c, "load")
       \/ Refusals /\ Goto(c, "raised")
    /\ UNCHANGED <<vars, engineVars, drainVars, threadVars, seen>>

(* complete_weight_update, that is, the driver's transfer: it refuses a    *)
(* wrong identity or device before it sends anything; then the tensors are *)
(* broadcast, and finish_weight_update writes the label.                   *)
RunnerLoad(c) ==
    /\ pc[c] = "load"
    /\ \/ EngineHolds(Mixed) /\ Goto(c, "install") /\ EngineCall /\ UNCHANGED <<threadVars, seen>>
       \/ Refusals /\ Raise(c)
       \/ Failures # {} /\ TaintAndRaise(c) /\ UNCHANGED engineVars

RunnerInstall(c) ==
    /\ pc[c] = "install"
    /\ \/ /\ EngineHolds(target[c].version)
          /\ Goto(c, "finish")
          /\ EngineCall /\ UNCHANGED <<threadVars, seen>>
       \/ Failures # {} /\ TaintAndRaise(c) /\ UNCHANGED engineVars

RunnerFinish(c) ==
    /\ pc[c] = "finish"
    /\ \/ /\ EngineWriteLabel(target[c].version)
          /\ Goto(c, "confirm_updated")
          /\ EngineCall /\ UNCHANGED <<threadVars, seen>>
       \/ \E o \in Failures :
             TaintAndRaise(c) /\ Reached(o, EngineWriteLabel(target[c].version))

(* A confirm_* call: it advances, or taints, or is illegal because someone *)
(* tainted the controller first; only the first lets run_cycle go on.      *)
RunnerConfirm(c, Call, from, next) ==
    /\ \/ Call /\ Goto(c, IF state' # "TAINTED" THEN next ELSE "raised")
       \/ state # from /\ Goto(c, "raised") /\ UNCHANGED vars
    /\ seen' = [seen EXCEPT ![c] = Nothing]
    /\ ControllerCall

RunnerConfirmUpdated(c) ==
    /\ pc[c] = "confirm_updated"
    /\ RunnerConfirm(c,
         ConfirmUpdated([target |-> target[c], weights_loaded |-> TRUE,
                         data_plane_complete |-> TRUE, finish_acknowledged |-> TRUE,
                         observed_identity |-> target[c].identity]),
         "UPDATING", "reset_prefix")

-----------------------------------------------------------------------------
(* run_cycle: the caches.                                                  *)

(* The prefix result is read from the body; an error propagates.           *)
RunnerResetPrefix(c) ==
    /\ pc[c] = "reset_prefix"
    /\ \/ /\ EngineReset("prefix")
          /\ seen' = [seen EXCEPT ![c].reset = {"prefix"}]
          /\ Goto(c, "reset_encoder") /\ EngineCall /\ UNCHANGED threadVars
       \/ /\ Refusals
          /\ Goto(c, "reset_encoder") /\ EngineCall /\ UNCHANGED <<engineVars, threadVars, seen>>
       \/ \E o \in Failures : TaintAndRaise(c) /\ Reached(o, EngineReset("prefix"))

(* Mutant: a reset whose call failed is reported as done.                  *)
RunnerReset_AlwaysClean(c, k, here, next) ==
    /\ pc[c] = here
    /\ \E o \in Outcomes : Reached(o, EngineReset(k))
    /\ seen' = [seen EXCEPT ![c].reset = @ \cup {k}]
    /\ Goto(c, next) /\ EngineCall /\ UNCHANGED threadVars

(* An HTTPAdapterError of the other two resets is caught and reported as a *)
(* flag; a raw timeout is not caught.                                      *)
RunnerReset(c, k, here, next) ==
    /\ pc[c] = here
    /\ \E o \in Outcomes :
          /\ Reached(o, EngineReset(k))
          /\ \/ /\ seen' = [seen EXCEPT ![c].reset = IF o = "ok" THEN @ \cup {k} ELSE @]
                /\ Goto(c, next) /\ EngineCall /\ UNCHANGED threadVars
             \/ o # "ok" /\ TaintAndRaise(c)

RunnerConfirmInvalidated(c) ==
    /\ pc[c] = "confirm_invalidated"
    /\ RunnerConfirm(c,
         ConfirmInvalidated([prefix_cache_reset  |-> "prefix" \in seen[c].reset,
                             encoder_cache_reset |-> "encoder" \in seen[c].reset,
                             mm_cache_reset      |-> "mm" \in seen[c].reset]),
         "INVALIDATING", "validate")

-----------------------------------------------------------------------------
(* run_cycle: validation, resume and commit.                               *)

(* An observation: its failure leaves run_cycle without a taint.  Its two  *)
(* reads are one step: only the runner itself changes what they read, or a *)
(* late pause, which finds the engine paused.                              *)
RunnerValidate(c) ==
    /\ pc[c] = "validate"
    /\ \/ /\ seen' = [seen EXCEPT ![c].label = label, ![c].paused = paused]
          /\ Goto(c, "confirm_validated")
          /\ UNCHANGED <<vars, engineVars, drainVars, threadVars>>
       \/ Failures # {} /\ Raise(c)

RunnerConfirmValidated(c) ==
    /\ pc[c] = "confirm_validated"
    /\ RunnerConfirm(c,
         ConfirmValidated([target |-> target[c], observed_engine_label |-> seen[c].label,
                           is_paused |-> seen[c].paused, caches_still_clean |-> TRUE]),
         "VALIDATING", "resume")

(* A failed POST /resume is caught, and the read-back decides.             *)
RunnerResume(c) ==
    /\ pc[c] = "resume"
    /\ \E o \in Outcomes :
          /\ Reached(o, EngineResume)
          /\ \/ /\ seen' = [seen EXCEPT ![c].acknowledged = (o = "ok")]
                /\ Goto(c, "read_back") /\ EngineCall /\ UNCHANGED threadVars
             \/ o # "ok" /\ TaintAndRaise(c)

RunnerReadBack(c) ==
    /\ pc[c] = "read_back"
    /\ UNCHANGED engineVars
    /\ \/ /\ seen' = [seen EXCEPT ![c].label = label, ![c].paused = paused]
          /\ Goto(c, "confirm_resumed") /\ EngineCall /\ UNCHANGED threadVars
       \/ Failures # {} /\ TaintAndRaise(c)

RunnerConfirmResumed(c) ==
    /\ pc[c] = "confirm_resumed"
    /\ RunnerConfirm(c,
         ConfirmResumed([target |-> target[c], resume_acknowledged |-> seen[c].acknowledged,
                         is_paused |-> seen[c].paused,
                         observed_engine_label |-> seen[c].label]),
         "RESUMING", "idle")

RunnerStep(c) ==
    \/ RunnerBeginDrain(c) \/ RunnerResetAttempts(c) \/ RunnerStartAttempt(c)
    \/ RunnerPoll(c) \/ RunnerAbortAll(c) \/ RunnerReissue(c) \/ RunnerConfirmDrained(c)
    \/ RunnerBeginUpdate(c) \/ RunnerOpen(c) \/ RunnerLoad(c) \/ RunnerInstall(c)
    \/ RunnerFinish(c) \/ RunnerConfirmUpdated(c)
    \/ RunnerResetPrefix(c)
    \/ RunnerReset(c, "encoder", "reset_encoder", "reset_mm")
    \/ RunnerReset(c, "mm", "reset_mm", "confirm_invalidated")
    \/ RunnerConfirmInvalidated(c) \/ RunnerValidate(c) \/ RunnerConfirmValidated(c)
    \/ RunnerResume(c) \/ RunnerReadBack(c) \/ RunnerConfirmResumed(c)

-----------------------------------------------------------------------------
(* The operator.                                                           *)

OperatorTaint ==
    /\ OperatorTaints
    /\ Taint
    /\ UNCHANGED <<engineVars, drainVars, runnerVars, threadVars>>

(* DrainFailedError: "Re-draining, or an operator taint, is the next       *)
(* decision."  The operator calls the adapter's begin_drain again and      *)
(* drives the rest of the cycle with the calls run_cycle makes.            *)
OperatorRedrain(c) ==
    /\ pc[c] \in RedrainFrom
    /\ state = "DRAINING"
    /\ Goto(c, "pause")
    /\ UNCHANGED <<vars, engineVars, drainVars, seen, threadVars>>

-----------------------------------------------------------------------------
(* The rollout threads and the engine's side of their requests.            *)

ThreadAdmit(r) ==
    /\ thread[r] = "idle"
    /\ AdmitRollout(r)
    /\ thread' = [thread EXCEPT ![r] = "admitted"]
    /\ UNCHANGED <<engineVars, drainVars, runnerVars, completion>>

ThreadSend(r) ==
    /\ thread[r] = "admitted"
    /\ EngineAccept(r)
    /\ thread' = [thread EXCEPT ![r] = "sent"]
    /\ UNCHANGED <<vars, drainVars, runnerVars, completion>>

(* The engine is idle from here on; the thread learns of it later.         *)
RequestFinishes(r) ==
    /\ EngineFinish(r)
    /\ thread' = [thread EXCEPT ![r] = IF @ = "gave_up" THEN "idle" ELSE "answered"]
    /\ UNCHANGED <<vars, drainVars, runnerVars, completion>>

RequestScheduled(r) ==
    /\ EngineSchedule(r)
    /\ UNCHANGED <<vars, drainVars, runnerVars, threadVars>>

ThreadObserve(r) ==
    /\ thread[r] = "answered"
    /\ completion' = [completion EXCEPT ![r] = label]
    /\ thread' = [thread EXCEPT ![r] = "observed"]
    /\ UNCHANGED <<vars, engineVars, drainVars, runnerVars>>

(* finish_rollout, or abort_rollout by a thread that gives up waiting; in  *)
(* a tainted controller it raises, and the rollout is an orphan.           *)
ThreadRelease(r) ==
    /\ \/ thread[r] = "observed"
       \/ Impatient /\ thread[r] = "sent"
    /\ \/ /\ ReleaseRollout(r)
          /\ thread' = [thread EXCEPT ![r] = IF @ = "sent" THEN "gave_up" ELSE "idle"]
       \/ /\ state \notin ROLLOUT_COMPLETION_STATES \/ active[r] = None
          /\ thread' = [thread EXCEPT ![r] = "refused"]
          /\ UNCHANGED vars
    /\ completion' = [completion EXCEPT ![r] = None]
    /\ UNCHANGED <<engineVars, drainVars, runnerVars>>

DrainThread(t) == ThreadStep(t) /\ UNCHANGED <<vars, runnerVars, threadVars>>

LatePauseArrives == LatePause /\ UNCHANGED <<vars, runnerVars, threadVars>>

CNext ==
    \/ \E c \in Runners : RunnerBootstrap(c)
    \/ \E c \in Runners : RunnerNextTarget(c)
    \/ \E c \in Runners : RunnerStep(c)
    \/ OperatorTaint
    \/ \E c \in Runners : OperatorRedrain(c)
    \/ \E t \in Threads : DrainThread(t)
    \/ LatePauseArrives
    \/ \E r \in Rollouts : ThreadAdmit(r)
    \/ \E r \in Rollouts : ThreadSend(r)
    \/ \E r \in Rollouts : RequestScheduled(r)
    \/ \E r \in Rollouts : RequestFinishes(r)
    \/ \E r \in Rollouts : ThreadObserve(r)
    \/ \E r \in Rollouts : ThreadRelease(r)

CSpec == CInit /\ [][CNext]_allVars

(* Inside send_weights: the broadcast is under way.                        *)
InCollective(c) == pc[c] \in {"load", "install"}

(* run_cycle is a loop over a bounded number of polls in a thread of its   *)
(* own: it is scheduled, and every HTTP call it makes has a timeout.  The  *)
(* collective has none: a peer that dies, runs out of memory or expects    *)
(* another stream leaves the sender in it for good, so nothing says that   *)
(* RunnerLoad or RunnerInstall is ever taken.                              *)
RunnersAreFair == \A c \in Runners : WF_allVars(RunnerStep(c) /\ ~InCollective(c))

(* A healthy engine takes its part in the collective, answers a pause,     *)
(* schedules what waits while it is not paused and finishes what runs; the *)
(* rollout threads do not stop between admission and release.              *)
EngineIsFair ==
    /\ \A c \in Runners : WF_allVars(RunnerStep(c) /\ InCollective(c))
    /\ \A t \in Threads : WF_allVars(DrainThread(t))
    /\ \A r \in Rollouts : WF_allVars(RequestScheduled(r)) /\ WF_allVars(RequestFinishes(r))
ThreadsAreFair ==
    \A r \in Rollouts : /\ WF_allVars(ThreadSend(r))
                        /\ WF_allVars(ThreadObserve(r))
                        /\ WF_allVars(ThreadRelease(r))

TimeoutSpec == CSpec /\ RunnersAreFair
FairSpec    == CSpec /\ RunnersAreFair /\ EngineIsFair /\ ThreadsAreFair

-----------------------------------------------------------------------------
(* Safety.                                                                 *)

(* The values of the composed state.                                       *)
CTypeOK ==
    /\ TypeOK /\ EngineTypeOK /\ DrainTypeOK
    /\ pc \in [Runners -> RunnerPCs]
    /\ target \in [Runners -> Targets \cup {None}]
    /\ seen \in [Runners -> [reset : SUBSET Caches, label : Labels \cup {None},
                             paused : BOOLEAN, acknowledged : BOOLEAN]]
    /\ thread \in [Rollouts -> ThreadPCs]
    /\ completion \in [Rollouts -> Labels \cup {None}]

(* The target a rollout is, or was when it was orphaned, bound to.         *)
BoundTarget(r) == IF active[r] # None THEN active[r] ELSE orphaned[r]

(* I2 end to end: the tokens of a rollout that is bound (or an orphan) were*)
(* all generated under the weights of its binding, whatever the rollout    *)
(* threads, the runners, the operator and lost answers do.                 *)
NoMixedRollout ==
    \A r \in Rollouts : BoundTarget(r) # None /\ thread[r] \in {"sent", "answered", "observed"} =>
        ranUnder[r] \subseteq {BoundTarget(r).version}

(* I3 and fail-closed: an engine that is not paused holds one complete set *)
(* of weights and nothing in any cache that other weights computed, in     *)
(* every state of the controller, TAINTED included.                        *)
ServesOnlyOneVersion ==
    ~paused => /\ weights # Mixed
               /\ \A k \in Caches : caches[k] \subseteq {weights}

(* I5 at the engine: from the proof of the drain to the resume, the engine *)
(* is paused and generates nothing (LifecycleState, PAUSED_STATES).        *)
UpdatesUnderPause ==
    state \in MutationStates \ {"RESUMING"} => paused /\ running = {}

(* I1, I8: a controller that is READY tells the truth about the engine: it *)
(* holds the committed weights under the committed label and serves, unless*)
(* a pause call that was given up on came after the resume and stopped it. *)
ReadyServesCommitted ==
    state = "READY" =>
        /\ weights = current.version /\ label = current.version
        /\ paused => stray

(* Trajectory.spans_an_update is False: the label a rollout thread reads   *)
(* between the answer and the release is the version it is bound to.       *)
NoTrajectorySpansUpdate ==
    \A r \in Rollouts : BoundTarget(r) # None /\ thread[r] = "observed" =>
        completion[r] = BoundTarget(r).version

(* A drain has one live attempt at a time, the current one: no verdict is  *)
(* ever taken for that of another attempt.                                 *)
OneLiveAttempt ==
    \A t \in Threads : Live(t) =>
        /\ drainState = "IN_FLIGHT"
        /\ threads[t].attempt = drainAttempts
        /\ \A u \in Threads \ {t} : ~Live(u)

(* What the runner relies on when it confirms a drain it saw COMPLETED.    *)
CompletedMeansDrained ==
    \A c \in Runners : pc[c] = "confirm_drained" => paused /\ running = {}

-----------------------------------------------------------------------------
(* Liveness.                                                               *)

(* run_cycle returns or raises, whatever calls are lost or never answered, *)
(* whoever taints, and although rollout threads may hold their rollouts    *)
(* forever: attempts, polls and retries are all bounded.  What has no      *)
(* bound, and is the only place where a cycle can stay, is the collective. *)
RunCycleReturns ==
    \A c \in Runners :
        \/ []<>(pc[c] \in Stopped \cup {"idle"})
        \/ <>[]InCollective(c)

(* With an engine and rollout threads that do their part, a drain leads to *)
(* a commit, or to the drain disagreement and its taint: never to a wait   *)
(* of the drain for a rollout that itself waits for the engine to resume.  *)
CycleSettles == state = "DRAINING" ~> (state = "READY" \/ taintedIn = "DRAINING")

(* No rollout stays bound forever, not even one whose request reaches the  *)
(* engine behind the pause.                                                *)
BindingsResolve == \A r \in Rollouts : active[r] # None ~> active[r] = None

-----------------------------------------------------------------------------
(* What the documents say and the code does not guarantee: each of these   *)
(* is refuted by a run of its own (README.md, "Where code and documents    *)
(* disagree").                                                             *)

(* _observe: "The engine is paused during every state these are called     *)
(* from (DRAINING and VALIDATING)"; state-machine.md section 4: after a    *)
(* DrainFailedError "the engine is known-paused".                          *)
PausedWhenDrainFails == \A c \in Runners : pc[c] = "drain_failed" => paused

(* LifecycleState: TAINTED is "terminal in V1. Never resumed, never rolled *)
(* back": a paused engine stays paused under a tainted controller.         *)
TaintedNeverResumed == [][state = "TAINTED" /\ paused => paused']_allVars

(* state-machine.md:494-496: a failed /resume could be retried, "given the *)
(* engine is paused (and therefore safe) throughout".                      *)
FailedResumeLeavesPaused == state = "TAINTED" /\ taintedIn = "RESUMING" => paused

=============================================================================
