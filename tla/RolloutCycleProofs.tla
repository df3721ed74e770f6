------------------------- MODULE RolloutCycleProofs -------------------------
(***************************************************************************)
(* Theorems about the whole system of RolloutCycle.tla, for any number of  *)
(* rollouts, runners, drain threads, generations and reissues, and with    *)
(* every fault the module has.                                             *)
(*                                                                         *)
(* The argument.  Every step of the system is a step of the controller, so *)
(* IInv (LifecycleProofs) holds of it.  At most one runner is inside a     *)
(* cycle, and its program counter and the lifecycle state, taken from      *)
(* before a taint if there was one, name the same phase (OneCycle,         *)
(* Position): an operator's taint moves the controller but not the runner, *)
(* who learns of it at its next confirmation.  From the proof of the drain *)
(* to the resume the engine is paused and empty (DrainHeld), so weights    *)
(* can arrive under no rollout; what the runner has loaded, labelled and   *)
(* reset so far is what the engine holds (ContentOf); and so the commit    *)
(* finds an engine that serves the target it commits (Serving).            *)
(***************************************************************************)
EXTENDS RolloutCycle, LifecycleProofs

(* An operator re-drains by hand only where DrainFailedError tells him to: *)
(* after the last attempt has failed.  A drain whose polls ran out may     *)
(* have an attempt in flight, and a second one beside it.                  *)
SafeRedrain == "budget_spent" \notin RedrainFrom

-----------------------------------------------------------------------------
(* The inductive invariant.                                                *)

(* The phase of the cycle: the lifecycle state, or the one a taint struck. *)
Where == IF state = "TAINTED" THEN taintedIn ELSE state

(* The calls of run_cycle by the lifecycle state they are made in.         *)
DrainCalls    == {"pause", "attempt", "poll", "abort", "reissue", "confirm_drained",
                  "drain_failed", "budget_spent"}
LoadCalls     == {"open", "load", "install", "finish", "confirm_updated"}
ResetCalls    == {"reset_prefix", "reset_encoder", "reset_mm", "confirm_invalidated"}
ValidateCalls == {"validate", "confirm_validated"}
ResumeCalls   == {"resume", "read_back", "confirm_resumed"}
UpdateCalls   == {"begin_update"} \cup LoadCalls \cup ResetCalls \cup ValidateCalls
                     \cup ResumeCalls

(* A runner inside run_cycle.  There is at most one.                       *)
Cycling(c) == pc[c] \in DrainCalls \cup UpdateCalls

OneCycle == \A c, d \in Runners : Cycling(c) /\ Cycling(d) => c = d

(* The runner's next call is one its phase of the cycle allows.            *)
Position(c) ==
    /\ pc[c] \in DrainCalls    => Where = "DRAINING"
    /\ pc[c] = "begin_update"  => Where = "QUIESCED"
    /\ pc[c] \in LoadCalls     => Where = "UPDATING"
    /\ pc[c] \in ResetCalls    => Where = "INVALIDATING"
    /\ pc[c] \in ValidateCalls => Where = "VALIDATING"
    /\ pc[c] \in ResumeCalls   => Where = "RESUMING"
    /\ pc[c] \notin {"idle", "raised"} => target[c] # None

(* Calls that no attempt of the drain outlives.                            *)
SettledCalls == (DrainCalls \ {"poll", "budget_spent"}) \cup UpdateCalls

Drained == paused /\ running = {}

(* What the runner's place in the cycle says of the drain.                 *)
DrainOf(c) ==
    /\ pc[c] \in SettledCalls => drainState # "IN_FLIGHT"
    /\ pc[c] = "attempt" => drainAttempts = 0
    /\ pc[c] \in {"confirm_drained", "resume"} => Drained
    /\ pc[c] = "poll" /\ drainState = "COMPLETED" => Drained

(* ... and of the weights, the label and the caches.                       *)
ContentOf(c) ==
    /\ pc[c] \in {"finish", "confirm_updated"} \cup ResetCalls \cup ValidateCalls \cup ResumeCalls
          => weights = target[c].version
    /\ pc[c] \in {"confirm_updated"} \cup ResetCalls \cup ValidateCalls \cup ResumeCalls
          => label = target[c].version
    /\ pc[c] \in ResetCalls => \A k \in seen[c].reset : caches[k] = {}
    /\ pc[c] \in ValidateCalls \cup {"resume"} => \A k \in Caches : caches[k] = {}
    /\ pc[c] = "confirm_validated" => seen[c].label # None
    /\ pc[c] \in {"read_back", "confirm_resumed"} /\ seen[c].acknowledged => (paused => stray)

(* An attempt is in flight while DRAINING only, and what its thread has    *)
(* seen of the engine still holds.                                         *)
DrainHeld ==
    /\ Where # "DRAINING" => drainState # "IN_FLIGHT"
    /\ Where \in MutationStates \ {"RESUMING"} => Drained
    /\ \A t \in Threads : /\ threads[t].phase = "held" => paused
                          /\ threads[t].phase = "ok" => Drained

(* The engine before bootstrap, and while rollouts may be bound.           *)
Serving ==
    /\ Where = "UNINITIALIZED" => weights = 0 /\ ~paused /\ late = 0
    /\ Where \in {"READY", "DRAINING"} =>
          current # None /\ weights = current.version /\ label = current.version
    /\ Where = "READY" => (paused => stray)

(* Only a request that was sent is in the engine, and one that waits has   *)
(* generated nothing.                                                      *)
InEngine ==
    /\ waiting \cap running = {}
    /\ \A r \in waiting \cup running : thread[r] \in {"sent", "gave_up", "refused"}
    /\ \A r \in waiting : ranUnder[r] = {}

(* NoMixedRollout, also for a thread whose release was refused.            *)
RanBound ==
    \A r \in Rollouts :
        BoundTarget(r) # None /\ thread[r] \in {"sent", "answered", "observed", "refused"} =>
            ranUnder[r] \subseteq {BoundTarget(r).version}

(* What does not depend on the runners.                                    *)
Around == /\ OneLiveAttempt /\ DrainHeld /\ Serving /\ ServesOnlyOneVersion
          /\ InEngine /\ RanBound /\ NoTrajectorySpansUpdate

(* What depends on one.                                                    *)
Local(c) == Position(c) /\ DrainOf(c) /\ ContentOf(c)

CInv ==
    /\ CTypeOK
    /\ IInv
    /\ OneCycle
    /\ \A c \in Runners : Local(c)
    /\ Around

-----------------------------------------------------------------------------
(* None and Mixed are apart from the targets and their versions.           *)
LEMMA NoNone == /\ None \notin Targets /\ Labels = Versions \cup {Unmanaged}
                /\ \A t \in Targets : t.version \in Versions /\ t.version # Mixed /\ t # None
  BY NoneAssumption, CycleAssumption DEF Targets, Labels

(* The state behind a taint is what it was.                                *)
LEMMA TaintWhere ==
  ASSUME TaintWith
  PROVE  Where' = Where /\ current' = current
  BY DEF TaintWith, Where

(* A taint moves the bindings to the forensic record, unchanged.           *)
LEMMA TaintBound ==
  ASSUME IInv, TaintWith
  PROVE  \A r \in Rollouts : BoundTarget(r)' = BoundTarget(r)
  BY DEF TaintWith, BoundTarget, IInv, TypeOK, FreshUntilBootstrap, NoRollouts

(* A runner that goes on moves itself only.                                *)
LEMMA GotoFacts ==
  ASSUME CTypeOK, NEW c \in Runners, NEW next \in RunnerPCs, Goto(c, next)
  PROVE  /\ pc' \in [Runners -> RunnerPCs] /\ pc'[c] = next
         /\ target' \in [Runners -> Targets \cup {None}]
         /\ next \notin {"idle", "raised"} => target'[c] = target[c]
         /\ \A d \in Runners \ {c} : pc'[d] = pc[d] /\ target'[d] = target[d]
  BY DEF Goto, CTypeOK

(* The step of the runner that cycles does not concern the others.         *)
LEMMA OthersRest ==
  ASSUME CInv, NEW c \in Runners, Cycling(c), Local(c)',
         pc' \in [Runners -> RunnerPCs],
         \A d \in Runners \ {c} : pc'[d] = pc[d] /\ target'[d] = target[d]
  PROVE  OneCycle' /\ \A d \in Runners : Local(d)'
<1>1. \A d \in Runners \ {c} : ~Cycling(d)
  BY DEF CInv, OneCycle
<1>2. \A d \in Runners \ {c} : ~Cycling(d)'
  BY <1>1 DEF Cycling
<1>3. OneCycle'
  BY <1>2 DEF OneCycle
<1>4. ASSUME NEW d \in Runners \ {c} PROVE Local(d)'
  <2>1. pc'[d] = pc[d] /\ target'[d] = target[d] /\ pc[d] \notin DrainCalls \cup UpdateCalls
    BY <1>1, <1>4 DEF Cycling
  <2>2. pc[d] \notin {"idle", "raised"} => target[d] # None
    BY <1>4 DEF CInv, Local, Position
  <2> QED
    BY <2>1, <2>2 DEF Local, Position, DrainOf, ContentOf, SettledCalls, DrainCalls,
         UpdateCalls, LoadCalls, ResetCalls, ValidateCalls, ResumeCalls
<1> QED
  BY <1>3, <1>4

-----------------------------------------------------------------------------
(* The composition takes only steps of the controller.                     *)

(* The evidence the runner hands over is evidence.                         *)
LEMMA EvidenceTyped ==
  ASSUME CTypeOK, NEW c \in Runners, target[c] # None
  PROVE  /\ target[c] \in Targets
         /\ [engine_drain_completed |-> TRUE, engine_busy |-> FALSE] \in DrainEvidence
         /\ [target |-> target[c], weights_loaded |-> TRUE,
             data_plane_complete |-> TRUE, finish_acknowledged |-> TRUE,
             observed_identity |-> target[c].identity] \in UpdateEvidence
         /\ [prefix_cache_reset  |-> "prefix" \in seen[c].reset,
             encoder_cache_reset |-> "encoder" \in seen[c].reset,
             mm_cache_reset      |-> "mm" \in seen[c].reset] \in InvalidateEvidence
         /\ [target |-> target[c], resume_acknowledged |-> seen[c].acknowledged,
             is_paused |-> seen[c].paused,
             observed_engine_label |-> seen[c].label] \in ResumeEvidence
         /\ seen[c].label # None =>
            [target |-> target[c], observed_engine_label |-> seen[c].label,
             is_paused |-> seen[c].paused, caches_still_clean |-> TRUE] \in ValidateEvidence
<1>1. target[c] \in Targets /\ target[c].identity \in Identities
  BY DEF CTypeOK, Targets
<1>2. seen[c] \in [reset : SUBSET Caches, label : Labels \cup {None},
                   paused : BOOLEAN, acknowledged : BOOLEAN]
  BY DEF CTypeOK
<1> QED
  BY <1>1, <1>2
     DEF DrainEvidence, UpdateEvidence, InvalidateEvidence, ResumeEvidence, ValidateEvidence


(* What the other threads do to the controller.                            *)
LEMMA OthersStepController ==
  ASSUME CInv, CNext, ~\E c \in Runners : RunnerStep(c)
  PROVE  [Next]_vars
<1>1. ASSUME NEW c \in Runners, RunnerBootstrap(c) PROVE Next
  <2>1. PICK i \in Identities :
          Initialize([observed_engine_label |-> INITIAL_VERSION, pre_seed_label |-> label,
                      weight_transfer_initialised |-> TRUE, has_driver |-> TRUE,
                      weight_identity |-> i])
    BY <1>1 DEF RunnerBootstrap
  <2>2. label \in Labels /\ INITIAL_VERSION \in Labels
    BY CycleAssumption, VersionsAssumption DEF CInv, CTypeOK, EngineTypeOK, Labels
  <2>3. [observed_engine_label |-> INITIAL_VERSION, pre_seed_label |-> label,
         weight_transfer_initialised |-> TRUE, has_driver |-> TRUE,
         weight_identity |-> i] \in BootstrapEvidence
    BY <2>2 DEF BootstrapEvidence
  <2> QED
    BY <2>1, <2>3 DEF Next
<1>2. ASSUME NEW c \in Runners, RunnerNextTarget(c) PROVE UNCHANGED vars
  BY <1>2 DEF RunnerNextTarget
<1>3. CASE OperatorTaint
  BY <1>3 DEF OperatorTaint, Next
<1>4. ASSUME NEW c \in Runners, OperatorRedrain(c) PROVE UNCHANGED vars
  BY <1>4 DEF OperatorRedrain
<1>5. ASSUME NEW t \in Threads, DrainThread(t) PROVE UNCHANGED vars
  BY <1>5 DEF DrainThread
<1>6. CASE LatePauseArrives
  BY <1>6 DEF LatePauseArrives
<1>7. ASSUME NEW r \in Rollouts, ThreadAdmit(r) PROVE Next
  BY <1>7 DEF ThreadAdmit, Next
<1>8. ASSUME NEW r \in Rollouts,
             ThreadSend(r) \/ RequestScheduled(r) \/ RequestFinishes(r) \/ ThreadObserve(r)
      PROVE UNCHANGED vars
  BY <1>8 DEF ThreadSend, RequestScheduled, RequestFinishes, ThreadObserve
<1>9. ASSUME NEW r \in Rollouts, ThreadRelease(r) PROVE [Next]_vars
  BY <1>9 DEF ThreadRelease, Next
<1> QED
  BY <1>1, <1>2, <1>3, <1>4, <1>5, <1>6, <1>7, <1>8, <1>9 DEF CNext

(* What a runner does to the controller.                                   *)
LEMMA RunnerStepsController ==
  ASSUME CInv, NEW c \in Runners, RunnerStep(c)
  PROVE  [Next]_vars
<1> USE DEF RunnerPCs, Stopped
<1>1. CTypeOK /\ Local(c)
  BY DEF CInv
<1>2. ASSUME TaintAndRaise(c) PROVE [Next]_vars
  BY <1>2 DEF TaintAndRaise, Next, Taint
<1>3. ASSUME pc[c] \notin {"idle", "raised"} PROVE target[c] # None
  BY <1>1, <1>3 DEF Local, Position
<1>4. CASE RunnerBeginDrain(c)
  BY <1>4 DEF RunnerBeginDrain, Next
<1>5. CASE \/ RunnerResetAttempts(c) \/ RunnerStartAttempt(c) \/ RunnerPoll(c)
           \/ RunnerAbortAll(c) \/ RunnerReissue(c) \/ RunnerOpen(c) \/ RunnerValidate(c)
  BY <1>5 DEF RunnerResetAttempts, RunnerStartAttempt, RunnerPoll, RunnerAbortAll,
              RunnerReissue, RunnerOpen, RunnerValidate, EngineCall, Raise
<1>6. CASE RunnerConfirmDrained(c)
  BY <1>1, <1>3, <1>6, EvidenceTyped DEF RunnerConfirmDrained, Next
<1>7. CASE RunnerBeginUpdate(c)
  BY <1>1, <1>3, <1>7, EvidenceTyped DEF RunnerBeginUpdate, Next
<1>8. CASE RunnerLoad(c) \/ RunnerInstall(c) \/ RunnerFinish(c)
  BY <1>2, <1>8 DEF RunnerLoad, RunnerInstall, RunnerFinish, EngineCall, Raise
<1>9. CASE RunnerConfirmUpdated(c)
  BY <1>1, <1>3, <1>9, EvidenceTyped DEF RunnerConfirmUpdated, RunnerConfirm, Next
<1>10. CASE \/ RunnerResetPrefix(c)
            \/ RunnerReset(c, "encoder", "reset_encoder", "reset_mm")
            \/ RunnerReset(c, "mm", "reset_mm", "confirm_invalidated")
  BY <1>2, <1>10 DEF RunnerResetPrefix, RunnerReset, EngineCall
<1>11. CASE RunnerConfirmInvalidated(c)
  BY <1>1, <1>3, <1>11, EvidenceTyped DEF RunnerConfirmInvalidated, RunnerConfirm, Next
<1>12. CASE RunnerConfirmValidated(c)
  <2>1. target[c] # None /\ seen[c].label # None
    BY <1>1, <1>3, <1>12 DEF RunnerConfirmValidated, Local, ContentOf
  <2> QED
    BY <1>1, <2>1, <1>12, EvidenceTyped DEF RunnerConfirmValidated, RunnerConfirm, Next
<1>13. CASE RunnerResume(c) \/ RunnerReadBack(c)
  BY <1>2, <1>13 DEF RunnerResume, RunnerReadBack, EngineCall
<1>14. CASE RunnerConfirmResumed(c)
  BY <1>1, <1>3, <1>14, EvidenceTyped DEF RunnerConfirmResumed, RunnerConfirm, Next
<1> QED
  BY <1>4, <1>5, <1>6, <1>7, <1>8, <1>9, <1>10, <1>11, <1>12, <1>13, <1>14 DEF RunnerStep

LEMMA ControllerInside ==
  ASSUME CInv, [CNext]_allVars
  PROVE  [Next]_vars /\ IInv'
<1>1. [Next]_vars
  BY OthersStepController, RunnerStepsController DEF CNext, allVars
<1> QED
  BY <1>1, NextPreserves DEF CInv


-----------------------------------------------------------------------------
(* Frames: what does not disturb a part of the invariant.                  *)

(* CTypeOK without the controller and without what Goto moves.             *)
RestTyped ==
    /\ EngineTypeOK /\ DrainTypeOK
    /\ seen \in [Runners -> [reset : SUBSET Caches, label : Labels \cup {None},
                             paused : BOOLEAN, acknowledged : BOOLEAN]]
    /\ thread \in [Rollouts -> ThreadPCs]
    /\ completion \in [Rollouts -> Labels \cup {None}]

(* A step that leaves the rollouts, their bindings and requests alone.     *)
LEMMA BindingsFrame ==
  ASSUME CInv, \A r \in Rollouts : BoundTarget(r)' = BoundTarget(r),
         UNCHANGED <<waiting, running, ranUnder, thread, completion>>
  PROVE  InEngine' /\ RanBound' /\ NoTrajectorySpansUpdate'
<1>1. InEngine'
  BY DEF CInv, Around, InEngine
<1>2. RanBound'
  BY DEF CInv, Around, RanBound
<1>3. NoTrajectorySpansUpdate'
  BY DEF CInv, Around, NoTrajectorySpansUpdate
<1> QED
  BY <1>1, <1>2, <1>3

(* A runner makes a call and keeps the controller as it is, or taints it.  *)
LEMMA RunnerFrame ==
  ASSUME CInv, NEW c \in Runners, Cycling(c),
         \E next \in RunnerPCs : Goto(c, next), Local(c)', RestTyped', TypeOK', IInv', Around'
  PROVE  CInv'
<1>1. PICK next \in RunnerPCs : Goto(c, next)
  OBVIOUS
<1>2. CTypeOK
  BY DEF CInv
<1>3. OneCycle' /\ \A d \in Runners : Local(d)'
  BY <1>1, <1>2, GotoFacts, OthersRest
<1>4. CTypeOK'
  BY <1>1, <1>2, GotoFacts DEF CTypeOK, RestTyped
<1> QED
  BY <1>3, <1>4 DEF CInv

(* Where a runner in the middle of an update finds the system.             *)
LEMMA InUpdate ==
  ASSUME CInv, NEW c \in Runners, pc[c] \in UpdateCalls
  PROVE  /\ CTypeOK /\ Local(c) /\ Cycling(c)
         /\ target[c] \in Targets /\ target[c].version \in Versions
         /\ target[c].version # Mixed
         /\ Where \in MutationStates
         /\ drainState # "IN_FLIGHT"
         /\ \A t \in Threads : threads[t].phase = "free"
         /\ pc[c] \notin {"read_back", "confirm_resumed"} => Drained
<1> USE DEF UpdateCalls, LoadCalls, ResetCalls, ValidateCalls, ResumeCalls
<1>1. CTypeOK /\ Local(c) /\ Cycling(c) /\ Around
  BY DEF CInv, Cycling
<1>2. target[c] \in Targets
  BY <1>1 DEF Local, Position, CTypeOK
<1>3. drainState # "IN_FLIGHT"
  BY <1>1 DEF Local, DrainOf, SettledCalls
<1>4. Where \in MutationStates /\ (pc[c] \notin ResumeCalls => Where # "RESUMING")
  BY <1>1 DEF Local, Position, MutationStates, PendingStates
<1> QED
  BY <1>1, <1>2, <1>3, <1>4, NoNone
     DEF Around, OneLiveAttempt, Live, DrainHeld, Local, DrainOf

(* A runner in the middle of an update makes a step that leaves the drain, *)
(* the rollout threads and their requests alone.                           *)
LEMMA UpdateFrame ==
  ASSUME CInv, IInv', NEW c \in Runners, pc[c] \in UpdateCalls,
         NEW next \in RunnerPCs, Goto(c, next),
         UNCHANGED <<drainVars, threadVars, waiting, running, ranUnder>>,
         \A r \in Rollouts : BoundTarget(r)' = BoundTarget(r),
         paused' \in BOOLEAN /\ stray' \in BOOLEAN,
         weights' \in Weights, label' \in EngineVersions \cup {FreshLabel},
         caches' \in [Caches -> SUBSET Weights],
         seen' \in [Runners -> [reset : SUBSET Caches, label : Labels \cup {None},
                                paused : BOOLEAN, acknowledged : BOOLEAN]],
         Where' \in MutationStates \ {"RESUMING"} => paused' /\ running = {},
         Serving', ServesOnlyOneVersion', Local(c)'
  PROVE  CInv'
<1>1. InEngine' /\ RanBound' /\ NoTrajectorySpansUpdate'
  BY BindingsFrame DEF threadVars
<1>2. OneLiveAttempt' /\ DrainHeld'
  BY InUpdate DEF CInv, Around, OneLiveAttempt, Live, DrainHeld, Drained, drainVars
<1>3. RestTyped'
  BY DEF CInv, CTypeOK, RestTyped, EngineTypeOK, DrainTypeOK, drainVars, threadVars
<1> QED
  BY <1>1, <1>2, <1>3, InUpdate, RunnerFrame DEF Around, IInv

(* A runner that has left run_cycle relies on nothing.                     *)
LEMMA RaisedLocal ==
  ASSUME CTypeOK, NEW c \in Runners, Goto(c, "raised")
  PROVE  Local(c)'
  BY GotoFacts
     DEF RunnerPCs, Stopped, Local, Position, DrainOf, ContentOf, SettledCalls, DrainCalls,
       UpdateCalls, LoadCalls, ResetCalls, ValidateCalls, ResumeCalls

(* A call that raises, after an effect on the engine or none, and after a  *)
(* taint or none.                                                          *)
LEMMA RaiseInUpdate ==
  ASSUME CInv, IInv', NEW c \in Runners, pc[c] \in UpdateCalls, Goto(c, "raised"),
         UNCHANGED vars \/ TaintWith,
         UNCHANGED seen \/ seen' = [seen EXCEPT ![c] = Nothing],
         UNCHANGED <<drainVars, threadVars, waiting, running, ranUnder, weights>>,
         UNCHANGED pauseState \/ (EngineResume /\ pc[c] = "resume"),
         label' \in EngineVersions \cup {FreshLabel},
         caches' \in [Caches -> SUBSET Weights],
         \A k \in Caches : caches'[k] \subseteq caches[k]
  PROVE  CInv'
<1>1. CTypeOK /\ Local(c) /\ IInv /\ Where \in MutationStates /\ weights \in Weights
  BY InUpdate DEF CInv, CTypeOK, EngineTypeOK
<1>2. Where' = Where
  BY TaintWhere DEF vars, Where
<1>3. \A r \in Rollouts : BoundTarget(r)' = BoundTarget(r)
  BY <1>1, TaintBound DEF vars, BoundTarget
<1>4. seen' \in [Runners -> [reset : SUBSET Caches, label : Labels \cup {None},
                             paused : BOOLEAN, acknowledged : BOOLEAN]]
  <2>1. Nothing \in [reset : SUBSET Caches, label : Labels \cup {None},
                     paused : BOOLEAN, acknowledged : BOOLEAN]
    BY DEF Nothing
  <2> QED
    BY <1>1, <2>1 DEF CTypeOK
<1>5. paused' \in BOOLEAN /\ stray' \in BOOLEAN
  BY <1>1 DEF CTypeOK, EngineTypeOK, pauseState, EngineResume
<1>6. Where \in MutationStates \ {"RESUMING"} => paused' /\ running = {}
  <2>1. pc[c] = "resume" => Where = "RESUMING"
    BY <1>1 DEF Local, Position, ResumeCalls
  <2> QED
    BY <2>1 DEF CInv, Around, DrainHeld, Drained, pauseState
<1>7. Serving'
  BY <1>1, <1>2 DEF Serving, MutationStates, PendingStates
<1>8. ServesOnlyOneVersion'
  <2>1. CASE UNCHANGED pauseState
    BY <2>1 DEF CInv, Around, ServesOnlyOneVersion, pauseState
  <2>2. CASE pc[c] = "resume"
    <3>1. weights # Mixed /\ \A k \in Caches : caches[k] = {}
      BY <1>1, <2>2, InUpdate DEF Local, ContentOf, ResumeCalls
    <3> QED
      BY <3>1 DEF ServesOnlyOneVersion
  <2> QED
    BY <2>1, <2>2
<1>9. "raised" \in RunnerPCs
  BY DEF RunnerPCs, Stopped
<1> QED
  BY <1>1, <1>2, <1>3, <1>4, <1>5, <1>6, <1>7, <1>8, <1>9, RaisedLocal, UpdateFrame

(* The same for _effect's taint.                                           *)
LEMMA TaintAndRaiseInUpdate ==
  ASSUME CInv, IInv', NEW c \in Runners, pc[c] \in UpdateCalls, TaintAndRaise(c),
         UNCHANGED <<waiting, running, ranUnder, weights>>,
         UNCHANGED pauseState \/ (EngineResume /\ pc[c] = "resume"),
         label' \in EngineVersions \cup {FreshLabel},
         caches' \in [Caches -> SUBSET Weights],
         \A k \in Caches : caches'[k] \subseteq caches[k]
  PROVE  CInv'
  BY RaiseInUpdate DEF TaintAndRaise

-----------------------------------------------------------------------------
(* run_cycle: the update.                                                  *)

(* begin_update and start_weight_update send nothing.                      *)
LEMMA BeginUpdatePreserves ==
  ASSUME CInv, IInv', NEW c \in Runners, RunnerBeginUpdate(c)
  PROVE  CInv'
<1> USE DEF UpdateCalls, LoadCalls, ResetCalls, ValidateCalls, ResumeCalls, RunnerPCs, Stopped
<1>1. CTypeOK /\ Local(c) /\ pc[c] \in UpdateCalls
  BY InUpdate DEF RunnerBeginUpdate
<1>2. EngineTypeOK' /\ seen' = seen /\ UNCHANGED <<engineVars, drainVars, threadVars>>
  BY <1>1 DEF RunnerBeginUpdate, ControllerCall, CTypeOK, EngineTypeOK, engineVars, pauseState
<1>3. CASE BeginUpdate(target[c]) /\ Goto(c, "open")
  <2>1. Where' = "UPDATING"
    BY <1>3 DEF BeginUpdate, Advance, Where
  <2>2. \A r \in Rollouts : BoundTarget(r)' = BoundTarget(r)
    BY <1>3 DEF BeginUpdate, BoundTarget
  <2>3. Drained /\ target[c] # None
    BY <1>1, InUpdate, NoNone DEF RunnerBeginUpdate
  <2>4. Local(c)'
    BY <1>1, <1>2, <1>3, <2>1, <2>3, GotoFacts, InUpdate
       DEF Local, Position, DrainOf, ContentOf, SettledCalls, DrainCalls, drainVars
  <2>5. Serving' /\ ServesOnlyOneVersion'
    BY <1>2, <2>1, <2>3 DEF Serving, ServesOnlyOneVersion, Drained, engineVars, pauseState
  <2> QED
    BY <1>1, <1>2, <1>3, <2>1, <2>2, <2>3, <2>4, <2>5, UpdateFrame
       DEF Drained, engineVars, pauseState, CTypeOK, EngineTypeOK
<1>4. CASE Goto(c, "raised") /\ UNCHANGED vars
  BY <1>1, <1>2, <1>4, RaiseInUpdate DEF engineVars, CTypeOK, EngineTypeOK
<1> QED
  BY <1>3, <1>4 DEF RunnerBeginUpdate

LEMMA OpenPreserves ==
  ASSUME CInv, IInv', NEW c \in Runners, RunnerOpen(c)
  PROVE  CInv'
<1> USE DEF UpdateCalls, LoadCalls, ResetCalls, ValidateCalls, ResumeCalls, RunnerPCs, Stopped
<1>1. CTypeOK /\ Local(c) /\ pc[c] \in UpdateCalls
  BY InUpdate DEF RunnerOpen
<1>2. UNCHANGED <<vars, engineVars, drainVars, threadVars, seen>>
  BY DEF RunnerOpen
<1>3. CASE Goto(c, "load")
  <2>1. Where' = Where /\ \A r \in Rollouts : BoundTarget(r)' = BoundTarget(r)
    BY <1>2 DEF vars, Where, BoundTarget
  <2>2. Drained
    BY <1>1, InUpdate DEF RunnerOpen
  <2>3. Local(c)'
    BY <1>1, <1>2, <1>3, <2>1, <2>2, GotoFacts, InUpdate
       DEF RunnerOpen, Local, Position, DrainOf, ContentOf, SettledCalls, DrainCalls, drainVars
  <2>4. Serving' /\ ServesOnlyOneVersion'
    BY <1>2, <2>1, <2>2, InUpdate, <1>1
       DEF Serving, ServesOnlyOneVersion, Drained, engineVars, pauseState, MutationStates,
           PendingStates
  <2> QED
    BY <1>1, <1>2, <1>3, <2>1, <2>2, <2>3, <2>4, UpdateFrame
       DEF Drained, engineVars, pauseState, CTypeOK, EngineTypeOK
<1>4. CASE Goto(c, "raised")
  BY <1>1, <1>2, <1>4, RaiseInUpdate DEF engineVars, CTypeOK, EngineTypeOK
<1> QED
  BY <1>3, <1>4 DEF RunnerOpen

(* The engine is drained while weights arrive: nothing is generated under  *)
(* them.                                                                   *)
LEMMA LoadRunsNothing ==
  ASSUME CTypeOK, Drained, NEW w, EngineHolds(w)
  PROVE  ranUnder' = ranUnder
  BY DEF CTypeOK, EngineTypeOK, Drained, EngineHolds

(* complete_weight_update: the engine holds a mixture, paused and empty;   *)
(* then the target's weights; then their label.                            *)
LEMMA LoadPreserves ==
  ASSUME CInv, IInv', NEW c \in Runners, RunnerLoad(c)
  PROVE  CInv'
<1> USE DEF UpdateCalls, LoadCalls, ResetCalls, ValidateCalls, ResumeCalls, RunnerPCs, Stopped
<1>1. CTypeOK /\ Local(c) /\ pc[c] \in UpdateCalls /\ Drained
  BY InUpdate DEF RunnerLoad
<1>2. CASE EngineHolds(Mixed) /\ Goto(c, "install") /\ EngineCall /\ UNCHANGED <<threadVars, seen>>
  <2>1. Where' = Where /\ \A r \in Rollouts : BoundTarget(r)' = BoundTarget(r)
    BY <1>2 DEF EngineCall, vars, Where, BoundTarget
  <2>2. UNCHANGED <<drainVars, pauseState, waiting, running, label, caches>> /\ weights' = Mixed
    BY <1>2 DEF EngineCall, EngineHolds
  <2>3. ranUnder' = ranUnder
    BY <1>1, <1>2, LoadRunsNothing
  <2>4. Local(c)'
    BY <1>1, <1>2, <2>1, <2>2, GotoFacts, InUpdate
       DEF RunnerLoad, Local, Position, DrainOf, ContentOf, SettledCalls, DrainCalls, drainVars
  <2>5. Serving' /\ ServesOnlyOneVersion'
    BY <1>1, <2>1, <2>2, InUpdate
       DEF Serving, ServesOnlyOneVersion, Drained, pauseState, MutationStates, PendingStates
  <2> QED
    BY <1>1, <1>2, <2>1, <2>2, <2>3, <2>4, <2>5, UpdateFrame
       DEF Drained, pauseState, CTypeOK, EngineTypeOK, Weights
<1>3. CASE Raise(c)
  BY <1>1, <1>3, RaiseInUpdate DEF Raise, engineVars, CTypeOK, EngineTypeOK
<1>4. CASE TaintAndRaise(c) /\ UNCHANGED engineVars
  BY <1>1, <1>4, TaintAndRaiseInUpdate DEF engineVars, CTypeOK, EngineTypeOK
<1> QED
  BY <1>2, <1>3, <1>4 DEF RunnerLoad

LEMMA InstallPreserves ==
  ASSUME CInv, IInv', NEW c \in Runners, RunnerInstall(c)
  PROVE  CInv'
<1> USE DEF UpdateCalls, LoadCalls, ResetCalls, ValidateCalls, ResumeCalls, RunnerPCs, Stopped
<1>1. CTypeOK /\ Local(c) /\ pc[c] \in UpdateCalls /\ Drained
  BY InUpdate DEF RunnerInstall
<1>2. CASE EngineHolds(target[c].version) /\ Goto(c, "finish") /\ EngineCall
           /\ UNCHANGED <<threadVars, seen>>
  <2>1. Where' = Where /\ \A r \in Rollouts : BoundTarget(r)' = BoundTarget(r)
    BY <1>2 DEF EngineCall, vars, Where, BoundTarget
  <2>2. /\ UNCHANGED <<drainVars, pauseState, waiting, running, label, caches>>
        /\ weights' = target[c].version
    BY <1>2 DEF EngineCall, EngineHolds
  <2>3. ranUnder' = ranUnder
    BY <1>1, <1>2, LoadRunsNothing
  <2>4. Local(c)'
    BY <1>1, <1>2, <2>1, <2>2, GotoFacts, InUpdate
       DEF RunnerInstall, Local, Position, DrainOf, ContentOf, SettledCalls, DrainCalls, drainVars
  <2>5. Serving' /\ ServesOnlyOneVersion'
    BY <1>1, <2>1, <2>2, InUpdate
       DEF Serving, ServesOnlyOneVersion, Drained, pauseState, MutationStates, PendingStates
  <2>6. weights' \in Weights
    BY <1>1, <2>2, InUpdate, CycleAssumption DEF Weights
  <2> QED
    BY <1>1, <1>2, <2>1, <2>2, <2>3, <2>4, <2>5, <2>6, UpdateFrame
       DEF Drained, pauseState, CTypeOK, EngineTypeOK
<1>3. CASE TaintAndRaise(c) /\ UNCHANGED engineVars
  BY <1>1, <1>3, TaintAndRaiseInUpdate DEF engineVars, CTypeOK, EngineTypeOK
<1> QED
  BY <1>2, <1>3 DEF RunnerInstall

LEMMA FinishPreserves ==
  ASSUME CInv, IInv', NEW c \in Runners, RunnerFinish(c)
  PROVE  CInv'
<1> USE DEF UpdateCalls, LoadCalls, ResetCalls, ValidateCalls, ResumeCalls, RunnerPCs, Stopped
<1>1. CTypeOK /\ Local(c) /\ pc[c] \in UpdateCalls /\ Drained
  BY InUpdate DEF RunnerFinish
<1>2. target[c].version \in EngineVersions \cup {FreshLabel}
  BY <1>1, InUpdate, CycleAssumption
<1>3. CASE EngineWriteLabel(target[c].version) /\ Goto(c, "confirm_updated") /\ EngineCall
           /\ UNCHANGED <<threadVars, seen>>
  <2>1. Where' = Where /\ \A r \in Rollouts : BoundTarget(r)' = BoundTarget(r)
    BY <1>3 DEF EngineCall, vars, Where, BoundTarget
  <2>2. /\ UNCHANGED <<drainVars, pauseState, waiting, running, ranUnder, weights, caches>>
        /\ label' = target[c].version
    BY <1>3 DEF EngineCall, EngineWriteLabel
  <2>4. Local(c)'
    BY <1>1, <1>3, <2>1, <2>2, GotoFacts, InUpdate
       DEF RunnerFinish, Local, Position, DrainOf, ContentOf, SettledCalls, DrainCalls, drainVars
  <2>5. Serving' /\ ServesOnlyOneVersion'
    BY <1>1, <2>1, <2>2, InUpdate
       DEF Serving, ServesOnlyOneVersion, Drained, pauseState, MutationStates, PendingStates
  <2> QED
    BY <1>1, <1>2, <1>3, <2>1, <2>2, <2>4, <2>5, UpdateFrame
       DEF Drained, pauseState, CTypeOK, EngineTypeOK
<1>4. ASSUME NEW o \in Failures, TaintAndRaise(c),
             Reached(o, EngineWriteLabel(target[c].version))
      PROVE  CInv'
  <2>1. /\ UNCHANGED <<waiting, running, ranUnder, weights, pauseState, caches>>
        /\ label' \in {label, target[c].version}
    BY <1>4 DEF Reached, EngineWriteLabel, engineVars
  <2> QED
    BY <1>1, <1>2, <1>4, <2>1, TaintAndRaiseInUpdate DEF CTypeOK, EngineTypeOK
<1> QED
  BY <1>3, <1>4 DEF RunnerFinish

-----------------------------------------------------------------------------
(* run_cycle: the confirmations of the update.                             *)

(* A confirmation that does not advance: it taints, or is refused because  *)
(* another thread tainted first.                                           *)
LEMMA ConfirmStops ==
  ASSUME CInv, IInv', NEW c \in Runners, pc[c] \in UpdateCalls, Goto(c, "raised"),
         UNCHANGED vars \/ TaintWith, seen' = [seen EXCEPT ![c] = Nothing], ControllerCall
  PROVE  CInv'
  BY InUpdate, RaiseInUpdate DEF ControllerCall, engineVars, CTypeOK, EngineTypeOK

(* A confirmation that advances: the engine is as it was.                  *)
LEMMA ConfirmAdvances ==
  ASSUME CInv, IInv', NEW c \in Runners, pc[c] \in UpdateCalls,
         NEW next \in RunnerPCs, Goto(c, next),
         UNCHANGED <<active, orphaned>>, seen' = [seen EXCEPT ![c] = Nothing], ControllerCall,
         Where' \in MutationStates \ {"RESUMING"} => Drained,
         Serving', Local(c)'
  PROVE  CInv'
<1>1. CTypeOK /\ ServesOnlyOneVersion
  BY InUpdate DEF CInv, Around
<1>2. UNCHANGED <<pauseState, waiting, running, ranUnder, weights, label, caches>>
  BY DEF ControllerCall, engineVars
<1>3. \A r \in Rollouts : BoundTarget(r)' = BoundTarget(r)
  BY DEF BoundTarget
<1>4. seen' \in [Runners -> [reset : SUBSET Caches, label : Labels \cup {None},
                             paused : BOOLEAN, acknowledged : BOOLEAN]]
  <2>1. Nothing \in [reset : SUBSET Caches, label : Labels \cup {None},
                     paused : BOOLEAN, acknowledged : BOOLEAN]
    BY DEF Nothing
  <2> QED
    BY <1>1, <2>1 DEF CTypeOK
<1>5. ServesOnlyOneVersion'
  BY <1>1, <1>2 DEF ServesOnlyOneVersion, pauseState
<1> QED
  BY <1>1, <1>2, <1>3, <1>4, <1>5, UpdateFrame
     DEF ControllerCall, CTypeOK, EngineTypeOK, Drained, pauseState

(* The confirmations one by one: each finds the evidence the runner has    *)
(* collected for it, or stops.                                             *)
LEMMA ConfirmUpdatedPreserves ==
  ASSUME CInv, IInv', NEW c \in Runners, RunnerConfirmUpdated(c)
  PROVE  CInv'
<1> USE DEF UpdateCalls, LoadCalls, ResetCalls, ValidateCalls, ResumeCalls, RunnerPCs, Stopped
<1>1. CTypeOK /\ Local(c) /\ pc[c] \in UpdateCalls /\ Drained
  BY InUpdate DEF RunnerConfirmUpdated
<1>2. seen' = [seen EXCEPT ![c] = Nothing] /\ ControllerCall
  BY DEF RunnerConfirmUpdated, RunnerConfirm
<1>3. CASE Goto(c, "raised") /\ (UNCHANGED vars \/ TaintWith)
  BY <1>1, <1>2, <1>3, ConfirmStops
<1>4. CASE /\ state = "UPDATING" /\ state' = "INVALIDATING" /\ Goto(c, "reset_prefix")
           /\ UNCHANGED <<current, pending, active, orphaned, taintedIn>>
  <2>1. Where' = "INVALIDATING"
    BY <1>4 DEF Where
  <2>2. UNCHANGED <<engineVars, drainVars>> /\ seen'[c].reset = {}
    BY <1>1, <1>2 DEF ControllerCall, CTypeOK, Nothing
  <2>3. Local(c)'
    BY <1>1, <1>4, <2>1, <2>2, GotoFacts, InUpdate
       DEF RunnerConfirmUpdated, Local, Position, DrainOf, ContentOf, SettledCalls,
           DrainCalls, drainVars, engineVars
  <2>4. Serving'
    BY <2>1 DEF Serving
  <2> QED
    BY <1>1, <1>2, <1>4, <2>1, <2>3, <2>4, ConfirmAdvances
<1> QED
  BY <1>3, <1>4 DEF RunnerConfirmUpdated, RunnerConfirm, ConfirmUpdated, Confirm, Advance, TaintWith

LEMMA ConfirmInvalidatedPreserves ==
  ASSUME CInv, IInv', NEW c \in Runners, RunnerConfirmInvalidated(c)
  PROVE  CInv'
<1> USE DEF UpdateCalls, LoadCalls, ResetCalls, ValidateCalls, ResumeCalls, RunnerPCs, Stopped
<1>1. CTypeOK /\ Local(c) /\ pc[c] \in UpdateCalls /\ Drained
  BY InUpdate DEF RunnerConfirmInvalidated
<1>2. seen' = [seen EXCEPT ![c] = Nothing] /\ ControllerCall
  BY DEF RunnerConfirmInvalidated, RunnerConfirm
<1>3. CASE Goto(c, "raised") /\ (UNCHANGED vars \/ TaintWith)
  BY <1>1, <1>2, <1>3, ConfirmStops
<1>4. CASE /\ state = "INVALIDATING" /\ state' = "VALIDATING" /\ Goto(c, "validate")
           /\ {"prefix", "encoder", "mm"} \subseteq seen[c].reset
           /\ UNCHANGED <<current, pending, active, orphaned, taintedIn>>
  <2>1. Where' = "VALIDATING"
    BY <1>4 DEF Where
  <2>2. UNCHANGED <<engineVars, drainVars>>
    BY <1>2 DEF ControllerCall
  <2>3. \A k \in Caches : caches[k] = {}
    BY <1>1, <1>4 DEF RunnerConfirmInvalidated, Local, ContentOf, Caches
  <2>4. Local(c)'
    BY <1>1, <1>4, <2>1, <2>2, <2>3, GotoFacts, InUpdate
       DEF RunnerConfirmInvalidated, Local, Position, DrainOf, ContentOf, SettledCalls,
           DrainCalls, drainVars, engineVars
  <2>5. Serving'
    BY <2>1 DEF Serving
  <2> QED
    BY <1>1, <1>2, <1>4, <2>1, <2>4, <2>5, ConfirmAdvances
<1> QED
  BY <1>3, <1>4 DEF RunnerConfirmInvalidated, RunnerConfirm, ConfirmInvalidated,
                    InvalidateFails, Confirm, Advance, TaintWith

LEMMA ConfirmValidatedPreserves ==
  ASSUME CInv, IInv', NEW c \in Runners, RunnerConfirmValidated(c)
  PROVE  CInv'
<1> USE DEF UpdateCalls, LoadCalls, ResetCalls, ValidateCalls, ResumeCalls, RunnerPCs, Stopped
<1>1. CTypeOK /\ Local(c) /\ pc[c] \in UpdateCalls /\ Drained
  BY InUpdate DEF RunnerConfirmValidated
<1>2. seen' = [seen EXCEPT ![c] = Nothing] /\ ControllerCall
  BY DEF RunnerConfirmValidated, RunnerConfirm
<1>3. CASE Goto(c, "raised") /\ (UNCHANGED vars \/ TaintWith)
  BY <1>1, <1>2, <1>3, ConfirmStops
<1>4. CASE /\ state = "VALIDATING" /\ state' = "RESUMING" /\ Goto(c, "resume")
           /\ UNCHANGED <<current, pending, active, orphaned, taintedIn>>
  <2>1. Where' = "RESUMING"
    BY <1>4 DEF Where
  <2>2. UNCHANGED <<engineVars, drainVars>>
    BY <1>2 DEF ControllerCall
  <2>3. Local(c)'
    BY <1>1, <1>4, <2>1, <2>2, GotoFacts, InUpdate
       DEF RunnerConfirmValidated, Local, Position, DrainOf, ContentOf, SettledCalls,
           DrainCalls, drainVars, engineVars, Drained, pauseState
  <2>4. Serving'
    BY <2>1 DEF Serving
  <2> QED
    BY <1>1, <1>2, <1>4, <2>1, <2>3, <2>4, ConfirmAdvances
<1> QED
  BY <1>3, <1>4 DEF RunnerConfirmValidated, RunnerConfirm, ConfirmValidated, Confirm, Advance,
                    TaintWith

(* The commit: what the runner has read of the engine is what the          *)
(* controller now stands for.                                              *)
LEMMA ConfirmResumedPreserves ==
  ASSUME CInv, IInv', NEW c \in Runners, RunnerConfirmResumed(c)
  PROVE  CInv'
<1> USE DEF UpdateCalls, LoadCalls, ResetCalls, ValidateCalls, ResumeCalls, RunnerPCs, Stopped
<1>1. CTypeOK /\ Local(c) /\ pc[c] \in UpdateCalls
  BY InUpdate DEF RunnerConfirmResumed
<1>2. seen' = [seen EXCEPT ![c] = Nothing] /\ ControllerCall
  BY DEF RunnerConfirmResumed, RunnerConfirm
<1>3. CASE Goto(c, "raised") /\ (UNCHANGED vars \/ TaintWith)
  BY <1>1, <1>2, <1>3, ConfirmStops
<1>4. CASE /\ state = "RESUMING" /\ state' = "READY" /\ Goto(c, "idle")
           /\ current' = target[c] /\ seen[c].acknowledged
           /\ UNCHANGED <<active, orphaned, taintedIn>>
  <2>1. Where' = "READY"
    BY <1>4 DEF Where
  <2>2. UNCHANGED <<pauseState, weights, label>>
    BY <1>2 DEF ControllerCall, engineVars
  <2>3. Local(c)'
    BY <1>1, <1>4, GotoFacts
       DEF Local, Position, DrainOf, ContentOf, SettledCalls, DrainCalls
  <2>4. Serving'
    BY <1>1, <1>4, <2>1, <2>2, InUpdate, NoNone
       DEF RunnerConfirmResumed, Local, ContentOf, Serving, pauseState
  <2>5. "READY" \notin MutationStates
    BY DEF MutationStates, PendingStates
  <2> QED
    BY <1>1, <1>2, <1>4, <2>1, <2>3, <2>4, <2>5, ConfirmAdvances
<1> QED
  BY <1>3, <1>4 DEF RunnerConfirmResumed, RunnerConfirm, ConfirmResumed, ResumeFails, Advance,
                    TaintWith

-----------------------------------------------------------------------------
(* run_cycle: the caches, validation and resume.                           *)

(* A cache that was reset is empty, whether or not the runner knows.       *)
LEMMA ResetPreserves ==
  ASSUME CInv, IInv', NEW c \in Runners, pc[c] \in {"reset_prefix", "reset_encoder", "reset_mm"},
         NEW k \in Caches, NEW next \in {"reset_encoder", "reset_mm", "confirm_invalidated"},
         Goto(c, next), EngineCall, UNCHANGED threadVars,
         \/ EngineReset(k) /\ seen' = [seen EXCEPT ![c].reset = @ \cup {k}]
         \/ EngineReset(k) /\ seen' = [seen EXCEPT ![c].reset = {k}]
         \/ (UNCHANGED engineVars \/ EngineReset(k)) /\ seen' = seen
  PROVE  CInv'
<1> USE DEF UpdateCalls, LoadCalls, ResetCalls, ValidateCalls, ResumeCalls, RunnerPCs, Stopped
<1>1. CTypeOK /\ Local(c) /\ pc[c] \in UpdateCalls /\ Drained
  BY InUpdate
<1>2. Where' = Where /\ \A r \in Rollouts : BoundTarget(r)' = BoundTarget(r)
  BY DEF EngineCall, vars, Where, BoundTarget
<1>3. /\ UNCHANGED <<drainVars, pauseState, waiting, running, ranUnder, weights, label>>
      /\ caches' = caches \/ caches' = [caches EXCEPT ![k] = {}]
  BY DEF EngineCall, EngineReset, engineVars
<1>4. caches' \in [Caches -> SUBSET Weights]
  BY <1>1, <1>3 DEF CTypeOK, EngineTypeOK
<1>5. seen' \in [Runners -> [reset : SUBSET Caches, label : Labels \cup {None},
                             paused : BOOLEAN, acknowledged : BOOLEAN]]
  BY <1>1 DEF CTypeOK
<1>6. \A j \in seen'[c].reset : caches'[j] = {}
  BY <1>1, <1>3 DEF Local, ContentOf, CTypeOK, EngineTypeOK, EngineReset
<1>7. Local(c)'
  BY <1>1, <1>2, <1>3, <1>6, GotoFacts, InUpdate
     DEF Local, Position, DrainOf, ContentOf, SettledCalls, DrainCalls, drainVars
<1>8. Serving' /\ ServesOnlyOneVersion'
  BY <1>1, <1>2, <1>3, InUpdate
     DEF Serving, ServesOnlyOneVersion, Drained, pauseState, MutationStates, PendingStates
<1> QED
  BY <1>1, <1>2, <1>3, <1>4, <1>5, <1>7, <1>8, UpdateFrame
     DEF Drained, pauseState, CTypeOK, EngineTypeOK

(* A reset whose failure taints may have emptied the cache.                *)
LEMMA TaintedResetPreserves ==
  ASSUME CInv, IInv', NEW c \in Runners, pc[c] \in UpdateCalls,
         NEW k \in Caches, TaintAndRaise(c), UNCHANGED engineVars \/ EngineReset(k)
  PROVE  CInv'
<1>1. CTypeOK
  BY InUpdate
<1>2. /\ UNCHANGED <<waiting, running, ranUnder, weights, pauseState, label>>
      /\ caches' \in [Caches -> SUBSET Weights]
      /\ \A j \in Caches : caches'[j] \subseteq caches[j]
  BY <1>1 DEF engineVars, EngineReset, CTypeOK, EngineTypeOK
<1> QED
  BY <1>1, <1>2, TaintAndRaiseInUpdate DEF CTypeOK, EngineTypeOK

LEMMA ResetPrefixPreserves ==
  ASSUME CInv, IInv', NEW c \in Runners, RunnerResetPrefix(c)
  PROVE  CInv'
<1>1. "prefix" \in Caches
  BY DEF Caches
<1>2. ASSUME NEW o \in Failures, TaintAndRaise(c), Reached(o, EngineReset("prefix"))
      PROVE  CInv'
  BY <1>1, <1>2, TaintedResetPreserves DEF RunnerResetPrefix, Reached, UpdateCalls, ResetCalls
<1>3. CASE ~\E o \in Failures : TaintAndRaise(c) /\ Reached(o, EngineReset("prefix"))
  BY <1>1, <1>3, ResetPreserves DEF RunnerResetPrefix
<1> QED
  BY <1>2, <1>3

LEMMA OtherResetPreserves ==
  ASSUME CInv, IInv', NEW c \in Runners, NEW k \in Caches,
         NEW here \in {"reset_encoder", "reset_mm"},
         NEW next \in {"reset_mm", "confirm_invalidated"}, RunnerReset(c, k, here, next)
  PROVE  CInv'
<1>1. PICK o \in Outcomes :
        /\ Reached(o, EngineReset(k))
        /\ \/ /\ seen' = [seen EXCEPT ![c].reset = IF o = "ok" THEN @ \cup {k} ELSE @]
              /\ Goto(c, next) /\ EngineCall /\ UNCHANGED threadVars
           \/ o # "ok" /\ TaintAndRaise(c)
  BY DEF RunnerReset
<1>2. pc[c] = here /\ (UNCHANGED engineVars \/ EngineReset(k))
  BY <1>1 DEF RunnerReset, Reached
<1>3. CASE TaintAndRaise(c)
  BY <1>2, <1>3, TaintedResetPreserves DEF UpdateCalls, ResetCalls
<1>4. CASE /\ seen' = [seen EXCEPT ![c].reset = IF o = "ok" THEN @ \cup {k} ELSE @]
           /\ Goto(c, next) /\ EngineCall /\ UNCHANGED threadVars
  <2>1. CASE o = "ok"
    BY <1>1, <1>2, <1>4, <2>1, ResetPreserves DEF Reached
  <2>2. CASE o # "ok"
    <3>1. seen' = seen
      BY <1>4, <2>2 DEF CInv, CTypeOK
    <3> QED
      BY <1>2, <1>4, <3>1, ResetPreserves
  <2> QED
    BY <2>1, <2>2
<1> QED
  BY <1>1, <1>3, <1>4

(* The observation before the resume.                                      *)
LEMMA ValidatePreserves ==
  ASSUME CInv, IInv', NEW c \in Runners, RunnerValidate(c)
  PROVE  CInv'
<1> USE DEF UpdateCalls, LoadCalls, ResetCalls, ValidateCalls, ResumeCalls, RunnerPCs, Stopped
<1>1. CTypeOK /\ Local(c) /\ pc[c] \in UpdateCalls /\ Drained
  BY InUpdate DEF RunnerValidate
<1>2. CASE /\ seen' = [seen EXCEPT ![c].label = label, ![c].paused = paused]
           /\ Goto(c, "confirm_validated")
           /\ UNCHANGED <<vars, engineVars, drainVars, threadVars>>
  <2>1. Where' = Where /\ \A r \in Rollouts : BoundTarget(r)' = BoundTarget(r)
    BY <1>2 DEF vars, Where, BoundTarget
  <2>2. label \in Labels /\ label # None /\ paused \in BOOLEAN
    BY <1>1, CycleAssumption, NoneAssumption DEF CTypeOK, EngineTypeOK, Labels
  <2>3. /\ seen' \in [Runners -> [reset : SUBSET Caches, label : Labels \cup {None},
                                  paused : BOOLEAN, acknowledged : BOOLEAN]]
        /\ seen'[c].label # None
    BY <1>1, <1>2, <2>2 DEF CTypeOK
  <2>4. Local(c)'
    BY <1>1, <1>2, <2>1, <2>3, GotoFacts, InUpdate
       DEF RunnerValidate, Local, Position, DrainOf, ContentOf, SettledCalls, DrainCalls,
           drainVars, engineVars
  <2>5. Serving' /\ ServesOnlyOneVersion'
    BY <1>1, <1>2, <2>1, InUpdate
       DEF Serving, ServesOnlyOneVersion, Drained, pauseState, engineVars, MutationStates,
           PendingStates
  <2> QED
    BY <1>1, <1>2, <2>1, <2>3, <2>4, <2>5, UpdateFrame
       DEF Drained, pauseState, engineVars, CTypeOK, EngineTypeOK
<1>3. CASE Raise(c)
  BY <1>1, <1>3, RaiseInUpdate DEF Raise, engineVars, CTypeOK, EngineTypeOK
<1> QED
  BY <1>2, <1>3 DEF RunnerValidate

(* The engine that resumes holds the target's weights and empty caches,    *)
(* whether or not the answer arrives.                                      *)
LEMMA ResumePreserves ==
  ASSUME CInv, IInv', NEW c \in Runners, RunnerResume(c)
  PROVE  CInv'
<1> USE DEF UpdateCalls, LoadCalls, ResetCalls, ValidateCalls, ResumeCalls, RunnerPCs, Stopped
<1>1. CTypeOK /\ Local(c) /\ pc[c] \in UpdateCalls /\ Drained
  BY InUpdate DEF RunnerResume
<1>2. PICK o \in Outcomes :
        /\ Reached(o, EngineResume)
        /\ \/ /\ seen' = [seen EXCEPT ![c].acknowledged = (o = "ok")]
              /\ Goto(c, "read_back") /\ EngineCall /\ UNCHANGED threadVars
           \/ o # "ok" /\ TaintAndRaise(c)
  BY DEF RunnerResume
<1>3. /\ UNCHANGED <<waiting, running, ranUnder, weights, label, caches>>
      /\ UNCHANGED pauseState \/ EngineResume
      /\ o = "ok" => EngineResume
  BY <1>2 DEF Reached, EngineResume, engineVars
<1>4. CASE TaintAndRaise(c)
  BY <1>1, <1>3, <1>4, TaintAndRaiseInUpdate DEF RunnerResume, CTypeOK, EngineTypeOK
<1>5. CASE /\ seen' = [seen EXCEPT ![c].acknowledged = (o = "ok")]
           /\ Goto(c, "read_back") /\ EngineCall /\ UNCHANGED threadVars
  <2>1. Where' = Where /\ \A r \in Rollouts : BoundTarget(r)' = BoundTarget(r)
    BY <1>5 DEF EngineCall, vars, Where, BoundTarget
  <2>2. /\ Where = "RESUMING" /\ weights = target[c].version
        /\ weights # Mixed /\ \A k \in Caches : caches[k] = {}
    BY <1>1, InUpdate DEF RunnerResume, Local, Position, ContentOf
  <2>3. /\ seen' \in [Runners -> [reset : SUBSET Caches, label : Labels \cup {None},
                                  paused : BOOLEAN, acknowledged : BOOLEAN]]
        /\ seen'[c].acknowledged => o = "ok"
    <3>1. PICK b \in BOOLEAN : (b <=> o = "ok") /\ seen' = [seen EXCEPT ![c].acknowledged = b]
      BY <1>5
    <3> QED
      BY <1>1, <3>1 DEF CTypeOK
  <2>4. paused' \in BOOLEAN /\ stray' \in BOOLEAN /\ (o = "ok" => ~paused')
    BY <1>1, <1>3 DEF CTypeOK, EngineTypeOK, pauseState, EngineResume
  <2>5. Local(c)'
    BY <1>1, <1>3, <1>5, <2>1, <2>3, <2>4, GotoFacts, InUpdate
       DEF RunnerResume, Local, Position, DrainOf, ContentOf, SettledCalls, DrainCalls,
           drainVars, EngineCall
  <2>6. Serving' /\ ServesOnlyOneVersion'
    BY <1>3, <2>1, <2>2 DEF Serving, ServesOnlyOneVersion
  <2> QED
    BY <1>1, <1>3, <1>5, <2>1, <2>2, <2>3, <2>4, <2>5, <2>6, UpdateFrame
       DEF CTypeOK, EngineTypeOK, EngineCall
<1> QED
  BY <1>2, <1>4, <1>5

LEMMA ReadBackPreserves ==
  ASSUME CInv, IInv', NEW c \in Runners, RunnerReadBack(c)
  PROVE  CInv'
<1> USE DEF UpdateCalls, LoadCalls, ResetCalls, ValidateCalls, ResumeCalls, RunnerPCs, Stopped
<1>1. CTypeOK /\ Local(c) /\ pc[c] \in UpdateCalls /\ UNCHANGED engineVars
  BY InUpdate DEF RunnerReadBack
<1>2. CASE TaintAndRaise(c)
  BY <1>1, <1>2, TaintAndRaiseInUpdate DEF engineVars, CTypeOK, EngineTypeOK
<1>3. CASE /\ seen' = [seen EXCEPT ![c].label = label, ![c].paused = paused]
           /\ Goto(c, "confirm_resumed") /\ EngineCall /\ UNCHANGED threadVars
  <2>1. Where' = Where /\ \A r \in Rollouts : BoundTarget(r)' = BoundTarget(r)
    BY <1>3 DEF EngineCall, vars, Where, BoundTarget
  <2>2. label \in Labels /\ paused \in BOOLEAN
    BY <1>1, CycleAssumption DEF CTypeOK, EngineTypeOK, Labels
  <2>3. /\ seen' \in [Runners -> [reset : SUBSET Caches, label : Labels \cup {None},
                                  paused : BOOLEAN, acknowledged : BOOLEAN]]
        /\ seen'[c].acknowledged = seen[c].acknowledged
    BY <1>1, <1>3, <2>2 DEF CTypeOK
  <2>4. Where = "RESUMING"
    BY <1>1 DEF RunnerReadBack, Local, Position
  <2>5. Local(c)'
    BY <1>1, <1>3, <2>1, <2>3, GotoFacts, InUpdate
       DEF RunnerReadBack, Local, Position, DrainOf, ContentOf, SettledCalls, DrainCalls,
           drainVars, EngineCall, engineVars, pauseState
  <2>6. Serving' /\ ServesOnlyOneVersion'
    BY <1>1, <2>1, <2>4
       DEF CInv, Around, Serving, ServesOnlyOneVersion, engineVars, pauseState
  <2> QED
    BY <1>1, <1>3, <2>1, <2>3, <2>4, <2>5, <2>6, UpdateFrame
       DEF CTypeOK, EngineTypeOK, EngineCall, engineVars, pauseState
<1> QED
  BY <1>2, <1>3 DEF RunnerReadBack

-----------------------------------------------------------------------------
(* run_cycle: the drain.                                                   *)

(* A drain call leaves the engine and the rollout threads alone.           *)
LEMMA DrainFrame ==
  ASSUME CInv, IInv', NEW c \in Runners, pc[c] \in DrainCalls,
         NEW next \in RunnerPCs, Goto(c, next),
         UNCHANGED <<engineVars, threadVars, seen>>,
         \A r \in Rollouts : BoundTarget(r)' = BoundTarget(r),
         DrainTypeOK', OneLiveAttempt', DrainHeld', Serving', Local(c)'
  PROVE  CInv'
<1>1. InEngine' /\ RanBound' /\ NoTrajectorySpansUpdate'
  BY BindingsFrame DEF threadVars, engineVars
<1>2. ServesOnlyOneVersion'
  BY DEF CInv, Around, ServesOnlyOneVersion, engineVars, pauseState
<1>3. RestTyped'
  BY DEF CInv, CTypeOK, RestTyped, EngineTypeOK, engineVars, pauseState, threadVars
<1>4. Cycling(c)
  BY DEF Cycling
<1> QED
  BY <1>1, <1>2, <1>3, <1>4, RunnerFrame DEF Around, IInv

(* Where a runner in the middle of a drain finds the system.               *)
LEMMA InDrain ==
  ASSUME CInv, NEW c \in Runners, pc[c] \in DrainCalls
  PROVE  /\ CTypeOK /\ Local(c) /\ Serving /\ DrainHeld /\ OneLiveAttempt
         /\ Where = "DRAINING" /\ target[c] # None
         /\ pc[c] \in SettledCalls =>
               /\ drainState # "IN_FLIGHT"
               /\ \A t \in Threads : ~Live(t)
<1>1. CTypeOK /\ Local(c) /\ Serving /\ DrainHeld /\ OneLiveAttempt
  BY DEF CInv, Around
<1>2. Where = "DRAINING" /\ target[c] # None
  BY <1>1 DEF Local, Position, DrainCalls
<1>3. pc[c] \in SettledCalls => drainState # "IN_FLIGHT"
  BY <1>1 DEF Local, DrainOf
<1> QED
  BY <1>1, <1>2, <1>3 DEF OneLiveAttempt

(* A step that leaves the controller alone.                                *)
LEMMA SameWhere ==
  ASSUME UNCHANGED vars
  PROVE  /\ Where' = Where /\ current' = current
         /\ \A r \in Rollouts : BoundTarget(r)' = BoundTarget(r)
  BY DEF vars, Where, BoundTarget

(* A runner in a drain makes a call that leaves the drain alone too.       *)
LEMMA QuietDrainCall ==
  ASSUME CInv, IInv', NEW c \in Runners, pc[c] \in DrainCalls,
         NEW next \in RunnerPCs, Goto(c, next),
         UNCHANGED <<engineVars, drainVars, threadVars, seen>>,
         UNCHANGED vars \/ TaintWith, Local(c)'
  PROVE  CInv'
<1>1. Where' = Where /\ current' = current /\ \A r \in Rollouts : BoundTarget(r)' = BoundTarget(r)
  BY SameWhere, TaintWhere, TaintBound DEF CInv
<1>2. OneLiveAttempt' /\ DrainHeld' /\ Serving' /\ DrainTypeOK'
  BY <1>1, InDrain DEF OneLiveAttempt, Live, DrainHeld, Drained, Serving, DrainTypeOK, CTypeOK,
     drainVars, engineVars, pauseState
<1> QED
  BY <1>1, <1>2, DrainFrame

(* begin_drain's two critical sections.                                    *)
LEMMA ResetAttemptsPreserves ==
  ASSUME CInv, IInv', NEW c \in Runners, RunnerResetAttempts(c)
  PROVE  CInv'
<1> USE DEF DrainCalls, RunnerPCs, Stopped
<1>1. pc[c] \in DrainCalls /\ pc[c] \in SettledCalls /\ Goto(c, "attempt")
  BY DEF RunnerResetAttempts, SettledCalls
<1>2. /\ drainAttempts' = 0 /\ UNCHANGED <<drainState, threads, late>>
      /\ UNCHANGED <<vars, engineVars, threadVars, seen>>
  BY DEF RunnerResetAttempts, ResetAttempts
<1>3. DrainTypeOK' /\ OneLiveAttempt' /\ DrainHeld' /\ Serving'
  BY <1>1, <1>2, InDrain, SameWhere, DrainAssumption
     DEF CTypeOK, DrainTypeOK, OneLiveAttempt, Live, DrainHeld, Drained, Serving, engineVars,
         pauseState
<1>4. Local(c)'
  BY <1>1, <1>2, InDrain, SameWhere, GotoFacts
     DEF Local, Position, DrainOf, ContentOf, SettledCalls, UpdateCalls, LoadCalls, ResetCalls,
         ValidateCalls, ResumeCalls
<1> QED
  BY <1>1, <1>2, <1>3, <1>4, SameWhere, DrainFrame

(* A new attempt is the only one: there was none.                          *)
LEMMA AttemptStarts ==
  ASSUME CInv, NEW c \in Runners, pc[c] \in DrainCalls \cap SettledCalls, StartAttempt,
         drainAttempts <= DrainReissues,
         UNCHANGED <<vars, engineVars, threadVars, seen>>
  PROVE  DrainTypeOK' /\ OneLiveAttempt' /\ DrainHeld' /\ Serving' /\ drainState' = "IN_FLIGHT"
<1>1. PICK t \in Threads :
        threads' = [threads EXCEPT ![t] = [attempt |-> drainAttempts + 1, phase |-> "posted"]]
  BY DEF StartAttempt
<1>2. /\ drainAttempts' = drainAttempts + 1 /\ drainState' = "IN_FLIGHT" /\ late' = late
  BY DEF StartAttempt
<1>3. DrainTypeOK /\ \A u \in Threads : ~Live(u)
  BY InDrain DEF CTypeOK
<1>4. drainAttempts + 1 \in 0..(DrainReissues + 1)
  BY <1>3, DrainAssumption DEF DrainTypeOK
<1>5. DrainTypeOK'
  BY <1>1, <1>2, <1>3, <1>4 DEF DrainTypeOK, ThreadPhases
<1>6. \A u \in Threads :
        threads'[u] = IF u = t THEN [attempt |-> drainAttempts + 1, phase |-> "posted"]
                      ELSE threads[u]
  BY <1>1, <1>3 DEF DrainTypeOK
<1>7. OneLiveAttempt'
  BY <1>2, <1>3, <1>6 DEF OneLiveAttempt, Live
<1>8. DrainHeld' /\ Serving'
  BY <1>2, <1>3, <1>6, InDrain, SameWhere
     DEF DrainHeld, Live, Drained, Serving, MutationStates, PendingStates, engineVars, pauseState
<1> QED
  BY <1>2, <1>5, <1>7, <1>8

LEMMA StartAttemptPreserves ==
  ASSUME CInv, IInv', NEW c \in Runners, RunnerStartAttempt(c)
  PROVE  CInv'
<1> USE DEF DrainCalls, RunnerPCs, Stopped
<1>1. /\ pc[c] \in DrainCalls /\ pc[c] \in SettledCalls /\ Goto(c, "poll") /\ StartAttempt
      /\ UNCHANGED <<vars, engineVars, threadVars, seen>>
  BY DEF RunnerStartAttempt, SettledCalls
<1>2. drainAttempts <= DrainReissues
  BY <1>1, InDrain, DrainAssumption DEF RunnerStartAttempt, Local, DrainOf
<1>3. DrainTypeOK' /\ OneLiveAttempt' /\ DrainHeld' /\ Serving' /\ drainState' = "IN_FLIGHT"
  BY <1>1, <1>2, AttemptStarts
<1>4. Local(c)'
  BY <1>1, <1>3, InDrain, SameWhere, GotoFacts
     DEF Local, Position, DrainOf, ContentOf, SettledCalls, UpdateCalls, LoadCalls, ResetCalls,
         ValidateCalls, ResumeCalls
<1> QED
  BY <1>1, <1>3, <1>4, SameWhere, DrainFrame

(* A COMPLETED verdict is that of a drain which still holds.               *)
LEMMA PollPreserves ==
  ASSUME CInv, IInv', NEW c \in Runners, RunnerPoll(c)
  PROVE  CInv'
<1> USE DEF DrainCalls, RunnerPCs, Stopped
<1>1. pc[c] \in DrainCalls /\ UNCHANGED <<vars, engineVars, drainVars, threadVars, seen>>
  BY DEF RunnerPoll
<1>2. ASSUME NEW next \in {"confirm_drained", "abort", "raised", "budget_spent"}, Goto(c, next),
             next = "confirm_drained" => drainState = "COMPLETED",
             next = "abort" => drainState = "FAILED"
      PROVE  CInv'
  <2>1. next = "confirm_drained" => Drained
    BY <1>2, InDrain, <1>1 DEF RunnerPoll, Local, DrainOf
  <2>2. Local(c)'
    BY <1>1, <1>2, <2>1, InDrain, SameWhere, GotoFacts
       DEF Local, Position, DrainOf, ContentOf, SettledCalls, UpdateCalls, LoadCalls, ResetCalls,
           ValidateCalls, ResumeCalls, drainVars, engineVars, pauseState, Drained
  <2> QED
    BY <1>1, <1>2, <2>2, QuietDrainCall
<1> QED
  BY <1>2 DEF RunnerPoll

LEMMA ReissuePreserves ==
  ASSUME CInv, IInv', NEW c \in Runners, RunnerReissue(c)
  PROVE  CInv'
<1> USE DEF DrainCalls, RunnerPCs, Stopped
<1>1. /\ pc[c] \in DrainCalls /\ pc[c] \in SettledCalls
      /\ UNCHANGED <<vars, engineVars, threadVars, seen>>
  BY DEF RunnerReissue, SettledCalls
<1>2. CASE Goto(c, "drain_failed") /\ UNCHANGED drainVars
  <2>1. Local(c)'
    BY <1>1, <1>2, InDrain, SameWhere, GotoFacts
       DEF Local, Position, DrainOf, ContentOf, SettledCalls, UpdateCalls, LoadCalls, ResetCalls,
           ValidateCalls, ResumeCalls, drainVars
  <2> QED
    BY <1>1, <1>2, <2>1, QuietDrainCall
<1>3. ASSUME NEW next \in {"poll", "raised"}, Goto(c, next), StartAttempt, ~BudgetOfAttemptsSpent
      PROVE  CInv'
  <2>1. drainAttempts <= DrainReissues
    BY <1>1, <1>3, InDrain, DrainAssumption DEF BudgetOfAttemptsSpent, CTypeOK, DrainTypeOK
  <2>2. DrainTypeOK' /\ OneLiveAttempt' /\ DrainHeld' /\ Serving' /\ drainState' = "IN_FLIGHT"
    BY <1>1, <1>3, <2>1, AttemptStarts
  <2>3. Local(c)'
    BY <1>1, <1>3, <2>2, InDrain, SameWhere, GotoFacts
       DEF Local, Position, DrainOf, ContentOf, SettledCalls, UpdateCalls, LoadCalls, ResetCalls,
           ValidateCalls, ResumeCalls
  <2> QED
    BY <1>1, <1>3, <2>2, <2>3, SameWhere, DrainFrame
<1> QED
  BY <1>2, <1>3 DEF RunnerReissue

(* /abort_requests empties the engine and answers the threads, or does not *)
(* arrive.                                                                 *)
LEMMA AbortAllPreserves ==
  ASSUME CInv, IInv', NEW c \in Runners, RunnerAbortAll(c)
  PROVE  CInv'
<1> USE DEF DrainCalls, RunnerPCs, Stopped
<1>1. /\ pc[c] = "abort" /\ pc[c] \in DrainCalls /\ pc[c] \in SettledCalls
      /\ UNCHANGED <<vars, drainVars, seen, completion>>
  BY DEF RunnerAbortAll, EngineCall, SettledCalls
<1>2. PICK o \in Outcomes :
        /\ Goto(c, "reissue") \/ Goto(c, "raised")
        /\ Reached(o, EngineAbortAll)
        /\ thread' = IF o = "lost" THEN thread
                     ELSE [r \in Rollouts |->
                             IF r \notin waiting \cup running THEN thread[r]
                             ELSE IF thread[r] = "gave_up" THEN "idle" ELSE "answered"]
  BY DEF RunnerAbortAll
<1>3. /\ UNCHANGED <<pauseState, ranUnder, weights, label, caches>>
      /\ \/ UNCHANGED <<waiting, running, thread>>
         \/ /\ waiting' = {} /\ running' = {}
            /\ \A r \in Rollouts :
                  thread'[r] = IF r \notin waiting \cup running THEN thread[r]
                               ELSE IF thread[r] = "gave_up" THEN "idle" ELSE "answered"
  BY <1>2 DEF Reached, EngineAbortAll, engineVars
<1>4. thread' \in [Rollouts -> ThreadPCs]
  BY <1>1, <1>2, InDrain DEF CTypeOK, ThreadPCs
<1>5. RestTyped'
  BY <1>1, <1>3, <1>4, InDrain
     DEF CTypeOK, RestTyped, EngineTypeOK, DrainTypeOK, drainVars, pauseState
<1>6. \A r \in Rollouts : BoundTarget(r)' = BoundTarget(r)
  BY <1>1, SameWhere
<1>7. InEngine /\ RanBound /\ NoTrajectorySpansUpdate /\ ServesOnlyOneVersion
  BY DEF CInv, Around
<1>8. InEngine'
  BY <1>3, <1>7 DEF InEngine
<1>9. RanBound'
  BY <1>3, <1>6, <1>7 DEF InEngine, RanBound
<1>10. NoTrajectorySpansUpdate'
  BY <1>1, <1>3, <1>6, <1>7 DEF NoTrajectorySpansUpdate
<1>11. ServesOnlyOneVersion'
  BY <1>3, <1>7 DEF ServesOnlyOneVersion, pauseState
<1>12. OneLiveAttempt' /\ DrainHeld' /\ Serving'
  BY <1>1, <1>3, InDrain, SameWhere
     DEF OneLiveAttempt, Live, DrainHeld, Drained, Serving, drainVars, pauseState
<1>13. Local(c)'
  BY <1>1, <1>2, InDrain, SameWhere, GotoFacts
     DEF Local, Position, DrainOf, ContentOf, SettledCalls, UpdateCalls, LoadCalls, ResetCalls,
         ValidateCalls, ResumeCalls, drainVars
<1> QED
  BY <1>1, <1>2, <1>5, <1>8, <1>9, <1>10, <1>11, <1>12, <1>13, RunnerFrame
     DEF Cycling, Around, IInv

(* The drain is proved, or disagrees with the rollouts and taints.         *)
LEMMA ConfirmDrainedPreserves ==
  ASSUME CInv, IInv', NEW c \in Runners, RunnerConfirmDrained(c)
  PROVE  CInv'
<1> USE DEF DrainCalls, RunnerPCs, Stopped
<1>1. /\ pc[c] \in DrainCalls /\ pc[c] \in SettledCalls
      /\ UNCHANGED <<engineVars, drainVars, threadVars, seen>>
  BY DEF RunnerConfirmDrained, ControllerCall, SettledCalls
<1>2. Drained
  BY <1>1, InDrain DEF RunnerConfirmDrained, Local, DrainOf
<1>3. CASE Goto(c, "raised") /\ (UNCHANGED vars \/ TaintWith)
  BY <1>1, <1>3, InDrain, RaisedLocal, QuietDrainCall
<1>4. CASE /\ state' = "QUIESCED" /\ Goto(c, "begin_update")
           /\ UNCHANGED <<current, pending, active, orphaned, taintedIn>>
  <2>1. Where' = "QUIESCED"
    BY <1>4 DEF Where
  <2>2. OneLiveAttempt' /\ DrainHeld' /\ Serving' /\ DrainTypeOK'
    BY <1>1, <1>2, <2>1, InDrain
       DEF OneLiveAttempt, Live, DrainHeld, Drained, Serving, DrainTypeOK, CTypeOK,
           drainVars, engineVars, pauseState
  <2>3. Local(c)'
    BY <1>1, <1>4, <2>1, InDrain, GotoFacts
       DEF Local, Position, DrainOf, ContentOf, SettledCalls, UpdateCalls, LoadCalls, ResetCalls,
           ValidateCalls, ResumeCalls, drainVars
  <2>4. \A r \in Rollouts : BoundTarget(r)' = BoundTarget(r)
    BY <1>4 DEF BoundTarget
  <2> QED
    BY <1>1, <1>4, <2>2, <2>3, <2>4, DrainFrame
<1> QED
  BY <1>3, <1>4 DEF RunnerConfirmDrained, ConfirmDrained, Advance, TaintWith

(* Under SafeRedrain the drain an operator takes over has failed: no       *)
(* attempt of it is alive any more.                                        *)
LEMMA RedrainPreserves ==
  ASSUME SafeRedrain, CInv, IInv', NEW c \in Runners, OperatorRedrain(c)
  PROVE  CInv'
<1> USE DEF DrainCalls, RunnerPCs, Stopped
<1>1. /\ pc[c] = "drain_failed" /\ pc[c] \in DrainCalls /\ pc[c] \in SettledCalls
      /\ Goto(c, "pause") /\ UNCHANGED <<vars, engineVars, drainVars, threadVars, seen>>
  BY CycleAssumption DEF OperatorRedrain, SafeRedrain, SettledCalls
<1>2. Local(c)'
  BY <1>1, InDrain, SameWhere, GotoFacts
     DEF Local, Position, DrainOf, ContentOf, SettledCalls, UpdateCalls, LoadCalls, ResetCalls,
         ValidateCalls, ResumeCalls, drainVars
<1> QED
  BY <1>1, <1>2, QuietDrainCall

-----------------------------------------------------------------------------
(* The steps between cycles.                                               *)

(* No runner is inside a cycle while the controller serves.                *)
LEMMA NobodyCycles ==
  ASSUME CInv, Where \in {"UNINITIALIZED", "READY"}
  PROVE  \A c \in Runners : ~Cycling(c)
  BY DEF CInv, Local, Position, Cycling, UpdateCalls, LoadCalls, ResetCalls, ValidateCalls,
         ResumeCalls

(* A runner that is in no cycle has nothing to keep but its target.        *)
LEMMA RestingLocal ==
  ASSUME CInv, NEW d \in Runners, ~Cycling(d)', pc'[d] = "chosen" => target'[d] # None,
         pc' \in [Runners -> RunnerPCs]
  PROVE  Local(d)'
  BY DEF Cycling, Local, Position, DrainOf, ContentOf, SettledCalls, UpdateCalls, LoadCalls,
         ResetCalls, ValidateCalls, ResumeCalls, DrainCalls, RunnerPCs, Stopped

(* Bootstrap writes the label of the weights a fresh engine has.           *)
LEMMA BootstrapPreserves ==
  ASSUME CInv, IInv', NEW c \in Runners, RunnerBootstrap(c)
  PROVE  CInv'
<1>1. PICK i \in Identities :
        Initialize([observed_engine_label |-> INITIAL_VERSION, pre_seed_label |-> label,
                    weight_transfer_initialised |-> TRUE, has_driver |-> TRUE,
                    weight_identity |-> i])
  BY DEF RunnerBootstrap
<1>2. /\ state = "UNINITIALIZED" /\ Where = "UNINITIALIZED"
      /\ \/ TaintWith
         \/ /\ state' = "READY" /\ current' = [version |-> INITIAL_VERSION, identity |-> i]
            /\ UNCHANGED <<pending, active, orphaned, taintedIn>>
  BY <1>1 DEF Initialize, Advance, Where
<1>3. /\ UNCHANGED <<pauseState, waiting, running, ranUnder, weights, caches>>
      /\ UNCHANGED <<drainVars, runnerVars, threadVars>> /\ label' = INITIAL_VERSION
  BY DEF RunnerBootstrap, EngineWriteLabel
<1>4. CTypeOK /\ \A d \in Runners : ~Cycling(d) /\ Local(d)
  BY <1>2, NobodyCycles DEF CInv
<1>5. OneCycle' /\ \A d \in Runners : ~Cycling(d)' /\ Local(d)'
  BY <1>3, <1>4, RestingLocal DEF Cycling, OneCycle, runnerVars, CTypeOK, Local, Position
<1>6. label' \in EngineVersions \cup {FreshLabel}
  BY <1>3, VersionsAssumption, CycleAssumption
<1>7. CTypeOK'
  BY <1>3, <1>4, <1>6
     DEF CTypeOK, IInv, EngineTypeOK, DrainTypeOK, pauseState, drainVars, runnerVars, threadVars
<1>8. \A r \in Rollouts : BoundTarget(r)' = BoundTarget(r)
  BY <1>2, TaintBound DEF BoundTarget, CInv
<1>9. InEngine' /\ RanBound' /\ NoTrajectorySpansUpdate'
  BY <1>3, <1>8, BindingsFrame DEF threadVars
<1>10. OneLiveAttempt' /\ ServesOnlyOneVersion'
  BY <1>3 DEF CInv, Around, OneLiveAttempt, Live, ServesOnlyOneVersion, drainVars, pauseState
<1>11. weights = 0 /\ ~paused /\ late = 0 /\ drainState # "IN_FLIGHT" /\ DrainHeld
  BY <1>2 DEF CInv, Around, Serving, DrainHeld
<1>12. Where' \in {"UNINITIALIZED", "READY"}
  BY <1>2, TaintWhere DEF Where
<1>13. DrainHeld'
  BY <1>3, <1>11, <1>12
     DEF DrainHeld, Drained, drainVars, pauseState, MutationStates, PendingStates
<1>14. Serving'
  <2>1. CASE Where' = "UNINITIALIZED"
    BY <1>3, <1>11, <2>1 DEF Serving, pauseState, drainVars
  <2>2. CASE Where' = "READY"
    <3>1. current' = [version |-> INITIAL_VERSION, identity |-> i]
      BY <1>2, <2>2, TaintWhere
    <3>2. current' \in Targets
      BY <3>1, VersionsAssumption DEF Targets
    <3> QED
      BY <1>3, <1>11, <2>2, <3>1, <3>2, NoNone DEF Serving, pauseState, INITIAL_VERSION
  <2> QED
    BY <1>12, <2>1, <2>2
<1> QED
  BY <1>5, <1>7, <1>9, <1>10, <1>13, <1>14 DEF CInv, Around

(* What keeps the whole of the invariant but the runners' part.            *)
LEMMA NothingAround ==
  ASSUME CInv, UNCHANGED <<engineVars, drainVars, threadVars>>,
         Where' = Where /\ current' = current,
         \A r \in Rollouts : BoundTarget(r)' = BoundTarget(r)
  PROVE  Around' /\ EngineTypeOK' /\ DrainTypeOK'
<1>1. InEngine' /\ RanBound' /\ NoTrajectorySpansUpdate'
  BY BindingsFrame DEF engineVars, threadVars
<1>2. OneLiveAttempt' /\ ServesOnlyOneVersion' /\ DrainHeld' /\ Serving'
  BY DEF CInv, Around, OneLiveAttempt, Live, ServesOnlyOneVersion, DrainHeld, Drained, Serving,
         drainVars, engineVars, pauseState
<1>3. EngineTypeOK' /\ DrainTypeOK'
  BY DEF CInv, CTypeOK, EngineTypeOK, DrainTypeOK, drainVars, engineVars, pauseState
<1> QED
  BY <1>1, <1>2, <1>3 DEF Around

(* Choosing a target, and entering a cycle.                                *)
LEMMA NextTargetPreserves ==
  ASSUME CInv, IInv', NEW c \in Runners, RunnerNextTarget(c)
  PROVE  CInv'
<1>1. UNCHANGED <<vars, engineVars, drainVars, threadVars, seen>> /\ CTypeOK
  BY DEF RunnerNextTarget, CInv
<1>2. PICK t \in Targets : target' = [target EXCEPT ![c] = t]
  BY DEF RunnerNextTarget
<1>3. pc[c] = "idle" /\ pc' = [pc EXCEPT ![c] = "chosen"]
  BY DEF RunnerNextTarget
<1>4. /\ pc' \in [Runners -> RunnerPCs] /\ target' \in [Runners -> Targets \cup {None}]
      /\ pc'[c] = "chosen" /\ target'[c] # None
      /\ \A d \in Runners \ {c} : pc'[d] = pc[d] /\ target'[d] = target[d]
  BY <1>1, <1>2, <1>3, NoNone DEF CTypeOK, RunnerPCs
<1>5. /\ ~Cycling(c)' /\ ~Cycling(c)
      /\ \A d \in Runners \ {c} : Cycling(d)' <=> Cycling(d)
  BY <1>3, <1>4
     DEF Cycling, DrainCalls, UpdateCalls, LoadCalls, ResetCalls, ValidateCalls, ResumeCalls
<1>6. OneCycle'
  BY <1>5 DEF CInv, OneCycle
<1>7. Local(c)'
  BY <1>4, <1>5, RestingLocal
<1>8. ASSUME NEW d \in Runners \ {c} PROVE Local(d)'
  BY <1>1, <1>4, SameWhere
     DEF CInv, Local, Position, DrainOf, ContentOf, drainVars, engineVars, pauseState, Drained
<1>9. Around' /\ EngineTypeOK' /\ DrainTypeOK'
  BY <1>1, SameWhere, NothingAround
<1>10. CTypeOK'
  BY <1>1, <1>4, <1>9 DEF CTypeOK, IInv, threadVars
<1> QED
  BY <1>6, <1>7, <1>8, <1>9, <1>10 DEF CInv

LEMMA BeginDrainPreserves ==
  ASSUME CInv, IInv', NEW c \in Runners, RunnerBeginDrain(c)
  PROVE  CInv'
<1>1. UNCHANGED <<engineVars, drainVars, threadVars, seen>> /\ CTypeOK /\ pc[c] = "chosen"
  BY DEF RunnerBeginDrain, ControllerCall, CInv
<1>2. target[c] # None /\ Local(c)
  BY <1>1 DEF CInv, Local, Position
<1>3. \A r \in Rollouts : BoundTarget(r)' = BoundTarget(r)
  BY DEF RunnerBeginDrain, BeginDrain, vars, BoundTarget
<1>4. ~Cycling(c)
  BY <1>1
     DEF Cycling, DrainCalls, UpdateCalls, LoadCalls, ResetCalls, ValidateCalls, ResumeCalls
<1>5. CASE BeginDrain /\ Goto(c, "pause")
  <2>1. Where = "READY" /\ Where' = "DRAINING" /\ current' = current
    BY <1>5 DEF BeginDrain, Advance, Where
  <2>2. /\ pc' \in [Runners -> RunnerPCs] /\ target' \in [Runners -> Targets \cup {None}]
        /\ pc'[c] = "pause" /\ target'[c] # None
        /\ \A d \in Runners \ {c} : pc'[d] = pc[d] /\ target'[d] = target[d]
    BY <1>1, <1>2, <1>5, GotoFacts DEF RunnerPCs
  <2>3. \A d \in Runners \ {c} : ~Cycling(d) /\ ~Cycling(d)'
    BY <2>1, <2>2, NobodyCycles DEF Cycling
  <2>4. OneCycle'
    BY <2>3 DEF OneCycle
  <2>5. ASSUME NEW d \in Runners \ {c} PROVE Local(d)'
    BY <2>2, <2>3, RestingLocal DEF CInv, Local, Position
  <2>6. drainState # "IN_FLIGHT"
    BY <2>1 DEF CInv, Around, DrainHeld
  <2>7. Local(c)'
    BY <1>1, <2>1, <2>2, <2>6
       DEF Local, Position, DrainOf, ContentOf, SettledCalls, DrainCalls, UpdateCalls, LoadCalls,
           ResetCalls, ValidateCalls, ResumeCalls, drainVars
  <2>8. InEngine' /\ RanBound' /\ NoTrajectorySpansUpdate'
    BY <1>1, <1>3, BindingsFrame DEF engineVars, threadVars
  <2>9. OneLiveAttempt' /\ ServesOnlyOneVersion' /\ DrainHeld' /\ Serving'
    BY <1>1, <2>1
       DEF CInv, Around, OneLiveAttempt, Live, ServesOnlyOneVersion, DrainHeld, Drained, Serving,
           drainVars, engineVars, pauseState, MutationStates, PendingStates
  <2>10. CTypeOK'
    BY <1>1, <2>2
       DEF CTypeOK, IInv, EngineTypeOK, DrainTypeOK, drainVars, engineVars, pauseState, threadVars
  <2> QED
    BY <2>4, <2>5, <2>7, <2>8, <2>9, <2>10 DEF CInv, Around
<1>6. CASE Goto(c, "idle") /\ UNCHANGED vars
  <2>1. /\ pc' \in [Runners -> RunnerPCs] /\ target' \in [Runners -> Targets \cup {None}]
        /\ pc'[c] = "idle"
        /\ \A d \in Runners \ {c} : pc'[d] = pc[d] /\ target'[d] = target[d]
    BY <1>1, <1>6, GotoFacts DEF RunnerPCs
  <2>2. ~Cycling(c)' /\ \A d \in Runners \ {c} : Cycling(d)' <=> Cycling(d)
    BY <2>1
       DEF Cycling, DrainCalls, UpdateCalls, LoadCalls, ResetCalls, ValidateCalls, ResumeCalls
  <2>3. OneCycle' /\ Local(c)'
    BY <1>4, <2>1, <2>2, RestingLocal DEF CInv, OneCycle
  <2>4. ASSUME NEW d \in Runners \ {c} PROVE Local(d)'
    BY <1>1, <1>6, <2>1, SameWhere
       DEF CInv, Local, Position, DrainOf, ContentOf, drainVars, engineVars, pauseState, Drained
  <2>5. Around' /\ EngineTypeOK' /\ DrainTypeOK'
    BY <1>1, <1>6, SameWhere, NothingAround
  <2>6. CTypeOK'
    BY <1>1, <2>1, <2>5 DEF CTypeOK, IInv, threadVars
  <2> QED
    BY <2>3, <2>4, <2>5, <2>6 DEF CInv
<1> QED
  BY <1>5, <1>6 DEF RunnerBeginDrain

-----------------------------------------------------------------------------
(* What the other threads do while the runners stand still.                *)

(* The runners' part survives whatever keeps the phase, the weights and    *)
(* the label, keeps a drained engine drained and its caches as they are,   *)
(* and lets a verdict of the drain be true.                                *)
LEMMA RunnersStand ==
  ASSUME CInv, IInv', UNCHANGED runnerVars, Where' = Where,
         UNCHANGED <<weights, label, drainAttempts>>,
         Drained => Drained',
         UNCHANGED caches \/ ~Drained,
         UNCHANGED pauseState \/ stray' \/ Where = "DRAINING",
         \/ UNCHANGED drainState
         \/ drainState' = "FAILED" \/ (drainState' = "COMPLETED" /\ Drained'),
         RestTyped', Around'
  PROVE  CInv'
<1> USE DEF UpdateCalls, LoadCalls, ResetCalls, ValidateCalls, ResumeCalls
<1>1. CTypeOK /\ OneCycle' /\ DrainHeld
  BY DEF CInv, Around, OneCycle, Cycling, runnerVars
<1>2. CTypeOK'
  BY <1>1 DEF CTypeOK, RestTyped, runnerVars, IInv
<1>3. ASSUME NEW d \in Runners PROVE Local(d)'
  <2>1. Local(d) /\ pc'[d] = pc[d] /\ target'[d] = target[d] /\ seen'[d] = seen[d]
    BY DEF CInv, runnerVars
  <2>2. Position(d)'
    BY <2>1 DEF Local, Position
  <2>3. DrainOf(d)'
    <3>1. /\ DrainOf(d)
          /\ drainState' = "IN_FLIGHT" => drainState = "IN_FLIGHT"
          /\ drainState' = "COMPLETED" => drainState = "COMPLETED" \/ Drained'
      BY <2>1 DEF Local
    <3> QED
      BY <2>1, <3>1 DEF DrainOf
  <2>4. pc[d] \in ResetCalls \cup ValidateCalls \cup {"resume"} => UNCHANGED caches
    BY <1>1, <2>1
       DEF Local, Position, DrainOf, DrainHeld, MutationStates, PendingStates
  <2>5. pc[d] \in {"read_back", "confirm_resumed"} => Where = "RESUMING"
    BY <2>1 DEF Local, Position
  <2>6. ContentOf(d)'
    BY <2>1, <2>4, <2>5 DEF Local, ContentOf, pauseState
  <2> QED
    BY <2>2, <2>3, <2>6 DEF Local
<1> QED
  BY <1>1, <1>2, <1>3 DEF CInv

(* The operator's taint, and a step of nobody.                             *)
LEMMA TaintPreservesSystem ==
  ASSUME CInv, IInv', OperatorTaint
  PROVE  CInv'
<1>1. TaintWith /\ UNCHANGED <<engineVars, drainVars, runnerVars, threadVars>>
  BY DEF OperatorTaint, Taint
<1>2. Where' = Where /\ current' = current /\ \A r \in Rollouts : BoundTarget(r)' = BoundTarget(r)
  BY <1>1, TaintWhere, TaintBound DEF CInv
<1>3. Around' /\ RestTyped'
  BY <1>1, <1>2, NothingAround DEF RestTyped, CInv, CTypeOK, runnerVars, threadVars
<1> QED
  BY <1>1, <1>2, <1>3, RunnersStand DEF Drained, engineVars, pauseState, drainVars

LEMMA StutterPreserves ==
  ASSUME CInv, IInv', UNCHANGED allVars
  PROVE  CInv'
<1>1. Around' /\ RestTyped'
  BY SameWhere, NothingAround DEF RestTyped, CInv, CTypeOK, runnerVars, threadVars, allVars
<1> QED
  BY <1>1, SameWhere, RunnersStand DEF Drained, engineVars, pauseState, drainVars, allVars

-----------------------------------------------------------------------------
(* The drain threads.                                                      *)

(* A thread that moves from one phase of its call to the next.             *)
LEMMA PhaseMoves ==
  ASSUME CInv, NEW t \in Threads, Live(t), NEW to \in ThreadPhases \ {"free"},
         threads' = [threads EXCEPT ![t].phase = to],
         UNCHANGED <<drainState, drainAttempts>>, late' \in 0..MaxLate,
         to = "held" => paused', to = "ok" => Drained', Drained => Drained', paused => paused'
  PROVE  /\ DrainTypeOK' /\ OneLiveAttempt'
         /\ Where = "DRAINING"
         /\ Where' = Where => DrainHeld'
<1>1. /\ DrainTypeOK /\ OneLiveAttempt /\ DrainHeld
  BY DEF CInv, CTypeOK, Around
<1>2. \A u \in Threads : threads'[u] = IF u = t THEN [attempt |-> threads[t].attempt, phase |-> to]
                                     ELSE threads[u]
  BY <1>1 DEF DrainTypeOK
<1>3. DrainTypeOK'
  BY <1>1 DEF DrainTypeOK
<1>4. OneLiveAttempt'
  BY <1>1, <1>2 DEF OneLiveAttempt, Live
<1>5. Where = "DRAINING"
  BY <1>1 DEF OneLiveAttempt, DrainHeld
<1>6. Where' = Where => DrainHeld'
  BY <1>1, <1>2, <1>5 DEF DrainHeld, MutationStates, PendingStates
<1> QED
  BY <1>3, <1>4, <1>5, <1>6

(* A live thread belongs to the current attempt: its pause, its failure and*)
(* its verdict are those of the drain under way.                           *)
LEMMA DrainThreadPreserves ==
  ASSUME CInv, IInv', NEW t \in Threads, DrainThread(t)
  PROVE  CInv'
<1>1. /\ UNCHANGED <<vars, runnerVars, threadVars>>
      /\ Where' = Where /\ current' = current
      /\ \A r \in Rollouts : BoundTarget(r)' = BoundTarget(r)
  BY SameWhere DEF DrainThread
<1>2. CTypeOK /\ OneLiveAttempt /\ DrainHeld /\ Serving /\ ServesOnlyOneVersion
  BY DEF CInv, Around
<1>3. /\ UNCHANGED <<stray, waiting, running, ranUnder, weights, label, caches, drainAttempts>>
      /\ UNCHANGED paused \/ paused' = TRUE
      /\ Live(t)
  BY DEF DrainThread, ThreadStep, PauseReachesEngine, PauseIsLost, PauseIsDelayed, PauseReturns,
         PauseIsUnanswered, WriteVerdict, Phase, EnginePause, engineVars, pauseState, Live
<1>4. InEngine' /\ RanBound' /\ NoTrajectorySpansUpdate'
  BY <1>1, <1>3, BindingsFrame DEF threadVars
<1>5. drainState = "IN_FLIGHT" /\ Where = "DRAINING"
  BY <1>2, <1>3 DEF OneLiveAttempt, DrainHeld
<1>6. Drained => Drained'
  BY <1>3 DEF Drained
<1>7. ServesOnlyOneVersion' /\ Serving'
  BY <1>1, <1>2, <1>3, <1>5 DEF ServesOnlyOneVersion, Serving
<1>8. ASSUME NEW to \in ThreadPhases \ {"free"},
             threads' = [threads EXCEPT ![t].phase = to],
             drainState' = drainState, late' \in 0..MaxLate,
             to = "held" => paused', to = "ok" => Drained'
      PROVE  CInv'
  <2>1. paused => paused'
    BY <1>3
  <2>2. DrainTypeOK' /\ OneLiveAttempt' /\ DrainHeld'
    BY <1>1, <1>3, <1>6, <1>8, <2>1, PhaseMoves
  <2>3. RestTyped'
    BY <1>1, <1>2, <1>3, <2>2 DEF RestTyped, CTypeOK, EngineTypeOK, threadVars, runnerVars
  <2> QED
    BY <1>1, <1>3, <1>4, <1>5, <1>6, <1>7, <1>8, <2>2, <2>3, RunnersStand DEF Around
<1>9. CASE WriteVerdict(t)
  <2>1. /\ threads[t].attempt = drainAttempts
        /\ \A u \in Threads \ {t} : threads[u].phase = "free"
    BY <1>2, <1>3 DEF OneLiveAttempt, Live
  <2>2. /\ threads' = [threads EXCEPT ![t] = [attempt |-> 0, phase |-> "free"]]
        /\ UNCHANGED <<drainAttempts, late, engineVars>>
        /\ drainState' = IF threads[t].phase = "ok" THEN "COMPLETED" ELSE "FAILED"
    BY <1>9, <2>1 DEF WriteVerdict
  <2>3. \A u \in Threads : threads'[u].phase = "free"
    BY <1>2, <2>1, <2>2 DEF CTypeOK, DrainTypeOK
  <2>4. DrainTypeOK'
    BY <1>2, <2>2, DrainAssumption DEF CTypeOK, DrainTypeOK, ThreadPhases
  <2>5. OneLiveAttempt' /\ DrainHeld'
    BY <1>1, <1>5, <2>2, <2>3 DEF OneLiveAttempt, Live, DrainHeld, MutationStates, PendingStates
  <2>6. drainState' = "COMPLETED" => Drained'
    BY <1>2, <1>6, <2>2 DEF DrainHeld
  <2>7. RestTyped'
    BY <1>1, <1>2, <1>3, <2>4, <2>2
       DEF RestTyped, CTypeOK, EngineTypeOK, threadVars, runnerVars, engineVars, pauseState
  <2> QED
    BY <1>1, <1>3, <1>4, <1>5, <1>6, <1>7, <2>2, <2>5, <2>6, <2>7, RunnersStand DEF Around
<1>10. late \in 0..MaxLate
  BY <1>2 DEF CTypeOK, DrainTypeOK
<1>11. CASE PauseReachesEngine(t)
  <2>1. "held" \in ThreadPhases \ {"free"}
    BY DEF ThreadPhases
  <2>2. /\ threads' = [threads EXCEPT ![t].phase = "held"]
        /\ drainState' = drainState /\ late' = late /\ paused'
    BY <1>11 DEF PauseReachesEngine, Phase, EnginePause
  <2> QED
    BY <1>8, <1>10, <2>1, <2>2
<1>12. CASE PauseIsLost(t) \/ PauseIsUnanswered(t)
  <2>1. "failed" \in ThreadPhases \ {"free"}
    BY DEF ThreadPhases
  <2>2. /\ threads' = [threads EXCEPT ![t].phase = "failed"]
        /\ drainState' = drainState /\ late' = late
    BY <1>12 DEF PauseIsLost, PauseIsUnanswered, Phase
  <2> QED
    BY <1>8, <1>10, <2>1, <2>2
<1>13. CASE PauseIsDelayed(t)
  <2>1. late' \in 0..MaxLate
    BY <1>10, <1>13, DrainAssumption DEF PauseIsDelayed
  <2>2. "failed" \in ThreadPhases \ {"free"}
    BY DEF ThreadPhases
  <2>3. threads' = [threads EXCEPT ![t].phase = "failed"] /\ drainState' = drainState
    BY <1>13 DEF PauseIsDelayed
  <2> QED
    BY <1>8, <2>1, <2>2, <2>3
<1>14. CASE PauseReturns(t)
  <2>1. Drained
    BY <1>2, <1>14 DEF PauseReturns, Phase, EngineDrained, DrainHeld, Drained
  <2>2. "ok" \in ThreadPhases \ {"free"}
    BY DEF ThreadPhases
  <2>3. /\ threads' = [threads EXCEPT ![t].phase = "ok"]
        /\ drainState' = drainState /\ late' = late
    BY <1>14 DEF PauseReturns, Phase
  <2> QED
    BY <1>6, <1>8, <1>10, <2>1, <2>2, <2>3
<1> QED
  BY <1>9, <1>11, <1>12, <1>13, <1>14 DEF DrainThread, ThreadStep

(* A pause nobody waits for stops an engine that serves; it is stray.      *)
LEMMA LatePausePreserves ==
  ASSUME CInv, IInv', LatePauseArrives
  PROVE  CInv'
<1>1. /\ UNCHANGED <<vars, runnerVars, threadVars>>
      /\ Where' = Where /\ current' = current
      /\ \A r \in Rollouts : BoundTarget(r)' = BoundTarget(r)
  BY SameWhere DEF LatePauseArrives
<1>2. CTypeOK /\ OneLiveAttempt /\ DrainHeld /\ Serving
  BY DEF CInv, Around
<1>3. /\ UNCHANGED <<waiting, running, ranUnder, weights, label, caches>>
      /\ UNCHANGED <<drainState, drainAttempts, threads>>
      /\ paused' = TRUE /\ stray' = TRUE /\ late > 0 /\ late' = late - 1
  BY DEF LatePauseArrives, LatePause, EngineStrayPause
<1>4. InEngine' /\ RanBound' /\ NoTrajectorySpansUpdate'
  BY <1>1, <1>3, BindingsFrame DEF threadVars
<1>5. OneLiveAttempt' /\ DrainHeld' /\ ServesOnlyOneVersion' /\ Serving'
  BY <1>1, <1>2, <1>3
     DEF OneLiveAttempt, Live, DrainHeld, Drained, ServesOnlyOneVersion, Serving
<1>6. late' \in 0..MaxLate
  BY <1>2, <1>3, DrainAssumption DEF CTypeOK, DrainTypeOK
<1>7. RestTyped'
  BY <1>1, <1>2, <1>3, <1>6
     DEF RestTyped, CTypeOK, EngineTypeOK, DrainTypeOK, threadVars, runnerVars
<1> QED
  BY <1>1, <1>3, <1>4, <1>5, <1>7, RunnersStand DEF Around, Drained

-----------------------------------------------------------------------------
(* The rollout threads and the engine's side of their requests.            *)

(* A rollout is bound to the weights and the label the engine has.         *)
LEMMA BoundToServed ==
  ASSUME CInv, NEW r \in Rollouts, BoundTarget(r) # None
  PROVE  weights = BoundTarget(r).version /\ label = BoundTarget(r).version
<1>1. IInv /\ Serving
  BY DEF CInv, Around
<1>2. BoundTarget(r) = current /\ Where \in {"READY", "DRAINING"}
  <2>1. CASE active[r] # None
    <3>1. active # NoRollouts
      BY <2>1 DEF NoRollouts
    <3>2. state \in {"READY", "DRAINING"}
      BY <1>1, <3>1 DEF IInv, TypeOK, LifecycleState, FreshUntilBootstrap, DrainBeforeMutation,
                        MutationStates, PendingStates
    <3> QED
      BY <1>1, <2>1, <3>2 DEF IInv, BoundToCommitted, BoundTarget, Where
  <2>2. CASE active[r] = None
    BY <1>1, <2>2 DEF IInv, OrphansPredateUpdate, BoundTarget, Where, ROLLOUT_COMPLETION_STATES
  <2> QED
    BY <2>1, <2>2
<1> QED
  BY <1>1, <1>2 DEF Serving

(* A step of one rollout's thread or request.                              *)
LEMMA ThreadFrame ==
  ASSUME CInv, IInv', UNCHANGED <<drainVars, runnerVars>>,
         Where' = Where, current' = current, UNCHANGED <<pauseState, weights, label>>,
         running' \subseteq running \/ ~paused, UNCHANGED caches \/ ~paused, ServesOnlyOneVersion',
         EngineTypeOK', thread' \in [Rollouts -> ThreadPCs],
         completion' \in [Rollouts -> Labels \cup {None}],
         InEngine', RanBound', NoTrajectorySpansUpdate'
  PROVE  CInv'
<1>1. CTypeOK /\ OneLiveAttempt /\ DrainHeld /\ Serving
  BY DEF CInv, Around
<1>2. Drained => Drained' /\ UNCHANGED caches
  BY DEF Drained, pauseState
<1>3. OneLiveAttempt' /\ DrainHeld' /\ Serving'
  BY <1>1, <1>2 DEF OneLiveAttempt, Live, DrainHeld, Serving, drainVars, pauseState
<1>4. RestTyped'
  BY <1>1 DEF RestTyped, CTypeOK, DrainTypeOK, drainVars, runnerVars
<1> QED
  BY <1>2, <1>3, <1>4, RunnersStand DEF Around, drainVars

(* Admission binds to the committed target, and a request that arrives has *)
(* generated nothing.                                                      *)
LEMMA AdmitPreserves ==
  ASSUME CInv, IInv', NEW r \in Rollouts, ThreadAdmit(r)
  PROVE  CInv'
<1>1. CTypeOK /\ InEngine /\ RanBound /\ NoTrajectorySpansUpdate /\ ServesOnlyOneVersion
  BY DEF CInv, Around
<1>2. /\ thread[r] = "idle" /\ thread' = [thread EXCEPT ![r] = "admitted"]
      /\ UNCHANGED <<engineVars, drainVars, runnerVars, completion>>
      /\ active' = [active EXCEPT ![r] = current]
      /\ UNCHANGED <<state, current, pending, orphaned, taintedIn>>
  BY DEF ThreadAdmit, AdmitRollout
<1>3. /\ Where' = Where
      /\ \A q \in Rollouts \ {r} : BoundTarget(q)' = BoundTarget(q) /\ thread'[q] = thread[q]
      /\ thread'[r] = "admitted" /\ thread' \in [Rollouts -> ThreadPCs]
  BY <1>1, <1>2 DEF Where, BoundTarget, CTypeOK, TypeOK, ThreadPCs
<1>4. InEngine' /\ RanBound' /\ NoTrajectorySpansUpdate'
  BY <1>1, <1>2, <1>3 DEF InEngine, RanBound, NoTrajectorySpansUpdate, engineVars
<1>5. ServesOnlyOneVersion' /\ EngineTypeOK' /\ completion' \in [Rollouts -> Labels \cup {None}]
  BY <1>1, <1>2 DEF ServesOnlyOneVersion, EngineTypeOK, CTypeOK, engineVars, pauseState
<1> QED
  BY <1>2, <1>3, <1>4, <1>5, ThreadFrame DEF engineVars

LEMMA SendPreserves ==
  ASSUME CInv, IInv', NEW r \in Rollouts, ThreadSend(r)
  PROVE  CInv'
<1>1. CTypeOK /\ InEngine /\ RanBound /\ NoTrajectorySpansUpdate /\ ServesOnlyOneVersion
  BY DEF CInv, Around
<1>2. /\ thread[r] = "admitted" /\ thread' = [thread EXCEPT ![r] = "sent"]
      /\ waiting' = waiting \cup {r} /\ ranUnder' = [ranUnder EXCEPT ![r] = {}]
      /\ UNCHANGED <<vars, drainVars, runnerVars, completion>>
      /\ UNCHANGED <<pauseState, running, weights, label, caches>>
  BY DEF ThreadSend, EngineAccept
<1>3. /\ Where' = Where /\ current' = current
      /\ \A q \in Rollouts : BoundTarget(q)' = BoundTarget(q)
  BY <1>2, SameWhere
<1>4. /\ thread' \in [Rollouts -> ThreadPCs] /\ thread'[r] = "sent" /\ ranUnder'[r] = {}
      /\ \A q \in Rollouts \ {r} : thread'[q] = thread[q] /\ ranUnder'[q] = ranUnder[q]
      /\ EngineTypeOK'
  BY <1>1, <1>2, CycleAssumption DEF CTypeOK, EngineTypeOK, ThreadPCs, pauseState
<1>5. InEngine'
  BY <1>1, <1>2, <1>4 DEF InEngine
<1>6. RanBound' /\ NoTrajectorySpansUpdate'
  BY <1>1, <1>2, <1>3, <1>4 DEF RanBound, NoTrajectorySpansUpdate
<1>7. ServesOnlyOneVersion' /\ completion' \in [Rollouts -> Labels \cup {None}]
  BY <1>1, <1>2 DEF ServesOnlyOneVersion, CTypeOK, pauseState
<1> QED
  BY <1>2, <1>3, <1>4, <1>5, <1>6, <1>7, ThreadFrame

(* A request that is scheduled runs under the weights its rollout is bound *)
(* to, and leaves them in the caches.                                      *)
LEMMA SchedulePreserves ==
  ASSUME CInv, IInv', NEW r \in Rollouts, RequestScheduled(r)
  PROVE  CInv'
<1>1. CTypeOK /\ InEngine /\ RanBound /\ NoTrajectorySpansUpdate /\ ServesOnlyOneVersion
  BY DEF CInv, Around
<1>2. /\ ~paused /\ r \in waiting /\ waiting' = waiting \ {r} /\ running' = running \cup {r}
      /\ ranUnder' = [ranUnder EXCEPT ![r] = {weights}]
      /\ caches' = [k \in Caches |-> caches[k] \cup {weights}]
      /\ UNCHANGED <<pauseState, weights, label>>
      /\ UNCHANGED <<vars, drainVars, runnerVars, threadVars>>
  BY DEF RequestScheduled, EngineSchedule
<1>3. /\ Where' = Where /\ current' = current
      /\ \A q \in Rollouts : BoundTarget(q)' = BoundTarget(q)
  BY <1>2, SameWhere
<1>4. /\ ranUnder'[r] = {weights}
      /\ \A q \in Rollouts \ {r} : ranUnder'[q] = ranUnder[q]
      /\ EngineTypeOK'
  BY <1>1, <1>2, CycleAssumption DEF CTypeOK, EngineTypeOK, pauseState
<1>5. InEngine'
  BY <1>1, <1>2, <1>4 DEF InEngine, threadVars
<1>6. RanBound'
  BY <1>1, <1>2, <1>3, <1>4, BoundToServed DEF RanBound, threadVars
<1>7. NoTrajectorySpansUpdate'
  BY <1>1, <1>2, <1>3 DEF NoTrajectorySpansUpdate, threadVars
<1>8. ServesOnlyOneVersion'
  BY <1>1, <1>2 DEF ServesOnlyOneVersion
<1> QED
  BY <1>1, <1>2, <1>3, <1>4, <1>5, <1>6, <1>7, <1>8, ThreadFrame DEF CTypeOK, threadVars

(* The engine is done with a request before its thread knows.              *)
LEMMA FinishesPreserves ==
  ASSUME CInv, IInv', NEW r \in Rollouts, RequestFinishes(r)
  PROVE  CInv'
<1>1. CTypeOK /\ InEngine /\ RanBound /\ NoTrajectorySpansUpdate /\ ServesOnlyOneVersion
  BY DEF CInv, Around
<1>2. /\ r \in running /\ running' = running \ {r}
      /\ thread' = [thread EXCEPT ![r] = IF @ = "gave_up" THEN "idle" ELSE "answered"]
      /\ UNCHANGED <<pauseState, waiting, ranUnder, weights, label, caches>>
      /\ UNCHANGED <<vars, drainVars, runnerVars, completion>>
  BY DEF RequestFinishes, EngineFinish
<1>3. /\ Where' = Where /\ current' = current
      /\ \A q \in Rollouts : BoundTarget(q)' = BoundTarget(q)
  BY <1>2, SameWhere
<1>4. /\ thread' \in [Rollouts -> ThreadPCs] /\ EngineTypeOK'
      /\ thread'[r] = IF thread[r] = "gave_up" THEN "idle" ELSE "answered"
      /\ \A q \in Rollouts \ {r} : thread'[q] = thread[q]
  BY <1>1, <1>2 DEF CTypeOK, EngineTypeOK, ThreadPCs, pauseState
<1>5. InEngine'
  BY <1>1, <1>2, <1>4 DEF InEngine
<1>6. RanBound'
  BY <1>1, <1>2, <1>3, <1>4 DEF RanBound, InEngine
<1>7. NoTrajectorySpansUpdate'
  BY <1>1, <1>2, <1>3, <1>4 DEF NoTrajectorySpansUpdate
<1>8. ServesOnlyOneVersion' /\ completion' \in [Rollouts -> Labels \cup {None}]
  BY <1>1, <1>2 DEF ServesOnlyOneVersion, CTypeOK, pauseState
<1> QED
  BY <1>2, <1>3, <1>4, <1>5, <1>6, <1>7, <1>8, ThreadFrame

(* The label a thread reads while its rollout is bound is the binding's.   *)
LEMMA ObservePreserves ==
  ASSUME CInv, IInv', NEW r \in Rollouts, ThreadObserve(r)
  PROVE  CInv'
<1>1. CTypeOK /\ InEngine /\ RanBound /\ NoTrajectorySpansUpdate /\ ServesOnlyOneVersion
  BY DEF CInv, Around
<1>2. /\ thread[r] = "answered" /\ thread' = [thread EXCEPT ![r] = "observed"]
      /\ completion' = [completion EXCEPT ![r] = label]
      /\ UNCHANGED <<vars, engineVars, drainVars, runnerVars>>
  BY DEF ThreadObserve
<1>3. /\ Where' = Where /\ current' = current
      /\ \A q \in Rollouts : BoundTarget(q)' = BoundTarget(q)
  BY <1>2, SameWhere
<1>4. label \in Labels
  BY <1>1, CycleAssumption DEF CTypeOK, EngineTypeOK, Labels
<1>5. /\ thread' \in [Rollouts -> ThreadPCs] /\ completion' \in [Rollouts -> Labels \cup {None}]
      /\ thread'[r] = "observed" /\ completion'[r] = label
      /\ \A q \in Rollouts \ {r} : thread'[q] = thread[q] /\ completion'[q] = completion[q]
  BY <1>1, <1>2, <1>4 DEF CTypeOK, ThreadPCs
<1>6. InEngine' /\ RanBound'
  BY <1>1, <1>2, <1>3, <1>5 DEF InEngine, RanBound, engineVars
<1>7. NoTrajectorySpansUpdate'
  BY <1>1, <1>3, <1>5, BoundToServed DEF NoTrajectorySpansUpdate
<1>8. ServesOnlyOneVersion' /\ EngineTypeOK'
  BY <1>1, <1>2 DEF ServesOnlyOneVersion, EngineTypeOK, CTypeOK, engineVars, pauseState
<1> QED
  BY <1>2, <1>3, <1>5, <1>6, <1>7, <1>8, ThreadFrame DEF engineVars

(* A release unbinds the rollout; a refused one leaves the orphan as it is.*)
LEMMA ReleasePreserves ==
  ASSUME CInv, IInv', NEW r \in Rollouts, ThreadRelease(r)
  PROVE  CInv'
<1>1. /\ CTypeOK /\ InEngine /\ RanBound /\ NoTrajectorySpansUpdate /\ ServesOnlyOneVersion
      /\ IInv
  BY DEF CInv, Around
<1>2. /\ thread[r] \in {"observed", "sent"} /\ completion' = [completion EXCEPT ![r] = None]
      /\ UNCHANGED <<engineVars, drainVars, runnerVars>>
  BY DEF ThreadRelease
<1>3. \/ /\ ReleaseRollout(r)
         /\ thread' = [thread EXCEPT ![r] = IF @ = "sent" THEN "gave_up" ELSE "idle"]
      \/ UNCHANGED vars /\ thread' = [thread EXCEPT ![r] = "refused"]
  BY DEF ThreadRelease
<1>4. /\ Where' = Where /\ current' = current
      /\ \A q \in Rollouts \ {r} : BoundTarget(q)' = BoundTarget(q)
      /\ BoundTarget(r)' = BoundTarget(r) \/ BoundTarget(r)' = None
  <2>1. CASE UNCHANGED vars
    BY <2>1, SameWhere
  <2>2. CASE ReleaseRollout(r)
    <3>1. orphaned[r] = None
      BY <1>1, <2>2 DEF ReleaseRollout, IInv, FreshUntilBootstrap, NoRollouts,
                        ROLLOUT_COMPLETION_STATES
    <3> QED
      BY <1>1, <2>2, <3>1 DEF ReleaseRollout, BoundTarget, Where, IInv, TypeOK
  <2> QED
    BY <1>3, <2>1, <2>2
<1>5. /\ thread' \in [Rollouts -> ThreadPCs] /\ completion' \in [Rollouts -> Labels \cup {None}]
      /\ thread'[r] \in {"refused", "gave_up", "idle"}
      /\ thread[r] = "sent" => thread'[r] # "idle"
      /\ thread'[r] = "refused" => BoundTarget(r)' = BoundTarget(r)
      /\ \A q \in Rollouts \ {r} : thread'[q] = thread[q] /\ completion'[q] = completion[q]
  BY <1>1, <1>2, <1>3, SameWhere DEF CTypeOK, ThreadPCs
<1>6. InEngine'
  <2>1. UNCHANGED <<waiting, running, ranUnder>>
    BY <1>2 DEF engineVars
  <2>2. r \in waiting \cup running => thread[r] = "sent" /\ thread'[r] \in {"gave_up", "refused"}
    BY <1>1, <1>2, <1>5 DEF InEngine
  <2>3. waiting \cup running \subseteq Rollouts
    BY <1>1, CycleAssumption DEF CTypeOK, EngineTypeOK
  <2> QED
    BY <1>1, <1>5, <2>1, <2>2, <2>3 DEF InEngine
<1>7. RanBound' /\ NoTrajectorySpansUpdate'
  BY <1>1, <1>2, <1>4, <1>5 DEF RanBound, NoTrajectorySpansUpdate, engineVars
<1>8. ServesOnlyOneVersion' /\ EngineTypeOK'
  BY <1>1, <1>2 DEF ServesOnlyOneVersion, EngineTypeOK, CTypeOK, engineVars, pauseState
<1> QED
  BY <1>2, <1>4, <1>5, <1>6, <1>7, <1>8, ThreadFrame DEF engineVars

-----------------------------------------------------------------------------
(* The invariant holds in every reachable state.                           *)

(* A fresh engine beside a fresh controller.                               *)
LEMMA InitCInv == CInit => CInv
<1> SUFFICES ASSUME CInit PROVE CInv
  OBVIOUS
<1>1. IInv /\ Where = "UNINITIALIZED" /\ \A r \in Rollouts : BoundTarget(r) = None
  BY InitInv DEF CInit, Init, Where, BoundTarget, NoRollouts
<1>2. 0 \in EngineVersions /\ Requests = Rollouts /\ FreshLabel = Unmanaged
  BY VersionsAssumption, CycleAssumption DEF INITIAL_VERSION
<1>3. Mixed # 0
  BY <1>2, CycleAssumption
<1>4. EngineTypeOK
  BY <1>2 DEF CInit, EngineInit, EngineTypeOK, Weights
<1>5. DrainTypeOK
  BY DrainAssumption DEF CInit, DrainInit, DrainTypeOK, ThreadPhases
<1>6. Nothing \in [reset : SUBSET Caches, label : Labels \cup {None},
                  paused : BOOLEAN, acknowledged : BOOLEAN]
  BY DEF Nothing
<1>7. CTypeOK
  BY <1>1, <1>4, <1>5, <1>6 DEF CInit, CTypeOK, IInv, RunnerPCs, ThreadPCs
<1>8. OneCycle /\ \A c \in Runners : Local(c)
  BY DEF CInit, OneCycle, Cycling, Local, Position, DrainOf, ContentOf, SettledCalls, DrainCalls,
         UpdateCalls, LoadCalls, ResetCalls, ValidateCalls, ResumeCalls
<1>9. OneLiveAttempt /\ DrainHeld /\ Serving /\ ServesOnlyOneVersion
  BY <1>1, <1>3
     DEF CInit, EngineInit, DrainInit, OneLiveAttempt, Live, DrainHeld, Serving,
         ServesOnlyOneVersion, MutationStates, PendingStates
<1>10. InEngine /\ RanBound /\ NoTrajectorySpansUpdate
  BY <1>1 DEF CInit, EngineInit, InEngine, RanBound, NoTrajectorySpansUpdate
<1> QED
  BY <1>1, <1>7, <1>8, <1>9, <1>10 DEF CInv, Around

(* Every step of a runner, and every step of the system.                   *)
LEMMA RunnerPreserves ==
  ASSUME CInv, IInv', NEW c \in Runners, RunnerStep(c)
  PROVE  CInv'
<1>1. "encoder" \in Caches /\ "mm" \in Caches
  BY DEF Caches
<1>2. CASE \/ RunnerBeginDrain(c) \/ RunnerResetAttempts(c) \/ RunnerStartAttempt(c)
           \/ RunnerPoll(c) \/ RunnerAbortAll(c) \/ RunnerReissue(c) \/ RunnerConfirmDrained(c)
  BY <1>2, BeginDrainPreserves, ResetAttemptsPreserves, StartAttemptPreserves, PollPreserves,
     AbortAllPreserves, ReissuePreserves, ConfirmDrainedPreserves
<1>3. CASE \/ RunnerBeginUpdate(c) \/ RunnerOpen(c) \/ RunnerLoad(c) \/ RunnerInstall(c)
           \/ RunnerFinish(c) \/ RunnerConfirmUpdated(c)
  BY <1>3, BeginUpdatePreserves, OpenPreserves, LoadPreserves, InstallPreserves, FinishPreserves,
     ConfirmUpdatedPreserves
<1>4. CASE \/ RunnerResetPrefix(c)
           \/ RunnerReset(c, "encoder", "reset_encoder", "reset_mm")
           \/ RunnerReset(c, "mm", "reset_mm", "confirm_invalidated")
           \/ RunnerConfirmInvalidated(c)
  BY <1>1, <1>4, ResetPrefixPreserves, OtherResetPreserves, ConfirmInvalidatedPreserves
<1>5. CASE \/ RunnerValidate(c) \/ RunnerConfirmValidated(c)
           \/ RunnerResume(c) \/ RunnerReadBack(c) \/ RunnerConfirmResumed(c)
  BY <1>5, ValidatePreserves, ConfirmValidatedPreserves, ResumePreserves, ReadBackPreserves,
     ConfirmResumedPreserves
<1> QED
  BY <1>2, <1>3, <1>4, <1>5 DEF RunnerStep

LEMMA StepCInv ==
  ASSUME SafeRedrain, CInv, [CNext]_allVars
  PROVE  CInv'
<1>1. IInv'
  BY ControllerInside
<1>2. ASSUME NEW c \in Runners,
             RunnerBootstrap(c) \/ RunnerNextTarget(c) \/ RunnerStep(c) \/ OperatorRedrain(c)
      PROVE  CInv'
  BY <1>1, <1>2, BootstrapPreserves, NextTargetPreserves, RunnerPreserves, RedrainPreserves
<1>3. CASE OperatorTaint \/ LatePauseArrives \/ UNCHANGED allVars
  BY <1>1, <1>3, TaintPreservesSystem, LatePausePreserves, StutterPreserves
<1>4. ASSUME NEW t \in Threads, DrainThread(t) PROVE CInv'
  BY <1>1, <1>4, DrainThreadPreserves
<1>5. ASSUME NEW r \in Rollouts,
             \/ ThreadAdmit(r) \/ ThreadSend(r) \/ RequestScheduled(r)
             \/ RequestFinishes(r) \/ ThreadObserve(r) \/ ThreadRelease(r)
      PROVE  CInv'
  BY <1>1, <1>5, AdmitPreserves, SendPreserves, SchedulePreserves, FinishesPreserves,
     ObservePreserves, ReleasePreserves
<1> QED
  BY <1>2, <1>3, <1>4, <1>5 DEF CNext

(* The invariant holds in every reachable state.                           *)
THEOREM CInductive ==
  ASSUME SafeRedrain
  PROVE  CSpec => []CInv
  BY InitCInv, StepCInv, PTL DEF CSpec

(* The values of the composed state: no verdict, answer or phase is ever   *)
(* one the code has no name for, and the attempts stay within their budget *)
(* (_start_attempt).                                                       *)
THEOREM SystemTypeCorrect ==
  ASSUME SafeRedrain
  PROVE  CSpec => []CTypeOK
<1>1. CInv => CTypeOK
  BY DEF CInv
<1> QED
  BY <1>1, CInductive, PTL

(* I2 end to end: the tokens of a rollout that is bound, or was when it    *)
(* was orphaned, were all generated under the weights of its binding       *)
(* (admit_rollout against run_cycle and the engine).                       *)
THEOREM NoRolloutIsMixed ==
  ASSUME SafeRedrain
  PROVE  CSpec => []NoMixedRollout
<1>1. CInv => NoMixedRollout
  BY DEF CInv, Around, RanBound, NoMixedRollout
<1> QED
  BY <1>1, CInductive, PTL

(* I3 and fail-closed: an engine that is not paused holds one complete set *)
(* of weights, and no cache holds anything other weights computed, in      *)
(* every state of the controller (run_cycle's order of load, reset, resume)*)
THEOREM EngineServesOneVersion ==
  ASSUME SafeRedrain
  PROVE  CSpec => []ServesOnlyOneVersion
<1>1. CInv => ServesOnlyOneVersion
  BY DEF CInv, Around
<1> QED
  BY <1>1, CInductive, PTL

(* I5 at the engine: between the proof of the drain and the resume the     *)
(* engine is paused and generates nothing (PAUSED_STATES).                 *)
THEOREM UpdatesArePaused ==
  ASSUME SafeRedrain
  PROVE  CSpec => []UpdatesUnderPause
<1>1. CInv => UpdatesUnderPause
  BY DEF CInv, Around, DrainHeld, Drained, UpdatesUnderPause, Where, MutationStates, PendingStates
<1> QED
  BY <1>1, CInductive, PTL

(* I1, I8: a READY controller's committed target is what the engine holds  *)
(* and says it holds, and the engine serves unless an abandoned pause has  *)
(* stopped it since (confirm_resumed).                                     *)
THEOREM ReadyIsTrue ==
  ASSUME SafeRedrain
  PROVE  CSpec => []ReadyServesCommitted
<1>1. CInv => ReadyServesCommitted
  BY DEF CInv, Around, Serving, ReadyServesCommitted, Where
<1> QED
  BY <1>1, CInductive, PTL

(* spans_an_update is False: the label a rollout thread reads before it    *)
(* releases its rollout is the version it is bound to.                     *)
THEOREM TrajectoriesSpanNoUpdate ==
  ASSUME SafeRedrain
  PROVE  CSpec => []NoTrajectorySpansUpdate
<1>1. CInv => NoTrajectorySpansUpdate
  BY DEF CInv, Around
<1> QED
  BY <1>1, CInductive, PTL

(* A live pause attempt is the only one and the current one, so that the   *)
(* verdict _pause_attempt writes is never that of another attempt.         *)
THEOREM OneAttemptAtATime ==
  ASSUME SafeRedrain
  PROVE  CSpec => []OneLiveAttempt
<1>1. CInv => OneLiveAttempt
  BY DEF CInv, Around
<1> QED
  BY <1>1, CInductive, PTL

(* A drain the runner saw COMPLETED is one: the engine is paused and runs  *)
(* nothing when the drain is confirmed (await_drain).                      *)
THEOREM CompletedDrainHolds ==
  ASSUME SafeRedrain
  PROVE  CSpec => []CompletedMeansDrained
<1>1. CInv => CompletedMeansDrained
  BY DEF CInv, Local, DrainOf, Drained, CompletedMeansDrained
<1> QED
  BY <1>1, CInductive, PTL

-----------------------------------------------------------------------------
(* Refinement.                                                             *)

(* The whole system takes only steps of the controller: whatever the       *)
(* runners, the adapter and the engine do, the evidence handed over is     *)
(* evidence, and no other path leads to the controller's state.            *)
THEOREM SystemRefinesController ==
  ASSUME SafeRedrain
  PROVE  CSpec => Spec
<1>1. CInit => Init
  BY DEF CInit
<1>2. CInv /\ [CNext]_allVars => [Next]_vars
  BY ControllerInside
<1> QED
  BY <1>1, <1>2, CInductive, PTL DEF CSpec, Spec

(* So the system implements the abstract service, as its controller does.  *)
THEOREM SystemRefinesService ==
  ASSUME SafeRedrain
  PROVE  CSpec => ImplementsVersionedServing
  BY SystemRefinesController, Refinement, PTL

=============================================================================
