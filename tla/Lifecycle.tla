----------------------------- MODULE Lifecycle ------------------------------
(***************************************************************************)
(* The lifecycle controller of src/rolloutcore/lifecycle.py: the single    *)
(* writer of the lifecycle state, of the committed and the pending target  *)
(* and of the rollout bindings.                                            *)
(*                                                                         *)
(* Every public method holds one re-entrant lock for its whole body        *)
(* (_locked), so a call is one step and the calls of the runner thread and *)
(* of the rollout threads interleave between steps.  A call that raises    *)
(* IllegalTransitionError, NotServingError, InvariantViolation,            *)
(* EvidenceNotReady or UnknownRolloutError changes nothing: it is a guard  *)
(* here.  A call that taints does change the state, and is a disjunct of   *)
(* its own.                                                                *)
(*                                                                         *)
(* The evidence a confirm_* method receives is chosen freely among all the *)
(* values its dataclass can hold: whatever an adapter reports, honest or   *)
(* not, the invariants below must survive it.  RolloutCycle.tla replaces   *)
(* that choice by the evidence a real adapter derives from an engine.      *)
(*                                                                         *)
(* Labels: WeightVersion n is written to the engine as "rc-n" and parses   *)
(* back to n, so a managed label IS its version number; every other string *)
(* ("default", a malformed "rc-x") is the single value Unmanaged.          *)
(***************************************************************************)
EXTENDS Naturals

CONSTANTS
    Rollouts,    \* request ids
    Identities,  \* weight identities (manifest digest and provenance)
    Versions,    \* generation numbers in play; the code allows every n >= 0
    None,        \* Python's None
    Unmanaged    \* an engine label that is not of the form rc-n

INITIAL_VERSION == 0

Labels  == Versions \cup {Unmanaged}
Targets == [version : Versions, identity : Identities]

ASSUME VersionsAssumption == Versions \subseteq Nat /\ INITIAL_VERSION \in Versions
ASSUME NoneAssumption     == None \notin Targets \cup Labels \cup Identities
ASSUME LabelAssumption    == Unmanaged \notin Versions

VARIABLES
    state,      \* _state
    current,    \* _current_target: the committed target, None before bootstrap
    pending,    \* _pending_target: the target of the open update
    active,     \* _active: active[r] is the target rollout r is bound to
    orphaned,   \* _orphaned: the bindings that were active at the taint
    taintedIn   \* _tainted_in_state (and _taint_reason, set with it)

vars == <<state, current, pending, active, orphaned, taintedIn>>

-----------------------------------------------------------------------------
(* States.                                                                 *)

LifecycleState ==
    {"UNINITIALIZED", "READY", "DRAINING", "QUIESCED", "UPDATING",
     "INVALIDATING", "VALIDATING", "RESUMING", "TAINTED"}

(* Mutant: the window for admission is opened before the commit.           *)
ADMITTING_TooEarly == {"READY", "RESUMING"}
ADMITTING_STATES          == {"READY"}
ROLLOUT_COMPLETION_STATES == {"READY", "DRAINING"}

(* The states in which an update target is pending, and those from the     *)
(* proof of the drain to the commit.                                       *)
PendingStates  == {"UPDATING", "INVALIDATING", "VALIDATING", "RESUMING"}
MutationStates == PendingStates \cup {"QUIESCED"}

NoRollouts == [r \in Rollouts |-> None]

Init ==
    /\ state = "UNINITIALIZED"
    /\ current = None
    /\ pending = None
    /\ active = NoRollouts
    /\ orphaned = NoRollouts
    /\ taintedIn = None

-----------------------------------------------------------------------------
(* Evidence: the values each dataclass of evidence.py can hold, and its    *)
(* failure_reason as a predicate.                                          *)

BootstrapEvidence ==
    [observed_engine_label : Labels, pre_seed_label : Labels \cup {None},
     weight_transfer_initialised : BOOLEAN, has_driver : BOOLEAN,
     weight_identity : Identities]

(* has_driver: weight_transfer_driver is not None.                         *)
BootstrapFails(e) ==
    \/ e.weight_transfer_initialised # e.has_driver
    \/ e.pre_seed_label = None
    \/ e.pre_seed_label \in Versions

(* engine_busy: engine_active_requests is neither None nor 0.              *)
DrainEvidence == [engine_drain_completed : BOOLEAN, engine_busy : BOOLEAN]

DrainFails(e) == ~e.engine_drain_completed \/ e.engine_busy

UpdateEvidence ==
    [target : Targets, weights_loaded : BOOLEAN, data_plane_complete : BOOLEAN,
     finish_acknowledged : BOOLEAN, observed_identity : Identities \cup {None}]

UpdateFails(e) ==
    \/ ~e.weights_loaded
    \/ ~e.data_plane_complete
    \/ ~e.finish_acknowledged
    \/ e.observed_identity \notin {None, e.target.identity}

InvalidateEvidence ==
    [prefix_cache_reset : BOOLEAN, encoder_cache_reset : BOOLEAN, mm_cache_reset : BOOLEAN]

InvalidateFails(e) ==
    ~(e.prefix_cache_reset /\ e.encoder_cache_reset /\ e.mm_cache_reset)

ValidateEvidence ==
    [target : Targets, observed_engine_label : Labels,
     is_paused : BOOLEAN, caches_still_clean : BOOLEAN]

ValidateFails(e) ==
    \/ e.observed_engine_label # e.target.version
    \/ ~e.is_paused
    \/ ~e.caches_still_clean

ResumeEvidence ==
    [target : Targets, resume_acknowledged : BOOLEAN, is_paused : BOOLEAN,
     observed_engine_label : Labels \cup {None}]

ResumeFails(e) ==
    \/ ~e.resume_acknowledged
    \/ e.is_paused
    \/ e.observed_engine_label \notin {None, e.target.version}

-----------------------------------------------------------------------------
(* The transition core.                                                    *)

Advance(from, to) == state = from /\ state' = to

(* Mutant: the bindings are cleared instead of kept for forensics.         *)
TaintWith_Discarding ==
    /\ state # "TAINTED"
    /\ state' = "TAINTED"
    /\ taintedIn' = state
    /\ active' = NoRollouts
    /\ pending' = None
    /\ UNCHANGED <<current, orphaned>>

(* Mutant: a later taint overwrites the first record.                      *)
TaintWith_NotIdempotent ==
    /\ state' = "TAINTED"
    /\ taintedIn' = state
    /\ orphaned' = active
    /\ active' = NoRollouts
    /\ pending' = None
    /\ UNCHANGED current

(* The active bindings become orphans, nothing is pending any more, and    *)
(* the first reason sticks.  A taint in TAINTED changes nothing.           *)
TaintWith ==
    /\ state # "TAINTED"
    /\ state' = "TAINTED"
    /\ taintedIn' = state
    /\ orphaned' = [r \in Rollouts |-> IF active[r] # None THEN active[r] ELSE orphaned[r]]
    /\ active' = NoRollouts
    /\ pending' = None
    /\ UNCHANGED current

(* Mutant: adopts whatever label the engine reports.                       *)
Initialize_AnyLabel(e) ==
    /\ ~BootstrapFails(e)
    /\ Advance("UNINITIALIZED", "READY")
    /\ current' = [version |-> e.observed_engine_label, identity |-> e.weight_identity]
    /\ UNCHANGED <<pending, active, orphaned, taintedIn>>

(* initialize: UNINITIALIZED -> READY.                                     *)
Initialize(e) ==
    /\ state = "UNINITIALIZED"
    /\ \/ /\ ~BootstrapFails(e)
          /\ e.observed_engine_label = INITIAL_VERSION
          /\ Advance("UNINITIALIZED", "READY")
          /\ current' = [version |-> INITIAL_VERSION, identity |-> e.weight_identity]
          /\ UNCHANGED <<pending, active, orphaned, taintedIn>>
       \/ /\ BootstrapFails(e) \/ e.observed_engine_label # INITIAL_VERSION
          /\ TaintWith

(* Mutant: a drain that is under way may be begun again.                   *)
BeginDrain_Again ==
    /\ state \in {"READY", "DRAINING"}
    /\ state' = "DRAINING"
    /\ UNCHANGED <<current, pending, active, orphaned, taintedIn>>

(* begin_drain: READY -> DRAINING.                                         *)
BeginDrain ==
    /\ Advance("READY", "DRAINING")
    /\ UNCHANGED <<current, pending, active, orphaned, taintedIn>>

(* Mutant: the engine's word is taken for the rollouts too.                *)
ConfirmDrained_ByEngineAlone(e) ==
    /\ ~DrainFails(e)
    /\ Advance("DRAINING", "QUIESCED")
    /\ UNCHANGED <<current, pending, active, orphaned, taintedIn>>

(* Mutant: the drain disagreement is taken for "not yet".                  *)
ConfirmDrained_Patient(e) ==
    /\ active = NoRollouts
    /\ ~DrainFails(e)
    /\ Advance("DRAINING", "QUIESCED")
    /\ UNCHANGED <<current, pending, active, orphaned, taintedIn>>

(* confirm_drained: DRAINING -> QUIESCED.  An uncompleted drain raises     *)
(* EvidenceNotReady; a completed one while a rollout is still counted is   *)
(* the drain disagreement.                                                 *)
ConfirmDrained(e) ==
    /\ state = "DRAINING"
    /\ e.engine_drain_completed
    /\ \/ /\ active = NoRollouts
          /\ ~DrainFails(e)
          /\ Advance("DRAINING", "QUIESCED")
          /\ UNCHANGED <<current, pending, active, orphaned, taintedIn>>
       \/ /\ active # NoRollouts \/ DrainFails(e)
          /\ TaintWith

(* Mutant: the committed generation may be installed again.                *)
BeginUpdate_NotOlder(t) ==
    /\ current # None
    /\ t.version >= current.version
    /\ Advance("QUIESCED", "UPDATING")
    /\ pending' = t
    /\ UNCHANGED <<current, active, orphaned, taintedIn>>

(* begin_update: QUIESCED -> UPDATING, for a strictly newer generation.    *)
BeginUpdate(t) ==
    /\ current # None
    /\ t.version > current.version
    /\ Advance("QUIESCED", "UPDATING")
    /\ pending' = t
    /\ UNCHANGED <<current, active, orphaned, taintedIn>>

(* A confirmation of the open update advances when the evidence is sound   *)
(* and taints when it is not.                                              *)
Confirm(from, to, sound) ==
    /\ state = from
    /\ pending # None
    /\ \/ /\ sound
          /\ Advance(from, to)
          /\ UNCHANGED <<current, pending, active, orphaned, taintedIn>>
       \/ ~sound /\ TaintWith

(* Mutant: the weights are loaded, so the target is current.               *)
ConfirmUpdated_Publishing(e) ==
    /\ pending # None
    /\ e.target = pending
    /\ ~UpdateFails(e)
    /\ Advance("UPDATING", "INVALIDATING")
    /\ current' = pending
    /\ UNCHANGED <<pending, active, orphaned, taintedIn>>

(* Mutant: a sound update goes straight to validation.                     *)
ConfirmUpdated_SkippingCaches(e) ==
    Confirm("UPDATING", "VALIDATING", e.target = pending /\ ~UpdateFails(e))

ConfirmUpdated(e) ==
    Confirm("UPDATING", "INVALIDATING", e.target = pending /\ ~UpdateFails(e))

ConfirmInvalidated(e) ==
    Confirm("INVALIDATING", "VALIDATING", ~InvalidateFails(e))

ConfirmValidated(e) ==
    Confirm("VALIDATING", "RESUMING", e.target = pending /\ ~ValidateFails(e))

(* Mutant: the target is committed before its evidence is examined.        *)
ConfirmResumed_CommitFirst(e) ==
    /\ state = "RESUMING"
    /\ pending # None
    /\ current' = pending
    /\ pending' = None
    /\ IF e.target = pending /\ ~ResumeFails(e)
       THEN state' = "READY" /\ UNCHANGED <<active, orphaned, taintedIn>>
       ELSE state' = "TAINTED" /\ taintedIn' = state /\ UNCHANGED <<active, orphaned>>

(* Mutant: a resume that was not acknowledged is trusted.                  *)
ConfirmResumed_OnTrust(e) ==
    /\ e.target = pending
    /\ Advance("RESUMING", "READY")
    /\ current' = pending
    /\ pending' = None
    /\ UNCHANGED <<active, orphaned, taintedIn>>

(* confirm_resumed: RESUMING -> READY, the commit point.                   *)
ConfirmResumed(e) ==
    /\ state = "RESUMING"
    /\ pending # None
    /\ \/ /\ e.target = pending
          /\ ~ResumeFails(e)
          /\ Advance("RESUMING", "READY")
          /\ current' = pending
          /\ pending' = None
          /\ UNCHANGED <<active, orphaned, taintedIn>>
       \/ /\ e.target # pending \/ ResumeFails(e)
          /\ TaintWith

(* taint: an operator abort, or the runner's reaction to an adapter call   *)
(* with an unknown outcome; legal in every state.                          *)
Taint == TaintWith

-----------------------------------------------------------------------------
(* Rollouts.                                                               *)

AdmitRollout(r) ==
    /\ state \in ADMITTING_STATES
    /\ current # None
    /\ active[r] = None
    /\ active' = [active EXCEPT ![r] = current]
    /\ UNCHANGED <<state, current, pending, orphaned, taintedIn>>

(* finish_rollout and abort_rollout differ in the journal only.            *)
ReleaseRollout(r) ==
    /\ state \in ROLLOUT_COMPLETION_STATES
    /\ active[r] # None
    /\ active' = [active EXCEPT ![r] = None]
    /\ UNCHANGED <<state, current, pending, orphaned, taintedIn>>

Next ==
    \/ \E e \in BootstrapEvidence : Initialize(e)
    \/ BeginDrain
    \/ \E e \in DrainEvidence : ConfirmDrained(e)
    \/ \E t \in Targets : BeginUpdate(t)
    \/ \E e \in UpdateEvidence : ConfirmUpdated(e)
    \/ \E e \in InvalidateEvidence : ConfirmInvalidated(e)
    \/ \E e \in ValidateEvidence : ConfirmValidated(e)
    \/ \E e \in ResumeEvidence : ConfirmResumed(e)
    \/ Taint
    \/ \E r \in Rollouts : AdmitRollout(r)
    \/ \E r \in Rollouts : ReleaseRollout(r)

Spec == Init /\ [][Next]_vars

-----------------------------------------------------------------------------
(* Properties.                                                             *)

(* The values _state, the targets and the bindings range over.             *)
TypeOK ==
    /\ state \in LifecycleState
    /\ current \in Targets \cup {None}
    /\ pending \in Targets \cup {None}
    /\ active \in [Rollouts -> Targets \cup {None}]
    /\ orphaned \in [Rollouts -> Targets \cup {None}]
    /\ taintedIn \in LifecycleState \cup {None}

(* I5: from the moment the drain is proved until the commit, that is, in   *)
(* every state in which the runner may mutate the engine, no rollout is    *)
(* active, although rollout threads admit and release concurrently.        *)
DrainBeforeMutation ==
    state \in MutationStates => active = NoRollouts

(* I2: every active rollout is bound to the target that is committed now,  *)
(* not only to the one committed when it was admitted: no update commits   *)
(* under a live rollout.                                                   *)
BoundToCommitted ==
    \A r \in Rollouts : active[r] # None => active[r] = current

(* I1b and I6: a target is pending exactly while an update is open, it is  *)
(* strictly newer than the committed one, and a taint leaves none behind.  *)
PendingIsNewer ==
    /\ (pending # None) <=> (state \in PendingStates)
    /\ pending # None => pending.version > current.version

(* Amendment 5: a taint is what creates orphans, and it can only orphan a  *)
(* rollout while READY or DRAINING, with the binding to the target that    *)
(* was, and stays, the committed one.  So the forensic record never names  *)
(* a target an orphan did not run on.                                      *)
OrphansPredateUpdate ==
    \A r \in Rollouts : orphaned[r] # None =>
        /\ state = "TAINTED"
        /\ taintedIn \in ROLLOUT_COMPLETION_STATES
        /\ orphaned[r] = current

(* I1: the committed target changes at bootstrap and at the end of a       *)
(* complete update only, to the target that was pending, and upwards.      *)
CommitStep ==
    current' # current =>
        \/ /\ current = None
           /\ state = "UNINITIALIZED" /\ state' = "READY"
           /\ current'.version = INITIAL_VERSION
        \/ /\ current # None
           /\ state = "RESUMING" /\ state' = "READY"
           /\ current' = pending
           /\ current'.version > current.version
CommitsAtomically == [][CommitStep]_vars

(* A binding never changes and never silently disappears: it persists, it  *)
(* is released by its owner while READY or DRAINING with no other rollout  *)
(* affected, or it is orphaned unchanged by a taint.                       *)
BindingStep ==
    \A r \in Rollouts : active[r] # None /\ active'[r] # active[r] =>
        /\ active'[r] = None
        /\ \/ /\ state' = state /\ state \in ROLLOUT_COMPLETION_STATES
              /\ \A q \in Rollouts \ {r} : active'[q] = active[q]
           \/ state' = "TAINTED" /\ orphaned'[r] = active[r]
NoRolloutLost == [][BindingStep]_vars

(* I10: TAINTED is absorbing and a later taint keeps the first record.     *)
TaintStep == state = "TAINTED" => UNCHANGED vars
TaintIsTerminal == [][TaintStep]_vars

-----------------------------------------------------------------------------
(* The controller implements VersionedServing: the lifecycle states are    *)
(* what it takes to make Publish one indivisible step.                     *)
Promise ==
    INSTANCE VersionedServing WITH
        published <- current,
        open      <- (state = "READY"),
        failed    <- (state = "TAINTED"),
        bound     <- active

ImplementsVersionedServing == Promise!Spec

=============================================================================
