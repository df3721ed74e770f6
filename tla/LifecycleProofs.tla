-------------------------- MODULE LifecycleProofs ---------------------------
(***************************************************************************)
(* Theorems about the controller of Lifecycle.tla, for every set of        *)
(* rollouts, identities and generations.                                   *)
(*                                                                         *)
(* The conjuncts of IInv need one another: the drain check of              *)
(* confirm_drained establishes DrainBeforeMutation, which is what makes    *)
(* BoundToCommitted survive the commit; PendingIsNewer is what makes the   *)
(* commit an upward step; and OrphansPredateUpdate needs both, because a   *)
(* taint copies the active bindings into the forensic record.              *)
(***************************************************************************)
EXTENDS Lifecycle, TLAPS

(* What the controller holds before bootstrap.                             *)
FreshUntilBootstrap ==
    /\ state = "UNINITIALIZED" => current = None /\ active = NoRollouts
    /\ current = None => active = NoRollouts
    /\ state \notin {"UNINITIALIZED", "TAINTED"} => current # None
    /\ state = "TAINTED" => active = NoRollouts
    /\ state # "TAINTED" => orphaned = NoRollouts

IInv ==
    /\ TypeOK
    /\ FreshUntilBootstrap
    /\ DrainBeforeMutation
    /\ BoundToCommitted
    /\ PendingIsNewer
    /\ OrphansPredateUpdate

-----------------------------------------------------------------------------
(* Facts about one step that several theorems use.                         *)

(* None is not a target, so "no target" and "some target" never coincide.  *)
LEMMA NoneIsNoTarget == \A t \in Targets : t # None
  BY NoneAssumption

(* A taint keeps every variable in its type, whatever state it is taken    *)
(* in (_taint_with is reached from every transition method).               *)
LEMMA TaintType ==
  ASSUME TypeOK, TaintWith
  PROVE  TypeOK'
  BY DEF TypeOK, TaintWith, LifecycleState, NoRollouts

(* The target committed at bootstrap is a target.                          *)
LEMMA InitialTarget ==
  ASSUME NEW e \in BootstrapEvidence
  PROVE  [version |-> INITIAL_VERSION, identity |-> e.weight_identity] \in Targets
  BY VersionsAssumption DEF BootstrapEvidence, Targets

(* A confirmation that advances moves the state only.                      *)
LEMMA ConfirmType ==
  ASSUME TypeOK, NEW from, NEW to \in LifecycleState, NEW sound \in BOOLEAN,
         Confirm(from, to, sound)
  PROVE  TypeOK'
  <1>1. CASE state' = to /\ UNCHANGED <<current, pending, active, orphaned, taintedIn>>
    BY <1>1 DEF TypeOK
  <1>2. CASE TaintWith
    BY <1>2, TaintType
  <1> QED
    BY <1>1, <1>2 DEF Confirm, Advance

-----------------------------------------------------------------------------
(* _state, the targets and the bindings only ever hold values of their     *)
(* type, whatever evidence the adapters report.                            *)
THEOREM TypeCorrect == Spec => []TypeOK
<1>1. Init => TypeOK
  BY DEF Init, TypeOK, LifecycleState, NoRollouts
<1>2. TypeOK /\ [Next]_vars => TypeOK'
  <2> SUFFICES ASSUME TypeOK, [Next]_vars PROVE TypeOK'
    OBVIOUS
  <2>1. ASSUME NEW e \in BootstrapEvidence, Initialize(e) PROVE TypeOK'
    <3>1. CASE TaintWith
      BY <3>1, TaintType
    <3>2. CASE ~TaintWith
      BY <3>2, <2>1, InitialTarget DEF Initialize, Advance, TypeOK, LifecycleState
    <3> QED BY <3>1, <3>2
  <2>2. CASE BeginDrain
    BY <2>2 DEF BeginDrain, Advance, TypeOK, LifecycleState
  <2>3. ASSUME NEW e \in DrainEvidence, ConfirmDrained(e) PROVE TypeOK'
    <3>1. CASE TaintWith
      BY <3>1, TaintType
    <3>2. CASE ~TaintWith
      BY <3>2, <2>3 DEF ConfirmDrained, Advance, TypeOK, LifecycleState
    <3> QED BY <3>1, <3>2
  <2>4. ASSUME NEW t \in Targets, BeginUpdate(t) PROVE TypeOK'
    BY <2>4 DEF BeginUpdate, Advance, TypeOK, LifecycleState
  <2>5. ASSUME NEW e \in UpdateEvidence, ConfirmUpdated(e) PROVE TypeOK'
    BY <2>5, ConfirmType DEF ConfirmUpdated, LifecycleState
  <2>6. ASSUME NEW e \in InvalidateEvidence, ConfirmInvalidated(e) PROVE TypeOK'
    BY <2>6, ConfirmType DEF ConfirmInvalidated, LifecycleState
  <2>7. ASSUME NEW e \in ValidateEvidence, ConfirmValidated(e) PROVE TypeOK'
    BY <2>7, ConfirmType DEF ConfirmValidated, LifecycleState
  <2>8. ASSUME NEW e \in ResumeEvidence, ConfirmResumed(e) PROVE TypeOK'
    <3>1. CASE TaintWith
      BY <3>1, TaintType
    <3>2. CASE ~TaintWith
      BY <3>2, <2>8 DEF ConfirmResumed, Advance, TypeOK, LifecycleState
    <3> QED BY <3>1, <3>2
  <2>9. CASE Taint
    BY <2>9, TaintType DEF Taint
  <2>10. ASSUME NEW r \in Rollouts, AdmitRollout(r) PROVE TypeOK'
    BY <2>10 DEF AdmitRollout, TypeOK
  <2>11. ASSUME NEW r \in Rollouts, ReleaseRollout(r) PROVE TypeOK'
    BY <2>11 DEF ReleaseRollout, TypeOK
  <2>12. CASE UNCHANGED vars
    BY <2>12 DEF vars, TypeOK
  <2> QED
    BY <2>1, <2>2, <2>3, <2>4, <2>5, <2>6, <2>7, <2>8, <2>9, <2>10, <2>11, <2>12 DEF Next
<1> QED
  BY <1>1, <1>2, PTL DEF Spec


-----------------------------------------------------------------------------
(* The inductive invariant.                                                *)

(* A taint preserves the invariant from any state but TAINTED: bindings    *)
(* exist in READY and DRAINING only, so the forensic record it writes      *)
(* names the committed target.                                             *)
LEMMA TaintPreserves ==
  ASSUME IInv, TaintWith
  PROVE  IInv'
  <1>1. TypeOK'
    BY TaintType DEF IInv
  <1>2. FreshUntilBootstrap'
    BY DEF IInv, FreshUntilBootstrap, TaintWith, NoRollouts
  <1>3. DrainBeforeMutation' /\ BoundToCommitted' /\ PendingIsNewer'
    BY DEF TaintWith, DrainBeforeMutation, BoundToCommitted, PendingIsNewer,
           MutationStates, PendingStates, NoRollouts
  <1>4. OrphansPredateUpdate'
    <2> SUFFICES ASSUME NEW r \in Rollouts, orphaned'[r] # None
                 PROVE  /\ taintedIn' \in ROLLOUT_COMPLETION_STATES
                        /\ orphaned'[r] = current'
      BY DEF OrphansPredateUpdate, TaintWith
    <2>1. orphaned'[r] = active[r] /\ active[r] # None
      BY DEF TaintWith, IInv, FreshUntilBootstrap, NoRollouts
    <2>2. active[r] = current
      BY <2>1 DEF IInv, BoundToCommitted
    <2>3. active # NoRollouts
      BY <2>1 DEF NoRollouts
    <2>4. state \in ROLLOUT_COMPLETION_STATES
      BY <2>3 DEF IInv, TypeOK, LifecycleState, FreshUntilBootstrap, DrainBeforeMutation,
                  MutationStates, PendingStates, ROLLOUT_COMPLETION_STATES
    <2> QED
      BY <2>1, <2>2, <2>4 DEF TaintWith
  <1> QED
    BY <1>1, <1>2, <1>3, <1>4 DEF IInv

(* A confirmation of the open update, advancing or tainting, preserves it. *)
LEMMA ConfirmPreserves ==
  ASSUME IInv, NEW from \in PendingStates, NEW to \in PendingStates,
         NEW sound \in BOOLEAN, Confirm(from, to, sound)
  PROVE  IInv'
  <1>1. CASE TaintWith
    BY <1>1, TaintPreserves
  <1>2. CASE ~TaintWith
    <2>1. /\ state = from /\ state' = to
          /\ UNCHANGED <<current, pending, active, orphaned, taintedIn>>
      BY <1>2 DEF Confirm, Advance
    <2> QED
      BY <2>1 DEF IInv, TypeOK, LifecycleState, FreshUntilBootstrap, DrainBeforeMutation,
                  BoundToCommitted, PendingIsNewer, OrphansPredateUpdate,
                  MutationStates, PendingStates, ROLLOUT_COMPLETION_STATES
  <1> QED
    BY <1>1, <1>2

LEMMA InitInv == Init => IInv
  BY DEF Init, IInv, TypeOK, LifecycleState, FreshUntilBootstrap, DrainBeforeMutation,
         BoundToCommitted, PendingIsNewer, OrphansPredateUpdate,
         MutationStates, PendingStates, NoRollouts

(* Every step of the controller preserves the invariant.                   *)
LEMMA NextPreserves ==
  ASSUME IInv, [Next]_vars
  PROVE  IInv'
  <1> USE DEF IInv
  <1>1. ASSUME NEW e \in BootstrapEvidence, Initialize(e) PROVE IInv'
    <2>1. CASE TaintWith
      BY <2>1, TaintPreserves
    <2>2. CASE ~TaintWith
      <3>1. /\ state = "UNINITIALIZED" /\ state' = "READY"
            /\ current' \in Targets
            /\ UNCHANGED <<pending, active, orphaned, taintedIn>>
        BY <2>2, <1>1, InitialTarget DEF Initialize, Advance
      <3>2. active' = NoRollouts
        BY <3>1 DEF FreshUntilBootstrap
      <3> QED
        BY <3>1, <3>2, NoneIsNoTarget
           DEF TypeOK, LifecycleState, FreshUntilBootstrap, DrainBeforeMutation,
               BoundToCommitted, PendingIsNewer, OrphansPredateUpdate,
               MutationStates, PendingStates, NoRollouts
    <2> QED BY <2>1, <2>2
  <1>2. CASE BeginDrain
    BY <1>2 DEF BeginDrain, Advance, TypeOK, LifecycleState, FreshUntilBootstrap,
                DrainBeforeMutation, BoundToCommitted, PendingIsNewer,
                OrphansPredateUpdate, MutationStates, PendingStates
  <1>3. ASSUME NEW e \in DrainEvidence, ConfirmDrained(e) PROVE IInv'
    <2>1. CASE TaintWith
      BY <2>1, TaintPreserves
    <2>2. CASE ~TaintWith
      <3>1. /\ state = "DRAINING" /\ state' = "QUIESCED" /\ active = NoRollouts
            /\ UNCHANGED <<current, pending, active, orphaned, taintedIn>>
        BY <2>2, <1>3 DEF ConfirmDrained, Advance
      <3> QED
        BY <3>1 DEF TypeOK, LifecycleState, FreshUntilBootstrap, DrainBeforeMutation,
                    BoundToCommitted, PendingIsNewer, OrphansPredateUpdate,
                    MutationStates, PendingStates
    <2> QED BY <2>1, <2>2
  <1>4. ASSUME NEW t \in Targets, BeginUpdate(t) PROVE IInv'
    <2>1. /\ state = "QUIESCED" /\ state' = "UPDATING" /\ pending' = t
          /\ t.version > current.version
          /\ UNCHANGED <<current, active, orphaned, taintedIn>>
      BY <1>4 DEF BeginUpdate, Advance
    <2> QED
      BY <2>1, NoneIsNoTarget
         DEF TypeOK, LifecycleState, FreshUntilBootstrap, DrainBeforeMutation,
             BoundToCommitted, PendingIsNewer, OrphansPredateUpdate,
             MutationStates, PendingStates
  <1>5. ASSUME NEW e \in UpdateEvidence, ConfirmUpdated(e) PROVE IInv'
    BY <1>5, ConfirmPreserves DEF ConfirmUpdated, PendingStates
  <1>6. ASSUME NEW e \in InvalidateEvidence, ConfirmInvalidated(e) PROVE IInv'
    BY <1>6, ConfirmPreserves DEF ConfirmInvalidated, PendingStates
  <1>7. ASSUME NEW e \in ValidateEvidence, ConfirmValidated(e) PROVE IInv'
    BY <1>7, ConfirmPreserves DEF ConfirmValidated, PendingStates
  <1>8. ASSUME NEW e \in ResumeEvidence, ConfirmResumed(e) PROVE IInv'
    <2>1. CASE TaintWith
      BY <2>1, TaintPreserves
    <2>2. CASE ~TaintWith
      <3>1. /\ state = "RESUMING" /\ state' = "READY"
            /\ current' = pending /\ pending # None /\ pending' = None
            /\ UNCHANGED <<active, orphaned, taintedIn>>
        BY <2>2, <1>8 DEF ConfirmResumed, Advance
      <3>2. active' = NoRollouts
        BY <3>1 DEF DrainBeforeMutation, MutationStates, PendingStates
      <3> QED
        BY <3>1, <3>2
           DEF TypeOK, LifecycleState, FreshUntilBootstrap, DrainBeforeMutation,
               BoundToCommitted, PendingIsNewer, OrphansPredateUpdate,
               MutationStates, PendingStates, NoRollouts
    <2> QED BY <2>1, <2>2
  <1>9. CASE Taint
    BY <1>9, TaintPreserves DEF Taint
  <1>10. ASSUME NEW r \in Rollouts, AdmitRollout(r) PROVE IInv'
    <2>1. /\ state = "READY" /\ current # None
          /\ active' = [active EXCEPT ![r] = current]
          /\ UNCHANGED <<state, current, pending, orphaned, taintedIn>>
      BY <1>10 DEF AdmitRollout, ADMITTING_STATES
    <2> QED
      BY <2>1 DEF TypeOK, FreshUntilBootstrap, DrainBeforeMutation, BoundToCommitted,
                  PendingIsNewer, OrphansPredateUpdate, MutationStates, PendingStates
  <1>11. ASSUME NEW r \in Rollouts, ReleaseRollout(r) PROVE IInv'
    <2>1. /\ state \in {"READY", "DRAINING"}
          /\ active' = [active EXCEPT ![r] = None]
          /\ UNCHANGED <<state, current, pending, orphaned, taintedIn>>
      BY <1>11 DEF ReleaseRollout, ROLLOUT_COMPLETION_STATES
    <2> QED
      BY <2>1 DEF TypeOK, FreshUntilBootstrap, DrainBeforeMutation, BoundToCommitted,
                  PendingIsNewer, OrphansPredateUpdate, MutationStates, PendingStates
  <1>12. CASE UNCHANGED vars
    BY <1>12 DEF vars, TypeOK, FreshUntilBootstrap, DrainBeforeMutation, BoundToCommitted,
                 PendingIsNewer, OrphansPredateUpdate
  <1> QED
    BY <1>1, <1>2, <1>3, <1>4, <1>5, <1>6, <1>7, <1>8, <1>9, <1>10, <1>11, <1>12 DEF Next

(* The invariant holds in every reachable state.                           *)
THEOREM Inductive == Spec => []IInv
  BY InitInv, NextPreserves, PTL DEF Spec

-----------------------------------------------------------------------------
(* The properties of Lifecycle.tla.                                        *)

(* I5 (confirm_drained): no rollout is active in any state in which the    *)
(* runner may mutate the engine.                                           *)
THEOREM DrainCorrect == Spec => []DrainBeforeMutation
  BY Inductive, PTL DEF IInv

(* I2 (admit_rollout, confirm_resumed): an active rollout is bound to the  *)
(* target that is committed now.                                           *)
THEOREM BindingCorrect == Spec => []BoundToCommitted
  BY Inductive, PTL DEF IInv

(* I1b, I6 (begin_update, _taint_with): exactly an open update has a       *)
(* pending target, and it is newer than the committed one.                 *)
THEOREM PendingCorrect == Spec => []PendingIsNewer
  BY Inductive, PTL DEF IInv

(* Amendment 5 (_taint_with): orphans ran on the committed target.         *)
THEOREM OrphansCorrect == Spec => []OrphansPredateUpdate
  BY Inductive, PTL DEF IInv

(* I1: the committed target changes only in initialize and at the end of a *)
(* complete update (confirm_resumed), to the pending target and upwards.   *)
THEOREM CommitCorrect == Spec => CommitsAtomically
<1>1. IInv /\ [Next]_vars => [CommitStep]_vars
  <2> SUFFICES ASSUME IInv, Next, current' # current PROVE CommitStep
    BY DEF CommitStep
  <2>1. ASSUME NEW e \in BootstrapEvidence, Initialize(e) PROVE CommitStep
    BY <2>1 DEF Initialize, Advance, TaintWith, CommitStep, IInv, FreshUntilBootstrap
  <2>2. ASSUME NEW e \in ResumeEvidence, ConfirmResumed(e) PROVE CommitStep
    <3>1. /\ state = "RESUMING" /\ state' = "READY"
          /\ current' = pending /\ pending # None
      BY <2>2 DEF ConfirmResumed, Advance, TaintWith
    <3>2. current # None /\ pending.version > current.version
      BY <3>1 DEF IInv, FreshUntilBootstrap, PendingIsNewer
    <3> QED BY <3>1, <3>2 DEF CommitStep
  <2>3. ~BeginDrain /\ ~Taint
    BY DEF BeginDrain, Taint, TaintWith
  <2>4. ASSUME NEW e \in DrainEvidence PROVE ~ConfirmDrained(e)
    BY DEF ConfirmDrained, TaintWith
  <2>5. ASSUME NEW t \in Targets PROVE ~BeginUpdate(t)
    BY DEF BeginUpdate
  <2>6. ASSUME NEW from, NEW to, NEW sound PROVE ~Confirm(from, to, sound)
    BY DEF Confirm, TaintWith
  <2>7. ASSUME NEW r \in Rollouts PROVE ~AdmitRollout(r) /\ ~ReleaseRollout(r)
    BY DEF AdmitRollout, ReleaseRollout
  <2> QED
    BY <2>1, <2>2, <2>3, <2>4, <2>5, <2>6, <2>7
       DEF Next, ConfirmUpdated, ConfirmInvalidated, ConfirmValidated
<1> QED
  BY <1>1, Inductive, PTL DEF Spec, CommitsAtomically

(* A taint orphans every active rollout with its binding unchanged.        *)
LEMMA TaintKeepsBindings ==
  ASSUME TaintWith
  PROVE  BindingStep
  BY DEF TaintWith, BindingStep, NoRollouts

(* I2 and amendment 5 (admit_rollout, _release_rollout, _taint_with): a    *)
(* binding persists, is released by its owner, or is orphaned unchanged.   *)
THEOREM BindingsKept == Spec => NoRolloutLost
<1>1. IInv /\ [Next]_vars => [BindingStep]_vars
  <2> SUFFICES ASSUME IInv, Next PROVE BindingStep
    BY DEF vars
  <2>1. CASE TaintWith
    BY <2>1, TaintKeepsBindings
  <2>2. CASE UNCHANGED active
    BY <2>2 DEF BindingStep
  <2>3. ASSUME NEW r \in Rollouts, AdmitRollout(r) PROVE BindingStep
    BY <2>3 DEF AdmitRollout, BindingStep, IInv, TypeOK
  <2>4. ASSUME NEW r \in Rollouts, ReleaseRollout(r) PROVE BindingStep
    BY <2>4 DEF ReleaseRollout, BindingStep, IInv, TypeOK
  <2>5. \/ TaintWith \/ UNCHANGED active
        \/ \E r \in Rollouts : AdmitRollout(r) \/ ReleaseRollout(r)
    BY DEF Next, Initialize, BeginDrain, ConfirmDrained, BeginUpdate, Confirm,
           ConfirmUpdated, ConfirmInvalidated, ConfirmValidated, ConfirmResumed, Taint
  <2> QED
    BY <2>1, <2>2, <2>3, <2>4, <2>5
<1> QED
  BY <1>1, Inductive, PTL DEF Spec, NoRolloutLost

(* I10 (LEGAL_TRANSITIONS has no edge out of TAINTED, and _taint_with is   *)
(* idempotent): nothing changes in a tainted controller.                   *)
THEOREM TaintTerminal == Spec => TaintIsTerminal
<1>1. [Next]_vars => [TaintStep]_vars
  <2> SUFFICES ASSUME state = "TAINTED", Next PROVE FALSE
    BY DEF TaintStep
  <2> QED
    BY DEF Next, Initialize, BeginDrain, ConfirmDrained, BeginUpdate, Confirm,
           ConfirmUpdated, ConfirmInvalidated, ConfirmValidated, ConfirmResumed, Taint,
           TaintWith, Advance, AdmitRollout, ReleaseRollout,
           ADMITTING_STATES, ROLLOUT_COMPLETION_STATES
<1> QED
  BY <1>1, PTL DEF Spec, TaintIsTerminal

-----------------------------------------------------------------------------
(* Refinement.                                                             *)

(* A taint is the failure of the abstract service.                         *)
LEMMA TaintFails ==
  ASSUME TaintWith
  PROVE  Promise!Fail
  BY DEF TaintWith, Promise!Fail, NoRollouts

(* Lifecycle implements VersionedServing: initialize and confirm_resumed   *)
(* are its Publish, begin_drain its Close, and the six states in between   *)
(* are invisible to whoever owns the rollouts.                             *)
THEOREM Refinement == Spec => ImplementsVersionedServing
<1>1. Init => Promise!Init
  BY DEF Init, Promise!Init, NoRollouts
<1>2. IInv /\ IInv' /\ [Next]_vars => [Promise!Next]_Promise!vars
  <2> SUFFICES ASSUME IInv, IInv', [Next]_vars PROVE [Promise!Next]_Promise!vars
    OBVIOUS
  <2>1. CASE TaintWith
    BY <2>1, TaintFails DEF Promise!Next
  <2>3. ASSUME NEW e \in BootstrapEvidence, Initialize(e), ~TaintWith
        PROVE  Promise!Next
    <3>1. /\ state = "UNINITIALIZED" /\ state' = "READY" /\ current' \in Targets
          /\ UNCHANGED active
      BY <2>3, InitialTarget DEF Initialize, Advance
    <3>2. current = None /\ active = NoRollouts
      BY <3>1 DEF IInv, FreshUntilBootstrap
    <3>3. Promise!Publish(current')
      BY <3>1, <3>2 DEF Promise!Publish, Promise!NothingBound, Promise!Newer, NoRollouts
    <3> QED
      BY <3>1, <3>3 DEF Promise!Next
  <2>4. ASSUME NEW e \in ResumeEvidence, ConfirmResumed(e), ~TaintWith
        PROVE  Promise!Next
    <3>1. /\ state = "RESUMING" /\ state' = "READY" /\ current' = pending
          /\ pending # None /\ UNCHANGED active
      BY <2>4 DEF ConfirmResumed, Advance
    <3>2. active = NoRollouts /\ pending \in Targets /\ pending.version > current.version
      BY <3>1 DEF IInv, TypeOK, DrainBeforeMutation, PendingIsNewer, MutationStates,
                  PendingStates
    <3>3. Promise!Publish(pending)
      BY <3>1, <3>2 DEF Promise!Publish, Promise!NothingBound, Promise!Newer, NoRollouts
    <3> QED
      BY <3>2, <3>3 DEF Promise!Next
  <2>5. CASE BeginDrain
    BY <2>5 DEF BeginDrain, Advance, Promise!Close, Promise!Next
  <2>6. ASSUME NEW r \in Rollouts, AdmitRollout(r) PROVE Promise!Next
    BY <2>6 DEF AdmitRollout, ADMITTING_STATES, Promise!Admit, Promise!Next
  <2>7. ASSUME NEW r \in Rollouts, ReleaseRollout(r) PROVE Promise!Next
    BY <2>7 DEF ReleaseRollout, Promise!Complete, Promise!Next
  <2>8. ASSUME NEW e \in DrainEvidence, ConfirmDrained(e), ~TaintWith
        PROVE  UNCHANGED Promise!vars
    BY <2>8 DEF ConfirmDrained, Advance, Promise!vars
  <2>9. ASSUME NEW t \in Targets, BeginUpdate(t) PROVE UNCHANGED Promise!vars
    BY <2>9 DEF BeginUpdate, Advance, Promise!vars
  <2>10. ASSUME NEW from \in PendingStates, NEW to \in PendingStates, NEW sound \in BOOLEAN,
                Confirm(from, to, sound), ~TaintWith
         PROVE  UNCHANGED Promise!vars
    BY <2>10 DEF Confirm, Advance, PendingStates, Promise!vars
  <2>11. ASSUME NEW e \in UpdateEvidence, ConfirmUpdated(e), ~TaintWith
         PROVE  UNCHANGED Promise!vars
    BY <2>10, <2>11 DEF ConfirmUpdated, PendingStates
  <2>12. ASSUME NEW e \in InvalidateEvidence, ConfirmInvalidated(e), ~TaintWith
         PROVE  UNCHANGED Promise!vars
    BY <2>10, <2>12 DEF ConfirmInvalidated, PendingStates
  <2>13. ASSUME NEW e \in ValidateEvidence, ConfirmValidated(e), ~TaintWith
         PROVE  UNCHANGED Promise!vars
    BY <2>10, <2>13 DEF ConfirmValidated, PendingStates
  <2>14. CASE UNCHANGED vars
    BY <2>14 DEF vars, Promise!vars
  <2> QED
    BY <2>1, <2>3, <2>4, <2>5, <2>6, <2>7, <2>8, <2>9, <2>11, <2>12, <2>13, <2>14
       DEF Next, Taint
<1> QED
  BY <1>1, <1>2, Inductive, PTL DEF Spec, Promise!Spec, ImplementsVersionedServing

=============================================================================
