-------------------------- MODULE VersionedServing --------------------------
(***************************************************************************)
(* What RolloutCore promises to whoever owns the rollouts, with no engine, *)
(* no drain and no lifecycle state in sight: one target is published at a  *)
(* time, a rollout is bound to the published target for as long as it is   *)
(* active, and a new target replaces the published one only in a single    *)
(* step taken while nothing is bound (README.md "Guarantees",              *)
(* docs/state-machine.md I1, I1b, I2, I5, I6, I10).                        *)
(*                                                                         *)
(* The Lifecycle module, which is the state machine the controller         *)
(* executes, is checked and proved to implement this specification.        *)
(***************************************************************************)
EXTENDS Naturals

CONSTANTS
    Rollouts,   \* request ids
    Targets,    \* records with a version, see UpdateTarget
    None        \* "no target"

VARIABLES
    published,  \* the target new rollouts are bound to, or None
    open,       \* are rollouts admitted?
    failed,     \* has the service failed for good?
    bound       \* bound[r] is the target rollout r runs on, or None

vars == <<published, open, failed, bound>>

NothingBound == \A r \in Rollouts : bound[r] = None

Init ==
    /\ published = None
    /\ open = FALSE
    /\ failed = FALSE
    /\ bound = [r \in Rollouts |-> None]

Newer(t) == IF published = None THEN TRUE ELSE t.version > published.version

(* The commit: one indivisible step from the old target to the new one.    *)
Publish(t) ==
    /\ ~open
    /\ ~failed
    /\ NothingBound
    /\ Newer(t)
    /\ published' = t
    /\ open' = TRUE
    /\ UNCHANGED <<failed, bound>>

Close ==
    /\ open
    /\ open' = FALSE
    /\ UNCHANGED <<published, failed, bound>>

Admit(r) ==
    /\ open
    /\ bound[r] = None
    /\ bound' = [bound EXCEPT ![r] = published]
    /\ UNCHANGED <<published, open, failed>>

Complete(r) ==
    /\ bound[r] # None
    /\ bound' = [bound EXCEPT ![r] = None]
    /\ UNCHANGED <<published, open, failed>>

(* A failure publishes nothing and ends the service.                       *)
Fail ==
    /\ ~failed
    /\ failed' = TRUE
    /\ open' = FALSE
    /\ bound' = [r \in Rollouts |-> None]
    /\ UNCHANGED published

Next ==
    \/ \E t \in Targets : Publish(t)
    \/ Close
    \/ \E r \in Rollouts : Admit(r)
    \/ \E r \in Rollouts : Complete(r)
    \/ Fail

Spec == Init /\ [][Next]_vars

=============================================================================
