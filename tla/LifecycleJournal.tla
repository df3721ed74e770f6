-------------------------- MODULE LifecycleJournal --------------------------
(***************************************************************************)
(* The controller together with its audit trail: the sequence counter, the *)
(* journal of TransitionRecords, the sequence numbers of admissions and    *)
(* those of the orphans a taint retains.                                   *)
(*                                                                         *)
(* Every action is the action of Lifecycle.tla together with what it       *)
(* writes: _record for transitions, the inline appends of admit_rollout    *)
(* and _release_rollout, and the loop of _taint_with, which consumes one   *)
(* sequence number per orphan before the taint itself is recorded.         *)
(*                                                                         *)
(* MaxSeq bounds the history: no action starts that would pass it.         *)
(***************************************************************************)
EXTENDS Lifecycle, FiniteSets, SequencesExt

CONSTANT MaxSeq

ASSUME MaxSeqAssumption == MaxSeq \in Nat

VARIABLES
    seq,          \* _seq
    journal,      \* _journal, oldest record first
    admittedSeq,  \* RolloutBinding.admitted_seq of the active rollouts, else 0
    orphanSeq     \* OrphanedRollout.seq of the orphans, else 0

trail == <<seq, journal, admittedSeq, orphanSeq>>
jvars == <<vars, trail>>

ZeroSeqs == [r \in Rollouts |-> 0]

JInit ==
    /\ Init
    /\ seq = 0
    /\ journal = <<>>
    /\ admittedSeq = ZeroSeqs
    /\ orphanSeq = ZeroSeqs

-----------------------------------------------------------------------------
(* Writing the trail.  A record names the rollout it is about (its detail) *)
(* or None.                                                                *)

Entry(n, from, to, event, target, rollout) ==
    [seq |-> n, from_state |-> from, to_state |-> to, event |-> event,
     target |-> target, rollout |-> rollout]

ActiveRollouts == {r \in Rollouts : active[r] # None}

(* The target _record falls back to: the pending one, else the committed   *)
(* one, else None, as they are before the step.                            *)
EffectiveTarget == IF pending # None THEN pending ELSE current

(* Mutant: the record is written after the state has been assigned.        *)
Log_AfterAssignment(event, target) ==
    /\ seq' = seq + 1
    /\ journal' = Append(journal, Entry(seq + 1, state', state', event, target, None))
    /\ UNCHANGED <<admittedSeq, orphanSeq>>

Log(event, target) ==
    /\ seq' = seq + 1
    /\ journal' = Append(journal, Entry(seq + 1, state, state', event, target, None))
    /\ UNCHANGED <<admittedSeq, orphanSeq>>

(* Mutant: the orphans share the number of the taint.                      *)
LogTaint_SharedNumber ==
    /\ seq' = seq + 1
    /\ orphanSeq' = [r \in Rollouts |-> IF r \in ActiveRollouts THEN seq + 1 ELSE orphanSeq[r]]
    /\ admittedSeq' = ZeroSeqs
    /\ journal' = Append(journal,
                         Entry(seq + 1, state, "TAINTED", "taint", EffectiveTarget, None))

(* Orphans are numbered in the order of the dict, which is the order of    *)
(* admission; the taint comes last.                                        *)
LogTaint ==
    LET rank(r) == Cardinality({q \in ActiveRollouts : admittedSeq[q] <= admittedSeq[r]})
        last    == seq + Cardinality(ActiveRollouts) + 1
    IN /\ seq' = last
       /\ orphanSeq' = [r \in Rollouts |->
                          IF r \in ActiveRollouts THEN seq + rank(r) ELSE orphanSeq[r]]
       /\ admittedSeq' = ZeroSeqs
       /\ journal' = Append(journal,
                            Entry(last, state, "TAINTED", "taint", EffectiveTarget, None))

Trace(event, target) ==
    IF state' = "TAINTED" THEN LogTaint ELSE Log(event, target)

(* Room for this step and for the taint that may follow it.                *)
Room == seq + Cardinality(ActiveRollouts) + 1 <= MaxSeq

JAdmitRollout(r) ==
    /\ Room
    /\ AdmitRollout(r)
    /\ seq' = seq + 1
    /\ admittedSeq' = [admittedSeq EXCEPT ![r] = seq + 1]
    /\ journal' = Append(journal, Entry(seq + 1, state, state, "admit_rollout", current, r))
    /\ UNCHANGED orphanSeq

JReleaseRollout(r, event) ==
    /\ Room
    /\ ReleaseRollout(r)
    /\ seq' = seq + 1
    /\ admittedSeq' = [admittedSeq EXCEPT ![r] = 0]
    /\ journal' = Append(journal, Entry(seq + 1, state, state, event, active[r], r))
    /\ UNCHANGED orphanSeq

JTransition(event, step, target) == Room /\ step /\ Trace(event, target)

JNext ==
    \/ \E e \in BootstrapEvidence : JTransition("initialize", Initialize(e), EffectiveTarget)
    \/ JTransition("begin_drain", BeginDrain, EffectiveTarget)
    \/ \E e \in DrainEvidence :
          JTransition("confirm_drained", ConfirmDrained(e), EffectiveTarget)
    \/ \E t \in Targets : JTransition("begin_update", BeginUpdate(t), t)
    \/ \E e \in UpdateEvidence : JTransition("confirm_updated", ConfirmUpdated(e), pending)
    \/ \E e \in InvalidateEvidence :
          JTransition("confirm_invalidated", ConfirmInvalidated(e), pending)
    \/ \E e \in ValidateEvidence :
          JTransition("confirm_validated", ConfirmValidated(e), pending)
    \/ \E e \in ResumeEvidence : JTransition("confirm_resumed", ConfirmResumed(e), pending)
    \/ JTransition("taint", Taint, EffectiveTarget)
    \/ \E r \in Rollouts : JAdmitRollout(r)
    \/ \E r \in Rollouts, event \in {"finish_rollout", "abort_rollout"} :
          JReleaseRollout(r, event)

JSpec == JInit /\ [][JNext]_jvars

-----------------------------------------------------------------------------
(* Properties.                                                             *)

ReleaseEvents == {"finish_rollout", "abort_rollout"}
UpdateEvents  == <<"begin_update", "confirm_updated", "confirm_invalidated",
                   "confirm_validated", "confirm_resumed">>

(* Every sequence number ever drawn is accounted for exactly once, by a    *)
(* journal record or by an orphan, and the journal is in order.  It is     *)
(* what the lock protects (test_controller_threading.py).                  *)
EverySeqAccountedFor ==
    LET recorded == [i \in DOMAIN journal |-> journal[i].seq]
        orphans  == {r \in Rollouts : orphanSeq[r] # 0}
    IN /\ \A i, j \in DOMAIN journal : i < j => recorded[i] < recorded[j]
       /\ ToSet(recorded) \cup {orphanSeq[r] : r \in orphans} = 1..seq
       /\ Len(journal) + Cardinality(orphans) = seq

(* What an operator reads back from the journal alone.                     *)
Apply(view, rec) ==
    [state  |-> rec.to_state,
     active |-> CASE rec.event = "admit_rollout"  -> [view.active EXCEPT ![rec.rollout] = rec.target]
                  [] rec.event \in ReleaseEvents  -> [view.active EXCEPT ![rec.rollout] = None]
                  [] rec.event = "taint"          -> NoRollouts
                  [] OTHER                        -> view.active,
     orphaned |-> IF rec.event = "taint" THEN view.active ELSE view.orphaned,
     chained  |-> view.chained /\ rec.from_state = view.state]

BlankView == [state |-> "UNINITIALIZED", active |-> NoRollouts,
              orphaned |-> NoRollouts, chained |-> TRUE]

(* The views after each number of records.                                 *)
Views[n \in 0..Len(journal)] ==
    IF n = 0 THEN BlankView ELSE Apply(Views[n - 1], journal[n])

Replayed == Views[Len(journal)]

(* Replaying the journal reconstructs the controller: its records chain    *)
(* from state to state, and they yield the present state, every live       *)
(* binding and every orphan.                                               *)
JournalReconstructsController ==
    Replayed = [state |-> state, active |-> active, orphaned |-> orphaned, chained |-> TRUE]

(* docs/phase4a-results.md "The journal is the mechanism": a begin_update  *)
(* is recorded only after every admission before it has been followed by   *)
(* a release of the same rollout, bound to the same target.                *)
MutationRecordedAfterReleases ==
    \A u \in DOMAIN journal : journal[u].event = "begin_update" =>
        \A a \in 1..(u - 1) : journal[a].event = "admit_rollout" =>
            \E f \in (a + 1)..(u - 1) :
                /\ journal[f].event \in ReleaseEvents
                /\ journal[f].rollout = journal[a].rollout
                /\ journal[f].target = journal[a].target

(* I1, I6, I8: a target is recorded as published only at the end of an     *)
(* uninterrupted run of the five update records for that same target.      *)
PublishedOnlyAfterProof ==
    \A c \in DOMAIN journal : journal[c].event = "confirm_resumed" =>
        /\ c > 5
        /\ \A k \in 1..5 : /\ journal[c - 5 + k].event = UpdateEvents[k]
                           /\ journal[c - 5 + k].target = journal[c].target

=============================================================================
