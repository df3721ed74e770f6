--------------------------- MODULE JournalProofs ----------------------------
(***************************************************************************)
(* Theorems about the audit trail of LifecycleJournal.tla, for any number  *)
(* of rollouts and any length of history.                                  *)
(*                                                                         *)
(* A taint is the last record, so the invariant describes the trail before *)
(* it: the journal's numbers are 1, 2, ... with no gap, an admission that  *)
(* no release has followed is an active binding, and the last records are  *)
(* those of the open update.  The taint then draws one number per active   *)
(* rollout before its own.  That these numbers fill the gap it leaves in   *)
(* the journal is a matter of counting: the rank of a rollout among the    *)
(* admissions is an injection into 1..n, n being the number of orphans,    *)
(* and so a bijection.                                                     *)
(*                                                                         *)
(* That the journal yields the controller again is carried along time: the *)
(* controller is where every reading of its journal ends.                  *)
(***************************************************************************)
EXTENDS LifecycleJournal, LifecycleProofs, FiniteSetTheorems, SequenceTheorems

-----------------------------------------------------------------------------
(* The inductive invariant.                                                *)

(* The events that _record writes with the target of the transition.       *)
TransitionEvents == {"initialize", "begin_drain", "confirm_drained", "begin_update",
                     "confirm_updated", "confirm_invalidated", "confirm_validated",
                     "confirm_resumed"}

AllEvents == TransitionEvents \cup ReleaseEvents \cup {"taint", "admit_rollout"}

(* A TransitionRecord.                                                     *)
Records == [seq : Nat, from_state : LifecycleState, to_state : LifecycleState,
            event : AllEvents, target : Targets \cup {None}, rollout : Rollouts \cup {None}]

TrailTyped ==
    /\ seq \in Nat
    /\ journal \in Seq(Records)
    /\ admittedSeq \in [Rollouts -> Nat]
    /\ orphanSeq \in [Rollouts -> Nat]

(* Until a taint the journal alone accounts for the numbers, and the       *)
(* active rollouts are finitely many, each with a number of its own.       *)
Numbered ==
    /\ seq = Len(journal)
    /\ \A i \in 1..Len(journal) : journal[i].seq = i
    /\ orphanSeq = ZeroSeqs
    /\ IsFiniteSet(ActiveRollouts)
    /\ \A r \in ActiveRollouts : admittedSeq[r] \in 1..seq
    /\ \A q, r \in ActiveRollouts : admittedSeq[q] = admittedSeq[r] => q = r

ReleasedAfter(a, last) ==
    \E f \in (a + 1)..last : /\ journal[f].event \in ReleaseEvents
                             /\ journal[f].rollout = journal[a].rollout
                             /\ journal[f].target = journal[a].target

(* An admission that no release has followed is an active binding.         *)
Paired ==
    \A a \in 1..Len(journal) : journal[a].event = "admit_rollout" =>
        /\ journal[a].rollout \in Rollouts /\ journal[a].target \in Targets
        /\ \/ active[journal[a].rollout] = journal[a].target
           \/ ReleasedAfter(a, Len(journal))

(* The last n records are the first n of the update that is pending, and   *)
(* not the first of the journal.                                           *)
UpdateTail(n) ==
    /\ Len(journal) > n
    /\ \A k \in 1..n : /\ journal[Len(journal) - n + k].event = UpdateEvents[k]
                       /\ journal[Len(journal) - n + k].target = pending

UpdateOpen ==
    /\ state # "UNINITIALIZED"  => UpdateTail(0)
    /\ state = "UPDATING"     => UpdateTail(1)
    /\ state = "INVALIDATING" => UpdateTail(2)
    /\ state = "VALIDATING"   => UpdateTail(3)
    /\ state = "RESUMING"     => UpdateTail(4)

JInv ==
    /\ IInv
    /\ TrailTyped
    /\ state # "TAINTED" => Numbered /\ Paired /\ UpdateOpen
    /\ EverySeqAccountedFor
    /\ MutationRecordedAfterReleases
    /\ PublishedOnlyAfterProof

-----------------------------------------------------------------------------
(* The steps of the trail.                                                 *)

(* A transition that advances, by its record: the five of an update come   *)
(* in their order, with the pending target.                                *)
Advances(event, target) ==
    \/ /\ event \in {"initialize", "begin_drain", "confirm_drained"}
       /\ state' \in {"READY", "DRAINING", "QUIESCED"} /\ pending' = pending
    \/ /\ event = "begin_update" /\ state = "QUIESCED" /\ state' = "UPDATING"
       /\ pending' = target
    \/ /\ event = "confirm_updated" /\ state = "UPDATING" /\ state' = "INVALIDATING"
       /\ pending' = pending /\ target = pending
    \/ /\ event = "confirm_invalidated" /\ state = "INVALIDATING" /\ state' = "VALIDATING"
       /\ pending' = pending /\ target = pending
    \/ /\ event = "confirm_validated" /\ state = "VALIDATING" /\ state' = "RESUMING"
       /\ pending' = pending /\ target = pending
    \/ /\ event = "confirm_resumed" /\ state = "RESUMING" /\ state' = "READY"
       /\ target = pending

(* A step appends one record: of a taint, of a transition that advances,   *)
(* of an admission or of a release.                                        *)
LEMMA JStepKinds ==
  ASSUME IInv, JNext
  PROVE  /\ state # "TAINTED" /\ [Next]_vars
         /\ \/ TaintWith /\ LogTaint
            \/ \E event \in TransitionEvents, target \in Targets \cup {None} :
                  /\ Log(event, target) /\ Advances(event, target)
                  /\ state' # "TAINTED" /\ UNCHANGED <<active, orphaned>>
            \/ \E r \in Rollouts : JAdmitRollout(r)
            \/ \E r \in Rollouts, event \in {"finish_rollout", "abort_rollout"} :
                  JReleaseRollout(r, event)
<1>1. pending \in Targets \cup {None} /\ EffectiveTarget \in Targets \cup {None}
  BY DEF IInv, TypeOK, EffectiveTarget
<1> DEFINE Kinds == \/ TaintWith /\ LogTaint
                    \/ \E event \in TransitionEvents, target \in Targets \cup {None} :
                          /\ Log(event, target) /\ Advances(event, target)
                          /\ state' # "TAINTED" /\ UNCHANGED <<active, orphaned>>
<1> DEFINE Goal == state # "TAINTED" /\ Next /\ Kinds
<1>2. ASSUME TaintWith, LogTaint PROVE state # "TAINTED" /\ Kinds
  BY <1>2 DEF TaintWith
<1>3. ASSUME NEW event \in TransitionEvents, NEW target \in Targets \cup {None},
             state # "TAINTED", Trace(event, target),
             \/ TaintWith
             \/ Advances(event, target) /\ state' # "TAINTED" /\ UNCHANGED <<active, orphaned>>
      PROVE  Kinds
  BY <1>3 DEF Trace, TaintWith
<1> HIDE DEF Kinds
<1>4. ASSUME NEW e \in BootstrapEvidence,
             JTransition("initialize", Initialize(e), EffectiveTarget)
      PROVE  Goal
  BY <1>1, <1>3, <1>4
     DEF JTransition, Initialize, Advance, Advances, TransitionEvents, Next
<1>5. ASSUME JTransition("begin_drain", BeginDrain, EffectiveTarget) PROVE Goal
  BY <1>1, <1>3, <1>5
     DEF JTransition, BeginDrain, Advance, Advances, TransitionEvents, Next
<1>6. ASSUME NEW e \in DrainEvidence,
             JTransition("confirm_drained", ConfirmDrained(e), EffectiveTarget)
      PROVE  Goal
  BY <1>1, <1>3, <1>6
     DEF JTransition, ConfirmDrained, Advance, Advances, TransitionEvents, Next
<1>7. ASSUME NEW t \in Targets, JTransition("begin_update", BeginUpdate(t), t) PROVE Goal
  BY <1>3, <1>7 DEF JTransition, BeginUpdate, Advance, Advances, TransitionEvents, Next
<1>8. ASSUME NEW e \in UpdateEvidence,
             JTransition("confirm_updated", ConfirmUpdated(e), pending)
      PROVE  Goal
  BY <1>1, <1>3, <1>8
     DEF JTransition, ConfirmUpdated, Confirm, Advance, Advances, TransitionEvents, Next
<1>9. ASSUME NEW e \in InvalidateEvidence,
             JTransition("confirm_invalidated", ConfirmInvalidated(e), pending)
      PROVE  Goal
  BY <1>1, <1>3, <1>9
     DEF JTransition, ConfirmInvalidated, Confirm, Advance, Advances, TransitionEvents, Next
<1>10. ASSUME NEW e \in ValidateEvidence,
              JTransition("confirm_validated", ConfirmValidated(e), pending)
       PROVE  Goal
  BY <1>1, <1>3, <1>10
     DEF JTransition, ConfirmValidated, Confirm, Advance, Advances, TransitionEvents, Next
<1>11. ASSUME NEW e \in ResumeEvidence,
              JTransition("confirm_resumed", ConfirmResumed(e), pending)
       PROVE  Goal
  BY <1>1, <1>3, <1>11
     DEF JTransition, ConfirmResumed, Advance, Advances, TransitionEvents, Next
<1>12. ASSUME JTransition("taint", Taint, EffectiveTarget) PROVE Goal
  BY <1>2, <1>12 DEF JTransition, Taint, TaintWith, Trace, Next
<1>13. ASSUME NEW r \in Rollouts, JAdmitRollout(r) PROVE state # "TAINTED" /\ Next
  BY <1>13 DEF JAdmitRollout, AdmitRollout, ADMITTING_STATES, Next
<1>14. ASSUME NEW r \in Rollouts, NEW event, JReleaseRollout(r, event)
       PROVE  state # "TAINTED" /\ Next
  BY <1>14 DEF JReleaseRollout, ReleaseRollout, ROLLOUT_COMPLETION_STATES, Next
<1> QED
  BY <1>4, <1>5, <1>6, <1>7, <1>8, <1>9, <1>10, <1>11, <1>12, <1>13, <1>14 DEF JNext, Kinds

(* A journal that grows by one record.                                     *)
Grows(rec) == rec \in Records /\ journal' = Append(journal, rec)

LEMMA Grown ==
  ASSUME TrailTyped, NEW rec, Grows(rec)
  PROVE  /\ journal' \in Seq(Records) /\ Len(journal) \in Nat
         /\ Len(journal') = Len(journal) + 1
         /\ DOMAIN journal = 1..Len(journal) /\ DOMAIN journal' = 1..Len(journal')
         /\ \A i \in 1..Len(journal) : journal'[i] = journal[i]
         /\ journal'[Len(journal) + 1] = rec
  BY DEF TrailTyped, Grows

(* What _record and the inline appends write is a TransitionRecord.        *)
LEMMA EntryTyped ==
  ASSUME NEW n \in Nat, NEW from \in LifecycleState, NEW to \in LifecycleState,
         NEW event \in AllEvents, NEW target \in Targets \cup {None},
         NEW rollout \in Rollouts \cup {None}
  PROVE  Entry(n, from, to, event, target, rollout) \in Records
  BY DEF Entry, Records

-----------------------------------------------------------------------------
(* One property at a time, what a new record has to satisfy.               *)

LEMMA MutationKept ==
  ASSUME TrailTyped, MutationRecordedAfterReleases, NEW rec, Grows(rec),
         rec.event = "begin_update" =>
            \A a \in 1..Len(journal) :
               journal[a].event = "admit_rollout" => ReleasedAfter(a, Len(journal))
  PROVE  MutationRecordedAfterReleases'
<1> SUFFICES ASSUME NEW u \in DOMAIN journal', journal'[u].event = "begin_update",
                    NEW a \in 1..(u - 1), journal'[a].event = "admit_rollout"
             PROVE  \E f \in (a + 1)..(u - 1) :
                       /\ journal'[f].event \in ReleaseEvents
                       /\ journal'[f].rollout = journal'[a].rollout
                       /\ journal'[f].target = journal'[a].target
  BY DEF MutationRecordedAfterReleases
<1>1. a \in 1..Len(journal) /\ journal'[a] = journal[a] /\ u \in 1..(Len(journal) + 1)
  BY Grown
<1>2. PICK f \in (a + 1)..(u - 1) :
        /\ journal[f].event \in ReleaseEvents
        /\ journal[f].rollout = journal[a].rollout
        /\ journal[f].target = journal[a].target
  <2>1. CASE u \in 1..Len(journal)
    BY <1>1, <2>1, Grown DEF MutationRecordedAfterReleases
  <2>2. CASE u = Len(journal) + 1
    BY <1>1, <2>2, Grown DEF ReleasedAfter
  <2> QED
    BY <1>1, <2>1, <2>2, Grown
<1>3. journal'[f] = journal[f]
  BY <1>1, Grown
<1> QED
  BY <1>1, <1>2, <1>3

LEMMA PublishedKept ==
  ASSUME TrailTyped, PublishedOnlyAfterProof, NEW rec, Grows(rec),
         rec.event = "confirm_resumed" =>
            rec.event = UpdateEvents[5] /\ rec.target = pending /\ UpdateTail(4)
  PROVE  PublishedOnlyAfterProof'
<1> SUFFICES ASSUME NEW c \in DOMAIN journal', journal'[c].event = "confirm_resumed"
             PROVE  /\ c > 5
                    /\ \A k \in 1..5 : /\ journal'[c - 5 + k].event = UpdateEvents[k]
                                       /\ journal'[c - 5 + k].target = journal'[c].target
  BY DEF PublishedOnlyAfterProof
<1>1. CASE c \in 1..Len(journal)
  <2>1. /\ c > 5
        /\ \A k \in 1..5 : /\ journal[c - 5 + k].event = UpdateEvents[k]
                           /\ journal[c - 5 + k].target = journal[c].target
    BY <1>1, Grown DEF PublishedOnlyAfterProof
  <2>2. ASSUME NEW k \in 1..5 PROVE journal'[c - 5 + k] = journal[c - 5 + k]
    <3>1. c \in Nat /\ Len(journal) \in Nat /\ c > 5 /\ c <= Len(journal)
      BY <1>1, <2>1, Grown
    <3>2. c - 5 + k \in 1..Len(journal)
      BY <3>1
    <3> QED
      BY <3>2, Grown
  <2> QED
    BY <1>1, <2>1, <2>2, Grown
<1>2. CASE c = Len(journal) + 1
  <2>1. /\ rec.event = UpdateEvents[5] /\ rec.target = pending /\ Len(journal) > 4
        /\ journal'[c] = rec
    BY <1>2, Grown DEF UpdateTail
  <2>2. ASSUME NEW k \in 1..4
        PROVE  /\ journal'[c - 5 + k].event = UpdateEvents[k]
               /\ journal'[c - 5 + k].target = pending
    <3>1. c - 5 + k = Len(journal) - 4 + k /\ c - 5 + k \in 1..Len(journal)
      BY <1>2, <2>1, Grown
    <3> QED
      BY <1>2, <3>1, Grown DEF UpdateTail
  <2>3. c - 5 + 5 = c /\ c > 5
    BY <1>2, <2>1, Grown
  <2> QED
    BY <2>1, <2>2, <2>3
<1> QED
  BY <1>1, <1>2, Grown

(* The run of update records gets longer by the next one.                  *)
LEMMA TailGrows ==
  ASSUME TrailTyped, NEW n \in 0..4, UpdateTail(n), NEW rec, Grows(rec),
         rec.event = UpdateEvents[n + 1], rec.target = pending',
         n = 0 \/ pending' = pending
  PROVE  UpdateTail(n + 1)'
<1>1. Len(journal') > n + 1
  BY Grown DEF UpdateTail
<1>2. ASSUME NEW k \in 1..(n + 1)
      PROVE  /\ journal'[Len(journal') - (n + 1) + k].event = UpdateEvents[k]
             /\ journal'[Len(journal') - (n + 1) + k].target = pending'
  <2>1. CASE k \in 1..n
    <3>1. /\ Len(journal') - (n + 1) + k = Len(journal) - n + k
          /\ Len(journal) - n + k \in 1..Len(journal) /\ n # 0
      BY <2>1, Grown DEF UpdateTail
    <3> QED
      BY <2>1, <3>1, Grown DEF UpdateTail
  <2>2. CASE k = n + 1
    <3>1. Len(journal') - (n + 1) + k = Len(journal) + 1
      BY <2>2, Grown
    <3> QED
      BY <2>2, <3>1, Grown
  <2> QED
    BY <2>1, <2>2
<1> QED
  BY <1>1, <1>2 DEF UpdateTail

-----------------------------------------------------------------------------
(* The numbers of a taint.                                                 *)

(* Rank of an active rollout: how many were admitted before it, and itself.*)
Rank(r) == Cardinality({q \in ActiveRollouts : admittedSeq[q] <= admittedSeq[r]})

(* The ranks are 1, 2, ..., n in some order.                               *)
LEMMA RanksFill ==
  ASSUME TrailTyped, Numbered
  PROVE  /\ Cardinality(ActiveRollouts) \in Nat
         /\ \A r \in ActiveRollouts : Rank(r) \in 1..Cardinality(ActiveRollouts)
         /\ \A q, r \in ActiveRollouts : Rank(q) = Rank(r) => q = r
         /\ {Rank(r) : r \in ActiveRollouts} = 1..Cardinality(ActiveRollouts)
<1> DEFINE A == ActiveRollouts
           n == Cardinality(A)
           Below(r) == {q \in A : admittedSeq[q] <= admittedSeq[r]}
<1>1. IsFiniteSet(A) /\ n \in Nat /\ A \subseteq Rollouts
  BY FS_CardinalityType DEF Numbered, ActiveRollouts
<1>2. ASSUME NEW r \in A
      PROVE  /\ IsFiniteSet(Below(r)) /\ r \in Below(r) /\ Below(r) \in SUBSET A
             /\ Cardinality(Below(r)) \in 1..n
  <2>1. r \in Below(r) /\ Below(r) \in SUBSET A
    BY <1>1 DEF TrailTyped
  <2>2. IsFiniteSet(Below(r)) /\ Cardinality(Below(r)) <= n
    BY <1>1, <2>1, FS_Subset
  <2>3. Cardinality(Below(r)) \in Nat /\ Cardinality(Below(r)) # 0
    BY <2>1, <2>2, FS_CardinalityType, FS_EmptySet
  <2> QED
    BY <1>1, <2>1, <2>2, <2>3
<1>3. ASSUME NEW q \in A, NEW r \in A, admittedSeq[q] <= admittedSeq[r],
             Cardinality(Below(q)) = Cardinality(Below(r))
      PROVE  q = r
  <2>1. Below(q) \in SUBSET Below(r)
    BY <1>1, <1>3 DEF TrailTyped
  <2>2. Below(q) = Below(r)
    BY <1>2, <1>3, <2>1, FS_Subset
  <2>3. r \in Below(q)
    BY <1>2, <2>2
  <2>4. admittedSeq[q] = admittedSeq[r]
    BY <1>1, <1>3, <2>3 DEF TrailTyped
  <2> QED
    BY <2>4 DEF Numbered
<1>4. \A q, r \in A : Cardinality(Below(q)) = Cardinality(Below(r)) => q = r
  <2> SUFFICES ASSUME NEW q \in A, NEW r \in A, Cardinality(Below(q)) = Cardinality(Below(r))
               PROVE  q = r
    OBVIOUS
  <2>1. admittedSeq[q] <= admittedSeq[r] \/ admittedSeq[r] <= admittedSeq[q]
    BY <1>1 DEF TrailTyped
  <2> HIDE DEF Below
  <2> QED
    BY <1>3, <2>1
<1> DEFINE f == [r \in A |-> Cardinality(Below(r))]
<1> HIDE DEF Below
<1>5. f \in Injection(A, 1..n)
  BY <1>2, <1>4 DEF Injection, IsInjective
<1>6. IsFiniteSet(1..n) /\ Cardinality(1..n) = n
  BY <1>1, FS_Interval
<1>7. f \in Surjection(A, 1..n)
  BY <1>5, <1>6, FS_Injection
<1>8. {Cardinality(Below(r)) : r \in A} = 1..n
  BY <1>2, <1>7 DEF Surjection
<1> QED
  BY <1>1, <1>2, <1>4, <1>8 DEF Rank, Below

(* Before a taint the journal alone accounts for every number.             *)
LEMMA JournalAccounts == TrailTyped /\ Numbered => EverySeqAccountedFor
<1> SUFFICES ASSUME TrailTyped, Numbered PROVE EverySeqAccountedFor
  OBVIOUS
<1> DEFINE recorded == [i \in DOMAIN journal |-> journal[i].seq]
           orphans  == {r \in Rollouts : orphanSeq[r] # 0}
<1>1. DOMAIN journal = 1..seq /\ seq = Len(journal) /\ seq \in Nat
  BY DEF TrailTyped, Numbered
<1>2. \A i \in 1..seq : recorded[i] = i
  BY <1>1 DEF Numbered
<1>3. orphans = {}
  BY DEF Numbered, ZeroSeqs
<1>4. Cardinality(orphans) = 0
  BY <1>3, FS_EmptySet
<1>5. \A i, j \in DOMAIN journal : i < j => recorded[i] < recorded[j]
  BY <1>1, <1>2
<1>6. ToSet(recorded) \cup {orphanSeq[r] : r \in orphans} = 1..seq
  <2>1. ToSet(recorded) = {recorded[i] : i \in 1..seq}
    BY <1>1 DEF ToSet
  <2> QED
    BY <1>2, <1>3, <2>1
<1>7. Len(journal) + Cardinality(orphans) = seq
  BY <1>1, <1>4
<1> QED
  BY <1>5, <1>6, <1>7 DEF EverySeqAccountedFor

(* A taint draws a number for every active rollout and one for itself.     *)
LEMMA TaintAccounts ==
  ASSUME IInv, TrailTyped, Numbered, LogTaint
  PROVE  TrailTyped' /\ EverySeqAccountedFor'
<1> DEFINE A == ActiveRollouts
           n == Cardinality(A)
           rec == Entry(seq + n + 1, state, "TAINTED", "taint", EffectiveTarget, None)
           recorded == [i \in DOMAIN journal' |-> journal'[i].seq]
           orphans  == {r \in Rollouts : orphanSeq'[r] # 0}
<1>1. /\ n \in Nat /\ A \subseteq Rollouts /\ seq \in Nat /\ seq = Len(journal)
      /\ \A r \in A : Rank(r) \in 1..n
      /\ {Rank(r) : r \in A} = 1..n
  BY RanksFill DEF ActiveRollouts, TrailTyped, Numbered
<1>2. /\ seq' = seq + n + 1
      /\ orphanSeq' = [r \in Rollouts |-> IF r \in A THEN seq + Rank(r) ELSE orphanSeq[r]]
      /\ admittedSeq' = ZeroSeqs
      /\ journal' = Append(journal, rec)
  BY DEF LogTaint, Rank
<1>3. rec \in Records
  <2>1. seq + n + 1 \in Nat
    BY <1>1
  <2>2. state \in LifecycleState /\ EffectiveTarget \in Targets \cup {None}
    BY DEF IInv, TypeOK, EffectiveTarget
  <2>3. "TAINTED" \in LifecycleState /\ "taint" \in AllEvents
    BY DEF LifecycleState, AllEvents
  <2> QED
    BY <2>1, <2>2, <2>3, EntryTyped
<1>4. Grows(rec)
  BY <1>2, <1>3 DEF Grows
<1>5. \A r \in Rollouts : orphanSeq'[r] = IF r \in A THEN seq + Rank(r) ELSE 0
  BY <1>2 DEF Numbered, ZeroSeqs
<1> HIDE DEF A, n, rec
<1>6. TrailTyped'
  <2>1. seq' \in Nat /\ journal' \in Seq(Records) /\ admittedSeq' \in [Rollouts -> Nat]
    BY <1>1, <1>2, <1>4, Grown DEF ZeroSeqs
  <2>2. orphanSeq' \in [Rollouts -> Nat]
    BY <1>1, <1>2, <1>5
  <2> QED
    BY <2>1, <2>2 DEF TrailTyped
<1>7. DOMAIN journal' = 1..(seq + 1) /\ Len(journal') = seq + 1
  BY <1>1, <1>4, Grown
<1>8. \A i \in 1..(seq + 1) : recorded[i] = IF i = seq + 1 THEN seq + n + 1 ELSE i
  <2>1. rec.seq = seq + n + 1
    BY DEF rec, Entry
  <2>2. \A i \in 1..seq : journal'[i].seq = i
    BY <1>1, <1>4, Grown DEF Numbered
  <2>3. journal'[seq + 1] = rec
    BY <1>1, <1>4, Grown
  <2> QED
    BY <1>1, <1>7, <2>1, <2>2, <2>3
<1>9. orphans = A
  BY <1>1, <1>5
<1>10. {orphanSeq'[r] : r \in orphans} = (seq + 1)..(seq + n)
  <2>1. {orphanSeq'[r] : r \in orphans} = {seq + Rank(r) : r \in A}
    BY <1>1, <1>5, <1>9
  <2>2. ASSUME NEW x \in (seq + 1)..(seq + n) PROVE x \in {seq + Rank(r) : r \in A}
    <3>1. x - seq \in 1..n
      BY <1>1
    <3>2. PICK r \in A : Rank(r) = x - seq
      BY <1>1, <3>1
    <3> QED
      BY <1>1, <3>2
  <2>3. ASSUME NEW r \in A PROVE seq + Rank(r) \in (seq + 1)..(seq + n)
    BY <1>1
  <2> QED
    BY <2>1, <2>2, <2>3
<1>11. \A i, j \in DOMAIN journal' : i < j => recorded[i] < recorded[j]
  BY <1>1, <1>7, <1>8
<1>12. ToSet(recorded) = 1..seq \cup {seq + n + 1}
  <2>1. ToSet(recorded) = {recorded[i] : i \in 1..(seq + 1)}
    BY <1>7 DEF ToSet
  <2> HIDE DEF recorded
  <2>2. \A x : x \in {recorded[i] : i \in 1..(seq + 1)} <=> x \in 1..seq \/ x = seq + n + 1
    BY <1>1, <1>8
  <2> QED
    BY <2>1, <2>2
<1>13. ToSet(recorded) \cup {orphanSeq'[r] : r \in orphans} = 1..seq'
  <2> HIDE DEF recorded, orphans
  <2>1. \A x : x \in 1..(seq + n + 1) <=>
                \/ x \in 1..seq \/ x = seq + n + 1
                \/ x \in (seq + 1)..(seq + n)
    BY <1>1
  <2>2. 1..(seq + n + 1) = (1..seq \cup {seq + n + 1}) \cup ((seq + 1)..(seq + n))
    BY <2>1
  <2> QED
    BY <1>2, <1>10, <1>12, <2>2
<1>14. Len(journal') + Cardinality(orphans) = seq'
  <2>1. Cardinality(orphans) = n
    BY <1>9 DEF n
  <2> HIDE DEF orphans
  <2> QED
    BY <1>1, <1>2, <1>7, <2>1
<1> QED
  BY <1>6, <1>11, <1>13, <1>14 DEF EverySeqAccountedFor

-----------------------------------------------------------------------------
(* Every step preserves the invariant.                                     *)

LEMMA JInitInv == JInit => JInv
<1> SUFFICES ASSUME JInit PROVE JInv
  OBVIOUS
<1>1. IInv
  BY InitInv DEF JInit
<1>2. /\ Len(journal) = 0 /\ journal = <<>> /\ journal \in Seq(Records)
      /\ DOMAIN journal = {}
  BY DEF JInit
<1>3. TrailTyped
  BY <1>2 DEF JInit, TrailTyped, ZeroSeqs
<1>4. Numbered
  <2>1. ActiveRollouts = {}
    BY DEF JInit, Init, NoRollouts, ActiveRollouts
  <2> QED
    BY <1>2, <2>1, FS_EmptySet DEF JInit, Numbered
<1>5. Paired /\ UpdateOpen
  BY <1>2 DEF Paired, UpdateOpen, JInit, Init
<1>6. EverySeqAccountedFor
  BY <1>3, <1>4, JournalAccounts
<1>7. MutationRecordedAfterReleases /\ PublishedOnlyAfterProof
  BY <1>2 DEF MutationRecordedAfterReleases, PublishedOnlyAfterProof
<1> QED
  BY <1>1, <1>3, <1>4, <1>5, <1>6, <1>7 DEF JInv

(* An admission that was released stays released, and one that was not     *)
(* stays an active binding if the step keeps the binding.                  *)
LEMMA PairedGrows ==
  ASSUME TrailTyped, Paired, NEW rec, Grows(rec),
         rec.event = "admit_rollout" =>
            /\ rec.rollout \in Rollouts /\ rec.target \in Targets
            /\ active'[rec.rollout] = rec.target,
         \A r \in Rollouts : active[r] \in Targets =>
            \/ active'[r] = active[r]
            \/ /\ rec.event \in ReleaseEvents
               /\ rec.rollout = r /\ rec.target = active[r]
  PROVE  Paired'
<1> SUFFICES ASSUME NEW a \in 1..Len(journal'), journal'[a].event = "admit_rollout"
             PROVE  /\ journal'[a].rollout \in Rollouts /\ journal'[a].target \in Targets
                    /\ \/ active'[journal'[a].rollout] = journal'[a].target
                       \/ ReleasedAfter(a, Len(journal))'
  BY DEF Paired
<1>1. CASE a \in 1..Len(journal)
  <2>1. journal'[a] = journal[a] /\ journal[a].event = "admit_rollout"
    BY <1>1, Grown
  <2>2. /\ journal[a].rollout \in Rollouts /\ journal[a].target \in Targets
        /\ \/ active[journal[a].rollout] = journal[a].target
           \/ ReleasedAfter(a, Len(journal))
    BY <1>1, <2>1 DEF Paired
  <2>3. ASSUME ReleasedAfter(a, Len(journal)) PROVE ReleasedAfter(a, Len(journal))'
    <3>1. PICK f \in (a + 1)..Len(journal) :
             /\ journal[f].event \in ReleaseEvents
             /\ journal[f].rollout = journal[a].rollout
             /\ journal[f].target = journal[a].target
      BY <2>3 DEF ReleasedAfter
    <3>2. /\ f \in 1..Len(journal) /\ f \in (a + 1)..Len(journal')
          /\ journal'[f] = journal[f]
      BY <1>1, Grown
    <3> QED
      BY <2>1, <3>1, <3>2 DEF ReleasedAfter
  <2>4. ASSUME active[journal[a].rollout] = journal[a].target,
               active'[journal[a].rollout] # journal[a].target
        PROVE  ReleasedAfter(a, Len(journal))'
    <3>1. /\ rec.event \in ReleaseEvents
          /\ rec.rollout = journal[a].rollout /\ rec.target = journal[a].target
      BY <2>2, <2>4
    <3>2. /\ Len(journal) + 1 \in (a + 1)..Len(journal')
          /\ journal'[Len(journal) + 1] = rec
      BY <1>1, Grown
    <3> QED
      BY <2>1, <3>1, <3>2 DEF ReleasedAfter
  <2> QED
    BY <2>1, <2>2, <2>3, <2>4
<1>2. CASE a = Len(journal) + 1
  BY <1>2, Grown
<1> QED
  BY <1>1, <1>2, Grown

(* The next number goes to the journal.                                    *)
LEMMA JournalNumbered ==
  ASSUME TrailTyped, Numbered, NEW rec, Grows(rec),
         rec.seq = seq + 1, seq' = seq + 1
  PROVE  /\ seq' = Len(journal')
         /\ \A i \in 1..Len(journal') : journal'[i].seq = i
<1>1. ASSUME NEW i \in 1..Len(journal') PROVE journal'[i].seq = i
  <2>1. CASE i \in 1..Len(journal)
    BY <2>1, Grown DEF Numbered
  <2>2. CASE i = Len(journal) + 1
    BY <2>2, Grown DEF Numbered
  <2> QED
    BY <2>1, <2>2, Grown
<1> QED
  BY <1>1, Grown DEF Numbered

(* A transition that advances.                                             *)
LEMMA TransitionPreserves ==
  ASSUME JInv, state # "TAINTED", IInv',
         NEW event \in TransitionEvents, NEW target \in Targets \cup {None},
         Log(event, target), Advances(event, target), state' # "TAINTED",
         UNCHANGED <<active, orphaned>>
  PROVE  JInv'
<1> DEFINE rec == Entry(seq + 1, state, state', event, target, None)
<1>1. TrailTyped /\ Numbered /\ Paired /\ UpdateOpen
  BY DEF JInv
<1>2. /\ rec.seq = seq + 1 /\ rec.event = event /\ rec.target = target /\ rec.rollout = None
      /\ event \notin ReleaseEvents /\ event # "admit_rollout"
  BY DEF Entry, TransitionEvents, ReleaseEvents
<1>3. Grows(rec)
  <2>1. seq + 1 \in Nat /\ state \in LifecycleState /\ state' \in LifecycleState
    BY <1>1 DEF JInv, IInv, TypeOK, TrailTyped
  <2>2. event \in AllEvents
    BY DEF AllEvents
  <2>3. rec \in Records
    BY <2>1, <2>2, EntryTyped
  <2> QED
    BY <2>3 DEF Log, Grows
<1>4. seq' = seq + 1 /\ UNCHANGED <<admittedSeq, orphanSeq>>
  BY DEF Log
<1> HIDE DEF rec
<1>5. TrailTyped'
  BY <1>1, <1>3, <1>4, Grown DEF TrailTyped
<1>6. Numbered'
  <2>1. ActiveRollouts' = ActiveRollouts
    BY DEF ActiveRollouts
  <2>2. /\ seq' = Len(journal')
        /\ \A i \in 1..Len(journal') : journal'[i].seq = i
    BY <1>1, <1>2, <1>3, <1>4, JournalNumbered
  <2>3. ASSUME NEW r \in ActiveRollouts PROVE admittedSeq[r] \in 1..(seq + 1)
    BY <1>1 DEF Numbered, TrailTyped
  <2> QED
    BY <1>1, <1>4, <2>1, <2>2, <2>3 DEF Numbered, ZeroSeqs
<1>7. Paired'
  BY <1>1, <1>2, <1>3, PairedGrows
<1>8. UpdateOpen'
  <2>1. UpdateTail(0)'
    BY <1>1, <1>3, Grown DEF UpdateTail
  <2>2. CASE event = "begin_update"
    <3>1. UpdateTail(0) /\ state' = "UPDATING" /\ target = pending'
      BY <1>1, <2>2 DEF Advances, UpdateOpen
    <3>2. UpdateTail(0 + 1)'
      BY <1>1, <1>2, <1>3, <2>2, <3>1, TailGrows DEF UpdateEvents
    <3> QED
      BY <2>1, <3>1, <3>2 DEF UpdateOpen
  <2>3. CASE event = "confirm_updated"
    <3>1. UpdateTail(1) /\ state' = "INVALIDATING" /\ target = pending' /\ pending' = pending
      BY <1>1, <2>3 DEF Advances, UpdateOpen
    <3>2. UpdateTail(1 + 1)'
      BY <1>1, <1>2, <1>3, <2>3, <3>1, TailGrows DEF UpdateEvents
    <3> QED
      BY <2>1, <3>1, <3>2 DEF UpdateOpen
  <2>4. CASE event = "confirm_invalidated"
    <3>1. UpdateTail(2) /\ state' = "VALIDATING" /\ target = pending' /\ pending' = pending
      BY <1>1, <2>4 DEF Advances, UpdateOpen
    <3>2. UpdateTail(2 + 1)'
      BY <1>1, <1>2, <1>3, <2>4, <3>1, TailGrows DEF UpdateEvents
    <3> QED
      BY <2>1, <3>1, <3>2 DEF UpdateOpen
  <2>5. CASE event = "confirm_validated"
    <3>1. UpdateTail(3) /\ state' = "RESUMING" /\ target = pending' /\ pending' = pending
      BY <1>1, <2>5 DEF Advances, UpdateOpen
    <3>2. UpdateTail(3 + 1)'
      BY <1>1, <1>2, <1>3, <2>5, <3>1, TailGrows DEF UpdateEvents
    <3> QED
      BY <2>1, <3>1, <3>2 DEF UpdateOpen
  <2>6. CASE state' \in {"READY", "DRAINING", "QUIESCED"}
    BY <2>1, <2>6 DEF UpdateOpen
  <2> QED
    BY <2>2, <2>3, <2>4, <2>5, <2>6 DEF Advances
<1>9. EverySeqAccountedFor'
  BY <1>5, <1>6, JournalAccounts, PTL
<1>10. MutationRecordedAfterReleases'
  <2>1. ASSUME event = "begin_update", NEW a \in 1..Len(journal),
               journal[a].event = "admit_rollout"
        PROVE  ReleasedAfter(a, Len(journal))
    <3>1. active = NoRollouts
      BY <2>1 DEF Advances, JInv, IInv, DrainBeforeMutation, MutationStates
    <3> QED
      BY <1>1, <2>1, <3>1, NoneIsNoTarget DEF Paired, NoRollouts
  <2> QED
    BY <1>1, <1>2, <1>3, <2>1, MutationKept DEF JInv
<1>11. PublishedOnlyAfterProof'
  <2>1. ASSUME event = "confirm_resumed"
        PROVE  event = UpdateEvents[5] /\ target = pending /\ UpdateTail(4)
    BY <1>1, <2>1 DEF Advances, UpdateOpen, UpdateEvents
  <2> QED
    BY <1>1, <1>2, <1>3, <2>1, PublishedKept DEF JInv
<1> QED
  BY <1>5, <1>6, <1>7, <1>8, <1>9, <1>10, <1>11 DEF JInv

(* An admission.                                                           *)
LEMMA AdmitPreserves ==
  ASSUME JInv, IInv', NEW r \in Rollouts, JAdmitRollout(r)
  PROVE  JInv'
<1> DEFINE rec == Entry(seq + 1, state, state, "admit_rollout", current, r)
<1>1. /\ TrailTyped /\ Numbered /\ Paired /\ UpdateOpen
      /\ state = "READY" /\ state' = "READY" /\ current \in Targets
      /\ active[r] = None /\ active' = [active EXCEPT ![r] = current]
      /\ active \in [Rollouts -> Targets \cup {None}]
      /\ UNCHANGED pending
  BY DEF JInv, IInv, TypeOK, JAdmitRollout, AdmitRollout, ADMITTING_STATES
<1>2. /\ rec.seq = seq + 1 /\ rec.event = "admit_rollout"
      /\ rec.target = current /\ rec.rollout = r
  BY DEF Entry
<1>3. Grows(rec)
  <2>1. /\ seq + 1 \in Nat /\ state \in LifecycleState
        /\ "admit_rollout" \in AllEvents
    BY <1>1 DEF TrailTyped, LifecycleState, AllEvents
  <2>2. rec \in Records
    BY <1>1, <2>1, EntryTyped
  <2> QED
    BY <2>2 DEF JAdmitRollout, Grows
<1>4. /\ seq' = seq + 1 /\ admittedSeq' = [admittedSeq EXCEPT ![r] = seq + 1]
      /\ orphanSeq' = orphanSeq
  BY DEF JAdmitRollout
<1> HIDE DEF rec
<1>5. TrailTyped'
  BY <1>1, <1>3, <1>4, Grown DEF TrailTyped
<1>6. Numbered'
  <2>1. ActiveRollouts' = ActiveRollouts \cup {r}
    BY <1>1, NoneIsNoTarget DEF ActiveRollouts
  <2>2. /\ seq' = Len(journal')
        /\ \A i \in 1..Len(journal') : journal'[i].seq = i
    BY <1>1, <1>2, <1>3, <1>4, JournalNumbered
  <2>3. IsFiniteSet(ActiveRollouts')
    BY <1>1, <2>1, FS_AddElement DEF Numbered
  <2>4. r \notin ActiveRollouts /\ ActiveRollouts \subseteq Rollouts
    BY <1>1 DEF ActiveRollouts
  <2>5. \A q \in ActiveRollouts : admittedSeq'[q] = admittedSeq[q] /\ admittedSeq[q] \in 1..seq
    BY <1>1, <1>4, <2>4 DEF Numbered, TrailTyped
  <2>6. admittedSeq'[r] = seq + 1 /\ seq \in Nat
    BY <1>1, <1>4 DEF TrailTyped
  <2>7. \A q \in ActiveRollouts' : admittedSeq'[q] \in 1..seq'
    BY <1>4, <2>1, <2>5, <2>6
  <2>8. \A p, q \in ActiveRollouts' : admittedSeq'[p] = admittedSeq'[q] => p = q
    BY <1>1, <2>1, <2>5, <2>6 DEF Numbered
  <2>9. orphanSeq' = ZeroSeqs
    BY <1>1, <1>4 DEF Numbered
  <2> QED
    BY <2>2, <2>3, <2>7, <2>8, <2>9 DEF Numbered, ZeroSeqs
<1>7. Paired'
  <2>1. active'[r] = current
    BY <1>1
  <2>2. \A q \in Rollouts : active[q] \in Targets => active'[q] = active[q]
    BY <1>1, NoneIsNoTarget
  <2> QED
    BY <1>1, <1>2, <1>3, <2>1, <2>2, PairedGrows
<1>8. UpdateOpen'
  BY <1>1, <1>3, Grown DEF UpdateOpen, UpdateTail
<1>9. EverySeqAccountedFor'
  BY <1>5, <1>6, JournalAccounts, PTL
<1>10. MutationRecordedAfterReleases' /\ PublishedOnlyAfterProof'
  BY <1>1, <1>2, <1>3, MutationKept, PublishedKept DEF JInv
<1> QED
  BY <1>5, <1>6, <1>7, <1>8, <1>9, <1>10 DEF JInv

(* A release.                                                              *)
LEMMA ReleasePreserves ==
  ASSUME JInv, IInv', NEW r \in Rollouts, NEW event \in ReleaseEvents,
         JReleaseRollout(r, event)
  PROVE  JInv'
<1> DEFINE rec == Entry(seq + 1, state, state, event, active[r], r)
<1>1. /\ TrailTyped /\ Numbered /\ Paired /\ UpdateOpen
      /\ state \in {"READY", "DRAINING"} /\ state' = state
      /\ active[r] \in Targets /\ active' = [active EXCEPT ![r] = None]
      /\ active \in [Rollouts -> Targets \cup {None}]
      /\ UNCHANGED pending
  BY DEF JInv, IInv, TypeOK, JReleaseRollout, ReleaseRollout, ROLLOUT_COMPLETION_STATES
<1>2. /\ rec.seq = seq + 1 /\ rec.event = event
      /\ rec.target = active[r] /\ rec.rollout = r
      /\ event \notin {"admit_rollout", "begin_update", "confirm_resumed"}
  BY DEF Entry, ReleaseEvents
<1>3. Grows(rec)
  <2>1. /\ seq + 1 \in Nat /\ state \in LifecycleState /\ event \in AllEvents
    BY <1>1 DEF TrailTyped, LifecycleState, AllEvents
  <2>2. rec \in Records
    BY <1>1, <2>1, EntryTyped
  <2> QED
    BY <2>2 DEF JReleaseRollout, Grows
<1>4. /\ seq' = seq + 1 /\ admittedSeq' = [admittedSeq EXCEPT ![r] = 0]
      /\ orphanSeq' = orphanSeq
  BY DEF JReleaseRollout
<1> HIDE DEF rec
<1>5. TrailTyped'
  BY <1>1, <1>3, <1>4, Grown DEF TrailTyped
<1>6. Numbered'
  <2>1. ActiveRollouts' = ActiveRollouts \ {r}
    BY <1>1, NoneIsNoTarget DEF ActiveRollouts
  <2>2. /\ seq' = Len(journal')
        /\ \A i \in 1..Len(journal') : journal'[i].seq = i
    BY <1>1, <1>2, <1>3, <1>4, JournalNumbered
  <2>3. IsFiniteSet(ActiveRollouts')
    BY <1>1, <2>1, FS_RemoveElement DEF Numbered
  <2>4. \A q \in ActiveRollouts' : /\ q \in ActiveRollouts
                                   /\ admittedSeq'[q] = admittedSeq[q]
                                   /\ admittedSeq[q] \in 1..seq
    BY <1>1, <1>4, <2>1 DEF Numbered, TrailTyped, ActiveRollouts
  <2>5. \A q \in ActiveRollouts' : admittedSeq'[q] \in 1..seq'
    BY <1>1, <1>4, <2>4 DEF TrailTyped
  <2>6. \A p, q \in ActiveRollouts' : admittedSeq'[p] = admittedSeq'[q] => p = q
    BY <1>1, <2>4 DEF Numbered
  <2>7. orphanSeq' = ZeroSeqs
    BY <1>1, <1>4 DEF Numbered
  <2> QED
    BY <2>2, <2>3, <2>5, <2>6, <2>7 DEF Numbered, ZeroSeqs
<1>7. Paired'
  <2>1. \A q \in Rollouts : active[q] \in Targets => q = r \/ active'[q] = active[q]
    BY <1>1
  <2> QED
    BY <1>1, <1>2, <1>3, <2>1, PairedGrows
<1>8. UpdateOpen'
  BY <1>1, <1>3, Grown DEF UpdateOpen, UpdateTail
<1>9. EverySeqAccountedFor'
  BY <1>5, <1>6, JournalAccounts, PTL
<1>10. MutationRecordedAfterReleases' /\ PublishedOnlyAfterProof'
  BY <1>1, <1>2, <1>3, MutationKept, PublishedKept DEF JInv
<1> QED
  BY <1>5, <1>6, <1>7, <1>8, <1>9, <1>10 DEF JInv

(* A taint, after which the trail does not change.                         *)
LEMMA JTaintPreserves ==
  ASSUME JInv, state # "TAINTED", IInv', TaintWith, LogTaint
  PROVE  JInv'
<1> DEFINE rec == Entry(seq + Cardinality(ActiveRollouts) + 1, state, "TAINTED", "taint",
                        EffectiveTarget, None)
<1>1. IInv /\ TrailTyped /\ Numbered
  BY DEF JInv
<1>2. TrailTyped' /\ EverySeqAccountedFor'
  BY <1>1, TaintAccounts
<1>3. Grows(rec) /\ rec.event = "taint"
  <2>1. /\ seq + Cardinality(ActiveRollouts) + 1 \in Nat
        /\ state \in LifecycleState /\ "TAINTED" \in LifecycleState
        /\ "taint" \in AllEvents /\ EffectiveTarget \in Targets \cup {None}
    BY <1>1, RanksFill
       DEF TrailTyped, IInv, TypeOK, LifecycleState, AllEvents, EffectiveTarget
  <2>2. rec \in Records
    BY <2>1, EntryTyped
  <2> QED
    BY <2>2 DEF LogTaint, Grows, Entry
<1> HIDE DEF rec
<1>4. MutationRecordedAfterReleases' /\ PublishedOnlyAfterProof'
  BY <1>1, <1>3, MutationKept, PublishedKept DEF JInv
<1>5. state' = "TAINTED"
  BY DEF TaintWith
<1> QED
  BY <1>2, <1>4, <1>5 DEF JInv

LEMMA JNextPreserves == JInv /\ [JNext]_jvars => JInv'
<1> SUFFICES ASSUME JInv, [JNext]_jvars PROVE JInv'
  OBVIOUS
<1>1. ASSUME JNext PROVE JInv'
  <2>1. IInv
    BY DEF JInv
  <2>2. state # "TAINTED" /\ [Next]_vars
    BY <1>1, <2>1, JStepKinds
  <2>3. IInv'
    BY <2>1, <2>2, NextPreserves
  <2>4. CASE TaintWith /\ LogTaint
    BY <2>2, <2>3, <2>4, JTaintPreserves
  <2>5. ASSUME NEW event \in TransitionEvents, NEW target \in Targets \cup {None},
               Log(event, target), Advances(event, target),
               state' # "TAINTED", UNCHANGED <<active, orphaned>>
        PROVE  JInv'
    BY <2>2, <2>3, <2>5, TransitionPreserves
  <2>6. ASSUME NEW r \in Rollouts, JAdmitRollout(r) PROVE JInv'
    BY <2>3, <2>6, AdmitPreserves
  <2>7. ASSUME NEW r \in Rollouts, NEW event \in {"finish_rollout", "abort_rollout"},
               JReleaseRollout(r, event)
        PROVE  JInv'
    BY <2>3, <2>7, ReleasePreserves DEF ReleaseEvents
  <2> QED
    BY <1>1, <2>1, <2>4, <2>5, <2>6, <2>7, JStepKinds
<1>2. CASE UNCHANGED jvars
  <2>1. UNCHANGED <<state, current, pending, active, orphaned, taintedIn>>
        /\ UNCHANGED <<seq, journal, admittedSeq, orphanSeq>>
    BY <1>2 DEF jvars, vars, trail
  <2>2. IInv'
    BY <2>1, NextPreserves DEF JInv, vars
  <2>3. TrailTyped' /\ EverySeqAccountedFor' /\ MutationRecordedAfterReleases'
        /\ PublishedOnlyAfterProof'
    BY <2>1 DEF JInv, TrailTyped, EverySeqAccountedFor, MutationRecordedAfterReleases,
                PublishedOnlyAfterProof
  <2>4. state # "TAINTED" => (Numbered /\ Paired /\ UpdateOpen)'
    BY <2>1 DEF JInv, Numbered, ActiveRollouts, Paired, ReleasedAfter, UpdateOpen, UpdateTail
  <2> QED
    BY <2>1, <2>2, <2>3, <2>4 DEF JInv
<1> QED
  BY <1>1, <1>2

(* The invariant holds in every reachable state.                           *)
THEOREM JInductive == JSpec => []JInv
  BY JInitInv, JNextPreserves, PTL DEF JSpec

-----------------------------------------------------------------------------
(* The properties of LifecycleJournal.tla.                                 *)

(* Every number the lock hands out (_seq) is that of exactly one journal   *)
(* record or of one orphan, whatever number of rollouts a taint orphans.   *)
THEOREM SeqsAccounted == JSpec => []EverySeqAccountedFor
<1>1. JInv => EverySeqAccountedFor
  BY DEF JInv
<1> QED
  BY <1>1, JInductive, PTL

(* docs/phase4a-results.md: no begin_update is recorded (_record) before   *)
(* every rollout admitted until then has been released, in the record,     *)
(* from the target it was bound to.                                        *)
THEOREM ReleasesFirst == JSpec => []MutationRecordedAfterReleases
<1>1. JInv => MutationRecordedAfterReleases
  BY DEF JInv
<1> QED
  BY <1>1, JInductive, PTL

(* I1, I6, I8: the record that publishes a target (confirm_resumed) ends   *)
(* an uninterrupted run of the five records of its own update.             *)
THEOREM ProofBeforePublication == JSpec => []PublishedOnlyAfterProof
<1>1. JInv => PublishedOnlyAfterProof
  BY DEF JInv
<1> QED
  BY <1>1, JInductive, PTL

(* Keeping the trail does not change what the controller may do: with its  *)
(* trail hidden it is the controller of Lifecycle.tla.                     *)
THEOREM TrailIsObserver == JSpec => Spec
<1>1. JInit => Init
  BY DEF JInit
<1>2. JInv /\ [JNext]_jvars => [Next]_vars
  BY JStepKinds DEF JInv, jvars
<1> QED
  BY <1>1, <1>2, JInductive, PTL DEF JSpec, Spec


-----------------------------------------------------------------------------
(* What the journal says.                                                  *)

(* v is the sequence of views an operator goes through who reads j.        *)
IsReading(v, j) ==
    v = [n \in 0..Len(j) |-> IF n = 0 THEN BlankView ELSE Apply(v[n - 1], j[n])]

Present ==
    [state |-> state, active |-> active, orphaned |-> orphaned, chained |-> TRUE]

(* The journal can be read, and whoever reads it to the end sees what is.  *)
(* (Views is some reading; that there is one, and that it does not matter  *)
(* which, has to be carried along with the journal, record by record.)     *)
ReadsTrue ==
    /\ \E v : IsReading(v, journal)
    /\ \A v : IsReading(v, journal) => v[Len(journal)] = Present

(* A reading is that of the earlier records and one step more.             *)
LEMMA ReadingGrows ==
  ASSUME NEW j \in Seq(Records), NEW rec \in Records, NEW present, NEW next,
         \E v : IsReading(v, j),
         \A v : IsReading(v, j) => v[Len(j)] = present,
         Apply(present, rec) = next
  PROVE  /\ \E v : IsReading(v, Append(j, rec))
         /\ \A v : IsReading(v, Append(j, rec)) => v[Len(Append(j, rec))] = next
<1> DEFINE k == Append(j, rec)
           len == Len(j)
<1>1. len \in Nat /\ Len(k) = len + 1 /\ k[len + 1] = rec
      /\ \A n \in 1..len : k[n] = j[n]
  BY AppendProperties, LenProperties
<1> HIDE DEF k, len
<1>2. \E v : IsReading(v, k)
  <2>1. PICK v : IsReading(v, j)
    OBVIOUS
  <2> DEFINE w == [n \in 0..(len + 1) |-> IF n = len + 1 THEN Apply(v[len], rec) ELSE v[n]]
             f == [n \in 0..Len(k) |-> IF n = 0 THEN BlankView ELSE Apply(w[n - 1], k[n])]
  <2>2. v = [n \in 0..len |-> IF n = 0 THEN BlankView ELSE Apply(v[n - 1], j[n])]
    BY <2>1 DEF IsReading, len
  <2>3. ASSUME NEW n \in 0..(len + 1) PROVE w[n] = f[n]
    <3>1. CASE n = 0
      BY <1>1, <2>2, <3>1
    <3>2. CASE n \in 1..len
      <4>1. n - 1 \in 0..(len + 1) /\ n - 1 # len + 1 /\ n # len + 1 /\ n \in 0..len /\ n # 0
        BY <1>1, <3>2
      <4>2. w[n - 1] = v[n - 1] /\ w[n] = v[n]
        BY <4>1
      <4>3. v[n] = Apply(v[n - 1], j[n])
        BY <2>2, <4>1
      <4>4. f[n] = Apply(w[n - 1], k[n])
        BY <1>1, <4>1
      <4> QED
        BY <1>1, <3>2, <4>2, <4>3, <4>4
    <3>3. CASE n = len + 1
      <4>1. len \in 0..(len + 1) /\ len # len + 1 /\ n - 1 = len /\ n # 0
        BY <1>1, <3>3
      <4>2. w[n - 1] = v[len] /\ w[n] = Apply(v[len], rec)
        BY <3>3, <4>1
      <4> QED
        BY <1>1, <3>3, <4>1, <4>2
    <3> QED
      BY <1>1, <3>1, <3>2, <3>3
  <2>4. w = f
    BY <1>1, <2>3
  <2>5. IsReading(w, k)
    BY <2>4 DEF IsReading
  <2> QED
    BY <2>5
<1>3. ASSUME NEW w, IsReading(w, k) PROVE w[len + 1] = next
  <2> DEFINE v == [n \in 0..len |-> w[n]]
             f == [n \in 0..len |-> IF n = 0 THEN BlankView ELSE Apply(v[n - 1], j[n])]
  <2>1. w = [n \in 0..(len + 1) |-> IF n = 0 THEN BlankView ELSE Apply(w[n - 1], k[n])]
    BY <1>1, <1>3 DEF IsReading
  <2>2. ASSUME NEW n \in 0..len PROVE v[n] = f[n]
    <3>1. CASE n = 0
      BY <1>1, <2>1, <3>1
    <3>2. CASE n # 0
      <4>1. n \in 1..len /\ n - 1 \in 0..len /\ n \in 0..(len + 1)
        BY <1>1, <3>2
      <4>2. v[n] = Apply(w[n - 1], k[n]) /\ v[n - 1] = w[n - 1]
        BY <2>1, <3>2, <4>1
      <4> QED
        BY <1>1, <3>2, <4>1, <4>2
    <3> QED
      BY <3>1, <3>2
  <2>3. v = f
    BY <2>2
  <2>4. v[len] = present
    BY <2>3 DEF IsReading, len
  <2>5. w[len] = present
    BY <1>1, <2>4
  <2>6. w[len + 1] = Apply(w[len], rec)
    BY <1>1, <2>1
  <2> QED
    BY <2>5, <2>6
<1> QED
  BY <1>1, <1>2, <1>3 DEF k

LEMMA ReadsTrueInit == JInit => ReadsTrue
<1> SUFFICES ASSUME JInit PROVE ReadsTrue
  OBVIOUS
<1>1. journal = <<>> /\ Len(journal) = 0 /\ Present = BlankView
  BY DEF JInit, Init, Present, BlankView
<1> DEFINE w == [n \in 0..0 |-> BlankView]
<1>2. IsReading(w, journal)
  <2>1. w = [n \in 0..0 |-> IF n = 0 THEN BlankView ELSE Apply(w[n - 1], journal[n])]
    OBVIOUS
  <2> QED
    BY <1>1, <2>1 DEF IsReading
<1>3. ASSUME NEW v, IsReading(v, journal) PROVE v[0] = BlankView
  BY <1>1, <1>3 DEF IsReading
<1> QED
  BY <1>1, <1>2, <1>3 DEF ReadsTrue

(* Each record leads from the present to the present after it.             *)
LEMMA ReadsTrueStep ==
  ASSUME JInv, JInv', [JNext]_jvars, ReadsTrue
  PROVE  ReadsTrue'
<1>1. ASSUME NEW rec \in Records, journal' = Append(journal, rec),
             Apply(Present, rec) = Present'
      PROVE  ReadsTrue'
  BY <1>1, ReadingGrows DEF JInv, TrailTyped, ReadsTrue
<1>2. /\ active \in [Rollouts -> Targets \cup {None}]
      /\ orphaned \in [Rollouts -> Targets \cup {None}]
      /\ journal' \in Seq(Records) /\ journal \in Seq(Records)
      /\ OrphansPredateUpdate
  BY DEF JInv, IInv, TypeOK, TrailTyped
<1>3. ASSUME NEW rec, journal' = Append(journal, rec) PROVE rec \in Records
  <2>1. rec = journal'[Len(journal) + 1] /\ Len(journal) + 1 \in 1..Len(journal')
    BY <1>2, <1>3, LenProperties
  <2> QED
    BY <1>2, <2>1, ElementOfSeq
<1>4. ASSUME TaintWith, LogTaint PROVE ReadsTrue'
  <2>1. PICK n : journal' = Append(journal, Entry(n, state, "TAINTED", "taint",
                                                  EffectiveTarget, None))
    BY <1>4 DEF LogTaint
  <2> DEFINE rec == Entry(n, state, "TAINTED", "taint", EffectiveTarget, None)
  <2>2. /\ state' = "TAINTED" /\ active' = NoRollouts
        /\ orphaned' = [r \in Rollouts |-> IF active[r] # None THEN active[r]
                                           ELSE orphaned[r]]
        /\ state # "TAINTED"
    BY <1>4 DEF TaintWith
  <2>3. \A r \in Rollouts : orphaned[r] = None
    BY <1>2, <2>2 DEF OrphansPredateUpdate
  <2>4. orphaned' = active
    BY <1>2, <2>2, <2>3
  <2>5. Apply(Present, rec) = Present'
    BY <2>2, <2>4 DEF Apply, Present, Entry, ReleaseEvents
  <2> QED
    BY <1>1, <1>3, <2>1, <2>5
<1>5. ASSUME NEW event \in TransitionEvents, NEW target, Log(event, target),
             UNCHANGED <<active, orphaned>>
      PROVE  ReadsTrue'
  <2> DEFINE rec == Entry(seq + 1, state, state', event, target, None)
  <2>1. journal' = Append(journal, rec)
    BY <1>5 DEF Log
  <2>2. event \notin {"admit_rollout", "taint"} \cup ReleaseEvents
    BY DEF TransitionEvents, ReleaseEvents
  <2>3. Apply(Present, rec) = Present'
    BY <1>5, <2>2 DEF Apply, Present, Entry
  <2> QED
    BY <1>1, <1>3, <2>1, <2>3
<1>6. ASSUME NEW r \in Rollouts, JAdmitRollout(r) PROVE ReadsTrue'
  <2> DEFINE rec == Entry(seq + 1, state, state, "admit_rollout", current, r)
  <2>1. journal' = Append(journal, rec)
    BY <1>6 DEF JAdmitRollout
  <2>2. /\ active' = [active EXCEPT ![r] = current]
        /\ UNCHANGED <<state, orphaned>>
    BY <1>6 DEF JAdmitRollout, AdmitRollout
  <2>3. Apply(Present, rec) = Present'
    BY <2>2 DEF Apply, Present, Entry, ReleaseEvents
  <2> QED
    BY <1>1, <1>3, <2>1, <2>3
<1>7. ASSUME NEW r \in Rollouts, NEW event \in ReleaseEvents, JReleaseRollout(r, event)
      PROVE  ReadsTrue'
  <2> DEFINE rec == Entry(seq + 1, state, state, event, active[r], r)
  <2>1. journal' = Append(journal, rec)
    BY <1>7 DEF JReleaseRollout
  <2>2. /\ active' = [active EXCEPT ![r] = None]
        /\ UNCHANGED <<state, orphaned>>
    BY <1>7 DEF JReleaseRollout, ReleaseRollout
  <2>3. Apply(Present, rec) = Present'
    BY <2>2 DEF Apply, Present, Entry, ReleaseEvents
  <2> QED
    BY <1>1, <1>3, <2>1, <2>3
<1>8. CASE JNext
  BY <1>4, <1>5, <1>6, <1>7, <1>8, JStepKinds DEF JInv, ReleaseEvents
<1>9. CASE UNCHANGED jvars
  BY <1>9 DEF jvars, vars, trail, ReadsTrue, Present
<1> QED
  BY <1>8, <1>9

(* An operator who has the journal (the journal property) has the          *)
(* controller: its state, every live binding, every orphan, and no step    *)
(* between that was not recorded.                                          *)
THEOREM JournalIsComplete == JSpec => []JournalReconstructsController
<1>1. ReadsTrue => JournalReconstructsController
  <2> SUFFICES ASSUME ReadsTrue PROVE JournalReconstructsController
    OBVIOUS
  <2>1. PICK v : IsReading(v, journal)
    BY DEF ReadsTrue
  <2>2. IsReading(Views, journal)
    BY <2>1 DEF IsReading, Views
  <2> QED
    BY <2>2 DEF ReadsTrue, Present, JournalReconstructsController, Replayed
<1>2. JInv /\ JInv' /\ [JNext]_jvars /\ ReadsTrue => ReadsTrue'
  BY ReadsTrueStep
<1> QED
  BY <1>1, <1>2, ReadsTrueInit, JInductive, PTL DEF JSpec

=============================================================================
