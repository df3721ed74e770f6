-------------------------- MODULE BootstrapProofs ---------------------------
(***************************************************************************)
(* Theorems about Bootstrap.tla, for any number of controllers, versions   *)
(* and lives of the engine.                                                *)
(*                                                                         *)
(* The label is the only thing controllers share, so the invariant says    *)
(* what it is worth: a claim on the running engine is visible in the label *)
(* (ClaimShows), and a bootstrap that has read an unmanaged label still    *)
(* finds it unmanaged when it writes (ReadStillHolds).  The second is the  *)
(* one that overlapping bootstraps break.                                  *)
(***************************************************************************)
EXTENDS Bootstrap, TLAPS

OneBootstrap ==
    \A c, d \in Controllers : Bootstrapping(c) /\ Bootstrapping(d) => c = d

(* A transfer is opened before the seed is written, both in lives so far;  *)
(* only on its way to the seed may a controller be ahead of its last one.  *)
LivesInOrder ==
    \A c \in Controllers :
        /\ attached[c] <= life /\ seededIn[c] <= life
        /\ pc[c] \in Seeded \/ (state[c] \in Owning /\ pc[c] # "seed") =>
               attached[c] <= seededIn[c]

ClaimShows == \A c \in Controllers : Claims(c) => label \in Versions

ReadStillHolds == \A c \in Controllers : pc[c] \in {"init", "seed"} => label \notin Versions

(* What an owner has committed, and where its label stands: not ahead of   *)
(* it, and behind it when the owner has seeded its engine again.           *)
OwnerLabel ==
    \A c \in Controllers :
        /\ state[c] \in Owning => current[c] \in Versions
        /\ state[c] = "UPDATING" => current[c] + 1 \in Versions
        /\ Claims(c) =>
            /\ pc[c] \in Seeded => label = 0
            /\ state[c] = "READY" => label <= current[c]

SeedsCounted == SeededOnce /\ (label \notin Versions => seeds = 0)

BInv ==
    /\ BTypeOK
    /\ OneBootstrap
    /\ LivesInOrder
    /\ ClaimShows
    /\ ReadStillHolds
    /\ OwnerLabel
    /\ SingleOwner
    /\ SeedsCounted

-----------------------------------------------------------------------------
LEMMA LabelsApart == Fresh \notin Versions /\ 0 \in Versions /\ Versions \subseteq Nat
  BY BootstrapAssumption DEF Versions

(* The values of the model stay in their types, whether or not bootstraps  *)
(* overlap, as long as an owner holds a version (OwnerLabel).              *)
LEMMA TypePreserved ==
  ASSUME BTypeOK, OwnerLabel, BNext
  PROVE  BTypeOK'
<1>1. CASE EngineRestart
  BY <1>1, BootstrapAssumption DEF EngineRestart, BTypeOK, BLabels, private
<1>2. ASSUME NEW c \in Controllers, ControllerStep(c) PROVE BTypeOK'
  <2> USE DEF BTypeOK, Step, Turns, Between, engine, private, States, Reading, Seeded, Owning
  <2>1. CASE Start(c)
    BY <2>1 DEF Start
  <2>2. CASE ReadLabel(c)
    BY <2>2 DEF ReadLabel
  <2>3. CASE InitTransfer(c)
    BY <2>3, BootstrapAssumption DEF InitTransfer
  <2>4. CASE WriteSeed(c)
    BY <2>4, LabelsApart DEF WriteSeed, BLabels
  <2>5. CASE ReadBack(c)
    BY <2>5 DEF ReadBack
  <2>6. CASE WorldSize(c)
    BY <2>6 DEF WorldSize
  <2>7. CASE Confirm(c)
    BY <2>7, LabelsApart DEF Confirm
  <2>8. CASE CallRaises(c)
    BY <2>8 DEF CallRaises
  <2>9. CASE Install(c)
    BY <2>9, BootstrapAssumption DEF Install, OwnerLabel, Versions, BLabels
  <2>10. CASE Commit(c)
    <3>1. state[c] = "UPDATING" => current[c] + 1 \in Versions
      BY DEF OwnerLabel
    <3> QED
      BY <2>10, <3>1 DEF Commit
  <2>11. CASE UpdateFails(c)
    BY <2>11 DEF UpdateFails
  <2>12. CASE Crash(c)
    BY <2>12, BootstrapAssumption DEF Crash
  <2> QED
    BY <1>2, <2>1, <2>2, <2>3, <2>4, <2>5, <2>6, <2>7, <2>8, <2>9, <2>10, <2>11, <2>12
    DEF ControllerStep
<1> QED
  BY <1>1, <1>2 DEF BNext

(* A step that leaves the engine alone, and after which controller c owns  *)
(* nothing and reads nothing.                                              *)
LEMMA QuietStep ==
  ASSUME BInv, BTypeOK', NEW c \in Controllers, UNCHANGED engine,
         pc'[c] = "idle", state'[c] \in {"UNINITIALIZED", "TAINTED"},
         \A d \in Controllers \ {c} :
            /\ state'[d] = state[d] /\ pc'[d] = pc[d] /\ current'[d] = current[d]
            /\ attached'[d] = attached[d] /\ seededIn'[d] = seededIn[d],
         attached'[c] <= life /\ seededIn'[c] <= life
  PROVE  BInv'
<1> USE DEF BInv, engine, Bootstrapping, Reading, Seeded, Owning
<1>1. OneBootstrap'
  BY DEF OneBootstrap
<1>2. LivesInOrder'
  BY DEF LivesInOrder
<1>3. ClaimShows' /\ SingleOwner'
  BY DEF ClaimShows, SingleOwner, Claims
<1>4. ReadStillHolds' /\ SeedsCounted'
  BY DEF ReadStillHolds, SeedsCounted, SeededOnce, Versions
<1>5. OwnerLabel'
  BY DEF OwnerLabel, Claims, Versions
<1> QED
  BY <1>1, <1>2, <1>3, <1>4, <1>5

LEMMA RestartPreserves ==
  ASSUME BInv, EngineRestart
  PROVE  BInv'
<1> USE DEF BInv
<1>1. BTypeOK'
  BY TypePreserved DEF BNext
<1>2. UNCHANGED <<state, pc, current, attached, seededIn>> /\ life' = life + 1 /\ label' = Fresh
  BY DEF EngineRestart, private
<1>3. \A c \in Controllers : seededIn[c] \in Nat /\ attached[c] \in Nat /\ life \in Nat
  BY BootstrapAssumption DEF BTypeOK
<1>4. \A c \in Controllers : ~Claims(c)'
  BY <1>2, <1>3 DEF Claims, LivesInOrder
<1>5. OneBootstrap' /\ LivesInOrder'
  BY <1>2, <1>3 DEF OneBootstrap, LivesInOrder, Bootstrapping
<1>6. ClaimShows' /\ SingleOwner'
  BY <1>4 DEF ClaimShows, SingleOwner
<1>7. ReadStillHolds'
  BY <1>2, LabelsApart DEF ReadStillHolds, Versions
<1>8. OwnerLabel'
  BY <1>2, <1>4 DEF OwnerLabel, Versions
<1>9. SeedsCounted'
  BY DEF EngineRestart, SeedsCounted, SeededOnce
<1> QED
  BY <1>1, <1>5, <1>6, <1>7, <1>8, <1>9

(* A step of c among Reading and Seeded that leaves the engine alone.      *)
LEMMA BootstrapStep ==
  ASSUME ~Overlapping, BInv, NEW c \in Controllers,
         Start(c) \/ ReadLabel(c) \/ InitTransfer(c) \/ ReadBack(c) \/ WorldSize(c)
  PROVE  BInv'
<1> USE DEF BInv, Step, engine, private
<1>1. BTypeOK'
  BY TypePreserved DEF BNext, ControllerStep
<1> USE DEF Start, ReadLabel, InitTransfer, ReadBack, WorldSize
<1>2. /\ UNCHANGED <<adapter, life, label, seeds, state, current, seededIn>>
      /\ \A d \in Controllers \ {c} : pc'[d] = pc[d] /\ attached'[d] = attached[d]
      /\ Bootstrapping(c)' => Bootstrapping(c) \/ \A d \in Controllers : ~Bootstrapping(d)
      /\ pc'[c] \in Seeded <=> pc[c] \in Seeded
      /\ pc[c] # "seed"
  BY DEF BTypeOK, Bootstrapping, Reading, Seeded
<1>3. OneBootstrap'
  BY <1>2 DEF OneBootstrap, Bootstrapping
<1>4. attached'[c] <= life /\ (pc'[c] # "seed" => attached'[c] = attached[c])
  <2>1. attached[c] <= life /\ attached[c] \in Nat /\ life \in Nat
    BY BootstrapAssumption DEF LivesInOrder, BTypeOK
  <2>2. CASE InitTransfer(c)
    BY <2>1, <2>2 DEF BTypeOK
  <2>3. CASE ~InitTransfer(c)
    BY <2>1, <2>3
  <2> QED
    BY <2>2, <2>3
<1>5. LivesInOrder'
  <2>1. /\ attached'[c] <= life /\ seededIn[c] <= life
        /\ pc'[c] \in Seeded \/ (state[c] \in Owning /\ pc'[c] # "seed") =>
               attached'[c] <= seededIn[c]
    BY <1>2, <1>4 DEF LivesInOrder, Seeded
  <2>2. ASSUME NEW d \in Controllers \ {c}
        PROVE  /\ attached'[d] <= life /\ seededIn[d] <= life
               /\ pc'[d] \in Seeded \/ (state[d] \in Owning /\ pc'[d] # "seed") =>
                      attached'[d] <= seededIn[d]
    BY <1>2, <2>2 DEF LivesInOrder
  <2> QED
    BY <1>2, <2>1, <2>2 DEF LivesInOrder
<1>6. \A d \in Controllers : Claims(d)' <=> Claims(d)
  BY <1>2 DEF Claims
<1>7. ClaimShows' /\ SingleOwner'
  BY <1>2, <1>6 DEF ClaimShows, SingleOwner, Versions
<1>8. ReadStillHolds'
  BY <1>2 DEF ReadStillHolds, Refuses, Parses, Versions, BTypeOK
<1>9. OwnerLabel'
  BY <1>2, <1>6 DEF OwnerLabel, Versions
<1>10. SeedsCounted'
  BY <1>2 DEF SeedsCounted, SeededOnce, Versions
<1> QED
  BY <1>1, <1>3, <1>5, <1>7, <1>8, <1>9, <1>10

(* The seed: the label is still unmanaged, so nobody claims the engine and *)
(* nothing was seeded before.                                              *)
LEMMA SeedPreserves ==
  ASSUME BInv, NEW c \in Controllers, WriteSeed(c)
  PROVE  BInv'
<1> USE DEF BInv
<1>1. BTypeOK'
  BY TypePreserved DEF BNext, ControllerStep
<1>2. /\ pc[c] = "seed" /\ label \notin Versions /\ seeds = 0
      /\ \A d \in Controllers : ~Claims(d)
  BY DEF WriteSeed, Step, ReadStillHolds, ClaimShows, SeedsCounted
<1>3. /\ \/ pc'[c] = "check" /\ state'[c] = state[c]
         \/ pc'[c] = "idle" /\ state'[c] = "TAINTED"
      /\ seededIn'[c] = life
      /\ \A d \in Controllers \ {c} :
            state'[d] = state[d] /\ pc'[d] = pc[d] /\ seededIn'[d] = seededIn[d]
      /\ label' = 0 /\ seeds' = 1 /\ UNCHANGED <<life, current, attached>>
  BY <1>2 DEF WriteSeed, Step, Turns, BTypeOK
<1>4. \A d \in Controllers \ {c} : ~Claims(d)' /\ ~Bootstrapping(d)
  BY <1>2, <1>3 DEF Claims, OneBootstrap, Bootstrapping, Reading
<1>5. OneBootstrap'
  BY <1>3, <1>4 DEF OneBootstrap, Bootstrapping
<1>6. LivesInOrder'
  BY <1>3, BootstrapAssumption DEF LivesInOrder, BTypeOK, Seeded
<1>7. ClaimShows' /\ SingleOwner'
  BY <1>3, <1>4, LabelsApart DEF ClaimShows, SingleOwner, Versions
<1>8. ReadStillHolds'
  BY <1>3, <1>4 DEF ReadStillHolds, Bootstrapping, Reading
<1>9. OwnerLabel'
  <2>1. ASSUME NEW d \in Controllers, d # c PROVE state'[d] = state[d] /\ ~Claims(d)'
    BY <1>3, <1>4, <2>1
  <2>2. state'[c] \in Owning => state[c] = state'[c] /\ current[c] \in Nat
    BY <1>3, LabelsApart DEF OwnerLabel, Owning
  <2>3. current[c] \in Nat => 0 <= current[c]
    OBVIOUS
  <2> QED
    BY <1>3, <2>1, <2>2, <2>3 DEF OwnerLabel, Versions, Seeded, Owning
<1>10. SeedsCounted'
  BY <1>3, LabelsApart DEF SeedsCounted, SeededOnce, Versions
<1> QED
  BY <1>1, <1>5, <1>6, <1>7, <1>8, <1>9, <1>10

(* The steps of an owner.  Install proves that c claims the running engine:*)
(* its transfer was opened in this life, and the seed came later.          *)
LEMMA OwnerPreserves ==
  ASSUME BInv, NEW c \in Controllers, Confirm(c) \/ Install(c) \/ Commit(c)
  PROVE  BInv'
<1> USE DEF BInv
<1>1. BTypeOK'
  BY TypePreserved DEF BNext, ControllerStep
<1>2. /\ UNCHANGED <<life, seeds, attached, seededIn>>
      /\ pc[c] \in {"idle", "confirm"} /\ pc'[c] = "idle"
      /\ pc[c] \in Seeded \/ state[c] \in Owning
      /\ \A d \in Controllers \ {c} :
            state'[d] = state[d] /\ pc'[d] = pc[d] /\ current'[d] = current[d]
  BY DEF Confirm, Install, Commit, Step, Turns, Between, BTypeOK, engine, private, Seeded, Owning
<1>3. label' = label \/ (Claims(c) /\ label' \in Versions /\ label \in Versions)
  <2>1. CASE Install(c)
    <3>1. seededIn[c] = life
      BY <2>1, BootstrapAssumption DEF Install, Between, LivesInOrder, BTypeOK, Owning
    <3>2. Claims(c) /\ label' = current[c] + 1
      BY <2>1, <3>1 DEF Install, Between, Claims, Owning
    <3>3. current[c] \in Versions /\ current[c] < MaxVersion
      BY <2>1 DEF Install, Between, OwnerLabel, Owning
    <3> QED
      BY <3>2, <3>3, BootstrapAssumption DEF ClaimShows, Versions
  <2>2. CASE ~Install(c)
    BY <2>2 DEF Confirm, Commit, engine
  <2> QED
    BY <2>1, <2>2
<1>4. OneBootstrap'
  BY <1>2 DEF OneBootstrap, Bootstrapping, Reading, Seeded, Owning
<1>5. LivesInOrder'
  BY <1>2 DEF LivesInOrder, Seeded, Owning
<1>11. state'[c] \in Owning => pc[c] \in Seeded \/ state[c] \in Owning
  BY <1>2
<1>6. \A d \in Controllers : Claims(d)' => Claims(d)
  BY <1>2, <1>11 DEF Claims, Seeded
<1>7. ClaimShows' /\ SingleOwner'
  BY <1>3, <1>6 DEF ClaimShows, SingleOwner, Versions
<1>8. ReadStillHolds'
  BY <1>2, <1>3 DEF ReadStillHolds, Versions
<1>9. OwnerLabel'
  <2>1. ASSUME NEW d \in Controllers, d # c, Claims(d)' PROVE label' = label
    BY <1>3, <1>6, <2>1 DEF SingleOwner
  <2>2. ASSUME NEW d \in Controllers, d # c
        PROVE  state'[d] = state[d] /\ pc'[d] = pc[d] /\ current'[d] = current[d]
    BY <1>2, <2>2
  <2>3. /\ state'[c] \in Owning => current'[c] \in Versions
        /\ state'[c] = "UPDATING" => current'[c] + 1 \in Versions
        /\ pc'[c] \notin Seeded
        /\ Claims(c)' /\ state'[c] = "READY" => label' <= current'[c]
    <3> USE DEF Step, Turns, Between, engine, private, Claims, Seeded, Owning
    <3>1. CASE Confirm(c)
      BY <3>1, LabelsApart DEF Confirm, OwnerLabel, BTypeOK
    <3>2. CASE Install(c)
      BY <3>2, BootstrapAssumption DEF Install, OwnerLabel, BTypeOK, Versions
    <3>3. CASE Commit(c)
      <4>1. current[c] \in Versions /\ current[c] + 1 \in Versions
        BY <3>3 DEF Commit, OwnerLabel
      <4>2. label \in Versions => label \in Nat
        BY LabelsApart
      <4> QED
        BY <3>3, <4>1, <4>2 DEF Commit, BTypeOK, Versions
    <3> QED BY <3>1, <3>2, <3>3
  <2> QED
    BY <1>6, <2>1, <2>2, <2>3 DEF OwnerLabel, Versions
<1>10. SeedsCounted'
  BY <1>2, <1>3 DEF SeedsCounted, SeededOnce, Versions
<1> QED
  BY <1>1, <1>4, <1>5, <1>7, <1>8, <1>9, <1>10

LEMMA InitEstablishes == BInit => BInv
<1> SUFFICES ASSUME BInit PROVE BInv
  OBVIOUS
<1>1. BTypeOK
  BY BootstrapAssumption DEF BInit, BTypeOK, States
<1>2. \A c \in Controllers :
        state[c] = "UNINITIALIZED" /\ pc[c] = "idle" /\ attached[c] = 0 /\ seededIn[c] = 0
  BY DEF BInit
<1> QED
  BY <1>1, <1>2 DEF BInit, BInv, OneBootstrap, LivesInOrder, ClaimShows, ReadStillHolds, OwnerLabel,
       SingleOwner, SeedsCounted, SeededOnce, Claims, Bootstrapping, Reading, Seeded, Owning

LEMMA NextPreserves ==
  ASSUME ~Overlapping, BInv, [BNext]_bvars
  PROVE  BInv'
<1>1. CASE EngineRestart
  BY <1>1, RestartPreserves
<1>2. ASSUME NEW c \in Controllers, ControllerStep(c) PROVE BInv'
  <2>1. CASE CallRaises(c) \/ UpdateFails(c) \/ Crash(c)
    <3>1. BTypeOK'
      BY <1>2, TypePreserved DEF BNext, BInv
    <3> QED
      BY <2>1, <3>1, QuietStep, BootstrapAssumption
      DEF CallRaises, UpdateFails, Crash, Step, Turns, Between, private, BInv, BTypeOK,
          LivesInOrder
  <2> QED
    BY <1>2, <2>1, BootstrapStep, SeedPreserves, OwnerPreserves DEF ControllerStep
<1>3. CASE UNCHANGED bvars
  BY <1>3 DEF bvars, engine, private, BInv, BTypeOK, OneBootstrap, LivesInOrder, ClaimShows,
       ReadStillHolds, OwnerLabel, SingleOwner, SeedsCounted, SeededOnce, Claims, Bootstrapping
<1> QED
  BY <1>1, <1>2, <1>3 DEF BNext

(* As long as bootstraps do not overlap, every reachable state satisfies   *)
(* the invariant.                                                          *)
THEOREM OwnershipInductive ==
  ASSUME ~Overlapping
  PROVE  BSpec => []BInv
  BY InitEstablishes, NextPreserves, PTL DEF BSpec

(* The labels and what the controllers remember keep their types.          *)
THEOREM BootstrapTypeCorrect ==
  ASSUME ~Overlapping
  PROVE  BSpec => []BTypeOK
<1>1. BInv => BTypeOK
  BY DEF BInv
<1> QED
  BY <1>1, OwnershipInductive, PTL

(* I7: the label check of bootstrap keeps one owner per running engine,    *)
(* through any crashes, restarts and retries.                              *)
THEOREM OwnerIsSingle ==
  ASSUME ~Overlapping
  PROVE  BSpec => []SingleOwner
<1>1. BInv => SingleOwner
  BY DEF BInv
<1> QED
  BY <1>1, OwnershipInductive, PTL

(* I9: bootstrap never writes rc-0 over a managed label.                   *)
THEOREM SeedIsSingle ==
  ASSUME ~Overlapping
  PROVE  BSpec => []SeededOnce
<1>1. BInv => SeededOnce
  BY DEF BInv, SeedsCounted
<1> QED
  BY <1>1, OwnershipInductive, PTL

(* What Install shows of its controller and of the label.                  *)
LEMMA InstallByOwner ==
  ASSUME BInv, NEW c \in Controllers, Install(c)
  PROVE  /\ Claims(c) /\ label \in Versions
         /\ label' = current[c] + 1 /\ label' \in Versions /\ label' > label
<1>1. seededIn[c] = life
  BY BootstrapAssumption DEF BInv, Install, Between, LivesInOrder, BTypeOK, Owning
<1>2. /\ Claims(c) /\ label \in Versions /\ label <= current[c]
      /\ label' = current[c] + 1 /\ current[c] \in Versions /\ current[c] < MaxVersion
  BY <1>1 DEF BInv, Install, Between, Claims, Owning, OwnerLabel, ClaimShows
<1> QED
  BY <1>2, BootstrapAssumption DEF Versions

(* I1b at the engine: within one life of the engine no generation label is *)
(* used twice, not even after a READY controller has seeded it again.      *)
THEOREM LabelGrows ==
  ASSUME ~Overlapping
  PROVE  BSpec => LabelOnlyGrows
<1>1. BInv /\ [BNext]_bvars => [LabelStep]_bvars
  <2> SUFFICES ASSUME BInv, BNext PROVE LabelStep
    BY DEF LabelStep, bvars, engine
  <2>1. CASE EngineRestart
    BY <2>1, BootstrapAssumption DEF EngineRestart, LabelStep, BInv, BTypeOK
  <2>2. ASSUME NEW c \in Controllers, ControllerStep(c) PROVE LabelStep
    <3>1. CASE WriteSeed(c)
      BY <3>1 DEF WriteSeed, Step, LabelStep, BInv, ReadStillHolds
    <3>2. CASE Install(c)
      BY <3>2, InstallByOwner DEF LabelStep
    <3> QED
      BY <2>2, <3>1, <3>2 DEF ControllerStep, LabelStep, Start, ReadLabel, InitTransfer, ReadBack,
           WorldSize, Confirm, CallRaises, Commit, UpdateFails, Crash, engine
  <2> QED
    BY <2>1, <2>2 DEF BNext
<1> QED
  BY <1>1, OwnershipInductive, PTL DEF BSpec, LabelOnlyGrows

(* V1 has no recovery protocol: an engine whose owner crashed is adopted by*)
(* nobody until it is restarted.                                           *)
THEOREM StrandedStays ==
  ASSUME ~Overlapping
  PROVE  BSpec => StrandedUntilRestart
<1>1. BInv /\ [BNext]_bvars => [StrandedStep]_bvars
  <2> SUFFICES ASSUME BInv, BNext, Stranded, life' = life PROVE Stranded' /\ label' = label
    BY DEF StrandedStep
  <2> USE DEF Stranded
  <2>1. PICK c \in Controllers : ControllerStep(c)
    BY BootstrapAssumption DEF BNext, EngineRestart, BInv, BTypeOK
  <2>2. ~WriteSeed(c) /\ ~Install(c) /\ ~InitTransfer(c)
    BY InstallByOwner DEF WriteSeed, InitTransfer, Step, Reading
  <2>3. label' = label
    BY <2>1, <2>2 DEF ControllerStep, Start, ReadLabel, ReadBack, WorldSize, Confirm, CallRaises,
         Commit, UpdateFails, Crash, engine
  <2>4. \A d \in Controllers : Claims(d)' => Claims(d)
    BY <2>1, <2>2 DEF ControllerStep, Claims, Start, ReadLabel, ReadBack, WorldSize, Confirm,
         CallRaises, Commit, UpdateFails, Crash, Step, Turns, Between, private, Seeded, Owning, BInv,
         BTypeOK
  <2>5. \A d \in Controllers : pc'[d] \notin Reading \ {"read"}
    BY <2>1, <2>2 DEF ControllerStep, Start, ReadLabel, Refuses, Parses, ReadBack, WorldSize,
         Confirm, CallRaises, Commit, UpdateFails, Crash, Step, Between, Reading, BInv, BTypeOK
  <2> QED
    BY <2>3, <2>4, <2>5 DEF Versions
<1> QED
  BY <1>1, OwnershipInductive, PTL DEF BSpec, StrandedUntilRestart

=============================================================================
