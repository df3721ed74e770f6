----------------------------- MODULE Bootstrap ------------------------------
(***************************************************************************)
(* Several controllers and one engine: who may take it.                    *)
(*                                                                         *)
(* An engine says in its label whether somebody manages it: "rc-n" is      *)
(* managed, anything else is not.  HttpVLLMAdapter.bootstrap reads that    *)
(* label, refuses a managed engine before it writes anything, opens the    *)
(* weight transfer, writes rc-0, reads it back, and hands the evidence to  *)
(* LifecycleController.initialize.  These are calls of their own, with no  *)
(* lease around them.  A controller is a process that can crash between    *)
(* any two of them, as the engine can be restarted; a restarted engine is  *)
(* fresh.  Nothing in runner or adapter asks in which state the controller *)
(* is: initialize, the last call, is the first to refuse a controller that *)
(* is READY or TAINTED.  FakeVLLMAdapter.bootstrap takes the same steps.   *)
(***************************************************************************)
EXTENDS Naturals

CONSTANTS
    Controllers,  \* controller processes
    Fresh,        \* "default", the label of a server nobody seeded
    Malformed,    \* "rc-x": has the prefix and is not a version
    None,
    Overlapping,  \* may a bootstrap begin while another one is under way?
    MaxVersion,   \* bound on the versions published in one life of the engine
    MaxLives      \* bound on the lives of the engine

ASSUME BootstrapAssumption ==
    /\ Overlapping \in BOOLEAN
    /\ MaxVersion \in Nat /\ MaxLives \in Nat \ {0}
    /\ {Fresh, Malformed, None} \cap Nat = {}
    /\ None \notin {Fresh, Malformed} /\ Fresh # Malformed

VARIABLES
    adapter,   \* which adapter the controllers use, "http" or "fake"
    life,      \* how often the engine was started
    label,     \* weight_version of the engine
    state,     \* state[c]: the lifecycle state of controller c
    pc,        \* pc[c]: the next call of its bootstrap, or "idle"
    pre,       \* pre[c]: pre_seed_label, the label its bootstrap read first
    seen,      \* seen[c]: observed_engine_label, the label it read back
    current,   \* current[c]: the version it has committed
    attached,  \* attached[c]: the life its weight transfer was opened in, or 0
    seededIn,  \* seededIn[c]: the life it wrote rc-0 in, or 0
    seeds      \* how often rc-0 was written in this life (history)

engine  == <<adapter, life, label, seeds>>
private == <<pre, seen, current, attached, seededIn>>
bvars   == <<engine, state, pc, private>>

Versions == 0..MaxVersion
BLabels  == Versions \cup {Fresh, Malformed}

(* "UPDATING" is the update between finish_weight_update and the commit;   *)
(* the calls of a bootstrap before and after the seed.                     *)
States    == {"UNINITIALIZED", "READY", "UPDATING", "TAINTED"}
Owning    == {"READY", "UPDATING"}
Reading   == {"read", "init", "seed"}
Seeded    == {"check", "size", "confirm"}
Bootstrapping(c) == pc[c] \in Reading \cup Seeded

BInit ==
    /\ adapter \in {"http", "fake"}
    /\ life = 1
    /\ label \in BLabels
    /\ state = [c \in Controllers |-> "UNINITIALIZED"]
    /\ pc = [c \in Controllers |-> "idle"]
    /\ pre = [c \in Controllers |-> None]
    /\ seen = [c \in Controllers |-> None]
    /\ current = [c \in Controllers |-> None]
    /\ attached = [c \in Controllers |-> 0]
    /\ seededIn = [c \in Controllers |-> 0]
    /\ seeds = 0

-----------------------------------------------------------------------------
(* Labels.                                                                 *)

(* Mutant: rc-0 has no published update, so it is taken for nobody's.      *)
Parses_NotZero(l) == l \in Versions \ {0}

(* parse_label succeeds.                                                   *)
Parses(l) == l \in Versions

(* The fake engine looks at the prefix only, the HTTP adapter parses.      *)
Refuses(l) == Parses(l) \/ (adapter = "fake" /\ l = Malformed)

-----------------------------------------------------------------------------
(* Bootstrap, call by call.                                                *)

Step(c, from, to) == pc[c] = from /\ pc' = [pc EXCEPT ![c] = to]
Turns(c, to)      == state' = [state EXCEPT ![c] = to]

(* A call raised something other than a RolloutCoreError: runner.bootstrap *)
(* taints the controller.                                                  *)
CallRaises(c) ==
    /\ \E call \in (Reading \cup Seeded) \ {"confirm"} : Step(c, call, "idle")
    /\ Turns(c, "TAINTED")
    /\ UNCHANGED <<engine, private>>

(* runner.bootstrap, of a controller in any state.                         *)
Start(c) ==
    /\ Overlapping \/ \A d \in Controllers : ~Bootstrapping(d)
    /\ Step(c, "idle", "read")
    /\ UNCHANGED <<engine, state, private>>

(* Mutant: the refusal is left to the evidence check after the write.      *)
ReadLabel_Lazily(c) ==
    /\ Step(c, "read", "init")
    /\ pre' = [pre EXCEPT ![c] = label]
    /\ UNCHANGED <<engine, state, seen, current, attached, seededIn>>

(* A managed engine is refused: the controller stays what it is and may    *)
(* try again.                                                              *)
ReadLabel(c) ==
    /\ \/ Refuses(label) /\ Step(c, "read", "idle") /\ UNCHANGED pre
       \/ ~Refuses(label) /\ Step(c, "read", "init") /\ pre' = [pre EXCEPT ![c] = label]
    /\ UNCHANGED <<engine, state, seen, current, attached, seededIn>>

(* driver.initialize: the NCCL driver joins the group of this server, the  *)
(* lifecycle-only driver does nothing; WeightTransferNotConfiguredError is *)
(* a RolloutCoreError and passes.                                          *)
InitTransfer(c) ==
    /\ \/ /\ Step(c, "init", "seed")
          /\ \E l \in {attached[c], life} : attached' = [attached EXCEPT ![c] = l]
       \/ Step(c, "init", "idle") /\ UNCHANGED attached
    /\ UNCHANGED <<engine, state, pre, seen, current, seededIn>>

(* POST /update_weight_version with rc-0; the answer may be lost.          *)
WriteSeed(c) ==
    /\ \/ Step(c, "seed", "check") /\ UNCHANGED state
       \/ Step(c, "seed", "idle") /\ Turns(c, "TAINTED")
    /\ label' = 0
    /\ seeds' = seeds + 1
    /\ seededIn' = [seededIn EXCEPT ![c] = life]
    /\ UNCHANGED <<adapter, life, pre, seen, current, attached>>

ReadBack(c) ==
    /\ Step(c, "check", "size")
    /\ seen' = [seen EXCEPT ![c] = label]
    /\ UNCHANGED <<engine, state, pre, current, attached, seededIn>>

WorldSize(c) == Step(c, "size", "confirm") /\ UNCHANGED <<engine, state, private>>

(* Mutant: the label that was read back is adopted, whatever it is.        *)
Confirm_AnyLabel(c) ==
    /\ Step(c, "confirm", "idle")
    /\ Turns(c, "READY")
    /\ current' = [current EXCEPT ![c] = seen[c]]
    /\ UNCHANGED <<engine, pre, seen, attached, seededIn>>

(* initialize: legal in UNINITIALIZED only; the evidence must show an      *)
(* unmanaged label before and rc-0 after.                                  *)
Confirm(c) ==
    /\ Step(c, "confirm", "idle")
    /\ \/ state[c] # "UNINITIALIZED" /\ UNCHANGED <<state, current>>
       \/ /\ state[c] = "UNINITIALIZED"
          /\ ~Parses(pre[c]) /\ seen[c] = 0
          /\ Turns(c, "READY")
          /\ current' = [current EXCEPT ![c] = 0]
       \/ /\ state[c] = "UNINITIALIZED"
          /\ Parses(pre[c]) \/ seen[c] # 0
          /\ Turns(c, "TAINTED") /\ UNCHANGED current
    /\ UNCHANGED <<engine, pre, seen, attached, seededIn>>

-----------------------------------------------------------------------------
(* An owner updates its engine; its calls are made one after another.      *)

Between(c, from) == pc[c] = "idle" /\ state[c] = from /\ UNCHANGED pc

(* transfer and finish_weight_update: possible only over the transfer that *)
(* was opened with this very server.                                       *)
Install(c) ==
    /\ Between(c, "READY") /\ Turns(c, "UPDATING")
    /\ attached[c] = life
    /\ current[c] < MaxVersion
    /\ label' = current[c] + 1
    /\ UNCHANGED <<adapter, life, seeds, private>>

(* confirm_validated and confirm_resumed compare the label with the target.*)
Commit(c) ==
    /\ Between(c, "UPDATING")
    /\ \/ /\ label = current[c] + 1
          /\ Turns(c, "READY")
          /\ current' = [current EXCEPT ![c] = @ + 1]
       \/ /\ label # current[c] + 1
          /\ Turns(c, "TAINTED") /\ UNCHANGED current
    /\ UNCHANGED <<engine, pre, seen, attached, seededIn>>

(* A call of the update fails: its server is gone, or for another reason.  *)
UpdateFails(c) ==
    /\ \E from \in Owning : Between(c, from)
    /\ Turns(c, "TAINTED")
    /\ UNCHANGED <<engine, private>>

-----------------------------------------------------------------------------
(* Crashes.                                                                *)

(* The process of c is gone; its successor knows nothing.                  *)
Crash(c) ==
    /\ pc[c] # "idle" \/ state[c] # "UNINITIALIZED"
    /\ Turns(c, "UNINITIALIZED")
    /\ pc' = [pc EXCEPT ![c] = "idle"]
    /\ pre' = [pre EXCEPT ![c] = None]
    /\ seen' = [seen EXCEPT ![c] = None]
    /\ current' = [current EXCEPT ![c] = None]
    /\ attached' = [attached EXCEPT ![c] = 0]
    /\ seededIn' = [seededIn EXCEPT ![c] = 0]
    /\ UNCHANGED engine

EngineRestart ==
    /\ life < MaxLives
    /\ life' = life + 1
    /\ label' = Fresh
    /\ seeds' = 0
    /\ UNCHANGED <<adapter, state, pc, private>>

ControllerStep(c) ==
    \/ Start(c) \/ ReadLabel(c) \/ InitTransfer(c) \/ WriteSeed(c)
    \/ ReadBack(c) \/ WorldSize(c) \/ Confirm(c) \/ CallRaises(c)
    \/ Install(c) \/ Commit(c) \/ UpdateFails(c) \/ Crash(c)

BNext == EngineRestart \/ \E c \in Controllers : ControllerStep(c)

BSpec == BInit /\ [][BNext]_bvars

-----------------------------------------------------------------------------
(* Properties.                                                             *)

(* The values of the labels and of what each controller remembers.         *)
BTypeOK ==
    /\ adapter \in {"http", "fake"}
    /\ life \in 1..MaxLives
    /\ label \in BLabels
    /\ state \in [Controllers -> States]
    /\ pc \in [Controllers -> {"idle"} \cup Reading \cup Seeded]
    /\ pre \in [Controllers -> BLabels \cup {None}]
    /\ seen \in [Controllers -> BLabels \cup {None}]
    /\ current \in [Controllers -> Versions \cup {None}]
    /\ attached \in [Controllers -> 0..MaxLives]
    /\ seededIn \in [Controllers -> 0..MaxLives]
    /\ seeds \in Nat

(* c has written rc-0 to the engine as it now runs, and acts as its owner  *)
(* or is about to.                                                         *)
Claims(c) == (pc[c] \in Seeded \/ state[c] \in Owning) /\ seededIn[c] = life

(* I7, "one RolloutCore instance owns lifecycle and weight mutations": no  *)
(* two controllers hold the same running engine, across crashes, restarts, *)
(* refusals and retries.  Depends on bootstraps not overlapping.           *)
SingleOwner ==
    \A c, d \in Controllers : Claims(c) /\ Claims(d) => c = d

(* I9: while an engine runs, rc-0 is written to it at most once: never     *)
(* over the label of an owner, nor over that of one which crashed.         *)
SeededOnce == seeds <= 1

(* I1b at the engine: within one life of the engine its label goes from    *)
(* unmanaged to rc-0 and from there only up: no generation is ever reused, *)
(* whoever crashes between the label write and the commit, and although a  *)
(* controller that was READY before the engine restarted may seed it again *)
(* and go on from its own generation.                                      *)
LabelStep ==
    label' # label /\ life' = life =>
        IF label \in Versions
        THEN label' \in Versions /\ label' > label
        ELSE label' = 0
LabelOnlyGrows == [][LabelStep]_bvars

(* README.md, "Single writer": what a user of READY controllers relies on. *)
(* Implied by SingleOwner, so true without overlap; refuted with it.       *)
SingleWriter ==
    \A c, d \in Controllers :
        /\ state[c] \in Owning /\ seededIn[c] = life
        /\ state[d] \in Owning /\ seededIn[d] = life
        => c = d

(* A managed engine that no live controller claims and that no bootstrap   *)
(* is looking at.                                                          *)
Stranded ==
    /\ label \in Versions
    /\ \A c \in Controllers : ~Claims(c) /\ pc[c] \notin Reading \ {"read"}

(* V1 has no recovery: a crash after the label write strands the engine,   *)
(* and only its restart frees it.  No sequence of bootstraps, refused or   *)
(* not, quietly adopts it.                                                 *)
StrandedStep == Stranded /\ life' = life => Stranded' /\ label' = label
StrandedUntilRestart == [][StrandedStep]_bvars

=============================================================================
