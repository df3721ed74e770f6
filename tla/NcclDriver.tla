---------------------------- MODULE NcclDriver ------------------------------
(***************************************************************************)
(* The trainer and its NCCLWeightTransferDriver: which weights an update   *)
(* sends, and which weights it says it sent.                               *)
(*                                                                         *)
(* A weight identity is the digest of a parameter manifest and of the      *)
(* *declared* provenance of the tensors.  The driver computes it from its  *)
(* source once and caches it; declare() replaces the provenance and drops  *)
(* the cache.  transfer() refuses a target whose identity is not the       *)
(* driver's own and then lets vLLM read the tensors of the model, live,    *)
(* while the trainer thread is free to take its next step.                 *)
(***************************************************************************)
EXTENDS Naturals

CONSTANTS
    Steps,       \* training steps; each has weights of its own
    Boot,        \* what an engine started with --load-format dummy holds
    Torn,        \* what is left of a transfer cut short or overtaken
    None,
    Uncomputed,  \* the driver was not yet asked for its identity
    Manifest,    \* Manifest[s]: parameter manifest of the model at step s
    Devices,     \* CUDA devices
    MaxUpdates   \* bound on committed updates

ASSUME NcclAssumption ==
    /\ None \notin Steps \cup Devices
    /\ Boot \notin Steps /\ Torn \notin Steps \cup {Boot}
    /\ DOMAIN Manifest = Steps
    /\ MaxUpdates \in Nat

VARIABLES
    careful,     \* TRUE: the trainer declares truthfully, and never steps
                 \* between the choice of a target and the end of its transfer
    trainer,     \* the step whose tensors the model holds
    provenance,  \* of the driver: the declared step, or None
    cached,      \* _identity of the driver
    attached,    \* _engine of the driver is set
    device,      \* _device: where initialize() ran
    pending,     \* _pending_label of the sync client
    phase,       \* where the update is
    target,      \* the target being installed
    half,        \* the step whose tensors the first half of a broadcast read
    holds,       \* the weights in the engine
    label,       \* weight_version of the engine
    committed    \* the committed target of the controller

driver == <<provenance, cached, attached, device, pending>>
engine == <<holds, label>>
nvars  == <<careful, trainer, driver, phase, target, half, engine, committed>>

Declared   == Steps \cup {None}
Identity(s, p) ==
    [digest |-> <<Manifest[s], p>>, manifest |-> Manifest[s], source |-> p]
Identities == {Identity(s, p) : s \in Steps, p \in Declared}
Weights    == Steps \cup {Boot, Torn}
NTargets   == [version : Nat, identity : Identities]
Phases     == {"uninitialized", "ready", "draining", "sending", "half",
               "sent", "finished", "stopped"}

(* The phases in which the controller serves rollouts.                     *)
Serving == phase \in {"ready", "draining"}

NInit ==
    /\ careful \in BOOLEAN
    /\ trainer \in Steps
    /\ provenance \in {trainer, None}
    /\ cached = Uncomputed
    /\ attached = FALSE
    /\ device = None
    /\ pending = None
    /\ phase = "uninitialized"
    /\ target = None
    /\ half = None
    /\ holds \in {trainer, Boot}
    /\ label = None
    /\ committed = None

-----------------------------------------------------------------------------
(* The trainer.                                                            *)

TrainerStep ==
    /\ careful => phase \in {"uninitialized", "ready", "stopped"}
    /\ \E s \in Steps \ {trainer} : trainer' = s
    /\ UNCHANGED <<careful, driver, phase, target, half, engine, committed>>

(* What identity() returns: the cache, or the manifest of the model as it  *)
(* is now under the declared provenance.                                   *)
IdentityNow == IF cached = Uncomputed THEN Identity(trainer, provenance) ELSE cached

AskIdentity ==
    /\ cached' = IdentityNow
    /\ UNCHANGED <<careful, trainer, provenance, attached, device, pending,
                   phase, target, half, engine, committed>>

(* Mutant: a declaration that keeps the cache.                             *)
Declare_KeepsCache(p) ==
    /\ careful => p = trainer
    /\ provenance' = p
    /\ cached' = IdentityNow
    /\ UNCHANGED <<careful, trainer, attached, device, pending, phase, target,
                   half, engine, committed>>

(* declare(): the new provenance, and the identity computed again.         *)
Declare(p) ==
    /\ careful => p = trainer
    /\ provenance' = p
    /\ cached' = Identity(trainer, p)
    /\ UNCHANGED <<careful, trainer, attached, device, pending, phase, target,
                   half, engine, committed>>

-----------------------------------------------------------------------------
(* The driver.                                                             *)

(* bootstrap: the rendezvous, and the adoption of whatever the engine      *)
(* holds as the identity the caller computed.  Nothing is sent.            *)
DriverInitialize(d) ==
    /\ phase = "uninitialized"
    /\ phase' = "ready"
    /\ device' = d
    /\ attached' = TRUE
    /\ cached' = IdentityNow
    /\ label' = 0
    /\ committed' = [version |-> 0, identity |-> IdentityNow]
    /\ UNCHANGED <<careful, trainer, provenance, pending, target, half, holds>>

(* The caller's next_target(i) and the drain of run_cycle.                 *)
OpenUpdate(i) ==
    /\ phase = "ready"
    /\ committed.version < MaxUpdates
    /\ careful => provenance \in {trainer, None}
    /\ phase' = "draining"
    /\ target' = [version |-> committed.version + 1, identity |-> i]
    /\ UNCHANGED <<careful, trainer, driver, half, engine, committed>>

(* The current device is per thread.                                       *)
DeviceMismatch(d) == None \notin {device, d} /\ device # d

Usable(d) == attached /\ ~DeviceMismatch(d)

(* A refused transfer has sent nothing; the update goes no further.        *)
TransferRefused(d) ==
    /\ phase = "draining"
    /\ \/ ~Usable(d) /\ UNCHANGED cached
       \/ Usable(d) /\ IdentityNow # target.identity /\ cached' = IdentityNow
    /\ phase' = "stopped"
    /\ UNCHANGED <<careful, trainer, provenance, attached, device, pending,
                   target, half, engine, committed>>

(* Mutant: the identity of the target is taken from the target.            *)
TransferStart_TrustsTarget(d) ==
    /\ phase = "draining" /\ Usable(d)
    /\ cached' = IdentityNow
    /\ pending' = target.version
    /\ phase' = "sending"
    /\ UNCHANGED <<careful, trainer, provenance, attached, device, target, half,
                   engine, committed>>

TransferStart(d) ==
    /\ phase = "draining" /\ Usable(d)
    /\ IdentityNow = target.identity
    /\ cached' = IdentityNow
    /\ pending' = target.version
    /\ phase' = "sending"
    /\ UNCHANGED <<careful, trainer, provenance, attached, device, target, half,
                   engine, committed>>

(* send_weights, in two halves: the tensors are read as they are sent.     *)
SendHalf ==
    /\ phase = "sending"
    /\ phase' = "half"
    /\ half' = trainer
    /\ holds' = Torn
    /\ UNCHANGED <<careful, trainer, driver, target, label, committed>>

SendRest ==
    /\ phase = "half"
    /\ phase' = "sent"
    /\ holds' = IF half = trainer THEN trainer ELSE Torn
    /\ half' = None
    /\ UNCHANGED <<careful, trainer, driver, target, label, committed>>

(* finish_weight_update with the version the driver set on the client.     *)
FinishLabel ==
    /\ phase = "sent"
    /\ phase' = "finished"
    /\ label' = pending
    /\ UNCHANGED <<careful, trainer, driver, target, half, holds, committed>>

SendFails ==
    /\ phase \in {"sending", "half", "sent"}
    /\ phase' = "stopped"
    /\ half' = None
    /\ UNCHANGED <<careful, trainer, driver, target, engine, committed>>

(* Mutant: the pending target is cleared before it is committed.           *)
CommitUpdate_Cleared ==
    /\ phase = "finished"
    /\ label = target.version
    /\ phase' = "ready"
    /\ target' = None
    /\ committed' = target'
    /\ UNCHANGED <<careful, trainer, driver, half, engine>>

(* The confirmations of the controller: label and reported identity are    *)
(* those of the target.                                                    *)
CommitUpdate ==
    /\ phase = "finished"
    /\ label = target.version
    /\ phase' = "ready"
    /\ committed' = target
    /\ target' = None
    /\ UNCHANGED <<careful, trainer, driver, half, engine>>

DriverShutdown ==
    /\ attached /\ Serving
    /\ attached' = FALSE
    /\ UNCHANGED <<careful, trainer, provenance, cached, device, pending, phase,
                   target, half, engine, committed>>

DriverNext ==
    \/ TrainerStep \/ AskIdentity
    \/ \E p \in Steps : Declare(p)
    \/ \E d \in Devices \cup {None} :
          DriverInitialize(d) \/ TransferRefused(d) \/ TransferStart(d)
    \/ \E i \in Identities : OpenUpdate(i)
    \/ SendHalf \/ SendRest \/ FinishLabel \/ SendFails
    \/ CommitUpdate \/ DriverShutdown

NSpec == NInit /\ [][DriverNext]_nvars

-----------------------------------------------------------------------------

NTypeOK ==
    /\ careful \in BOOLEAN /\ attached \in BOOLEAN
    /\ trainer \in Steps
    /\ provenance \in Declared
    /\ cached \in Identities \cup {Uncomputed}
    /\ device \in Devices \cup {None}
    /\ pending \in Nat \cup {None} /\ label \in Nat \cup {None}
    /\ phase \in Phases
    /\ target \in NTargets \cup {None} /\ committed \in NTargets \cup {None}
    /\ half \in Declared
    /\ holds \in Weights
    /\ Serving => committed \in NTargets

(* A committed update names the weights that serve: while the engine       *)
(* serves a version some update installed, under a careful trainer, the    *)
(* declared source of the committed identity, if there is one, is the step *)
(* whose tensors the engine holds.  Not so for rc-0: bootstrap sends       *)
(* nothing, and adopts what the engine was started with.                   *)
LabelNamesWeights ==
    careful /\ Serving /\ committed.version > 0 =>
        committed.identity.source \in {None, holds}

=============================================================================
