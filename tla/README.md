# A verification of RolloutCore

RolloutCore keeps the weight generations of a vLLM server apart during
reinforcement learning: every rollout is bound to one `UpdateTarget` (a version
and a weight identity), and a new target is published only after the engine has
been drained, updated, stripped of its caches, validated and resumed. The
program is about 4,800 lines of Python, with one lock, one background thread per
drain attempt, an engine behind HTTP calls that can fail half way, and rollout
threads that nobody synchronises with the update. Around it stand a trainer that
says which weights it sends, records of rollouts that are replayed to check what
it said, and scripts that put all of it to the test on real engines. This
directory models the control plane, the trainer's driver, the records and their
validator, and the scripts in TLA+, checks them with TLC and proves the core of
each with TLAPS.

Paths below are relative to the repository.

## 1. Inventory

| Component | State it keeps | Operations | Modelled in |
|---|---|---|---|
| Lifecycle controller, `src/rolloutcore/lifecycle.py` | `_state`, `_current_target`, `_pending_target`, `_active`, `_orphaned`, `_tainted_in_state`, `_seq`, `_journal` | `initialize`, `begin_drain`, five `confirm_*` and `begin_update`, `taint`, `admit_rollout`, `finish_rollout`, `abort_rollout` | `Lifecycle`, `LifecycleJournal` |
| Evidence, `evidence.py` | none: frozen dataclasses | `failure_reason` of each | `Lifecycle` |
| Versions, `versions.py` | none | labels `rc-n` and back, `UpdateTarget`, manifest digests | `Lifecycle` (labels, targets), `NcclDriver` (identities), `Bootstrap` (malformed labels) |
| Runner, `runner.py` | position in `run_cycle`, poll count | `bootstrap`, `run_cycle`, `install_next`, `_effect`, `_observe` | `RolloutCycle`, `ServingStack`, `Bootstrap` |
| HTTP adapter, `adapters/http.py` | `_drain_state`, `_drain_attempts`, the drain thread, `_inflight` | the calls of the port; `_start_attempt`, `_pause_attempt`, `_abort_all` | `HttpDrain`, `RolloutCycle`; `bootstrap` in `Bootstrap` |
| vLLM engine (outside the repository; mirrored by `adapters/fake_engine.py`) | pause state, queues, weights, label, caches | pause, resume, weight update, three cache resets, requests | `VllmEngine` |
| Rollout owners (client code; `diagnostics/rolloutcore_trajectory_2gpu.py:363-393`) | a thread per request | admit, send, receive, read the label, release | `RolloutCycle` |
| Trainer and NCCL driver, `adapters/nccl.py`, `weight_transfer.py` | `provenance`, `_identity` (a cache), `_engine`, `_device`, the sync client's `_pending_label` | `identity`, `declare`, `initialize`, `transfer`, `shutdown` | `NcclDriver`; what `run_cycle` sees of it in `RolloutCycle` |
| Trajectories, `trajectory.py` | the recorder's list, a JSONL file | `record`, `write_jsonl`, `read_jsonl`, `replay_ready`, `spans_an_update` | `Provenance`, `RolloutCycle` |
| Replay validator, `replay.py`, `scripts/validate_replay.py` | none | compare a record with its replay; the command over two files | `Replay`, `Provenance` |
| Fake engine and fake adapter, `adapters/fake_engine.py`, `adapters/fake.py` | the engine's label, weights, pause state, caches, injected faults | the port, each operation with its fault | `ServingStack`, `VllmEngine`, `Bootstrap` |
| Demo, smoke, GPU diagnostics: `demo.py`, `scripts/live_control_plane_smoke.py`, seven of `diagnostics/` | a server process, a scenario, checks, a report file, an exit code | launch, scenario steps, kill, report, stop | `Experiments` over `ServingStack` |
| Anchor verification, the upstream NCCL diagnostic, tests | | | not modelled (section 6) |

How they interact. The runner calls the adapter, which calls the engine, and
hands the evidence it gets back to the controller. The controller never calls
anyone: it decides, from the evidence and its own count of rollouts, whether to
advance, to wait or to taint. Rollout threads call the controller directly
(admit, release) and the engine directly (the request itself). The adapter's
drain runs `POST /pause?mode=wait` on a thread of its own, whose verdict
`await_drain` polls. An operator may call `taint` at any time. The trainer shares
its live tensors with the driver, and the engine's label is all that two
controllers have in common. A record and its replay share nothing but two files.

What is hard, and which properties are for it (PROJECT.json lists each hazard at
its line):

* **The release races the drain.** The engine is drained the moment the last
  request leaves it, while its answer is still on the way to the thread that
  must release the rollout. `confirm_drained` taints on the disagreement. The
  controller must neither update under a rollout nor wait for ever:
  `DrainBeforeMutation`, `NoMixedRollout`, `CycleSettles`, `BindingsResolve`.
* **Calls come apart.** An HTTP call may fail without effect, take effect and
  fail, or take effect and be answered: `UpdatesUnderPause`,
  `ServesOnlyOneVersion`, `ReadyServesCommitted`.
* **Verdicts outlive their drain.** `_drain_state` still holds the last verdict
  when the next drain begins: `CompletedMeansDrained`, `OneLiveAttempt`.
* **Partial failure after the label is written.** The engine says `rc-n` while
  its caches or weights do not: `ServesOnlyOneVersion`, `CommitsAtomically`,
  `PublishedOnlyAfterProof`.
* **Conservation.** A taint with live rollouts must keep every binding
  (`NoRolloutLost`, `OrphansPredateUpdate`), and the journal must account for
  every sequence number (`EverySeqAccountedFor`,
  `JournalReconstructsController`, `MutationRecordedAfterReleases`).
* **Calls that outlive their caller.** A `/pause` given up on is read by the server
  later, in another drain or after the commit: `UpdatesUnderPause`,
  `CompletedMeansDrained`, `ReadyServesCommitted`.
* **Taking an engine is several calls.** A controller crashes, or a second one
  starts, between the read of the label and its write, or a controller that is READY
  already takes its restarted engine again: `SingleOwner`, `SeededOnce`,
  `LabelOnlyGrows`, `StrandedUntilRestart`.
* **The name and the weights come apart.** A cached identity, a trainer that steps
  during a broadcast, an engine started with other weights:
  `LabelNamesWeights`, `ReplayCatchesMisattribution`; and the validator must see
  that and raise no false alarm: `FaithfulReplayPasses`, `VerdictIsRight`,
  `PassCoversFiles`.
* **Experiments that lie.** A script whose engine dies, hangs or never starts must
  not pass, must not leave a server behind and must end unless a collective holds its
  main thread: `PassIsEarned`, `NoOrphanServer`, `ScriptEnds`; what it drives must fail
  closed, whichever call fails and whether or not it took effect: `FailClosed`.

## 2. The modules

```
VersionedServing          what RolloutCore promises: one published target at a time
   ^ implemented by (checked and proved)
Lifecycle                 the controller, evidence chosen freely
   ^ extended by
   +-- LifecycleProofs
   +-- LifecycleJournal   the audit trail                     <- JournalProofs
   +-- RolloutCycle       runner, adapter, threads, operator  <- RolloutCycleProofs
   |                      (extends HttpDrain, which extends VllmEngine)
   +-- ServingStack       one controller, one runner, one engine that may die,
         |                and calls that may fail while it lives
         ^ extended by Experiments     the scripts that drive it <- ExperimentsProofs
                                                                    ^ extended by PassProofs

Bootstrap                 several controllers, one engine     <- BootstrapProofs
NcclDriver                the trainer and its driver          <- ProvenanceProofs
   ^ extended by
   +-- Provenance         records, file, replays, verdict     <- ProvenanceProofs
                          (instantiates Replay)
Replay                    the comparison and its reference    <- ReplayProofs

MC*: instances for TLC
```

**`VersionedServing`** is the abstract specification: `published`, `open`,
`failed`, `bound`; `Publish` is one indivisible step, taken while nothing is
bound, to a strictly newer target. It knows no drain and no lifecycle state.

**`Lifecycle`** is the controller. Its variables are the controller's
attributes; `active[r]` is the target of the binding of `r`, or `None`. Each
public method is one action, because `_locked` holds the lock for the whole
body. Calls that raise without a change (`IllegalTransitionError`,
`EvidenceNotReady`, `InvariantViolation`, `NotServingError`,
`UnknownRolloutError`) are guards; calls that taint are disjuncts. The evidence
of each `confirm_*` is *any* value its dataclass can hold, so the results hold
for any adapter, honest or not. Labels `rc-n` are the number `n`, every other
string is the one value `Unmanaged`: that is what `WeightVersion.parse_label`
distinguishes. The salt of a binding is a function of its version and is left
out.

**`LifecycleJournal`** adds `_seq`, `_journal` and the sequence numbers of
bindings and orphans. Each of its actions is the action of `Lifecycle` together
with the records it writes; a taint with *k* orphans consumes *k* + 1 numbers
and writes one record.

**`VllmEngine`** is the engine as the repository uses it. `fake_engine.py` is
mirrored where it has the operation (pause sets the state first and then waits;
finish writes the label and drops no cache; each reset drops one cache). The
request queue, which the fake engine reduces to a counter, follows
`docs/source-map-vllm-main.md` section 4.3: under `PAUSED_NEW` the drain counts
running requests only, and waiting ones are accepted and not scheduled.
`ranUnder[r]` and `caches[k]` record under which weights tokens and cache
contents were computed; `Mixed` stands for half-loaded weights; the ghost `stray`
says that a pause nobody waits for any more arrived since the last resume.

**`HttpDrain`** is the adapter's drain: the attempt counter, the verdict, and
the threads with the phases of one `/pause` call (posted, held by the engine,
over and not yet recorded). `StartAttempt` and `WriteVerdict` are the critical
sections of the code. A call that is not delivered before its client gives up is
lost, or it is `late` (at most `MaxLate` at a time) and takes effect on the engine
whenever the server gets to it.

**`RolloutCycle`** composes everything. `pc[c]` is the next call of runner `c`
in `run_cycle`; one step is one call of the controller or one HTTP call. A call
that fails comes in the kinds the code tells apart: an `HTTPAdapterError` that
is caught (cache resets, resume, abort), a foreign exception of a mutating call
(`TaintAndRaise`, that is `_effect`), a failed observation (`Raise`, that is
`_observe`) and a `RolloutCoreError` that passes through. The constants
`Refusals`, `StaleTargets`, `PollsRunOut`, `OperatorTaints`, `Impatient`,
`RedrainFrom` and `Outcomes` switch the sources of trouble on and off.

**`Bootstrap`** is `bootstrap` of both adapters, call by call, for several
controllers and an engine that restarts. `life` counts the engine's starts;
`seededIn[c]` is the life in which `c` wrote `rc-0`. `pc[c]` is the next call of a
bootstrap and is kept apart from the controller's state, because neither runner nor
adapter looks at that state: a READY or TAINTED controller may bootstrap, and
`initialize`, the last call, is the first to refuse it. A READY controller whose
engine was restarted thus writes `rc-0` there, joins its transfer, stays READY at
*n* and labels its next update *n* + 1: `LabelOnlyGrows` says "from unmanaged to
`rc-0`, then strictly up", and not "up by one". A controller can crash
between any two calls, a call can raise (the runner taints) and the answer of the
label write can be lost. The fake adapter refuses a label by its prefix, the HTTP
adapter by parsing it: `Refuses` keeps the difference (the comment in `fake.py`
says that it mirrors the other). `Overlapping` decides whether one bootstrap may
begin during another.

**`NcclDriver`** is the trainer and its driver. An identity is the pair of its
manifest and its *declared* provenance, which is what the digest is computed
from. The two halves of a broadcast read the model as it is when they run, so a
trainer that steps in between produces `Torn` weights. `careful` is the discipline
the documentation asks of a trainer: declare what is true, and do not step between
the choice of a target and the end of its transfer.

**`Replay`** is `replay.py` as operators on records, with `Reproduces` and
`RightVerdict`, the definition they are checked against. Logprobs are integers.

**`Provenance`** puts the two together: the trainer updates and records, writes
the file and exits; somebody replays, forced or greedy, with or without logprobs
and digests, with noise up to the tolerance or with one of seven flaws; and
`validate_replay.py` compares the files. `ran` and `by` remember, for the
properties only, which weights were really at work.

**`ServingStack`** is the cycle once more, against an engine whose calls take
effect or raise. A call raises because the engine is dead; because the fake engine was
told to refuse that operation, and then without effect; or, over HTTP (`"network"` in
`faults`), for no reason on the engine's side, and then with its effect or without it
(`Lost`): a timeout, a 5xx answer, a reset connection, an exception out of
`send_weights`. A POST `/resume` that fails over HTTP is reported as unacknowledged
(`http.py:397`), and the reads behind a resume can fail when the engine serves again.
The module covers the fake adapter and the fake engine, and gives the scripts a cycle
that returns, raises or stays in the collective (`Collective`).

**`Experiments`** is the scripts. A scenario is a sequence of step names that the
main thread takes in order, next to the thread of a spawned cycle, the request in
flight, a server process with its engine-core children, and a user who
interrupts. Calls the script makes itself fail like those of a cycle (`Directly`,
`CallFails`). An exception leaves the `try`; the `finally` writes the report and
then stops the server. What differs between scripts is kept: who owns the process
group, who starts its server inside the `try`, who leaves by `os._exit`.

Definitions marked *Mutant* are plausible wrong versions of the definition that
follows them. No specification uses them; substituting one for its original
shows that a property is able to fail.

## 3. The runs

| Run | Configuration | Shows |
|---|---|---|
| `lifecycle` | 2 rollouts, 2 identities, versions 0..3; 266 states | type, five invariants, three action properties, and `Spec` implements `VersionedServing` |
| `journal` | 2 rollouts, versions 0..2, 12 sequence numbers; 170,000 states | the audit trail is complete and sufficient |
| `cycle` | 2 runners, 2 rollouts, versions 0..2, 1 reissue, 1 late pause, every fault on; 2.3 million states up to symmetry | end-to-end safety; a pause that arrives after its client gave up harms no rollout and proves no drain |
| `cycle_returns` | the same faults, 2 runners, 1 rollout, versions 0..1 | `run_cycle` returns, raises, or stays in the collective |
| `cycle_settles` | no faults, 1 runner, 2 rollouts, versions 0..2 | a drain leads to a commit or to the drain-disagreement taint; no rollout stays bound |
| `bootstrap` | 3 controllers, versions 0..2, 2 lives of the engine, both adapters, any first label, bootstraps of controllers in any state; 92,000 states | one owner per life, one seed, a label that starts at `rc-0` and only grows, no silent adoption |
| `provenance` | 2 steps, 2 devices, 1 update, 2 records; 1.4 million states | names and weights, from the trainer to the verdict |
| `experiments` | all ten scripts, 1 rollout, every call over HTTP may fail; 63,000 states | what a pass, an exit code and a report are worth |
| `failed_drain`, `tainted_resume`, `lost_resume_answer`, `single_writer` | the smallest instances | violations, see section 5 |

**Bounds.** Two rollouts suffice for every interaction the controller has
between rollouts (one is admitted, released or orphaned while another is
active); its code treats them uniformly. Two identities let evidence name the
wrong weights; in the composition identities only travel, so one is enough.
Versions 0..3 allow a skipped generation and three commits in a row; 0..2 allow
a second cycle that starts from what the first one left behind (a stale verdict,
a stale label), which is the longest dependency between cycles. Two runners are
the smallest race between cycles. `DrainReissues = 1` gives a first, a reissued
and a last attempt. `Threads` bounds the pause calls alive at once; one is
enough because `OneLiveAttempt` holds without it blocking anything (a new
attempt starts only after the verdict of the one before). `MaxSeq = 12` is
bootstrap, a complete update (six records), an admission and a release, and a
taint with two orphans. One late pause is enough to hit any later step; a
second adds nothing an engine that is paused already could show. Three controllers
are an owner, one that is refused and one that crashed; two lives are the engine
before and after a restart. In `provenance` two steps differ in their logprobs
only and the engine's boot weights in the tokens, so that a wrong attribution
shows in either lane; the logprobs of different weights are further apart than
tolerance and noise together, which `ReplayCatchesMisattribution` needs (two sets
of weights nobody can tell apart by their logprobs pass, and should). Two records
are the smallest file with a repeated request id. Symmetry (rollouts, runners,
controllers, requests) is used for safety runs only.

**Deadlock** is not checked: a tainted controller stops by design
(`TAINTED` is terminal), and so does a controller left in DRAINING, QUIESCED or
UPDATING by a `run_cycle` that raised. A finished verdict and an exited script
stop as well. `bootstrap` checks it: a controller can always start again.

**Fairness.** `cycle_returns` assumes weak fairness of each runner's thread outside
the collective, and nothing else: not that the engine answers, nor that a rollout is
ever released. Each HTTP call has a timeout, and the poll budget is a step the runner
may always take while it polls (`PollsRunOut`), which is the code's count of polls
without its number. `send_weights` (`nccl.py:304`) has no bound, as the docstring of
the update-kill script (lines 10-17) and the benchmark (119-123, 603-622) report:
nothing is assumed of it, dead peer or not, and `RunCycleReturns` has staying in it as
its one exception.
`cycle_settles` assumes in addition a healthy engine (the collective completes or
fails; a pause whose running requests are gone is answered; what waits is scheduled
while the engine is not paused; what runs finishes) and rollout threads that do not
stop between admission and release. A request that arrives behind the pause is *not*
assumed to be scheduled: it waits for the resume while the drain waits for nobody, the
drain completes, and the controller taints. That is the sharp edge
`docs/phase4a-results.md` documents, and `CycleSettles` says that it is the only
other outcome. `experiments` assumes weak fairness of the script's main thread and
of the thread of its cycle, and nothing of the engine, its requests, the disk or a
collective: every other wait of a script has a limit of its own. `ScriptEnds` names
the two places where a script need not end because a collective runs on its main
thread: the bootstrap, where the driver joins the group of the workers, and a cycle
that was not given a thread of its own. A peer that is alive is no remedy in either.

## 4. What is proved

`LifecycleProofs` proves, for every set of rollouts, identities and versions
(`Versions` any set of naturals that contains 0, `None` and `Unmanaged` distinct
from real values: the three ASSUMEs of `Lifecycle`):

* `TypeCorrect`, `DrainCorrect`, `BindingCorrect`, `PendingCorrect`,
  `OrphansCorrect`: the five invariants of the `lifecycle` run;
* `CommitCorrect`, `BindingsKept`, `TaintTerminal`: its action properties;
* `Refinement`: `Spec => Promise!Spec`, the controller implements
  `VersionedServing`.

The argument is one inductive invariant, `IInv`. None of the invariants is
inductive alone. `BoundToCommitted` survives the commit only because no rollout
is active while a target is pending, which is `DrainBeforeMutation`; that in
turn survives `ConfirmUpdated` and the other confirmations only together with
the coupling of state and pending target (`PendingIsNewer`); and
`OrphansPredateUpdate` needs both, because a taint turns active bindings into
orphans, and needs to know that a controller which is not tainted has none.
`NextPreserves` has one step per action; the five confirmations share
`ConfirmPreserves`, and every tainting disjunct is `TaintPreserves`. The
refinement maps every action to a `Publish`, `Close`, `Admit`, `Complete`,
`Fail` or a stutter: initialisation and `ConfirmResumed` publish, the
confirmations in between stutter.

`BootstrapProofs` proves, for any number of controllers, versions and lives of the
engine and for either adapter, the properties of the `bootstrap` run:
`BootstrapTypeCorrect`, `OwnerIsSingle`, `SeedIsSingle`, `LabelGrows`,
`StrandedStays`, all under `~Overlapping`. The label is the only thing controllers
share, so the invariant `BInv` says what it is worth: a claim on the running
engine shows in the label (`ClaimShows`), a bootstrap that read an unmanaged label
still finds it unmanaged when it writes (`ReadStillHolds`), and an owner's label is
the `rc-0` it has written, its own generation, or the one it is installing
(`OwnerLabel`: the first is where a READY controller stands that seeded a restarted
engine). `ReadStillHolds` is what overlapping
bootstraps break, and `single_writer` shows how.

The first section of `ProvenanceProofs` is about the driver alone. It proves, for
any steps, manifests and devices, that a committed update names its weights (`WeightsAreNamed`: `LabelNamesWeights`). `NInv` follows one
update: the cache speaks for the provenance declared now (`CacheFollows`), from
the check of the transfer on the target names what is declared (`TargetNames`),
and, the trainer being careful, a half-finished broadcast is still that of the
step where it began (`Undisturbed`).

`RolloutCycleProofs` proves the safety properties of the `cycle` run for any
number of rollouts, runners, drain threads, versions, reissues and late pauses, and
with every fault the constants can switch on: `NoRolloutIsMixed`,
`EngineServesOneVersion`, `UpdatesArePaused`, `ReadyIsTrue`,
`TrajectoriesSpanNoUpdate`, `OneAttemptAtATime`, `CompletedDrainHolds`,
`SystemTypeCorrect`. It assumes `SafeRedrain`: nobody re-drains by hand after a
spent poll budget. That is necessary (section 5 has the behaviour that breaks
`OneLiveAttempt` without it), and every configuration satisfies it. The inductive
invariant is `CInv`, and `CInductive` proves it. Its parts answer four questions:

* *Who is where?* At most one runner is inside a cycle (`OneCycle`), because
  `begin_drain` is legal in READY only; and its next call is one its phase allows
  (`Position`). The phase is the lifecycle state, or the state a taint struck
  (`Where`): an operator's taint moves the controller and not the runner.
* *What does the drain still hold?* `DrainHeld`, `DrainOf`: an attempt is in flight
  while DRAINING only, a thread the engine has answered has seen a paused engine,
  and from the proof of the drain to the resume nothing runs.
* *What is in the engine?* `ContentOf`, `Serving`: what the cycle has loaded, labelled
  and reset so far is what the engine holds, so the commit finds an engine that
  serves the target it commits.
* *What of the requests?* `InEngine`, `RanBound`: only a request that was sent is in
  the engine, one that waits has generated nothing, and whoever is bound ran under
  its binding.

Each property is a conjunct of `CInv` or follows from one; none is inductive alone.
With the same invariant every step of the system is a step of the controller
(`SystemRefinesController`: `CSpec => Spec`), so the system implements
`VersionedServing` too (`SystemRefinesService`).

`JournalProofs` proves, for a trail of any length, that the sequence numbers are
those of the records and the orphans (`SeqsAccounted`), that every rollout admitted
before a `begin_update` is released in the record by then (`ReleasesFirst`), and
that a publication ends an uninterrupted run of its own five records
(`ProofBeforePublication`). `JInv` says how the tail of the journal belongs to the
state (`UpdateOpen`: during an update it is exactly the records of that update), that
the numbers grow along it (`Numbered`) and that each binding is an admission without
a release (`Paired`). A taint with *k* orphans hands out *k* numbers in one step,
which is a lemma about the ranks of a finite set. `TrailIsObserver` is
`JSpec => Spec`: the trail changes nothing. `JournalIsComplete`
(`JournalReconstructsController`) is that reading the journal from its first record
yields the controller's state, every live binding and every orphan, along an unbroken
chain of states. (The view holds no committed and no pending target.) `Replayed` is the
last value of a recursive function, `Views`. The proof needs no induction over
sequences, because it goes along time: there is a reading of the journal, and every
reading ends in the present controller; a step appends a record, a reading of the
longer journal restricted to the shorter one is a reading of that, and what the record
does to the view is what the step did to the controller (`ReadsTrueStep`).

`ReplayProofs` proves, for plans and observations of any length, that `replay.py`
agrees if and only if the observation reproduces the record
(`AgreementIsReproduction`), and that its verdict is right in every part
(`VerdictIsAlwaysRight`: the first divergence is the first, and the blame falls on
the right side). It assumes `WellFormed`, which `Trajectory` enforces: as many
logprobs as tokens, or none.

`ProvenanceProofs` puts `NInv` and these together along the files. `PInv`
(`PInductive`) says what each record was made with and what each observation was
answered with; `RoundTrip` that a record survives the file. From it follow
`EveryVerdictIsRight`, `PassCoversBothFiles`, and the two theorems about the
verdict as a whole: `MisattributionIsCaught` (records that pass a faithful replay
with logprobs name the weights that made them) and `NoFalseAlarm` (records that name
their weights pass every faithful replay). The first assumes `Distinguishable`: any
two sets of weights differ in some logprob of the recorded tokens by more than twice
the tolerance, without which a pass proves nothing. The second assumes
`SameManifest`: training keeps names, shapes and types of the parameters, without
which `replay.py` is right to refuse. TLC evaluates both on the instance of the
`provenance` run.

`ExperimentsProofs` proves, for any rollouts and identities, what the scripts rely on
and leave behind: `ScriptsTypeCorrect`, `ServersAreStopped` (`NoOrphanServer`) and
`ScriptsFailClosed` (`FailClosed`). The hypothesis is `EveryGeneration`, that is
`Versions = Nat`: a script asks for the generation after the one it has, and writes
labels of its own, which a bounded set of versions would have to be closed under;
`versions.py` allows every n >= 0. (The TLC instance is finite and has the generations
its scenarios reach.) A scenario is a fixed sequence, but next to the main thread run
a cycle, a request, a crash and a user, so what a step finds is not what the step
before it left. The argument uses two facts about a scenario: which step may come
right after which (`MayFollow`), and which steps a script has (`Belongs`); each
scenario is shown to obey both (`ScenarioOrder`), and two facts of place are added
where order is not enough: the failures script makes its attempts on a dead engine
right behind the kill (`FailuresAt`), and the benchmark's second step is its bootstrap
(`BenchmarkAt`). On these rest two layers:

* `Base` (`BaseInductive`): the types, `IInv` of the controller, and `Hosted`: a server
  that runs is stopped with its children by whoever owns the process group, one that is
  starting is waited for, and `os._exit` is reached only behind a kill. `NoOrphanServer`
  is its conjunct, and is not inductive without `Hosted`.
* `Closed` (`ClosedInductive`): while a cycle is under way the main thread takes only
  steps that leave the stack alone or wait for the outcome (`Undisturbed`); what a cycle
  finds when it is called was prepared (`Prepared`: a drained engine, a dead one or a
  serving controller); and at each call of the cycle controller, engine and target
  stand where `CallHolds` says, whichever of its calls have failed and whatever they
  had done by then. `FailClosed` follows: nothing is published and nothing is admitted
  after a cycle that raised, and the engine is dead or paused but in two cases. Either
  no pause has arrived, and it serves the generation committed before; or the resume
  has, and it serves the target that was validated and that nobody will commit.

`PassProofs` proves `PassesAreEarned` (`PassIsEarned`): behind a green report or an exit
code of 0 is what the script claims, whatever died, hung or was interrupted, and the
demo and the fault tests, where nothing dies, do not fail. A check speaks of the moment
it is made and a PASS of the end, so a third layer on top of `Base` and `Closed` follows
each script from step to step. `Earned` (`EarnedInductive`) has three parts:

* `Reported`: the report says what the verdict says, and an exit code of 0 of a script
  with a report comes with a green one of this run.
* the trails, one per script: what is established when its main thread is at a given
  step. They keep only what the PASS needs. Where a kill races a cycle the trail holds
  both outcomes: in the benchmark, once UPDATING has been seen the cycle stays in the
  mutation, or was tainted in it, until it publishes (`Mutating`, over `Struck`), so a
  controller that is still on generation 0 after the kill had an update open or one that
  had just failed. More cannot be shown, because more is not so (section 5, *The benchmark's
  kill*). In process, where nothing fails that was not told to, the trail also says that the
  step it leads to does not fail, and that nothing hinders the demo's first cycle
  (`Unhindered`).
* `Settled`: behind the verdict nothing undoes it, although the cycle, the request
  and the crash go on.

It assumes `EveryGeneration`, and `NoStateAssumption` of `Experiments`: `None` is not a
lifecycle state (a script that has seen no death must not read as one that saw a death).

TLC checked all three layers as invariants of the `experiments` instance before they
were proved.

Every invariant and every action property of the passing runs, and the refinement, is
thus a theorem. Only model-checked is liveness (`RunCycleReturns`, `CycleSettles`,
`BindingsResolve`, `ScriptEnds`), which is out of the proof system's reach: it needs
fairness, and with it ENABLED.

## 5. Where code and documents disagree

Each is a run that expects a violation.

1. `failed_drain` / `PausedWhenDrainFails`. `docs/state-machine.md:196-199` says
   that after a `DrainFailedError` "the engine is known-paused", and the
   docstring of `_observe` (`runner.py:207`) rests its decision not to taint on
   "The engine is paused during every state these are called from". When no
   `/pause` reaches the engine, neither is true. `errors.py:128-135` has the
   right account. (The message of the poll budget, `runner.py:235-239`, makes
   the same claim.)
2. `tainted_resume` / `TaintedNeverResumed`. `TAINTED` is "Never resumed"
   (`lifecycle.py:91`, `docs/state-machine.md:78`), but a taint that lands
   between `confirm_validated` and `adapter.resume` does not stop the runner.
3. `lost_resume_answer` / `FailedResumeLeavesPaused`.
   `docs/state-machine.md:494-496` calls a failed `/resume` safe to retry because
   "the engine is paused ... throughout". A resume whose answer is lost leaves it
   serving the target the controller never published.

4. `single_writer` / `SingleWriter`. `README.md:165` promises a **single writer**:
   "one RolloutCore instance owns lifecycle and weight mutations". `bootstrap`
   reads the label, opens the transfer and writes `rc-0` in separate calls without
   a lease (`http.py:225-238`), so two bootstraps that overlap both end READY. It
   holds for bootstraps that do not overlap, which is proved.

The first three break no rollout: `NoMixedRollout` and `ServesOnlyOneVersion` hold with the
same faults enabled. Five more observations have no run of their own:

* **A late pause stops a READY engine.** READY is "serving" (`lifecycle.py:84`,
  `docs/state-machine.md` section 2). A `/pause` whose client gave up may arrive after
  the commit, and then the engine of a READY controller is paused and nobody will
  resume it. `ReadyServesCommitted` states the exception: paused only if `stray`.
* **A re-drain by hand after the poll budget.** When the budget is spent while the old
  `/pause` still hangs, an operator's `begin_drain` starts the attempt numbers again
  at 1 (`http.py:265`), and the check that a verdict belongs to the current attempt
  (`http.py:462`, which the comment at 428-429 relies on) takes the old thread's
  verdict for the new attempt. With `RedrainFrom = {"drain_failed", "budget_spent"}` and two
  threads TLC refutes `OneLiveAttempt`. A re-drain after `DrainFailedError`, the one
  the error recommends, is safe and is part of the `cycle` run.
* **A bootstrap that is refused too late.** I9 (`docs/state-machine.md:116`) says that
  "the refusal precedes the write". It does for a managed engine; a controller
  that may not bootstrap is refused by `initialize` (`lifecycle.py:407`), the last step
  of `runner.bootstrap` (`runner.py:104-112`), behind the write. After a
  restart of its engine a READY controller at `rc-n` labels the fresh one `rc-0`, gets
  an `IllegalTransitionError` and is READY at `rc-n` still. The `bootstrap` run has this
  behaviour; it breaks no ownership (`SingleOwner`, `SeededOnce`) and reuses no
  generation (`LabelOnlyGrows`).
* **The benchmark's kill.** The benchmark reads the controller's state again "at the
  moment of the kill" (`rolloutcore_benchmark_2gpu.py:726-729`), because "that the kill
  landed *inside* the update is the whole premise" (749-751). Between that read and the
  signal (731) a call of the update may fail by itself; the engine then dies under a
  TAINTED controller, and every check passes. With `diedIn \in MutationStates` alone in
  the benchmark's case of `Shown`, TLC refutes `PassIsEarned`; the property claims what
  is true, an open update or one that had failed a moment before.
* **Taint or hang.** The update-kill script's docstring (lines 37-39) and
  `diagnostics/README.md:206-208` say that whether the run taints or hangs is
  recorded rather than asserted; line 441 makes a hang a failed check. The model
  follows the code (`FailedClosed` has `~hung`).

Sharp edges that contradict nothing, and are in the models because they are in the
code: the fake adapter recognises a managed label by its prefix where the HTTP
adapter parses it; the identity of `rc-0` is adopted, never sent; a record file
without records validates with exit code 0, and of two observations with one
request id the last wins; a green update-kill run does not mean that the kill
landed in the update (`arm_timed_out` is recorded, not checked); a server that fails to
start outside the `try` leaves an earlier report on disk; the report is written
before the server is stopped; only the leader process is signalled; the scripts that
call `run_cycle` on their main thread have no bound on a blocked collective, whether its
peer died or lives, and no script has one on the rendezvous in its bootstrap.

## 6. Not modelled

* The bytes of digests, canonical encodings, salts, wording, JSON and logging: no
  property tells them apart. Identities and labels are what they distinguish.
* The label write of a crashed bootstrap that arrives late, and a `/resume` that arrives
  after the reads behind it: a call that fails has its effect by then or never. Only
  `/pause` is given up on by a client that goes on.
* In the scripts, an interrupt that lands inside a `finally`, and a pause that arrives
  after the drain it was for: the latter is the subject of `RolloutCycle`.
* NaN logprobs and the statistics of the deltas in a replay report.
* In the scripts: loading a trainer, timings, environment capture, the
  benchmark's `--skip-deep-kill`, the smoke script's attach mode and its probes of
  endpoints before bootstrap. Generation after a cycle is part of the step that
  checks what was installed, and rollouts that are admitted and finished on the
  spot are left out.
* The demo's replay scenario (`demo.py:251-355`): `Replay` is about the same code.
* `scripts/verify_anchors.py` (text), `diagnostics/upstream_nccl_2gpu.py` (does not use
  RolloutCore) and the tests, read for the behaviour they pin.

## 7. Plan

1. (done) `VersionedServing`, `Lifecycle`, `LifecycleProofs`, `LifecycleJournal`.
2. (done) `VllmEngine`, `HttpDrain`, `RolloutCycle`, safety and liveness.
3. (done) `Bootstrap` and its proofs; late pauses in `HttpDrain` and `RolloutCycle`.
4. (done) `NcclDriver`, `Replay`, `Provenance`, the proofs of the first two.
5. (done) `ServingStack` and `Experiments`.
6. (done) Proofs of `RolloutCycle`, `LifecycleJournal`, `Replay` and `Provenance`.
7. (done) Proofs of the scripts: `FailClosed` and `NoOrphanServer`.
8. (done) Proofs of `PassIsEarned` and `JournalReconstructsController`.
9. The manual re-drain as a run of its own, expected to fail until the attempt
   numbers survive a drain.
