----------------------------- MODULE PassProofs -----------------------------
(***************************************************************************)
(* A PASS is earned: proofs about Experiments, on top of the invariants    *)
(* of ExperimentsProofs, for any number of rollouts and identities.        *)
(*                                                                         *)
(* A report says what the verdict says, a verdict is green when every      *)
(* check passed, and a check speaks of the moment it is made.  What a PASS *)
(* claims is true of the end of a run, so the proof follows each scenario  *)
(* from step to step (its trail): what a step has established, what may    *)
(* happen beside it (a crash, an answer, a call of the cycle that raises   *)
(* with or without its effect), and what is still true when the verdict is *)
(* taken and after it.  In process, where no network is in between, the    *)
(* trail also says that no step fails.                                     *)
(***************************************************************************)
EXTENDS ExperimentsProofs

-----------------------------------------------------------------------------
(* What a script has shown.                                                *)
(*                                                                         *)
(* The report says what the verdict says (Reported), and the verdict is    *)
(* that of the checks, so what is left is what each scenario has           *)
(* established at each of its steps (the trails), while the main thread    *)
(* is in it.  Behind the verdict nothing undoes it (Settled).              *)

Reported ==
    /\ report = "green" => verdict /\ stage \notin {"run", "finally"}
    /\ code = 0 /\ script \notin InProcess => verdict
    /\ stage = "stop" /\ verdict => report = "green"
    /\ stage = "exit" /\ code = 0 /\ script \notin InProcess => report = "green"

(* One update, with or without a rollout in flight: the position in the    *)
(* scenario with one, which the other shares but for the steps it skips.   *)
Rolling == {"cycle", "concurrency", "trajectory"}
Leg     == IF script = "cycle" /\ pc > 3 THEN 2 * pc - 2 ELSE pc

AtMostOneActive == \A q, r \in Rollouts : active[q] # None /\ active[r] # None => q = r

RollEngine ==
    /\ Leg < 6 => at = "idle" /\ eng.weights = "loaded"
    /\ Leg > 6 => at = "idle" /\ state = "READY" /\ eng.weights = "sent"
    /\ Leg > 8 /\ good => Committed(1) /\ eng.label = 1

RollRequest ==
    /\ AtMostOneActive
    /\ Leg <= 4 => active = NoRollouts
    /\ Leg <= 5 => request = "none"
    /\ request = "released" => active = NoRollouts
    /\ script = "cycle" => active = NoRollouts /\ request = "none" /\ used = {}
    /\ script # "cycle" /\ Leg > 9 /\ good => request = "released" /\ used = {"loaded"}

RollTrail == RollEngine /\ RollRequest

CacheTrail ==
    /\ pc <= 3 => at = "idle" /\ eng.kv = None
    /\ pc > 5 => at = "idle"
    /\ pc > 6 /\ good => Committed(1)
    /\ pc = 8 /\ good => eng.kv = None
    /\ pc = 11 => eng.weights = "corrupted"
    /\ good => ~reused

SmokeTrail ==
    /\ at = "idle" /\ eng.weights = "loaded"
    /\ pc > 2 => Committed(0) /\ eng.label = 0
    /\ pc > 7 => request = "answered"
    /\ pc > 12 => state = "TAINTED"

FailuresTrail ==
    /\ pc \in {22, 23, 32} => at = "idle"
    /\ pc = 23 => state = "READY" /\ (eng.up \/ diedIn = "READY")
    /\ pc \in 24..30 => diedIn = "READY" /\ ~eng.up
    /\ pc \in 31..32 => diedIn = "READY" \/ ~eng.up
    /\ pc > 32 => at = "idle" /\ state = "READY" /\ Committed(0) /\ diedIn = "READY"

UpdateKillTrail ==
    /\ pc > 1 => eng.up \/ diedIn # None
    /\ pc > 8 => ~eng.up
    /\ pc = 10 => hung \/ at \in {"returned", "raised"}
    /\ pc > 10 /\ good => at = "raised" /\ Committed(1) /\ state \notin ADMITTING_STATES

(* A cycle that nothing hinders while the engine lives.                    *)
Unhindered ==
    /\ faults = {} /\ active = NoRollouts /\ request = "none"
    /\ at \in {"idle", "called", "pause", "begin", "start"} => ~eng.session
    /\ at = "pause" => eng.paused
    /\ at \in {"invalidate", "validate"} => eng.label = aim.version
    /\ at = "validate" => eng.kv = None

(* Past the drain, until something is published.                           *)
Mutating == Committed(0) => Struck \in MutationStates

Mutated == MutationStates \cup {"TAINTED"}

(* Behind the benchmark's last bootstrap its controller has READY behind   *)
(* it.  An update it finds open has failed or goes on until the kill.      *)
BenchmarkTrail ==
    /\ pc \in 12..14 => at = "idle"
    /\ pc = 14 => state = "READY"
    /\ pc \in 15..17 =>
          /\ eng.up => state # "UNINITIALIZED"
          /\ eng.up \/ diedIn \in Mutated \/ state \in {"READY", "DRAINING"}
    /\ pc > 17 => ~eng.up
    /\ pc > 16 /\ seen = "UPDATING" => Mutating
    /\ pc > 17 /\ seen = "UPDATING" /\ Committed(0) => diedIn \in Mutated
    /\ pc > 19 /\ good => seen = "UPDATING" /\ Committed(0)

(* The fake engine, seeded; and with a controller.                         *)
Seeded ==
    /\ eng.up /\ eng.label = Unmanaged /\ ~eng.session /\ ~eng.paused /\ faults = {}
    /\ state = "UNINITIALIZED" /\ active = NoRollouts /\ at = "idle" /\ request = "none"

Booted ==
    /\ eng.up /\ eng.label = 0 /\ ~eng.session /\ ~eng.paused /\ faults = {}
    /\ state = "READY" /\ Committed(0) /\ active = NoRollouts
    /\ at = "idle" /\ request = "none"

(* The demo's cycle on its way, not beyond a call that fails.              *)
Attempt(calls) ==
    /\ eng.up /\ Committed(0) /\ request = "none"
    /\ at \in {"idle", "raised"} \cup calls
    /\ at # "idle" => aim = [version |-> 1, identity |-> ModelB]
    /\ at \in {"idle", "called", "pause", "begin", "start"} => ~eng.session
    /\ at \in {"pause", "raised"} => eng.paused

ToTheFinish == {"called", "pause", "begin", "start", "transfer", "finish"}
ToTheCaches == ToTheFinish \cup {"invalidate"}

(* The demo's five scenarios.                                              *)
DemoGenerations ==
    /\ pc = 2 => Seeded
    /\ pc = 3 =>
          /\ eng.up /\ Unhindered /\ at # "raised"
          /\ at = "idle" => Committed(0)
          /\ at # "idle" => aim = [version |-> 1, identity |-> ModelB]
          /\ at = "returned" => current = aim
    /\ pc = 4 => Committed(1) /\ current.identity = ModelB

DemoDisagreement ==
    /\ pc = 6 => Seeded
    /\ pc = 7 => Booted
    /\ pc = 8 =>
          /\ active # NoRollouts \/ at = "raised"
          /\ Attempt({"called", "pause"}) /\ faults = {}
          /\ at = "raised" => orphaned # NoRollouts
    /\ pc = 9 => at = "raised" /\ Committed(0) /\ eng.paused /\ orphaned # NoRollouts

DemoFinalize ==
    /\ pc = 11 => Seeded
    /\ pc = 12 => Booted
    /\ pc = 13 =>
          /\ Attempt(ToTheFinish) /\ faults = {"finish_weight_update"}
          /\ active = NoRollouts /\ eng.label = 0
    /\ pc = 14 => at = "raised" /\ Committed(0) /\ eng.paused /\ Reports(0)

Relabelled == at \in {"invalidate", "raised"} => eng.label = 1

LabelAttempt ==
    /\ Attempt(ToTheCaches) /\ faults = {"blocks held"}
    /\ active = NoRollouts /\ Relabelled

LabelFailed == at = "raised" /\ Committed(0) /\ eng.paused /\ Reports(1)

DemoLabel ==
    /\ pc = 16 => Seeded
    /\ pc = 17 => Booted
    /\ pc = 18 => LabelAttempt
    /\ pc = 19 => LabelFailed

Unadopted(label) ==
    eng.up /\ faults = {} /\ state = "UNINITIALIZED" /\ eng.label = label

DemoAdoption ==
    /\ pc = 21 => Seeded
    /\ pc = 22 => Unadopted(2)
    /\ pc = 23 => Unadopted(2)
    /\ pc = 24 => Unadopted(Unmanaged)
    /\ pc = 25 => state = "READY" /\ Reports(0)

DemoTrail ==
    DemoGenerations /\ DemoDisagreement /\ DemoFinalize /\ DemoLabel /\ DemoAdoption

TestsTrail == pc = 2 => Seeded

Trail ==
    CASE script \in Rolling     -> RollTrail
      [] script = "cache"       -> CacheTrail
      [] script = "smoke"       -> SmokeTrail
      [] script = "failures"    -> FailuresTrail
      [] script = "updatekill"  -> UpdateKillTrail
      [] script = "benchmark"   -> BenchmarkTrail
      [] script = "demo"        -> DemoTrail
      [] script = "tests"       -> TestsTrail

Settled ==
    CASE script \in Rolling     -> at = "idle" /\ request \in {"none", "released"}
      [] script = "updatekill"  -> at = "raised" /\ ~eng.up
      [] script = "benchmark"   -> ~eng.up /\ Struck \in MutationStates
      [] OTHER                  -> at = "idle"

Earned ==
    /\ Reported
    /\ stage = "run" => Trail
    /\ verdict => Shown /\ Settled /\ (stage = "run" => AtEnd \/ AtStep({"hang"}))
    /\ script \in InProcess =>
          good /\ stage \in {"run", "exit"} /\ code \in {Running, 0, Interrupted}

(* What a step a of the scenario leaves alone ...                          *)
Keeps(a) ==
    /\ a \notin {"seed", "new controller", "bootstrap", "try bootstrap", "admit", "finish",
                 "redrain", "poll", "short drain", "drain", "mismatch", "abandon"}
          => UNCHANGED vars
    /\ a \notin {"serve", "seed", "kill", "stop", "bootstrap", "try bootstrap", "owned",
                 "release", "reset", "reopen", "out of band", "generate", "redrain",
                 "poll", "short drain", "drain"} => UNCHANGED eng
    /\ a \notin {"seed", "fault finish", "fault caches", "fault any"} => UNCHANGED faults
    /\ a \notin {"seed", "new controller", "spawn", "by hand", "cycle", "join hot"}
          => UNCHANGED at
    /\ a \notin {"spawn", "by hand"} => UNCHANGED aim
    /\ a \notin {"seed", "new controller", "stream", "kill", "poll", "short drain"}
          => UNCHANGED request
    /\ a \notin {"seed", "new controller", "stream"} => UNCHANGED used
    /\ a # "generate" => UNCHANGED <<sample, reused>>
    /\ a \notin {"arm", "aim", "short drain"} => UNCHANGED seen
    /\ a # "join" => UNCHANGED hung
    /\ a # "kill" => UNCHANGED diedIn
    /\ a # "verdict" => UNCHANGED verdict
    /\ a \notin Checks => UNCHANGED good

(* ... and what it does where it goes on.                                  *)
Does(a) ==
    /\ a = "serve" => proc = "booting" /\ eng' = [eng EXCEPT !.up = TRUE]
    /\ a = "kill" =>
          /\ eng' = [eng EXCEPT !.up = FALSE]
          /\ diedIn' = IF eng.up THEN state ELSE diedIn
    /\ a = "new controller" =>
          /\ state' = "UNINITIALIZED" /\ active' = NoRollouts
          /\ at' = "idle" /\ request' = "none" /\ UNCHANGED eng
    /\ a = "seed" =>
          /\ state' = "UNINITIALIZED" /\ active' = NoRollouts
          /\ at' = "idle" /\ request' = "none"
          /\ eng' = FreshEngine(TRUE, "loaded") /\ faults' = {}
    /\ a = "fault finish" => faults' = {"finish_weight_update"}
    /\ a = "fault caches" => faults' = {"blocks held"}
    /\ a = "bootstrap" =>
          /\ eng.up /\ eng' = [eng EXCEPT !.label = 0]
          /\ state' = "READY" /\ Committed(0)'
          /\ UNCHANGED <<active, orphaned>>
    /\ a = "try bootstrap" => eng'.up = eng.up
    /\ a = "owned" => eng' = [eng EXCEPT !.label = 2]
    /\ a = "release" => eng' = [eng EXCEPT !.label = Unmanaged]
    /\ a = "reset" => eng' = [eng EXCEPT !.kv = None]
    /\ a = "reopen" => eng' = [eng EXCEPT !.paused = FALSE]
    /\ a = "out of band" => eng' = [eng EXCEPT !.weights = "corrupted", !.label = 2]
    /\ a = "stream" => request' \in {"running", "failed"}
    /\ a = "generate" =>
          /\ sample' = eng.weights /\ eng' = [eng EXCEPT !.kv = eng.weights]
          /\ reused' = (reused \/ (eng.kv \notin {None, eng.weights}
                                   /\ eng.weights # "corrupted"))
    /\ a = "admit" => \E r \in Rollouts : AdmitRollout(r)
    /\ a = "join request" => (script = "smoke" => request = "answered")
    /\ a \in {"redrain", "poll", "short drain", "drain"} =>
          eng' \in {eng, [eng EXCEPT !.paused = TRUE]} /\ UNCHANGED current
    /\ a = "abandon" => state' = "TAINTED" /\ UNCHANGED current
    /\ a \in {"spawn", "by hand"} => aim' = NextTarget(ModelA)
    /\ a = "spawn" => at' = "called"
    /\ a \in {"cycle", "join hot"} => at = "returned" /\ at' = "idle"
    /\ a = "try" => at \in {"returned", "raised"}
    /\ a \in {"arm", "aim"} => seen' = state
    /\ a = "join" => hung' = (at \notin {"returned", "raised"})
    /\ a \in Checks => good' = (good /\ Holds(a))
    /\ a = "verdict" => verdict' = good

(* An adoption that does not raise succeeds: an engine that answers has a  *)
(* label, and one of no other controller.                                  *)
LEMMA Adopts ==
  ASSUME eng \in Engines, Adopt
  PROVE  /\ eng.up /\ eng' = [eng EXCEPT !.label = 0]
         /\ state' = "READY" /\ Committed(0)'
         /\ UNCHANGED <<active, orphaned>>
<1> DEFINE e == [observed_engine_label |-> INITIAL_VERSION, pre_seed_label |-> eng.label,
                 weight_transfer_initialised |-> TRUE, has_driver |-> TRUE,
                 weight_identity |-> ModelA]
           t == [version |-> INITIAL_VERSION, identity |-> ModelA]
<1>1. eng.up /\ eng.label \notin Versions \cup {None}
  BY NoneAssumption DEF Adopt, Refused, Answers, Engines
<1>2. ~BootstrapFails(e)
  BY <1>1 DEF BootstrapFails
<1>3. state' = "READY" /\ current' = t /\ UNCHANGED <<active, orphaned>>
  BY <1>2 DEF Adopt, Initialize, Advance
<1>4. t \in Targets /\ t.version = 0
  BY VersionsAssumption, ModelAssumption DEF Targets, INITIAL_VERSION
<1>5. current' # None /\ current'.version = 0
  BY <1>3, <1>4, NoneAssumption
<1> QED
  BY <1>1, <1>3, <1>5 DEF Adopt, Committed, INITIAL_VERSION

(* What the next step leaves alone and does is what is said above of it.   *)
LEMMA StepDoes ==
  ASSUME Base, XNext, NEW a, Onward(a)
  PROVE  Keeps(a) /\ Does(a)
<1>0. /\ script \in Scripts /\ XTypeOK /\ eng \in Engines /\ Hosted
      /\ Now(a) /\ stage = "run" /\ UNCHANGED <<stage, code>> /\ pc' # pc
  BY DEF Base, Onward, Now, XTypeOK
<1>1. ASSUME NEW c PROVE ~(Leave(c) \/ Quit(c))
  BY <1>0 DEF Leave, Quit
<1>2. ~Raise
  BY <1>1 DEF Raise
<1>3. Go => UNCHANGED <<good, verdict>>
  BY <1>0 DEF Go, Record, XTypeOK
<1> USE DEF Now, vars, stackVars, noteVars
<1>4. CASE Ready
  <2>1. /\ a = "serve" /\ proc = "booting" /\ eng' = [eng EXCEPT !.up = TRUE]
        /\ UNCHANGED <<vars, faults, at, aim, request, used, noteVars, good, verdict>>
    BY <1>0, <1>3, <1>4 DEF Ready
  <2> QED
    BY <2>1 DEF Keeps, Does, Checks
<1>5. CASE Kill
  <2>1. /\ a = "kill" /\ eng' = [eng EXCEPT !.up = FALSE]
        /\ diedIn' = (IF eng.up THEN state ELSE diedIn)
        /\ UNCHANGED <<vars, faults, at, aim, used, sample, reused, seen, hung, good, verdict>>
    BY <1>0, <1>3, <1>5 DEF Kill, Dies
  <2> QED
    BY <2>1 DEF Keeps, Does, Checks
<1>6. CASE Stop
  <2>1. /\ a = "stop"
        /\ UNCHANGED <<vars, faults, at, aim, request, used, noteVars, good, verdict>>
    BY <1>0, <1>3, <1>6 DEF Stop
  <2> QED
    BY <2>1 DEF Keeps, Does, Checks
<1>7. CASE NewController
  <2>1. /\ a = "new controller" /\ Afresh
        /\ UNCHANGED <<eng, faults, noteVars, good, verdict>>
    BY <1>0, <1>3, <1>7 DEF NewController, Quiet
  <2> QED
    BY <2>1 DEF Keeps, Does, Checks, Afresh
<1>8. CASE Seed
  <2>1. /\ a = "seed" /\ Afresh /\ eng' = FreshEngine(TRUE, "loaded") /\ faults' = {}
        /\ UNCHANGED <<noteVars, good, verdict>>
    BY <1>0, <1>3, <1>8 DEF Seed, Quiet
  <2> QED
    BY <2>1 DEF Keeps, Does, Checks, Afresh
<1>9. CASE Inject
  <2>1. /\ \/ a = "fault finish" /\ faults' = {"finish_weight_update"}
           \/ a = "fault caches" /\ faults' = {"blocks held"}
           \/ a = "fault any"
        /\ UNCHANGED <<vars, eng, at, aim, request, used, noteVars, good, verdict>>
    BY <1>0, <1>3, <1>9 DEF Inject, Quiet
  <2> QED
    BY <2>1 DEF Keeps, Does, Checks
<1>10. CASE Bootstrap
  <2>1. /\ \/ a = "bootstrap" /\ Adopt
           \/ a = "try bootstrap" /\ (Adopt \/ BootstrapRaises(TRUE))
        /\ UNCHANGED <<faults, at, aim, request, used, noteVars, good, verdict>>
    BY <1>0, <1>2, <1>3, <1>10 DEF Bootstrap, Quiet, SameCycle
  <2> HIDE DEF vars
  <2>2. Keeps(a)
    BY <2>1 DEF Keeps, Checks
  <2>3. CASE a = "bootstrap"
    BY <1>0, <2>1, <2>2, <2>3, Adopts DEF Does, Checks
  <2>4. CASE a = "try bootstrap"
    <3>1. eng'.up = eng.up
      BY <1>0, <2>1, <2>4 DEF Adopt, BootstrapRaises, Lost, Engines
    <3> QED
      BY <2>2, <2>4, <3>1 DEF Does, Checks
  <2> QED
    BY <2>1, <2>3, <2>4
<1>11. CASE RefusedAdoption
  <2>1. a = "refused" /\ UNCHANGED <<vars, stackVars, noteVars, good, verdict>>
    BY <1>0, <1>2, <1>3, <1>11 DEF RefusedAdoption, Quiet
  <2> QED
    BY <2>1 DEF Keeps, Does, Checks
<1>12. CASE Touch
  <2>1. /\ \/ a = "owned" /\ eng' = [eng EXCEPT !.label = 2]
           \/ a = "release" /\ eng' = [eng EXCEPT !.label = Unmanaged]
           \/ a = "reset" /\ eng' = [eng EXCEPT !.kv = None]
           \/ a = "reopen" /\ eng' = [eng EXCEPT !.paused = FALSE]
           \/ a = "out of band" /\ eng' = [eng EXCEPT !.weights = "corrupted", !.label = 2]
        /\ UNCHANGED <<vars, faults, at, aim, request, used, noteVars, good, verdict>>
    BY <1>0, <1>2, <1>3, <1>12 DEF Touch, Directly, Quiet, SameCycle
  <2> QED
    BY <2>1 DEF Keeps, Does, Checks
<1>13. CASE Generate
  <2>1. /\ a = "generate"
        /\ sample' = eng.weights /\ eng' = [eng EXCEPT !.kv = eng.weights]
        /\ reused' = (reused \/ (eng.kv \notin {None, eng.weights}
                                 /\ eng.weights # "corrupted"))
        /\ UNCHANGED <<vars, faults, at, aim, request, used, seen, hung, diedIn, good, verdict>>
    BY <1>0, <1>2, <1>3, <1>13 DEF Generate, SameCycle
  <2> QED
    BY <2>1 DEF Keeps, Does, Checks
<1>14. CASE Admit \/ Finish
  <2>1. /\ (a = "admit" /\ \E r \in Rollouts : AdmitRollout(r)) \/ a = "finish"
        /\ UNCHANGED <<stackVars, noteVars, good, verdict>>
    BY <1>0, <1>3, <1>14 DEF Admit, Finish, Quiet
  <2> QED
    BY <2>1 DEF Keeps, Does, Checks
<1>15. CASE Stream
  <2>1. /\ a = "stream" /\ request' \in {"running", "failed"}
        /\ UNCHANGED <<vars, eng, faults, at, aim, noteVars, good, verdict>>
    BY <1>0, <1>2, <1>3, <1>15 DEF Stream, SameCycle, Quiet
  <2> QED
    BY <2>1 DEF Keeps, Does, Checks
<1>16. CASE JoinRequest
  <2>1. /\ a = "join request" /\ (script = "smoke" => request = "answered")
        /\ UNCHANGED <<vars, stackVars, noteVars, good, verdict>>
    BY <1>0, <1>2, <1>3, <1>16 DEF JoinRequest, Quiet
  <2> QED
    BY <2>1 DEF Keeps, Does, Checks
<1>17. CASE DrainByHand
  <2>1. /\ a \in {"redrain", "poll", "short drain"}
        /\ a = "redrain" => UNCHANGED request
        /\ a # "short drain" => UNCHANGED seen
        /\ eng' \in {eng, [eng EXCEPT !.paused = TRUE]} /\ UNCHANGED current
        /\ UNCHANGED <<faults, at, aim, used, sample, reused, hung, diedIn, good, verdict>>
    BY <1>0, <1>2, <1>3, <1>17 DEF DrainByHand, Pause, Lost, BeginDrain, SameCycle
  <2> QED
    BY <2>1 DEF Keeps, Does, Checks
<1>18. CASE Quiesce
  <2>1. /\ a = "drain" /\ eng' = [eng EXCEPT !.paused = TRUE]
        /\ UNCHANGED <<current, faults, at, aim, request, used, noteVars, good, verdict>>
    BY <1>0, <1>2, <1>3, <1>18 DEF Quiesce, ConfirmDrained, TaintWith, Quiet, SameCycle
  <2> QED
    BY <2>1 DEF Keeps, Does, Checks
<1>19. CASE Mismatch \/ Abandon
  <2>1. /\ a = "mismatch" \/ (a = "abandon" /\ state' = "TAINTED" /\ UNCHANGED current)
        /\ UNCHANGED <<stackVars, noteVars, good, verdict>>
    BY <1>0, <1>3, <1>19 DEF Mismatch, Abandon, Taint, TaintWith, Quiet
  <2> QED
    BY <2>1 DEF Keeps, Does, Checks
<1>20. CASE CallCycle
  <2>1. /\ a \in {"spawn", "by hand"} /\ aim' = NextTarget(ModelA)
        /\ a = "spawn" => at' = "called"
        /\ UNCHANGED <<vars, eng, faults, request, used, noteVars, good, verdict>>
    BY <1>0, <1>3, <1>20 DEF CallCycle, Call, Quiet, runVars
  <2> QED
    BY <2>1 DEF Keeps, Does, Checks
<1>21. CASE CycleEnds
  <2>1. /\ \/ a = "cycle" /\ at = "returned" /\ at' = "idle"
           \/ a = "try" /\ at \in {"returned", "raised"} /\ UNCHANGED at
        /\ UNCHANGED <<vars, eng, faults, aim, request, used, noteVars, good, verdict>>
    BY <1>0, <1>2, <1>3, <1>21 DEF CycleEnds, Quiet
  <2> QED
    BY <2>1 DEF Keeps, Does, Checks
<1>22. CASE Look \/ Join
  <2>1. /\ \/ a \in {"arm", "aim"} /\ seen' = state /\ UNCHANGED hung
           \/ a = "join" /\ hung' = (at \notin {"returned", "raised"}) /\ UNCHANGED seen
        /\ UNCHANGED <<vars, stackVars, sample, reused, diedIn, good, verdict>>
    BY <1>0, <1>3, <1>22 DEF Look, Join
  <2> QED
    BY <2>1 DEF Keeps, Does, Checks
<1>23. CASE JoinHot
  <2>1. /\ a = "join hot" /\ at = "returned" /\ at' = "idle"
        /\ UNCHANGED <<vars, eng, faults, aim, request, used, noteVars, good, verdict>>
    BY <1>0, <1>1, <1>2, <1>3, <1>23 DEF JoinHot
  <2> QED
    BY <2>1 DEF Keeps, Does, Checks
<1>24. CASE Check
  <2>1. /\ a \in Checks /\ good' = (good /\ Holds(a))
        /\ UNCHANGED <<vars, stackVars, noteVars, verdict>>
    <3>1. PICK c \in Checks : Now(c) /\ Record(Holds(c))
      BY <1>24 DEF Check
    <3>2. a = c
      BY <1>0, <3>1
    <3> QED
      BY <1>24, <3>1, <3>2 DEF Check, Record, Quiet
  <2> QED
    BY <2>1 DEF Keeps, Does, Checks
<1>25. CASE Verdict
  <2>1. /\ a = "verdict" /\ verdict' = good
        /\ UNCHANGED <<vars, stackVars, noteVars, good>>
    BY <1>0, <1>25 DEF Verdict, Quiet
  <2> QED
    BY <2>1 DEF Keeps, Does, Checks
<1>26. CASE Hang
  <2>1. a = "hang" /\ UNCHANGED <<vars, stackVars, noteVars, good, verdict>>
    BY <1>0, <1>1, <1>3, <1>26 DEF Hang
  <2> QED
    BY <2>1 DEF Keeps, Does, Checks
<1>27. ~(Launch \/ Cycling \/ RequestEnds \/ ThreadReleases \/ Crash)
  BY <1>0 DEF Launch, Cycling, RequestEnds, ThreadReleases, Crash, runVars
<1>28. /\ ~(Return \/ Interrupt \/ CallFails \/ WriteReport \/ StopServer)
       /\ \A c \in {1, Interrupted} : ~NotReady(c)
  BY <1>0, <1>1, <1>2 DEF Return, Interrupt, CallFails, WriteReport, StopServer, NotReady
<1> QED
  BY <1>4, <1>5, <1>6, <1>7, <1>8, <1>9, <1>10, <1>11, <1>12, <1>13, <1>14, <1>15, <1>16,
     <1>17, <1>18, <1>19, <1>20, <1>21, <1>22, <1>23, <1>24, <1>25, <1>26, <1>27, <1>28
     DEF XNext, Main, Around

(* What a call of the cycle leaves alone.                                  *)
LEMMA Cycles ==
  ASSUME Cycling
  PROVE  /\ at \in Calls /\ CycleCall
         /\ UNCHANGED <<faults, aim, before, byHand>>
         /\ UNCHANGED <<runVars, hostVars, noteVars>>
         /\ request' = request \/ (request = "running" /\ request' = "aborted" /\ Remote)
         /\ used' = IF request = "running" THEN used \cup {eng'.weights} ELSE used
  BY CycleStaysTyped DEF Cycling, CycleCall, PauseReissued, Quiet

(* A step that leaves the main thread where it is is a call of the cycle,  *)
(* a launch, the start of a cycle that is waited for, or passes by: an     *)
(* answer, a release, a crash.                                             *)
Launched ==
    /\ Now("serve") /\ eng' = FreshEngine(FALSE, None) /\ at' = "idle"
    /\ proc' = "booting"
    /\ UNCHANGED <<vars, request, used, diedIn>>

Started ==
    /\ AtStep({"cycle", "try"}) /\ at = "idle" /\ at' = "called"
    /\ aim' = NextTarget(IF script = "demo" THEN ModelB ELSE ModelA)
    /\ UNCHANGED <<vars, eng, request, used, diedIn, proc>>

Passed ==
    /\ UNCHANGED <<state, current, pending, orphaned, taintedIn, at, aim, used>>
    /\ \/ UNCHANGED <<eng, diedIn, proc>>
       \/ /\ proc = "up" /\ proc' = "ended" /\ eng' = [eng EXCEPT !.up = FALSE]
          /\ diedIn' = IF eng.up THEN state ELSE diedIn
    /\ \/ UNCHANGED <<request, active>>
       \/ request = "running" /\ UNCHANGED active /\ request' \in {"answered", "failed"}
       \/ /\ ReleasesItself /\ request \in {"answered", "aborted"}
          /\ request' \in {"released", "failed"}
          /\ UNCHANGED active \/ (\E r \in Rollouts : ReleaseRollout(r))
          /\ request' = "released" => \E r \in Rollouts : ReleaseRollout(r)

LEMMA Passes ==
  ASSUME Beside, ~Cycling
  PROVE  Passed /\ UNCHANGED <<faults, sample, reused, seen, hung, runVars>>
<1> USE DEF vars, hostVars, noteVars, Passed
<1>1. CASE RequestEnds
  BY <1>1 DEF RequestEnds, SameCycle, Quiet
<1>2. CASE ThreadReleases
  BY <1>2 DEF ThreadReleases, ToRelease, ReleaseRollout, SameCycle, Quiet
<1>3. CASE Crash
  BY <1>3 DEF Crash, Dies
<1> QED
  BY <1>1, <1>2, <1>3 DEF Beside

LEMMA Lingers ==
  ASSUME Base, XNext, Stays, stage = "run"
  PROVE  /\ UNCHANGED <<faults, sample, reused, seen, hung, runVars>>
         /\ Cycling \/ Launched \/ Started \/ Passed
<1>0. script \in Scripts /\ XTypeOK
  BY DEF Base
<1>1. CASE Cycling
  BY <1>1, Cycles DEF noteVars
<1>2. CASE Launch
  BY <1>2 DEF Launch, Launched, noteVars
<1>3. CASE CallCycle /\ at = "idle" /\ AtStep({"cycle", "try"})
  <2>1. ~Now("spawn") /\ ~Now("by hand")
    BY <1>3 DEF AtStep, Now
  <2> QED
    BY <1>3, <2>1 DEF CallCycle, Call, Started, Quiet, hostVars, noteVars, Stays
<1>4. CASE Beside /\ ~Cycling
  BY <1>4, Passes
<1> QED
  BY <1>0, <1>1, <1>2, <1>3, <1>4, StaysOnly DEF Beside

(* The bindings: a call keeps them or, with the taint, orphans them.       *)
LEMMA CycleBindings ==
  ASSUME Cycling
  PROVE  UNCHANGED active \/ active' = NoRollouts
  BY DEF Cycling, CycleCall, PauseReissued, BeginCycle, BeginDrain, AwaitDrain,
         ConfirmDrained, DrainGivesUp, OpenUpdate, BeginUpdate, StartWeightUpdate,
         SendWeights, FinishWeightUpdate, ConfirmUpdated, InvalidateCaches,
         ConfirmInvalidated, ValidatePreResume, ConfirmValidated, Confirm, Resume, Commit,
         Confirmed, ConfirmResumed, EffectRaises, EffectFails, TaintWith, vars

(* A cycle that nothing hinders goes through: no call of it raises, and it *)
(* commits the target it was called for.                                   *)
LEMMA Goes ==
  ASSUME Base, CallHolds, Unhindered, eng.up, Cycling
  PROVE  /\ Unhindered' /\ eng'.up
         /\ at' \notin {"idle", "raised"}
         /\ at' = "returned" => current' = aim
<1>0. /\ eng \in Engines /\ at \in Calls /\ faults = {} /\ active = NoRollouts
      /\ request = "none" /\ UNCHANGED <<faults, aim, request>> /\ CycleCall
      /\ aim # None
      /\ Sealed \/ at \notin (Calls \ {"called", "pause", "commit"})
  BY Cycles, NoneIsNoTarget DEF Base, XTypeOK, Aimed, Unhindered, CallHolds, Calls
<1>1. /\ \A op : Answers(op) /\ ~Raises(op)
      /\ ~Remote /\ \A op, e : ~EffectRaises(op, e)
  BY <1>0 DEF Answers, Raises, Remote, EffectRaises
<1> USE DEF Unhindered, CallHolds, vars
<1>2. CASE BeginCycle
  BY <1>0, <1>1, <1>2 DEF BeginCycle, BeginDrain, Advance, Engines
<1>3. CASE AwaitDrain
  BY <1>0, <1>3 DEF AwaitDrain, ConfirmDrained, DrainFails, Advance
<1>4. CASE DrainGivesUp
  BY <1>0, <1>1, <1>4 DEF DrainGivesUp
<1>5. CASE OpenUpdate
  BY <1>0, <1>5 DEF OpenUpdate, BeginUpdate, Advance
<1>6. CASE StartWeightUpdate
  BY <1>0, <1>1, <1>6 DEF StartWeightUpdate, Opened, Engines
<1>7. CASE SendWeights
  BY <1>0, <1>1, <1>7 DEF SendWeights, Opened, Engines
<1>8. CASE PauseReissued
  BY <1>1, <1>8 DEF PauseReissued
<1>9. CASE FinishWeightUpdate
  <2> DEFINE e == [target |-> aim, weights_loaded |-> TRUE, data_plane_complete |-> TRUE,
                   finish_acknowledged |-> TRUE, observed_identity |-> aim.identity]
  <2>1. /\ at = "finish" /\ at' = "invalidate" /\ ConfirmUpdated(e)
        /\ eng' = [eng EXCEPT !.label = aim.version, !.session = FALSE]
    BY <1>1, <1>9 DEF FinishWeightUpdate
  <2>2. e.target = pending /\ ~UpdateFails(e)
    BY <2>1 DEF Opened, UpdateFails
  <2>3. state' = "INVALIDATING" /\ UNCHANGED active
    BY <2>1, <2>2 DEF ConfirmUpdated, Confirm, Advance
  <2> QED
    BY <1>0, <2>1, <2>3 DEF Engines
<1>10. CASE InvalidateCaches
  <2>1. /\ at = "invalidate" /\ at' = IF state' = "VALIDATING" THEN "validate" ELSE "raised"
        /\ eng' = [eng EXCEPT !.kv = None]
        /\ ConfirmInvalidated([prefix_cache_reset |-> TRUE, encoder_cache_reset |-> TRUE,
                               mm_cache_reset |-> TRUE])
    BY <1>0, <1>1, <1>10 DEF InvalidateCaches
  <2>2. state' = "VALIDATING" /\ UNCHANGED active /\ at' = "validate"
    BY <2>1 DEF ConfirmInvalidated, InvalidateFails, Confirm, Advance
  <2> QED
    BY <1>0, <2>1, <2>2 DEF Engines
<1>11. CASE ValidatePreResume
  <2> DEFINE clean == eng.kv = None
             e == [target |-> aim, observed_engine_label |-> eng.label,
                   is_paused |-> eng.paused, caches_still_clean |-> clean]
  <2>1. /\ at = "validate" /\ UNCHANGED eng /\ ConfirmValidated(e)
        /\ at' = IF state' = "RESUMING" THEN "resume" ELSE "raised"
    BY <1>1, <1>11 DEF ValidatePreResume
  <2>2. e.target = pending /\ ~ValidateFails(e)
    BY <1>0, <2>1 DEF Opened, Sealed, ValidateFails
  <2>3. state' = "RESUMING" /\ UNCHANGED active
    BY <2>1, <2>2 DEF ConfirmValidated, Confirm, Advance
  <2> QED
    BY <1>0, <2>1, <2>3
<1>12. CASE Resume
  BY <1>0, <1>1, <1>12 DEF Resume, Opened, Engines
<1>13. CASE Commit
  <2> DEFINE e == [target |-> aim, resume_acknowledged |-> TRUE, is_paused |-> eng.paused,
                   observed_engine_label |-> eng.label]
  <2>1. /\ at = "commit" /\ UNCHANGED eng /\ ConfirmResumed(e)
        /\ at' = IF state' = "READY" THEN "returned" ELSE "raised"
    BY <1>1, <1>13 DEF Commit, Confirmed
  <2>2. e.target = pending /\ ~ResumeFails(e)
    BY <2>1 DEF Opened, ResumeFails
  <2>3. state' = "READY" /\ current' = aim /\ UNCHANGED active
    BY <2>1, <2>2 DEF ConfirmResumed, Advance, Opened
  <2> QED
    BY <1>0, <2>1, <2>3
<1> QED
  BY <1>0, <1>2, <1>3, <1>4, <1>5, <1>6, <1>7, <1>8, <1>9, <1>10, <1>11, <1>12, <1>13
     DEF CycleCall

-----------------------------------------------------------------------------
(* The trails, script by script.                                           *)

LegOf(a) ==
    \/ a = "serve" /\ Leg = 1
    \/ a = "bootstrap" /\ Leg = 2
    \/ a = "generate" /\ Leg = 3
    \/ a = "admit" /\ Leg = 4 /\ script # "cycle"
    \/ a = "stream" /\ Leg = 5 /\ script # "cycle"
    \/ a = "cycle" /\ Leg = 6
    \/ a = "join request" /\ Leg = 7 /\ script # "cycle"
    \/ a = "check installed" /\ Leg = 8
    \/ a = "check old weights" /\ Leg = 9 /\ script # "cycle"
    \/ a = "verdict" /\ Leg = 10

(* The steps of an update, by their position in the longer scenario.       *)
LEMMA RollingAt ==
  ASSUME script \in Rolling, XTypeOK, NEW a, Now(a)
  PROVE  LegOf(a)
<1>0. pc \in 1..Len(Scenario[script]) /\ Scenario[script][pc] = a
  BY Position DEF XTypeOK, Now
<1>1. CASE script = "cycle"
  <2>1. Scenario[script] = Cycle
    BY <1>1 DEF Scenario
  <2>2. /\ Len(Cycle) = 6
        /\ Cycle[1] = "serve" /\ Cycle[2] = "bootstrap" /\ Cycle[3] = "generate"
        /\ Cycle[4] = "cycle" /\ Cycle[5] = "check installed" /\ Cycle[6] = "verdict"
    BY DEF Cycle
  <2>3. pc \in 1..6 /\ Cycle[pc] = a
    BY <1>0, <2>1, <2>2
  <2>4. \/ (pc = 1 /\ Leg = 1) \/ (pc = 2 /\ Leg = 2) \/ (pc = 3 /\ Leg = 3)
        \/ (pc = 4 /\ Leg = 6) \/ (pc = 5 /\ Leg = 8) \/ (pc = 6 /\ Leg = 10)
    BY <1>1, <2>3 DEF Leg
  <2> QED
    BY <2>2, <2>3, <2>4 DEF LegOf
<1>2. CASE script # "cycle"
  <2>1. Scenario[script] = Concurrency
    BY <1>2 DEF Scenario, Rolling
  <2>2. /\ Len(Concurrency) = 10
        /\ Concurrency[1] = "serve" /\ Concurrency[2] = "bootstrap"
        /\ Concurrency[3] = "generate" /\ Concurrency[4] = "admit"
        /\ Concurrency[5] = "stream" /\ Concurrency[6] = "cycle"
        /\ Concurrency[7] = "join request" /\ Concurrency[8] = "check installed"
        /\ Concurrency[9] = "check old weights" /\ Concurrency[10] = "verdict"
    BY DEF Concurrency
  <2>3. pc \in 1..10 /\ Concurrency[pc] = a /\ Leg = pc
    BY <1>0, <1>2, <2>1, <2>2 DEF Leg
  <2>4. \/ pc = 1 \/ pc = 2 \/ pc = 3 \/ pc = 4 \/ pc = 5
        \/ pc = 6 \/ pc = 7 \/ pc = 8 \/ pc = 9 \/ pc = 10
    BY <2>3
  <2> QED
    BY <1>2, <2>2, <2>3, <2>4 DEF LegOf
<1> QED
  BY <1>1, <1>2

LEMMA LegMoves ==
  ASSUME XTypeOK, UNCHANGED script, pc' = pc + 1, Leg < 11
  PROVE  \/ script # "cycle" /\ Leg' = Leg + 1
         \/ script = "cycle" /\ Leg < 3 /\ Leg' = Leg + 1
         \/ script = "cycle" /\ Leg = 3 /\ Leg' = 6
         \/ script = "cycle" /\ Leg > 3 /\ Leg' = Leg + 2
<1>1. pc \in Nat
  BY DEF XTypeOK
<1>2. CASE script # "cycle"
  BY <1>1, <1>2 DEF Leg
<1>3. CASE script = "cycle" /\ pc < 3
  BY <1>1, <1>3 DEF Leg
<1>4. CASE script = "cycle" /\ pc = 3
  BY <1>1, <1>4 DEF Leg
<1>5. CASE script = "cycle" /\ pc > 3
  BY <1>1, <1>5 DEF Leg
<1> QED
  BY <1>1, <1>2, <1>3, <1>4, <1>5

(* One rollout at most, so its release leaves none.                        *)
LEMMA LastReleased ==
  ASSUME IInv, AtMostOneActive, NEW r \in Rollouts, ReleaseRollout(r)
  PROVE  active' = NoRollouts
<1>1. active \in [Rollouts -> Targets \cup {None}]
  BY DEF IInv, TypeOK
<1>2. active' = [active EXCEPT ![r] = None] /\ active[r] # None
  BY DEF ReleaseRollout
<1>3. \A q \in Rollouts : active'[q] = None
  BY <1>1, <1>2 DEF AtMostOneActive
<1> QED
  BY <1>1, <1>2, <1>3 DEF NoRollouts

LEMMA FirstAdmitted ==
  ASSUME active = NoRollouts, NEW r \in Rollouts, AdmitRollout(r)
  PROVE  AtMostOneActive'
  BY DEF AdmitRollout, NoRollouts, AtMostOneActive

LEMMA NoneAtMostOne ==
  ASSUME active' = NoRollouts
  PROVE  AtMostOneActive'
  BY DEF NoRollouts, AtMostOneActive

(* Every step keeps the trail of the update, with or without a rollout.    *)
LEMMA RollTrailStep ==
  ASSUME Base, Closed, XNext, script \in Rolling, RollTrail, stage = "run", stage' = "run"
  PROVE  RollTrail'
<1>0. /\ script \in Scripts /\ XTypeOK /\ eng \in Engines /\ UNCHANGED script
      /\ IInv /\ pc \in Nat /\ good \in BOOLEAN
  BY DEF Base, XTypeOK, XNext
<1>1. CASE Stays
  <2>0. /\ UNCHANGED <<pc, good, sample, script>> /\ Leg' = Leg /\ Leg \in Nat
    BY <1>0, <1>1, Lingers DEF runVars, Leg
  <2>1. CASE Launched
    <3>1. Leg = 1
      BY <1>0, <2>1, RollingAt DEF LegOf, Launched, Now
    <3> QED
      BY <1>0, <2>0, <2>1, <3>1
         DEF Launched, RollTrail, RollEngine, RollRequest, FreshEngine, AtMostOneActive,
             vars
  <2>2. CASE Started
    <3>1. Leg = 6
      BY <1>0, <2>2, RollingAt DEF LegOf, Started, AtStep, Now
    <3> QED
      BY <1>0, <2>0, <2>2, <3>1
         DEF Started, RollTrail, RollEngine, RollRequest, AtMostOneActive, vars
  <2>3. CASE Cycling
    <3>1. at # "idle" /\ Leg = 6
      BY <1>0, <2>0, <2>3, Cycles DEF Calls, RollTrail, RollEngine, RollRequest
    <3>2. AtMostOneActive'
      BY <2>3, CycleBindings, NoneAtMostOne
         DEF RollTrail, RollEngine, RollRequest, AtMostOneActive
    <3>3. /\ request' = "released" => request = "released"
          /\ request = "none" => request' = "none" /\ used' = used
      BY <2>3, Cycles
    <3> QED
      BY <1>0, <2>0, <2>3, <3>1, <3>2, <3>3, CycleBindings
         DEF RollTrail, RollEngine, RollRequest
  <2>4. CASE Passed
    <3>1. eng'.weights = eng.weights /\ eng'.label = eng.label /\ eng'.paused = eng.paused
      BY <1>0, <2>4 DEF Passed, Engines
    <3>2. CASE UNCHANGED active /\ (request' = "released" => request = "released")
      BY <1>0, <2>0, <2>4, <3>1, <3>2
         DEF Passed, RollTrail, RollEngine, RollRequest, AtMostOneActive, Committed
    <3>3. ASSUME NEW r \in Rollouts, ReleaseRollout(r), request' \in {"released", "failed"},
                 request \in {"answered", "aborted"}
          PROVE  RollTrail'
      <4>1. active' = NoRollouts
        BY <1>0, <3>3, LastReleased DEF RollTrail, RollEngine, RollRequest
      <4> QED
        BY <1>0, <2>0, <2>4, <3>1, <3>3, <4>1, NoneAtMostOne
           DEF Passed, RollTrail, RollEngine, RollRequest, Committed
    <3> QED
      BY <2>4, <3>2, <3>3 DEF Passed
  <2> QED
    BY <1>1, <2>1, <2>2, <2>3, <2>4, Lingers
<1>2. ASSUME NEW a, Onward(a) PROVE RollTrail'
  <2>0. /\ Keeps(a) /\ Does(a) /\ LegOf(a) /\ UNCHANGED script /\ pc' = pc + 1
    BY <1>0, <1>2, StepDoes, RollingAt DEF Onward, Now
  <2>r. RollEngine' /\ RollRequest' => RollTrail'
    BY DEF RollTrail
  <2> USE DEF RollEngine, RollRequest, AtMostOneActive, Committed
  <2>1. CASE a = "serve" \/ a = "bootstrap"
    <3>1. Leg = 1 \/ Leg = 2
      BY <2>0, <2>1 DEF LegOf
    <3>2. Leg' = 2 \/ Leg' = 3
      BY <1>0, <2>0, <3>1, LegMoves
    <3>3. at = "idle" /\ eng.weights = "loaded"
      BY <1>0, <3>1 DEF RollTrail
    <3>4. /\ active = NoRollouts /\ request = "none" /\ AtMostOneActive
          /\ script = "cycle" => used = {}
      BY <1>0, <3>1 DEF RollTrail
    <3>5. /\ UNCHANGED <<at, sample, active, request, used, good, script>>
          /\ eng'.weights = eng.weights
      BY <1>0, <2>0, <2>1 DEF Keeps, Does, vars, Engines, Checks
    <3>8. RollEngine'
      BY <3>1, <3>2, <3>3, <3>5
    <3>9. RollRequest'
      BY <3>1, <3>2, <3>4, <3>5
    <3> QED
      BY <2>r, <3>8, <3>9
  <2>2. CASE a = "generate"
    <3>1. Leg = 3
      BY <2>0, <2>2 DEF LegOf
    <3>2. Leg' = 4 \/ (script = "cycle" /\ Leg' = 6)
      BY <1>0, <2>0, <3>1, LegMoves
    <3>3. at = "idle" /\ eng.weights = "loaded"
      BY <1>0, <3>1 DEF RollTrail
    <3>4. /\ active = NoRollouts /\ request = "none" /\ AtMostOneActive
          /\ script = "cycle" => used = {}
      BY <1>0, <3>1 DEF RollTrail
    <3>5. /\ UNCHANGED <<at, active, request, used, good, script>>
          /\ eng'.weights = eng.weights
      BY <1>0, <2>0, <2>2 DEF Keeps, Does, vars, Engines, Checks
    <3>8. RollEngine'
      BY <3>1, <3>2, <3>3, <3>5
    <3>9. RollRequest'
      BY <3>1, <3>2, <3>4, <3>5
    <3> QED
      BY <2>r, <3>8, <3>9
  <2>3. CASE a = "admit"
    <3>1. Leg = 4 /\ script # "cycle"
      BY <2>0, <2>3 DEF LegOf
    <3>2. Leg' = 5
      BY <1>0, <2>0, <3>1, LegMoves
    <3>3. at = "idle" /\ eng.weights = "loaded"
      BY <1>0, <3>1 DEF RollTrail
    <3>4. active = NoRollouts /\ request = "none"
      BY <1>0, <3>1 DEF RollTrail
    <3>5. UNCHANGED <<at, sample, request, used, eng, good, script>>
      BY <2>0, <2>3 DEF Keeps, Checks
    <3>6. AtMostOneActive'
      BY <2>0, <2>3, <3>4, FirstAdmitted DEF Does
    <3>8. RollEngine'
      BY <3>1, <3>2, <3>3, <3>5, <3>6
    <3>9. RollRequest'
      BY <3>1, <3>2, <3>4, <3>5, <3>6
    <3> QED
      BY <2>r, <3>8, <3>9
  <2>4. CASE a = "stream"
    <3>1. Leg = 5 /\ script # "cycle"
      BY <2>0, <2>4 DEF LegOf
    <3>2. Leg' = 6
      BY <1>0, <2>0, <3>1, LegMoves
    <3>3. at = "idle" /\ eng.weights = "loaded"
      BY <1>0, <3>1 DEF RollTrail
    <3>4. AtMostOneActive /\ request = "none"
      BY <1>0, <3>1 DEF RollTrail
    <3>5. UNCHANGED <<at, sample, active, eng, good, script>> /\ request' # "released"
      <4>1. UNCHANGED <<at, sample, active, eng, good, script>>
        BY <2>0, <2>4 DEF Keeps, vars, Checks
      <4> QED
        BY <2>0, <2>4, <4>1 DEF Does
    <3>8. RollEngine'
      BY <3>1, <3>2, <3>3, <3>5
    <3>9. RollRequest'
      BY <3>1, <3>2, <3>4, <3>5
    <3> QED
      BY <2>r, <3>8, <3>9
  <2>5. CASE a = "cycle"
    <3>1. Leg = 6
      BY <2>0, <2>5 DEF LegOf
    <3>2. Leg' = 7 \/ Leg' = 8
      BY <1>0, <2>0, <3>1, LegMoves
    <3>4. /\ AtMostOneActive /\ (request = "released" => active = NoRollouts)
          /\ script = "cycle" => active = NoRollouts /\ request = "none" /\ used = {}
      BY <1>0, <3>1 DEF RollTrail
    <3>5. /\ UNCHANGED <<state, current, active, eng, sample, request, used, good, script>>
          /\ at' = "idle" /\ state = "READY" /\ eng.weights = "sent"
      BY <2>0, <2>5 DEF Keeps, Does, Closed, CallHolds, vars, Checks
    <3>8. RollEngine'
      BY <3>1, <3>2, <3>5
    <3>9. RollRequest'
      BY <3>1, <3>2, <3>4, <3>5
    <3> QED
      BY <2>r, <3>8, <3>9
  <2>6. CASE a = "check installed"
    <3>1. Leg = 8
      BY <2>0, <2>6 DEF LegOf
    <3>2. Leg' = 9 \/ (script = "cycle" /\ Leg' = 10)
      BY <1>0, <2>0, <3>1, LegMoves
    <3>3. eng.weights = "sent" /\ at = "idle" /\ state = "READY"
      BY <1>0, <3>1 DEF RollTrail
    <3>4. /\ AtMostOneActive /\ (request = "released" => active = NoRollouts)
          /\ script = "cycle" => active = NoRollouts /\ request = "none" /\ used = {}
      BY <1>0, <3>1 DEF RollTrail
    <3>5. UNCHANGED <<state, current, active, eng, sample, request, used, at, script>>
      BY <2>0, <2>6 DEF Keeps, Checks, vars
    <3>6. good' => Installed
      BY <2>0, <2>6 DEF Does, Checks, Holds, DemoHolds, FailuresHold
    <3>7. good' => Committed(1) /\ eng.label = 1
      BY <3>6 DEF Installed, Reports
    <3>8. RollEngine'
      BY <3>1, <3>2, <3>3, <3>5, <3>7
    <3>9. RollRequest'
      BY <3>1, <3>2, <3>4, <3>5
    <3> QED
      BY <2>r, <3>8, <3>9
  <2>7. CASE a = "check old weights"
    <3>1. Leg = 9 /\ script # "cycle"
      BY <2>0, <2>7 DEF LegOf
    <3>2. Leg' = 10
      BY <1>0, <2>0, <3>1, LegMoves
    <3>3. /\ eng.weights = "sent" /\ at = "idle" /\ state = "READY"
          /\ good => Committed(1) /\ eng.label = 1
      BY <1>0, <3>1 DEF RollTrail
    <3>4. /\ AtMostOneActive /\ (request = "released" => active = NoRollouts)
          /\ script = "cycle" => active = NoRollouts /\ request = "none" /\ used = {}
      BY <1>0, <3>1 DEF RollTrail
    <3>5. UNCHANGED <<state, current, active, eng, sample, request, used, at, script>>
      BY <2>0, <2>7 DEF Keeps, Checks, vars
    <3>6. /\ good' => good
          /\ good' => request = "released" /\ used = {"loaded"}
      BY <2>0, <2>7 DEF Does, Checks, Holds, DemoHolds, FailuresHold
    <3>8. RollEngine'
      BY <3>1, <3>2, <3>3, <3>5, <3>6
    <3>9. RollRequest'
      BY <3>1, <3>2, <3>4, <3>5, <3>6
    <3> QED
      BY <2>r, <3>8, <3>9
  <2>8. CASE a = "join request"
    <3>1. Leg = 7 /\ script # "cycle"
      BY <2>0, <2>8 DEF LegOf
    <3>2. Leg' = 8
      BY <1>0, <2>0, <3>1, LegMoves
    <3>3. eng.weights = "sent" /\ at = "idle" /\ state = "READY"
      BY <1>0, <3>1 DEF RollTrail
    <3>4. /\ AtMostOneActive /\ (request = "released" => active = NoRollouts)
          /\ script = "cycle" => active = NoRollouts /\ request = "none" /\ used = {}
      BY <1>0, <3>1 DEF RollTrail
    <3>5. UNCHANGED <<state, current, active, eng, sample, request, used, at, good, script>>
      BY <2>0, <2>8 DEF Keeps, Checks, vars
    <3>8. RollEngine'
      BY <3>1, <3>2, <3>3, <3>5
    <3>9. RollRequest'
      BY <3>1, <3>2, <3>4, <3>5
    <3> QED
      BY <2>r, <3>8, <3>9
  <2>9. CASE a = "verdict"
    <3>1. Leg = 10
      BY <2>0, <2>9 DEF LegOf
    <3>2. Leg' = 11 \/ (script = "cycle" /\ Leg' = 12)
      BY <1>0, <2>0, <3>1, LegMoves
    <3>3. /\ eng.weights = "sent" /\ at = "idle" /\ state = "READY"
          /\ good => Committed(1) /\ eng.label = 1
      BY <1>0, <3>1 DEF RollTrail
    <3>4. /\ AtMostOneActive /\ (request = "released" => active = NoRollouts)
          /\ script = "cycle" => active = NoRollouts /\ request = "none" /\ used = {}
          /\ script # "cycle" /\ good => request = "released" /\ used = {"loaded"}
      BY <1>0, <3>1 DEF RollTrail
    <3>5. UNCHANGED <<state, current, active, eng, sample, request, used, at, good, script>>
      BY <2>0, <2>9 DEF Keeps, Checks, vars
    <3>8. RollEngine'
      BY <3>1, <3>2, <3>3, <3>5
    <3>9. RollRequest'
      BY <3>1, <3>2, <3>4, <3>5
    <3> QED
      BY <2>r, <3>8, <3>9
  <2> QED
    BY <2>0, <2>1, <2>2, <2>3, <2>4, <2>5, <2>6, <2>7, <2>8, <2>9 DEF LegOf
<1> QED
  BY <1>1, <1>2, Moves DEF Leaves

LEMMA At ==
  ASSUME script \in Scripts, XTypeOK, NEW a, Now(a)
  PROVE  pc \in 1..Len(Scenario[script]) /\ Scenario[script][pc] = a
  BY Position DEF XTypeOK, Now

-----------------------------------------------------------------------------
(* A step of the main thread, or of what runs beside it.                   *)

Here == Scenario[script][pc]

Lingering ==
    /\ UNCHANGED <<pc, good, verdict, script, faults, sample, reused, seen, hung>>
    /\ Cycling \/ Launched \/ Started \/ Passed

Moving ==
    /\ pc \in 1..Len(Scenario[script]) /\ pc' = pc + 1
    /\ Keeps(Here) /\ Does(Here)
    /\ UNCHANGED script

(* Each step of a scenario lingers or moves on.                            *)
LEMMA Moved ==
  ASSUME Base, XNext, stage = "run", stage' = "run"
  PROVE  Lingering \/ Moving
<1>0. script \in Scripts /\ XTypeOK /\ UNCHANGED script
  BY DEF Base, XNext
<1>1. CASE Stays
  BY <1>0, <1>1, Lingers DEF Lingering, runVars
<1>2. ASSUME NEW a, Onward(a) PROVE Moving
  <2>1. Now(a) /\ pc' = pc + 1 /\ Keeps(a) /\ Does(a)
    BY <1>2, StepDoes DEF Onward
  <2>2. pc \in 1..Len(Scenario[script]) /\ a = Here
    BY <1>0, <2>1, Position DEF XTypeOK, Now, Here
  <2> QED
    BY <1>0, <2>1, <2>2 DEF Moving
<1> QED
  BY <1>1, <1>2, Moves DEF Leaves

LEMMA NowHere ==
  ASSUME NEW a, Now(a)
  PROVE  a = Here
  BY DEF Now, Here

-----------------------------------------------------------------------------
(* The cache scenario.                                                     *)

(* The cache diagnostic.                                                   *)
LEMMA CacheTrailStep ==
  ASSUME Base, XNext, script = "cache", stage = "run", stage' = "run"
  PROVE  CacheTrail => CacheTrail'
<1>t. SUFFICES ASSUME CacheTrail PROVE CacheTrail'
  OBVIOUS
<1>0. /\ script \in Scripts /\ XTypeOK /\ eng \in Engines /\ pc \in Nat
      /\ {good, reused} \subseteq BOOLEAN /\ Scenario[script] = Cache
  BY DEF Base, XTypeOK, Scenario, Scripts
<1>a. /\ Len(Cache) = 12
      /\ Cache[1] = "serve" /\ Cache[2] = "bootstrap" /\ Cache[3] = "generate"
      /\ Cache[4] = "check warm" /\ Cache[5] = "cycle" /\ Cache[6] = "check installed"
  BY DEF Cache
<1>b. /\ Cache[7] = "check cold" /\ Cache[8] = "generate" /\ Cache[9] = "check warm"
      /\ Cache[10] = "out of band" /\ Cache[11] = "generate" /\ Cache[12] = "verdict"
  BY DEF Cache
<1>c. good => ~reused
  BY <1>t DEF CacheTrail
<1>d. pc > 5 => at = "idle"
  BY <1>t DEF CacheTrail
<1>e. pc > 6 /\ good => Committed(1)
  BY <1>t DEF CacheTrail
<1>1. CASE Lingering
  <2>0. UNCHANGED <<pc, good, reused>>
    BY <1>1 DEF Lingering
  <2>1. CASE Cycling
    <3>1. pc > 3 /\ ~(pc > 5)
      BY <1>0, <1>t, <2>1, Cycles DEF CacheTrail, Calls
    <3> QED
      BY <1>0, <1>c, <2>0, <3>1 DEF CacheTrail
  <2>2. CASE Launched \/ Started
    <3>1. /\ Launched => pc = 1
          /\ Started => pc = 5
      <4>1. pc \in 1..12 /\ (Launched => Cache[pc] = "serve")
            /\ (Started => Cache[pc] \in {"cycle", "try"})
        BY <1>0, <1>a, <2>2, At DEF Launched, Started, AtStep, Now, XTypeOK
      <4>2. \/ pc = 1 \/ pc = 2 \/ pc = 3 \/ pc = 4 \/ pc = 5 \/ pc = 6 \/ pc = 7 \/ pc = 8
            \/ pc = 9 \/ pc = 10 \/ pc = 11 \/ pc = 12
        BY <4>1
      <4> QED
        BY <1>a, <1>b, <4>1, <4>2
    <3>2. CASE Launched
      BY <1>c, <2>0, <3>1, <3>2 DEF CacheTrail, Launched, FreshEngine
    <3>3. CASE Started
      BY <1>c, <2>0, <3>1, <3>3 DEF CacheTrail
    <3> QED
      BY <2>2, <3>2, <3>3
  <2>3. CASE Passed
    <3>1. UNCHANGED <<at, current>> /\ eng'.kv = eng.kv /\ eng'.weights = eng.weights
      BY <1>0, <2>3 DEF Passed, Engines
    <3> QED
      BY <1>t, <2>0, <3>1 DEF CacheTrail, Committed
  <2> QED
    BY <1>1, <2>1, <2>2, <2>3 DEF Lingering
<1>2. CASE Moving
  <2>0. Keeps(Here) /\ Does(Here) /\ pc' = pc + 1 /\ Here = Cache[pc] /\ pc \in 1..12
    BY <1>0, <1>a, <1>2 DEF Moving, Here
  <2>1. CASE pc = 1 \/ pc = 2
    <3>1. Here \in {"serve", "bootstrap"}
      BY <1>a, <2>0, <2>1
    <3>2. UNCHANGED <<at, good, reused>> /\ eng'.kv = eng.kv
      BY <1>0, <2>0, <3>1 DEF Keeps, Does, Engines, Checks
    <3>3. at = "idle" /\ eng.kv = None
      BY <1>t, <2>1 DEF CacheTrail
    <3> QED
      BY <1>c, <2>0, <2>1, <3>2, <3>3 DEF CacheTrail
  <2>2. CASE pc = 3
    <3>1. Here = "generate"
      BY <1>a, <2>0, <2>2
    <3>2. eng.kv = None
      BY <1>t, <2>2 DEF CacheTrail
    <3>3. UNCHANGED good /\ reused' = reused
      BY <1>0, <2>0, <3>1, <3>2 DEF Keeps, Does, Checks
    <3> QED
      BY <1>c, <2>0, <2>2, <3>3 DEF CacheTrail
  <2>3. CASE pc = 4
    <3>1. Here = "check warm"
      BY <1>a, <2>0, <2>3
    <3>2. (good' => good) /\ UNCHANGED reused
      BY <2>0, <3>1 DEF Keeps, Does, Checks
    <3> QED
      BY <1>c, <2>0, <2>3, <3>2 DEF CacheTrail
  <2>4. CASE pc = 5
    <3>1. Here = "cycle"
      BY <1>a, <2>0, <2>4
    <3>2. UNCHANGED <<good, reused>> /\ at' = "idle"
      BY <2>0, <3>1 DEF Keeps, Does, Checks
    <3> QED
      BY <1>c, <2>0, <2>4, <3>2 DEF CacheTrail
  <2>5. CASE pc = 6
    <3>1. Here = "check installed"
      BY <1>a, <2>0, <2>5
    <3>2. UNCHANGED <<current, at, reused>>
      BY <2>0, <3>1 DEF Keeps, Checks, vars
    <3>3. (good' => good) /\ (good' => Committed(1))
      BY <2>0, <3>1 DEF Does, Checks, Holds, DemoHolds, FailuresHold, Installed
    <3> QED
      BY <1>c, <1>d, <2>0, <2>5, <3>2, <3>3 DEF CacheTrail, Committed
  <2>6. CASE pc = 7
    <3>1. Here = "check cold"
      BY <1>b, <2>0, <2>6
    <3>2. UNCHANGED <<current, eng, at, reused>>
      BY <2>0, <3>1 DEF Keeps, Checks, vars
    <3>3. (good' => good) /\ (good' => eng.kv = None)
      BY <2>0, <3>1 DEF Does, Checks, Holds, DemoHolds, FailuresHold
    <3> QED
      BY <1>c, <1>d, <1>e, <2>0, <2>6, <3>2, <3>3 DEF CacheTrail, Committed
  <2>7. CASE pc = 8 \/ pc = 11
    <3>1. Here = "generate"
      BY <1>b, <2>0, <2>7
    <3>2. UNCHANGED <<current, at, good>>
      BY <2>0, <3>1 DEF Keeps, Checks, vars
    <3>3. good => eng.kv = None \/ eng.weights = "corrupted"
      BY <1>t, <2>7 DEF CacheTrail
    <3>4. good => reused' = reused
      BY <1>0, <2>0, <3>1, <3>3 DEF Does
    <3> QED
      BY <1>c, <1>d, <1>e, <2>0, <2>7, <3>2, <3>4 DEF CacheTrail, Committed
  <2>8. CASE pc = 9 \/ pc = 12
    <3>1. Here \in {"check warm", "verdict"}
      BY <1>b, <2>0, <2>8
    <3>2. UNCHANGED <<current, at, reused>>
      BY <2>0, <3>1 DEF Keeps, Checks, vars
    <3>3. good' => good
      BY <2>0, <3>1 DEF Keeps, Does, Checks
    <3> QED
      BY <1>c, <1>d, <1>e, <2>0, <2>8, <3>2, <3>3 DEF CacheTrail, Committed
  <2>9. CASE pc = 10
    <3>1. Here = "out of band"
      BY <1>b, <2>0, <2>9
    <3>2. UNCHANGED <<current, at, reused, good>> /\ eng'.weights = "corrupted"
      BY <1>0, <2>0, <3>1 DEF Keeps, Does, Checks, vars, Engines
    <3> QED
      BY <1>c, <1>d, <1>e, <2>0, <2>9, <3>2 DEF CacheTrail, Committed
  <2>q. \/ pc = 1 \/ pc = 2 \/ pc = 3 \/ pc = 4 \/ pc = 5 \/ pc = 6 \/ pc = 7 \/ pc = 8
        \/ pc = 9 \/ pc = 10 \/ pc = 11 \/ pc = 12
    BY <2>0
  <2> QED
    BY <2>1, <2>2, <2>3, <2>4, <2>5, <2>6, <2>7, <2>8, <2>9, <2>q
<1> QED
  BY <1>1, <1>2, Moved

-----------------------------------------------------------------------------
(* The smoke.                                                              *)

(* The smoke: the engine serves one set of weights from end to end.        *)
LEMMA SmokeTrailStep ==
  ASSUME Base, XNext, script = "smoke", stage = "run", stage' = "run"
  PROVE  SmokeTrail => SmokeTrail'
<1>t. SUFFICES ASSUME SmokeTrail PROVE SmokeTrail'
  OBVIOUS
<1>0. /\ script \in Scripts /\ XTypeOK /\ eng \in Engines /\ pc \in Nat
      /\ Scenario[script] = Smoke
  BY DEF Base, XTypeOK, Scenario, Scripts
<1>a. /\ Len(Smoke) = 13
      /\ Smoke[1] = "serve" /\ Smoke[2] = "bootstrap" /\ Smoke[3] = "refused"
      /\ Smoke[4] = "generate" /\ Smoke[5] = "stream" /\ Smoke[6] = "poll"
  BY DEF Smoke
<1>b. /\ Smoke[7] = "join request" /\ Smoke[8] = "drain" /\ Smoke[9] = "reset"
      /\ Smoke[10] = "reopen" /\ Smoke[11] = "generate" /\ Smoke[12] = "abandon"
      /\ Smoke[13] = "verdict"
  BY DEF Smoke
<1>c. at = "idle" /\ eng.weights = "loaded"
  BY <1>t DEF SmokeTrail
<1>1. CASE Lingering
  <2>0. UNCHANGED pc /\ ~Cycling
    BY <1>1, <1>c, Cycles DEF Lingering, Calls
  <2>1. CASE Launched \/ Started
    <3>1. /\ Launched => pc = 1
          /\ ~Started
      <4>1. pc \in 1..13 /\ (Launched => Smoke[pc] = "serve")
            /\ (Started => Smoke[pc] \in {"cycle", "try"})
        BY <1>0, <1>a, <2>1, At DEF Launched, Started, AtStep, Now, XTypeOK
      <4>2. \/ pc = 1 \/ pc = 2 \/ pc = 3 \/ pc = 4 \/ pc = 5 \/ pc = 6 \/ pc = 7 \/ pc = 8
            \/ pc = 9 \/ pc = 10 \/ pc = 11 \/ pc = 12 \/ pc = 13
        BY <4>1
      <4> QED
        BY <1>a, <1>b, <4>1, <4>2
    <3> QED
      BY <2>0, <2>1, <3>1 DEF SmokeTrail, Launched, FreshEngine
  <2>2. CASE Passed
    <3>1. /\ UNCHANGED <<at, state, current>>
          /\ request = "answered" => request' = "answered"
          /\ eng'.weights = eng.weights /\ eng'.label = eng.label /\ eng'.paused = eng.paused
      BY <1>0, <2>2 DEF Passed, Engines, ReleasesItself
    <3> QED
      BY <1>t, <2>0, <3>1 DEF SmokeTrail, Committed
  <2> QED
    BY <1>1, <2>0, <2>1, <2>2 DEF Lingering
<1>2. CASE Moving
  <2>0. Keeps(Here) /\ Does(Here) /\ pc' = pc + 1 /\ Here = Smoke[pc] /\ pc \in 1..13
    BY <1>0, <1>a, <1>2 DEF Moving, Here
  <2>1. CASE pc = 1
    <3>1. Here = "serve"
      BY <1>a, <2>0, <2>1
    <3>2. UNCHANGED at /\ eng'.weights = eng.weights
      BY <1>0, <2>0, <3>1 DEF Keeps, Does, Engines
    <3> QED
      BY <1>c, <2>0, <2>1, <3>2 DEF SmokeTrail
  <2>2. CASE pc = 2
    <3>1. Here = "bootstrap"
      BY <1>a, <2>0, <2>2
    <3>2. UNCHANGED at /\ eng'.weights = eng.weights /\ eng'.label = 0 /\ Committed(0)'
      BY <1>0, <2>0, <3>1 DEF Keeps, Does, Engines
    <3> QED
      BY <1>c, <2>0, <2>2, <3>2 DEF SmokeTrail
  <2>d. pc > 2 => Committed(0) /\ eng.label = 0
    BY <1>t DEF SmokeTrail
  <2>e. pc > 7 => request = "answered"
    BY <1>t DEF SmokeTrail
  <2>3. CASE pc \in 3..6
    <3>1. Here \in {"refused", "generate", "stream", "poll"}
      <4>1. pc = 3 \/ pc = 4 \/ pc = 5 \/ pc = 6
        BY <2>3
      <4> QED
        BY <1>a, <2>0, <4>1
    <3>2. UNCHANGED <<at, current>> /\ eng'.weights = eng.weights /\ eng'.label = eng.label
      BY <1>0, <2>0, <3>1 DEF Keeps, Does, Engines, vars
    <3> QED
      BY <1>c, <2>0, <2>d, <2>3, <3>2 DEF SmokeTrail, Committed
  <2>4. CASE pc = 7
    <3>1. Here = "join request"
      BY <1>b, <2>0, <2>4
    <3>2. UNCHANGED <<at, current, eng, request>> /\ request = "answered"
      BY <2>0, <3>1 DEF Keeps, Does, vars
    <3> QED
      BY <1>c, <2>0, <2>d, <2>4, <3>2 DEF SmokeTrail, Committed
  <2>5. CASE pc \in 8..9
    <3>1. Here \in {"drain", "reset"}
      <4>1. pc = 8 \/ pc = 9
        BY <2>5
      <4> QED
        BY <1>b, <2>0, <4>1
    <3>2. UNCHANGED <<at, current, request>> /\ eng'.weights = eng.weights
          /\ eng'.label = eng.label
      BY <1>0, <2>0, <3>1 DEF Keeps, Does, Engines, vars
    <3> QED
      BY <1>c, <2>0, <2>d, <2>e, <2>5, <3>2 DEF SmokeTrail, Committed
  <2>6. CASE pc = 10
    <3>1. Here = "reopen"
      BY <1>b, <2>0, <2>6
    <3>2. UNCHANGED <<at, current, request>> /\ eng'.weights = eng.weights
          /\ eng'.label = eng.label
      BY <1>0, <2>0, <3>1 DEF Keeps, Does, Engines, vars
    <3> QED
      BY <1>c, <2>0, <2>d, <2>e, <2>6, <3>2 DEF SmokeTrail, Committed
  <2>7. CASE pc \in 11..13
    <3>1. /\ pc = 11 => Here = "generate"
          /\ pc = 12 => Here = "abandon"
          /\ pc = 13 => Here = "verdict"
      BY <1>b, <2>0
    <3>2. UNCHANGED <<at, current, request>> /\ eng'.weights = eng.weights
          /\ eng'.label = eng.label
      <4>1. Here \in {"generate", "abandon", "verdict"}
        BY <2>7, <3>1
      <4> QED
        BY <1>0, <2>0, <4>1 DEF Keeps, Does, Engines, vars
    <3>3. pc = 13 => state = "TAINTED"
      BY <1>t, <2>7 DEF SmokeTrail
    <3>4. pc > 11 => state' = "TAINTED"
      <4>1. pc = 12 => state' = "TAINTED"
        BY <2>0, <3>1 DEF Does
      <4>2. pc = 13 => state' = "TAINTED"
        BY <2>0, <3>1, <3>3 DEF Keeps, vars
      <4> QED
        BY <2>7, <4>1, <4>2
    <3> QED
      BY <1>c, <2>0, <2>d, <2>e, <2>7, <3>2, <3>3, <3>4 DEF SmokeTrail, Committed
  <2>q. pc = 1 \/ pc = 2 \/ pc \in 3..6 \/ pc = 7 \/ pc \in 8..9 \/ pc = 10 \/ pc \in 11..13
    BY <2>0
  <2> QED
    BY <2>1, <2>2, <2>3, <2>4, <2>5, <2>6, <2>7, <2>q
<1> QED
  BY <1>1, <1>2, Moved

-----------------------------------------------------------------------------
(* The kill in the middle of an update.                                    *)

(* The kill during an update: dead from the kill on, one way or another.   *)
LEMMA UpdateKillTrailStep ==
  ASSUME Base, XNext, script = "updatekill", stage = "run", stage' = "run"
  PROVE  UpdateKillTrail => UpdateKillTrail'
<1>t. SUFFICES ASSUME UpdateKillTrail PROVE UpdateKillTrail'
  OBVIOUS
<1>0. /\ script \in Scripts /\ XTypeOK /\ eng \in Engines /\ pc \in Nat
      /\ Scenario[script] = UpdateKill /\ state # None /\ {good, hung} \subseteq BOOLEAN
  BY NoStateAssumption DEF Base, XTypeOK, Scenario, Scripts
<1>a. /\ Len(UpdateKill) = 12
      /\ UpdateKill[1] = "serve" /\ UpdateKill[2] = "bootstrap" /\ UpdateKill[3] = "cycle"
      /\ UpdateKill[4] = "check committed" /\ UpdateKill[5] = "generate"
      /\ UpdateKill[6] = "spawn" /\ UpdateKill[7] = "arm"
  BY DEF UpdateKill
<1>b. /\ UpdateKill[8] = "kill" /\ UpdateKill[9] = "join"
      /\ UpdateKill[10] = "check fail closed" /\ UpdateKill[11] = "verdict"
      /\ UpdateKill[12] = "hang"
  BY DEF UpdateKill
<1>c. pc > 1 => eng.up \/ diedIn # None
  BY <1>t DEF UpdateKillTrail
<1>d. pc > 8 => ~eng.up
  BY <1>t DEF UpdateKillTrail
<1>e. pc > 10 /\ good => at = "raised" /\ Committed(1) /\ state \notin ADMITTING_STATES
  BY <1>t DEF UpdateKillTrail
<1>f. pc = 10 => hung \/ at \in {"returned", "raised"}
  BY <1>t DEF UpdateKillTrail
<1>1. CASE Lingering
  <2>0. UNCHANGED <<pc, good, hung>>
    BY <1>1 DEF Lingering
  <2>1. CASE Launched \/ Started
    <3>1. /\ Launched => pc = 1
          /\ Started => pc = 3
      <4>1. pc \in 1..12 /\ (Launched => UpdateKill[pc] = "serve")
            /\ (Started => UpdateKill[pc] \in {"cycle", "try"})
        BY <1>0, <1>a, <2>1, At DEF Launched, Started, AtStep, Now, XTypeOK
      <4>2. \/ pc = 1 \/ pc = 2 \/ pc = 3 \/ pc = 4 \/ pc = 5 \/ pc = 6 \/ pc = 7 \/ pc = 8
            \/ pc = 9 \/ pc = 10 \/ pc = 11 \/ pc = 12
        BY <4>1
      <4> QED
        BY <1>a, <1>b, <4>1, <4>2
    <3>2. CASE Launched
      BY <2>0, <3>1, <3>2 DEF UpdateKillTrail
    <3>3. CASE Started
      BY <1>c, <2>0, <3>1, <3>3 DEF UpdateKillTrail, Started
    <3> QED
      BY <2>1, <3>2, <3>3
  <2>2. CASE Cycling
    <3>1. eng'.up = eng.up /\ diedIn' = diedIn /\ at \notin Outcomes
      BY <1>0, <2>2, CycleEngine, Cycles DEF noteVars, Calls, Outcomes
    <3> QED
      BY <1>c, <1>d, <1>e, <1>f, <2>0, <3>1 DEF UpdateKillTrail, Outcomes
  <2>3. CASE Passed
    <3>1. /\ UNCHANGED <<at, current, state>> /\ (eng'.up => eng.up)
          /\ (eng.up \/ diedIn # None) => (eng'.up \/ diedIn' # None)
      BY <1>0, <2>3 DEF Passed, Engines
    <3> QED
      BY <1>c, <1>d, <1>e, <1>f, <2>0, <3>1 DEF UpdateKillTrail, Committed
  <2> QED
    BY <1>1, <2>1, <2>2, <2>3 DEF Lingering
<1>2. CASE Moving
  <2>0. /\ Keeps(Here) /\ Does(Here) /\ pc' = pc + 1 /\ Here = UpdateKill[pc]
        /\ pc \in 1..12
    BY <1>0, <1>a, <1>2 DEF Moving, Here
  <2>1. CASE pc = 1
    <3>1. Here = "serve"
      BY <1>a, <2>0, <2>1
    <3>2. eng'.up
      BY <1>0, <2>0, <3>1 DEF Does, Engines
    <3> QED
      BY <2>0, <2>1, <3>2 DEF UpdateKillTrail
  <2>2. CASE pc \in 2..7
    <3>1. Here \in {"bootstrap", "cycle", "check committed", "generate", "spawn", "arm"}
      <4>1. pc = 2 \/ pc = 3 \/ pc = 4 \/ pc = 5 \/ pc = 6 \/ pc = 7
        BY <2>2
      <4> QED
        BY <1>a, <2>0, <4>1
    <3>2. eng'.up = eng.up /\ UNCHANGED diedIn
      BY <1>0, <2>0, <3>1 DEF Keeps, Does, Engines, Checks
    <3> QED
      BY <1>c, <2>0, <2>2, <3>2 DEF UpdateKillTrail
  <2>3. CASE pc = 8
    <3>1. Here = "kill"
      BY <1>b, <2>0, <2>3
    <3>2. ~eng'.up /\ diedIn' # None
      <4>1. eng' = [eng EXCEPT !.up = FALSE] /\ diedIn' = IF eng.up THEN state ELSE diedIn
        BY <2>0, <3>1 DEF Does
      <4> QED
        BY <1>0, <1>c, <2>3, <4>1 DEF Engines
    <3> QED
      BY <2>0, <2>3, <3>2 DEF UpdateKillTrail
  <2>4. CASE pc = 9
    <3>1. Here = "join"
      BY <1>b, <2>0, <2>4
    <3>2. UNCHANGED <<eng, at, diedIn>> /\ hung' = (at \notin {"returned", "raised"})
      BY <2>0, <3>1 DEF Keeps, Does
    <3>3. hung' \/ at' \in {"returned", "raised"}
      BY <3>2
    <3> QED
      BY <1>c, <1>d, <2>0, <2>4, <3>2, <3>3 DEF UpdateKillTrail
  <2>5. CASE pc = 10
    <3>1. Here = "check fail closed"
      BY <1>b, <2>0, <2>5
    <3>2. UNCHANGED <<state, current, eng, at, diedIn>>
      BY <2>0, <3>1 DEF Keeps, vars
    <3>3. good' => FailedClosed
      BY <2>0, <3>1 DEF Does, Checks, Holds, DemoHolds, FailuresHold
    <3>4. good' => at = "raised" /\ Committed(1) /\ state \notin ADMITTING_STATES
      BY <1>f, <2>5, <3>3 DEF FailedClosed
    <3> QED
      BY <1>c, <1>d, <2>0, <2>5, <3>2, <3>4 DEF UpdateKillTrail, Committed
  <2>6. CASE pc \in 11..12
    <3>1. Here \in {"verdict", "hang"}
      <4>1. pc = 11 \/ pc = 12
        BY <2>6
      <4> QED
        BY <1>b, <2>0, <4>1
    <3>2. UNCHANGED <<state, current, eng, at, diedIn, good>>
      BY <2>0, <3>1 DEF Keeps, vars, Checks
    <3> QED
      BY <1>c, <1>d, <1>e, <2>0, <2>6, <3>2 DEF UpdateKillTrail, Committed
  <2>q. pc = 1 \/ pc \in 2..7 \/ pc = 8 \/ pc = 9 \/ pc = 10 \/ pc \in 11..12
    BY <2>0
  <2> QED
    BY <2>1, <2>2, <2>3, <2>4, <2>5, <2>6, <2>q
<1> QED
  BY <1>1, <1>2, Moved

-----------------------------------------------------------------------------
(* The failures.                                                           *)

(* Every step keeps the trail of the failures.                             *)
LEMMA FailuresTrailStep ==
  ASSUME Base, XNext, script = "failures", stage = "run", stage' = "run"
  PROVE  FailuresTrail => FailuresTrail'
<1>t. SUFFICES ASSUME FailuresTrail PROVE FailuresTrail'
  OBVIOUS
<1>0. /\ script \in Scripts /\ XTypeOK /\ eng \in Engines /\ pc \in Nat
      /\ Scenario[script] = Failures
  BY DEF Base, XTypeOK, Scenario, Scripts
<1>c. /\ pc \in {22, 23, 32} => at = "idle"
      /\ pc = 23 => state = "READY" /\ (eng.up \/ diedIn = "READY")
  BY <1>t DEF FailuresTrail
<1>d. /\ pc \in 24..30 => diedIn = "READY" /\ ~eng.up
      /\ pc \in 31..32 => diedIn = "READY" \/ ~eng.up
  BY <1>t DEF FailuresTrail
<1>e. pc > 32 => at = "idle" /\ state = "READY" /\ Committed(0) /\ diedIn = "READY"
  BY <1>t DEF FailuresTrail
<1>1. CASE Lingering
  <2>0. UNCHANGED pc
    BY <1>1 DEF Lingering
  <2>1. CASE Launched
    <3>1. pc \in 1..34 /\ Failures[pc] = "serve"
      BY <1>0, <2>1, At, FailuresSteps DEF Launched, Now, XTypeOK
    <3>2. pc < 22 \/ pc = 30
      <4>1. \/ pc < 22 \/ pc = 22 \/ pc = 23 \/ pc = 24 \/ pc = 25 \/ pc = 26 \/ pc = 27
            \/ pc = 28 \/ pc = 29 \/ pc = 30 \/ pc = 31 \/ pc = 32 \/ pc = 33 \/ pc = 34
        BY <3>1
      <4> QED
        BY <3>1, <4>1, FailuresSteps
    <3>3. CASE pc < 22
      BY <1>0, <2>0, <3>3 DEF FailuresTrail
    <3>4. CASE pc = 30
      BY <1>d, <2>0, <2>1, <3>4 DEF FailuresTrail, Launched, FreshEngine
    <3> QED
      BY <3>2, <3>3, <3>4
  <2>2. CASE Started
    <3>1. pc \in 1..34 /\ Failures[pc] \in {"cycle", "try"}
      BY <1>0, <2>2, At, FailuresSteps DEF Started, AtStep, Now, XTypeOK
    <3>2. pc \notin {22, 23} /\ pc < 32
      <4>1. CASE pc = 22 \/ pc = 23
        BY <3>1, <4>1, FailuresSteps
      <4>2. CASE pc = 32 \/ pc = 33 \/ pc = 34
        BY <3>1, <4>2, FailuresSteps
      <4> QED
        BY <3>1, <4>1, <4>2
    <3>3. UNCHANGED <<eng, diedIn>>
      BY <2>2 DEF Started
    <3>4. pc \in Nat /\ pc' \notin {22, 23, 32} /\ ~(pc' > 32) /\ pc' # 23
      BY <1>0, <2>0, <3>2
    <3> QED
      BY <1>d, <2>0, <3>3, <3>4 DEF FailuresTrail
  <2>3. CASE Cycling
    <3>1. eng'.up = eng.up /\ diedIn' = diedIn /\ at # "idle"
      BY <1>0, <2>3, CycleEngine, Cycles DEF noteVars, Calls
    <3>2. pc \notin {22, 23} /\ pc < 32
      BY <1>0, <1>c, <1>e, <3>1
    <3>3. pc \in Nat /\ pc' \notin {22, 23, 32} /\ ~(pc' > 32) /\ pc' # 23
      BY <1>0, <2>0, <3>2
    <3> QED
      BY <1>d, <2>0, <3>1, <3>3 DEF FailuresTrail
  <2>4. CASE Passed
    <3>1. /\ UNCHANGED <<at, state, current>>
          /\ \/ UNCHANGED <<eng, diedIn>>
             \/ ~eng'.up /\ diedIn' = IF eng.up THEN state ELSE diedIn
      BY <1>0, <2>4 DEF Passed, Engines
    <3>2. CASE UNCHANGED <<eng, diedIn>>
      BY <1>c, <1>d, <1>e, <2>0, <3>1, <3>2 DEF FailuresTrail, Committed
    <3>3. CASE ~eng'.up /\ diedIn' = IF eng.up THEN state ELSE diedIn
      <4>1. pc = 23 => diedIn' = "READY"
        BY <1>c, <3>3
      <4>2. pc \in 24..30 => diedIn' = "READY"
        BY <1>d, <3>3
      <4>3. pc > 32 => diedIn' = "READY"
        BY <1>e, <3>3
      <4> QED
        BY <1>c, <1>e, <2>0, <3>1, <3>3, <4>1, <4>2, <4>3 DEF FailuresTrail, Committed
    <3> QED
      BY <3>1, <3>2, <3>3
  <2> QED
    BY <1>1, <2>1, <2>2, <2>3, <2>4 DEF Lingering
<1>2. CASE Moving
  <2>0. /\ Keeps(Here) /\ Does(Here) /\ pc' = pc + 1 /\ Here = Failures[pc]
        /\ pc \in 1..34
    BY <1>0, <1>2, FailuresSteps DEF Moving, Here
  <2>1. CASE pc < 21
    BY <2>0, <2>1 DEF FailuresTrail
  <2>2. CASE pc = 21
    <3>1. Here = "new controller"
      BY <2>0, <2>2, FailuresSteps
    <3>2. at' = "idle"
      BY <2>0, <3>1 DEF Does
    <3> QED
      BY <2>0, <2>2, <3>2 DEF FailuresTrail
  <2>3. CASE pc = 22
    <3>1. Here = "bootstrap"
      BY <2>0, <2>3, FailuresSteps
    <3>2. UNCHANGED at /\ eng'.up /\ state' = "READY"
      BY <1>0, <2>0, <3>1 DEF Keeps, Does, Engines
    <3> QED
      BY <1>c, <2>0, <2>3, <3>2 DEF FailuresTrail
  <2>4. CASE pc = 23
    <3>1. Here = "kill"
      BY <2>0, <2>4, FailuresSteps
    <3>2. eng' = [eng EXCEPT !.up = FALSE] /\ diedIn' = IF eng.up THEN state ELSE diedIn
      BY <2>0, <3>1 DEF Does
    <3>3. ~eng'.up /\ diedIn' = "READY"
      BY <1>0, <1>c, <2>4, <3>2 DEF Engines
    <3> QED
      BY <2>0, <2>4, <3>3 DEF FailuresTrail
  <2>5. CASE pc \in 24..29
    <3>1. Here \in {"try", "check dead", "new controller", "try bootstrap", "check refused"}
      <4>1. pc = 24 \/ pc = 25 \/ pc = 26 \/ pc = 27 \/ pc = 28 \/ pc = 29
        BY <2>5
      <4> QED
        BY <2>0, <4>1, FailuresSteps
    <3>2. eng'.up = eng.up /\ UNCHANGED diedIn
      BY <2>0, <3>1 DEF Keeps, Does
    <3> QED
      BY <1>d, <2>0, <2>5, <3>2 DEF FailuresTrail
  <2>6. CASE pc = 30
    <3>1. Here = "serve"
      BY <2>0, <2>6, FailuresSteps
    <3>2. UNCHANGED diedIn
      BY <2>0, <3>1 DEF Keeps
    <3> QED
      BY <1>d, <2>0, <2>6, <3>2 DEF FailuresTrail
  <2>7. CASE pc = 31
    <3>1. Here = "new controller"
      BY <2>0, <2>7, FailuresSteps
    <3>2. at' = "idle" /\ UNCHANGED <<eng, diedIn>>
      BY <2>0, <3>1 DEF Keeps, Does
    <3> QED
      BY <1>d, <2>0, <2>7, <3>2 DEF FailuresTrail
  <2>8. CASE pc = 32
    <3>1. Here = "bootstrap"
      BY <2>0, <2>8, FailuresSteps
    <3>2. UNCHANGED <<at, diedIn>> /\ eng.up /\ state' = "READY" /\ Committed(0)'
      BY <2>0, <3>1 DEF Keeps, Does
    <3> QED
      BY <1>c, <1>d, <2>0, <2>8, <3>2 DEF FailuresTrail
  <2>9. CASE pc > 32
    <3>1. Here \in {"check fresh", "verdict"}
      <4>1. pc = 33 \/ pc = 34
        BY <2>0, <2>9
      <4> QED
        BY <2>0, <4>1, FailuresSteps
    <3>2. UNCHANGED <<at, state, current, diedIn>>
      BY <2>0, <3>1 DEF Keeps, vars, Checks
    <3> QED
      BY <1>e, <2>0, <2>9, <3>2 DEF FailuresTrail, Committed
  <2>q. \/ pc < 21 \/ pc = 21 \/ pc = 22 \/ pc = 23 \/ pc \in 24..29 \/ pc = 30 \/ pc = 31
        \/ pc = 32 \/ pc > 32
    BY <2>0
  <2> QED
    BY <2>1, <2>2, <2>3, <2>4, <2>5, <2>6, <2>7, <2>8, <2>9, <2>q
<1> QED
  BY <1>1, <1>2, Moved

-----------------------------------------------------------------------------
(* The benchmark.                                                          *)

(* What a call of the cycle makes of the controller.                       *)
Unmoved  == UNCHANGED <<state, current, taintedIn>>
Drains   == state = "READY" /\ state' = "DRAINING" /\ UNCHANGED current
Quiesces == eng.up /\ state = "DRAINING" /\ state' \in Mutated /\ UNCHANGED current
Mutates  ==
    /\ state \in MutationStates /\ UNCHANGED current
    /\ state' \in MutationStates \/ (state' = "TAINTED" /\ taintedIn' = state)
Publishes ==
    /\ eng.up /\ state = "RESUMING" /\ state' = "READY"
    /\ pending # None /\ current' = pending

(* The states a call of the cycle moves between.                           *)
LEMMA CycleStates ==
  ASSUME CallHolds, Cycling
  PROVE  Unmoved \/ Drains \/ Quiesces \/ Mutates \/ Publishes
<1>0. CycleCall
  BY DEF Cycling
<1> USE DEF MutationStates, PendingStates
<1>1. ASSUME EffectFails, state \in MutationStates PROVE Unmoved \/ Mutates
  BY <1>1 DEF EffectFails, TaintWith, Mutates, Unmoved, vars
<1>2. ASSUME NEW op, NEW e, EffectRaises(op, e), state \in MutationStates
      PROVE  Unmoved \/ Mutates
  BY <1>1, <1>2 DEF EffectRaises
<1>3. CASE BeginCycle
  BY <1>3 DEF BeginCycle, BeginDrain, Advance, Drains, Unmoved, vars
<1>4. CASE AwaitDrain
  BY <1>4 DEF AwaitDrain, ConfirmDrained, Advance, TaintWith, Quiesces, Mutated
<1>5. CASE DrainGivesUp \/ PauseReissued
  BY <1>5 DEF DrainGivesUp, PauseReissued, Unmoved, vars
<1>6. CASE OpenUpdate
  BY <1>6 DEF OpenUpdate, BeginUpdate, Advance, Mutates
<1>7. CASE StartWeightUpdate
  <2>1. state \in MutationStates
    BY <1>7 DEF StartWeightUpdate, CallHolds, Opened
  <2> QED
    BY <1>1, <1>7, <2>1 DEF StartWeightUpdate, Unmoved, vars
<1>8. CASE SendWeights
  <2>1. state \in MutationStates
    BY <1>8 DEF SendWeights, CallHolds, Opened
  <2> QED
    BY <1>2, <1>8, <2>1 DEF SendWeights, Unmoved, vars
<1>9. CASE FinishWeightUpdate
  <2>1. state \in MutationStates
    BY <1>9 DEF FinishWeightUpdate, CallHolds, Opened
  <2>2. ASSUME NEW e, ConfirmUpdated(e) PROVE Mutates
    BY <2>2 DEF ConfirmUpdated, Confirm, Advance, TaintWith, Mutates
  <2> QED
    BY <1>2, <1>9, <2>1, <2>2 DEF FinishWeightUpdate
<1>10. CASE InvalidateCaches
  <2>1. state \in MutationStates
    BY <1>10 DEF InvalidateCaches, CallHolds, Opened
  <2>2. ASSUME NEW e, ConfirmInvalidated(e) PROVE Mutates
    BY <2>2 DEF ConfirmInvalidated, Confirm, Advance, TaintWith, Mutates
  <2> QED
    BY <1>2, <1>10, <2>1, <2>2 DEF InvalidateCaches
<1>11. CASE ValidatePreResume
  <2>1. ASSUME NEW e, ConfirmValidated(e) PROVE Mutates
    BY <2>1 DEF ConfirmValidated, Confirm, Advance, TaintWith, Mutates
  <2> QED
    BY <1>11, <2>1 DEF ValidatePreResume, Unmoved, vars
<1>12. CASE Resume
  <2>1. state \in MutationStates
    BY <1>12 DEF Resume, CallHolds, Opened
  <2>2. ASSUME NEW e, Confirmed(FALSE, e) PROVE Mutates
    BY <2>2 DEF Confirmed, ConfirmResumed, ResumeFails, TaintWith, Mutates
  <2> QED
    BY <1>2, <1>12, <2>1, <2>2 DEF Resume, Unmoved, vars
<1>13. CASE Commit
  <2>1. state \in MutationStates
    BY <1>13 DEF Commit, CallHolds, Opened
  <2>2. ASSUME Answers("get_weight_info"), Confirmed(TRUE, eng) PROVE Mutates \/ Publishes
    BY <2>2 DEF Answers, Confirmed, ConfirmResumed, Advance, TaintWith, Mutates, Publishes
  <2> QED
    BY <1>1, <1>13, <2>1, <2>2 DEF Commit
<1> QED
  BY <1>0, <1>3, <1>4, <1>5, <1>6, <1>7, <1>8, <1>9, <1>10, <1>11, <1>12, <1>13
     DEF CycleCall

(* A cycle whose engine is dead: it ends or taints, and publishes nothing. *)
LEMMA DeadCycle ==
  ASSUME CallHolds, Cycling, ~eng.up
  PROVE  /\ UNCHANGED current
         /\ state \in {"READY", "DRAINING"} => state' \in {"READY", "DRAINING"}
         /\ state \in Mutated => state' \in Mutated
<1>1. Unmoved \/ Drains \/ Mutates
  BY CycleStates DEF Quiesces, Publishes
<1> QED
  BY <1>1 DEF Unmoved, Drains, Mutates, Mutated, MutationStates, PendingStates

(* What a cycle publishes is newer than what it finds, so past the drain   *)
(* of generation 0 it publishes another or stays past it.                  *)
LEMMA StaysMutating ==
  ASSUME Base, CallHolds, Cycling, Mutating
  PROVE  Mutating'
<1>1. CASE Unmoved
  BY <1>1 DEF Unmoved, Mutating, Committed, Struck
<1>2. CASE Drains \/ Quiesces \/ Mutates
  BY <1>2 DEF Drains, Quiesces, Mutates, Mutating, Committed, Struck, MutationStates,
              PendingStates
<1>3. CASE Publishes
  <2>1. /\ pending \in Targets /\ current \in Targets /\ current' = pending
        /\ current.version < pending.version
    BY <1>3 DEF Base, IInv, TypeOK, PendingIsNewer, FreshUntilBootstrap, Publishes
  <2>2. current.version \in Nat /\ pending.version \in Nat
    BY <2>1, VersionsAssumption DEF Targets
  <2>3. current'.version # 0
    BY <2>1, <2>2
  <2> QED
    BY <2>3 DEF Mutating, Committed
<1> QED
  BY <1>1, <1>2, <1>3, CycleStates

(* Once the engine of the kill is dead ...                                 *)
LEMMA BenchmarkDead ==
  ASSUME CallHolds, eng \in Engines, ~eng.up, Cycling \/ Passed
  PROVE  ~eng'.up /\ UNCHANGED <<current, diedIn>>
<1>1. CASE Cycling
  <2>1. ~eng'.up
    BY <1>1, CycleEngine
  <2>2. UNCHANGED diedIn
    BY <1>1, Cycles DEF noteVars
  <2>3. UNCHANGED current
    BY <1>1, DeadCycle
  <2> QED
    BY <2>1, <2>2, <2>3
<1>2. CASE Passed
  BY <1>2 DEF Passed, Engines
<1> QED
  BY <1>1, <1>2

(* ... and while it lives the cycle it is to be killed in may go anywhere. *)
LEMMA BenchmarkLives ==
  ASSUME Base, CallHolds, eng.up, state # "UNINITIALIZED", Cycling \/ Passed
  PROVE  /\ eng'.up => state' # "UNINITIALIZED"
         /\ eng'.up \/ diedIn' \in Mutated \/ state' \in {"READY", "DRAINING"}
<1>1. CASE Cycling
  <2>1. eng'.up
    BY <1>1, CycleEngine DEF Base, XTypeOK
  <2>2. state' # "UNINITIALIZED"
    BY <1>1, CycleStates DEF Unmoved, Drains, Quiesces, Mutates, Publishes, Mutated,
       MutationStates, PendingStates
  <2> QED
    BY <2>1, <2>2
<1>2. CASE Passed
  <2>1. /\ UNCHANGED state
        /\ UNCHANGED eng \/ (~eng'.up /\ diedIn' = state)
    BY <1>2 DEF Passed, Base, XTypeOK, Engines
  <2>2. state \in {"READY", "DRAINING"} \cup Mutated
    BY DEF Base, XTypeOK, LifecycleState, Mutated, MutationStates, PendingStates
  <2> QED
    BY <2>1, <2>2
<1> QED
  BY <1>1, <1>2

(* Nothing but the cycle and a crash is beside the steps from the last     *)
(* new controller on.                                                      *)
LEMMA BenchmarkBeside ==
  ASSUME Base, script = "benchmark", Lingering, pc > 11
  PROVE  Cycling \/ Passed
<1>0. pc \in Nat /\ XTypeOK /\ Scenario[script] = Benchmark
  BY DEF Base, XTypeOK, Scenario, Scripts
<1>1. pc \in 1..21 => Benchmark[pc] \notin {"serve", "cycle", "try"}
  <2>1. CASE pc = 12 \/ pc = 13 \/ pc = 14 \/ pc = 15 \/ pc = 16
    BY <2>1, BenchmarkSteps
  <2>2. CASE pc = 17 \/ pc = 18 \/ pc = 19 \/ pc = 20 \/ pc = 21
    BY <2>2, BenchmarkSteps
  <2> QED
    BY <1>0, <2>1, <2>2
<1>2. ~Launched /\ ~Started
  BY <1>0, <1>1, At, BenchmarkSteps DEF Launched, Started, AtStep, Now, XTypeOK, Base
<1> QED
  BY <1>2 DEF Lingering

(* Beside the main thread the engine dies or its cycle goes on.            *)
LEMMA BenchmarkLingers ==
  ASSUME Base, CallHolds, script = "benchmark", stage = "run", BenchmarkTrail, Lingering
  PROVE  BenchmarkTrail'
<1>0. /\ eng \in Engines /\ pc \in Nat /\ UNCHANGED <<pc, good, seen>>
  BY DEF Base, XTypeOK, Lingering
<1>1. CASE pc < 12
  BY <1>0, <1>1 DEF BenchmarkTrail
<1>2. CASE pc > 11
  <2>2. Cycling \/ Passed
    BY <1>2, BenchmarkBeside
  <2>3. CASE pc = 12 \/ pc = 13 \/ pc = 14
    <3>1. at = "idle" /\ (pc = 14 => state = "READY")
      BY <2>3 DEF BenchmarkTrail
    <3>2. Passed
      BY <2>2, <3>1, Cycles DEF Calls
    <3>3. UNCHANGED <<at, state>>
      BY <3>2 DEF Passed
    <3> QED
      BY <1>0, <2>3, <3>1, <3>3 DEF BenchmarkTrail
  <2>6. seen = "UPDATING" /\ Mutating => Mutating'
    <3>1. CASE Cycling
      BY <3>1, StaysMutating
    <3>2. CASE Passed
      BY <3>2 DEF Passed, Mutating, Committed, Struck
    <3> QED
      BY <2>2, <3>1, <3>2
  <2>4. CASE pc = 15 \/ pc = 16 \/ pc = 17
    <3>1. /\ eng.up => state # "UNINITIALIZED"
          /\ eng.up \/ diedIn \in Mutated \/ state \in {"READY", "DRAINING"}
          /\ pc = 17 /\ seen = "UPDATING" => Mutating
      BY <2>4 DEF BenchmarkTrail
    <3>2. /\ eng'.up => state' # "UNINITIALIZED"
          /\ eng'.up \/ diedIn' \in Mutated \/ state' \in {"READY", "DRAINING"}
      <4>1. CASE eng.up
        BY <2>2, <3>1, <4>1, BenchmarkLives
      <4>2. CASE ~eng.up
        <5>1. ~eng'.up /\ UNCHANGED diedIn
          BY <1>0, <2>2, <4>2, BenchmarkDead
        <5>2. state \in {"READY", "DRAINING"} => state' \in {"READY", "DRAINING"}
          BY <2>2, <4>2, DeadCycle DEF Passed
        <5> QED
          BY <3>1, <4>2, <5>1, <5>2
      <4> QED
        BY <4>1, <4>2
    <3> QED
      BY <1>0, <2>4, <2>6, <3>1, <3>2 DEF BenchmarkTrail
  <2>5. CASE pc > 17
    <3>1. /\ ~eng.up
          /\ seen = "UPDATING" => Mutating
          /\ seen = "UPDATING" /\ Committed(0) => diedIn \in Mutated
          /\ pc > 19 /\ good => seen = "UPDATING" /\ Committed(0)
      BY <1>0, <2>5 DEF BenchmarkTrail
    <3>2. ~eng'.up /\ UNCHANGED <<current, diedIn>>
      BY <1>0, <2>2, <3>1, BenchmarkDead
    <3>3. Committed(0)' <=> Committed(0)
      BY <3>2 DEF Committed
    <3> QED
      BY <1>0, <2>5, <2>6, <3>1, <3>2, <3>3 DEF BenchmarkTrail
  <2> QED
    BY <1>0, <1>2, <2>3, <2>4, <2>5
<1> QED
  BY <1>0, <1>1, <1>2

(* A step of the main thread brings the next.                              *)
LEMMA BenchmarkMoves ==
  ASSUME Base, script = "benchmark", stage = "run", BenchmarkTrail, Moving
  PROVE  BenchmarkTrail'
<1>0. /\ script \in Scripts /\ XTypeOK /\ eng \in Engines /\ pc \in Nat
      /\ Scenario[script] = Benchmark /\ Hosted
  BY DEF Base, XTypeOK, Scenario, Scripts
<1>1. /\ Keeps(Here) /\ Does(Here) /\ pc' = pc + 1 /\ Here = Benchmark[pc]
      /\ pc \in 1..21
  BY <1>0, BenchmarkSteps DEF Moving, Here
<1>2. CASE pc < 11
  BY <1>1, <1>2 DEF BenchmarkTrail
<1>3. CASE pc = 11
  <2>1. Here = "serve"
    BY <1>1, <1>3, BenchmarkSteps
  <2>2. proc = "booting" /\ UNCHANGED at
    BY <1>1, <2>1 DEF Keeps, Does
  <2>3. at = "idle"
    BY <1>0, <2>2 DEF Hosted
  <2> QED
    BY <1>1, <1>3, <2>2, <2>3 DEF BenchmarkTrail
<1>4. CASE pc = 12
  <2>1. Here = "new controller"
    BY <1>1, <1>4, BenchmarkSteps
  <2>2. at' = "idle"
    BY <1>1, <2>1 DEF Does
  <2> QED
    BY <1>1, <1>4, <2>2 DEF BenchmarkTrail
<1>5. CASE pc = 13
  <2>1. Here = "bootstrap"
    BY <1>1, <1>5, BenchmarkSteps
  <2>2. UNCHANGED at /\ state' = "READY"
    BY <1>1, <2>1 DEF Keeps, Does
  <2>3. at = "idle"
    BY <1>5 DEF BenchmarkTrail
  <2> QED
    BY <1>1, <1>5, <2>2, <2>3 DEF BenchmarkTrail
<1>6. CASE pc = 14
  <2>1. Here = "spawn"
    BY <1>1, <1>6, BenchmarkSteps
  <2>2. UNCHANGED state
    BY <1>1, <2>1 DEF Keeps, vars
  <2>3. state = "READY"
    BY <1>6 DEF BenchmarkTrail
  <2> QED
    BY <1>1, <1>6, <2>2, <2>3 DEF BenchmarkTrail
<1>7. CASE pc = 15 \/ pc = 16
  <2>1. Here = IF pc = 15 THEN "arm" ELSE "aim"
    BY <1>1, <1>7, BenchmarkSteps
  <2>2. UNCHANGED <<state, current, eng, diedIn>>
    BY <1>1, <2>1 DEF Keeps, vars
  <2>3. seen' = state
    BY <1>1, <2>1 DEF Does
  <2>4. /\ eng.up => state # "UNINITIALIZED"
        /\ eng.up \/ diedIn \in Mutated \/ state \in {"READY", "DRAINING"}
    BY <1>7 DEF BenchmarkTrail
  <2>6. seen' = "UPDATING" => Mutating'
    BY <2>2, <2>3 DEF Mutating, Struck, MutationStates, PendingStates
  <2> QED
    BY <1>1, <1>7, <2>2, <2>4, <2>6 DEF BenchmarkTrail
<1>8. CASE pc = 17
  <2>1. Here = "kill"
    BY <1>1, <1>8, BenchmarkSteps
  <2>2. /\ eng' = [eng EXCEPT !.up = FALSE]
        /\ diedIn' = IF eng.up THEN state ELSE diedIn
        /\ UNCHANGED <<state, current, taintedIn, seen>>
    BY <1>1, <2>1 DEF Keeps, Does, vars
  <2>3. /\ eng.up \/ diedIn \in Mutated \/ state \in {"READY", "DRAINING"}
        /\ seen = "UPDATING" => Mutating
    BY <1>8 DEF BenchmarkTrail
  <2>4. ~eng'.up
    BY <1>0, <2>2 DEF Engines
  <2>5. ASSUME seen = "UPDATING", Committed(0) PROVE diedIn' \in Mutated
    <3>1. state \in Mutated
      BY <2>3, <2>5 DEF Mutating, Struck, Mutated
    <3>2. state \notin {"READY", "DRAINING"}
      BY <3>1 DEF Mutated, MutationStates, PendingStates
    <3> QED
      BY <2>2, <2>3, <3>1, <3>2
  <2>6. seen = "UPDATING" => Mutating'
    BY <2>2, <2>3 DEF Mutating, Committed, Struck
  <2> QED
    BY <1>1, <1>8, <2>2, <2>4, <2>5, <2>6 DEF BenchmarkTrail, Committed
<1>9. CASE pc > 17
  <2>1. /\ pc = 19 => Here = "check kill landed"
        /\ Here \in {"join", "check kill landed", "verdict", "hang"}
    <3>1. pc = 18 \/ pc = 19 \/ pc = 20 \/ pc = 21
      BY <1>1, <1>9
    <3> QED
      BY <1>1, <3>1, BenchmarkSteps
  <2>2. UNCHANGED <<state, current, taintedIn, eng, seen, diedIn>>
    BY <1>1, <2>1 DEF Keeps, vars
  <2>3. (good' => good) /\ (pc = 19 => (good' => seen = "UPDATING" /\ Committed(0)))
    <3>1. CASE pc = 19
      BY <1>1, <2>1, <3>1 DEF Does, Checks, Holds, DemoHolds, FailuresHold
    <3>2. CASE pc # 19
      <4>1. CASE Here \in {"join", "verdict", "hang"}
        <5>1. UNCHANGED good
          BY <1>1, <4>1 DEF Keeps, Checks
        <5> QED
          BY <3>2, <5>1
      <4>2. CASE Here = "check kill landed"
        BY <1>1, <3>2, <4>2 DEF Does, Checks
      <4> QED
        BY <2>1, <4>1, <4>2
    <3> QED
      BY <3>1, <3>2
  <2>4. /\ ~eng.up
        /\ seen = "UPDATING" => Mutating
        /\ seen = "UPDATING" /\ Committed(0) => diedIn \in Mutated
    BY <1>0, <1>9 DEF BenchmarkTrail
  <2>5. pc > 19 /\ good => seen = "UPDATING" /\ Committed(0)
    BY DEF BenchmarkTrail
  <2>6. pc' > 19 /\ good' => seen' = "UPDATING" /\ Committed(0)'
    BY <1>1, <2>2, <2>3, <2>5 DEF Committed
  <2>7. seen' = "UPDATING" => Mutating'
    BY <2>2, <2>4 DEF Mutating, Committed, Struck
  <2> QED
    BY <1>1, <1>9, <2>2, <2>4, <2>6, <2>7 DEF BenchmarkTrail, Committed
<1> QED
  BY <1>1, <1>2, <1>3, <1>4, <1>5, <1>6, <1>7, <1>8, <1>9

(* Every step keeps the trail of the benchmark.                            *)
LEMMA BenchmarkTrailStep ==
  ASSUME Base, CallHolds, XNext, script = "benchmark", stage = "run", stage' = "run"
  PROVE  BenchmarkTrail => BenchmarkTrail'
  BY Moved, BenchmarkLingers, BenchmarkMoves

-----------------------------------------------------------------------------
(* The demo and the fault tests.                                           *)

(* Nothing dies in process, and what passes by leaves the stack alone.     *)
Still ==
    /\ UNCHANGED <<state, current, active, orphaned, eng, faults, at, aim>>
    /\ request = "none" => request' = "none"

(* In process, only the cycle does not leave everything as it is.          *)
LEMMA InProcessLingers ==
  ASSUME Base, script \in InProcess, stage = "run", Lingering
  PROVE  Cycling \/ Started \/ Still
<1>0. script \in Scripts /\ XTypeOK /\ proc = "none"
  BY DEF Base, Hosted
<1>1. ~Launched
  BY <1>0, StepBelongs DEF Launched, Belongs
<1>2. CASE Passed
  <2>1. ~ReleasesItself /\ proc # "up"
    BY <1>0 DEF ReleasesItself, InProcess
  <2> QED
    BY <1>2, <2>1 DEF Lingering, Passed, Still
<1> QED
  BY <1>1, <1>2 DEF Lingering

(* Between two steps, with no cycle on its way, all is still.              *)
LEMMA InProcessWaits ==
  ASSUME Base, script \in InProcess, stage = "run", Lingering,
         at = "idle", Here \notin {"cycle", "try"}
  PROVE  Still
<1>1. ~Cycling
  BY Cycles DEF Calls
<1>2. ~Started
  BY NowHere DEF Started, AtStep, Now, Here
<1> QED
  BY <1>1, <1>2, InProcessLingers

(* The calls of an attempt: it goes on, or raises where it has to.         *)
Sessionless(c) == c \in {"called", "pause", "begin", "start"}

LEMMA AttemptCalls ==
  ASSUME Base, script \in InProcess, CallHolds, Cycling, eng.up, request = "none",
         at \in ToTheFinish \cup {"invalidate"}, Sessionless(at) => ~eng.session,
         at = "pause" => eng.paused,
         faults \in {{}, {"finish_weight_update"}, {"blocks held"}}
  PROVE  /\ eng'.up /\ UNCHANGED current
         /\ Sessionless(at') => ~eng'.session
         /\ at' \in {"pause", "raised"} => eng'.paused
         /\ at = "called" => at' = "pause" /\ UNCHANGED active
         /\ at = "pause" /\ active = NoRollouts => at' = "begin"
         /\ at = "pause" /\ active # NoRollouts => at' = "raised" /\ orphaned' # NoRollouts
         /\ at = "begin" => at' = "start"
         /\ at = "start" => at' = "transfer"
         /\ at = "transfer" => at' = "finish"
         /\ at = "finish" /\ "finish_weight_update" \in faults => at' = "raised"
         /\ at = "finish" /\ "finish_weight_update" \notin faults =>
               at' = "invalidate" /\ eng'.label = aim.version
         /\ at = "invalidate" /\ "blocks held" \in faults => at' = "raised"
         /\ ~(at = "finish" /\ "finish_weight_update" \notin faults)
               => eng'.label = eng.label
<1>0. eng \in Engines /\ CycleCall
  BY DEF Base, XTypeOK, Cycling
<1>r. ~Remote
  BY DEF Base, Local
<1>1. /\ \A op \in {"pause", "start_weight_update", "update_weights", "reset_prefix_cache"} :
            Answers(op) /\ ~Raises(op)
      /\ Answers("finish_weight_update") <=> "finish_weight_update" \notin faults
      /\ Raises("finish_weight_update") <=> "finish_weight_update" \in faults
  BY <1>r DEF Answers, Raises
<1> USE DEF Sessionless
<1>2. CASE at = "called"
  <2>1. BeginCycle /\ state = "READY"
    BY <1>0, <1>2, <1>r DEF CycleCall, PauseReissued, CallHolds, AwaitDrain, DrainGivesUp, OpenUpdate,
       StartWeightUpdate, SendWeights, FinishWeightUpdate, InvalidateCaches,
       ValidatePreResume, Resume, Commit
  <2>2. at' = "pause" /\ UNCHANGED <<current, active>> /\ eng' = [eng EXCEPT !.paused = TRUE]
    BY <1>0, <1>1, <2>1 DEF BeginCycle, BeginDrain, Engines
  <2> QED
    BY <1>0, <1>2, <2>2 DEF Engines
<1>3. CASE at = "pause"
  <2>1. AwaitDrain \/ DrainGivesUp
    BY <1>0, <1>3, <1>r DEF CycleCall, PauseReissued, BeginCycle, OpenUpdate,
       StartWeightUpdate, SendWeights, FinishWeightUpdate, InvalidateCaches,
       ValidatePreResume, Resume, Commit
  <2>2. ~DrainGivesUp
    BY <1>3, <1>r DEF DrainGivesUp
  <2>3. UNCHANGED <<eng, current>>
    BY <2>1, <2>2 DEF AwaitDrain, ConfirmDrained, TaintWith
  <2>4. CASE active = NoRollouts
    BY <1>3, <2>1, <2>2, <2>3, <2>4 DEF AwaitDrain, ConfirmDrained, DrainFails, Advance
  <2>5. CASE active # NoRollouts
    <3>1. at' = "raised" /\ TaintWith
      BY <2>1, <2>2, <2>5 DEF AwaitDrain, ConfirmDrained, TaintWith
    <3>2. active \in [Rollouts -> Targets \cup {None}]
      BY DEF Base, IInv, TypeOK
    <3>3. PICK r \in Rollouts : active[r] # None
      BY <2>5, <3>2 DEF NoRollouts
    <3>4. orphaned'[r] # None
      BY <3>1, <3>3 DEF TaintWith
    <3>5. orphaned' # NoRollouts
      BY <3>3, <3>4 DEF NoRollouts
    <3> QED
      BY <1>3, <2>3, <2>5, <3>1, <3>5
  <2> QED
    BY <2>4, <2>5
<1>4. CASE at = "begin"
  <2>1. OpenUpdate
    BY <1>0, <1>4 DEF CycleCall, PauseReissued, BeginCycle, AwaitDrain, DrainGivesUp,
       StartWeightUpdate, SendWeights, FinishWeightUpdate, InvalidateCaches,
       ValidatePreResume, Resume, Commit
  <2> QED
    BY <1>4, <2>1 DEF OpenUpdate, BeginUpdate
<1>5. CASE at = "start"
  <2>1. StartWeightUpdate
    BY <1>0, <1>5 DEF CycleCall, PauseReissued, BeginCycle, AwaitDrain, DrainGivesUp, OpenUpdate,
       SendWeights, FinishWeightUpdate, InvalidateCaches,
       ValidatePreResume, Resume, Commit
  <2>2. at' = "transfer" /\ UNCHANGED current /\ eng' = [eng EXCEPT !.session = TRUE]
    BY <1>1, <1>5, <2>1 DEF StartWeightUpdate, vars
  <2> QED
    BY <1>0, <1>5, <2>2 DEF Engines
<1>6. CASE at = "transfer"
  <2>1. SendWeights
    BY <1>0, <1>6 DEF CycleCall, PauseReissued, BeginCycle, AwaitDrain, DrainGivesUp, OpenUpdate,
       StartWeightUpdate, FinishWeightUpdate, InvalidateCaches,
       ValidatePreResume, Resume, Commit
  <2>2. at' = "finish" /\ UNCHANGED current /\ eng' = [eng EXCEPT !.weights = "sent"]
    BY <1>1, <1>6, <2>1 DEF SendWeights, EffectRaises, vars
  <2> QED
    BY <1>0, <1>6, <2>2 DEF Engines
<1>7. CASE at = "finish"
  <2>1. FinishWeightUpdate
    BY <1>0, <1>7 DEF CycleCall, PauseReissued, BeginCycle, AwaitDrain, DrainGivesUp, OpenUpdate,
       StartWeightUpdate, SendWeights, InvalidateCaches,
       ValidatePreResume, Resume, Commit
  <2>2. CASE "finish_weight_update" \in faults
    <3>1. EffectFails /\ eng' = eng
      BY <1>r, <1>1, <2>1, <2>2 DEF FinishWeightUpdate, EffectRaises, Lost
    <3> QED
      BY <1>7, <2>2, <3>1 DEF EffectFails, TaintWith, vars, CallHolds, Sealed
  <2>3. CASE "finish_weight_update" \notin faults
    <3>1. /\ at' = "invalidate"
          /\ eng' = [eng EXCEPT !.label = aim.version, !.session = FALSE]
          /\ UNCHANGED current
      BY <1>1, <2>1, <2>3 DEF FinishWeightUpdate, EffectRaises, ConfirmUpdated, Confirm,
         TaintWith
    <3> QED
      BY <1>0, <1>7, <2>3, <3>1 DEF Engines
  <2> QED
    BY <2>2, <2>3
<1>8. CASE at = "invalidate"
  <2>1. InvalidateCaches
    BY <1>0, <1>8 DEF CycleCall, PauseReissued, BeginCycle, AwaitDrain, DrainGivesUp, OpenUpdate,
       StartWeightUpdate, SendWeights, FinishWeightUpdate,
       ValidatePreResume, Resume, Commit
  <2>2. PICK prefix \in BOOLEAN :
          /\ prefix = ("blocks held" \notin faults)
          /\ eng' = [eng EXCEPT !.kv = IF prefix THEN None ELSE @]
          /\ ConfirmInvalidated([prefix_cache_reset |-> prefix,
                                 encoder_cache_reset |-> TRUE, mm_cache_reset |-> TRUE])
          /\ at' = IF state' = "VALIDATING" THEN "validate" ELSE "raised"
    BY <1>r, <1>1, <2>1 DEF InvalidateCaches, EffectRaises
  <2>3. /\ at' \in {"validate", "raised"} /\ UNCHANGED current
        /\ "blocks held" \in faults => at' = "raised"
    BY <2>2 DEF ConfirmInvalidated, InvalidateFails, Confirm, Advance, TaintWith
  <2>4. /\ eng'.up = eng.up /\ eng'.label = eng.label /\ eng'.session = eng.session
        /\ eng'.paused = eng.paused /\ eng.paused
    BY <1>0, <1>8, <2>2 DEF Engines, CallHolds, Sealed
  <2> QED
    BY <1>8, <2>3, <2>4
<1> QED
  BY <1>2, <1>3, <1>4, <1>5, <1>6, <1>7, <1>8 DEF ToTheFinish

(* The steps of the demo.                                                  *)
LEMMA DemoSteps ==
  /\ Len(Demo) = 26
  /\ Demo[1] = "seed" /\ Demo[2] = "bootstrap" /\ Demo[3] = "cycle"
  /\ Demo[4] = "check two generations" /\ Demo[5] = "seed" /\ Demo[6] = "bootstrap"
  /\ Demo[7] = "admit" /\ Demo[8] = "try" /\ Demo[9] = "check disagreement"
  /\ Demo[10] = "seed" /\ Demo[11] = "bootstrap" /\ Demo[12] = "fault finish"
  /\ Demo[13] = "try" /\ Demo[14] = "check finalize" /\ Demo[15] = "seed"
  /\ Demo[16] = "bootstrap" /\ Demo[17] = "fault caches" /\ Demo[18] = "try"
  /\ Demo[19] = "check label" /\ Demo[20] = "seed" /\ Demo[21] = "owned"
  /\ Demo[22] = "refused" /\ Demo[23] = "release" /\ Demo[24] = "bootstrap"
  /\ Demo[25] = "check adopted" /\ Demo[26] = "assert"
<1>1. /\ Len(Demo) = 26
      /\ Demo[1] = "seed" /\ Demo[2] = "bootstrap" /\ Demo[3] = "cycle"
      /\ Demo[4] = "check two generations" /\ Demo[5] = "seed" /\ Demo[6] = "bootstrap"
  BY DEF Demo
<1>2. /\ Demo[7] = "admit" /\ Demo[8] = "try" /\ Demo[9] = "check disagreement"
      /\ Demo[10] = "seed" /\ Demo[11] = "bootstrap" /\ Demo[12] = "fault finish"
      /\ Demo[13] = "try" /\ Demo[14] = "check finalize"
  BY DEF Demo
<1>3. /\ Demo[15] = "seed"
      /\ Demo[16] = "bootstrap" /\ Demo[17] = "fault caches" /\ Demo[18] = "try"
      /\ Demo[19] = "check label" /\ Demo[20] = "seed"
  BY DEF Demo
<1>4. /\ Demo[21] = "owned"
      /\ Demo[22] = "refused" /\ Demo[23] = "release" /\ Demo[24] = "bootstrap"
      /\ Demo[25] = "check adopted" /\ Demo[26] = "assert"
  BY DEF Demo
<1> QED
  BY <1>1, <1>2, <1>3, <1>4

(* The target a fresh controller's first cycle is called for.              *)
LEMMA FirstTarget ==
  ASSUME Committed(0)
  PROVE  NextTarget(ModelB) = [version |-> 1, identity |-> ModelB]
  BY DEF Committed, NextTarget

(* An attempt under way, whatever it is allowed to reach.                  *)
LEMMA AttemptStarts ==
  ASSUME script = "demo", NEW calls, "called" \in calls, Attempt(calls), Started
  PROVE  Attempt(calls)' /\ at' = "called" /\ UNCHANGED <<state, current, active, eng>>
<1>1. /\ at = "idle" /\ at' = "called" /\ aim' = NextTarget(ModelB)
      /\ UNCHANGED <<vars, eng, request>>
  BY DEF Started
<1>2. Committed(0) /\ Committed(0)'
  BY <1>1 DEF Attempt, Committed, vars
<1> QED
  BY <1>1, <1>2, FirstTarget DEF Attempt, vars

LEMMA AttemptStill ==
  ASSUME NEW calls, Attempt(calls), Still
  PROVE  Attempt(calls)'
  BY DEF Attempt, Still, Committed

LEMMA AttemptGoes ==
  ASSUME Base, script \in InProcess, CallHolds,
         NEW calls \in SUBSET (ToTheFinish \cup {"invalidate"}),
         Attempt(calls), Cycling, at' \in calls \cup {"raised"},
         faults \in {{}, {"finish_weight_update"}, {"blocks held"}}
  PROVE  Attempt(calls)'
<1>1. at \in calls /\ UNCHANGED <<aim, request>>
  BY Cycles DEF Attempt, Calls
<1>2. /\ at \in ToTheFinish \cup {"invalidate"} /\ request = "none"
      /\ Sessionless(at) => ~eng.session
      /\ at = "pause" => eng.paused
      /\ eng.up /\ Committed(0)
  BY <1>1 DEF Attempt, Sessionless
<1>3. /\ eng'.up /\ UNCHANGED current /\ (Sessionless(at') => ~eng'.session)
      /\ at' \in {"pause", "raised"} => eng'.paused
  BY <1>2, AttemptCalls
<1>4. aim = [version |-> 1, identity |-> ModelB]
  BY <1>1 DEF Attempt, ToTheFinish
<1>5. at' # "idle"
  BY DEF ToTheFinish
<1> QED
  BY <1>1, <1>2, <1>3, <1>4, <1>5 DEF Attempt, Sessionless, Committed

(* A scenario starts with a seed and a bootstrap.                          *)
LEMMA SeededStays ==
  ASSUME Base, script \in InProcess, stage = "run", Lingering, Seeded,
         Here \notin {"cycle", "try"}
  PROVE  Seeded'
<1>1. Still
  BY InProcessWaits DEF Seeded
<1> QED
  BY <1>1 DEF Seeded, Still

LEMMA BootedStays ==
  ASSUME Base, script \in InProcess, stage = "run", Lingering, Booted,
         Here \notin {"cycle", "try"}
  PROVE  Booted'
<1>1. Still
  BY InProcessWaits DEF Booted
<1> QED
  BY <1>1 DEF Booted, Still, Committed

LEMMA Seeds ==
  ASSUME Moving, Here = "seed"
  PROVE  Seeded'
<1>1. /\ state' = "UNINITIALIZED" /\ active' = NoRollouts
      /\ at' = "idle" /\ request' = "none"
      /\ eng' = FreshEngine(TRUE, "loaded") /\ faults' = {}
  BY DEF Moving, Does
<1> QED
  BY <1>1 DEF Seeded, FreshEngine

LEMMA Boots ==
  ASSUME Base, Moving, Here = "bootstrap", Seeded
  PROVE  Booted'
<1>1. /\ eng.up /\ eng' = [eng EXCEPT !.label = 0]
      /\ state' = "READY" /\ Committed(0)'
      /\ UNCHANGED <<active, at, request, faults>>
  BY DEF Moving, Keeps, Does
<1> QED
  BY <1>1 DEF Base, XTypeOK, Engines, Seeded, Booted

(* A step of the demo, by where it leads.                                  *)
LEMMA DemoAt ==
  ASSUME Base, XNext, script = "demo", stage = "run", stage' = "run"
  PROVE  /\ script \in InProcess /\ script \in Scripts /\ XTypeOK /\ eng \in Engines
         /\ pc \in 1..27 /\ Here = Demo[pc]
         /\ pc < 27 => Now(Here)
         /\ \/ Lingering /\ UNCHANGED pc
            \/ Moving /\ pc' = pc + 1 /\ Keeps(Here) /\ Does(Here)
<1>1. Scenario[script] = Demo
  BY DEF Scenario
<1>l. Len(Scenario[script]) = 26
  BY <1>1, DemoSteps
<1>2. pc \in 1..27
  BY <1>l DEF Base, XTypeOK
<1>3. pc < 27 => pc <= Len(Scenario[script])
  BY <1>l, <1>2
<1> QED
  BY <1>1, <1>2, <1>3, Moved DEF Base, XTypeOK, InProcess, Here, Now, Lingering, Moving

(* Two generations of weights: nothing hinders the cycle.                  *)
LEMMA DemoGenerationsStep ==
  ASSUME Base, Closed, XNext, script = "demo", stage = "run", stage' = "run"
  PROVE  DemoGenerations => DemoGenerations'
<1>t. SUFFICES ASSUME DemoGenerations PROVE DemoGenerations'
  OBVIOUS
<1>0. /\ script \in InProcess /\ script \in Scripts /\ XTypeOK /\ eng \in Engines
      /\ pc \in 1..27 /\ Here = Demo[pc] /\ CallHolds /\ Undisturbed
  BY DemoAt DEF Closed
<1>1. CASE Lingering /\ UNCHANGED pc
  <2>1. CASE pc = 2
    <3>1. Here = "bootstrap" /\ Seeded
      BY <1>0, <1>t, <2>1, DemoSteps DEF DemoGenerations
    <3>2. Seeded'
      BY <1>0, <1>1, <3>1, SeededStays
    <3> QED
      BY <1>1, <2>1, <3>2 DEF DemoGenerations
  <2>2. CASE pc = 3
    <3>1. /\ eng.up /\ Unhindered /\ at # "raised"
          /\ at = "idle" => Committed(0)
          /\ at # "idle" => aim = [version |-> 1, identity |-> ModelB]
          /\ at = "returned" => current = aim
      BY <1>t, <2>2 DEF DemoGenerations
    <3>2. CASE Cycling
      <4>1. /\ Unhindered' /\ eng'.up /\ at' \notin {"idle", "raised"}
            /\ at' = "returned" => current' = aim
        BY <1>0, <3>1, <3>2, Goes
      <4>2. at # "idle" /\ UNCHANGED aim
        BY <3>2, Cycles DEF Calls
      <4> QED
        BY <1>1, <2>2, <3>1, <4>1, <4>2 DEF DemoGenerations
    <3>3. CASE Started
      <4>1. /\ at = "idle" /\ at' = "called" /\ aim' = NextTarget(ModelB)
            /\ UNCHANGED <<eng, active, request, faults>>
        BY <1>1, <3>3 DEF Started, vars, Lingering
      <4>2. aim' = [version |-> 1, identity |-> ModelB]
        BY <3>1, <4>1, FirstTarget
      <4>3. Unhindered'
        BY <3>1, <4>1 DEF Unhindered
      <4> QED
        BY <1>1, <2>2, <3>1, <4>1, <4>2, <4>3 DEF DemoGenerations
    <3>4. CASE Still
      <4>1. Unhindered'
        BY <3>1, <3>4 DEF Unhindered, Still
      <4>2. Committed(0) => Committed(0)'
        BY <3>4 DEF Still, Committed
      <4>3. UNCHANGED <<eng, at, aim, current>>
        BY <3>4 DEF Still
      <4> QED
        BY <1>1, <2>2, <3>1, <4>1, <4>2, <4>3 DEF DemoGenerations
    <3> QED
      BY <1>0, <1>1, <3>2, <3>3, <3>4, InProcessLingers
  <2>3. CASE pc = 4
    <3>1. Here = "check two generations"
      BY <1>0, <2>3, DemoSteps
    <3>n. Now(Here)
      BY <2>3, DemoAt
    <3>2. at = "idle"
      BY <1>0, <3>1, <3>n, Idle DEF Carry, Clear
    <3>3. UNCHANGED current
      BY <1>0, <1>1, <3>1, <3>2, InProcessWaits DEF Still
    <3>4. Committed(1) /\ current.identity = ModelB
      BY <1>t, <2>3 DEF DemoGenerations
    <3> QED
      BY <1>1, <2>3, <3>3, <3>4 DEF DemoGenerations, Committed
  <2> QED
    BY <1>0, <1>1, <2>1, <2>2, <2>3 DEF DemoGenerations
<1>2. CASE Moving /\ pc' = pc + 1 /\ Keeps(Here) /\ Does(Here)
  <2>1. CASE pc = 1
    <3>1. Seeded'
      BY <1>0, <1>2, <2>1, DemoSteps, Seeds
    <3> QED
      BY <1>2, <2>1, <3>1 DEF DemoGenerations
  <2>2. CASE pc = 2
    <3>1. Seeded
      BY <1>t, <2>2 DEF DemoGenerations
    <3>2. Booted'
      BY <1>0, <1>2, <2>2, <3>1, DemoSteps, Boots
    <3>3. eng'.up /\ Unhindered' /\ at' = "idle" /\ Committed(0)'
      BY <3>2 DEF Booted, Unhindered
    <3> QED
      BY <1>2, <2>2, <3>3 DEF DemoGenerations
  <2>3. CASE pc = 3
    <3>1. Here = "cycle"
      BY <1>0, <2>3, DemoSteps
    <3>2. at = "returned" /\ UNCHANGED current
      BY <1>2, <3>1 DEF Keeps, Does, vars
    <3>3. current = aim /\ aim = [version |-> 1, identity |-> ModelB]
      BY <1>t, <2>3, <3>2 DEF DemoGenerations
    <3>4. current # None
      BY <1>0, <3>2 DEF CallHolds, Base, IInv, FreshUntilBootstrap
    <3> QED
      BY <1>2, <2>3, <3>2, <3>3, <3>4 DEF DemoGenerations, Committed
  <2> QED
    BY <1>0, <1>2, <2>1, <2>2, <2>3 DEF DemoGenerations
<1> QED
  BY <1>1, <1>2, DemoAt

LEMMA AdmissionBinds ==
  ASSUME IInv, NEW r \in Rollouts, AdmitRollout(r)
  PROVE  active' # NoRollouts
<1>1. active \in [Rollouts -> Targets \cup {None}]
  BY DEF IInv, TypeOK
<1>2. active'[r] = current /\ current # None
  BY <1>1 DEF AdmitRollout
<1> QED
  BY <1>2 DEF NoRollouts

(* The drain disagreement: the engine is drained, a rollout is counted.    *)
LEMMA DemoDisagreementStep ==
  ASSUME Base, Closed, XNext, script = "demo", stage = "run", stage' = "run"
  PROVE  DemoDisagreement => DemoDisagreement'
<1>t. SUFFICES ASSUME DemoDisagreement PROVE DemoDisagreement'
  OBVIOUS
<1>0. /\ script \in InProcess /\ script \in Scripts /\ XTypeOK /\ eng \in Engines
      /\ pc \in 1..27 /\ Here = Demo[pc] /\ CallHolds /\ Undisturbed
  BY DemoAt DEF Closed
<1> DEFINE C == {"called", "pause"}
<1>1. CASE Lingering /\ UNCHANGED pc
  <2>1. CASE pc = 6
    <3>1. Here = "bootstrap" /\ Seeded
      BY <1>0, <1>t, <2>1, DemoSteps DEF DemoDisagreement
    <3>2. Seeded'
      BY <1>0, <1>1, <3>1, SeededStays
    <3> QED
      BY <1>1, <2>1, <3>2 DEF DemoDisagreement
  <2>2. CASE pc = 7
    <3>1. Here = "admit" /\ Booted
      BY <1>0, <1>t, <2>2, DemoSteps DEF DemoDisagreement
    <3>2. Booted'
      BY <1>0, <1>1, <3>1, BootedStays
    <3> QED
      BY <1>1, <2>2, <3>2 DEF DemoDisagreement
  <2>3. CASE pc = 8
    <3>1. /\ active # NoRollouts \/ at = "raised"
          /\ Attempt(C) /\ faults = {}
          /\ at = "raised" => orphaned # NoRollouts
      BY <1>t, <2>3 DEF DemoDisagreement
    <3>f. UNCHANGED faults
      BY <1>1 DEF Lingering
    <3>2. CASE Cycling
      <4>1. /\ at \in C /\ eng.up /\ request = "none"
            /\ Sessionless(at) => ~eng.session
            /\ at = "pause" => eng.paused
        BY <3>1, <3>2, Cycles DEF Attempt, Calls, Sessionless
      <4>2. /\ at = "called" => at' = "pause" /\ UNCHANGED active
            /\ at = "pause" => at' = "raised" /\ orphaned' # NoRollouts
        BY <1>0, <3>1, <3>2, <4>1, AttemptCalls DEF ToTheFinish
      <4>3. Attempt(C)'
        BY <1>0, <3>1, <3>2, <4>1, <4>2, AttemptGoes DEF ToTheFinish
      <4>4. active' # NoRollouts \/ at' = "raised"
        BY <3>1, <4>1, <4>2
      <4>5. at' = "raised" => orphaned' # NoRollouts
        BY <4>1, <4>2
      <4> QED
        BY <1>1, <2>3, <3>1, <3>f, <4>3, <4>4, <4>5 DEF DemoDisagreement
    <3>3. CASE Started
      <4>1. Attempt(C)' /\ at' = "called" /\ UNCHANGED <<active, eng>>
        BY <3>1, <3>3, AttemptStarts DEF ToTheFinish
      <4>2. at = "idle"
        BY <3>1, <3>3 DEF Started
      <4> QED
        BY <1>1, <2>3, <3>1, <3>f, <4>1, <4>2 DEF DemoDisagreement
    <3>4. CASE Still
      <4>1. Attempt(C)'
        BY <3>1, <3>4, AttemptStill
      <4>2. UNCHANGED <<active, orphaned, eng, at>>
        BY <3>4 DEF Still
      <4> QED
        BY <1>1, <2>3, <3>1, <3>f, <4>1, <4>2 DEF DemoDisagreement
    <3> QED
      BY <1>0, <1>1, <3>2, <3>3, <3>4, InProcessLingers
  <2>4. CASE pc = 9
    <3>1. at = "raised" /\ Committed(0) /\ eng.paused /\ orphaned # NoRollouts
      BY <1>t, <2>4 DEF DemoDisagreement
    <3>2. ~Cycling /\ ~Started
      BY <3>1, Cycles DEF Calls, Started
    <3>3. UNCHANGED <<at, current, eng, orphaned>>
      BY <1>0, <1>1, <3>2, InProcessLingers DEF Still
    <3> QED
      BY <1>1, <2>4, <3>1, <3>3 DEF DemoDisagreement, Committed, Reports
  <2> QED
    BY <1>0, <1>1, <2>1, <2>2, <2>3, <2>4 DEF DemoDisagreement
<1>2. CASE Moving /\ pc' = pc + 1 /\ Keeps(Here) /\ Does(Here)
  <2>1. CASE pc = 5
    <3>1. Seeded'
      BY <1>0, <1>2, <2>1, DemoSteps, Seeds
    <3> QED
      BY <1>2, <2>1, <3>1 DEF DemoDisagreement
  <2>2. CASE pc = 6
    <3>1. Seeded
      BY <1>t, <2>2 DEF DemoDisagreement
    <3>2. Booted'
      BY <1>0, <1>2, <2>2, <3>1, DemoSteps, Boots
    <3> QED
      BY <1>2, <2>2, <3>2 DEF DemoDisagreement
  <2>3. CASE pc = 7
    <3>1. Here = "admit"
      BY <1>0, <2>3, DemoSteps
    <3>2. Booted
      BY <1>t, <2>3 DEF DemoDisagreement
    <3>3. /\ UNCHANGED <<current, eng, at, request, faults>>
          /\ \E r \in Rollouts : AdmitRollout(r)
      BY <1>2, <3>1 DEF Keeps, Does, AdmitRollout
    <3>4. Attempt(C)' /\ faults' = {} /\ at' = "idle"
      BY <3>2, <3>3 DEF Booted, Attempt, Committed
    <3>5. active' # NoRollouts
      BY <3>3, AdmissionBinds DEF Base
    <3> QED
      BY <1>2, <2>3, <3>4, <3>5 DEF DemoDisagreement
  <2>4. CASE pc = 8
    <3>1. Here = "try"
      BY <1>0, <2>4, DemoSteps
    <3>2. at \in {"returned", "raised"} /\ UNCHANGED <<current, orphaned, eng, at, faults>>
      BY <1>2, <3>1 DEF Keeps, Does, vars
    <3>3. /\ active # NoRollouts \/ at = "raised"
          /\ Attempt(C) /\ faults = {}
          /\ at = "raised" => orphaned # NoRollouts
      BY <1>t, <2>4 DEF DemoDisagreement
    <3>4. at = "raised" /\ Committed(0) /\ eng.up
      BY <3>2, <3>3 DEF Attempt, ToTheFinish
    <3>5. eng.paused
      BY <3>3, <3>4 DEF Attempt
    <3> QED
      BY <1>2, <2>4, <3>2, <3>3, <3>4, <3>5 DEF DemoDisagreement, Committed, Reports
  <2> QED
    BY <1>0, <1>2, <2>1, <2>2, <2>3, <2>4 DEF DemoDisagreement
<1> QED
  BY <1>1, <1>2, DemoAt

(* The finalize fails: weights sent, nothing published, no label written.  *)
LEMMA DemoFinalizeStep ==
  ASSUME Base, Closed, XNext, script = "demo", stage = "run", stage' = "run"
  PROVE  DemoFinalize => DemoFinalize'
<1>t. SUFFICES ASSUME DemoFinalize PROVE DemoFinalize'
  OBVIOUS
<1>0. /\ script \in InProcess /\ script \in Scripts /\ XTypeOK /\ eng \in Engines
      /\ pc \in 1..27 /\ Here = Demo[pc] /\ CallHolds /\ Undisturbed
  BY DemoAt DEF Closed
<1> DEFINE C == ToTheFinish
<1>1. CASE Lingering /\ UNCHANGED pc
  <2>1. CASE pc = 11
    <3>1. Here = "bootstrap" /\ Seeded
      BY <1>0, <1>t, <2>1, DemoSteps DEF DemoFinalize
    <3>2. Seeded'
      BY <1>0, <1>1, <3>1, SeededStays
    <3> QED
      BY <1>1, <2>1, <3>2 DEF DemoFinalize
  <2>2. CASE pc = 12
    <3>1. Here = "fault finish" /\ Booted
      BY <1>0, <1>t, <2>2, DemoSteps DEF DemoFinalize
    <3>2. Booted'
      BY <1>0, <1>1, <3>1, BootedStays
    <3> QED
      BY <1>1, <2>2, <3>2 DEF DemoFinalize
  <2>3. CASE pc = 13
    <3>1. /\ Attempt(C) /\ faults = {"finish_weight_update"}
          /\ active = NoRollouts /\ eng.label = 0
      BY <1>t, <2>3 DEF DemoFinalize
    <3>f. UNCHANGED faults
      BY <1>1 DEF Lingering
    <3>2. CASE Cycling
      <4>1. /\ at \in C /\ eng.up /\ request = "none"
            /\ Sessionless(at) => ~eng.session
            /\ at = "pause" => eng.paused
        BY <3>1, <3>2, Cycles DEF Attempt, Calls, Sessionless
      <4>2. at' \in {"pause", "begin", "start", "transfer", "finish", "raised"}
        BY <1>0, <3>1, <3>2, <4>1, AttemptCalls DEF ToTheFinish
      <4>3. Attempt(C)'
        BY <1>0, <3>1, <3>2, <4>2, AttemptGoes DEF ToTheFinish
      <4>4. eng'.label = 0
        BY <1>0, <3>1, <3>2, <4>1, AttemptCalls
      <4>5. active' = NoRollouts
        BY <3>1, <3>2, CycleBindings
      <4> QED
        BY <1>1, <2>3, <3>1, <3>f, <4>3, <4>4, <4>5 DEF DemoFinalize
    <3>3. CASE Started
      <4>1. Attempt(C)' /\ at' = "called" /\ UNCHANGED <<active, eng>>
        BY <3>1, <3>3, AttemptStarts DEF ToTheFinish
      <4>2. at = "idle"
        BY <3>1, <3>3 DEF Started
      <4> QED
        BY <1>1, <2>3, <3>1, <3>f, <4>1, <4>2 DEF DemoFinalize
    <3>4. CASE Still
      <4>1. Attempt(C)'
        BY <3>1, <3>4, AttemptStill
      <4>2. UNCHANGED <<active, orphaned, eng, at>>
        BY <3>4 DEF Still
      <4> QED
        BY <1>1, <2>3, <3>1, <3>f, <4>1, <4>2 DEF DemoFinalize
    <3> QED
      BY <1>0, <1>1, <3>2, <3>3, <3>4, InProcessLingers
  <2>4. CASE pc = 14
    <3>1. at = "raised" /\ Committed(0) /\ eng.paused /\ Reports(0)
      BY <1>t, <2>4 DEF DemoFinalize
    <3>2. ~Cycling /\ ~Started
      BY <3>1, Cycles DEF Calls, Started
    <3>3. UNCHANGED <<at, current, eng, orphaned>>
      BY <1>0, <1>1, <3>2, InProcessLingers DEF Still
    <3> QED
      BY <1>1, <2>4, <3>1, <3>3 DEF DemoFinalize, Committed, Reports
  <2> QED
    BY <1>0, <1>1, <2>1, <2>2, <2>3, <2>4 DEF DemoFinalize
<1>2. CASE Moving /\ pc' = pc + 1 /\ Keeps(Here) /\ Does(Here)
  <2>1. CASE pc = 10
    <3>1. Seeded'
      BY <1>0, <1>2, <2>1, DemoSteps, Seeds
    <3> QED
      BY <1>2, <2>1, <3>1 DEF DemoFinalize
  <2>2. CASE pc = 11
    <3>1. Seeded
      BY <1>t, <2>2 DEF DemoFinalize
    <3>2. Booted'
      BY <1>0, <1>2, <2>2, <3>1, DemoSteps, Boots
    <3> QED
      BY <1>2, <2>2, <3>2 DEF DemoFinalize
  <2>3. CASE pc = 12
    <3>1. Here = "fault finish"
      BY <1>0, <2>3, DemoSteps
    <3>2. Booted
      BY <1>t, <2>3 DEF DemoFinalize
    <3>3. faults' = {"finish_weight_update"} /\ UNCHANGED <<current, active, eng, at, request>>
      BY <1>2, <3>1 DEF Keeps, Does, vars
    <3>4. Attempt(C)' /\ active' = NoRollouts /\ at' = "idle" /\ eng'.label = 0
      BY <3>2, <3>3 DEF Booted, Attempt, Committed
    <3> QED
      BY <1>2, <2>3, <3>3, <3>4 DEF DemoFinalize
  <2>4. CASE pc = 13
    <3>1. Here = "try"
      BY <1>0, <2>4, DemoSteps
    <3>2. at \in {"returned", "raised"} /\ UNCHANGED <<current, orphaned, eng, at, faults>>
      BY <1>2, <3>1 DEF Keeps, Does, vars
    <3>3. /\ Attempt(C) /\ faults = {"finish_weight_update"}
          /\ active = NoRollouts /\ eng.label = 0
      BY <1>t, <2>4 DEF DemoFinalize
    <3>4. at = "raised" /\ Committed(0) /\ eng.up
      BY <3>2, <3>3 DEF Attempt, ToTheFinish
    <3>5. eng.paused
      BY <3>3, <3>4 DEF Attempt
    <3> QED
      BY <1>2, <2>4, <3>2, <3>3, <3>4, <3>5 DEF DemoFinalize, Committed, Reports
  <2> QED
    BY <1>0, <1>2, <2>1, <2>2, <2>3, <2>4 DEF DemoFinalize
<1> QED
  BY <1>1, <1>2, DemoAt

(* The caches are held: the label is written, and nothing is published.    *)
LEMMA DemoLabelStep ==
  ASSUME Base, Closed, XNext, script = "demo", stage = "run", stage' = "run"
  PROVE  DemoLabel => DemoLabel'
<1>t. SUFFICES ASSUME DemoLabel PROVE DemoLabel'
  OBVIOUS
<1>0. /\ script \in InProcess /\ script \in Scripts /\ XTypeOK /\ eng \in Engines
      /\ pc \in 1..27 /\ Here = Demo[pc] /\ CallHolds /\ Undisturbed
  BY DemoAt DEF Closed
<1> DEFINE C == ToTheCaches
<1>1. CASE Lingering /\ UNCHANGED pc
  <2>1. CASE pc = 16
    <3>1. Here = "bootstrap" /\ Seeded
      BY <1>0, <1>t, <2>1, DemoSteps DEF DemoLabel
    <3>2. Seeded'
      BY <1>0, <1>1, <3>1, SeededStays
    <3> QED
      BY <1>1, <2>1, <3>2 DEF DemoLabel
  <2>2. CASE pc = 17
    <3>1. Here = "fault caches" /\ Booted
      BY <1>0, <1>t, <2>2, DemoSteps DEF DemoLabel
    <3>2. Booted'
      BY <1>0, <1>1, <3>1, BootedStays
    <3> QED
      BY <1>1, <2>2, <3>2 DEF DemoLabel
  <2>3. CASE pc = 18
    <3>1. /\ Attempt(C) /\ faults = {"blocks held"} /\ active = NoRollouts
          /\ Relabelled
      BY <1>t, <2>3 DEF DemoLabel, LabelAttempt
    <3>f. UNCHANGED faults
      BY <1>1 DEF Lingering
    <3>2. CASE Cycling
      <4>1. /\ at \in C /\ eng.up /\ request = "none"
            /\ Sessionless(at) => ~eng.session
            /\ at = "pause" => eng.paused
        BY <3>1, <3>2, Cycles DEF Attempt, Calls, Sessionless
      <4>2. at' \in {"pause", "begin", "start", "transfer", "finish", "invalidate", "raised"}
        BY <1>0, <3>1, <3>2, <4>1, AttemptCalls DEF ToTheFinish, ToTheCaches
      <4>3. Attempt(C)'
        BY <1>0, <3>1, <3>2, <4>2, AttemptGoes DEF ToTheFinish, ToTheCaches
      <4>4. Relabelled'
        <5>1. at \notin {"idle", "raised"} /\ Attempt(C)
          BY <3>1, <4>1 DEF ToTheFinish, ToTheCaches
        <5>2. aim.version = 1
          BY <5>1 DEF Attempt
        <5>3. at = "finish" => eng'.label = 1
          BY <1>0, <3>1, <3>2, <4>1, <5>2, AttemptCalls DEF ToTheFinish, ToTheCaches
        <5>4. at = "invalidate" => eng'.label = 1
          <6>1. at = "invalidate" => eng'.label = eng.label
            BY <1>0, <3>1, <3>2, <4>1, AttemptCalls DEF ToTheFinish, ToTheCaches
          <6> QED
            BY <3>1, <6>1 DEF Relabelled
        <5>5. at' = "invalidate" => at = "finish"
          BY <1>0, <3>1, <3>2, <4>1, AttemptCalls DEF ToTheFinish, ToTheCaches
        <5>6. at' = "raised" => at = "invalidate"
          BY <1>0, <3>1, <3>2, <4>1, AttemptCalls DEF ToTheFinish, ToTheCaches
        <5> QED
          BY <5>3, <5>4, <5>5, <5>6 DEF Relabelled
      <4>5. active' = NoRollouts
        BY <3>1, <3>2, CycleBindings
      <4>6. LabelAttempt'
        BY <3>1, <3>f, <4>3, <4>4, <4>5 DEF LabelAttempt
      <4> QED
        BY <1>1, <2>3, <4>6 DEF DemoLabel
    <3>3. CASE Started
      <4>1. Attempt(C)' /\ at' = "called" /\ UNCHANGED <<active, eng>>
        BY <3>1, <3>3, AttemptStarts DEF ToTheFinish, ToTheCaches
      <4>2. Relabelled'
        BY <4>1 DEF Relabelled
      <4>6. LabelAttempt'
        BY <3>1, <3>f, <4>1, <4>2 DEF LabelAttempt
      <4> QED
        BY <1>1, <2>3, <4>6 DEF DemoLabel
    <3>4. CASE Still
      <4>1. Attempt(C)'
        BY <3>1, <3>4, AttemptStill
      <4>2. UNCHANGED active /\ Relabelled'
        BY <3>1, <3>4 DEF Still, Relabelled
      <4>6. LabelAttempt'
        BY <3>1, <3>f, <4>1, <4>2 DEF LabelAttempt
      <4> QED
        BY <1>1, <2>3, <4>6 DEF DemoLabel
    <3> QED
      BY <1>0, <1>1, <3>2, <3>3, <3>4, InProcessLingers
  <2>4. CASE pc = 19
    <3>1. at = "raised" /\ Committed(0) /\ eng.paused /\ Reports(1)
      BY <1>t, <2>4 DEF DemoLabel, LabelFailed
    <3>2. ~Cycling /\ ~Started
      BY <3>1, Cycles DEF Calls, Started
    <3>3. UNCHANGED <<at, current, eng, orphaned>>
      BY <1>0, <1>1, <3>2, InProcessLingers DEF Still
    <3>4. LabelFailed'
      BY <3>1, <3>3 DEF LabelFailed, Committed, Reports
    <3> QED
      BY <1>1, <2>4, <3>4 DEF DemoLabel
  <2> QED
    BY <1>0, <1>1, <2>1, <2>2, <2>3, <2>4 DEF DemoLabel
<1>2. CASE Moving /\ pc' = pc + 1 /\ Keeps(Here) /\ Does(Here)
  <2>1. CASE pc = 15
    <3>1. Seeded'
      BY <1>0, <1>2, <2>1, DemoSteps, Seeds
    <3> QED
      BY <1>2, <2>1, <3>1 DEF DemoLabel
  <2>2. CASE pc = 16
    <3>1. Seeded
      BY <1>t, <2>2 DEF DemoLabel
    <3>2. Booted'
      BY <1>0, <1>2, <2>2, <3>1, DemoSteps, Boots
    <3> QED
      BY <1>2, <2>2, <3>2 DEF DemoLabel
  <2>3. CASE pc = 17
    <3>1. Here = "fault caches"
      BY <1>0, <2>3, DemoSteps
    <3>2. Booted
      BY <1>t, <2>3 DEF DemoLabel, LabelAttempt
    <3>3. faults' = {"blocks held"} /\ UNCHANGED <<current, active, eng, at, request>>
      BY <1>2, <3>1 DEF Keeps, Does, vars
    <3>4. Attempt(C)' /\ active' = NoRollouts /\ Relabelled'
      BY <3>2, <3>3 DEF Booted, Attempt, Committed, Relabelled
    <3>5. LabelAttempt'
      BY <3>3, <3>4 DEF LabelAttempt
    <3> QED
      BY <1>2, <2>3, <3>5 DEF DemoLabel
  <2>4. CASE pc = 18
    <3>1. Here = "try"
      BY <1>0, <2>4, DemoSteps
    <3>2. at \in {"returned", "raised"} /\ UNCHANGED <<current, orphaned, eng, at, faults>>
      BY <1>2, <3>1 DEF Keeps, Does, vars
    <3>3. /\ Attempt(C) /\ faults = {"blocks held"} /\ active = NoRollouts
          /\ Relabelled
      BY <1>t, <2>4 DEF DemoLabel, LabelAttempt
    <3>4. at = "raised" /\ Committed(0) /\ eng.up
      BY <3>2, <3>3 DEF Attempt, ToTheFinish, ToTheCaches
    <3>5. eng.paused /\ eng.label = 1
      BY <3>3, <3>4 DEF Attempt, Relabelled
    <3>6. LabelFailed'
      BY <3>2, <3>3, <3>4, <3>5 DEF LabelFailed, Committed, Reports
    <3> QED
      BY <1>2, <2>4, <3>6 DEF DemoLabel
  <2> QED
    BY <1>0, <1>2, <2>1, <2>2, <2>3, <2>4 DEF DemoLabel
<1> QED
  BY <1>1, <1>2, DemoAt

(* The adoption: refused while the engine is owned, and after the release. *)
LEMMA DemoAdoptionStep ==
  ASSUME Base, Closed, XNext, script = "demo", stage = "run", stage' = "run"
  PROVE  DemoAdoption => DemoAdoption'
<1>t. SUFFICES ASSUME DemoAdoption PROVE DemoAdoption'
  OBVIOUS
<1>0. /\ script \in InProcess /\ script \in Scripts /\ XTypeOK /\ eng \in Engines
      /\ pc \in 1..27 /\ Here = Demo[pc]
  BY DemoAt
<1>1. CASE Lingering /\ UNCHANGED pc
  <2>1. CASE pc = 21
    <3>1. Here = "owned" /\ Seeded
      BY <1>0, <1>t, <2>1, DemoSteps DEF DemoAdoption
    <3>2. Seeded'
      BY <1>0, <1>1, <3>1, SeededStays
    <3> QED
      BY <1>1, <2>1, <3>2 DEF DemoAdoption
  <2>2. CASE pc = 22 \/ pc = 23 \/ pc = 24 \/ pc = 25
    <3>1. Here \in {"refused", "release", "bootstrap", "check adopted"}
      BY <1>0, <2>2, DemoSteps
    <3>n. Now(Here)
      BY <2>2, DemoAt
    <3>2. at = "idle"
      <4>1. Here \notin Carry \cup Clear
        BY <3>1 DEF Carry, Clear
      <4>2. Undisturbed
        BY DEF Closed
      <4> QED
        BY <1>0, <3>n, <4>1, <4>2, Idle
    <3>3. Still
      BY <1>0, <1>1, <3>1, <3>2, InProcessWaits
    <3>4. UNCHANGED <<eng, faults, state>>
      BY <3>3 DEF Still
    <3>5. ASSUME NEW label PROVE Unadopted(label) => Unadopted(label)'
      BY <3>4 DEF Unadopted
    <3>6. Reports(0) => Reports(0)'
      BY <3>4 DEF Reports
    <3> QED
      BY <1>1, <1>t, <2>2, <3>4, <3>5, <3>6 DEF DemoAdoption
  <2> QED
    BY <1>0, <1>1, <2>1, <2>2 DEF DemoAdoption
<1>2. CASE Moving /\ pc' = pc + 1 /\ Keeps(Here) /\ Does(Here)
  <2>1. CASE pc = 20
    <3>1. Seeded'
      BY <1>0, <1>2, <2>1, DemoSteps, Seeds
    <3> QED
      BY <1>2, <2>1, <3>1 DEF DemoAdoption
  <2>2. CASE pc = 21
    <3>1. Here = "owned" /\ Seeded
      BY <1>0, <1>t, <2>2, DemoSteps DEF DemoAdoption
    <3>2. eng' = [eng EXCEPT !.label = 2] /\ UNCHANGED <<state, faults>>
      BY <1>2, <3>1 DEF Keeps, Does, vars
    <3>3. Unadopted(2)'
      BY <1>0, <3>1, <3>2 DEF Unadopted, Seeded, Engines
    <3> QED
      BY <1>2, <2>2, <3>3 DEF DemoAdoption
  <2>3. CASE pc = 22
    <3>1. Here = "refused" /\ Unadopted(2)
      BY <1>0, <1>t, <2>3, DemoSteps DEF DemoAdoption
    <3>2. UNCHANGED <<eng, state, faults>>
      BY <1>2, <3>1 DEF Keeps, Does, vars, Checks
    <3>3. Unadopted(2)'
      BY <3>1, <3>2 DEF Unadopted
    <3> QED
      BY <1>2, <2>3, <3>3 DEF DemoAdoption
  <2>4. CASE pc = 23
    <3>1. Here = "release" /\ Unadopted(2)
      BY <1>0, <1>t, <2>4, DemoSteps DEF DemoAdoption
    <3>2. eng' = [eng EXCEPT !.label = Unmanaged] /\ UNCHANGED <<state, faults>>
      BY <1>2, <3>1 DEF Keeps, Does, vars
    <3>3. Unadopted(Unmanaged)'
      BY <1>0, <3>1, <3>2 DEF Unadopted, Engines
    <3> QED
      BY <1>2, <2>4, <3>3 DEF DemoAdoption
  <2>5. CASE pc = 24
    <3>1. Here = "bootstrap"
      BY <1>0, <2>5, DemoSteps
    <3>2. eng.up /\ eng' = [eng EXCEPT !.label = 0] /\ state' = "READY"
      BY <1>2, <3>1 DEF Does
    <3>3. Reports(0)'
      BY <1>0, <3>2 DEF Reports, Engines
    <3> QED
      BY <1>2, <2>5, <3>2, <3>3 DEF DemoAdoption
  <2> QED
    BY <1>0, <1>2, <2>1, <2>2, <2>3, <2>4, <2>5 DEF DemoAdoption
<1> QED
  BY <1>1, <1>2, DemoAt

(* Every step keeps the trail of the demo ...                              *)
LEMMA DemoTrailStep ==
  ASSUME Base, Closed, XNext, script = "demo", stage = "run", stage' = "run", DemoTrail
  PROVE  DemoTrail'
<1>1. DemoGenerations' /\ DemoDisagreement' /\ DemoFinalize'
  BY DemoGenerationsStep, DemoDisagreementStep, DemoFinalizeStep DEF DemoTrail
<1>2. DemoLabel' /\ DemoAdoption'
  BY DemoLabelStep, DemoAdoptionStep DEF DemoTrail
<1> QED
  BY <1>1, <1>2 DEF DemoTrail

LEMMA TestsAt ==
  ASSUME Base, XNext, script = "tests", stage = "run", stage' = "run"
  PROVE  /\ script \in InProcess /\ script \in Scripts /\ XTypeOK /\ eng \in Engines
         /\ pc \in 1..6 /\ Here = FaultTest[pc]
         /\ \/ Lingering /\ UNCHANGED pc
            \/ Moving /\ pc' = pc + 1 /\ Keeps(Here) /\ Does(Here)
<1>1. Scenario[script] = FaultTest /\ Len(FaultTest) = 5
  BY DEF Scenario, FaultTest
<1>2. pc \in 1..6
  BY <1>1 DEF Base, XTypeOK
<1> QED
  BY <1>1, <1>2, Moved DEF Base, XTypeOK, InProcess, Here, Lingering, Moving

(* ... and that of a fault test.                                           *)
LEMMA TestsTrailStep ==
  ASSUME Base, XNext, script = "tests", stage = "run", stage' = "run"
  PROVE  TestsTrail => TestsTrail'
<1>t. SUFFICES ASSUME TestsTrail PROVE TestsTrail'
  OBVIOUS
<1>0. script \in InProcess /\ pc \in 1..6 /\ Here = FaultTest[pc]
  BY TestsAt
<1>1. CASE Lingering /\ UNCHANGED pc
  <2>1. CASE pc = 2
    <3>1. Here = "bootstrap" /\ Seeded
      BY <1>0, <1>t, <2>1 DEF FaultTest, TestsTrail
    <3>2. Seeded'
      BY <1>0, <1>1, <3>1, SeededStays
    <3> QED
      BY <1>1, <2>1, <3>2 DEF TestsTrail
  <2> QED
    BY <1>1, <2>1 DEF TestsTrail
<1>2. CASE Moving /\ pc' = pc + 1
  <2>1. CASE pc = 1
    <3>1. Here = "seed"
      BY <1>0, <2>1 DEF FaultTest
    <3>2. Seeded'
      BY <1>2, <3>1, Seeds
    <3> QED
      BY <1>2, <2>1, <3>2 DEF TestsTrail
  <2> QED
    BY <1>0, <1>2, <2>1 DEF TestsTrail
<1> QED
  BY <1>1, <1>2, TestsAt

-----------------------------------------------------------------------------
(* The trails together, and where they lead.                               *)

(* Every step of a scenario keeps its trail.                               *)
LEMMA TrailStep ==
  ASSUME Base, Closed, XNext, stage = "run", stage' = "run"
  PROVE  Trail => Trail'
<1>0. script \in Scripts /\ UNCHANGED script /\ CallHolds
  BY DEF Base, XNext, Closed
<1>1. CASE script \in Rolling
  <2>1. RollTrail => RollTrail'
    BY <1>1, RollTrailStep
  <2> QED
    BY <1>0, <1>1, <2>1 DEF Trail, Rolling
<1>2. CASE script = "cache"
  <2>1. CacheTrail => CacheTrail'
    BY <1>2, CacheTrailStep
  <2> QED
    BY <1>0, <1>2, <2>1 DEF Trail, Rolling
<1>3. CASE script = "smoke"
  <2>1. SmokeTrail => SmokeTrail'
    BY <1>3, SmokeTrailStep
  <2> QED
    BY <1>0, <1>3, <2>1 DEF Trail, Rolling
<1>4. CASE script = "failures"
  <2>1. FailuresTrail => FailuresTrail'
    BY <1>4, FailuresTrailStep
  <2> QED
    BY <1>0, <1>4, <2>1 DEF Trail, Rolling
<1>5. CASE script = "updatekill"
  <2>1. UpdateKillTrail => UpdateKillTrail'
    BY <1>5, UpdateKillTrailStep
  <2> QED
    BY <1>0, <1>5, <2>1 DEF Trail, Rolling
<1>6. CASE script = "benchmark"
  <2>1. BenchmarkTrail => BenchmarkTrail'
    BY <1>0, <1>6, BenchmarkTrailStep
  <2> QED
    BY <1>0, <1>6, <2>1 DEF Trail, Rolling
<1>7. CASE script = "demo"
  <2>1. DemoTrail => DemoTrail'
    BY <1>7, DemoTrailStep
  <2> QED
    BY <1>0, <1>7, <2>1 DEF Trail, Rolling
<1>8. CASE script = "tests"
  <2>1. TestsTrail => TestsTrail'
    BY <1>8, TestsTrailStep
  <2> QED
    BY <1>0, <1>8, <2>1 DEF Trail, Rolling
<1> QED
  BY <1>0, <1>1, <1>2, <1>3, <1>4, <1>5, <1>6, <1>7, <1>8 DEF Scripts, Scenario, Rolling

(* The verdict is taken at the end of the trail.                           *)
LEMMA VerdictSteps ==
  ASSUME script \in Scripts, XTypeOK, Now("verdict")
  PROVE  /\ script \notin InProcess
         /\ script \in Rolling => Leg = 10
         /\ script = "cache" => pc = 12
         /\ script = "smoke" => pc = 13
         /\ script = "failures" => pc = 34
         /\ script = "updatekill" => pc = 11
         /\ script = "benchmark" => pc = 20
<1>0. /\ pc \in 1..Len(Scenario[script]) /\ Scenario[script][pc] = "verdict"
      /\ script \notin InProcess
  <2>1. Belongs(script, "verdict")
    BY StepBelongs
  <2> QED
    BY <2>1, Position DEF XTypeOK, Now, Belongs
<1>1. script \in Rolling => Leg = 10
  BY RollingAt DEF LegOf
<1>2. ASSUME script \notin Killers PROVE pc = Len(Scenario[script])
  <2> SUFFICES ASSUME pc # Len(Scenario[script]) PROVE FALSE
    OBVIOUS
  <2>1. pc \in 1..(Len(Scenario[script]) - 1) /\ pc + 1 \in 1..Len(Scenario[script])
    BY <1>0, Position
  <2>2. MayFollow(script, "verdict", Scenario[script][pc + 1])
    BY <1>0, <2>1, ScenarioOrder DEF Orderly
  <2>3. Belongs(script, Scenario[script][pc + 1])
    BY <2>1, ScenarioOrder, Position, ElementOfSeq DEF Orderly
  <2> QED
    BY <1>2, <2>2, <2>3 DEF MayFollow, Belongs
<1>3. /\ script = "cache" => pc = 12
      /\ script = "smoke" => pc = 13
      /\ script = "failures" => pc = 34
  <2>1. Len(Cache) = 12 /\ Len(Smoke) = 13 /\ Len(Failures) = 34
    BY FailuresSteps DEF Cache, Smoke
  <2>2. /\ script = "cache" => Scenario[script] = Cache
        /\ script = "smoke" => Scenario[script] = Smoke
        /\ script = "failures" => Scenario[script] = Failures
    BY DEF Scenario
  <2> QED
    BY <1>2, <2>1, <2>2 DEF Killers
<1>4. ASSUME script = "updatekill" PROVE pc = 11
  <2>1. Scenario[script] = UpdateKill
    BY <1>4 DEF Scenario
  <2>2. /\ Len(UpdateKill) = 12 /\ \A i \in 1..6 : UpdateKill[i] # "verdict"
        /\ \A i \in 7..10 : UpdateKill[i] # "verdict" /\ UpdateKill[12] # "verdict"
    BY DEF UpdateKill
  <2> QED
    BY <1>0, <2>1, <2>2
<1>6. ASSUME script = "benchmark" PROVE pc = 20
  <2>1. Scenario[script] = Benchmark
    BY <1>6 DEF Scenario
  <2>2. Len(Benchmark) = 21 /\ pc \in 1..21 /\ Benchmark[pc] = "verdict"
    BY <1>0, <2>1, BenchmarkSteps
  <2>3. /\ pc # 1 /\ pc # 2 /\ pc # 3 /\ pc # 4 /\ pc # 5 /\ pc # 6 /\ pc # 7
        /\ pc # 8 /\ pc # 9 /\ pc # 10
    BY <2>2, BenchmarkSteps
  <2>4. /\ pc # 11 /\ pc # 12 /\ pc # 13 /\ pc # 14 /\ pc # 15 /\ pc # 16 /\ pc # 17
        /\ pc # 18 /\ pc # 19 /\ pc # 21
    BY <2>2, BenchmarkSteps
  <2> QED
    BY <2>2, <2>3, <2>4
<1> QED
  BY <1>0, <1>1, <1>3, <1>4, <1>6

(* With every check passed, the trail has established what a PASS shows.   *)
LEMMA VerdictShows ==
  ASSUME Base, Now("verdict"), Trail, good
  PROVE  Shown /\ Settled
<1>0. script \in Scripts /\ script \notin InProcess /\ XTypeOK /\ pc \in Nat
  BY VerdictSteps DEF Base, XTypeOK
<1>1. CASE script \in Rolling
  <2>1. RollTrail /\ Leg = 10
    BY <1>0, <1>1, VerdictSteps DEF Trail, Rolling
  <2>2. RollEngine /\ RollRequest
    BY <2>1 DEF RollTrail
  <2>3. /\ Committed(1) /\ eng.label = 1 /\ eng.weights = "sent"
        /\ at = "idle" /\ state = "READY"
    BY <2>1, <2>2 DEF RollEngine
  <2>4. /\ active = NoRollouts /\ used \subseteq {"loaded"}
        /\ request \in {"none", "released"}
    BY <1>1, <2>1, <2>2 DEF RollRequest, Rolling
  <2> QED
    BY <1>1, <2>3, <2>4 DEF Shown, Settled, Rolling
<1>2. CASE script = "cache"
  <2>1. CacheTrail /\ pc = 12
    BY <1>0, <1>2, VerdictSteps DEF Trail, Rolling
  <2>2. Committed(1) /\ ~reused /\ at = "idle"
    BY <2>1 DEF CacheTrail
  <2> QED
    BY <1>2, <2>2 DEF Shown, Settled, Rolling
<1>3. CASE script = "smoke"
  <2>1. SmokeTrail /\ pc = 13
    BY <1>0, <1>3, VerdictSteps DEF Trail, Rolling
  <2>2. /\ state = "TAINTED" /\ Committed(0) /\ eng.label = 0
        /\ request = "answered" /\ eng.weights = "loaded" /\ at = "idle"
    BY <2>1 DEF SmokeTrail
  <2> QED
    BY <1>3, <2>2 DEF Shown, Settled, Rolling
<1>4. CASE script = "failures"
  <2>1. FailuresTrail /\ pc = 34
    BY <1>0, <1>4, VerdictSteps DEF Trail, Rolling
  <2>2. at = "idle" /\ diedIn = "READY" /\ state = "READY" /\ Committed(0)
    BY <2>1 DEF FailuresTrail
  <2> QED
    BY <1>4, <2>2 DEF Shown, Settled, Rolling
<1>5. CASE script = "updatekill"
  <2>1. UpdateKillTrail /\ pc = 11
    BY <1>0, <1>5, VerdictSteps DEF Trail, Rolling
  <2>2. /\ diedIn # None /\ Committed(1) /\ state \notin ADMITTING_STATES
        /\ at = "raised" /\ ~eng.up
    BY <2>1 DEF UpdateKillTrail
  <2> QED
    BY <1>5, <2>2 DEF Shown, Settled, Rolling
<1>6. CASE script = "benchmark"
  <2>1. BenchmarkTrail /\ pc = 20
    BY <1>0, <1>6, VerdictSteps DEF Trail, Rolling
  <2>2. /\ ~eng.up /\ seen = "UPDATING" /\ Committed(0) /\ Mutating
        /\ diedIn \in Mutated
    BY <2>1 DEF BenchmarkTrail
  <2>3. Struck \in MutationStates
    BY <2>2 DEF Mutating
  <2> QED
    BY <1>6, <2>2, <2>3 DEF Shown, Settled, Rolling, Mutated
<1> QED
  BY <1>0, <1>1, <1>2, <1>3, <1>4, <1>5, <1>6
     DEF Scripts, Scenario, Rolling, InProcess

(* The facts a verdict rests on ...                                        *)
LEMMA StillShown ==
  ASSUME Shown, Settled,
         UNCHANGED <<state, current, taintedIn, active>>,
         UNCHANGED <<script, at, request, used, reused, diedIn>>,
         eng \in Engines, eng' = eng \/ eng' = [eng EXCEPT !.up = FALSE]
  PROVE  Shown' /\ Settled'
<1>1. /\ eng'.label = eng.label /\ eng'.weights = eng.weights
      /\ ~eng.up => ~eng'.up
  BY DEF Engines
<1>2. ASSUME NEW v PROVE Committed(v) => Committed(v)'
  BY DEF Committed
<1>3. Shown'
  BY <1>1, <1>2 DEF Shown, Struck
<1>4. Settled'
  BY <1>1 DEF Settled, Struck
<1> QED
  BY <1>3, <1>4

(* ... outlast whatever passes by ...                                      *)
LEMMA PassedShown ==
  ASSUME Base, Shown, Settled, Passed, UNCHANGED <<script, reused>>
  PROVE  Shown' /\ Settled'
<1>0. eng \in Engines /\ (script \in Scripts)
  BY DEF Base, XTypeOK
<1>1. UNCHANGED <<state, current, taintedIn, at, used>>
  BY DEF Passed
<1>2. ASSUME NEW v PROVE Committed(v) => Committed(v)'
  BY <1>1 DEF Committed
<1>3. /\ eng'.label = eng.label /\ eng'.weights = eng.weights
      /\ ~eng.up => ~eng'.up
      /\ diedIn' = diedIn \/ (eng.up /\ diedIn' = state)
  BY <1>0 DEF Passed, Engines
<1>4. \/ UNCHANGED <<request, active>>
      \/ request = "running"
      \/ ReleasesItself /\ request \in {"answered", "aborted"}
  BY DEF Passed
<1>5. CASE script \in Rolling
  <2>1. at = "idle" /\ request \in {"none", "released"}
    BY <1>5 DEF Settled, Rolling
  <2>2. UNCHANGED <<request, active>>
    BY <1>4, <2>1
  <2>3. Shown'
    BY <1>1, <1>2, <1>3, <1>5, <2>2 DEF Shown, Rolling
  <2> QED
    BY <1>1, <1>5, <2>1, <2>2, <2>3 DEF Settled, Rolling
<1>6. CASE script = "smoke"
  <2>1. /\ state = "TAINTED" /\ Committed(0) /\ eng.label = 0
        /\ request = "answered" /\ eng.weights = "loaded"
    BY <1>6 DEF Shown
  <2>2. request' = "answered" /\ at = "idle"
    BY <1>4, <1>6, <2>1 DEF ReleasesItself, Settled, Rolling
  <2> QED
    BY <1>1, <1>2, <1>3, <1>6, <2>1, <2>2 DEF Shown, Settled, Rolling
<1>7. CASE script = "cache"
  BY <1>1, <1>2, <1>7 DEF Shown, Settled, Rolling
<1>8. CASE script = "failures"
  <2>1. diedIn = "READY" /\ state = "READY" /\ Committed(0) /\ at = "idle"
    BY <1>8 DEF Shown, Settled, Rolling
  <2> QED
    BY <1>1, <1>2, <1>3, <1>8, <2>1 DEF Shown, Settled, Rolling
<1>9. CASE script = "updatekill"
  <2>1. /\ diedIn # None /\ Committed(1) /\ state \notin ADMITTING_STATES
        /\ at = "raised" /\ ~eng.up
    BY <1>9 DEF Shown, Settled, Rolling
  <2> QED
    BY <1>1, <1>2, <1>3, <1>9, <2>1 DEF Shown, Settled, Rolling
<1>10. CASE script = "benchmark"
  <2>1. /\ diedIn \in Mutated /\ Committed(0) /\ ~eng.up /\ Struck \in MutationStates
    BY <1>10 DEF Shown, Settled, Rolling, Mutated
  <2>2. UNCHANGED Struck
    BY <1>1 DEF Struck
  <2>3. diedIn' = diedIn /\ ~eng'.up /\ Committed(0)'
    BY <1>2, <1>3, <2>1
  <2> QED
    BY <1>10, <2>1, <2>2, <2>3 DEF Shown, Settled, Rolling, Mutated
<1>11. CASE script \in InProcess
  BY <1>1, <1>11 DEF Shown, Settled, Rolling, InProcess
<1> QED
  BY <1>0, <1>5, <1>6, <1>7, <1>8, <1>9, <1>10, <1>11
     DEF Scripts, Scenario, Rolling, InProcess

(* ... and the calls of a benchmark's cycle, on a dead engine.             *)
LEMMA CyclingShown ==
  ASSUME Base, CallHolds, Shown, Settled, Cycling, UNCHANGED script
  PROVE  Shown' /\ Settled'
<1>0. eng \in Engines /\ at \in Calls
  BY Cycles DEF Base, XTypeOK
<1>1. script = "benchmark"
  BY <1>0 DEF Settled, Calls
<1>2. diedIn \in Mutated /\ Committed(0) /\ ~eng.up /\ Struck \in MutationStates
  BY <1>1 DEF Shown, Settled, Rolling, Mutated
<1>3. ~eng'.up /\ UNCHANGED <<current, diedIn>>
  BY <1>0, <1>2, BenchmarkDead
<1>4. Committed(0)'
  BY <1>2, <1>3 DEF Committed
<1>5. Struck' \in MutationStates
  BY <1>2, <1>4, StaysMutating DEF Mutating
<1> QED
  BY <1>1, <1>2, <1>3, <1>4, <1>5 DEF Shown, Settled, Rolling, Mutated

-----------------------------------------------------------------------------
(* The end of a script.                                                    *)

(* Past the scenario there is the report, the server, and a cycle left over. *)
LEMMA AfterRun ==
  ASSUME XNext, stage # "run"
  PROVE  Cycling \/ WriteReport \/ StopServer
<1>1. ~(Launch \/ Ready \/ Kill \/ Stop \/ NewController \/ Seed \/ Inject \/ Bootstrap)
  BY DEF Now, Launch, Ready, Kill, Stop, NewController, Seed, Inject, Bootstrap
<1>2. ~(Touch \/ Generate \/ Admit \/ Stream \/ Finish \/ JoinRequest \/ DrainByHand
        \/ Quiesce)
  BY DEF Now, Touch, Generate, Admit, Stream, Finish, JoinRequest, DrainByHand, Quiesce
<1>3. ~(RefusedAdoption \/ Mismatch \/ Abandon \/ CallCycle \/ CycleEnds \/ Look \/ Join
        \/ JoinHot)
  BY DEF Now, RefusedAdoption, Mismatch, Abandon, CallCycle, CycleEnds, Look, Join,
     JoinHot
<1>4. ~(Check \/ Verdict \/ Hang \/ Return \/ Interrupt \/ CallFails)
  BY DEF Now, Check, Verdict, Hang, Return, Interrupt, CallFails
<1>5. ~(RequestEnds \/ ThreadReleases \/ Crash) /\ \A c \in {1, Interrupted} : ~NotReady(c)
  BY DEF Now, RequestEnds, ThreadReleases, Crash, NotReady
<1> QED
  BY <1>1, <1>2, <1>3, <1>4, <1>5 DEF XNext, Main, Around

(* The ways out of the scenario: an exception or the last step, by the     *)
(* finally; a first server that is not ready; os._exit, past it.           *)
Thrown   == (\E c \in {1, Interrupted} : Leave(c) \/ Quit(c)) /\ UNCHANGED report
Returned == Return /\ UNCHANGED report
Forced ==
    /\ Written
    /\ Quit(2) \/ Quit(3) \/ (verdict /\ Quit(0))

(* A script leaves its scenario in one of these ways.                      *)
LEMMA Leaving ==
  ASSUME Base, XNext, stage = "run", stage' # "run"
  PROVE  /\ UNCHANGED <<pc, good, verdict>>
         /\ Thrown \/ Returned \/ (Forced /\ script \notin InProcess)
<1>0. script \in Scripts /\ XTypeOK
  BY DEF Base
<1>1. ~Go
  BY DEF Go, Record
<1>r. ASSUME Raise PROVE Leave(1)
  BY <1>r DEF Raise
<1>p. UNCHANGED <<pc, good, verdict>>
  <2>1. ~Stays /\ \A a : ~Onward(a)
    BY DEF Stays, Onward, Now, runVars
  <2> QED
    BY <2>1, Moves DEF Leaves
<1>2. ~(Launch \/ Ready \/ Kill \/ Stop \/ NewController \/ Seed \/ Inject)
  BY <1>1 DEF Launch, Ready, Kill, Stop, NewController, Seed, Inject, runVars
<1>3. CASE Bootstrap \/ RefusedAdoption \/ Touch
  BY <1>1, <1>3, <1>p, <1>r
     DEF Bootstrap, RefusedAdoption, Touch, Directly, Quiet, hostVars, Thrown
<1>4. CASE Generate \/ Stream \/ JoinRequest \/ Quiesce
  BY <1>1, <1>4, <1>p, <1>r DEF Generate, Stream, JoinRequest, Quiesce, Quiet, hostVars, Thrown
<1>5. CASE DrainByHand \/ CycleEnds
  BY <1>1, <1>5, <1>p, <1>r DEF DrainByHand, Pause, CycleEnds, Quiet, hostVars, Thrown
<1>6. ~(Admit \/ Finish \/ Mismatch \/ Abandon \/ Look \/ Join)
  BY <1>1 DEF Admit, Finish, Mismatch, Abandon, Look, Join
<1>7. ~(CallCycle \/ Check \/ Verdict)
  BY <1>1 DEF CallCycle, Check, Record, Verdict, runVars
<1>8. CASE JoinHot
  <2>1. Now("join hot")
    BY <1>8 DEF JoinHot
  <2>2. Belongs(script, "join hot")
    BY <1>0, <2>1, StepBelongs
  <2>3. script \notin InProcess
    BY <2>2 DEF Belongs
  <2>4. (Leave(1) /\ UNCHANGED report) \/ (Written /\ Quit(3))
    BY <1>1, <1>8, <1>r DEF JoinHot, hostVars
  <2> QED
    BY <1>p, <2>3, <2>4 DEF Thrown, Forced
<1>9. CASE Hang
  <2>1. Now("hang")
    BY <1>9 DEF Hang
  <2>2. Belongs(script, "hang")
    BY <1>0, <2>1, StepBelongs
  <2>3. script \notin InProcess
    BY <2>2 DEF Belongs, Killers, InProcess
  <2>4. Written /\ (Quit(2) \/ (verdict /\ Quit(0)))
    BY <1>1, <1>9 DEF Hang
  <2> QED
    BY <1>p, <2>3, <2>4 DEF Forced
<1>10. CASE Return
  BY <1>10, <1>p DEF Return, Returned, Quiet, hostVars
<1>11. CASE Interrupt \/ CallFails
  BY <1>11, <1>p, <1>r DEF Interrupt, CallFails, Thrown, Quiet, hostVars
<1>12. CASE \E c \in {1, Interrupted} : NotReady(c)
  BY <1>12, <1>p DEF NotReady, Thrown
<1>13. ~(WriteReport \/ StopServer)
  BY DEF WriteReport, StopServer
<1>14. ~(Cycling \/ RequestEnds \/ ThreadReleases \/ Crash)
  BY DEF Cycling, RequestEnds, ThreadReleases, Crash, runVars
<1> QED
  BY <1>2, <1>3, <1>4, <1>5, <1>6, <1>7, <1>8, <1>9, <1>10, <1>11, <1>12, <1>13, <1>14
     DEF XNext, Main, Around

(* While the scenario runs nobody writes a report.                         *)
LEMMA ReportWaits ==
  ASSUME Base, XNext, stage = "run", stage' = "run"
  PROVE  UNCHANGED report
<1>1. ASSUME NEW c PROVE ~(Leave(c) \/ Quit(c))
  BY <1>1 DEF Leave, Quit
<1>2. ~Raise
  BY <1>1 DEF Raise
<1> USE DEF Quiet, hostVars
<1>3. CASE Launch \/ Ready \/ Kill \/ Stop \/ NewController \/ Seed \/ Inject \/ Bootstrap
  BY <1>3 DEF Launch, Ready, Kill, Dies, Stop, NewController, Seed, Inject, Bootstrap
<1>4. CASE RefusedAdoption \/ Touch \/ Generate \/ Admit \/ Stream \/ Finish \/ JoinRequest
  BY <1>4 DEF RefusedAdoption, Touch, Directly, Generate, Admit, Stream, Finish, JoinRequest
<1>5. CASE DrainByHand \/ Quiesce \/ Mismatch \/ Abandon \/ CallCycle \/ CycleEnds
  BY <1>5 DEF DrainByHand, Pause, Quiesce, Mismatch, Abandon, CallCycle, CycleEnds
<1>6. CASE Look \/ Join \/ JoinHot \/ Check \/ Verdict \/ Hang
  BY <1>1, <1>2, <1>6 DEF Look, Join, JoinHot, Check, Verdict, Hang
<1>7. ~(Return \/ Interrupt \/ CallFails \/ WriteReport \/ StopServer)
      /\ \A c \in {1, Interrupted} : ~NotReady(c)
  BY <1>1, <1>2 DEF Return, Interrupt, CallFails, WriteReport, StopServer, NotReady
<1>8. CASE Cycling \/ RequestEnds \/ ThreadReleases \/ Crash
  BY <1>8 DEF Cycling, RequestEnds, ThreadReleases, Crash, Dies
<1> QED
  BY <1>3, <1>4, <1>5, <1>6, <1>7, <1>8 DEF XNext, Main, Around

(* The report says what the verdict says.                                  *)
LEMMA ReportedStep ==
  ASSUME Base, Base', XNext, Reported
  PROVE  Reported'
<1>0. XTypeOK /\ XTypeOK' /\ UNCHANGED script
  BY DEF Base, XNext
<1> USE DEF Running, Interrupted
<1>1. CASE stage = "run" /\ stage' = "run"
  <2>1. report' # "green" /\ code' = 99
    BY <1>0, <1>1, ReportWaits DEF Reported, XTypeOK
  <2> QED
    BY <1>1, <2>1 DEF Reported
<1>2. CASE stage = "run" /\ stage' # "run"
  <2>1. UNCHANGED verdict /\ report # "green"
    BY <1>2, Leaving DEF Reported
  <2>2. CASE Thrown
    BY <1>0, <1>2, <2>1, <2>2 DEF Thrown, Leave, Quit, Reported
  <2>3. CASE Returned
    BY <1>0, <1>2, <2>1, <2>3 DEF Returned, Return, Leave, Reported
  <2>4. CASE Forced
    BY <1>0, <1>2, <2>1, <2>4 DEF Forced, Written, Quit, Reported
  <2> QED
    BY <1>2, <2>2, <2>3, <2>4, Leaving
<1>3. CASE stage # "run"
  <2>1. CASE Cycling
    <3>1. UNCHANGED <<report, verdict, stage, code>>
      BY <2>1, Cycles DEF runVars, hostVars
    <3> QED
      BY <1>0, <3>1 DEF Reported
  <2>2. CASE WriteReport
    BY <1>0, <2>2 DEF WriteReport, Written, Reported, XTypeOK
  <2>3. CASE StopServer
    BY <1>0, <2>3 DEF StopServer, Reported, XTypeOK
  <2> QED
    BY <1>3, <2>1, <2>2, <2>3, AfterRun
<1> QED
  BY <1>1, <1>2, <1>3

-----------------------------------------------------------------------------
(* In process nothing fails: no step of the demo raises, and no check of   *)
(* it is false.                                                            *)

Adoptable == eng.up /\ eng.label = Unmanaged /\ faults = {}
Untroubled(a) ==
    /\ a \in {"seed", "bootstrap", "cycle", "admit", "try", "fault finish", "fault caches",
              "fault any", "owned", "refused", "release", "assert"} \cup Checks
    /\ a = "bootstrap" => Adoptable
    /\ a \in {"owned", "release"} => eng.up
    /\ a = "refused" => eng.up /\ eng.label = 2 /\ faults = {}
    /\ a = "cycle" => at # "raised"
    /\ a \in Checks => DemoHolds(a)

(* By its trail no step of the demo is in trouble ...                      *)
LEMMA DemoUntroubled ==
  ASSUME Base, script = "demo", DemoTrail, NEW a, Now(a)
  PROVE  Untroubled(a)
<1>0. pc \in 1..26 /\ a = Demo[pc]
  <2>1. Scenario[script] = Demo
    BY DEF Scenario
  <2>2. script \in Scripts /\ XTypeOK
    BY DEF Base
  <2>3. pc \in 1..Len(Demo) /\ Demo[pc] = a
    BY <2>1, <2>2, At
  <2> QED
    BY <2>3, DemoSteps
<1>1. CASE pc = 1 \/ pc = 3 \/ pc = 5 \/ pc = 7 \/ pc = 8 \/ pc = 10
  <2>1. a \in {"seed", "cycle", "admit", "try"}
    BY <1>0, <1>1, DemoSteps
  <2>2. a = "cycle" => pc = 3
    BY <1>0, <1>1, DemoSteps
  <2>3. DemoGenerations
    BY DEF DemoTrail
  <2>4. pc = 3 => at # "raised"
    BY <2>3 DEF DemoGenerations
  <2> QED
    BY <2>1, <2>2, <2>4 DEF Untroubled, Checks
<1>2. CASE pc = 12 \/ pc = 13 \/ pc = 15 \/ pc = 17 \/ pc = 18 \/ pc = 20 \/ pc = 26
  <2>1. a \in {"seed", "fault finish", "try", "fault caches", "assert"}
    BY <1>0, <1>2, DemoSteps
  <2> QED
    BY <2>1 DEF Untroubled, Checks
<1>3. CASE pc = 2 \/ pc = 6 \/ pc = 11 \/ pc = 16
  <2>1. a = "bootstrap"
    BY <1>0, <1>3, DemoSteps
  <2>2. Seeded
    BY <1>3 DEF DemoTrail, DemoGenerations, DemoDisagreement, DemoFinalize, DemoLabel
  <2> QED
    BY <2>1, <2>2 DEF Untroubled, Adoptable, Seeded, Checks
<1>4. CASE pc = 21 \/ pc = 22 \/ pc = 23 \/ pc = 24
  <2>1. DemoAdoption
    BY DEF DemoTrail
  <2>2. CASE pc = 21
    <3>1. a = "owned" /\ Seeded
      BY <1>0, <2>1, <2>2, DemoSteps DEF DemoAdoption
    <3> QED
      BY <3>1 DEF Untroubled, Seeded, Checks
  <2>3. CASE pc = 22
    <3>1. a = "refused" /\ Unadopted(2)
      BY <1>0, <2>1, <2>3, DemoSteps DEF DemoAdoption
    <3> QED
      BY <3>1 DEF Untroubled, Unadopted, Checks
  <2>4. CASE pc = 23
    <3>1. a = "release" /\ Unadopted(2)
      BY <1>0, <2>1, <2>4, DemoSteps DEF DemoAdoption
    <3> QED
      BY <3>1 DEF Untroubled, Unadopted, Checks
  <2>5. CASE pc = 24
    <3>1. a = "bootstrap" /\ Unadopted(Unmanaged)
      BY <1>0, <2>1, <2>5, DemoSteps DEF DemoAdoption
    <3> QED
      BY <3>1 DEF Untroubled, Unadopted, Adoptable, Checks
  <2> QED
    BY <1>4, <2>2, <2>3, <2>4, <2>5
<1>5. CASE pc = 4
  <2>1. a = "check two generations" /\ Committed(1) /\ current.identity = ModelB
    BY <1>0, <1>5, DemoSteps DEF DemoTrail, DemoGenerations
  <2> QED
    BY <2>1 DEF Untroubled, DemoHolds, Checks
<1>6. CASE pc = 9
  <2>1. a = "check disagreement" /\ Committed(0) /\ eng.paused /\ orphaned # NoRollouts
    BY <1>0, <1>6, DemoSteps DEF DemoTrail, DemoDisagreement
  <2> QED
    BY <2>1 DEF Untroubled, DemoHolds, Checks
<1>7. CASE pc = 14
  <2>1. a = "check finalize" /\ Committed(0) /\ eng.paused /\ Reports(0)
    BY <1>0, <1>7, DemoSteps DEF DemoTrail, DemoFinalize
  <2> QED
    BY <2>1 DEF Untroubled, DemoHolds, Checks
<1>8. CASE pc = 19
  <2>1. a = "check label" /\ Committed(0) /\ eng.paused /\ Reports(1)
    BY <1>0, <1>8, DemoSteps DEF DemoTrail, DemoLabel, LabelFailed
  <2> QED
    BY <2>1 DEF Untroubled, DemoHolds, Checks
<1>9. CASE pc = 25
  <2>1. a = "check adopted" /\ state = "READY" /\ Reports(0)
    BY <1>0, <1>9, DemoSteps DEF DemoTrail, DemoAdoption
  <2> QED
    BY <2>1 DEF Untroubled, DemoHolds, Checks
<1> QED
  BY <1>0, <1>1, <1>2, <1>3, <1>4, <1>5, <1>6, <1>7, <1>8, <1>9

(* ... and none of a fault test.                                           *)
LEMMA TestsUntroubled ==
  ASSUME Base, script = "tests", TestsTrail, NEW a, Now(a)
  PROVE  Untroubled(a)
<1>0. pc \in 1..5 /\ a = FaultTest[pc]
  <2>1. Scenario[script] = FaultTest /\ Len(FaultTest) = 5
    BY DEF Scenario, FaultTest
  <2>2. script \in Scripts /\ XTypeOK
    BY DEF Base
  <2> QED
    BY <2>1, <2>2, At
<1>1. a \in {"seed", "bootstrap", "fault any", "try", "assert"} /\ (a = "bootstrap" => pc = 2)
  <2>1. pc = 1 \/ pc = 2 \/ pc = 3 \/ pc = 4 \/ pc = 5
    BY <1>0
  <2>2. /\ FaultTest[1] = "seed" /\ FaultTest[2] = "bootstrap" /\ FaultTest[3] = "fault any"
        /\ FaultTest[4] = "try" /\ FaultTest[5] = "assert"
    BY DEF FaultTest
  <2> QED
    BY <1>0, <2>1, <2>2
<1>2. a = "bootstrap" => Seeded
  BY <1>1 DEF TestsTrail
<1>3. a = "bootstrap" => Adoptable
  BY <1>2 DEF Seeded, Adoptable
<1> QED
  BY <1>1, <1>3 DEF Untroubled, Checks

(* Such a script ends by its last step or an interrupt.                    *)
LEMMA NothingRaises ==
  ASSUME EveryGeneration, Base, XNext, script \in InProcess, stage = "run", stage' # "run",
         \A a : Now(a) => Untroubled(a)
  PROVE  Return \/ Interrupt
<1>r. ~Remote /\ eng \in Engines
  BY DEF Base, Local, XTypeOK
<1>1. ~Go
  BY DEF Go, Record
<1> DEFINE NotHere == {"generate", "stream", "join request", "redrain", "poll", "short drain",
                       "drain", "join hot", "hang", "serve", "reset", "reopen", "out of band"}
<1>2. ASSUME NEW a \in NotHere PROVE ~Now(a)
  <2>1. ~Untroubled(a)
    BY DEF Untroubled, Checks
  <2> QED
    BY <2>1
<1>3. ~(Launch \/ Ready \/ Kill \/ Stop \/ NewController \/ Seed \/ Inject)
  BY <1>1 DEF Launch, Ready, Kill, Stop, NewController, Seed, Inject, runVars
<1>4. ~Bootstrap
  <2> SUFFICES ASSUME Bootstrap PROVE FALSE
    OBVIOUS
  <2>1. Now("bootstrap") /\ BootstrapRaises(script # "smoke")
    BY <1>1 DEF Bootstrap
  <2>2. Adoptable
    BY <2>1 DEF Untroubled
  <2> QED
    BY <1>r, <2>1, <2>2, LabelAssumption DEF BootstrapRaises, Refused, Raises, Answers, Adoptable
<1>5. ~RefusedAdoption
  <2> SUFFICES ASSUME RefusedAdoption PROVE FALSE
    OBVIOUS
  <2>1. Now("refused") /\ ~Refused
    BY <1>1 DEF RefusedAdoption
  <2>2. eng.up /\ eng.label = 2 /\ faults = {}
    BY <2>1 DEF Untroubled
  <2> QED
    BY <2>1, <2>2 DEF Refused, Answers, EveryGeneration
<1>6. ~Touch
  <2> SUFFICES ASSUME Touch PROVE FALSE
    OBVIOUS
  <2>1. ~Now("reset") /\ ~Now("reopen") /\ ~Now("out of band")
    BY <1>2
  <2>2. (Now("owned") \/ Now("release")) /\ ~eng.up
    BY <1>1, <1>r, <2>1 DEF Touch, Directly
  <2> QED
    BY <2>2 DEF Untroubled
<1>7. ~CycleEnds
  <2> SUFFICES ASSUME CycleEnds PROVE FALSE
    OBVIOUS
  <2>1. Now("cycle") /\ at = "raised"
    BY <1>1 DEF CycleEnds
  <2> QED
    BY <2>1 DEF Untroubled
<1>8. ~(Generate \/ Stream \/ JoinRequest \/ DrainByHand \/ Quiesce \/ JoinHot \/ Hang)
  <2>1. /\ ~Now("generate") /\ ~Now("stream") /\ ~Now("join request") /\ ~Now("redrain")
        /\ ~Now("poll") /\ ~Now("short drain")
    BY <1>2
  <2>2. ~Now("drain") /\ ~Now("join hot") /\ ~Now("hang")
    BY <1>2
  <2> QED
    BY <2>1, <2>2 DEF Generate, Stream, JoinRequest, DrainByHand, Quiesce, JoinHot, Hang
<1>9. \A c \in {1, Interrupted} : ~NotReady(c)
  BY <1>2 DEF NotReady
<1>10. ~(Admit \/ Finish \/ Mismatch \/ Abandon \/ Look \/ Join)
  BY <1>1 DEF Admit, Finish, Mismatch, Abandon, Look, Join
<1>11. ~(CallCycle \/ Check \/ Verdict \/ WriteReport \/ StopServer)
  BY <1>1 DEF CallCycle, Check, Record, Verdict, WriteReport, StopServer, runVars
<1>12. ~(Cycling \/ RequestEnds \/ ThreadReleases \/ Crash)
  BY DEF Cycling, RequestEnds, ThreadReleases, Crash, runVars
<1>13. ~CallFails
  BY <1>r DEF CallFails
<1> QED
  BY <1>3, <1>4, <1>5, <1>6, <1>7, <1>8, <1>9, <1>10, <1>11, <1>12, <1>13 DEF XNext, Main, Around

(* The demo and the fault tests hold.                                      *)
LEMMA InProcessStep ==
  ASSUME EveryGeneration, Base, Base', Closed, XNext, Earned, script \in InProcess
  PROVE  good' /\ stage' \in {"run", "exit"} /\ code' \in {Running, 0, Interrupted}
<1>0. /\ stage = "run" /\ good /\ Trail /\ script \in Scripts /\ XTypeOK /\ XTypeOK'
  BY ExitIsFinal DEF Earned, Base
<1>1. ASSUME NEW a, Now(a) PROVE Untroubled(a)
  <2>1. CASE script = "demo"
    <3>1. DemoTrail
      BY <1>0, <2>1 DEF Trail, Rolling
    <3> QED
      BY <1>1, <2>1, <3>1, DemoUntroubled
  <2>2. CASE script = "tests"
    <3>1. TestsTrail
      BY <1>0, <2>2 DEF Trail, Rolling
    <3> QED
      BY <1>1, <2>2, <3>1, TestsUntroubled
  <2> QED
    BY <2>1, <2>2 DEF InProcess
<1>2. CASE stage' = "run"
  <2>1. code' = Running
    BY <1>0, <1>2 DEF XTypeOK
  <2>2. CASE Lingering
    BY <1>0, <1>2, <2>1, <2>2 DEF Lingering
  <2>3. CASE Moving
    <3>1. Now(Here) /\ Keeps(Here) /\ Does(Here)
      BY <1>0, <2>3 DEF Moving, Now, Here, XTypeOK
    <3>2. CASE Here \in Checks
      <4>1. DemoHolds(Here)
        BY <1>1, <3>1, <3>2 DEF Untroubled
      <4>2. Holds(Here)
        BY <4>1 DEF Holds
      <4> QED
        BY <1>0, <1>2, <2>1, <3>1, <3>2, <4>2 DEF Does
    <3>3. CASE Here \notin Checks
      BY <1>0, <1>2, <2>1, <3>1, <3>3 DEF Keeps
    <3> QED
      BY <3>2, <3>3
  <2> QED
    BY <1>0, <1>2, <2>2, <2>3, Moved
<1>3. CASE stage' # "run"
  <2>1. Return \/ Interrupt
    BY <1>0, <1>1, <1>3, NothingRaises
  <2> QED
    BY <1>0, <2>1 DEF Return, Interrupt, Leave
<1> QED
  BY <1>2, <1>3

(* Behind the verdict there is at most the hang, and the way out.          *)
LEMMA LastLeaves ==
  ASSUME Base, XNext, AtEnd \/ AtStep({"hang"}), stage' # "run"
  PROVE  UNCHANGED <<vars, stackVars, noteVars>>
<1>0. script \in Scripts /\ XTypeOK /\ stage = "run" /\ pc \in Nat
  BY DEF Base, XTypeOK, AtEnd, AtStep
<1>1. ASSUME NEW a, Now(a) PROVE a = "hang"
  BY <1>0, <1>1, Position DEF AtEnd, AtStep, Now
<1>2. ~(Launch \/ Ready \/ Kill \/ Stop \/ NewController \/ Seed \/ Inject)
  BY <1>1 DEF Launch, Ready, Kill, Stop, NewController, Seed, Inject
<1>3. ~(Bootstrap \/ RefusedAdoption \/ Touch \/ Generate \/ Admit \/ Stream \/ Finish)
  BY <1>1 DEF Bootstrap, RefusedAdoption, Touch, Generate, Admit, Stream, Finish
<1>4. ~(JoinRequest \/ DrainByHand \/ Quiesce \/ Mismatch \/ Abandon \/ CallCycle)
  BY <1>1 DEF JoinRequest, DrainByHand, Quiesce, Mismatch, Abandon, CallCycle
<1>5. ~(CycleEnds \/ Look \/ Join \/ JoinHot \/ Verdict)
  BY <1>1 DEF CycleEnds, Look, Join, JoinHot, Verdict
<1>6. ~Check
  <2>1. "hang" \notin Checks
    BY DEF Checks
  <2> QED
    BY <1>1, <2>1 DEF Check
<1>7. ~(WriteReport \/ StopServer) /\ \A c \in {1, Interrupted} : ~NotReady(c)
  BY <1>0, <1>1 DEF WriteReport, StopServer, NotReady
<1>8. ~(Cycling \/ RequestEnds \/ ThreadReleases \/ Crash)
  BY <1>0 DEF Cycling, RequestEnds, ThreadReleases, Crash, runVars
<1>9. CASE Hang \/ Return \/ Interrupt \/ CallFails
  BY <1>9 DEF Hang, Return, Interrupt, CallFails, Quiet
<1> QED
  BY <1>2, <1>3, <1>4, <1>5, <1>6, <1>7, <1>8, <1>9 DEF XNext, Main, Around

(* A verdict is taken with every check passed, ...                         *)
LEMMA VerdictTaken ==
  ASSUME Base, XNext, stage = "run" => Trail, ~verdict, verdict'
  PROVE  Shown' /\ Settled' /\ (stage' = "run" => AtEnd' \/ AtStep({"hang"})')
<1>0. script \in Scripts /\ XTypeOK /\ UNCHANGED script /\ eng \in Engines
  BY DEF Base, XNext, XTypeOK
<1>1. stage = "run"
  <2>1. UNCHANGED verdict => FALSE
    OBVIOUS
  <2>2. ~Cycling
    BY <2>1, Cycles DEF runVars
  <2> QED
    BY <2>1, <2>2, AfterRun DEF WriteReport, StopServer
<1>2. stage' = "run"
  BY <1>1, Leaving
<1>3. Moving
  BY <1>1, <1>2, Moved DEF Lingering
<1>4. Keeps(Here) /\ Does(Here) /\ Now(Here) /\ pc' = pc + 1
  BY <1>0, <1>1, <1>3 DEF Moving, Now, Here, XTypeOK
<1>5. Here = "verdict"
  BY <1>4 DEF Keeps
<1>6. Now("verdict") /\ good
  BY <1>4, <1>5 DEF Does
<1>7. Shown /\ Settled
  BY <1>1, <1>6, VerdictShows
<1>8. UNCHANGED <<vars, eng, at, request, used, reused, diedIn>>
  BY <1>4, <1>5 DEF Keeps
<1>9. Shown' /\ Settled'
  BY <1>0, <1>7, <1>8, StillShown DEF vars
<1>10. AtEnd' \/ \E b \in Steps : AtStep({b})' /\ MayFollow(script, "verdict", b)
  BY <1>0, <1>1, <1>2, <1>4, <1>6, NextStep
<1> QED
  BY <1>9, <1>10 DEF MayFollow

(* ... and stays true of what the script claims.                           *)
LEMMA VerdictStands ==
  ASSUME Base, Closed, XNext, verdict, Shown, Settled,
         stage = "run" => AtEnd \/ AtStep({"hang"})
  PROVE  Shown' /\ Settled' /\ (stage' = "run" => AtEnd' \/ AtStep({"hang"})')
<1>0. /\ script \in Scripts /\ XTypeOK /\ UNCHANGED script /\ eng \in Engines /\ CallHolds
      /\ pc \in Nat
  BY DEF Base, XNext, XTypeOK, Closed
<1>1. CASE stage = "run" /\ stage' = "run"
  <2>1. CASE Lingering
    <3>1. ASSUME NEW a, Now(a) PROVE a = "hang"
      BY <1>0, <1>1, <3>1, Position DEF AtEnd, AtStep, Now
    <3>2. ~Launched /\ ~Started
      <4>1. ~Now("serve") /\ ~Now("cycle") /\ ~Now("try")
        BY <3>1
      <4> QED
        BY <4>1 DEF Launched, Started, AtStep, Now
    <3>3. UNCHANGED <<pc, reused>> /\ (Cycling \/ Passed)
      BY <2>1, <3>2 DEF Lingering
    <3>4. Shown' /\ Settled'
      BY <1>0, <3>3, CyclingShown, PassedShown
    <3>5. AtEnd' \/ AtStep({"hang"})'
      BY <1>0, <1>1, <3>3 DEF AtEnd, AtStep
    <3> QED
      BY <3>4, <3>5
  <2>2. CASE Moving
    <3>1. Keeps(Here) /\ Now(Here) /\ pc' = pc + 1 /\ pc \in 1..Len(Scenario[script])
      BY <1>0, <1>1, <2>2 DEF Moving, Now, Here, XTypeOK
    <3>2. Here = "hang" /\ Now("hang")
      BY <1>0, <1>1, <3>1, Position DEF AtEnd, AtStep, Here
    <3>3. UNCHANGED <<vars, eng, at, request, used, reused, diedIn>>
      BY <3>1, <3>2 DEF Keeps
    <3>4. Shown' /\ Settled'
      BY <1>0, <3>3, StillShown DEF vars
    <3>5. AtEnd' \/ \E b \in Steps : AtStep({b})' /\ MayFollow(script, "hang", b)
      BY <1>0, <1>1, <3>1, <3>2, NextStep
    <3> QED
      BY <3>4, <3>5 DEF MayFollow
  <2> QED
    BY <1>1, <2>1, <2>2, Moved
<1>2. CASE stage = "run" /\ stage' # "run"
  <2>1. UNCHANGED <<vars, stackVars, noteVars>>
    BY <1>2, LastLeaves
  <2> QED
    BY <1>0, <1>2, <2>1, StillShown DEF vars, stackVars, noteVars
<1>3. CASE stage # "run"
  <2>1. CASE Cycling
    <3>1. UNCHANGED stage
      BY <2>1, Cycles DEF runVars
    <3> QED
      BY <1>0, <1>3, <2>1, <3>1, CyclingShown
  <2>2. CASE WriteReport
    BY <1>0, <2>2, StillShown DEF WriteReport, vars, stackVars, noteVars
  <2>3. CASE StopServer
    BY <1>0, <2>3, StillShown DEF StopServer, Terminate, SameCycle, vars, noteVars
  <2> QED
    BY <1>3, <2>1, <2>2, <2>3, AfterRun
<1> QED
  BY <1>1, <1>2, <1>3

(* The initial states.                                                     *)
LEMMA EarnedInit == XInit => Earned
<1> SUFFICES ASSUME XInit PROVE Earned
  OBVIOUS
<1>1. Reported
  BY DEF XInit, Reported, Running
<1>2. script \in Scripts /\ pc = 1 /\ ~verdict /\ good /\ stage = "run" /\ code = Running
  BY DEF XInit
<1>3. Trail
  <2>1. /\ at = "idle" /\ request = "none" /\ active = NoRollouts /\ used = {}
        /\ eng.weights = "loaded" /\ eng.kv = None /\ ~reused
    BY DEF XInit, SInit, Init, FreshEngine
  <2>2. script \in Rolling => RollTrail
    <3>1. Leg = 1
      BY <1>2 DEF Leg
    <3>2. AtMostOneActive
      BY <2>1 DEF AtMostOneActive, NoRollouts
    <3>3. RollEngine
      BY <2>1, <3>1 DEF RollEngine
    <3>4. RollRequest
      BY <2>1, <3>1, <3>2 DEF RollRequest
    <3> QED
      BY <3>3, <3>4 DEF RollTrail
  <2>3. CacheTrail /\ FailuresTrail
    BY <1>2, <2>1 DEF CacheTrail, FailuresTrail
  <2>4. SmokeTrail /\ TestsTrail
    BY <1>2, <2>1 DEF SmokeTrail, TestsTrail
  <2>5. UpdateKillTrail
    BY <1>2 DEF UpdateKillTrail
  <2>6. BenchmarkTrail
    BY <1>2, <2>1 DEF BenchmarkTrail
  <2>7. DemoTrail
    BY <1>2 DEF DemoTrail, DemoGenerations, DemoDisagreement, DemoFinalize, DemoLabel,
                DemoAdoption
  <2>8. script \in Rolling \cup {"cache", "smoke", "failures", "updatekill", "benchmark",
                                 "demo", "tests"}
    BY <1>2 DEF Scripts, Scenario, Rolling
  <2> QED
    BY <2>2, <2>3, <2>4, <2>5, <2>6, <2>7, <2>8 DEF Trail
<1> QED
  BY <1>1, <1>2, <1>3 DEF Earned

(* A stuttering step keeps the trail.                                      *)
LEMMA TrailKept ==
  ASSUME UNCHANGED <<state, current, active, orphaned, taintedIn>>,
         UNCHANGED <<eng, faults, at, aim, request, used>>,
         UNCHANGED <<script, pc, good, proc, sample, reused, seen, hung, diedIn>>,
         script \in Scripts
  PROVE  Trail => Trail'
<1>1. /\ Unhindered => Unhindered'
      /\ Mutating => Mutating'
      /\ Seeded => Seeded'
      /\ Booted => Booted'
      /\ \A v : Committed(v) => Committed(v)'
      /\ \A v : Committed(v)' => Committed(v)
      /\ \A v : Reports(v) => Reports(v)'
  BY DEF Unhindered, Mutating, Struck, Seeded, Booted, Committed, Reports
<1>2. \A calls : Attempt(calls) => Attempt(calls)'
  BY DEF Attempt, Committed
<1>3. RollTrail => RollTrail'
  <2>1. UNCHANGED Leg /\ (AtMostOneActive => AtMostOneActive')
    BY DEF Leg, AtMostOneActive
  <2>2. RollEngine => RollEngine'
    BY <1>1, <2>1 DEF RollEngine
  <2>3. RollRequest => RollRequest'
    BY <2>1 DEF RollRequest
  <2> QED
    BY <2>2, <2>3 DEF RollTrail
<1>4. CacheTrail => CacheTrail'
  BY <1>1 DEF CacheTrail
<1>5. SmokeTrail => SmokeTrail'
  BY <1>1 DEF SmokeTrail
<1>6. FailuresTrail => FailuresTrail'
  BY <1>1 DEF FailuresTrail
<1>7. UpdateKillTrail => UpdateKillTrail'
  BY <1>1 DEF UpdateKillTrail
<1>8. BenchmarkTrail => BenchmarkTrail'
  BY <1>1 DEF BenchmarkTrail
<1>9. DemoGenerations => DemoGenerations'
  BY <1>1 DEF DemoGenerations
<1>10. DemoDisagreement => DemoDisagreement'
  BY <1>1, <1>2 DEF DemoDisagreement
<1>11. DemoFinalize => DemoFinalize'
  BY <1>1, <1>2 DEF DemoFinalize
<1>12. DemoLabel => DemoLabel'
  BY <1>1, <1>2 DEF DemoLabel, LabelAttempt, LabelFailed, Relabelled
<1>13. DemoAdoption => DemoAdoption'
  BY <1>1 DEF DemoAdoption, Unadopted
<1>14. DemoTrail => DemoTrail'
  BY <1>9, <1>10, <1>11, <1>12, <1>13 DEF DemoTrail
<1>15. TestsTrail => TestsTrail'
  BY <1>1 DEF TestsTrail
<1> QED
  BY <1>3, <1>4, <1>5, <1>6, <1>7, <1>8, <1>14, <1>15 DEF Trail, Rolling, Scripts, Scenario

(* Every step keeps what the script has shown.                             *)
LEMMA EarnedStep ==
  ASSUME EveryGeneration, Base, Closed, Earned, [XNext]_xvars
  PROVE  Earned'
<1>1. CASE XNext
  <2>1. Base' /\ UNCHANGED script
    BY <1>1, BaseStep DEF XNext
  <2>2. Reported'
    BY <1>1, <2>1, ReportedStep DEF Earned
  <2>3. stage' = "run" => Trail'
    <3>1. stage' = "run" => stage = "run"
      <4>1. stage # "run" => stage' # "run"
        BY <1>1, AfterRun, Cycles DEF WriteReport, StopServer, runVars
      <4> QED
        BY <4>1
    <3> QED
      BY <1>1, <3>1, TrailStep DEF Earned
  <2>4. verdict' => Shown' /\ Settled' /\ (stage' = "run" => AtEnd' \/ AtStep({"hang"})')
    <3>1. CASE verdict
      <4>1. Shown /\ Settled /\ (stage = "run" => AtEnd \/ AtStep({"hang"}))
        BY <3>1 DEF Earned
      <4> QED
        BY <1>1, <3>1, <4>1, VerdictStands
    <3>2. CASE ~verdict
      <4>1. stage = "run" => Trail
        BY DEF Earned
      <4> QED
        BY <1>1, <3>2, <4>1, VerdictTaken
    <3> QED
      BY <3>1, <3>2
  <2>5. script \in InProcess =>
            good' /\ stage' \in {"run", "exit"} /\ code' \in {Running, 0, Interrupted}
    BY <1>1, <2>1, InProcessStep
  <2> QED
    BY <2>1, <2>2, <2>3, <2>4, <2>5 DEF Earned
<1>2. CASE UNCHANGED xvars
  <2>1. /\ UNCHANGED <<state, current, active, orphaned, taintedIn>>
        /\ UNCHANGED <<eng, faults, at, aim, request, used>>
        /\ UNCHANGED <<script, pc, stage, good, verdict, code, proc, report>>
        /\ UNCHANGED <<sample, reused, seen, hung, diedIn>>
    BY <1>2 DEF xvars, vars, stackVars, runVars, hostVars, noteVars
  <2>2. Reported => Reported'
    BY <2>1 DEF Reported
  <2>3. Trail => Trail'
    BY <2>1, TrailKept DEF Base
  <2>4. AtEnd \/ AtStep({"hang"}) => AtEnd' \/ AtStep({"hang"})'
    BY <2>1 DEF AtEnd, AtStep
  <2>5. Shown /\ Settled => Shown' /\ Settled'
    BY <2>1, StillShown DEF Base, XTypeOK
  <2> QED
    BY <2>1, <2>2, <2>3, <2>4, <2>5 DEF Earned
<1> QED
  BY <1>1, <1>2

(* What a script has shown, at every step, is inductive on top of the two  *)
(* layers below it.                                                        *)
THEOREM EarnedInductive ==
  ASSUME EveryGeneration
  PROVE  XSpec => [](Base /\ Closed /\ Earned)
<1>1. Base /\ Closed /\ Earned /\ [XNext]_xvars => (Base /\ Closed /\ Earned)'
  BY BaseStep, ClosedStep, EarnedStep
<1> QED
  BY BaseInit, ClosedInit, EarnedInit, <1>1, PTL DEF XSpec

(* What the script has shown is what a PASS is.                            *)
LEMMA EarnedSuffices == Earned => PassIsEarned
<1> SUFFICES ASSUME Earned PROVE PassIsEarned
  OBVIOUS
<1>1. report = "green" => Shown
  BY DEF Earned, Reported
<1>2. code = 0 => Shown
  <2>1. code = 0 /\ script \notin InProcess => Shown
    BY DEF Earned, Reported
  <2>2. script \in InProcess => Shown
    BY DEF Shown, InProcess
  <2> QED
    BY <2>1, <2>2
<1>3. stage = "exit" /\ code = 0 /\ script \notin InProcess => report = "green"
  BY DEF Earned, Reported
<1>4. script \in InProcess => good /\ code # 1
  BY DEF Earned, Running, Interrupted
<1> QED
  BY <1>1, <1>2, <1>3, <1>4 DEF PassIsEarned

(* A PASS is earned: behind a green report, or an exit code of 0, is what  *)
(* the script is for (Shown), whatever died, hung, was interrupted or,     *)
(* over HTTP, failed with or without its effect on the way; an exit code   *)
(* of 0 comes with a green report of this run; and no run of the demo or   *)
(* of the fault tests fails.  Of the benchmark's kill Shown is less than   *)
(* its check says, and as much as is true (see PassIsEarned).              *)
THEOREM PassesAreEarned ==
  ASSUME EveryGeneration
  PROVE  XSpec => []PassIsEarned
  BY EarnedInductive, EarnedSuffices, PTL

=============================================================================
