---------------------------- MODULE Experiments -----------------------------
(***************************************************************************)
(* The programs that exercise RolloutCore from outside: the demo on the    *)
(* fake engine, the control-plane smoke and the GPU diagnostics.  Each     *)
(* launches an engine, takes a controller through a scenario, records      *)
(* checks, and ends with a verdict, a report on disk and an exit code; on  *)
(* the way the engine may die at any moment, by the script's own SIGKILL   *)
(* or by itself, and the user may interrupt.                               *)
(*                                                                         *)
(* A scenario is a sequence of steps (Scenario).  The main thread takes    *)
(* them in order; a cycle is the calls of ServingStack, and a step that    *)
(* waits for it takes its outcome.  "spawn" runs the cycle in a thread of  *)
(* its own, next to the main thread.  A rollout admitted and released with *)
(* nothing in between is left out.  A check names a set of facts (Holds);  *)
(* an exception ends the scenario.  Trainer loading, environment capture,  *)
(* timings and printing are left out.                                      *)
(***************************************************************************)
EXTENDS ServingStack, Sequences

VARIABLES
    script,      \* the program that runs
    pc,          \* its next step
    stage,       \* "run", "finally" (the report), "stop" (the server), "exit"
    proc,        \* the process `vllm serve`: "gone" when stopped, "ended" by itself
    workers,     \* its engine-core children hold the GPU
    good,        \* every check recorded so far passed
    verdict,     \* report["ok"]
    code,        \* the exit code the script is going to have
    report,      \* the report file: "earlier" is that of an earlier run
    writeFailed, \* the report could not be written
    sample,      \* the weights behind the last generation
    reused,      \* ghost: a generation was served KV of other weights
    seen,        \* state_at_kill: the controller's state as last read; or that the
                 \* short drain has failed and its abort was seen
    hung,        \* the cycle's thread was alive when the wait for it ended
    diedIn       \* ghost: the controller's state when the engine died

runVars  == <<pc, stage, good, verdict, code>>
hostVars == <<proc, workers, report, writeFailed>>
noteVars == <<sample, reused, seen, hung, diedIn>>
xvars    == <<vars, stackVars, script, runVars, hostVars, noteVars>>

(* diedIn is a state of the controller, or None while nothing has died.    *)
ASSUME NoStateAssumption == None \notin LifecycleState

(* The code of a script that has not ended, and of one the user interrupts. *)
Running     == 99
Interrupted == 130

-----------------------------------------------------------------------------
(* The scenarios.                                                          *)

Demo ==
    <<"seed", "bootstrap", "cycle", "check two generations",
      "seed", "bootstrap", "admit", "try", "check disagreement",
      "seed", "bootstrap", "fault finish", "try", "check finalize",
      "seed", "bootstrap", "fault caches", "try", "check label",
      "seed", "owned", "refused", "release", "bootstrap", "check adopted", "assert">>

(* The shape of the fault tests of tests/test_cycle.py.                    *)
FaultTest == <<"seed", "bootstrap", "fault any", "try", "assert">>

Smoke ==
    <<"serve", "bootstrap", "refused", "generate", "stream", "poll", "join request",
      "drain", "reset", "reopen", "generate", "abandon", "verdict">>

Cycle == <<"serve", "bootstrap", "generate", "cycle", "check installed", "verdict">>

Concurrency ==
    <<"serve", "bootstrap", "generate", "admit", "stream", "cycle", "join request",
      "check installed", "check old weights", "verdict">>

Cache ==
    <<"serve", "bootstrap", "generate", "check warm", "cycle", "check installed",
      "check cold", "generate", "check warm", "out of band", "generate", "verdict">>

FailuresDrain ==
    <<"serve", "bootstrap", "admit", "stream", "short drain", "join request", "finish",
      "check drain failed", "drain", "by hand", "cycle", "check installed">>

FailuresMismatch == <<"redrain", "drain", "mismatch", "refused", "check untouched", "reopen">>

FailuresDead ==
    <<"stop", "serve", "new controller", "bootstrap", "kill", "try", "check dead",
      "new controller", "try bootstrap", "try", "check refused">>

Failures ==
    FailuresDrain \o FailuresMismatch \o FailuresDead \o
    <<"serve", "new controller", "bootstrap", "check fresh", "verdict">>

UpdateKill ==
    <<"serve", "bootstrap", "cycle", "check committed", "generate",
      "spawn", "arm", "kill", "join", "check fail closed", "verdict", "hang">>

BenchmarkHot == <<"serve", "bootstrap", "generate", "spawn", "join hot", "check installed">>

BenchmarkRestart == <<"stop", "serve", "generate", "stop">>

BenchmarkKill ==
    <<"serve", "new controller", "bootstrap", "spawn", "arm", "aim", "kill", "join",
      "check kill landed">>

Benchmark == BenchmarkHot \o BenchmarkRestart \o BenchmarkKill \o <<"verdict", "hang">>

Scenario ==
    [demo |-> Demo, tests |-> FaultTest, smoke |-> Smoke, cycle |-> Cycle,
     concurrency |-> Concurrency, trajectory |-> Concurrency, cache |-> Cache,
     failures |-> Failures, updatekill |-> UpdateKill, benchmark |-> Benchmark]

Scripts == DOMAIN Scenario
InProcess == {"demo", "tests"}

(* _own_group and killpg; the others signal the leader only.               *)
KillsGroup == {"failures", "updatekill", "benchmark"}

(* The first server is started inside the try, so a report is written.     *)
ServesInTry == {"smoke", "benchmark"}

(* Every operation of a cycle the fake engine can be told to refuse.       *)
Faults ==
    {"pause", "start_weight_update", "update_weights", "finish_weight_update",
     "reset_prefix_cache", "get_weight_info", "resume", "blocks held"}

-----------------------------------------------------------------------------
(* Control.                                                                *)

XInit ==
    /\ SInit
    /\ script \in Scripts
    /\ faults = (IF script \in InProcess THEN {} ELSE {"network"})
    /\ pc = 1
    /\ stage = "run"
    /\ proc = "none"
    /\ workers = FALSE
    /\ good = TRUE
    /\ verdict = FALSE
    /\ code = Running
    /\ report = "earlier"
    /\ writeFailed = FALSE
    /\ sample = None
    /\ reused = FALSE
    /\ seen = "READY"
    /\ hung = FALSE
    /\ diedIn = None

Now(step) == stage = "run" /\ pc <= Len(Scenario[script]) /\ Scenario[script][pc] = step

(* The next step, with the check this one records.                         *)
Record(passed) ==
    /\ pc' = pc + 1
    /\ good' = (good /\ passed)
    /\ UNCHANGED <<stage, verdict, code>>

Go == Record(TRUE)

(* Out of the try: the handler, then the finally.                          *)
Leave(c) ==
    /\ stage' = IF script \in InProcess THEN "exit" ELSE "finally"
    /\ code' = c
    /\ UNCHANGED <<pc, good, verdict>>

Raise == Leave(1)

(* An exit without the finally: a failure before the try, and os._exit.    *)
Quit(c) ==
    /\ stage' = "exit"
    /\ code' = c
    /\ UNCHANGED <<pc, good, verdict>>

-----------------------------------------------------------------------------
(* The server process.                                                     *)

Launch ==
    /\ Now("serve")
    /\ proc # "booting"
    /\ proc' = "booting"
    /\ workers' = TRUE
    /\ eng' = FreshEngine(FALSE, None)
    /\ at' = "idle"
    /\ UNCHANGED <<vars, faults, aim, before, byHand, request, used, runVars, report,
                   writeFailed, noteVars>>

Ready ==
    /\ Now("serve")
    /\ proc = "booting"
    /\ proc' = "up"
    /\ eng' = [eng EXCEPT !.up = TRUE]
    /\ Go
    /\ UNCHANGED <<vars, faults, at, aim, before, byHand, request, used, workers, report,
                   writeFailed, noteVars>>

(* Terminate what the script started: the group when it owns one, else the *)
(* leader, whose children may or may not follow.  A leader already gone is *)
(* not looked behind.                                                      *)
Terminate ==
    /\ eng' = [eng EXCEPT !.up = FALSE]
    /\ IF proc \in {"booting", "up"}
       THEN /\ proc' = "gone"
            /\ workers' \in IF script \in KillsGroup THEN {FALSE} ELSE BOOLEAN
       ELSE UNCHANGED <<proc, workers>>

(* The handler of start_vllm_server stops what it started, on an interrupt *)
(* too.  The smoke watches the endpoint only and leaves it to its finally. *)
StopUnready ==
    \/ proc' = "ended" /\ workers' \in BOOLEAN
    \/ IF script = "smoke" THEN UNCHANGED <<proc, workers>> ELSE Terminate

FirstServe == \A i \in 1..(pc - 1) : Scenario[script][i] # "serve"

(* Mutant: nobody stops a server that is not ready in time.                *)
NotReady_Orphan(c) ==
    /\ Now("serve")
    /\ proc = "booting"
    /\ IF FirstServe /\ script \notin ServesInTry THEN Quit(c) ELSE Leave(c)
    /\ UNCHANGED <<vars, stackVars, hostVars, noteVars>>

(* It exits by itself, the deadline passes, or the user interrupts.        *)
NotReady(c) ==
    /\ Now("serve")
    /\ proc = "booting"
    /\ StopUnready
    /\ IF FirstServe /\ script \notin ServesInTry THEN Quit(c) ELSE Leave(c)
    /\ UNCHANGED <<vars, stackVars, report, writeFailed, noteVars>>

(* The end of the engine: its request fails with it.                       *)
Dies ==
    /\ eng' = [eng EXCEPT !.up = FALSE]
    /\ request' = IF request = "running" THEN "failed" ELSE request
    /\ diedIn' = IF eng.up THEN state ELSE diedIn
    /\ UNCHANGED <<vars, faults, at, aim, before, byHand, used, report, writeFailed,
                   sample, reused, seen, hung>>

Crash ==
    /\ stage = "run"
    /\ proc = "up"
    /\ proc' = "ended"
    /\ workers' \in BOOLEAN
    /\ Dies
    /\ UNCHANGED <<script, runVars>>

(* Mutant: the leader is signalled and not waited for.                     *)
Kill_Unawaited ==
    /\ Now("kill")
    /\ workers' = FALSE
    /\ Dies
    /\ Go
    /\ UNCHANGED proc

(* SIGKILL to the group, which outlives a leader that has ended.           *)
Kill ==
    /\ Now("kill")
    /\ proc' = "gone"
    /\ workers' = FALSE
    /\ Dies
    /\ Go

Stop ==
    /\ Now("stop")
    /\ Terminate
    /\ Go
    /\ UNCHANGED <<vars, faults, at, aim, before, byHand, request, used, report,
                   writeFailed, noteVars>>

-----------------------------------------------------------------------------
(* The steps of a scenario.                                                *)

Quiet == UNCHANGED <<hostVars, noteVars>>
SameCycle == UNCHANGED <<faults, at, aim, before, byHand>>

(* A new controller, runner, adapter and driver.                           *)
Afresh ==
    /\ state' = "UNINITIALIZED"
    /\ current' = None
    /\ pending' = None
    /\ active' = NoRollouts
    /\ orphaned' = NoRollouts
    /\ taintedIn' = None
    /\ at' = "idle"
    /\ request' = "none"
    /\ used' = {}
    /\ UNCHANGED <<aim, before, byHand>>

NewController == Now("new controller") /\ Afresh /\ UNCHANGED <<eng, faults>> /\ Go /\ Quiet

(* The fake engine, its weights just loaded and its caches dirty.          *)
Seed ==
    /\ Now("seed")
    /\ Afresh
    /\ eng' = FreshEngine(TRUE, "loaded")
    /\ faults' = {}
    /\ Go /\ Quiet

Inject ==
    /\ \/ Now("fault finish") /\ faults' = {"finish_weight_update"}
       \/ Now("fault caches") /\ faults' = {"blocks held"}
       \/ Now("fault any") /\ \E f \in Faults : faults' = {f}
    /\ Go /\ Quiet
    /\ UNCHANGED <<vars, eng, at, aim, before, byHand, request, used>>

Bootstrap ==
    /\ \/ Now("bootstrap") /\ Adopt /\ Go
       \/ Now("bootstrap") /\ BootstrapRaises(script # "smoke") /\ Raise
       \/ Now("try bootstrap") /\ (Adopt \/ BootstrapRaises(TRUE)) /\ Go
    /\ Quiet /\ SameCycle /\ UNCHANGED <<request, used>>

(* Another controller finds the engine managed and changes nothing.        *)
RefusedAdoption ==
    /\ Now("refused")
    /\ IF Refused THEN Go ELSE Raise
    /\ UNCHANGED <<vars, stackVars>> /\ Quiet

(* A call the script makes on the engine itself, past the controller.      *)
Directly(e) ==
    /\ \/ eng.up /\ eng' = e /\ Go
       \/ (Remote \/ ~eng.up) /\ Lost(e) /\ Raise
    /\ UNCHANGED <<vars, request, used>> /\ SameCycle /\ Quiet

Touch ==
    \/ Now("owned") /\ Directly([eng EXCEPT !.label = 2])
    \/ Now("release") /\ Directly([eng EXCEPT !.label = Unmanaged])
    \/ Now("reset") /\ Directly([eng EXCEPT !.kv = None])
    \/ Now("reopen") /\ Directly([eng EXCEPT !.paused = FALSE])
    \/ Now("out of band") /\ Directly([eng EXCEPT !.weights = "corrupted", !.label = 2])

Generate ==
    /\ Now("generate")
    /\ IF eng.up /\ ~eng.paused
       THEN /\ sample' = eng.weights
            /\ reused' = (reused \/ (eng.kv \notin {None, eng.weights}
                                     /\ eng.weights # "corrupted"))
            /\ eng' = [eng EXCEPT !.kv = eng.weights]
            /\ Go
       ELSE Raise /\ UNCHANGED <<eng, sample, reused>>
    /\ UNCHANGED <<vars, request, used, hostVars, seen, hung, diedIn>> /\ SameCycle

Admit ==
    /\ Now("admit") /\ (\E r \in Rollouts : AdmitRollout(r))
    /\ Go /\ Quiet /\ UNCHANGED stackVars

(* The long generation, on a thread; the smoke waits for its first token.  *)
Stream ==
    /\ Now("stream")
    /\ request' = IF eng.up THEN "running" ELSE "failed"
    /\ used' = IF eng.up THEN {eng.weights} ELSE {}
    /\ IF eng.up \/ script # "smoke" THEN Go ELSE Raise
    /\ UNCHANGED <<vars, eng>> /\ SameCycle /\ Quiet

RequestEnds ==
    /\ request = "running" /\ eng.up /\ stage = "run"
    /\ request' \in {"answered", "failed"}
    /\ UNCHANGED <<vars, eng, used, runVars>> /\ SameCycle /\ Quiet

(* The thread releases its rollout as soon as an answer is there, be it    *)
(* that of an aborted request, which is an error when the controller does  *)
(* not count releases any more.  Without an answer it releases nothing.    *)
ReleasesItself == script \in {"concurrency", "trajectory"}

ToRelease == request \in {"answered", "aborted"} /\ ReleasesItself

ThreadReleases ==
    /\ ToRelease /\ stage = "run"
    /\ IF state \in ROLLOUT_COMPLETION_STATES
       THEN /\ request' = (IF request = "answered" THEN "released" ELSE "failed")
            /\ \E r \in Rollouts : ReleaseRollout(r)
       ELSE request' = "failed" /\ UNCHANGED vars
    /\ UNCHANGED <<eng, used, runVars>> /\ SameCycle /\ Quiet

Finish ==
    /\ Now("finish") /\ (\E r \in Rollouts : ReleaseRollout(r))
    /\ Go /\ Quiet /\ UNCHANGED stackVars

(* The thread has ended, or the wait for it runs out.                      *)
JoinRequest ==
    /\ Now("join request")
    /\ IF request = "running" \/ ToRelease \/ (request # "answered" /\ script = "smoke")
       THEN Raise
       ELSE Go
    /\ UNCHANGED <<vars, stackVars>> /\ Quiet

(* The drain, call by call.  "poll": the first await must find the request *)
(* still running.  "short drain": a pause that times out at once.  A pause *)
(* attempt that failed has the stragglers aborted.                         *)
Pause ==
    /\ BeginDrain
    /\ Lost([eng EXCEPT !.paused = TRUE])
    /\ SameCycle /\ UNCHANGED <<used, hostVars, sample, reused, hung, diedIn>>

Straggling == request' \in {request, IF request = "running" THEN "aborted" ELSE request}

DrainByHand ==
    \/ Now("redrain") /\ Pause /\ Go /\ UNCHANGED <<request, seen>>
    \/ /\ Now("poll") /\ Pause /\ Straggling /\ UNCHANGED seen
       /\ IF request = "running" THEN Go ELSE Raise
    \/ /\ Now("short drain") /\ Pause /\ Straggling /\ Go
       /\ seen' \in {seen} \cup (IF eng.up THEN {"drain failed"} ELSE {})

Quiesce ==
    /\ Now("drain")
    /\ \/ /\ eng.up /\ request # "running"
          /\ eng' = [eng EXCEPT !.paused = TRUE]
          /\ ConfirmDrained([engine_drain_completed |-> TRUE, engine_busy |-> FALSE])
          /\ IF state' = "QUIESCED" THEN Go ELSE Raise
       \/ Lost([eng EXCEPT !.paused = TRUE]) /\ Raise /\ UNCHANGED vars
    /\ SameCycle /\ UNCHANGED <<request, used>> /\ Quiet

(* The driver refuses a target that is not what it holds, before a byte    *)
(* or a request has left it.                                               *)
Mismatch ==
    /\ Now("mismatch")
    /\ BeginUpdate(NextTarget(ModelB))
    /\ Go /\ Quiet /\ UNCHANGED stackVars

Abandon == Now("abandon") /\ Taint /\ Go /\ Quiet /\ UNCHANGED stackVars

(* The calls of a cycle begin; "by hand" enters it quiesced.               *)
CallCycle ==
    /\ \/ Now("cycle") /\ at = "idle" /\ UNCHANGED runVars
          /\ Call("called", NextTarget(IF script = "demo" THEN ModelB ELSE ModelA), FALSE)
       \/ Now("try") /\ at = "idle" /\ UNCHANGED runVars
          /\ Call("called", NextTarget(IF script = "demo" THEN ModelB ELSE ModelA), FALSE)
       \/ Now("spawn") /\ Go /\ Call("called", NextTarget(ModelA), FALSE)
       \/ Now("by hand") /\ Go /\ Call("begin", NextTarget(ModelA), TRUE)
    /\ UNCHANGED <<vars, eng, faults, request, used>> /\ Quiet

(* It returned or it raised; "try" catches.                                *)
CycleEnds ==
    /\ \/ Now("cycle") /\ at = "returned" /\ at' = "idle" /\ Go
       \/ Now("cycle") /\ at = "raised" /\ UNCHANGED at /\ Raise
       \/ Now("try") /\ at \in {"returned", "raised"} /\ UNCHANGED at /\ Go
    /\ UNCHANGED <<vars, eng, faults, aim, before, byHand, request, used>> /\ Quiet

(* The state is watched until UPDATING or a timeout, and read again before *)
(* the kill: a look, whatever it finds.                                    *)
Look ==
    /\ Now("arm") \/ Now("aim")
    /\ seen' = state
    /\ Go
    /\ UNCHANGED <<vars, stackVars, hostVars, sample, reused, hung, diedIn>>

(* Mutant: the wait for the thread has no budget.                          *)
Join_Forever ==
    /\ Now("join")
    /\ at \in {"returned", "raised"}
    /\ hung' = FALSE
    /\ Go
    /\ UNCHANGED <<vars, stackVars, hostVars, sample, reused, seen, diedIn>>

(* The thread ends, or the budget does.                                    *)
Join ==
    /\ Now("join")
    /\ hung' = (at \notin {"returned", "raised"})
    /\ Go
    /\ UNCHANGED <<vars, stackVars, hostVars, sample, reused, seen, diedIn>>

Written == report' = (IF verdict THEN "green" ELSE "red") /\ UNCHANGED writeFailed

(* The benchmark's hot cycle: past its budget the server is stopped, the   *)
(* report written and the process left by os._exit.                        *)
JoinHot ==
    /\ Now("join hot")
    /\ \/ at = "returned" /\ at' = "idle" /\ Go /\ UNCHANGED <<eng, hostVars>>
       \/ at = "raised" /\ UNCHANGED at /\ Raise /\ UNCHANGED <<eng, hostVars>>
       \/ at \notin {"returned", "raised"} /\ UNCHANGED at /\ Terminate /\ Written /\ Quit(3)
    /\ UNCHANGED <<vars, faults, aim, before, byHand, request, used, noteVars>>

-----------------------------------------------------------------------------
(* The checks.                                                             *)

Committed(v) == current # None /\ current.version = v
Reports(v)   == eng.up /\ eng.label = v

(* Mutant: the fail-closed checks look at the engine only.                 *)
FailedClosed_EngineOnly == proc # "up" /\ ~hung

(* The engine is dead, nothing was published, nothing can be admitted, and *)
(* the update said so within its budget.                                   *)
FailedClosed ==
    /\ proc # "up"
    /\ Committed(1)
    /\ state \notin ADMITTING_STATES
    /\ at # "returned"
    /\ ~hung

Installed ==
    /\ Committed(1)
    /\ Reports(1)
    /\ ~eng.paused
    /\ eng.weights # sample

DemoHolds(c) ==
    \/ c = "check two generations" /\ Committed(1) /\ current.identity = ModelB
    \/ c = "check disagreement" /\ Committed(0) /\ eng.paused /\ orphaned # NoRollouts
    \/ c = "check finalize" /\ Committed(0) /\ eng.paused /\ Reports(0)
    \/ c = "check label" /\ Committed(0) /\ eng.paused /\ Reports(1)
    \/ c = "check adopted" /\ state = "READY" /\ Reports(0)

FailuresHold(c) ==
    \/ c = "check drain failed" /\ seen = "drain failed" /\ state = "DRAINING"
    \/ c = "check untouched" /\ eng.paused /\ Reports(1) /\ state = "UPDATING"
    \/ c = "check dead" /\ at = "raised" /\ Committed(0)
    \/ c = "check refused" /\ at = "raised" /\ state = "TAINTED"
    \/ c = "check fresh" /\ state = "READY" /\ Reports(0)

Holds(c) ==
    \/ DemoHolds(c)
    \/ FailuresHold(c)
    \/ c = "check committed" /\ Committed(1)
    \/ c = "check installed" /\ Installed
    \/ c = "check old weights" /\ request = "released" /\ used = {"loaded"}
    \/ c = "check warm" /\ eng.up /\ eng.kv # None
    \/ c = "check cold" /\ eng.up /\ eng.kv = None
    \/ c = "check fail closed" /\ FailedClosed
    \/ /\ c = "check kill landed"
       /\ seen = "UPDATING" /\ Committed(0) /\ proc # "up" /\ (at = "raised" \/ hung)

Checks ==
    {"check two generations", "check disagreement", "check finalize", "check label",
     "check adopted", "check drain failed", "check untouched", "check dead",
     "check refused", "check fresh", "check committed", "check installed",
     "check old weights", "check warm", "check cold", "check fail closed",
     "check kill landed"}

(* A failed check is recorded and the scenario goes on.                    *)
Check ==
    /\ \E c \in Checks : Now(c) /\ Record(Holds(c))
    /\ UNCHANGED <<vars, stackVars>> /\ Quiet

-----------------------------------------------------------------------------
(* The end.                                                                *)

Verdict ==
    /\ Now("verdict")
    /\ verdict' = good
    /\ pc' = pc + 1
    /\ UNCHANGED <<stage, good, code, vars, stackVars>> /\ Quiet

(* A thread still in a collective must not hold up the exit: os._exit,     *)
(* past the finally, after the report.  The server is dead by then.        *)
Hang ==
    /\ Now("hang")
    /\ IF hung
       THEN Written /\ Quit(IF verdict /\ script = "benchmark" THEN 0 ELSE 2)
       ELSE Go /\ UNCHANGED <<report, writeFailed>>
    /\ UNCHANGED <<vars, stackVars, proc, workers, noteVars>>

Return ==
    /\ stage = "run"
    /\ Now("assert") \/ pc > Len(Scenario[script])
    /\ Leave(IF verdict \/ (script \in InProcess /\ good) THEN 0 ELSE 1)
    /\ UNCHANGED <<vars, stackVars>> /\ Quiet

(* except Exception lets KeyboardInterrupt pass; the finally does not.     *)
Interrupt ==
    /\ stage = "run"
    /\ ~Now("serve")
    /\ Leave(Interrupted)
    /\ UNCHANGED <<vars, stackVars>> /\ Quiet

(* A read or a generation of the script itself fails, though its engine is *)
(* up.  What a cycle raises is CycleEnds' matter.                          *)
CallFails ==
    /\ stage = "run" /\ Remote
    /\ \A waiting \in {"serve", "cycle", "try", "join hot"} : ~Now(waiting)
    /\ Raise
    /\ UNCHANGED <<vars, stackVars>> /\ Quiet

(* The report first, the server after it: a report that cannot be written  *)
(* leaves the server running.  The smoke replaces the file at once; the    *)
(* others write over it, and may leave it cut short.                       *)
WriteReport ==
    /\ stage = "finally"
    /\ \/ Written /\ stage' = "stop" /\ UNCHANGED code
       \/ /\ writeFailed' = TRUE
          /\ report' \in IF script = "smoke" THEN {report} ELSE {report, "torn"}
          /\ stage' = "exit"
          /\ code' = 1
    /\ UNCHANGED <<vars, stackVars, pc, good, verdict, proc, workers, noteVars>>

StopServer ==
    /\ stage = "stop"
    /\ Terminate
    /\ stage' = "exit"
    /\ UNCHANGED <<vars, faults, request, used, pc, good, verdict, code, report,
                   writeFailed, noteVars>> /\ SameCycle

Main ==
    \/ Launch \/ Ready \/ NotReady(1) \/ Kill \/ Stop \/ NewController \/ Seed \/ Inject
    \/ Bootstrap \/ RefusedAdoption \/ Touch \/ Generate \/ Admit \/ Stream \/ Finish
    \/ JoinRequest \/ DrainByHand \/ Quiesce \/ Mismatch \/ Abandon \/ CallCycle
    \/ CycleEnds \/ Look \/ Join \/ JoinHot \/ Check \/ Verdict \/ Hang \/ Return
    \/ WriteReport \/ StopServer

(* The calls of the cycle, on the main thread or beside it.                *)
Cycling == stage # "exit" /\ CycleCall /\ UNCHANGED runVars /\ Quiet

Around ==
    RequestEnds \/ ThreadReleases \/ Crash \/ Interrupt \/ CallFails \/ NotReady(Interrupted)

XNext == (Main \/ Cycling \/ Around) /\ UNCHANGED script

XSpec == XInit /\ [][XNext]_xvars

(* The NCCL driver forms a group with the workers in bootstrap, and sends  *)
(* through it in the cycle.                                                *)
Rendezvous == Now("bootstrap") /\ script \notin InProcess \cup {"smoke"}

(* Python runs the threads that can run.  Nothing is asked of the engine,  *)
(* of its requests, of the operating system or of a collective.            *)
XFairSpec ==
    /\ XSpec
    /\ WF_xvars(Main /\ ~Rendezvous /\ UNCHANGED script)
    /\ WF_xvars(Cycling /\ ~Collective /\ UNCHANGED script)

-----------------------------------------------------------------------------
(* Properties.                                                             *)

(* Types, and that the exit code exists exactly when the run was left.     *)
XTypeOK ==
    /\ state \in LifecycleState
    /\ eng \in Engines
    /\ at \in {"idle"} \cup Calls \cup Outcomes
    /\ request \in {"none", "running", "answered", "released", "aborted", "failed"}
    /\ used \subseteq Weights
    /\ pc \in 1..(Len(Scenario[script]) + 1)
    /\ stage \in {"run", "finally", "stop", "exit"}
    /\ stage = "run" <=> code = Running
    /\ proc \in {"none", "booting", "up", "gone", "ended"}
    /\ script \notin InProcess => (eng.up <=> proc = "up")
    /\ report \in {"earlier", "green", "red", "torn"}
    /\ {good, verdict, workers, writeFailed, reused, hung} \subseteq BOOLEAN

(* What a PASS of each script shows.                                       *)
Shown ==
    CASE script \in {"cycle", "concurrency", "trajectory"} ->
            /\ state = "READY" /\ Committed(1) /\ eng.label = 1 /\ eng.weights = "sent"
            /\ used \subseteq {"loaded"} /\ active = NoRollouts
      [] script = "cache" -> Committed(1) /\ ~reused
      [] script = "smoke" ->
            /\ state = "TAINTED" /\ Committed(0) /\ eng.label = 0
            /\ request = "answered" /\ eng.weights = "loaded"
      [] script = "failures" -> diedIn = "READY" /\ state = "READY" /\ Committed(0)
      [] script = "updatekill" ->
            diedIn # None /\ Committed(1) /\ state \notin ADMITTING_STATES
      [] script = "benchmark" ->
            /\ diedIn \in MutationStates \cup {"TAINTED"} /\ Committed(0)
            /\ Struck \in MutationStates
      [] OTHER -> TRUE

(* A PASS is earned.  Whatever died, hung, failed or was interrupted on    *)
(* the way, a green report and an exit code of 0 mean that what the script *)
(* is for has happened; an exit code of 0 comes with a green report of     *)
(* this run, never with the file an earlier run left; and the demo and the *)
(* tests, where nothing dies, hold.  Of the benchmark's kill that is less  *)
(* than its check deep_kill_landed_during_the_update says: the engine died *)
(* under an open update, or under one that had failed by itself between    *)
(* the last read of the state and the signal.                              *)
PassIsEarned ==
    /\ report = "green" \/ code = 0 => Shown
    /\ stage = "exit" /\ code = 0 /\ script \notin InProcess => report = "green"
    /\ script \in InProcess => good /\ code # 1

(* No server outlives the script that started it, except behind a report   *)
(* that could not be written (start_vllm_server: "must not orphan a        *)
(* server still holding the port").  Its engine-core children may also     *)
(* outlive a leader that died by itself, or one that was signalled alone.  *)
NoOrphanServer ==
    stage = "exit" /\ ~writeFailed =>
        /\ proc \in {"none", "gone", "ended"}
        /\ workers => script \notin KillsGroup \/ proc = "ended"

(* Every script ends, though nothing obliges an engine to answer: each     *)
(* wait has a bound.  The exceptions are the two collectives when they run *)
(* on the main thread, where no budget can interrupt them: that of the     *)
(* bootstrap, and that of the cycle, whether its peers are dead or alive.  *)
ScriptEnds == <>(stage = "exit") \/ <>[](Rendezvous \/ (Now("cycle") /\ Collective))

=============================================================================
