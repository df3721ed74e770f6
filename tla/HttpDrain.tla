----------------------------- MODULE HttpDrain ------------------------------
(***************************************************************************)
(* The drain of the HTTP adapter (src/rolloutcore/adapters/http.py):       *)
(* POST /pause?mode=wait is issued on a background thread, whose verdict   *)
(* await_drain polls.  A failed attempt is aborted and reissued, up to     *)
(* DrainReissues times.  Attempts are numbered, and a thread whose number  *)
(* is not the current one drops its verdict.                               *)
(*                                                                         *)
(* The module holds the adapter's state and the steps of its threads;      *)
(* RolloutCycle.tla adds the runner that calls begin_drain and await_drain.*)
(***************************************************************************)
EXTENDS VllmEngine

CONSTANTS
    Threads,        \* threads that may be alive at once (a bound)
    DrainReissues,  \* drain_reissues
    Outcomes,       \* what may become of an HTTP call, see below
    MaxLate         \* how many abandoned pause calls may be on their way (a bound)

(* A call answers; or fails without having reached the engine; or takes    *)
(* effect on the engine and its answer is lost or comes too late.          *)
CallOutcomes == {"ok", "lost", "unanswered"}

ASSUME DrainAssumption ==
    DrainReissues \in Nat /\ MaxLate \in Nat /\ Outcomes \subseteq CallOutcomes

VARIABLES
    drainState,     \* _drain_state
    drainAttempts,  \* _drain_attempts
    threads,        \* the pause attempts under way
    late            \* pause calls given up on which the engine has yet to see

drainVars == <<drainState, drainAttempts, threads, late>>

(* posted: the call has not reached the engine; held: the engine has set   *)
(* its pause state and is waiting for running requests; ok and failed: the *)
(* call is over, its verdict not yet written.                              *)
ThreadPhases == {"free", "posted", "held", "ok", "failed"}

DrainInit ==
    /\ drainState = "IDLE"
    /\ drainAttempts = 0
    /\ threads = [t \in Threads |-> [attempt |-> 0, phase |-> "free"]]
    /\ late = 0

DrainTypeOK ==
    /\ drainState \in {"IDLE", "IN_FLIGHT", "FAILED", "COMPLETED"}
    /\ drainAttempts \in 0..(DrainReissues + 1)
    /\ threads \in [Threads -> [attempt : 0..(DrainReissues + 1), phase : ThreadPhases]]
    /\ late \in 0..MaxLate

Live(t) == threads[t].phase # "free"

-----------------------------------------------------------------------------
(* The caller's side.                                                      *)

(* begin_drain, first critical section; _start_attempt follows it.         *)
ResetAttempts ==
    /\ drainAttempts' = 0
    /\ UNCHANGED <<drainState, threads, late>>

(* Mutant: the verdict of the drain before is left in place.               *)
StartAttempt_StaleVerdict ==
    /\ drainAttempts' = drainAttempts + 1
    /\ UNCHANGED <<drainState, late>>
    /\ \E t \in Threads :
          /\ ~Live(t)
          /\ threads' = [threads EXCEPT ![t] = [attempt |-> drainAttempts + 1,
                                                phase   |-> "posted"]]

StartAttempt ==
    /\ drainAttempts' = drainAttempts + 1
    /\ drainState' = "IN_FLIGHT"
    /\ UNCHANGED late
    /\ \E t \in Threads :
          /\ ~Live(t)
          /\ threads' = [threads EXCEPT ![t] = [attempt |-> drainAttempts + 1,
                                                phase   |-> "posted"]]

(* Mutant: one attempt more than the budget.                               *)
BudgetOfAttemptsSpent_OffByOne == drainAttempts > DrainReissues + 1

(* await_drain gives up on a failed attempt that was the last one.         *)
BudgetOfAttemptsSpent == drainAttempts > DrainReissues

-----------------------------------------------------------------------------
(* _pause_attempt.                                                         *)

Phase(t, from, to) ==
    /\ threads[t].phase = from
    /\ threads' = [threads EXCEPT ![t].phase = to]
    /\ UNCHANGED <<drainState, drainAttempts, late>>

PauseReachesEngine(t) ==
    /\ Phase(t, "posted", "held")
    /\ EnginePause

PauseIsLost(t) ==
    /\ "lost" \in Outcomes
    /\ Phase(t, "posted", "failed")
    /\ UNCHANGED engineVars

(* The client gives up first: its verdict is FAILED, and the request stays *)
(* in the queue of a server too busy to have read it.                      *)
PauseIsDelayed(t) ==
    /\ late < MaxLate
    /\ threads[t].phase = "posted"
    /\ threads' = [threads EXCEPT ![t].phase = "failed"]
    /\ late' = late + 1
    /\ UNCHANGED <<drainState, drainAttempts, engineVars>>

(* The server gets to it, whatever has happened meanwhile.                 *)
LatePause ==
    /\ late > 0
    /\ late' = late - 1
    /\ EngineStrayPause
    /\ UNCHANGED <<drainState, drainAttempts, threads>>

PauseReturns(t) ==
    /\ EngineDrained
    /\ Phase(t, "held", "ok")
    /\ UNCHANGED engineVars

(* The socket timeout or a broken connection; the engine stays paused.     *)
PauseIsUnanswered(t) ==
    /\ "unanswered" \in Outcomes
    /\ Phase(t, "held", "failed")
    /\ UNCHANGED engineVars

(* Mutant: a pause call that raised counts as one that returned.           *)
WriteVerdict_AnyEnd(t) ==
    /\ threads[t].phase \in {"ok", "failed"}
    /\ drainState' = IF threads[t].attempt # drainAttempts THEN drainState ELSE "COMPLETED"
    /\ threads' = [threads EXCEPT ![t] = [attempt |-> 0, phase |-> "free"]]
    /\ UNCHANGED <<drainAttempts, late, engineVars>>

(* The verdict counts only if no other attempt has been started since.     *)
WriteVerdict(t) ==
    /\ threads[t].phase \in {"ok", "failed"}
    /\ drainState' = IF threads[t].attempt # drainAttempts THEN drainState
                     ELSE IF threads[t].phase = "ok" THEN "COMPLETED" ELSE "FAILED"
    /\ threads' = [threads EXCEPT ![t] = [attempt |-> 0, phase |-> "free"]]
    /\ UNCHANGED <<drainAttempts, late, engineVars>>

ThreadStep(t) ==
    \/ PauseReachesEngine(t)
    \/ PauseIsLost(t)
    \/ PauseIsDelayed(t)
    \/ PauseReturns(t)
    \/ PauseIsUnanswered(t)
    \/ WriteVerdict(t)

=============================================================================
