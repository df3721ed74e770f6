SPECIFICATION TimeoutSpec

CONSTANTS
    Rollouts = {r1}
    Requests = {r1}
    Identities = {w1}
    Versions = {0, 1}
    EngineVersions = {0, 1}
    None = None
    Unmanaged = Unmanaged
    FreshLabel = Unmanaged
    Mixed = Mixed
    Threads = {t1}
    DrainReissues = 1
    Outcomes = {"ok", "lost", "unanswered"}
    MaxLate = 0
    Runners = {c1, c2}
    Refusals = TRUE
    StaleTargets = TRUE
    PollsRunOut = TRUE
    OperatorTaints = TRUE
    Impatient = TRUE
    RedrainFrom = {"drain_failed"}

\* A tainted system, and a runner whose cycle has raised, stop for good.
CHECK_DEADLOCK FALSE

PROPERTY RunCycleReturns
