SPECIFICATION CSpec

CONSTANTS
    Rollouts = {r1}
    Requests = {r1}
    Identities = {w1}
    Versions = {0, 1}
    EngineVersions = {0, 1}
    None = None
    Unmanaged = Unmanaged
    FreshLabel = Unmanaged
    Mixed = Mixed
    Threads = {t1}
    DrainReissues = 1
    Outcomes = {"ok", "lost", "unanswered"}
    MaxLate = 0
    Runners = {c1}
    Refusals = FALSE
    StaleTargets = FALSE
    PollsRunOut = FALSE
    OperatorTaints = FALSE
    Impatient = FALSE
    RedrainFrom = {"drain_failed"}

\* A tainted system, and a runner whose cycle has raised, stop for good.
CHECK_DEADLOCK FALSE

INVARIANT PausedWhenDrainFails
