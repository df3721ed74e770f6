SPECIFICATION FairSpec

CONSTANTS
    Rollouts = {r1, r2}
    Requests = {r1, r2}
    Identities = {w1}
    Versions = {0, 1, 2}
    EngineVersions = {0, 1, 2}
    None = None
    Unmanaged = Unmanaged
    FreshLabel = Unmanaged
    Mixed = Mixed
    Threads = {t1}
    DrainReissues = 1
    Outcomes = {"ok"}
    MaxLate = 0
    Runners = {c1}
    Refusals = FALSE
    StaleTargets = FALSE
    PollsRunOut = FALSE
    OperatorTaints = FALSE
    Impatient = FALSE
    RedrainFrom = {}

\* A tainted system, and a runner whose cycle has raised, stop for good.
CHECK_DEADLOCK FALSE

PROPERTIES
    CycleSettles
    BindingsResolve
