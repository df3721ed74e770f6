SPECIFICATION CSpec

CONSTANTS
    Rollouts = {r1, r2}
    Requests = {r1, r2}
    Identities = {w1}
    Versions = {0, 1, 2}
    EngineVersions = {0, 1, 2}
    None = None
    Unmanaged = Unmanaged
    FreshLabel = Unmanaged
    Mixed = Mixed
    Threads = {t1}
    DrainReissues = 1
    Outcomes = {"ok", "lost", "unanswered"}
    MaxLate = 1
    Runners = {c1, c2}
    Refusals = TRUE
    StaleTargets = TRUE
    PollsRunOut = TRUE
    OperatorTaints = TRUE
    Impatient = TRUE
    RedrainFrom = {"drain_failed"}

SYMMETRY Symmetry
\* A tainted system, and a runner whose cycle has raised, stop for good.
CHECK_DEADLOCK FALSE

INVARIANTS
    CTypeOK
    NoMixedRollout
    ServesOnlyOneVersion
    UpdatesUnderPause
    ReadyServesCommitted
    NoTrajectorySpansUpdate
    OneLiveAttempt
    CompletedMeansDrained
