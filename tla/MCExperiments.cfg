SPECIFICATION XFairSpec

CONSTANTS
    Rollouts = {R1}
    Identities = {ModelA, ModelB}
    ModelA = ModelA
    ModelB = ModelB
    Versions = {0, 1, 2}
    None = None
    Unmanaged = Unmanaged

CHECK_DEADLOCK FALSE

INVARIANTS
    XTypeOK
    FailClosed
    PassIsEarned
    NoOrphanServer

PROPERTIES
    ScriptEnds
