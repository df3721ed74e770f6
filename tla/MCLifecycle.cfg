SPECIFICATION Spec

CONSTANTS
    Rollouts = {r1, r2}
    Identities = {w1, w2}
    Versions = {0, 1, 2, 3}
    None = None
    Unmanaged = Unmanaged

\* A tainted controller stops for good, by design.
CHECK_DEADLOCK FALSE

INVARIANTS
    TypeOK
    DrainBeforeMutation
    BoundToCommitted
    PendingIsNewer
    OrphansPredateUpdate

PROPERTIES
    CommitsAtomically
    NoRolloutLost
    TaintIsTerminal
    ImplementsVersionedServing
