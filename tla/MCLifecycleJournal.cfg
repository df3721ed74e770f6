SPECIFICATION JSpec

CONSTANTS
    Rollouts = {r1, r2}
    Identities = {w1}
    Versions = {0, 1, 2}
    None = None
    Unmanaged = Unmanaged
    MaxSeq = 12

\* A tainted controller stops for good, and MaxSeq ends every history.
CHECK_DEADLOCK FALSE

INVARIANTS
    EverySeqAccountedFor
    JournalReconstructsController
    MutationRecordedAfterReleases
    PublishedOnlyAfterProof
