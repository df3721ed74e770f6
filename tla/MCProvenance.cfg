SPECIFICATION PSpec

CONSTANTS
    Steps = {0, 1}
    Boot = Boot
    Torn = Torn
    None = None
    Uncomputed = Uncomputed
    Manifest <- MCManifest
    Devices = {cuda0, cuda1}
    MaxUpdates = 1
    Requests = {R1, R2}
    Tokens <- MCTokens
    Logprobs <- MCLogprobs
    Prompt = Prompt
    OtherPrompt = OtherPrompt
    Stray = Stray
    Tolerance = 1
    MaxRecords = 2

SYMMETRY Symmetry

CHECK_DEADLOCK FALSE

INVARIANTS
    PTypeOK
    LabelNamesWeights
    ReplayCatchesMisattribution
    FaithfulReplayPasses
    VerdictIsRight
    PassCoversFiles
