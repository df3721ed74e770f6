SPECIFICATION BSpec

CONSTANTS
    Controllers = {c1, c2, c3}
    Fresh = Fresh
    Malformed = Malformed
    None = None
    Overlapping = FALSE
    MaxVersion = 2
    MaxLives = 2

SYMMETRY Symmetry

INVARIANTS
    BTypeOK
    SingleOwner
    SeededOnce

PROPERTIES
    LabelOnlyGrows
    StrandedUntilRestart
