SPECIFICATION BSpec

CONSTANTS
    Controllers = {c1, c2}
    Fresh = Fresh
    Malformed = Malformed
    None = None
    Overlapping = TRUE
    MaxVersion = 2
    MaxLives = 2

SYMMETRY Symmetry

INVARIANTS
    SingleWriter

