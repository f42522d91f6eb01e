SPECIFICATION Spec
CONSTANTS
    NoRow = NoRow
    Pages = {p1, p2}
    north = north
    south = south
    Places <- MCPlaces
    FirstPlaces <- MCFirstPlaces
    LastDay = 4
    Lookahead = 1
    Retention = 1
    MaxCalls = 2
    MaxStarts = 2
    MaxSaves = 2
    MaxEdits = 2
CONSTRAINT MCBound
SYMMETRY MCSymmetry
INVARIANTS
    CleanSinceSuccess
    OldPlaceFades
    ErrorsExplained
\* the bounds end every behaviour
CHECK_DEADLOCK FALSE
