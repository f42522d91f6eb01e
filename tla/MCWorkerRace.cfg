SPECIFICATION Spec
CONSTANTS
    NoRow = NoRow
    Pages = {p1}
    north = north
    south = south
    Places <- MCPlaces
    FirstPlaces <- MCFirstPlaces
    LastDay = 3
    Lookahead = 1
    Retention = 1
    MaxCalls = 1
    MaxStarts = 1
    MaxSaves = 1
    MaxEdits = 1
INVARIANT
    NoErrorFromARace
CHECK_DEADLOCK FALSE
