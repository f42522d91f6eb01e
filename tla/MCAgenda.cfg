SPECIFICATION Spec
CONSTANTS
    NoRow = NoRow
    Tasks <- MCTasks
    Trackers <- MCTrackers
    Days <- MCDays
    Calendar <- MCCalendar
    Boards <- MCBoards
    FirstToday = 2
    Times <- MCTimes
    w1 = w1
    w2 = w2
    Threads <- MCThreads
    Buttons <- MCButtons
    MaxRequests = 4
CONSTRAINT MCBound
SYMMETRY MCSymmetry
INVARIANTS
    LogTellsTheState
    NothingIsLost
PROPERTY
    OneMeaningWhenAlone
    MoveLands
\* the bounds end every behaviour
CHECK_DEADLOCK FALSE
