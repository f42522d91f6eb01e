SPECIFICATION Spec
CONSTANTS
    NoRow = NoRow
    s1 = s1
    s2 = s2
    Streaks <- MCTwoStreaks
    ScanOrder <- MCOrderTwo
    Days <- MCThreeDays
    FirstToday = 2
    Presses <- MCRacePresses
    Threads = {w1, w2}
    MaxRequests = 3
    Summarise <- MCSummarise
INVARIANTS
    TypeOK
    LoggedStreakHasSummary
    NoWaitCycle
PROPERTY
    HealsWhenAlone
\* the bound on requests ends every behaviour
CHECK_DEADLOCK FALSE
