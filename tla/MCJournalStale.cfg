SPECIFICATION Spec
CONSTANTS
    NoRow = NoRow
    s1 = s1
    s2 = s2
    Streaks <- MCOneStreak
    ScanOrder <- MCOrderOne
    Days <- MCTwoDays
    FirstToday = 1
    Presses <- MCRacePresses
    Threads = {w1, w2}
    MaxRequests = 2
    Summarise <- MCSummarise
INVARIANT
    SummaryMatchesLog
\* the bound on requests ends every behaviour
CHECK_DEADLOCK FALSE
