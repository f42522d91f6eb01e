SPECIFICATION Spec
CONSTANTS
    NoRow = NoRow
    s1 = s1
    s2 = s2
    Streaks <- MCOneStreak
    ScanOrder <- MCOrderOne
    Days <- MCThreeDays
    FirstToday = 2
    Presses <- MCAllButtons
    Threads = {w1}
    MaxRequests = 3
    Summarise <- MCSummarise
INVARIANTS
    SummaryMatchesLog
PROPERTIES
    RecordNeverDecreases
    EveryChangeAudited
    NoPhantomEdit
    TakesEffectAtomically
\* the bound on requests ends every behaviour
CHECK_DEADLOCK FALSE
