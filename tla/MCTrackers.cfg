SPECIFICATION FairSpec
CONSTANTS
    NoRow = NoRow
    k1 = k1
    Trackers <- MCTrackers1
    Days <- MCDays
    FirstToday = 1
    Plans <- MCPlans
    Threads = {w1, w2}
    Buttons <- MCButtons
    MaxRequests = 4
INVARIANTS
    TrackerHasState
    DeadlockNeedsDelete
PROPERTY
    HealsWhenAlone
    EveryRequestAnswered
\* the bounds end every behaviour
CHECK_DEADLOCK FALSE
