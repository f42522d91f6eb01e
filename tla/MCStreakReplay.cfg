SPECIFICATION Spec
CONSTANTS
    NoRow = NoRow
    GraceMinStreak = 2
    GraceCooldownDays = 2
    Days <- MCDays
    Histories <- MCHistories
    StoredRecords <- MCStoredRecords
INVARIANTS
    WritesThePromise
    OneLawfulGrace
    CountsTheRun
    ForgivesByTheRule
    CorrectionNeverCosts
    LeniencyNeverCosts
\* the replay is over when it has written the row
CHECK_DEADLOCK FALSE
