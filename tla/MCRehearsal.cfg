SPECIFICATION RehearsalSpec
CONSTANTS
    MaxRuns = 2
INVARIANTS
    LeftoversExplained
    VolumeKnowsItsPasswords
PROPERTIES
    CredentialsKept
\* the bounds end every behaviour
CHECK_DEADLOCK FALSE
