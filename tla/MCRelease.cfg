SPECIFICATION Spec
CONSTANTS
    MaxCommit = 2
    MaxAttempt <- MCMaxAttempt
    None = None
INVARIANTS
    AcceptedIsSigned
    GreenIsOneAttempt
PROPERTIES
    NeverBackwards
\* the bounds end every behaviour
CHECK_DEADLOCK FALSE
