SPECIFICATION FairSpec
CONSTANTS
    Nobody = Nobody
    Pods = {p1, p2, p3}
    Versions <- MCVersions
    Polls = 1
    MaxStarts = 4
    MaxBoots = 3
INVARIANTS
    ServerNeedsBootstrap
    EachRevisionOnce
    ServesItsSchema
    LockIsHeldInside
PROPERTY
    NobodyWaitsForever
\* the bounds end every behaviour
CHECK_DEADLOCK FALSE
