SPECIFICATION Spec
CONSTANTS
    p1 = p1
    p2 = p2
    w1 = w1
    w2 = w2
    w3 = w3
    berlin = berlin
    auckland = auckland
    Processes = {p1, p2}
    Threads = {w1, w2, w3}
    ProcessOf <- MCProcessOf
    Zones = {berlin, auckland}
    EnvZone = auckland
    DefaultZone = berlin
    NoZone = NoZone
    MaxRequests = 4
INVARIANTS
    FallbackNeverKept
    SavedZoneApplies
    AloneSeesOneZone
SYMMETRY MCSymmetry
