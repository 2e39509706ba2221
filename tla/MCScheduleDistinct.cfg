CONSTANTS
    h1 = h1
    h2 = h2
    h3 = h3
    z1 = z1
    z2 = z2
    b1 = b1
    Missing = Missing
    NoHost = NoHost
    NoZone = NoZone
    NoBlob = NoBlob
    HostOrder <- MCHostOrder
    ZoneOrder <- MCZoneOrder
    CostFns <- MCCostFns
    MaxFree = 3
    Needs = {1, 2}
    MaxInstances = 2
    RawWeights = {0, 2}
    Offsets = {0}
    Scales = {1, 2}
    Blobs = {b1}
    MaxItems = 1
SPECIFICATION Spec
CHECK_DEADLOCK FALSE
INVARIANT
    DistinctLocalHosts
