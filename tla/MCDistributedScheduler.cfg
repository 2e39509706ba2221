CONSTANTS
    h1 = h1
    h2 = h2
    z1 = z1
    b1 = b1
    k1 = k1
    k2 = k2
    Missing = Missing
    NoHost = NoHost
    NoZone = NoZone
    NoBlob = NoBlob
    None = None
    HostOrder <- MCHostOrder
    ZoneOrder <- MCZoneOrder
    CostFns <- MCCostFns
    MaxFree = 2
    Needs = {1}
    MaxInstances = 2
    RawWeights <- MCRawWeights
    Offsets = {0}
    Scales = {1}
    Blobs = {b1}
    MaxItems = 2
    Keys = {k1, k2}
    BuildPlanKey = k1
    MaxUuids = 3
SPECIFICATION Spec
CHECK_DEADLOCK FALSE
INVARIANTS
    TypeOK
    OneInstancePerCast
    BlobPlanHonoured
    ProvisionedIsPoppedPrefix
    ChildEntriesMerged
