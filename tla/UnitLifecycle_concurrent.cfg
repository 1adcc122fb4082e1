SPECIFICATION FairSpec
CONSTANTS
    keke = keke
    bike = bike
    threeWheel = threeWheel
    twoWheel = twoWheel
    Units = {keke, bike}
    Variants = {threeWheel}
    VariantOf <- MCVariantOf
    ThreeWheelers <- MCThreeWheelers
    Requests = {r1, r2}
    Endpoints <- BatchEndpoints
    Targets <- SyncTargets
    MaxBatch = 2
    MaxJobs = 1
INVARIANTS
    AssemblyHasOpenJob
    OneOpenJob
    LedgerAgrees
PROPERTIES
    RequestsEnd
