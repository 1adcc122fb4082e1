SPECIFICATION Spec
CONSTANTS
    keke = keke
    bike = bike
    threeWheel = threeWheel
    twoWheel = twoWheel
    Units = {keke, bike}
    Variants = {threeWheel, twoWheel}
    VariantOf <- MCVariantOf
    ThreeWheelers <- MCThreeWheelers
    Requests = {r1}
    Endpoints <- HttpEndpoints
    Targets <- DemoRepairTargets
    MaxBatch = 2
    MaxJobs = 1
INVARIANTS
    OpenJobHoldsUnit
PROPERTIES
    OutcomesAreFinal
    CancelRestoresSource
    ImplementsLedger
