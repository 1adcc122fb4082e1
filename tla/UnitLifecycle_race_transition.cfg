SPECIFICATION Spec
CONSTANTS
    keke = keke
    bike = bike
    threeWheel = threeWheel
    twoWheel = twoWheel
    Units = {keke}
    Variants = {threeWheel}
    VariantOf <- MCVariantOf
    ThreeWheelers <- MCThreeWheelers
    Requests = {r1, r2}
    Endpoints <- HttpEndpoints
    Targets <- DemoTargets
    MaxBatch = 1
    MaxJobs = 2
PROPERTY
    ImplementsLedger
