SPECIFICATION Spec
CONSTANTS
    Desks = {"access", "prices", "returns", "load", "numbers", "costs", "distance"}
    Users = {"ada", "ben"}
    Roles = {"admin", "clerk", "extra"}
    SystemRoles = {"admin"}
    FirstUsers <- MCFirstUsers
    FirstRoles <- MCFirstRoles
    AccessRequests = {r1, r2}
    Asked <- MCAsked
    Same = Same
    Prices = {p1}
    PriceRequests = {q1, q2}
    MaxPriceTime = 3
    MaxEntries = 3
    ReturnUnits = {u1, u2}
    ReturnOrders = {o1, o2}
    Restocks = {"IN_WAREHOUSE_CBU", "IN_REPAIR"}
    Pushes = {"RETURNED", "IN_WAREHOUSE_CBU"}
    Movers = {m1}
    Counter = {s1}
    MaxReturns = 2
    Nobody = Nobody
    Skus <- MCSkus
    Threshold <- MCThreshold
    Distance <- MCDistance
    LongPrefix <- MCLongPrefix
    FirstVariants = {}
    Files <- MCFiles
    Blank = Blank
    BatchSize = 1
    PoSkus = {"kit", "king"}
    MaxVariants = 4
    MaxStops = 2
    Kinds = {"PO"}
    IdTypes = {"SO"}
    Clerks = {c1, c2}
    Gadgets = {d1, d2}
    Radix = 3
    Custom = {2}
    Counts = {1, 2}
    MaxNumber = 4
    Engines = {1, 2, 3}
    Components = {freight}
    Costs <- MCCosts
    Accountants = {a1, a2}
    NoCost = NoCost
    Letters = {"a", "b"}
    MaxLength = 3
SYMMETRY MCWorkers
INVARIANTS
    HistoryIsChained
    OpenReturnsMatchUnits
    NeverSoldTwice
    StoppedLoadsCanBeFinished
    NumbersNeverClash
    RangesAreDisjoint
    SharesAddUp
    DistanceIsLevenshtein
PROPERTIES
    AccountChangesKeepAManager
    NewVariantsHaveNoTwin
CHECK_DEADLOCK FALSE
