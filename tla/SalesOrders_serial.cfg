SPECIFICATION Spec
CONSTANTS
    p1 = p1
    p2 = p2
    None = None
    Units = {u1, u2}
    Orders = {o1, o2}
    Payments = {p1, p2}
    TotalOf <- MCTotalOf
    Amount <- MCAmount
    SumOf <- MCSumOf
    Requests = {r1}
    Endpoints <- AllEndpoints
    Movers = {m1}
    MoveTargets <- MeanwhileMoves
SYMMETRY UnitSymmetry
INVARIANTS
    PaidOrdersAreCovered
    ReceivedIsDerived
    SoldUnitsBelongToReleases
    ReleasedUnitsAreSold
    CancelledOrdersHoldNothing
    TotalsAgree
PROPERTIES
    OrdersFollowStateMachine
CHECK_DEADLOCK FALSE
