SPECIFICATION Spec
CONSTANTS
    p1 = p1
    p2 = p2
    None = None
    Units = {u1, u2}
    Orders = {o1, o2}
    Payments = {p1}
    TotalOf <- MCTotalOf
    Amount <- MCAmount
    SumOf <- MCSumOf
    Requests = {r1, r2}
    Endpoints <- SalesEndpoints
    Movers = {}
    MoveTargets <- NoMoves
SYMMETRY Symmetry
INVARIANTS
    OneOrderPerUnit
CHECK_DEADLOCK FALSE
