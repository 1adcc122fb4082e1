SPECIFICATION Spec
CONSTANTS
    one = one
    two = two
    None = None
    Orders = {o1}
    Proformas = {p1, p2}
    Shipments = {s1, s2}
    ManifestLines = {l1, l2}
    Engines = {e1, e2}
    Chassis = {c1, c2}
    Baskets = {one, two}
    TotalOf <- MCTotalOf
    QuantityOf <- MCQuantityOf
    Quantities = {2}
    Requests = {r1}
    Endpoints <- AllEndpoints
    MaxReceipt = 2
SYMMETRY Symmetry
INVARIANTS
    IdentitiesAreUnique
    AgreedOrdersStand
    ClosedShipmentsSettled
    ReceiptsReachOrder
PROPERTIES
    ProformasAreDecidedOnce
    ShipmentsFollowStateMachine
CHECK_DEADLOCK FALSE
