SPECIFICATION Spec
CONSTANTS
    one = one
    two = two
    None = None
    Orders = {o1}
    Proformas = {p1, p2}
    Shipments = {s1}
    ManifestLines = {l1, l2}
    Engines = {e1, e2}
    Chassis = {c1}
    Baskets = {one}
    TotalOf <- MCTotalOf
    QuantityOf <- MCQuantityOf
    Quantities = {2}
    Requests = {r1, r2}
    Endpoints <- AllEndpoints
    MaxReceipt = 1
SYMMETRY Symmetry
INVARIANTS
    OneActiveProforma
    RevisionsCount
CHECK_DEADLOCK FALSE
