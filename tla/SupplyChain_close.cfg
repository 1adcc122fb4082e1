SPECIFICATION Spec
CONSTANTS
    one = one
    two = two
    None = None
    Orders = {o1}
    Proformas = {p1}
    Shipments = {s1}
    ManifestLines = {l1}
    Engines = {e1}
    Chassis = {c1}
    Baskets = {one}
    TotalOf <- MCTotalOf
    QuantityOf <- MCQuantityOf
    Quantities = {1}
    Requests = {r1}
    Endpoints <- ReceiptEndpoints
    MaxReceipt = 1
INVARIANT
    ClosedShipmentsAccountedFor
CHECK_DEADLOCK FALSE
