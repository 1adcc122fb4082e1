----------------------------- MODULE MCSalesOrders -----------------------------
(* Instances of SalesOrders for TLC: every line costs 1.                    *)
EXTENDS SalesOrders, FiniteSets, FiniteSetsExt, TLC

CONSTANTS p1, p2     \* the first payment is of 1, the second of 2

MCTotalOf == [S \in SUBSET Units |-> Cardinality(S)]
MCAmount == [p \in Payments |-> IF p = p1 THEN 1 ELSE 2]
MCSumOf == [S \in SUBSET Payments |-> MapThenSumSet(LAMBDA p : MCAmount[p], S)]

AllEndpoints == Ops
SalesEndpoints == Ops \ {"deliveryNote", "waybill", "dispatch", "proof", "close"}
PaidRejectEndpoints == {"create", "submit", "record", "confirm", "reject", "release"}

NoMoves == [kind \in MoverKind |-> {}]
MeanwhileMoves == [workflow |-> {InAssembly}, push |-> {CBU, "SOLD_AS_CKD"}]

Symmetry == Permutations(Requests)
UnitSymmetry == Permutations(Units) \cup Permutations(Orders)
=============================================================================
