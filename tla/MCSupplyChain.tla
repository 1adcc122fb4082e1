----------------------------- MODULE MCSupplyChain -----------------------------
(* Instances of SupplyChain for TLC: a basket of one unit and one of two.   *)
EXTENDS SupplyChain

CONSTANTS one, two

QuantityIn(b) == IF b = one THEN 1 ELSE 2
MCQuantityOf == [S \in SUBSET Baskets |-> MapThenSumSet(QuantityIn, S)]
MCTotalOf == MCQuantityOf

AllEndpoints == Ops
ReceiptEndpoints == {"createOrder", "createShipment", "updateShipment", "receive",
                     "resolveVariance", "completeReceipt", "closeShipment"}

Symmetry ==
    Permutations(Requests) \cup Permutations(Proformas) \cup Permutations(ManifestLines)
      \cup Permutations(Engines) \cup Permutations(Chassis)
=============================================================================
