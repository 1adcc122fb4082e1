------------------------------ MODULE UnitStates ------------------------------
(***************************************************************************)
(* The unit state machine: the legal status changes of a vehicle unit and  *)
(* the subset of them an IT administrator may perform as an adjustment.    *)
(* Source: src/src/units/unit-state-machine.ts, adjustment-map.ts.         *)
(***************************************************************************)

InTransit == "IN_TRANSIT"
CKD       == "IN_WAREHOUSE_CKD"   \* a kit
SKD       == "IN_WAREHOUSE_SKD"   \* a semi-knocked-down three-wheeler
CBU       == "IN_WAREHOUSE_CBU"   \* a built unit
InAssembly == "IN_ASSEMBLY"
InRepair  == "IN_REPAIR"

Warehoused == {CKD, SKD, CBU}
Assembled  == {SKD, CBU}
SoldStates == {"SOLD_AS_CKD", "SOLD_AS_CBU"}

UnitStatus ==
    Warehoused \cup SoldStates \cup
    {InTransit, InAssembly, InRepair, "DAMAGED", "DEMO", "INTERNAL_USE",
     "TRANSFERRED", "RETURNED", "CLAIMED_TO_SUPPLIER", "WRITTEN_OFF"}

(* The edges of UNIT_STATE_TRANSITIONS; WRITTEN_OFF is terminal. *)
Transitions ==
    ({InTransit} \X {CKD, "DAMAGED"})
    \cup ({CKD} \X {InAssembly, "SOLD_AS_CKD", "DAMAGED", "DEMO",
                    "INTERNAL_USE", "TRANSFERRED", "WRITTEN_OFF"})
    \cup ({InAssembly} \X (Warehoused \cup {"DAMAGED"}))
    \cup ({SKD} \X {InAssembly})
    \cup (Assembled \X {"SOLD_AS_CBU", "DAMAGED", "DEMO", "INTERNAL_USE",
                        "TRANSFERRED", InRepair, "WRITTEN_OFF"})
    \cup (SoldStates \X {"RETURNED"})
    \cup ({"DAMAGED"} \X {InRepair, "WRITTEN_OFF"})
    \cup ({InRepair, "DEMO", "INTERNAL_USE"} \X (Warehoused \cup {"WRITTEN_OFF"}))
    \cup ({"DEMO"} \X {"INTERNAL_USE"})
    \cup ({"TRANSFERRED"} \X Warehoused)
    \cup ({"RETURNED"} \X (Warehoused \cup {"DAMAGED", InRepair,
                           "CLAIMED_TO_SUPPLIER", "WRITTEN_OFF"}))
    \cup ({"CLAIMED_TO_SUPPLIER"} \X (Assembled \cup {InRepair, "WRITTEN_OFF"}))

(* assertUnitTransition passes; otherwise the request answers 409. *)
CanTransition(from, to) == <<from, to>> \in Transitions

(* The edges of ADJUSTMENT_MOVEMENTS. *)
AdjustmentEdges ==
    ({InTransit} \X {"DAMAGED"})
    \cup (Warehoused \X {"DAMAGED", "DEMO", "INTERNAL_USE", "WRITTEN_OFF"})
    \cup (Assembled \X {InRepair})
    \cup ({"DAMAGED"} \X {InRepair, "WRITTEN_OFF"})
    \cup ({"CLAIMED_TO_SUPPLIER"} \X (Assembled \cup {InRepair, "WRITTEN_OFF"}))
    \cup ({InRepair, "DEMO", "INTERNAL_USE"} \X (Warehoused \cup {"WRITTEN_OFF"}))
    \cup ({"DEMO"} \X {"INTERNAL_USE"})

(* Mutated form: the 400 for a legal workflow edge is dropped.              *)
AnyLegalEdge(from, to) == CanTransition(from, to)

IsAdjustment(from, to) == <<from, to>> \in AdjustmentEdges

(* The movement type ADJUSTMENT_MOVEMENTS gives an edge: the destination    *)
(* decides it, except for a restock, where the origin does.                *)
AdjustmentMovement(from, to) ==
    CASE to = "DAMAGED"          -> "DAMAGE"
      [] to = InRepair           -> "REPAIR_IN"
      [] to = "WRITTEN_OFF"      -> "WRITE_OFF"
      [] to \in {"DEMO", "INTERNAL_USE"} -> to
      [] from = InRepair         -> "RESTOCK_FROM_REPAIR"
      [] from \in {"DEMO", "INTERNAL_USE"} -> "RETURN"
      [] OTHER                   -> "ADJUSTMENT"

MovementType ==
    {"RECEIPT", "ASSEMBLY_START", "ASSEMBLY_COMPLETE", "SALE", "RETURN", "DAMAGE",
     "DEMO", "INTERNAL_USE", "REPAIR_IN", "RESTOCK_FROM_REPAIR", "WRITE_OFF",
     "ADJUSTMENT"}

(* A StockMovement row, as far as the properties tell rows apart.  A receipt *)
(* has no from-state.                                                       *)
NoState == "NONE"
Movement == [type : MovementType, from : UnitStatus \cup {NoState}, to : UnitStatus]
=============================================================================
