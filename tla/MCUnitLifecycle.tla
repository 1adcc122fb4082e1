---------------------------- MODULE MCUnitLifecycle ----------------------------
(* Instances of UnitLifecycle for TLC.  Two variants: one three-wheeler and *)
(* one two-wheeler.                                                         *)
EXTENDS UnitLifecycle, TLC

CONSTANTS keke, bike,    \* the units: a three-wheeler and a two-wheeler
          threeWheel, twoWheel

MCVariantOf == [u \in Units |-> IF u = keke \/ twoWheel \notin Variants THEN threeWheel ELSE twoWheel]
MCThreeWheelers == {threeWheel} \cap Variants
HttpEndpoints == Ops \ {"syncStatus"}
BatchEndpoints == {"startAssembly", "complete", "syncStatus"}

DemoTargets == {"DEMO", CKD, SKD}
DemoRepairTargets == {"DEMO", InRepair, CKD, SKD, CBU}
SyncTargets == {"DAMAGED"}
=============================================================================
