----------------------------- MODULE MCBackOffice -----------------------------
(***************************************************************************)
(* The smaller components, one desk of the back office each.  They share   *)
(* no rows: a behaviour works at one desk, chosen at the start, so that    *)
(* their state spaces add up and do not multiply.                          *)
(***************************************************************************)
EXTENDS AccessControl, PriceBook, Returns, HistoricalLoad, Numbering, LandedCosts,
        EditDistance, TLC

CONSTANT Desks

VARIABLE desk

deskVars == <<accessVars, priceVars, returnsVars, loadVars, numberingVars, costVars,
              distanceVars, desk>>

-------------------------------------------------------------------------------
MCFirstRoles == "admin" :> Permissions @@ "clerk" :> {}
MCFirstUsers == "ada" :> {"admin"}

People == {"ada", "ben"}
MCAsked ==
    UNION {
      [op : {"createUser"}, actor : {"ada"}, target : {"ben"}, roles : {{"clerk"}}],
      [op : {"updateUser"}, actor : People, target : People,
       roles : {{"clerk"}, {"admin"}}, status : {Same}],
      [op : {"updateUser"}, actor : People, target : People,
       roles : {Same}, status : {"ACTIVE", "INACTIVE"}],
      [op : {"deleteUser"}, actor : {"ben"}, target : {"ada"}],
      [op : {"requireReset"}, actor : {"ada"}, target : {"ben"}],
      [op : {"resetPassword"}, actor : {"ben"}],
      [op : {"createRole"}, actor : {"ada"}, role : {"extra"}, grants : {{}}],
      [op : {"updateRole"}, actor : {"ada"}, role : {"clerk"}, grants : {{ManageUsers}}],
      [op : {"deleteRole"}, actor : {"ada"}, role : {"extra"}]}

MCSkus == {"kit", "kil", "king", "kingdom"}
MCThreshold == [s \in MCSkus |-> IF s = "kil" THEN 2 ELSE 1]
MCNear == {{"kit", "kil"}}
MCDistance ==
    [p \in MCSkus \X MCSkus |->
        IF p[1] = p[2] THEN 0 ELSE IF {p[1], p[2]} \in MCNear THEN 1 ELSE 4]
MCLongPrefix == {<<"king", "kingdom">>, <<"kingdom", "king">>}
Kit(s, n) == [sku |-> s, engine |-> n, chassis |-> n]
MCFiles ==
    {<<Kit("king", 1), Kit("kingdom", 2), Kit("king", 3)>>,
     <<Kit("kit", 4), Kit("kil", 5)>>, <<Kit("kil", 5)>>,
     <<Kit("kit", 4), Kit("kit", 4)>>,
     <<[sku |-> "kit", engine |-> Blank, chassis |-> 9], Kit("king", 1)>>}

MCCosts == {<<100, 133>>, <<100, 50>>, <<7, 150>>}

MCWorkers == Permutations(AccessRequests)
-------------------------------------------------------------------------------
Init ==
    /\ desk \in Desks
    /\ AccessInit /\ PriceInit /\ ReturnsInit /\ LoadInit /\ NumberingInit /\ CostsInit
    /\ DistanceInit
    /\ desk # "distance" => left = <<>> /\ right = <<>>

At(d) == desk = d /\ UNCHANGED desk

Next ==
    \/ /\ At("access") /\ AccessNext
       /\ UNCHANGED <<priceVars, returnsVars, loadVars, numberingVars, costVars, distanceVars>>
    \/ /\ At("prices") /\ PriceNext
       /\ UNCHANGED <<accessVars, returnsVars, loadVars, numberingVars, costVars, distanceVars>>
    \/ /\ At("returns") /\ ReturnsNext
       /\ UNCHANGED <<accessVars, priceVars, loadVars, numberingVars, costVars, distanceVars>>
    \/ /\ At("load") /\ LoadNext
       /\ UNCHANGED <<accessVars, priceVars, returnsVars, numberingVars, costVars, distanceVars>>
    \/ /\ At("numbers") /\ NumberingNext
       /\ UNCHANGED <<accessVars, priceVars, returnsVars, loadVars, costVars, distanceVars>>
    \/ /\ At("costs") /\ CostsNext
       /\ UNCHANGED <<accessVars, priceVars, returnsVars, loadVars, numberingVars, distanceVars>>
    \/ /\ At("distance") /\ DistanceNext
       /\ UNCHANGED <<accessVars, priceVars, returnsVars, loadVars, numberingVars, costVars>>

Spec == Init /\ [][Next]_deskVars
=============================================================================
