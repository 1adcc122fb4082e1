----------------------------- MODULE ReturnsProofs -----------------------------
(***************************************************************************)
(* No unit is sold twice, for any units, orders and any number of requests *)
(* at the returns counter; and with one request at the counter and any     *)
(* number of movers elsewhere, a unit no push and no overtaken adjustment  *)
(* has moved is RETURNED exactly while one return of it is open.           *)
(***************************************************************************)
EXTENDS Returns, TLAPS

SalesTypes ==
    /\ lineOf \in [ReturnUnits -> ReturnOrders \cup {Nobody}]
    /\ orderIs \in [ReturnOrders -> {"open", "released", "cancelled"}]
    /\ sales \in [ReturnUnits -> Nat]

(* A unit that was sold once stays on the line of its released order.       *)
SoldOnce ==
    \A u \in ReturnUnits :
        \/ sales[u] = 0
        \/ sales[u] = 1 /\ lineOf[u] \in ReturnOrders /\ orderIs[lineOf[u]] = "released"

SalesInv == SalesTypes /\ SoldOnce

(* Nothing at the returns counter touches an order or its lines.            *)
LEMMA CounterLeavesOrders ==
    ASSUME SalesInv, NEW r \in Counter,
           \/ \E u \in ReturnUnits, o \in ReturnOrders : AskInitiate(r, u, o)
           \/ \E i \in DOMAIN returns :
                 \/ AskInspect(r, i)
                 \/ \E d \in Dispositions : AskResolve(r, i, d)
           \/ Inspect(r) \/ ReadUnit(r) \/ WriteInitiate(r) \/ WriteResolve(r)
    PROVE  UNCHANGED <<lineOf, orderIs, sales>>
BY DEF AskInitiate, AskInspect, AskResolve, Ask, Inspect, ReadUnit, WriteInitiate,
       WriteResolve, Moved, LineAfter, orderRows

(* Nor does a mover.                                                        *)
LEMMA MoversLeaveOrders ==
    ASSUME NEW m \in Movers, Moving(m)
    PROVE  UNCHANGED <<lineOf, orderIs, sales, returns, claims, asking>>
BY DEF Moving, AskAdjust, ReadAdjust, ReadPush, WriteMove, Go, orderRows, returnRows

LEMMA ReserveSales ==
    ASSUME SalesInv, Nobody \notin ReturnOrders,
           NEW u \in ReturnUnits, NEW o \in ReturnOrders, Reserve(u, o)
    PROVE  SalesInv'
<1>1. lineOf' = [lineOf EXCEPT ![u] = o] /\ lineOf[u] = Nobody /\ UNCHANGED <<orderIs, sales>>
  BY DEF Reserve
<1>2. SalesTypes'
  BY <1>1 DEF SalesInv, SalesTypes
<1>3. sales[u] = 0
  BY <1>1 DEF SalesInv, SoldOnce
<1>4. SoldOnce'
  BY <1>1, <1>3 DEF SalesInv, SalesTypes, SoldOnce
<1> QED
  BY <1>2, <1>4 DEF SalesInv

LEMMA SellSales ==
    ASSUME SalesInv, NEW o \in ReturnOrders, Sell(o)
    PROVE  SalesInv'
<1>1. /\ orderIs[o] = "open" /\ orderIs' = [orderIs EXCEPT ![o] = "released"]
      /\ sales' = [u \in ReturnUnits |-> IF u \in LinesOf(o) THEN sales[u] + 1 ELSE sales[u]]
      /\ UNCHANGED lineOf
  BY DEF Sell
<1>2. SalesTypes'
  BY <1>1 DEF SalesInv, SalesTypes
<1>3. \A u \in LinesOf(o) : sales[u] = 0 /\ lineOf[u] = o
  BY <1>1 DEF SalesInv, SoldOnce, LinesOf
<1>4. SoldOnce'
  <2> SUFFICES ASSUME NEW u \in ReturnUnits
               PROVE  \/ sales'[u] = 0
                      \/ sales'[u] = 1 /\ lineOf'[u] \in ReturnOrders
                         /\ orderIs'[lineOf'[u]] = "released"
    BY DEF SoldOnce
  <2>1. CASE u \in LinesOf(o)
    BY <1>1, <1>3, <2>1 DEF SalesInv, SalesTypes
  <2>2. CASE u \notin LinesOf(o)
    BY <1>1, <2>2 DEF SalesInv, SalesTypes, SoldOnce
  <2> QED
    BY <2>1, <2>2
<1> QED
  BY <1>2, <1>4 DEF SalesInv

LEMMA CancelSales ==
    ASSUME SalesInv, NEW o \in ReturnOrders, CancelOrder(o)
    PROVE  SalesInv'
<1>1. /\ orderIs[o] = "open" /\ orderIs' = [orderIs EXCEPT ![o] = "cancelled"]
      /\ lineOf' = [u \in ReturnUnits |-> IF lineOf[u] = o THEN Nobody ELSE lineOf[u]]
      /\ UNCHANGED sales
  BY DEF CancelOrder
<1>2. SalesTypes'
  BY <1>1 DEF SalesInv, SalesTypes
<1>3. SoldOnce'
  BY <1>1 DEF SalesInv, SalesTypes, SoldOnce
<1> QED
  BY <1>2, <1>3 DEF SalesInv

LEMMA StandingSales ==
    ASSUME SalesInv, UNCHANGED <<lineOf, orderIs, sales>>
    PROVE  SalesInv'
BY DEF SalesInv, SalesTypes, SoldOnce

LEMMA SalesStep ==
    ASSUME SalesInv, Nobody \notin ReturnOrders, [ReturnsNext]_returnsVars
    PROVE  SalesInv'
<1>1. CASE UNCHANGED returnsVars
  BY <1>1, StandingSales DEF returnsVars, orderRows
<1>2. ASSUME NEW u \in ReturnUnits, NEW o \in ReturnOrders, Reserve(u, o) PROVE SalesInv'
  BY <1>2, ReserveSales
<1>3. ASSUME NEW o \in ReturnOrders, Sell(o) \/ CancelOrder(o) PROVE SalesInv'
  BY <1>3, SellSales, CancelSales
<1>4. ASSUME NEW m \in Movers, Moving(m) PROVE SalesInv'
  BY <1>4, MoversLeaveOrders, StandingSales
<1>5. ASSUME NEW r \in Counter,
             \/ \E u \in ReturnUnits, o \in ReturnOrders : AskInitiate(r, u, o)
             \/ \E i \in DOMAIN returns :
                   \/ AskInspect(r, i)
                   \/ \E d \in Dispositions : AskResolve(r, i, d)
             \/ Inspect(r) \/ ReadUnit(r) \/ WriteInitiate(r) \/ WriteResolve(r)
      PROVE  SalesInv'
  BY <1>5, CounterLeavesOrders, StandingSales
<1> QED
  BY <1>1, <1>2, <1>3, <1>4, <1>5 DEF ReturnsNext

(* A released order keeps its units on its lines for ever and the index     *)
(* lets one line hold a unit, so a unit that came back is not sold again,   *)
(* whatever runs at the returns counter at the same time.                   *)
THEOREM SoldAtMostOnce ==
    ReturnsSpec => []NeverSoldTwice
<1>1. ReturnsInit => SalesInv
  BY DEF ReturnsInit, SalesInv, SalesTypes, SoldOnce
<1>2. SalesInv /\ [ReturnsNext]_returnsVars => SalesInv'
  BY SalesStep, ReturnsAssumption DEF ReturnsAssumption
<1>3. SalesInv => NeverSoldTwice
  BY DEF SalesInv, SoldOnce, SalesTypes, NeverSoldTwice
<1> QED
  BY <1>1, <1>2, <1>3, PTL DEF ReturnsSpec

-------------------------------------------------------------------------------
(* One request at a time.                                                   *)

Row == [unit : ReturnUnits, so : ReturnOrders, status : {"INITIATED", "INSPECTING", "RESOLVED"},
        disposition : Dispositions \cup {"PENDING_DECISION"}]

IsInitiate(q) == q.step = "initiate" /\ q.unit \in ReturnUnits /\ q.so \in ReturnOrders
IsResolve(q) ==
    /\ q.step = "resolve" /\ q.disposition \in Dispositions
    /\ q.return \in DOMAIN returns /\ returns[q.return].status = "INSPECTING"

(* What a request has read still stands: only it works on returns, and a    *)
(* sold unit that moves meanwhile has strayed.                              *)
AskStands(q) ==
    \/ q.step = "free"
    \/ q.step = "inspect" /\ q.return \in DOMAIN returns /\ returns[q.return].status = "INITIATED"
    \/ IsInitiate(q) \/ IsResolve(q)
    \/ q.step = "write" /\ IsResolve(q.ask)
    \/ /\ q.step = "write" /\ IsInitiate(q.ask)
       /\ stock[q.ask.unit] \in SoldStates \/ q.ask.unit \in strayed

(* What a mover has read: the unit may have moved on since.                 *)
MoveStands(q) ==
    \/ q.step = "free"
    \/ q.step = "push" /\ q.unit \in ReturnUnits /\ q.to \in UnitStatus
    \/ q.step \in {"asked", "adjust"} /\ q.unit \in ReturnUnits /\ IsAdjustment(q.seen, q.to)

MoverInv ==
    /\ moving = [m \in Movers |-> moving[m]]
    /\ \A m \in Movers : MoveStands(moving[m])

Open(i) == i \in DOMAIN returns /\ returns[i].status # "RESOLVED"

CounterTypes ==
    /\ stock \in [ReturnUnits -> UnitStatus]
    /\ returns \in Seq(Row)
    /\ asking = [r \in Counter |-> asking[r]]
    /\ \A r \in Counter : AskStands(asking[r])

OneOpenReturn ==
    /\ \A i \in DOMAIN returns :
          Open(i) /\ returns[i].unit \notin strayed => stock[returns[i].unit] = "RETURNED"
    /\ \A i, j \in DOMAIN returns :
          Open(i) /\ Open(j) /\ returns[i].unit = returns[j].unit /\ returns[i].unit \notin strayed
          => i = j
    /\ \A u \in ReturnUnits \ strayed : stock[u] = "RETURNED" =>
          \E i \in DOMAIN returns : Open(i) /\ returns[i].unit = u

ClaimsRecorded ==
    /\ claims = {i \in DOMAIN returns : returns[i].disposition = "SUPPLIER_WARRANTY_CLAIM"}
    /\ \A i \in DOMAIN returns : Open(i) => returns[i].disposition = "PENDING_DECISION"

CounterInv == CounterTypes /\ OneOpenReturn /\ ClaimsRecorded

OneAtATime == \A r, s \in Counter : r = s

LEMMA EdgesOfReturns ==
    ASSUME NEW from, NEW to
    PROVE  /\ CanTransition(from, "RETURNED") <=> from \in SoldStates
           /\ IsAdjustment(from, to) =>
                 /\ to \in UnitStatus \ {"RETURNED"} /\ from \notin SoldStates /\ from # "RETURNED"
           /\ ~(from \in SoldStates /\ CanTransition(from, "SOLD_AS_CBU"))
           /\ ~CanTransition("RETURNED", "SOLD_AS_CBU")
           /\ "RETURNED" \notin SoldStates
BY DEF CanTransition, Transitions, IsAdjustment, AdjustmentEdges, SoldStates, UnitStatus, Warehoused,
       Assembled, InTransit, CKD, SKD, CBU, InAssembly, InRepair

LEMMA TargetsOfReturns ==
    ASSUME NEW d \in Dispositions
    PROVE  Target(d) \in UnitStatus \ {"RETURNED"}
BY DEF Target, Dispositions, UnitStatus, Warehoused, SoldStates, InTransit, CKD, SKD, CBU,
       InAssembly, InRepair

LEMMA RowsAreTyped ==
    ASSUME CounterInv
    PROVE  /\ Len(returns) \in Nat /\ DOMAIN returns = 1 .. Len(returns)
           /\ \A i \in DOMAIN returns : returns[i] \in Row
<1>1. returns \in Seq(Row)
  BY DEF CounterInv, CounterTypes
<1> QED
  BY <1>1

(* Moves of units elsewhere: those that have not strayed go not into        *)
(* RETURNED and are neither sold nor returned.                              *)
LEMMA MovesElsewhere ==
    ASSUME CounterInv, stock' \in [ReturnUnits -> UnitStatus],
           strayed \subseteq strayed',
           \A u \in ReturnUnits \ strayed' : stock'[u] # stock[u] =>
              stock[u] \notin SoldStates \cup {"RETURNED"} /\ stock'[u] # "RETURNED",
           UNCHANGED <<returns, claims, asking>>
    PROVE  CounterInv'
<1>1. CounterTypes'
  <2>1. \A r \in Counter : AskStands(asking[r])'
    <3> TAKE r \in Counter
    <3>1. AskStands(asking[r])
      BY DEF CounterInv, CounterTypes
    <3> QED
      BY <3>1 DEF AskStands, IsInitiate, IsResolve
  <2> QED
    BY <2>1 DEF CounterInv, CounterTypes
<1>2. OneOpenReturn'
  <2>1. \A i \in DOMAIN returns : returns[i].unit \in ReturnUnits
    BY RowsAreTyped DEF Row
  <2> QED
    BY <2>1 DEF CounterInv, OneOpenReturn, Open
<1>3. ClaimsRecorded'
  BY DEF CounterInv, ClaimsRecorded, Open
<1> QED
  BY <1>1, <1>2, <1>3 DEF CounterInv

(* The one request goes on to q and nothing else changes.                   *)
LEMMA RequestGoesOn ==
    ASSUME CounterInv, OneAtATime, NEW r \in Counter, NEW q,
           asking' = [asking EXCEPT ![r] = q], AskStands(q),
           UNCHANGED <<stock, returns, claims, strayed>>
    PROVE  CounterInv'
<1>1. AskStands(q)'
  BY DEF AskStands, IsInitiate, IsResolve
<1>2. \A s \in Counter : asking'[s] = q
  BY DEF OneAtATime, CounterInv, CounterTypes
<1>3. \A s \in Counter : AskStands(asking[s])'
  BY <1>1, <1>2 DEF AskStands, IsInitiate, IsResolve
<1>4. asking' = [s \in Counter |-> asking'[s]]
  BY DEF CounterInv, CounterTypes
<1>5. CounterTypes'
  BY <1>3, <1>4 DEF CounterInv, CounterTypes
<1>6. OneOpenReturn' /\ ClaimsRecorded'
  BY DEF CounterInv, OneOpenReturn, ClaimsRecorded, Open
<1> QED
  BY <1>5, <1>6 DEF CounterInv

(* The request ends.                                                        *)
LEMMA RequestDone ==
    ASSUME CounterInv, OneAtATime, NEW r \in Counter,
           asking' = [asking EXCEPT ![r] = NotAsking],
           stock' \in [ReturnUnits -> UnitStatus], returns' \in Seq(Row)
    PROVE  CounterTypes'
<1>1. \A s \in Counter : asking'[s] = NotAsking
  BY DEF OneAtATime, CounterInv, CounterTypes
<1>2. \A s \in Counter : AskStands(asking[s])'
  BY <1>1 DEF AskStands, NotAsking
<1>3. asking' = [s \in Counter |-> asking'[s]]
  BY DEF CounterInv, CounterTypes
<1> QED
  BY <1>2, <1>3 DEF CounterTypes

LEMMA WriteInitiateInv ==
    ASSUME CounterInv, OneAtATime, NEW r \in Counter, WriteInitiate(r)
    PROVE  CounterInv'
<1>0. PICK q : q = asking[r].ask
  OBVIOUS
<1>1. asking[r].step = "write" /\ q.step = "initiate"
  BY <1>0 DEF WriteInitiate
<1>2. IsInitiate(q) /\ (stock[q.unit] \in SoldStates \/ q.unit \in strayed)
  <2>1. AskStands(asking[r])
    BY DEF CounterInv, CounterTypes
  <2> QED
    BY <1>0, <1>1, <2>1 DEF AskStands, IsInitiate, IsResolve
<1>3. PICK u : u = q.unit
  OBVIOUS
<1>4. u \in ReturnUnits /\ (stock[u] \in SoldStates \/ u \in strayed)
  BY <1>2, <1>3 DEF IsInitiate
<1>5. PICK row : row = [unit |-> u, so |-> q.so, status |-> "INITIATED",
                        disposition |-> "PENDING_DECISION"]
  OBVIOUS
<1>6. /\ stock' = [stock EXCEPT ![u] = "RETURNED"] /\ returns' = Append(returns, row)
      /\ asking' = [asking EXCEPT ![r] = NotAsking] /\ UNCHANGED <<claims, strayed>>
  BY <1>0, <1>1, <1>3, <1>5 DEF WriteInitiate, Moved, MovedUnit, MovesTo
<1>7. /\ row \in Row /\ row.unit = u /\ row.status = "INITIATED"
      /\ row.disposition = "PENDING_DECISION"
  BY <1>2, <1>4, <1>5 DEF Row, IsInitiate
<1>8. returns \in Seq(Row) /\ stock \in [ReturnUnits -> UnitStatus]
  BY DEF CounterInv, CounterTypes
<1>9. /\ Len(returns) \in Nat /\ DOMAIN returns = 1 .. Len(returns)
      /\ \A i \in DOMAIN returns : returns[i].unit \in ReturnUnits
  BY RowsAreTyped DEF Row
<1>10. PICK n : n = Len(returns) + 1
  OBVIOUS
<1>11. /\ DOMAIN returns' = DOMAIN returns \cup {n} /\ n \notin DOMAIN returns
       /\ returns'[n] = row /\ \A i \in DOMAIN returns : returns'[i] = returns[i]
       /\ returns' \in Seq(Row)
  BY <1>6, <1>7, <1>8, <1>9, <1>10
<1>12. CounterTypes'
  <2>1. stock' \in [ReturnUnits -> UnitStatus]
    BY <1>6, <1>8 DEF UnitStatus
  <2> QED
    BY <1>6, <1>11, <2>1, RequestDone
<1>13. u \notin strayed => \A i \in DOMAIN returns : Open(i) => returns[i].unit # u
  BY <1>4, EdgesOfReturns DEF CounterInv, OneOpenReturn
<1>14. \A i : Open(i)' <=> Open(i) \/ i = n
  BY <1>7, <1>11 DEF Open
<1>15. OneOpenReturn'
  <2>1. \A v \in ReturnUnits : stock'[v] = IF v = u THEN "RETURNED" ELSE stock[v]
    BY <1>6, <1>8
  <2>2. ASSUME NEW i \in DOMAIN returns', Open(i)', returns'[i].unit \notin strayed'
        PROVE  stock'[returns'[i].unit] = "RETURNED"
    <3>1. CASE i = n
      BY <1>4, <1>7, <1>11, <2>1, <3>1
    <3>2. CASE i # n
      <4>1. i \in DOMAIN returns /\ Open(i) /\ returns'[i] = returns[i]
        BY <1>11, <1>14, <2>2, <3>2
      <4>2. stock[returns[i].unit] = "RETURNED" /\ returns[i].unit \in ReturnUnits
        BY <1>6, <1>9, <2>2, <4>1 DEF CounterInv, OneOpenReturn
      <4> QED
        BY <2>1, <4>1, <4>2
    <3> QED
      BY <3>1, <3>2
  <2>3. ASSUME NEW i \in DOMAIN returns', NEW k \in DOMAIN returns', Open(i)', Open(k)',
               returns'[i].unit = returns'[k].unit, returns'[i].unit \notin strayed'
        PROVE  i = k
    BY <1>6, <1>7, <1>11, <1>13, <1>14, <2>3 DEF CounterInv, OneOpenReturn
  <2>4. ASSUME NEW v \in ReturnUnits \ strayed', stock'[v] = "RETURNED"
        PROVE  \E i \in DOMAIN returns' : Open(i)' /\ returns'[i].unit = v
    <3>1. CASE v = u
      BY <1>7, <1>11, <1>14, <3>1
    <3>2. CASE v # u
      BY <1>6, <1>11, <1>14, <2>1, <2>4, <3>2 DEF CounterInv, OneOpenReturn
    <3> QED
      BY <3>1, <3>2
  <2> QED
    BY <2>2, <2>3, <2>4 DEF OneOpenReturn
<1>16. ClaimsRecorded'
  BY <1>6, <1>7, <1>11, <1>14 DEF CounterInv, ClaimsRecorded
<1> QED
  BY <1>12, <1>15, <1>16 DEF CounterInv

LEMMA WriteResolveInv ==
    ASSUME CounterInv, OneAtATime, NEW r \in Counter, WriteResolve(r)
    PROVE  CounterInv'
<1>0. PICK q : q = asking[r].ask
  OBVIOUS
<1>1. asking[r].step = "write" /\ q.step = "resolve"
  BY <1>0 DEF WriteResolve
<1>2. IsResolve(q)
  <2>1. AskStands(asking[r])
    BY DEF CounterInv, CounterTypes
  <2> QED
    BY <1>0, <1>1, <2>1 DEF AskStands, IsInitiate, IsResolve
<1>3. PICK k : k = q.return
  OBVIOUS
<1>4. PICK d : d = q.disposition
  OBVIOUS
<1>5. d \in Dispositions /\ k \in DOMAIN returns /\ Open(k)
  BY <1>2, <1>3, <1>4 DEF IsResolve, Open
<1>6. PICK u : u = returns[k].unit
  OBVIOUS
<1>7. PICK row : row = Decided(returns[k], d)
  OBVIOUS
<1>8. returns \in Seq(Row) /\ stock \in [ReturnUnits -> UnitStatus]
  BY DEF CounterInv, CounterTypes
<1>9. /\ Len(returns) \in Nat /\ DOMAIN returns = 1 .. Len(returns)
      /\ \A i \in DOMAIN returns : returns[i] \in Row /\ returns[i].unit \in ReturnUnits
  BY RowsAreTyped DEF Row
<1>10. /\ stock' = [stock EXCEPT ![u] = Target(d)] /\ returns' = [returns EXCEPT ![k] = row]
       /\ asking' = [asking EXCEPT ![r] = NotAsking]
       /\ UNCHANGED strayed
       /\ claims' = IF d = "SUPPLIER_WARRANTY_CLAIM" THEN claims \cup {k} ELSE claims
  BY <1>0, <1>1, <1>3, <1>4, <1>6, <1>7 DEF WriteResolve, Moved, MovedUnit, MovesTo
<1>11. row \in Row /\ row.unit = u /\ row.status = "RESOLVED" /\ row.disposition = d
  <2>1. returns[k] \in Row
    BY <1>5, <1>9
  <2> QED
    BY <1>5, <1>6, <1>7, <2>1 DEF Row, Decided
<1>12. /\ DOMAIN returns' = DOMAIN returns /\ returns' \in Seq(Row)
       /\ returns'[k] = row /\ \A i \in DOMAIN returns \ {k} : returns'[i] = returns[i]
  BY <1>5, <1>8, <1>9, <1>10, <1>11
<1>13. CounterTypes'
  <2>1. stock' \in [ReturnUnits -> UnitStatus]
    BY <1>5, <1>8, <1>10, TargetsOfReturns
  <2> QED
    BY <1>10, <1>12, <2>1, RequestDone
<1>14. \A i : Open(i)' <=> Open(i) /\ i # k
  BY <1>5, <1>11, <1>12 DEF Open
<1>15. OneOpenReturn'
  <2>0. u \in ReturnUnits
    BY <1>5, <1>6, <1>9
  <2>1. \A v \in ReturnUnits : stock'[v] = IF v = u THEN Target(d) ELSE stock[v]
    BY <1>8, <1>10, <2>0
  <2>2. u \notin strayed => \A i \in DOMAIN returns : Open(i) /\ i # k => returns[i].unit # u
    BY <1>5, <1>6 DEF CounterInv, OneOpenReturn
  <2>3. ASSUME NEW i \in DOMAIN returns', Open(i)', returns'[i].unit \notin strayed'
        PROVE  stock'[returns'[i].unit] = "RETURNED"
    <3>1. i \in DOMAIN returns /\ Open(i) /\ i # k /\ returns'[i] = returns[i]
      BY <1>12, <1>14, <2>3
    <3>2. stock[returns[i].unit] = "RETURNED" /\ returns[i].unit \in ReturnUnits
      BY <1>9, <1>10, <2>3, <3>1 DEF CounterInv, OneOpenReturn
    <3>3. returns[i].unit # u
      BY <1>10, <2>2, <2>3, <3>1
    <3> QED
      BY <2>1, <3>1, <3>2, <3>3
  <2>4. ASSUME NEW i \in DOMAIN returns', NEW l \in DOMAIN returns', Open(i)', Open(l)',
               returns'[i].unit = returns'[l].unit, returns'[i].unit \notin strayed'
        PROVE  i = l
    BY <1>10, <1>12, <1>14, <2>4 DEF CounterInv, OneOpenReturn
  <2>5. ASSUME NEW v \in ReturnUnits \ strayed', stock'[v] = "RETURNED"
        PROVE  \E i \in DOMAIN returns' : Open(i)' /\ returns'[i].unit = v
    <3>1. v # u /\ stock[v] = "RETURNED"
      BY <1>5, <2>1, <2>5, TargetsOfReturns
    <3>2. PICK i \in DOMAIN returns : Open(i) /\ returns[i].unit = v
      BY <1>10, <2>5, <3>1 DEF CounterInv, OneOpenReturn
    <3>3. i # k
      BY <1>6, <3>1, <3>2
    <3> QED
      BY <1>12, <1>14, <3>2, <3>3
  <2> QED
    BY <2>3, <2>4, <2>5 DEF OneOpenReturn
<1>16. ClaimsRecorded'
  <2>1. returns[k].disposition = "PENDING_DECISION"
    BY <1>5 DEF CounterInv, ClaimsRecorded
  <2> QED
    BY <1>5, <1>10, <1>11, <1>12, <1>14, <2>1 DEF CounterInv, ClaimsRecorded
<1> QED
  BY <1>13, <1>15, <1>16 DEF CounterInv

LEMMA InspectInv ==
    ASSUME CounterInv, OneAtATime, NEW r \in Counter, Inspect(r)
    PROVE  CounterInv'
<1>1. PICK k : k = asking[r].return
  OBVIOUS
<1>2. k \in DOMAIN returns /\ returns[k].status = "INITIATED"
  <2>1. AskStands(asking[r]) /\ asking[r].step = "inspect"
    BY DEF CounterInv, CounterTypes, Inspect
  <2> QED
    BY <1>1, <2>1 DEF AskStands, IsInitiate, IsResolve
<1>3. PICK row : row = [returns[k] EXCEPT !.status = "INSPECTING"]
  OBVIOUS
<1>4. /\ returns' = [returns EXCEPT ![k] = row] /\ UNCHANGED <<stock, claims, strayed>>
      /\ asking' = [asking EXCEPT ![r] = NotAsking]
  BY <1>1, <1>2, <1>3 DEF Inspect
<1>5. returns \in Seq(Row) /\ stock \in [ReturnUnits -> UnitStatus]
  BY DEF CounterInv, CounterTypes
<1>6. /\ Len(returns) \in Nat /\ DOMAIN returns = 1 .. Len(returns)
      /\ \A i \in DOMAIN returns : returns[i] \in Row
  BY RowsAreTyped
<1>7. /\ row \in Row /\ row.unit = returns[k].unit /\ row.status = "INSPECTING"
      /\ row.disposition = returns[k].disposition
  BY <1>2, <1>3, <1>6 DEF Row
<1>8. /\ DOMAIN returns' = DOMAIN returns /\ returns' \in Seq(Row)
      /\ returns'[k] = row /\ \A i \in DOMAIN returns \ {k} : returns'[i] = returns[i]
  BY <1>2, <1>4, <1>5, <1>6, <1>7
<1>9. \A i : Open(i)' <=> Open(i)
  BY <1>2, <1>7, <1>8 DEF Open
<1>10. \A i \in DOMAIN returns : returns'[i].unit = returns[i].unit
                              /\ returns'[i].disposition = returns[i].disposition
  BY <1>7, <1>8
<1>11. CounterTypes'
  BY <1>4, <1>5, <1>8, RequestDone
<1>12. OneOpenReturn'
  BY <1>4, <1>8, <1>9, <1>10 DEF CounterInv, OneOpenReturn
<1>13. ClaimsRecorded'
  BY <1>4, <1>8, <1>9, <1>10 DEF CounterInv, ClaimsRecorded
<1> QED
  BY <1>11, <1>12, <1>13 DEF CounterInv

LEMMA AsksInv ==
    ASSUME CounterInv, OneAtATime, NEW r \in Counter,
           \/ \E u \in ReturnUnits, o \in ReturnOrders : AskInitiate(r, u, o)
           \/ \E i \in DOMAIN returns :
                 \/ AskInspect(r, i)
                 \/ \E d \in Dispositions : AskResolve(r, i, d)
    PROVE  CounterInv'
<1>1. ASSUME NEW u \in ReturnUnits, NEW o \in ReturnOrders, AskInitiate(r, u, o)
      PROVE  CounterInv'
  <2>1. PICK q : q = [step |-> "initiate", unit |-> u, so |-> o]
    OBVIOUS
  <2>2. AskStands(q)
    BY <2>1 DEF AskStands, IsInitiate
  <2>3. asking' = [asking EXCEPT ![r] = q] /\ UNCHANGED <<stock, returns, claims, strayed>>
    BY <1>1, <2>1 DEF AskInitiate, Ask, returnRows
  <2> QED
    BY <2>2, <2>3, RequestGoesOn
<1>2. ASSUME NEW i \in DOMAIN returns, AskInspect(r, i) PROVE CounterInv'
  <2>1. PICK q : q = [step |-> "inspect", return |-> i]
    OBVIOUS
  <2>2. AskStands(q)
    BY <1>2, <2>1 DEF AskStands, AskInspect
  <2>3. asking' = [asking EXCEPT ![r] = q] /\ UNCHANGED <<stock, returns, claims, strayed>>
    BY <1>2, <2>1 DEF AskInspect, Ask, returnRows
  <2> QED
    BY <2>2, <2>3, RequestGoesOn
<1>3. ASSUME NEW i \in DOMAIN returns, NEW d \in Dispositions, AskResolve(r, i, d)
      PROVE  CounterInv'
  <2>1. PICK q : q = [step |-> "resolve", return |-> i, disposition |-> d]
    OBVIOUS
  <2>2. AskStands(q)
    BY <1>3, <2>1 DEF AskStands, IsResolve, AskResolve
  <2>3. asking' = [asking EXCEPT ![r] = q] /\ UNCHANGED <<stock, returns, claims, strayed>>
    BY <1>3, <2>1 DEF AskResolve, Ask, returnRows
  <2> QED
    BY <2>2, <2>3, RequestGoesOn
<1> QED
  BY <1>1, <1>2, <1>3

LEMMA ReadUnitInv ==
    ASSUME CounterInv, OneAtATime, NEW r \in Counter, ReadUnit(r)
    PROVE  CounterInv'
<1>1. PICK q : q = asking[r]
  OBVIOUS
<1>2. q.step \in {"initiate", "resolve"} /\ UNCHANGED <<stock, returns, claims, strayed>>
  BY <1>1 DEF ReadUnit, returnRows
<1>3. AskStands(q)
  BY <1>1 DEF CounterInv, CounterTypes
<1>4. CASE CanTransition(stock[MovedUnit(q)], MovesTo(q))
  <2>1. PICK w : w = [step |-> "write", ask |-> q]
    OBVIOUS
  <2>2. asking' = [asking EXCEPT ![r] = w]
    BY <1>1, <1>4, <2>1 DEF ReadUnit
  <2>3. w.step = "write" /\ w.ask = q
    BY <2>1
  <2>4. CASE q.step = "initiate"
    <3>1. IsInitiate(q)
      BY <1>3, <2>4 DEF AskStands, IsInitiate, IsResolve
    <3>2. stock[q.unit] \in SoldStates
      BY <1>4, <2>4, EdgesOfReturns DEF MovedUnit, MovesTo
    <3> QED
      BY <1>2, <2>2, <2>3, <3>1, <3>2, RequestGoesOn DEF AskStands
  <2>5. CASE q.step = "resolve"
    <3>1. IsResolve(q)
      BY <1>3, <2>5 DEF AskStands, IsInitiate, IsResolve
    <3>2. AskStands(w)
      BY <2>3, <3>1 DEF AskStands
    <3> QED
      BY <1>2, <2>2, <3>2, RequestGoesOn
  <2> QED
    BY <1>2, <2>4, <2>5
<1>5. CASE ~CanTransition(stock[MovedUnit(q)], MovesTo(q))
  <2>1. asking' = [asking EXCEPT ![r] = NotAsking]
    BY <1>1, <1>5 DEF ReadUnit
  <2>2. AskStands(NotAsking)
    BY DEF AskStands, NotAsking
  <2> QED
    BY <1>2, <2>1, <2>2, RequestGoesOn
<1> QED
  BY <1>4, <1>5

LEMMA ElsewhereInv ==
    ASSUME CounterInv,
           \/ \E u \in ReturnUnits, o \in ReturnOrders : Reserve(u, o)
           \/ \E o \in ReturnOrders : Sell(o) \/ CancelOrder(o)
    PROVE  CounterInv'
<1>0. stock \in [ReturnUnits -> UnitStatus]
  BY DEF CounterInv, CounterTypes
<1>1. ASSUME NEW o \in ReturnOrders, Sell(o) PROVE CounterInv'
  <2>1. /\ stock' = [u \in ReturnUnits |-> IF u \in LinesOf(o) THEN "SOLD_AS_CBU" ELSE stock[u]]
        /\ UNCHANGED <<returns, claims, asking, strayed>>
        /\ \A u \in LinesOf(o) : CanTransition(stock[u], "SOLD_AS_CBU")
    BY <1>1 DEF Sell, returnRows
  <2>2. \A u \in LinesOf(o) : stock[u] \notin SoldStates \cup {"RETURNED"}
    BY <2>1, EdgesOfReturns
  <2>3. stock' \in [ReturnUnits -> UnitStatus]
    BY <1>0, <2>1 DEF UnitStatus, SoldStates
  <2> QED
    BY <2>1, <2>2, <2>3, MovesElsewhere
<1>2. ASSUME UNCHANGED <<stock, returns, claims, asking, strayed>> PROVE CounterInv'
  BY <1>0, <1>2, MovesElsewhere
<1> QED
  BY <1>1, <1>2 DEF Reserve, CancelOrder, returnRows

(* An adjustment in time moves no sold and no returned unit; anything else  *)
(* makes the unit one that has strayed.                                     *)
LEMMA MoversInv ==
    ASSUME ReturnsAssumption, CounterInv, MoverInv, NEW m \in Movers, Moving(m)
    PROVE  CounterInv'
<1>0. stock \in [ReturnUnits -> UnitStatus]
  BY DEF CounterInv, CounterTypes
<1>1. UNCHANGED <<returns, claims, asking>>
  BY MoversLeaveOrders
<1>2. CASE WriteMove(m)
  <2>1. PICK q : q = moving[m]
    OBVIOUS
  <2>2. /\ q.step \in {"adjust", "push"} /\ stock' = [stock EXCEPT ![q.unit] = q.to]
        /\ strayed' = IF InTime(q) THEN strayed ELSE strayed \cup {q.unit}
    BY <1>2, <2>1 DEF WriteMove
  <2>3. MoveStands(q)
    BY <2>1 DEF MoverInv
  <2>4. q.unit \in ReturnUnits /\ q.to \in UnitStatus
    BY <2>2, <2>3, EdgesOfReturns DEF MoveStands
  <2>5. stock' \in [ReturnUnits -> UnitStatus]
    BY <1>0, <2>2, <2>4
  <2>6. ASSUME NEW u \in ReturnUnits \ strayed', stock'[u] # stock[u]
        PROVE  stock[u] \notin SoldStates \cup {"RETURNED"} /\ stock'[u] # "RETURNED"
    <3>1. u = q.unit /\ stock'[u] = q.to
      BY <1>0, <2>2, <2>4, <2>6
    <3>2. q.step = "adjust" /\ stock[u] = q.seen
      BY <2>2, <2>6, <3>1 DEF InTime
    <3>3. IsAdjustment(stock[u], q.to)
      BY <2>3, <3>2 DEF MoveStands
    <3> QED
      BY <3>1, <3>3, EdgesOfReturns
  <2> QED
    BY <1>1, <2>2, <2>5, <2>6, MovesElsewhere
<1>3. CASE ~WriteMove(m)
  <2>1. UNCHANGED <<stock, strayed>>
    BY <1>3 DEF Moving, AskAdjust, ReadAdjust, ReadPush, Go
  <2> QED
    BY <1>0, <1>1, <2>1, MovesElsewhere
<1> QED
  BY <1>2, <1>3

(* A mover goes on with what it has read, and another one does not matter.  *)
LEMMA MoverGoes ==
    ASSUME MoverInv, NEW m \in Movers, NEW q, moving' = [moving EXCEPT ![m] = q], MoveStands(q)
    PROVE  MoverInv'
<1>1. \A k \in Movers : moving'[k] = IF k = m THEN q ELSE moving[k]
  BY DEF MoverInv
<1>2. moving' = [k \in Movers |-> moving'[k]]
  BY DEF MoverInv
<1>3. \A k \in Movers : MoveStands(moving'[k])
  BY <1>1 DEF MoverInv
<1> QED
  BY <1>2, <1>3 DEF MoverInv, MoveStands

LEMMA MoverStep ==
    ASSUME ReturnsAssumption, CounterInv, MoverInv, NEW m \in Movers, Moving(m)
    PROVE  MoverInv'
<1>1. ASSUME NEW u \in ReturnUnits, NEW to \in Restocks, AskAdjust(m, u, to) PROVE MoverInv'
  <2>1. PICK q : q = [step |-> "asked", unit |-> u, to |-> to, seen |-> stock[u]]
    OBVIOUS
  <2>2. MoveStands(q)
    BY <1>1, <2>1 DEF MoveStands, AskAdjust
  <2>3. moving' = [moving EXCEPT ![m] = q]
    BY <1>1, <2>1 DEF AskAdjust, Go
  <2> QED
    BY <2>2, <2>3, MoverGoes
<1>2. ASSUME NEW u \in ReturnUnits, NEW to \in Pushes, ReadPush(m, u, to) PROVE MoverInv'
  <2>1. PICK q : q = [step |-> "push", unit |-> u, to |-> to]
    OBVIOUS
  <2>2. MoveStands(q)
    BY <2>1 DEF MoveStands, ReturnsAssumption
  <2>3. moving' = [moving EXCEPT ![m] = q]
    BY <1>2, <2>1 DEF ReadPush, Go
  <2> QED
    BY <2>2, <2>3, MoverGoes
<1>3. MoveStands(NotAsking)
  BY DEF MoveStands, NotAsking
<1>4. CASE ReadAdjust(m)
  <2>1. PICK s : s = moving[m]
    OBVIOUS
  <2>2. PICK q : q = [step |-> "adjust", unit |-> s.unit, to |-> s.to, seen |-> s.seen]
    OBVIOUS
  <2>3. s.step = "asked" /\ MoveStands(s)
    BY <1>4, <2>1 DEF ReadAdjust, MoverInv
  <2>4. MoveStands(q)
    BY <2>2, <2>3 DEF MoveStands
  <2>5. moving' = [moving EXCEPT ![m] = q] \/ moving' = [moving EXCEPT ![m] = NotAsking]
    BY <1>4, <2>1, <2>2 DEF ReadAdjust, Go
  <2> QED
    BY <1>3, <2>4, <2>5, MoverGoes
<1>5. CASE WriteMove(m)
  BY <1>3, <1>5, MoverGoes DEF WriteMove
<1> QED
  BY <1>1, <1>2, <1>4, <1>5 DEF Moving

LEMMA CounterStep ==
    ASSUME ReturnsAssumption, CounterInv, MoverInv, OneAtATime, [ReturnsNext]_returnsVars
    PROVE  CounterInv' /\ MoverInv'
<1>1. CASE UNCHANGED returnsVars
  <2>1. stock \in [ReturnUnits -> UnitStatus]
    BY DEF CounterInv, CounterTypes
  <2>2. UNCHANGED <<stock, returns, claims, asking, moving, strayed>>
    BY <1>1 DEF returnsVars, returnRows
  <2>3. CounterInv'
    BY <2>1, <2>2, MovesElsewhere
  <2>4. MoverInv'
    BY <2>2 DEF MoverInv, MoveStands
  <2> QED
    BY <2>3, <2>4
<1>2. ASSUME NEW m \in Movers, Moving(m) PROVE CounterInv' /\ MoverInv'
  BY <1>2, MoversInv, MoverStep
<1>3. ASSUME UNCHANGED moving PROVE MoverInv'
  BY <1>3 DEF MoverInv, MoveStands
<1>4. ASSUME NEW r \in Counter,
             \/ \E u \in ReturnUnits, o \in ReturnOrders : AskInitiate(r, u, o)
             \/ \E i \in DOMAIN returns :
                   \/ AskInspect(r, i)
                   \/ \E d \in Dispositions : AskResolve(r, i, d)
      PROVE  CounterInv' /\ MoverInv'
  <2>1. UNCHANGED moving
    BY <1>4 DEF AskInitiate, AskInspect, AskResolve, Ask
  <2> QED
    BY <1>3, <1>4, <2>1, AsksInv
<1>5. ASSUME NEW r \in Counter,
             Inspect(r) \/ ReadUnit(r) \/ WriteInitiate(r) \/ WriteResolve(r)
      PROVE  CounterInv' /\ MoverInv'
  <2>1. UNCHANGED moving
    BY <1>5 DEF Inspect, ReadUnit, WriteInitiate, WriteResolve
  <2> QED
    BY <1>3, <1>5, <2>1, InspectInv, ReadUnitInv, WriteInitiateInv, WriteResolveInv
<1>6. ASSUME \/ \E u \in ReturnUnits, o \in ReturnOrders : Reserve(u, o)
             \/ \E o \in ReturnOrders : Sell(o) \/ CancelOrder(o)
      PROVE  CounterInv' /\ MoverInv'
  <2>1. UNCHANGED moving
    BY <1>6 DEF Reserve, Sell, CancelOrder
  <2> QED
    BY <1>3, <1>6, <2>1, ElsewhereInv
<1> QED
  BY <1>1, <1>2, <1>4, <1>5, <1>6 DEF ReturnsNext

LEMMA CounterInitInv == ASSUME ReturnsInit PROVE CounterInv /\ MoverInv
<1>1. returns = <<>> /\ claims = {} /\ \A u \in ReturnUnits : stock[u] = CBU
  BY DEF ReturnsInit
<1>2. CounterTypes
  BY DEF ReturnsInit, CounterTypes, AskStands, NotAsking, UnitStatus, Warehoused
<1>3. OneOpenReturn /\ ClaimsRecorded
  BY <1>1 DEF OneOpenReturn, ClaimsRecorded, CBU
<1>4. MoverInv
  BY DEF ReturnsInit, MoverInv, MoveStands, NotAsking
<1> QED
  BY <1>2, <1>3, <1>4 DEF CounterInv

LEMMA CounterInvMatches == ASSUME CounterInv PROVE OpenReturnsMatchUnits
<1>1. ASSUME NEW u \in ReturnUnits \ strayed
      PROVE  LET open == {i \in DOMAIN returns : returns[i].unit = u /\ returns[i].status # "RESOLVED"}
             IN  IF stock[u] = "RETURNED" THEN \E i \in open : open = {i} ELSE open = {}
  <2> DEFINE open == {i \in DOMAIN returns : returns[i].unit = u /\ returns[i].status # "RESOLVED"}
  <2>1. CASE stock[u] = "RETURNED"
    <3>1. PICK i \in DOMAIN returns : Open(i) /\ returns[i].unit = u
      BY <2>1 DEF CounterInv, OneOpenReturn
    <3>2. i \in open
      BY <3>1 DEF Open
    <3>3. \A j \in open : j = i
      BY <3>1 DEF CounterInv, OneOpenReturn, Open
    <3>4. open = {i}
      BY <3>2, <3>3
    <3> QED
      BY <2>1, <3>2, <3>4
  <2>2. CASE stock[u] # "RETURNED"
    BY <2>2 DEF CounterInv, OneOpenReturn, Open
  <2> QED
    BY <2>1, <2>2
<1> QED
  BY <1>1 DEF OpenReturnsMatchUnits, CounterInv, ClaimsRecorded

(* With one request at the counter, whatever sales orders, adjustments and  *)
(* pushed statuses do meanwhile: a unit that has not strayed is RETURNED    *)
(* exactly while one return of it is open, and the claims are those of the  *)
(* returns decided that way (I-15).                                         *)
THEOREM ReturnsMatchUnits ==
    OneAtATime => (ReturnsSpec => []OpenReturnsMatchUnits)
<1> SUFFICES ASSUME OneAtATime PROVE ReturnsSpec => []OpenReturnsMatchUnits
  OBVIOUS
<1>1. ReturnsInit => CounterInv /\ MoverInv
  BY CounterInitInv
<1>2. CounterInv /\ MoverInv /\ [ReturnsNext]_returnsVars => CounterInv' /\ MoverInv'
  BY CounterStep, ReturnsAssumption
<1>3. CounterInv => OpenReturnsMatchUnits
  BY CounterInvMatches
<1> QED
  BY <1>1, <1>2, <1>3, PTL DEF ReturnsSpec
=============================================================================
