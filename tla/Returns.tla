-------------------------------- MODULE Returns --------------------------------
(***************************************************************************)
(* Returns of sold units: initiated, inspected, resolved with a            *)
(* disposition that moves the unit out of RETURNED.  Orders, adjustments   *)
(* and pushed statuses appear as far as they hold and move the same units. *)
(*                                                                         *)
(* A request checks what it reads (Ask...), reads the unit's status again  *)
(* in its transaction (transitionUnit, ReadUnit) and writes by id.  So do  *)
(* the movers: adjustments, which check the adjustment map before, and     *)
(* pushed statuses, which take any legal edge.                             *)
(*                                                                         *)
(* Source: src/src/returns/returns.service.ts,                             *)
(* src/src/units/{units.service,transition-unit}.ts,                       *)
(* src/src/sync/apply-entity-field.ts.                                     *)
(***************************************************************************)
EXTENDS UnitStates, Naturals, Sequences

CONSTANTS
    ReturnUnits, ReturnOrders,
    Restocks,         \* bound: where the staff adjusts units to
    Pushes,           \* bound: the unit.status values devices push
    Movers,           \* the adjustments and pushes in service at one time
    Counter,          \* the requests in service at one time
    MaxReturns,       \* bound: Return rows
    Nobody            \* SQL NULL

ASSUME ReturnsAssumption ==
    /\ Nobody \notin ReturnOrders
    /\ Restocks \cup Pushes \subseteq UnitStatus

VARIABLES
    stock,      \* Unit.status
    lineOf,     \* the order whose line has the unit, or Nobody
    orderIs,    \* "open", "released", "cancelled"
    returns,    \* the Return rows: [unit, so, status, disposition]
    claims,     \* the returns that have a SupplierWarrantyClaim
    asking,     \* what each request is at
    moving,     \* what each mover is at
    sales,      \* history: how often each unit was sold
    strayed     \* history: units a push moved, or an adjustment that checked another status

orderRows == <<lineOf, orderIs, sales>>
returnRows == <<returns, claims>>
returnsVars == <<stock, orderRows, returnRows, asking, moving, strayed>>

NotAsking == [step |-> "free"]

ReturnsInit ==
    /\ stock = [u \in ReturnUnits |-> CBU]
    /\ lineOf = [u \in ReturnUnits |-> Nobody]
    /\ orderIs = [o \in ReturnOrders |-> "open"]
    /\ returns = <<>>
    /\ claims = {}
    /\ asking = [r \in Counter |-> NotAsking]
    /\ moving = [m \in Movers |-> NotAsking]
    /\ sales = [u \in ReturnUnits |-> 0]
    /\ strayed = {}

LinesOf(o) == {u \in ReturnUnits : lineOf[u] = o}

-------------------------------------------------------------------------------
(* Sales orders, each request as one step of its own.                       *)

(* The index one_active_so_line_per_unit lets one line hold a unit.         *)
Reserve(u, o) ==
    /\ orderIs[o] = "open"
    /\ stock[u] \in Assembled
    /\ lineOf[u] = Nobody
    /\ lineOf' = [lineOf EXCEPT ![u] = o]
    /\ UNCHANGED <<stock, orderIs, sales, returnRows, asking, moving, strayed>>

Sell(o) ==
    /\ orderIs[o] = "open"
    /\ LinesOf(o) # {}
    /\ \A u \in LinesOf(o) : CanTransition(stock[u], "SOLD_AS_CBU")
    /\ orderIs' = [orderIs EXCEPT ![o] = "released"]
    /\ stock' = [u \in ReturnUnits |-> IF u \in LinesOf(o) THEN "SOLD_AS_CBU" ELSE stock[u]]
    /\ sales' = [u \in ReturnUnits |-> IF u \in LinesOf(o) THEN sales[u] + 1 ELSE sales[u]]
    /\ UNCHANGED <<lineOf, returnRows, asking, moving, strayed>>

CancelOrder(o) ==
    /\ orderIs[o] = "open"
    /\ orderIs' = [orderIs EXCEPT ![o] = "cancelled"]
    /\ lineOf' = [u \in ReturnUnits |-> IF lineOf[u] = o THEN Nobody ELSE lineOf[u]]
    /\ UNCHANGED <<stock, sales, returnRows, asking, moving, strayed>>

-------------------------------------------------------------------------------
(* Movers.                                                                  *)

Go(m, q) ==
    /\ moving' = [moving EXCEPT ![m] = q]
    /\ UNCHANGED <<stock, orderRows, returnRows, asking, strayed>>

(* adjust: legal and in ADJUSTMENT_MOVEMENTS, by what it reads at first.    *)
AskAdjust(m, u, to) ==
    /\ moving[m] = NotAsking
    /\ IsAdjustment(stock[u], to)
    /\ Go(m, [step |-> "asked", unit |-> u, to |-> to, seen |-> stock[u]])

(* transitionUnit reads again and asserts the state machine only.           *)
ReadAdjust(m) ==
    LET q == moving[m]
    IN  /\ q.step = "asked"
        /\ Go(m, IF CanTransition(stock[q.unit], q.to)
                 THEN [step |-> "adjust", unit |-> q.unit, to |-> q.to, seen |-> q.seen]
                 ELSE NotAsking)

ReadPush(m, u, to) ==
    /\ moving[m] = NotAsking
    /\ CanTransition(stock[u], to)
    /\ Go(m, [step |-> "push", unit |-> u, to |-> to])

(* The write by id, whatever the unit is by now.                            *)
InTime(q) == q.step = "adjust" /\ stock[q.unit] = q.seen

WriteMove(m) ==
    LET q == moving[m]
    IN  /\ q.step \in {"adjust", "push"}
        /\ stock' = [stock EXCEPT ![q.unit] = q.to]
        /\ strayed' = IF InTime(q) THEN strayed ELSE strayed \cup {q.unit}
        /\ moving' = [moving EXCEPT ![m] = NotAsking]
        /\ UNCHANGED <<orderRows, returnRows, asking>>

-------------------------------------------------------------------------------
(* Checks outside the transaction.                                          *)

Ask(r, q) ==
    /\ asking[r] = NotAsking
    /\ asking' = [asking EXCEPT ![r] = q]
    /\ UNCHANGED <<stock, orderRows, returnRows, moving, strayed>>

(* I-15, and the unit must be on the order's lines.                         *)
AskInitiate(r, u, o) ==
    /\ stock[u] \in SoldStates
    /\ lineOf[u] = o
    /\ Len(returns) < MaxReturns
    /\ Ask(r, [step |-> "initiate", unit |-> u, so |-> o])

(* Mutated form: a return that is already decided is inspected again.       *)
InspectAgain(r, i) == Ask(r, [step |-> "inspect", return |-> i])
AskInspect(r, i) ==
    /\ returns[i].status = "INITIATED"
    /\ Ask(r, [step |-> "inspect", return |-> i])

(* The claim's supplier exists and is active; otherwise it is refused here. *)
Dispositions == {"REPAIR", "WRITE_OFF", "SUPPLIER_WARRANTY_CLAIM"}

AskResolve(r, i, d) ==
    /\ returns[i].status = "INSPECTING"
    /\ Ask(r, [step |-> "resolve", return |-> i, disposition |-> d])

Target(d) ==
    CASE d = "SUPPLIER_WARRANTY_CLAIM" -> "CLAIMED_TO_SUPPLIER"
      [] d = "REPAIR" -> InRepair
      [] d = "WRITE_OFF" -> "WRITTEN_OFF"

-------------------------------------------------------------------------------
(* The transactions.                                                        *)

Inspect(r) ==
    /\ asking[r].step = "inspect"
    /\ returns' = [returns EXCEPT ![asking[r].return].status = "INSPECTING"]
    /\ asking' = [asking EXCEPT ![r] = NotAsking]
    /\ UNCHANGED <<stock, orderRows, claims, moving, strayed>>

MovedUnit(q) == IF q.step = "initiate" THEN q.unit ELSE returns[q.return].unit
MovesTo(q) == IF q.step = "initiate" THEN "RETURNED" ELSE Target(q.disposition)

ReadUnit(r) ==
    LET q == asking[r]
    IN  /\ q.step \in {"initiate", "resolve"}
        /\ asking' = [asking EXCEPT ![r] =
              IF CanTransition(stock[MovedUnit(q)], MovesTo(q))
              THEN [step |-> "write", ask |-> q] ELSE NotAsking]
        /\ UNCHANGED <<stock, orderRows, returnRows, moving, strayed>>

(* Mutated form: a return takes the unit off its order.                     *)
LineFreed(q) ==
    IF q.step = "initiate" THEN [lineOf EXCEPT ![q.unit] = Nobody] ELSE lineOf
LineAfter(q) == lineOf

Decided(row, d) == [row EXCEPT !.disposition = d, !.status = "RESOLVED"]

Moved(q) ==
    /\ stock' = [stock EXCEPT ![MovedUnit(q)] = MovesTo(q)]
    /\ lineOf' = LineAfter(q)

WriteInitiate(r) ==
    LET q == asking[r].ask
    IN  /\ asking[r].step = "write" /\ q.step = "initiate"
        /\ Moved(q)
        /\ returns' = Append(returns, [unit |-> q.unit, so |-> q.so, status |-> "INITIATED",
                                       disposition |-> "PENDING_DECISION"])
        /\ asking' = [asking EXCEPT ![r] = NotAsking]
        /\ UNCHANGED <<orderIs, sales, claims, moving, strayed>>

WriteResolve(r) ==
    LET q == asking[r].ask
    IN  /\ asking[r].step = "write" /\ q.step = "resolve"
        /\ Moved(q)
        /\ claims' = IF q.disposition = "SUPPLIER_WARRANTY_CLAIM"
                     THEN claims \cup {q.return} ELSE claims
        /\ returns' = [returns EXCEPT ![q.return] = Decided(@, q.disposition)]
        /\ asking' = [asking EXCEPT ![r] = NotAsking]
        /\ UNCHANGED <<orderIs, sales, moving, strayed>>

-------------------------------------------------------------------------------
Moving(m) ==
    \/ \E u \in ReturnUnits, to \in Restocks : AskAdjust(m, u, to)
    \/ \E u \in ReturnUnits, to \in Pushes : ReadPush(m, u, to)
    \/ ReadAdjust(m) \/ WriteMove(m)

ReturnsNext ==
    \/ \E u \in ReturnUnits, o \in ReturnOrders : Reserve(u, o)
    \/ \E o \in ReturnOrders : Sell(o) \/ CancelOrder(o)
    \/ \E m \in Movers : Moving(m)
    \/ \E r \in Counter :
          \/ \E u \in ReturnUnits, o \in ReturnOrders : AskInitiate(r, u, o)
          \/ \E i \in DOMAIN returns :
                \/ AskInspect(r, i)
                \/ \E d \in Dispositions : AskResolve(r, i, d)
          \/ Inspect(r) \/ ReadUnit(r) \/ WriteInitiate(r) \/ WriteResolve(r)

ReturnsSpec == ReturnsInit /\ [][ReturnsNext]_returnsVars

-------------------------------------------------------------------------------
(* Properties.                                                              *)

(* However returns, sales and adjustments interleave, a unit is RETURNED    *)
(* exactly while one return of it is undecided.  Two writers break that, and*)
(* the units they touched are excepted: a pushed status, which moves a unit *)
(* with no return, and an adjustment whose check is overtaken.  A warranty  *)
(* claim has one return of that disposition behind it in any case.          *)
OpenReturnsMatchUnits ==
    /\ \A u \in ReturnUnits \ strayed :
          LET open == {i \in DOMAIN returns : returns[i].unit = u /\ returns[i].status # "RESOLVED"}
          IN  IF stock[u] = "RETURNED" THEN \E i \in open : open = {i} ELSE open = {}
    /\ claims = {i \in DOMAIN returns : returns[i].disposition = "SUPPLIER_WARRANTY_CLAIM"}

(* A released order keeps its units on its lines for ever, so a unit that   *)
(* comes back, is repaired and restocked, or is moved by a pushed status, is *)
(* never released a second time.                                            *)
NeverSoldTwice ==
    \A u \in ReturnUnits :
        /\ sales[u] <= 1
        /\ sales[u] = 1 => \E o \in ReturnOrders : lineOf[u] = o /\ orderIs[o] = "released"
=============================================================================
