------------------------------ MODULE LandedCosts ------------------------------
(***************************************************************************)
(* The costs of bringing a shipment in, and their shares on its units.     *)
(* allocate reads the components, then the units in the order of their     *)
(* engine numbers, and then writes every share in one transaction.  Units  *)
(* are received and components change meanwhile.                           *)
(*                                                                         *)
(* Amounts are cents; a rate is given in hundredths of the base currency,  *)
(* so that a product needs the rounding.                                   *)
(*                                                                         *)
(* Source: src/src/shipments/landed-costs.service.ts,                      *)
(* landed-cost-allocation.ts                                               *)
(***************************************************************************)
EXTENDS Integers, Sequences, FiniteSets, Functions

CONSTANTS
    Engines,        \* the units that may be received: their engine numbers
    Components,     \* the LandedCost rows that may be added
    Costs,          \* bound: the <<amount, rate>> a component may have
    Accountants,    \* the requests in service at one time
    NoCost          \* SQL NULL

ASSUME CostsAssumption ==
    /\ Engines \subseteq Nat
    /\ IsFiniteSet(Components)
    /\ Costs \subseteq Nat \X Nat
    /\ NoCost \notin Nat

VARIABLES
    received,     \* the units of the shipment
    component,    \* <<amount, rate>> of each component, or NoCost
    landed,       \* Unit.landedCost in cents, or NoCost
    allocating,   \* what each request has read
    settled       \* history: the last allocation wrote what was current

costVars == <<received, component, landed, allocating, settled>>

NotAllocating == [step |-> "free", total |-> 0, units |-> <<>>]

CostsInit ==
    /\ received = {}
    /\ component = [c \in Components |-> NoCost]
    /\ landed = [e \in Engines |-> NoCost]
    /\ allocating = [a \in Accountants |-> NotAllocating]
    /\ settled = FALSE

(* toDecimalPlaces(0, ROUND_HALF_UP), of hundredths of a cent.              *)
RoundHalfUp(x) == (x + 50) \div 100

TotalCents(cs) ==
    LET added == {c \in Components : cs[c] # NoCost}
    IN  RoundHalfUp(SumFunctionOnSet([c \in added |-> cs[c][1] * cs[c][2]], added))

(* orderBy engineNumber.                                                    *)
InOrder(U) ==
    CHOOSE q \in [1 .. Cardinality(U) -> U] : \A i, j \in DOMAIN q : i < j => q[i] < q[j]

-------------------------------------------------------------------------------
ReceiveUnit(e) ==
    /\ e \notin received
    /\ received' = received \cup {e}
    /\ settled' = FALSE
    /\ UNCHANGED <<component, landed, allocating>>

(* addComponent and update; the DTO admits one allocation method only.      *)
SetComponent(c, cost) ==
    /\ component[c] # cost
    /\ component' = [component EXCEPT ![c] = cost]
    /\ settled' = FALSE
    /\ UNCHANGED <<received, landed, allocating>>

ReadComponents(a) ==
    /\ allocating[a].step = "free"
    /\ allocating' = [allocating EXCEPT ![a] =
          [step |-> "total", total |-> TotalCents(component), units |-> <<>>]]
    /\ UNCHANGED <<received, component, landed, settled>>

(* A shipment without units is refused.                                     *)
ReadUnits(a) ==
    /\ allocating[a].step = "total"
    /\ allocating' = [allocating EXCEPT ![a] =
          IF received = {} THEN NotAllocating
          ELSE [@ EXCEPT !.step = "units", !.units = InOrder(received)]]
    /\ UNCHANGED <<received, component, landed, settled>>

(* allocateEqualPerUnitCents: the remainder goes to the first units.        *)
(* Mutated form: every share is rounded to the nearest cent.                *)
RoundedShare(total, n, i) == (2 * total + n) \div (2 * n)
Share(total, n, i) ==
    LET base == total \div n
    IN  IF i <= total - base * n THEN base + 1 ELSE base

Allocate(a) ==
    LET q == allocating[a]
        n == Len(q.units)
    IN  /\ q.step = "units"
        /\ landed' = [e \in Engines |->
              IF \E i \in 1 .. n : q.units[i] = e
              THEN Share(q.total, n, CHOOSE i \in 1 .. n : q.units[i] = e)
              ELSE landed[e]]
        /\ settled' = (q.total = TotalCents(component) /\ q.units = InOrder(received))
        /\ allocating' = [allocating EXCEPT ![a] = NotAllocating]
        /\ UNCHANGED <<received, component>>

CostsNext ==
    \/ \E e \in Engines : ReceiveUnit(e)
    \/ \E c \in Components, cost \in Costs : SetComponent(c, cost)
    \/ \E a \in Accountants : ReadComponents(a) \/ ReadUnits(a) \/ Allocate(a)

CostsSpec == CostsInit /\ [][CostsNext]_costVars

-------------------------------------------------------------------------------
(* "the per-unit cents sum back to the total exactly", whoever else         *)
(* allocates at the same time: after an allocation of what is current, the  *)
(* shares add up to the components, no two differ by more than a cent, and  *)
(* a smaller engine number never has the smaller share.                     *)
SharesAddUp ==
    settled =>
        /\ SumFunctionOnSet(landed, received) = TotalCents(component)
        /\ \A d, e \in received : d < e => landed[d] - landed[e] \in {0, 1}
=============================================================================
