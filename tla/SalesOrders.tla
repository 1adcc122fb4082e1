------------------------------ MODULE SalesOrders ------------------------------
(***************************************************************************)
(* Sales orders from draft to delivery: lines reserve units softly (by     *)
(* unitId only), payments are recorded and confirmed, release sells the    *)
(* units, cancel frees them, delivery papers follow the goods.             *)
(*                                                                         *)
(* Requests run concurrently on a READ COMMITTED database.  Each first     *)
(* validates what it reads outside a transaction (the action named after   *)
(* the endpoint) and then writes by id, without a condition on what it     *)
(* read.  Requests that read again inside their transaction (update,       *)
(* confirm, release, cancel) have a Begin step for those reads; the writes *)
(* of a transaction appear together at its commit.                         *)
(*                                                                         *)
(* Movers are the requests of other workflows, and pushed corrections, that *)
(* change units at any time: transitionUnit reads without a lock and then   *)
(* writes by id, so a mover may write over a sale it has not seen.          *)
(*                                                                         *)
(* Source: src/src/sales-orders/{sales-orders,delivery}.service.ts,        *)
(* state-machine.ts, src/src/payments/payments.service.ts.                 *)
(***************************************************************************)
EXTENDS UnitStates, Naturals

CONSTANTS
    Units, Orders, Payments,   \* rows that exist or may come to exist
    None,                      \* SQL NULL
    TotalOf,        \* computeTotals: what lines with these units cost, VAT included
    Amount,         \* the amount each payment is recorded with
    SumOf,          \* SQL SUM of the amounts of a set of payments; of none, 0
    Requests,       \* the requests the backend can be serving at one time
    Endpoints,      \* the operations clients call
    Movers,         \* requests from elsewhere that can be moving units meanwhile
    MoveTargets     \* bound: where a mover of each kind may send a unit

Ops == {"create", "update", "submit", "invoice", "record", "confirm", "reject", "release",
        "cancel", "deliveryNote", "waybill", "dispatch", "proof", "close"}

(* Assembly, adjustments and returns never sell; a pushed unit.status       *)
(* (applyEntityField) takes any legal edge, with no order and no return.    *)
MoverKind == {"workflow", "push"}

ASSUME SalesAssumption ==
    /\ None \notin Units \cup Orders \cup Payments
    /\ TotalOf \in [SUBSET Units -> Nat]
    /\ Amount \in [Payments -> Nat]
    /\ SumOf \in [SUBSET Payments -> Nat]
    /\ SumOf[{}] = 0
    /\ \A S, T \in SUBSET Payments : S \subseteq T => SumOf[S] <= SumOf[T]
    /\ Endpoints \subseteq Ops
    /\ MoveTargets \in [MoverKind -> SUBSET UnitStatus]
    /\ MoveTargets["workflow"] \cap SoldStates = {}

VARIABLES
    unit,       \* Unit.status
    sale,       \* the unit's latest SALE StockMovement, and the kind of the last row since
    status,     \* SalesOrder.status; "NONE": no such row yet
    lines,      \* the order's lines; a cancelled order's have unit None
    total,      \* SalesOrder.total
    received,   \* SalesOrder.paymentReceivedTotal
    papers,     \* the documents issued for the order, one of a kind
    invoiced,   \* Invoice.total, once the invoice is among the papers
    pay,        \* the Payment rows
    req,        \* what each request has read so far
    moves       \* the move each mover has found legal

rows == <<unit, sale, status, lines, total, received, papers, invoiced, pay>>
vars == <<rows, req, moves>>

Form == {"CKD", "CBU"}
Line == [unit : Units \cup {None}, form : Form]
Paper == {"invoice", "release", "deliveryNote", "waybill", "proof"}
PayStatus == {"NONE", "PENDING", "CONFIRMED", "REJECTED"}
OrderStatus ==
    {"DRAFT", "AWAITING_PAYMENT", "PAYMENT_RECEIVED", "RELEASE_AUTHORISED", "PICKING",
     "READY_FOR_DISPATCH", "DISPATCHED", "DELIVERED", "CLOSED", "CANCELLED", "REFUNDED"}

(* SO_STATE_TRANSITIONS.                                                    *)
OrderTransitions ==
    {<<"DRAFT", "AWAITING_PAYMENT">>, <<"AWAITING_PAYMENT", "PAYMENT_RECEIVED">>,
     <<"PAYMENT_RECEIVED", "RELEASE_AUTHORISED">>, <<"RELEASE_AUTHORISED", "PICKING">>,
     <<"PICKING", "READY_FOR_DISPATCH">>, <<"READY_FOR_DISPATCH", "DISPATCHED">>,
     <<"DISPATCHED", "DELIVERED">>, <<"DELIVERED", "CLOSED">>,
     <<"DELIVERED", "REFUNDED">>, <<"CLOSED", "REFUNDED">>}
    \cup ({"DRAFT", "AWAITING_PAYMENT", "PAYMENT_RECEIVED", "RELEASE_AUTHORISED", "PICKING"}
          \X {"CANCELLED"})

CanMove(from, to) == <<from, to>> \in OrderTransitions

(* Mutated form: the allowlist is collapsed into the state machine.         *)
CancelByStateMachine(s) == CanMove(s, "CANCELLED")
Cancellable(s) == s \in {"DRAFT", "AWAITING_PAYMENT", "PAYMENT_RECEIVED"}

(* What a request remembers: the order or payment it is for, the lines it   *)
(* asks for or has read, an amount it has read, whether to advance the      *)
(* order, whether its transaction has made its reads, and whether the rows  *)
(* its deleteMany or updateMany saw are still the order's lines.            *)
Ask(op, o, p, ls, n) ==
    [op |-> op, so |-> o, pay |-> p, lines |-> ls, amount |-> n,
     advance |-> FALSE, begun |-> FALSE, covers |-> FALSE]

Idle == Ask("idle", None, None, {}, 0)

Request == [op : Ops \cup {"idle"}, so : Orders \cup {None}, pay : Payments \cup {None},
            lines : SUBSET Line, amount : Nat, advance : BOOLEAN, begun : BOOLEAN,
            covers : BOOLEAN]

Sale == [order : Orders \cup {None}, since : MoverKind \cup {"none"}]
NoMove == [unit |-> None]
Move == [unit : Units, to : UnitStatus, kind : MoverKind]

TypeOK ==
    /\ unit \in [Units -> UnitStatus]
    /\ sale \in [Units -> Sale]
    /\ status \in [Orders -> OrderStatus \cup {"NONE"}]
    /\ lines \in [Orders -> SUBSET Line]
    /\ total \in [Orders -> Nat]
    /\ received \in [Orders -> Nat]
    /\ papers \in [Orders -> SUBSET Paper]
    /\ invoiced \in [Orders -> Nat]
    /\ pay \in [Payments -> [so : Orders \cup {None}, status : PayStatus]]
    /\ req \in [Requests -> Request]
    /\ moves \in [Movers -> Move \cup {NoMove}]

Init ==
    /\ unit = [u \in Units |-> CKD]
    /\ sale = [u \in Units |-> [order |-> None, since |-> "none"]]
    /\ status = [o \in Orders |-> "NONE"]
    /\ lines = [o \in Orders |-> {}]
    /\ total = [o \in Orders |-> 0]
    /\ received = [o \in Orders |-> 0]
    /\ papers = [o \in Orders |-> {}]
    /\ invoiced = [o \in Orders |-> 0]
    /\ pay = [p \in Payments |-> [so |-> None, status |-> "NONE"]]
    /\ req = [r \in Requests |-> Idle]
    /\ moves = [m \in Movers |-> NoMove]

UnitsOf(ls) == {l.unit : l \in ls} \ {None}
Confirmed(o) == {p \in Payments : pay[p].so = o /\ pay[p].status = "CONFIRMED"}
ConfirmedSum(o) == SumOf[Confirmed(o)]

-------------------------------------------------------------------------------
(* Validation outside the transaction.                                      *)

Accept(r, q) ==
    /\ req[r] = Idle
    /\ q.op \in Endpoints
    /\ req' = [req EXCEPT ![r] = q]
    /\ UNCHANGED rows

(* resolveLines: a CKD line needs a kit, a CBU line a built unit.           *)
Resolvable(new) ==
    /\ new # {}
    /\ \A l \in new : unit[l.unit] \in (IF l.form = "CKD" THEN {CKD} ELSE Assembled)

(* findI11Conflicts: units some other order's lines already hold.           *)
I11Conflicts(new, o) ==
    {u \in UnitsOf(new) : \E p \in Orders \ {o} : u \in UnitsOf(lines[p])}

Create(r, o, new) ==
    /\ status[o] = "NONE"
    /\ \A q \in Requests : req[q].so # o      \* a fresh id
    /\ Resolvable(new)
    /\ I11Conflicts(new, o) = {}
    /\ Accept(r, Ask("create", o, None, new, TotalOf[UnitsOf(new)]))

(* Mutated form: any order can be edited, or invoiced.                      *)
AnyOrder(o) == status[o] # "NONE"
Editable(o) == status[o] = "DRAFT"

Update(r, o, new) ==
    /\ Editable(o)
    /\ Resolvable(new)
    /\ I11Conflicts(new, o) = {}
    /\ Accept(r, Ask("update", o, None, new, TotalOf[UnitsOf(new)]))

Submit(r, o) ==
    /\ CanMove(status[o], "AWAITING_PAYMENT")
    /\ Accept(r, Ask("submit", o, None, {}, 0))

Invoiceable(o) == status[o] \notin {"NONE", "DRAFT", "CANCELLED"}

(* The invoice is a snapshot of the total read here.                        *)
GenerateInvoice(r, o) ==
    /\ Invoiceable(o)
    /\ Accept(r, Ask("invoice", o, None, {}, total[o]))

(* Any order takes payments, whatever its status.                           *)
Record(r, o, p) ==
    /\ status[o] # "NONE"
    /\ pay[p].status = "NONE"
    /\ \A q \in Requests : req[q].pay # p     \* a fresh id
    /\ Accept(r, Ask("record", o, p, {}, 0))

Confirm(r, p) ==
    /\ pay[p].status = "PENDING"
    /\ Accept(r, Ask("confirm", pay[p].so, p, {}, 0))

(* Mutated form: a confirmed payment can be rejected.                       *)
NotYetRejected(p) == pay[p].status \in {"PENDING", "CONFIRMED"}
Rejectable(p) == pay[p].status = "PENDING"

Reject(r, p) ==
    /\ Rejectable(p)
    /\ Accept(r, Ask("reject", pay[p].so, p, {}, 0))

AuthoriseRelease(r, o) ==
    /\ CanMove(status[o], "RELEASE_AUTHORISED")
    /\ Accept(r, Ask("release", o, None, {}, 0))

Cancel(r, o) ==
    /\ Cancellable(status[o])
    /\ Accept(r, Ask("cancel", o, None, {}, 0))

CreateDeliveryNote(r, o) ==
    /\ status[o] \in {"RELEASE_AUTHORISED", "PICKING"}
    /\ Accept(r, Ask("deliveryNote", o, None, {}, 0))

CreateWaybill(r, o) ==
    /\ "deliveryNote" \in papers[o]
    /\ Accept(r, Ask("waybill", o, None, {}, 0))

Dispatch(r, o) ==
    /\ CanMove(status[o], "DISPATCHED")
    /\ Accept(r, Ask("dispatch", o, None, {}, 0))

RecordProofOfDelivery(r, o) ==
    /\ CanMove(status[o], "DELIVERED")
    /\ "deliveryNote" \in papers[o]
    /\ Accept(r, Ask("proof", o, None, {}, 0))

Close(r, o) ==
    /\ CanMove(status[o], "CLOSED")
    /\ Accept(r, Ask("close", o, None, {}, 0))

-------------------------------------------------------------------------------
(* Reads inside the transaction.                                            *)

BeginsLater == {"update", "confirm", "release", "cancel"}

Begun(r, changed) ==
    /\ req' = [req EXCEPT ![r] = changed]
    /\ UNCHANGED rows

Ready(r, op) == req[r].op = op /\ ~req[r].begun

(* update deletes the lines it sees; the status is not read again.          *)
BeginUpdate(r) ==
    /\ Ready(r, "update")
    /\ Begun(r, [req[r] EXCEPT !.begun = TRUE, !.covers = TRUE])

(* confirm updates the payment (waiting for the row lock of another confirm *)
(* or taking over its result), sums the confirmed payments it sees, its own *)
(* included, and reads the order.                                           *)
DerivedTotal(r) == SumOf[Confirmed(req[r].so) \cup {req[r].pay}]

BeginConfirm(r) ==
    LET o == req[r].so IN
    /\ Ready(r, "confirm")
    /\ \A q \in Requests : ~(req[q].op = "confirm" /\ req[q].begun /\ req[q].pay = req[r].pay)
    /\ Begun(r, [req[r] EXCEPT !.begun = TRUE, !.amount = DerivedTotal(r),
                    !.advance = DerivedTotal(r) >= total[o] /\ status[o] = "AWAITING_PAYMENT"])

SoldAs(form) == IF form = "CKD" THEN "SOLD_AS_CKD" ELSE "SOLD_AS_CBU"

CoversTotal(o) == ConfirmedSum(o) >= total[o]

(* The checks of the release transaction: status, I-4, the unique release   *)
(* authorisation, an allocated unit on every line, a legal SALE edge.       *)
ReleaseAllowed(o) ==
    /\ CanMove(status[o], "RELEASE_AUTHORISED")
    /\ CoversTotal(o)
    /\ "release" \notin papers[o]
    /\ \A l \in lines[o] : l.unit # None /\ CanTransition(unit[l.unit], SoldAs(l.form))

(* A second release waits for the first one's unique index entry.           *)
BeginRelease(r) ==
    /\ Ready(r, "release")
    /\ ReleaseAllowed(req[r].so)
    /\ \A q \in Requests : ~(req[q].op = "release" /\ req[q].begun /\ req[q].so = req[r].so)
    /\ Begun(r, [req[r] EXCEPT !.begun = TRUE, !.lines = lines[req[r].so]])

BeginCancel(r) ==
    /\ Ready(r, "cancel")
    /\ Cancellable(status[req[r].so])
    /\ Begun(r, [req[r] EXCEPT !.begun = TRUE, !.covers = TRUE])

-------------------------------------------------------------------------------
(* Commits.                                                                 *)

Finished(r) == req' = [req EXCEPT ![r] = Idle]

(* The index one_active_so_line_per_unit admits the lines r inserts.        *)
(* Mutated form: no index, the pre-flight alone prevents duplicates.        *)
PreFlightOnly(r) == TRUE
Admitted(r) ==
    LET o == req[r].so
        kept == IF req[r].covers THEN {} ELSE lines[o]
    IN  /\ I11Conflicts(req[r].lines, o) = {}
        /\ UnitsOf(kept) \cap UnitsOf(req[r].lines) = {}

CommitCreate(r) ==
    LET o == req[r].so IN
    /\ req[r].op = "create"
    /\ Admitted(r)
    /\ status' = [status EXCEPT ![o] = "DRAFT"]
    /\ lines' = [lines EXCEPT ![o] = req[r].lines]
    /\ total' = [total EXCEPT ![o] = req[r].amount]
    /\ Finished(r)
    /\ UNCHANGED <<unit, sale, received, papers, invoiced, pay>>

(* The lines deleteMany saw go, the new ones come: rows another update has  *)
(* inserted meanwhile stay.  A deleteMany or updateMany that was waiting    *)
(* for the deleted rows finds them gone.                                    *)
CommitUpdate(r) ==
    LET o == req[r].so IN
    /\ req[r].op = "update" /\ req[r].begun
    /\ Admitted(r)
    /\ lines' = [lines EXCEPT ![o] = (IF req[r].covers THEN {} ELSE @) \cup req[r].lines]
    /\ total' = [total EXCEPT ![o] = req[r].amount]
    /\ req' = [q \in Requests |->
                  IF q = r THEN Idle
                  ELSE IF req[q].so = o THEN [req[q] EXCEPT !.covers = FALSE] ELSE req[q]]
    /\ UNCHANGED <<unit, sale, status, received, papers, invoiced, pay>>

CommitInvoice(r) ==
    LET o == req[r].so IN
    /\ req[r].op = "invoice"
    /\ "invoice" \notin papers[o]
    /\ papers' = [papers EXCEPT ![o] = @ \cup {"invoice"}]
    /\ invoiced' = [invoiced EXCEPT ![o] = req[r].amount]
    /\ Finished(r)
    /\ UNCHANGED <<unit, sale, status, lines, total, received, pay>>

CommitRecord(r) ==
    /\ req[r].op = "record"
    /\ pay' = [pay EXCEPT ![req[r].pay] = [so |-> req[r].so, status |-> "PENDING"]]
    /\ Finished(r)
    /\ UNCHANGED <<unit, sale, status, lines, total, received, papers, invoiced>>

CommitConfirm(r) ==
    LET o == req[r].so IN
    /\ req[r].op = "confirm" /\ req[r].begun
    /\ pay' = [pay EXCEPT ![req[r].pay] = [so |-> o, status |-> "CONFIRMED"]]
    /\ received' = [received EXCEPT ![o] = req[r].amount]
    /\ status' = [status EXCEPT ![o] = IF req[r].advance THEN "PAYMENT_RECEIVED" ELSE @]
    /\ Finished(r)
    /\ UNCHANGED <<unit, sale, lines, total, papers, invoiced>>

(* reject waits for the row lock of a confirm in progress.                  *)
CommitReject(r) ==
    LET p == req[r].pay IN
    /\ req[r].op = "reject"
    /\ \A q \in Requests : ~(req[q].op = "confirm" /\ req[q].begun /\ req[q].pay = p)
    /\ pay' = [pay EXCEPT ![p] = [so |-> req[r].so, status |-> "REJECTED"]]
    /\ Finished(r)
    /\ UNCHANGED <<unit, sale, status, lines, total, received, papers, invoiced>>

CommitRelease(r) ==
    LET o == req[r].so IN
    /\ req[r].op = "release" /\ req[r].begun
    /\ papers' = [papers EXCEPT ![o] = @ \cup {"release"}]
    /\ unit' = [u \in Units |->
                  IF u \in UnitsOf(req[r].lines)
                  THEN SoldAs((CHOOSE l \in req[r].lines : l.unit = u).form)
                  ELSE unit[u]]
    /\ sale' = [u \in Units |->
                  IF u \in UnitsOf(req[r].lines) THEN [order |-> o, since |-> "none"] ELSE sale[u]]
    /\ status' = [status EXCEPT ![o] = "RELEASE_AUTHORISED"]
    /\ Finished(r)
    /\ UNCHANGED <<lines, total, received, invoiced, pay>>

(* Mutated form: the reservation is left in place.                          *)
StillReserved(ls) == ls
Freed(ls) == {[l EXCEPT !.unit = None] : l \in ls}

CommitCancel(r) ==
    LET o == req[r].so IN
    /\ req[r].op = "cancel" /\ req[r].begun
    /\ lines' = [lines EXCEPT ![o] = IF req[r].covers THEN Freed(@) ELSE @]
    /\ status' = [status EXCEPT ![o] = "CANCELLED"]
    /\ Finished(r)
    /\ UNCHANGED <<unit, sale, total, received, papers, invoiced, pay>>

(* The remaining operations write a status, a unique paper, or both.        *)
StatusSteps == {"submit", "deliveryNote", "dispatch", "proof", "close"}
PaperSteps == {"deliveryNote", "waybill", "proof"}

(* Mutated form: the delivery note dispatches the goods, too.               *)
DispatchAtOnce(op) ==
    CASE op = "submit" -> "AWAITING_PAYMENT"
      [] op \in {"deliveryNote", "dispatch"} -> "DISPATCHED"
      [] op = "proof" -> "DELIVERED"
      [] op = "close" -> "CLOSED"

Goal(op) ==
    CASE op = "submit"       -> "AWAITING_PAYMENT"
      [] op = "deliveryNote" -> "READY_FOR_DISPATCH"
      [] op = "dispatch"     -> "DISPATCHED"
      [] op = "proof"        -> "DELIVERED"
      [] op = "close"        -> "CLOSED"

CommitStep(r) ==
    LET o == req[r].so
        op == req[r].op
    IN  /\ op \in StatusSteps \cup PaperSteps
        /\ op \in PaperSteps => op \notin papers[o]
        /\ papers' = [papers EXCEPT ![o] = IF op \in PaperSteps THEN @ \cup {op} ELSE @]
        /\ status' = [status EXCEPT ![o] = IF op \in StatusSteps THEN Goal(op) ELSE @]
        /\ Finished(r)
        /\ UNCHANGED <<unit, sale, lines, total, received, invoiced, pay>>

(* A 409 inside the transaction, or a unique violation: it rolls back.      *)
Refuse(r) ==
    /\ \/ Ready(r, "release") /\ ~ReleaseAllowed(req[r].so)
       \/ Ready(r, "cancel") /\ ~Cancellable(status[req[r].so])
       \/ req[r].op \in {"create", "update"} /\ ~Admitted(r)
       \/ req[r].op \in PaperSteps \cup {"invoice"} /\ req[r].op \in papers[req[r].so]
    /\ Finished(r)
    /\ UNCHANGED rows

(* The process dies before the commit: the database rolls back.             *)
Lose(r) ==
    /\ req[r] # Idle
    /\ Finished(r)
    /\ UNCHANGED rows

(* transitionUnit for a mover: the unlocked read and the state machine, ... *)
ReadMove(m, u, to, kind) ==
    /\ moves[m] = NoMove
    /\ CanTransition(unit[u], to)
    /\ moves' = [moves EXCEPT ![m] = [unit |-> u, to |-> to, kind |-> kind]]
    /\ UNCHANGED <<rows, req>>

(* ... then the write by id and the movement, whatever the unit is by now.  *)
(* Nothing in a mover looks at sales order lines.                           *)
WriteMove(m) ==
    LET v == moves[m] IN
    /\ v # NoMove
    /\ unit' = [unit EXCEPT ![v.unit] = v.to]
    /\ sale' = [sale EXCEPT ![v.unit].since = v.kind]
    /\ moves' = [moves EXCEPT ![m] = NoMove]
    /\ UNCHANGED <<status, lines, total, received, papers, invoiced, pay, req>>

-------------------------------------------------------------------------------
NewLines == SUBSET [unit : Units, form : Form]

Validate(r) ==
    \/ \E o \in Orders, new \in NewLines : Create(r, o, new) \/ Update(r, o, new)
    \/ \E o \in Orders, p \in Payments : Record(r, o, p)
    \/ \E p \in Payments : Confirm(r, p) \/ Reject(r, p)
    \/ \E o \in Orders :
          \/ Submit(r, o) \/ GenerateInvoice(r, o) \/ AuthoriseRelease(r, o) \/ Cancel(r, o)
          \/ CreateDeliveryNote(r, o) \/ CreateWaybill(r, o) \/ Dispatch(r, o)
          \/ RecordProofOfDelivery(r, o) \/ Close(r, o)

Begin(r) == BeginUpdate(r) \/ BeginConfirm(r) \/ BeginRelease(r) \/ BeginCancel(r)

Commit(r) ==
    \/ CommitCreate(r) \/ CommitUpdate(r) \/ CommitInvoice(r) \/ CommitRecord(r)
    \/ CommitConfirm(r) \/ CommitReject(r) \/ CommitRelease(r) \/ CommitCancel(r)
    \/ CommitStep(r)

Moving(m) ==
    \/ \E u \in Units, kind \in MoverKind :
          \E to \in MoveTargets[kind] : ReadMove(m, u, to, kind)
    \/ WriteMove(m)

Next ==
    \/ /\ \E r \in Requests : Validate(r) \/ Begin(r) \/ Commit(r) \/ Refuse(r) \/ Lose(r)
       /\ UNCHANGED moves
    \/ \E m \in Movers : Moving(m)

Spec == Init /\ [][Next]_vars

-------------------------------------------------------------------------------
(* Properties.                                                              *)

Released == {"RELEASE_AUTHORISED", "PICKING", "READY_FOR_DISPATCH", "DISPATCHED",
             "DELIVERED", "CLOSED", "REFUNDED"}

(* I-11, for any number of concurrent requests: a unit is on the lines of   *)
(* at most one order, although creation checks it before its transaction.   *)
OneOrderPerUnit ==
    \A o, p \in Orders : UnitsOf(lines[o]) \cap UnitsOf(lines[p]) # {} => o = p

(* An order said to be paid, or released, is covered by CONFIRMED payments, *)
(* now and not only when it was advanced.  confirm and release each derive  *)
(* the SUM again.                                                           *)
PaidOrdersAreCovered ==
    \A o \in Orders : status[o] \in Released \cup {"PAYMENT_RECEIVED"} =>
        ConfirmedSum(o) >= total[o]

(* paymentReceivedTotal is the sum of the order's CONFIRMED payments: it is *)
(* derived again at every confirm and nothing else changes that sum.        *)
ReceivedIsDerived == \A o \in Orders : received[o] = ConfirmedSum(o)

(* Whatever movers do meanwhile: the order of a unit's latest SALE movement *)
(* still holds it and has not been cancelled, and a unit in a SOLD state    *)
(* was put there by that sale or by a pushed status, by nothing else.       *)
SoldUnitsBelongToReleases ==
    \A u \in Units :
        LET o == sale[u].order IN
        /\ o # None => u \in UnitsOf(lines[o]) /\ status[o] \in Released
        /\ unit[u] \in SoldStates =>
              \/ o # None /\ sale[u].since = "none"
              \/ sale[u].since = "push"

(* Release sells every unit of the order and only its own: each line's unit *)
(* has that order's SALE as its latest sale, and is as the line says until  *)
(* a mover writes it again (a return, a late write, a pushed status).       *)
ReleasedUnitsAreSold ==
    \A o \in Orders : status[o] \in Released =>
        \A l \in lines[o] :
            /\ l.unit # None
            /\ sale[l.unit].order = o
            /\ sale[l.unit].since = "none" => unit[l.unit] = SoldAs(l.form)

(* cancel lifts the reservation: a cancelled order holds no unit.           *)
CancelledOrdersHoldNothing ==
    \A o \in Orders : status[o] = "CANCELLED" => UnitsOf(lines[o]) = {}

(* The total is that of the order's lines, and it does not change behind an *)
(* invoice, which is a snapshot.                                            *)
TotalsAgree ==
    \A o \in Orders :
        /\ status[o] \notin {"NONE", "CANCELLED"} => total[o] = TotalOf[UnitsOf(lines[o])]
        /\ "invoice" \in papers[o] => invoiced[o] = total[o]

(* The delivery note walks through PICKING in one transaction.              *)
Follows(from, to) ==
    \/ CanMove(from, to)
    \/ \E via \in OrderStatus : CanMove(from, via) /\ CanMove(via, to) /\ via = "PICKING"

(* Every order starts as a draft and changes status only along              *)
(* SO_STATE_TRANSITIONS; a cancelled order stays cancelled.                 *)
OrdersFollowStateMachine ==
    [][\A o \in Orders : status'[o] # status[o] =>
         \/ status[o] = "NONE" /\ status'[o] = "DRAFT"
         \/ Follows(status[o], status'[o])]_vars
=============================================================================
