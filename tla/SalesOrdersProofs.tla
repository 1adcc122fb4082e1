--------------------------- MODULE SalesOrdersProofs ---------------------------
(***************************************************************************)
(* What holds of sales orders for every set of units, orders and payments  *)
(* and for any number of concurrent requests: value types, the I-11        *)
(* reservation and, while payments are not rejected and orders not edited, *)
(* that an order said to be paid or released is covered by payments.  What *)
(* holds when requests come one at a time is the last part.                *)
(***************************************************************************)
EXTENDS SalesOrders, TLAPS

PayOps == {"record", "confirm", "reject"}
DeliveryOps == {"deliveryNote", "dispatch", "proof", "close"}

(* The rows a request or a payment points at exist, and what is about to    *)
(* be inserted does not yet: ids are fresh.                                 *)
References ==
    /\ \A p \in Payments : pay[p].status # "NONE" =>
          pay[p].so \in Orders /\ status[pay[p].so] # "NONE"
    /\ \A o \in Orders : papers[o] # {} => status[o] # "NONE"
    /\ \A r \in Requests :
          /\ req[r].op \in Ops => req[r].so \in Orders
          /\ req[r].op \in PayOps => req[r].pay \in Payments
          /\ req[r].op = "create" =>
                /\ status[req[r].so] = "NONE"
                /\ \A q \in Requests \ {r} : req[q].so # req[r].so
          /\ req[r].op \in Ops \ {"create"} => status[req[r].so] # "NONE"
          /\ req[r].op = "record" =>
                /\ pay[req[r].pay].status = "NONE"
                /\ \A q \in Requests \ {r} : req[q].pay # req[r].pay
          /\ req[r].op \in {"confirm", "reject"} =>
                pay[req[r].pay].so = req[r].so /\ pay[req[r].pay].status # "NONE"

(* What validation has found of the order and the payment a request names.  *)
Asks(op, o, p) ==
    /\ op \in PayOps => p \in Payments
    /\ op \notin PayOps => p = None
    /\ op = "create" => status[o] = "NONE" /\ \A q \in Requests : req[q].so # o
    /\ op # "create" => status[o] # "NONE"
    /\ op = "record" => pay[p].status = "NONE" /\ \A q \in Requests : req[q].pay # p
    /\ op \in {"confirm", "reject"} => pay[p].so = o /\ pay[p].status # "NONE"
    /\ op \in DeliveryOps => status[o] \in Released

LEMMA ReleasedFacts == "NONE" \notin Released /\ "NONE" \notin OrderStatus
BY DEF Released, OrderStatus

LEMMA Moves ==
    ASSUME NEW from, NEW to, CanMove(from, to)
    PROVE  /\ from # "NONE"
           /\ to \in {"DISPATCHED", "DELIVERED", "CLOSED"} => from \in Released
BY DEF CanMove, OrderTransitions, Released

(* Every validation leaves the rows alone and asks for what it has checked. *)
LEMMA ValidateAsks ==
    ASSUME SalesAssumption, TypeOK, References, NEW r \in Requests, Validate(r)
    PROVE  /\ UNCHANGED rows
           /\ req[r] = Idle
           /\ \E op \in Endpoints, o \in Orders, p \in Payments \cup {None},
                 ls \in SUBSET Line, n \in Nat :
                 Asks(op, o, p) /\ req' = [req EXCEPT ![r] = Ask(op, o, p, ls, n)]
<1> DEFINE Asking == \E op \in Endpoints, o \in Orders, p \in Payments \cup {None},
                        ls \in SUBSET Line, n \in Nat :
                        Asks(op, o, p) /\ req' = [req EXCEPT ![r] = Ask(op, o, p, ls, n)]
<1>0. ASSUME NEW op \in Ops, NEW o \in Orders, NEW p \in Payments \cup {None},
             NEW ls \in SUBSET Line, NEW n \in Nat,
             Asks(op, o, p), Accept(r, Ask(op, o, p, ls, n))
      PROVE  UNCHANGED rows /\ req[r] = Idle /\ Asking
  <2>1. op \in Endpoints
    BY <1>0 DEF Accept, Ask
  <2>2. req' = [req EXCEPT ![r] = Ask(op, o, p, ls, n)]
    BY <1>0 DEF Accept
  <2>3. Asking
    BY <1>0, <2>1, <2>2
  <2>4. QED
    BY <1>0, <2>3 DEF Accept
<1> HIDE DEF Asking
<1>1. ASSUME NEW o \in Orders, NEW new \in NewLines, Create(r, o, new) \/ Update(r, o, new)
      PROVE  UNCHANGED rows /\ req[r] = Idle /\ Asking
  <2>1. new \in SUBSET Line
    BY DEF NewLines, Line
  <2>2. TotalOf[UnitsOf(new)] \in Nat
    <3>1. UnitsOf(new) \in SUBSET Units
      BY <2>1 DEF UnitsOf, Line
    <3>2. QED
      BY <3>1 DEF SalesAssumption
  <2>3. PICK op \in {"create", "update"} :
          /\ Accept(r, Ask(op, o, None, new, TotalOf[UnitsOf(new)]))
          /\ Asks(op, o, None)
    <3>1. CASE Create(r, o, new)
      BY <3>1 DEF Create, Asks, PayOps, DeliveryOps
    <3>2. CASE Update(r, o, new)
      BY <3>2 DEF Update, Editable, Asks, PayOps, DeliveryOps
    <3>3. QED
      BY <1>1, <3>1, <3>2
  <2>4. QED
    BY <1>0, <2>1, <2>2, <2>3 DEF Ops
<1>2. ASSUME NEW o \in Orders, NEW p \in Payments, Record(r, o, p)
      PROVE  UNCHANGED rows /\ req[r] = Idle /\ Asking
  <2>1. Asks("record", o, p)
    BY <1>2 DEF Record, Asks, PayOps, DeliveryOps
  <2>2. QED
    BY <1>0, <1>2, <2>1 DEF Record, Ops
<1>3. ASSUME NEW p \in Payments, Confirm(r, p) \/ Reject(r, p)
      PROVE  UNCHANGED rows /\ req[r] = Idle /\ Asking
  <2>1. pay[p].status = "PENDING"
    BY <1>3 DEF Confirm, Reject, Rejectable
  <2>2. pay[p].so \in Orders /\ status[pay[p].so] # "NONE"
    BY <2>1 DEF References
  <2>3. \A op \in {"confirm", "reject"} : Asks(op, pay[p].so, p)
    BY <2>1, <2>2 DEF Asks, PayOps, DeliveryOps
  <2>4. QED
    BY <1>0, <1>3, <2>2, <2>3 DEF Confirm, Reject, Ops
<1>4. ASSUME NEW o \in Orders, GenerateInvoice(r, o)
      PROVE  UNCHANGED rows /\ req[r] = Idle /\ Asking
  <2>1. Asks("invoice", o, None) /\ total[o] \in Nat
    BY <1>4 DEF GenerateInvoice, Invoiceable, Asks, PayOps, DeliveryOps, TypeOK
  <2>2. QED
    BY <1>0, <1>4, <2>1 DEF GenerateInvoice, Ops
<1>5. ASSUME NEW o \in Orders,
             \/ Submit(r, o) \/ AuthoriseRelease(r, o) \/ Cancel(r, o)
             \/ CreateDeliveryNote(r, o) \/ CreateWaybill(r, o) \/ Dispatch(r, o)
             \/ RecordProofOfDelivery(r, o) \/ Close(r, o)
      PROVE  UNCHANGED rows /\ req[r] = Idle /\ Asking
  <2> USE DEF Asks, PayOps, DeliveryOps
  <2>1. CASE Submit(r, o) \/ AuthoriseRelease(r, o)
    BY <1>0, <2>1, Moves DEF Submit, AuthoriseRelease, Ops
  <2>2. CASE Cancel(r, o)
    BY <1>0, <2>2 DEF Cancel, Cancellable, Ops
  <2>3. CASE CreateDeliveryNote(r, o)
    BY <1>0, <2>3 DEF CreateDeliveryNote, Released, Ops
  <2>4. CASE CreateWaybill(r, o)
    BY <1>0, <2>4 DEF CreateWaybill, Ops, References
  <2>5. CASE Dispatch(r, o)
    BY <1>0, <2>5, Moves DEF Dispatch, Ops
  <2>6. CASE RecordProofOfDelivery(r, o)
    BY <1>0, <2>6, Moves DEF RecordProofOfDelivery, Ops
  <2>7. CASE Close(r, o)
    BY <1>0, <2>7, Moves DEF Close, Ops
  <2>8. QED
    BY <1>5, <2>1, <2>2, <2>3, <2>4, <2>5, <2>6, <2>7
<1>6. UNCHANGED rows /\ req[r] = Idle /\ Asking
  BY <1>1, <1>2, <1>3, <1>4, <1>5 DEF Validate
<1>7. QED
  BY <1>6 DEF Asking

-------------------------------------------------------------------------------
(* Effects of the steps.                                                    *)

Same(q) == req'[q].op = req[q].op /\ req'[q].so = req[q].so /\ req'[q].pay = req[q].pay

IdleFacts == Idle \in Request /\ Idle.op = "idle" /\ Idle.so = None /\ Idle.pay = None
             /\ ~Idle.begun

LEMMA IdleTyped == IdleFacts
BY DEF IdleFacts, Idle, Ask, Request

LEMMA AskTyped ==
    ASSUME NEW op \in Ops, NEW o \in Orders, NEW p \in Payments \cup {None},
           NEW ls \in SUBSET Line, NEW n \in Nat
    PROVE  /\ Ask(op, o, p, ls, n) \in Request
           /\ Ask(op, o, p, ls, n).op = op
           /\ Ask(op, o, p, ls, n).so = o
           /\ Ask(op, o, p, ls, n).pay = p
           /\ ~Ask(op, o, p, ls, n).begun
BY DEF Ask, Request

(* The request r ends; the others go on with what they are doing.           *)
Ended(r) ==
    /\ req' \in [Requests -> Request]
    /\ req'[r] = Idle
    /\ \A q \in Requests \ {r} : Same(q) /\ req'[q].begun = req[q].begun
                                 /\ req'[q].advance = req[q].advance

LEMMA FinishedEnds ==
    ASSUME TypeOK, NEW r \in Requests, Finished(r)
    PROVE  Ended(r)
BY IdleTyped DEF Ended, Finished, TypeOK, Same, IdleFacts

LEMMA UpdateEnds ==
    ASSUME TypeOK, NEW r \in Requests, CommitUpdate(r)
    PROVE  Ended(r)
<1> DEFINE o == req[r].so
<1>1. req' = [q \in Requests |->
                  IF q = r THEN Idle
                  ELSE IF req[q].so = o THEN [req[q] EXCEPT !.covers = FALSE] ELSE req[q]]
  BY DEF CommitUpdate
<1>2. ASSUME NEW q \in Requests \ {r}
      PROVE  /\ req'[q] \in Request
             /\ Same(q) /\ req'[q].begun = req[q].begun /\ req'[q].advance = req[q].advance
  <2>1. req[q] \in Request
    BY DEF TypeOK
  <2>2. CASE req[q].so = o
    <3>1. req'[q] = [req[q] EXCEPT !.covers = FALSE]
      BY <1>1, <2>2
    <3>2. QED
      BY <2>1, <3>1 DEF Request, Same
  <2>3. CASE req[q].so # o
    BY <1>1, <2>1, <2>3 DEF Same
  <2>4. QED
    BY <2>2, <2>3
<1>3. QED
  BY <1>1, <1>2, IdleTyped DEF Ended, IdleFacts

(* What a commit does to the rows other requests and payments point at.     *)
LEMMA CommitEffect ==
    ASSUME TypeOK, References, NEW r \in Requests, Commit(r)
    PROVE  /\ Ended(r)
           /\ req[r].op \in Ops
           /\ \A o \in Orders : status'[o] = "NONE" => status[o] = "NONE"
           /\ \A o \in Orders : status[o] = "NONE" /\ status'[o] # "NONE" =>
                 req[r].op = "create" /\ o = req[r].so
           /\ \A o \in Orders : papers'[o] # papers[o] =>
                 status[o] # "NONE"
           /\ \A p \in Payments : pay'[p] # pay[p] =>
                 /\ req[r].op \in PayOps /\ p = req[r].pay
                 /\ pay'[p].so = req[r].so /\ pay'[p].status # "NONE"
<1> USE DEF TypeOK
<1>1. CASE CommitCreate(r)
  BY <1>1, FinishedEnds DEF CommitCreate, Ops
<1>2. CASE CommitUpdate(r)
  BY <1>2, UpdateEnds DEF CommitUpdate, Ops
<1>3. CASE CommitInvoice(r)
  BY <1>3, FinishedEnds DEF CommitInvoice, Ops, References
<1>4. CASE CommitRecord(r)
  BY <1>4, FinishedEnds DEF CommitRecord, Ops, PayOps
<1>5. CASE CommitConfirm(r)
  BY <1>5, FinishedEnds DEF CommitConfirm, Ops, PayOps, References
<1>6. CASE CommitReject(r)
  BY <1>6, FinishedEnds DEF CommitReject, Ops, PayOps, References
<1>7. CASE CommitRelease(r)
  BY <1>7, FinishedEnds DEF CommitRelease, Ops, References
<1>8. CASE CommitCancel(r)
  BY <1>8, FinishedEnds DEF CommitCancel, Ops, References
<1>9. CASE CommitStep(r)
  <2>1. req[r].op \in Ops \ {"create"}
    BY <1>9 DEF CommitStep, Ops, StatusSteps, PaperSteps
  <2>2. \A op \in StatusSteps : Goal(op) # "NONE"
    BY DEF Goal, StatusSteps
  <2>3. QED
    BY <1>9, <2>1, <2>2, FinishedEnds DEF CommitStep, References
<1>10. QED
  BY <1>1, <1>2, <1>3, <1>4, <1>5, <1>6, <1>7, <1>8, <1>9 DEF Commit

LEMMA BeginEffect ==
    ASSUME SalesAssumption, TypeOK, References, NEW r \in Requests, Begin(r)
    PROVE  /\ UNCHANGED rows
           /\ req' \in [Requests -> Request]
           /\ Same(r)
           /\ \A q \in Requests \ {r} : req'[q] = req[q]
<1> USE DEF Begun, Ready
<1>1. req[r] \in Request
  BY DEF TypeOK
<1>2. CASE BeginUpdate(r) \/ BeginCancel(r)
  <2>1. [req[r] EXCEPT !.begun = TRUE, !.covers = TRUE] \in Request
    BY <1>1 DEF Request
  <2>2. req' = [req EXCEPT ![r] = [req[r] EXCEPT !.begun = TRUE, !.covers = TRUE]]
    BY <1>2 DEF BeginUpdate, BeginCancel
  <2>3. QED
    BY <1>1, <1>2, <2>1, <2>2 DEF BeginUpdate, BeginCancel, Request, Same, TypeOK
<1>3. CASE BeginConfirm(r)
  <2> DEFINE adv == DerivedTotal(r) >= total[req[r].so] /\ status[req[r].so] = "AWAITING_PAYMENT"
             new == [req[r] EXCEPT !.begun = TRUE, !.amount = DerivedTotal(r), !.advance = adv]
  <2>1. DerivedTotal(r) \in Nat
    <3>1. req[r].pay \in Payments
      BY <1>3 DEF BeginConfirm, References, PayOps
    <3>2. Confirmed(req[r].so) \cup {req[r].pay} \in SUBSET Payments
      BY <3>1 DEF Confirmed
    <3>3. QED
      BY <3>2 DEF DerivedTotal, SalesAssumption
  <2>2. req' = [req EXCEPT ![r] = new] /\ UNCHANGED rows
    BY <1>3 DEF BeginConfirm
  <2>3. adv \in BOOLEAN
    OBVIOUS
  <2> HIDE DEF adv
  <2>4. new \in Request /\ new.op = req[r].op /\ new.so = req[r].so /\ new.pay = req[r].pay
    BY <1>1, <2>1, <2>3 DEF Request
  <2> HIDE DEF new
  <2>5. QED
    BY <2>2, <2>4 DEF Same, TypeOK
<1>4. CASE BeginRelease(r)
  <2>1. lines[req[r].so] \in SUBSET Line
    BY <1>1, <1>4 DEF BeginRelease, TypeOK, References, Ops
  <2>2. [req[r] EXCEPT !.begun = TRUE, !.lines = lines[req[r].so]] \in Request
    BY <1>1, <2>1 DEF Request
  <2>3. req' = [req EXCEPT ![r] = [req[r] EXCEPT !.begun = TRUE, !.lines = lines[req[r].so]]]
    BY <1>4 DEF BeginRelease
  <2>4. QED
    BY <1>1, <1>4, <2>2, <2>3 DEF BeginRelease, Request, Same, TypeOK
<1>5. QED
  BY <1>2, <1>3, <1>4 DEF Begin

(* A commit is of one of nine kinds; every other step of a request leaves   *)
(* the rows alone.                                                          *)
LEMMA CommitTyped ==
    ASSUME SalesAssumption, TypeOK, References, NEW r \in Requests, Commit(r), UNCHANGED moves
    PROVE  TypeOK'
<1> USE DEF TypeOK
<1>0. req[r] \in Request /\ Ended(r)
  BY CommitEffect
<1> USE <1>0 DEF Ended
<1>1. CASE CommitCreate(r)
  BY <1>1 DEF CommitCreate, Request, OrderStatus
<1>2. CASE CommitUpdate(r)
  BY <1>2 DEF CommitUpdate, Request
<1>3. CASE CommitInvoice(r)
  BY <1>3 DEF CommitInvoice, Request, Paper
<1>4. CASE CommitRecord(r)
  BY <1>4 DEF CommitRecord, Request, PayStatus
<1>5. CASE CommitConfirm(r)
  BY <1>5 DEF CommitConfirm, Request, PayStatus, OrderStatus
<1>6. CASE CommitReject(r)
  BY <1>6 DEF CommitReject, Request, PayStatus
<1>7. CASE CommitRelease(r)
  <2>1. \A form : SoldAs(form) \in UnitStatus
    BY DEF SoldAs, UnitStatus, SoldStates
  <2>2. sale' \in [Units -> Sale]
    <3>1. req[r].so \in Orders
      BY <1>7 DEF CommitRelease, References, Ops
    <3>2. [order |-> req[r].so, since |-> "none"] \in Sale
      BY <3>1 DEF Sale
    <3>3. QED
      BY <1>7, <3>2 DEF CommitRelease
  <2>3. unit' \in [Units -> UnitStatus]
    BY <1>7, <2>1 DEF CommitRelease
  <2>4. QED
    BY <1>7, <2>2, <2>3 DEF CommitRelease, Request, Paper, OrderStatus
<1>8. CASE CommitCancel(r)
  <2>1. \A ls \in SUBSET Line : Freed(ls) \in SUBSET Line
    BY DEF Freed, Line
  <2>2. QED
    BY <1>8, <2>1 DEF CommitCancel, OrderStatus
<1>9. CASE CommitStep(r)
  <2>1. \A op \in StatusSteps : Goal(op) \in OrderStatus
    BY DEF StatusSteps, Goal, OrderStatus
  <2>2. PaperSteps \subseteq Paper
    BY DEF PaperSteps, Paper
  <2>3. UNCHANGED <<unit, sale, lines, total, received, invoiced, pay>>
    BY <1>9 DEF CommitStep
  <2>4. papers' \in [Orders -> SUBSET Paper]
    <3>1. papers' = [papers EXCEPT ![req[r].so] =
                       IF req[r].op \in PaperSteps THEN @ \cup {req[r].op} ELSE @]
      BY <1>9 DEF CommitStep
    <3>2. req[r].so \in Orders /\ papers[req[r].so] \in SUBSET Paper
      BY <1>9, CommitEffect DEF References
    <3>3. (IF req[r].op \in PaperSteps THEN papers[req[r].so] \cup {req[r].op}
           ELSE papers[req[r].so]) \in SUBSET Paper
      BY <2>2, <3>2
    <3>4. QED
      BY <3>1, <3>3
  <2>5. status' \in [Orders -> OrderStatus \cup {"NONE"}]
    <3>1. status' = [status EXCEPT ![req[r].so] =
                       IF req[r].op \in StatusSteps THEN Goal(req[r].op) ELSE @]
      BY <1>9 DEF CommitStep
    <3>2. QED
      BY <2>1, <3>1
  <2>6. QED
    BY <2>3, <2>4, <2>5
<1>10. QED
  BY <1>1, <1>2, <1>3, <1>4, <1>5, <1>6, <1>7, <1>8, <1>9 DEF Commit

(* A mover touches units and their movements only.                          *)
LEMMA MovingEffect ==
    ASSUME NEW m \in Movers, Moving(m)
    PROVE  UNCHANGED <<status, lines, total, received, papers, invoiced, pay, req>>
BY DEF Moving, ReadMove, WriteMove, rows

LEMMA MovingTyped ==
    ASSUME SalesAssumption, TypeOK, NEW m \in Movers, Moving(m)
    PROVE  TypeOK'
<1> USE DEF TypeOK
<1>0. UNCHANGED <<status, lines, total, received, papers, invoiced, pay, req>>
  BY MovingEffect
<1>1. ASSUME NEW u \in Units, NEW kind \in MoverKind, NEW to \in MoveTargets[kind],
             ReadMove(m, u, to, kind)
      PROVE  TypeOK'
  <2>1. to \in UnitStatus
    BY DEF SalesAssumption
  <2>2. PICK v \in Move : v = [unit |-> u, to |-> to, kind |-> kind]
    BY <2>1 DEF Move
  <2>3. moves' = [moves EXCEPT ![m] = v]
    BY <1>1, <2>2 DEF ReadMove
  <2>4. moves' \in [Movers -> Move \cup {NoMove}]
    BY <2>3
  <2>5. UNCHANGED <<unit, sale>>
    BY <1>1 DEF ReadMove, rows
  <2>6. QED
    BY <1>0, <2>4, <2>5
<1>2. CASE WriteMove(m)
  <2>1. PICK v : v = moves[m]
    OBVIOUS
  <2>2. v \in Move
    BY <1>2, <2>1 DEF WriteMove
  <2>3. v.unit \in Units /\ v.to \in UnitStatus /\ v.kind \in MoverKind
    BY <2>2 DEF Move
  <2>4. /\ unit' = [unit EXCEPT ![v.unit] = v.to]
        /\ sale' = [sale EXCEPT ![v.unit].since = v.kind]
        /\ moves' = [moves EXCEPT ![m] = NoMove]
    BY <1>2, <2>1 DEF WriteMove
  <2>5. unit' \in [Units -> UnitStatus]
    BY <2>3, <2>4
  <2>6. sale' \in [Units -> Sale]
    <3>1. sale[v.unit] \in Sale
      BY <2>3
    <3>2. PICK w : w = [sale[v.unit] EXCEPT !.since = v.kind]
      OBVIOUS
    <3>3. w \in Sale
      BY <2>3, <3>1, <3>2 DEF Sale
    <3>4. sale' = [sale EXCEPT ![v.unit] = w]
      BY <2>4, <3>2
    <3>5. QED
      BY <3>3, <3>4
  <2>7. moves' \in [Movers -> Move \cup {NoMove}]
    BY <2>4
  <2>8. QED
    BY <1>0, <2>5, <2>6, <2>7
<1>3. QED
  BY <1>1, <1>2 DEF Moving

(* A step of one request, of one mover, or no step at all.                  *)
LEMMA Steps ==
    ASSUME [Next]_vars
    PROVE  \/ UNCHANGED vars
           \/ \E m \in Movers : Moving(m)
           \/ /\ UNCHANGED moves
              /\ \E r \in Requests :
                    Validate(r) \/ Begin(r) \/ Commit(r) \/ Refuse(r) \/ Lose(r)
BY DEF Next

LEMMA TypeStep ==
    ASSUME SalesAssumption, TypeOK, References, [Next]_vars
    PROVE  TypeOK'
<1>1. CASE UNCHANGED vars
  BY <1>1 DEF vars, rows, TypeOK
<1>2. ASSUME NEW r \in Requests, Validate(r), UNCHANGED moves PROVE TypeOK'
  <2>1. PICK op \in Endpoints, o \in Orders, p \in Payments \cup {None}, ls \in SUBSET Line,
             n \in Nat : req' = [req EXCEPT ![r] = Ask(op, o, p, ls, n)]
    BY <1>2, ValidateAsks
  <2>2. Ask(op, o, p, ls, n) \in Request
    BY AskTyped DEF SalesAssumption
  <2>3. QED
    BY <1>2, <2>1, <2>2, ValidateAsks DEF TypeOK, rows
<1>3. ASSUME NEW r \in Requests, Begin(r), UNCHANGED moves PROVE TypeOK'
  BY <1>3, BeginEffect DEF TypeOK, rows
<1>4. ASSUME NEW r \in Requests, Commit(r), UNCHANGED moves PROVE TypeOK'
  BY <1>4, CommitTyped
<1>5. ASSUME NEW r \in Requests, Refuse(r) \/ Lose(r), UNCHANGED moves PROVE TypeOK'
  BY <1>5, FinishedEnds DEF Refuse, Lose, Ended, TypeOK, rows
<1>6. ASSUME NEW m \in Movers, Moving(m) PROVE TypeOK'
  BY <1>6, MovingTyped
<1>7. QED
  BY <1>1, <1>2, <1>3, <1>4, <1>5, <1>6, Steps

LEMMA ReferencesStep ==
    ASSUME SalesAssumption, TypeOK, References, [Next]_vars
    PROVE  References'
<1> USE DEF References
<1>1. CASE UNCHANGED <<status, papers, pay, req>>
  BY <1>1
<1>2. ASSUME NEW r \in Requests, Validate(r) PROVE References'
  <2>1. PICK op \in Endpoints, o \in Orders, p \in Payments \cup {None}, ls \in SUBSET Line,
             n \in Nat : Asks(op, o, p) /\ req' = [req EXCEPT ![r] = Ask(op, o, p, ls, n)]
    BY <1>2, ValidateAsks
  <2>2. /\ req'[r].op = op /\ req'[r].so = o /\ req'[r].pay = p
        /\ \A q \in Requests \ {r} : req'[q] = req[q]
    BY <2>1, AskTyped DEF SalesAssumption, TypeOK
  <2>3. UNCHANGED <<status, papers, pay>>
    BY <1>2, ValidateAsks DEF rows
  <2>4. op \in Ops
    BY DEF SalesAssumption
  <2>5. ASSUME NEW q \in Requests \ {r}, req[q].op = "create"
        PROVE  req[q].so # o
    <3>1. CASE op = "create"
      BY <2>1, <3>1 DEF Asks
    <3>2. CASE op # "create"
      BY <2>1, <2>5, <3>2 DEF Asks
    <3>3. QED
      BY <3>1, <3>2
  <2>6. ASSUME NEW q \in Requests \ {r}, req[q].op = "record"
        PROVE  req[q].pay # p
    <3>1. req[q].pay \in Payments /\ pay[req[q].pay].status = "NONE"
      BY <2>6 DEF PayOps
    <3>2. CASE op = "record"
      BY <2>1, <3>2 DEF Asks
    <3>3. CASE op \in {"confirm", "reject"}
      BY <2>1, <3>1, <3>3 DEF Asks
    <3>4. CASE op \notin PayOps
      BY <2>1, <3>1, <3>4 DEF Asks, SalesAssumption
    <3>5. QED
      BY <3>2, <3>3, <3>4 DEF PayOps
  <2>7. QED
    BY <2>1, <2>2, <2>3, <2>4, <2>5, <2>6 DEF Asks, SalesAssumption
<1>3. ASSUME NEW r \in Requests, Begin(r) PROVE References'
  <2>1. UNCHANGED <<status, papers, pay>> /\ \A q \in Requests : Same(q)
    BY <1>3, BeginEffect DEF rows, Same
  <2>2. QED
    BY <2>1 DEF Same
<1>4. ASSUME NEW r \in Requests, Ended(r), UNCHANGED rows PROVE References'
  BY <1>4, IdleTyped DEF Ended, Same, rows, IdleFacts, Ops, PayOps, SalesAssumption
<1>5. ASSUME NEW r \in Requests, Commit(r) PROVE References'
  <2>1. /\ req'[r] = Idle
        /\ \A q \in Requests \ {r} : Same(q)
    BY <1>5, CommitEffect DEF Ended
  <2>2. ASSUME NEW o \in Orders, status[o] # "NONE" PROVE status'[o] # "NONE"
    BY <1>5, <2>2, CommitEffect
  <2>3. ASSUME NEW p \in Payments, pay'[p].status # "NONE"
        PROVE  pay'[p].so \in Orders /\ status'[pay'[p].so] # "NONE"
    <3>1. CASE pay'[p] = pay[p]
      BY <2>2, <2>3, <3>1
    <3>2. CASE pay'[p] # pay[p]
      BY <1>5, <2>2, <3>2, CommitEffect DEF PayOps, Ops
    <3>3. QED
      BY <3>1, <3>2
  <2>4. ASSUME NEW o \in Orders, papers'[o] # {} PROVE status'[o] # "NONE"
    BY <1>5, <2>2, <2>4, CommitEffect
  <2>5. ASSUME NEW q \in Requests \ {r}, req[q].op = "create"
        PROVE  status'[req[q].so] = "NONE"
    BY <1>5, <2>5, CommitEffect DEF Ops
  <2>6. ASSUME NEW q \in Requests \ {r}, req[q].op \in PayOps
        PROVE  \/ /\ pay'[req[q].pay].so = pay[req[q].pay].so
                  /\ pay'[req[q].pay].status = "NONE" <=> pay[req[q].pay].status = "NONE"
               \/ pay'[req[q].pay] = pay[req[q].pay]
    <3>1. CASE pay'[req[q].pay] # pay[req[q].pay]
      <4>1. req[r].op \in PayOps /\ req[q].pay = req[r].pay /\ req[q].pay \in Payments
            /\ pay'[req[q].pay].so = req[r].so /\ pay'[req[q].pay].status # "NONE"
        BY <1>5, <2>6, <3>1, CommitEffect
      <4>2. req[r].op # "record" /\ req[q].op # "record"
        BY <2>6, <4>1
      <4>3. QED
        BY <2>6, <4>1, <4>2 DEF PayOps
    <3>2. QED
      BY <3>1
  <2>7. QED
    BY <2>1, <2>2, <2>3, <2>4, <2>5, <2>6, IdleTyped
    DEF Same, IdleFacts, Ops, PayOps, SalesAssumption
<1>6. QED
  BY <1>1, <1>2, <1>3, <1>4, <1>5, FinishedEnds, Steps, MovingEffect
  DEF Refuse, Lose, vars, rows

LEMMA InitTyped ==
    ASSUME SalesAssumption, Init
    PROVE  TypeOK /\ References
<1>1. CKD \in UnitStatus
  BY DEF UnitStatus, Warehoused
<1>2. TypeOK
  BY <1>1, IdleTyped DEF Init, TypeOK, IdleFacts, PayStatus, Sale
<1>3. References
  BY IdleTyped DEF Init, References, IdleFacts, Ops, PayOps
<1>4. QED
  BY <1>2, <1>3

(* Whatever requests run together, every variable keeps its type and every  *)
(* request works on rows that exist, or inserts rows that do not.           *)
THEOREM TypeCorrect ==
    ASSUME SalesAssumption
    PROVE  Spec => [](TypeOK /\ References)
<1>1. Init => TypeOK /\ References
  BY InitTyped
<1>2. TypeOK /\ References /\ [Next]_vars => (TypeOK /\ References)'
  BY TypeStep, ReferencesStep
<1>3. QED
  BY <1>1, <1>2, PTL DEF Spec

-------------------------------------------------------------------------------
(* I-11.                                                                    *)

(* The partial unique index keeps every unit on the lines of at most one    *)
(* order, whatever the pre-flight checks of concurrent requests have seen.  *)
THEOREM UnitsAreReservedOnce ==
    ASSUME SalesAssumption
    PROVE  Spec => []OneOrderPerUnit
<1>1. Init => OneOrderPerUnit
  BY DEF Init, OneOrderPerUnit, UnitsOf
<1>2. TypeOK /\ References /\ OneOrderPerUnit /\ [Next]_vars => OneOrderPerUnit'
  <2> SUFFICES ASSUME TypeOK, References, OneOrderPerUnit, [Next]_vars
               PROVE  OneOrderPerUnit'
    OBVIOUS
  <2>1. CASE UNCHANGED lines
    BY <2>1 DEF OneOrderPerUnit
  <2>2. ASSUME NEW o \in Orders,
               \A p \in Orders \ {o} : lines'[p] = lines[p],
               \A p \in Orders \ {o} : UnitsOf(lines'[o]) \cap UnitsOf(lines[p]) = {}
        PROVE  OneOrderPerUnit'
    BY <2>2 DEF OneOrderPerUnit
  <2>3. ASSUME NEW r \in Requests, CommitCreate(r) \/ CommitUpdate(r) PROVE OneOrderPerUnit'
    <3> DEFINE o == req[r].so
    <3>1. o \in Orders /\ I11Conflicts(req[r].lines, o) = {}
      BY <2>3 DEF CommitCreate, CommitUpdate, Admitted, References, Ops
    <3>2. \A p \in Orders \ {o} : UnitsOf(req[r].lines) \cap UnitsOf(lines[p]) = {}
      BY <3>1 DEF I11Conflicts
    <3>3. \A p \in Orders \ {o} : lines'[p] = lines[p]
      BY <2>3, <3>1 DEF CommitCreate, CommitUpdate, TypeOK
    <3>4. lines'[o] \subseteq lines[o] \cup req[r].lines
      BY <2>3, <3>1 DEF CommitCreate, CommitUpdate, TypeOK
    <3>5. UnitsOf(lines'[o]) \subseteq UnitsOf(lines[o]) \cup UnitsOf(req[r].lines)
      BY <3>4 DEF UnitsOf
    <3>6. \A p \in Orders \ {o} : UnitsOf(lines[o]) \cap UnitsOf(lines[p]) = {}
      BY <3>1 DEF OneOrderPerUnit
    <3>7. \A p \in Orders \ {o} : UnitsOf(lines'[o]) \cap UnitsOf(lines[p]) = {}
      BY <3>2, <3>5, <3>6
    <3>8. QED
      BY <2>2, <3>1, <3>3, <3>7
  <2>4. ASSUME NEW r \in Requests, CommitCancel(r) PROVE OneOrderPerUnit'
    <3> DEFINE o == req[r].so
    <3>1. o \in Orders
      BY <2>4 DEF CommitCancel, References, Ops
    <3>2. \A p \in Orders \ {o} : lines'[p] = lines[p]
      BY <2>4, <3>1 DEF CommitCancel, TypeOK
    <3>3. UnitsOf(Freed(lines[o])) = {}
      <4>1. \A l \in Freed(lines[o]) : l.unit = None
        BY <3>1 DEF TypeOK, Line, Freed
      <4>2. QED
        BY <4>1 DEF UnitsOf
    <3>4. UnitsOf(lines'[o]) \subseteq UnitsOf(lines[o])
      BY <2>4, <3>1, <3>3 DEF CommitCancel, TypeOK
    <3>5. \A p \in Orders \ {o} : UnitsOf(lines[o]) \cap UnitsOf(lines[p]) = {}
      BY <3>1 DEF OneOrderPerUnit
    <3>6. QED
      BY <2>2, <3>1, <3>2, <3>4, <3>5
  <2>5. ASSUME NEW r \in Requests, Commit(r) PROVE OneOrderPerUnit'
    BY <2>1, <2>3, <2>4, <2>5
    DEF Commit, CommitInvoice, CommitRecord, CommitConfirm, CommitReject, CommitRelease,
        CommitStep
  <2>6. ASSUME NEW r \in Requests, Validate(r) \/ Begin(r) \/ Refuse(r) \/ Lose(r)
        PROVE  UNCHANGED lines
    BY <2>6, ValidateAsks, BeginEffect DEF Refuse, Lose, rows
  <2>7. QED
    BY <2>1, <2>5, <2>6, Steps, MovingEffect DEF vars, rows
<1>3. QED
  BY <1>1, <1>2, TypeCorrect, PTL DEF Spec

-------------------------------------------------------------------------------
(* Payment coverage.                                                        *)

Covered(o) == ConfirmedSum(o) >= total[o]

(* Covered as soon as payment p is confirmed.                               *)
CoveredWith(o, p) == SumOf[Confirmed(o) \cup {p}] >= total[o]

Paid == Released \cup {"PAYMENT_RECEIVED"}

(* What a request that is going to advance an order relies on: its order is *)
(* covered, or will be once its own payment is confirmed.                   *)
Coverage ==
    \A r \in Requests, o \in Orders :
        /\ req[r].op \notin {"update", "reject"}
        /\ req[r].op \in DeliveryOps /\ req[r].so = o => Covered(o)
        /\ req[r].op = "release" /\ req[r].begun /\ req[r].so = o => Covered(o)
        /\ \A p \in Payments :
              req[r].op = "confirm" /\ req[r].begun /\ req[r].advance
              /\ req[r].so = o /\ req[r].pay = p => CoveredWith(o, p)

CoverageInv == Coverage /\ \A o \in Orders : status[o] \in Paid => Covered(o)

LEMMA CoverageInvImplies == CoverageInv => PaidOrdersAreCovered
BY DEF CoverageInv, PaidOrdersAreCovered, Covered, Paid

(* SUM of a larger set of payments is no smaller.                           *)
LEMMA SumGrows ==
    ASSUME SalesAssumption, NEW S \in SUBSET Payments, NEW T \in SUBSET Payments,
           S \subseteq T
    PROVE  SumOf[S] \in Nat /\ SumOf[T] \in Nat /\ SumOf[S] <= SumOf[T]
BY DEF SalesAssumption

(* Where an order's total stays and its confirmed payments grow, coverage   *)
(* stays.                                                                   *)
LEMMA CoverageStays ==
    ASSUME SalesAssumption, TypeOK, NEW o \in Orders, total'[o] = total[o],
           Confirmed(o) \subseteq Confirmed(o)'
    PROVE  /\ Covered(o) => Covered(o)'
           /\ \A p \in Payments : CoveredWith(o, p) => CoveredWith(o, p)'
<1>1. Confirmed(o) \in SUBSET Payments /\ Confirmed(o)' \in SUBSET Payments
  BY DEF Confirmed
<1>2. total[o] \in Nat
  BY DEF TypeOK
<1>3. SumOf[Confirmed(o)] \in Nat /\ SumOf[Confirmed(o)'] \in Nat
      /\ SumOf[Confirmed(o)] <= SumOf[Confirmed(o)']
  BY <1>1, SumGrows
<1>4. Covered(o) => Covered(o)'
  BY <1>2, <1>3 DEF Covered, ConfirmedSum
<1>5. ASSUME NEW p \in Payments, CoveredWith(o, p) PROVE CoveredWith(o, p)'
  <2>1. SumOf[Confirmed(o) \cup {p}] \in Nat /\ SumOf[Confirmed(o)' \cup {p}] \in Nat
        /\ SumOf[Confirmed(o) \cup {p}] <= SumOf[Confirmed(o)' \cup {p}]
    BY <1>1, SumGrows
  <2>2. QED
    BY <1>2, <1>5, <2>1 DEF CoveredWith
<1>6. QED
  BY <1>4, <1>5

(* A commit without edits and rejections keeps an existing order's total    *)
(* and every confirmed payment.                                             *)
LEMMA CommitKeeps ==
    ASSUME TypeOK, References, CoverageInv, NEW r \in Requests, Commit(r), NEW o \in Orders,
           status[o] # "NONE"
    PROVE  total'[o] = total[o] /\ Confirmed(o) \subseteq Confirmed(o)'
<1>1. CASE CommitCreate(r)
  BY <1>1 DEF CommitCreate, References, TypeOK, Confirmed
<1>2. ~CommitUpdate(r) /\ ~CommitReject(r)
  BY DEF CommitUpdate, CommitReject, CoverageInv, Coverage
<1>3. CASE CommitRecord(r)
  BY <1>3 DEF CommitRecord, References, TypeOK, Confirmed
<1>4. CASE CommitConfirm(r)
  <2>1. req[r].pay \in Payments /\ pay[req[r].pay].so = req[r].so
    BY <1>4 DEF CommitConfirm, References, PayOps
  <2>2. QED
    BY <1>4, <2>1 DEF CommitConfirm, TypeOK, Confirmed
<1>5. QED
  BY <1>1, <1>2, <1>3, <1>4
  DEF Commit, CommitInvoice, CommitRelease, CommitCancel, CommitStep, Confirmed

(* Steps that write none of these rows keep the coverage of every order.    *)
LEMMA CoverageUnchanged ==
    ASSUME SalesAssumption, TypeOK, UNCHANGED <<status, total, pay>>, CoverageInv
    PROVE  /\ \A o \in Orders : Covered(o) => Covered(o)'
           /\ \A o \in Orders, p \in Payments : CoveredWith(o, p) => CoveredWith(o, p)'
           /\ \A o \in Orders : status'[o] \in Paid => Covered(o)'
<1>1. \A o \in Orders : total'[o] = total[o] /\ Confirmed(o) \subseteq Confirmed(o)'
  BY DEF Confirmed
<1>2. /\ \A o \in Orders : Covered(o) => Covered(o)'
      /\ \A o \in Orders, p \in Payments : CoveredWith(o, p) => CoveredWith(o, p)'
  BY <1>1, CoverageStays
<1>3. QED
  BY <1>2 DEF CoverageInv

LEMMA CoverageValidate ==
    ASSUME SalesAssumption, Endpoints \cap {"update", "reject"} = {},
           TypeOK, References, CoverageInv, NEW r \in Requests, Validate(r)
    PROVE  CoverageInv'
<1>1. PICK op \in Endpoints, o \in Orders, p \in Payments \cup {None}, ls \in SUBSET Line,
           n \in Nat : Asks(op, o, p) /\ req' = [req EXCEPT ![r] = Ask(op, o, p, ls, n)]
  BY ValidateAsks
<1>2. /\ req'[r].op = op /\ req'[r].so = o /\ ~req'[r].begun
      /\ \A q \in Requests \ {r} : req'[q] = req[q]
  BY <1>1, AskTyped DEF SalesAssumption, TypeOK
<1>3. UNCHANGED <<status, total, pay>>
  BY ValidateAsks DEF rows
<1>4. op \in DeliveryOps => Covered(o)
  BY <1>1 DEF Asks, CoverageInv, Paid
<1>5. Coverage'
  BY <1>2, <1>3, <1>4, CoverageUnchanged DEF Coverage, CoverageInv
<1>6. QED
  BY <1>3, <1>5, CoverageUnchanged DEF CoverageInv

LEMMA CoverageBegin ==
    ASSUME SalesAssumption, TypeOK, References, CoverageInv, NEW r \in Requests, Begin(r)
    PROVE  CoverageInv'
<1>1. UNCHANGED <<status, total, pay>> /\ Same(r) /\ \A q \in Requests \ {r} : req'[q] = req[q]
  BY BeginEffect DEF rows
<1>2. ASSUME req[r].op = "release" PROVE Covered(req[r].so)
  BY <1>2
  DEF Begin, BeginUpdate, BeginConfirm, BeginCancel, BeginRelease, Ready, ReleaseAllowed,
      CoversTotal, Covered
<1>3. ASSUME req[r].op = "confirm", req'[r].advance
      PROVE  CoveredWith(req[r].so, req[r].pay)
  <2>1. BeginConfirm(r)
    BY <1>3 DEF Begin, BeginUpdate, BeginRelease, BeginCancel, Ready
  <2>2. req[r] \in Request
    BY DEF TypeOK
  <2>3. req'[r].advance = (DerivedTotal(r) >= total[req[r].so]
                            /\ status[req[r].so] = "AWAITING_PAYMENT")
    BY <2>1, <2>2 DEF BeginConfirm, Begun, Request, TypeOK
  <2>4. QED
    BY <1>3, <2>3 DEF DerivedTotal, CoveredWith
<1>4. Coverage'
  BY <1>1, <1>2, <1>3, CoverageUnchanged DEF Same, Coverage, CoverageInv
<1>5. QED
  BY <1>1, <1>4, CoverageUnchanged DEF CoverageInv

(* A request that ends without a trace: refused, or lost in a crash.        *)
LEMMA CoverageEnd ==
    ASSUME SalesAssumption, TypeOK, CoverageInv, NEW r \in Requests, Ended(r),
           UNCHANGED <<status, total, pay>>
    PROVE  CoverageInv'
<1>1. req'[r].op = "idle"
  BY IdleTyped DEF Ended, IdleFacts
<1>2. Coverage'
  BY <1>1, CoverageUnchanged DEF Ended, Same, DeliveryOps, Coverage, CoverageInv
<1>3. QED
  BY <1>2, CoverageUnchanged DEF CoverageInv

(* The orders that are paid after a commit are covered: the order advances  *)
(* on what its request has derived, and the others keep what they had.      *)
LEMMA PaidAfterCommit ==
    ASSUME SalesAssumption, TypeOK, References, CoverageInv, NEW r \in Requests, Commit(r),
           NEW o \in Orders, status'[o] \in Paid,
           status[o] # "NONE" /\ Covered(o) => Covered(o)'
    PROVE  Covered(o)'
<1>0. "NONE" \notin Paid /\ "AWAITING_PAYMENT" \notin Paid /\ "DRAFT" \notin Paid
      /\ "CANCELLED" \notin Paid
  BY DEF Paid, Released
<1>1. CASE status'[o] = status[o]
  BY <1>0, <1>1 DEF CoverageInv
<1>2. CASE status'[o] # status[o]
  <2>1. ~CommitCreate(r) /\ ~CommitCancel(r)
    BY <1>0, <1>2 DEF CommitCreate, CommitCancel, TypeOK
  <2>2. CASE CommitConfirm(r)
    <3>1. o = req[r].so /\ req[r].op = "confirm" /\ req[r].begun /\ req[r].advance
      BY <1>2, <2>2 DEF CommitConfirm, TypeOK
    <3>2. req[r].pay \in Payments
      BY <3>1 DEF References, PayOps
    <3>3. CoveredWith(o, req[r].pay)
      BY <3>1, <3>2 DEF CoverageInv, Coverage
    <3>4. Confirmed(o)' = Confirmed(o) \cup {req[r].pay}
      BY <2>2, <3>1, <3>2 DEF CommitConfirm, Confirmed, TypeOK
    <3>5. total'[o] = total[o]
      BY <2>2 DEF CommitConfirm
    <3>6. QED
      BY <3>3, <3>4, <3>5 DEF CoveredWith, Covered, ConfirmedSum
  <2>3. CASE CommitRelease(r)
    <3>1. o = req[r].so /\ req[r].op = "release" /\ req[r].begun
      BY <1>2, <2>3 DEF CommitRelease, TypeOK
    <3>2. Covered(o) /\ status[o] # "NONE"
      BY <3>1 DEF CoverageInv, Coverage, References, Ops
    <3>3. QED
      BY <3>2
  <2>4. CASE CommitStep(r)
    <3>1. status'[o] = Goal(req[r].op) /\ req[r].op \in StatusSteps /\ o = req[r].so
      BY <1>2, <2>4 DEF CommitStep, TypeOK
    <3>2. req[r].op # "submit"
      BY <1>0, <3>1 DEF Goal
    <3>3. req[r].op \in DeliveryOps
      BY <3>1, <3>2 DEF StatusSteps, DeliveryOps
    <3>4. Covered(o) /\ status[o] # "NONE"
      BY <3>1, <3>3 DEF CoverageInv, Coverage, References, Ops, DeliveryOps
    <3>5. QED
      BY <3>4
  <2>5. QED
    BY <1>2, <2>1, <2>2, <2>3, <2>4
    DEF Commit, CommitUpdate, CommitInvoice, CommitRecord, CommitReject
<1>3. QED
  BY <1>1, <1>2

LEMMA CoverageCommit ==
    ASSUME SalesAssumption, TypeOK, References, CoverageInv, NEW r \in Requests, Commit(r)
    PROVE  CoverageInv'
<1>1. Ended(r) /\ req'[r].op = "idle"
  BY CommitEffect, IdleTyped DEF Ended, IdleFacts
<1>2. ASSUME NEW o \in Orders, status[o] # "NONE"
      PROVE  /\ Covered(o) => Covered(o)'
             /\ \A p \in Payments : CoveredWith(o, p) => CoveredWith(o, p)'
  BY <1>2, CommitKeeps, CoverageStays
<1>3. Coverage'
  <2>1. ASSUME NEW q \in Requests \ {r}, NEW o \in Orders
        PROVE  /\ req'[q].op \notin {"update", "reject"}
               /\ req'[q].op \in DeliveryOps /\ req'[q].so = o => Covered(o)'
               /\ req'[q].op = "release" /\ req'[q].begun /\ req'[q].so = o => Covered(o)'
               /\ \A p \in Payments :
                     req'[q].op = "confirm" /\ req'[q].begun /\ req'[q].advance
                     /\ req'[q].so = o /\ req'[q].pay = p => CoveredWith(o, p)'
    <3>1. Same(q) /\ req'[q].begun = req[q].begun /\ req'[q].advance = req[q].advance
      BY <1>1 DEF Ended
    <3>2. req[q].op \in DeliveryOps \cup {"release", "confirm"} => status[req[q].so] # "NONE"
      BY DEF References, Ops, DeliveryOps
    <3>3. QED
      BY <1>2, <3>1, <3>2 DEF Same, CoverageInv, Coverage
  <2>2. QED
    BY <1>1, <2>1 DEF Coverage, DeliveryOps
<1>4. \A o \in Orders : status'[o] \in Paid => Covered(o)'
  BY <1>2, PaidAfterCommit
<1>5. QED
  BY <1>3, <1>4 DEF CoverageInv

(* While no payment is rejected and no order edited, every order that is    *)
(* paid or released is covered by CONFIRMED payments, whatever runs         *)
(* concurrently: confirm and release each derive the SUM themselves.        *)
THEOREM PaidMeansCovered ==
    ASSUME SalesAssumption, Endpoints \cap {"update", "reject"} = {}
    PROVE  Spec => []PaidOrdersAreCovered
<1>1. Init => CoverageInv
  BY IdleTyped
  DEF Init, CoverageInv, Coverage, IdleFacts, DeliveryOps, Paid, Released
<1>2. TypeOK /\ References /\ CoverageInv /\ [Next]_vars => CoverageInv'
  <2> SUFFICES ASSUME TypeOK, References, CoverageInv, [Next]_vars PROVE CoverageInv'
    OBVIOUS
  <2>1. CASE UNCHANGED <<status, total, pay, req>>
    <3>1. Coverage'
      BY <2>1, CoverageUnchanged DEF Coverage, CoverageInv
    <3>2. QED
      BY <2>1, <3>1, CoverageUnchanged DEF CoverageInv
  <2>2. ASSUME NEW r \in Requests, Refuse(r) \/ Lose(r) PROVE CoverageInv'
    BY <2>2, FinishedEnds, CoverageEnd DEF Refuse, Lose, rows
  <2>3. QED
    BY <2>1, <2>2, CoverageValidate, CoverageBegin, CoverageCommit, Steps, MovingEffect
    DEF vars, rows
<1>3. QED
  BY <1>1, <1>2, TypeCorrect, CoverageInvImplies, PTL DEF Spec

-------------------------------------------------------------------------------
(* One request at a time.                                                   *)

OneAtATime == \A p, q \in Requests : p = q

EveryUnitNamed(ls) == \A l \in ls : l.unit \in Units
OneLinePerUnit(ls) == \A l, m \in ls : l.unit = m.unit => l = m

(* What the request r has read is still so when it writes.                  *)
Stands(r) ==
    LET op == req[r].op
        o == req[r].so
        p == req[r].pay
    IN  /\ op \in {"create", "update"} =>
              /\ EveryUnitNamed(req[r].lines) /\ OneLinePerUnit(req[r].lines)
              /\ req[r].amount = TotalOf[UnitsOf(req[r].lines)]
        /\ op = "update" => Editable(o)
        /\ op \in {"update", "cancel"} /\ req[r].begun => req[r].covers
        /\ op = "submit" => CanMove(status[o], "AWAITING_PAYMENT")
        /\ op = "invoice" => Invoiceable(o) /\ req[r].amount = total[o]
        /\ op \in {"confirm", "reject"} => pay[p].status = "PENDING"
        /\ op = "confirm" /\ req[r].begun =>
              /\ req[r].amount = SumOf[Confirmed(o) \cup {p}]
              /\ req[r].advance => status[o] = "AWAITING_PAYMENT" /\ req[r].amount >= total[o]
        /\ op = "release" /\ req[r].begun =>
              /\ CanMove(status[o], "RELEASE_AUTHORISED") /\ Covered(o)
              /\ req[r].lines = lines[o] /\ EveryUnitNamed(lines[o])
        /\ op = "cancel" => Cancellable(status[o])
        /\ op = "deliveryNote" => status[o] \in {"RELEASE_AUTHORISED", "PICKING"}
        /\ op \in {"dispatch", "proof", "close"} => CanMove(status[o], Goal(op))

(* What the rows of an order say agrees with each other.                    *)
Agrees(o) ==
    /\ status[o] # "CANCELLED" => EveryUnitNamed(lines[o]) /\ OneLinePerUnit(lines[o])
    /\ status[o] = "CANCELLED" => UnitsOf(lines[o]) = {}
    /\ status[o] \in Paid => Covered(o)
    /\ received[o] = ConfirmedSum(o)
    /\ status[o] \notin {"NONE", "CANCELLED"} => total[o] = TotalOf[UnitsOf(lines[o])]
    /\ "invoice" \in papers[o] =>
          status[o] \notin {"NONE", "DRAFT"} /\ invoiced[o] = total[o]

SerialInv ==
    /\ \A r \in Requests : Stands(r)
    /\ \A o \in Orders : Agrees(o)

(* Two lines that are legal for a unit as it stands have the same form.     *)
LEMMA ResolvableLines ==
    ASSUME NEW new \in NewLines, Resolvable(new)
    PROVE  EveryUnitNamed(new) /\ OneLinePerUnit(new)
<1>1. CKD \notin Assembled
  BY DEF CKD, Assembled, SKD, CBU
<1>2. \A l \in new : l \in [unit : Units, form : Form]
  BY DEF NewLines
<1>3. EveryUnitNamed(new)
  BY <1>2 DEF EveryUnitNamed
<1>4. ASSUME NEW l \in new, NEW m \in new, l.unit = m.unit PROVE l = m
  <2>1. l.form = m.form
    BY <1>1, <1>2, <1>4 DEF Resolvable, Form
  <2>2. QED
    BY <1>2, <1>4, <2>1
<1>5. QED
  BY <1>3, <1>4 DEF OneLinePerUnit

(* A request that has just validated relies only on what it has checked.    *)
LEMMA StandsValidate ==
    ASSUME SalesAssumption, TypeOK, References, NEW r \in Requests, Validate(r)
    PROVE  Stands(r)'
<1>1. /\ UNCHANGED rows
      /\ req[r] = Idle
  BY ValidateAsks
<1>2. ASSUME NEW op \in Ops, NEW o \in Orders, NEW p \in Payments \cup {None},
             NEW ls \in SUBSET Line, NEW n \in Nat, Accept(r, Ask(op, o, p, ls, n))
      PROVE  req'[r] = Ask(op, o, p, ls, n)
  BY <1>2 DEF Accept, TypeOK
<1>3. ASSUME NEW o \in Orders, NEW new \in NewLines, Create(r, o, new) \/ Update(r, o, new)
      PROVE  Stands(r)'
  <2>1. new \in SUBSET Line
    BY DEF NewLines, Line
  <2>2. TotalOf[UnitsOf(new)] \in Nat
    <3>1. UnitsOf(new) \in SUBSET Units
      BY <2>1 DEF UnitsOf, Line
    <3>2. QED
      BY <3>1 DEF SalesAssumption
  <2>3. EveryUnitNamed(new) /\ OneLinePerUnit(new)
    BY <1>3, ResolvableLines DEF Create, Update
  <2>4. CASE Create(r, o, new)
    <3>1. req'[r] = Ask("create", o, None, new, TotalOf[UnitsOf(new)])
      BY <1>2, <2>1, <2>2, <2>4 DEF Create, Ops
    <3>2. QED
      BY <2>3, <3>1 DEF Stands, Ask, UnitsOf, EveryUnitNamed, OneLinePerUnit
  <2>5. CASE Update(r, o, new)
    <3>1. req'[r] = Ask("update", o, None, new, TotalOf[UnitsOf(new)])
      BY <1>2, <2>1, <2>2, <2>5 DEF Update, Ops
    <3>2. Editable(o)'
      BY <1>1, <2>5 DEF Update, Editable, rows
    <3>3. QED
      BY <2>3, <3>1, <3>2 DEF Stands, Ask, UnitsOf, EveryUnitNamed, OneLinePerUnit
  <2>6. QED
    BY <1>3, <2>4, <2>5
<1>4. ASSUME NEW o \in Orders, NEW p \in Payments, Record(r, o, p)
      PROVE  Stands(r)'
  <2>1. req'[r] = Ask("record", o, p, {}, 0)
    BY <1>2, <1>4 DEF Record, Ops
  <2>2. req'[r].op = "record"
    BY <2>1 DEF Ask
  <2>3. QED
    BY <2>2 DEF Stands
<1>5. ASSUME NEW p \in Payments, Confirm(r, p) \/ Reject(r, p)
      PROVE  Stands(r)'
  <2>1. pay[p].status = "PENDING" /\ pay[p].so \in Orders
    BY <1>5 DEF Confirm, Reject, Rejectable, References
  <2>2. pay'[p].status = "PENDING"
    BY <1>1, <2>1 DEF rows
  <2>3. PICK op \in {"confirm", "reject"} : req'[r] = Ask(op, pay[p].so, p, {}, 0)
    BY <1>2, <1>5, <2>1 DEF Confirm, Reject, Ops
  <2>4. QED
    BY <2>2, <2>3 DEF Stands, Ask
<1>6. ASSUME NEW o \in Orders, GenerateInvoice(r, o)
      PROVE  Stands(r)'
  <2>1. req'[r] = Ask("invoice", o, None, {}, total[o])
    BY <1>2, <1>6 DEF GenerateInvoice, Ops, TypeOK
  <2>2. Invoiceable(o)' /\ total'[o] = total[o]
    BY <1>1, <1>6 DEF GenerateInvoice, Invoiceable, rows
  <2>3. QED
    BY <2>1, <2>2 DEF Stands, Ask
<1>7. ASSUME NEW o \in Orders,
             \/ Submit(r, o) \/ AuthoriseRelease(r, o) \/ Cancel(r, o)
             \/ CreateDeliveryNote(r, o) \/ CreateWaybill(r, o) \/ Dispatch(r, o)
             \/ RecordProofOfDelivery(r, o) \/ Close(r, o)
      PROVE  Stands(r)'
  <2>1. PICK op \in {"submit", "release", "cancel", "deliveryNote", "waybill", "dispatch",
                     "proof", "close"} :
          /\ Accept(r, Ask(op, o, None, {}, 0))
          /\ op = "submit" => CanMove(status[o], "AWAITING_PAYMENT")
          /\ op = "cancel" => Cancellable(status[o])
          /\ op = "deliveryNote" => status[o] \in {"RELEASE_AUTHORISED", "PICKING"}
          /\ op \in {"dispatch", "proof", "close"} => CanMove(status[o], Goal(op))
    BY <1>7 DEF Submit, AuthoriseRelease, Cancel, CreateDeliveryNote, CreateWaybill,
                Dispatch, RecordProofOfDelivery, Close, Goal
  <2>2. req'[r] = Ask(op, o, None, {}, 0)
    BY <1>2, <2>1 DEF Ops
  <2>3. status'[o] = status[o]
    BY <1>1 DEF rows
  <2>4. QED
    BY <2>1, <2>2, <2>3 DEF Stands, Ask
<1>8. QED
  BY <1>3, <1>4, <1>5, <1>6, <1>7 DEF Validate

(* The reads inside a transaction add what they find.                       *)
LEMMA StandsBegin ==
    ASSUME SalesAssumption, TypeOK, References, NEW r \in Requests, Begin(r), Stands(r),
           \A o \in Orders : Agrees(o)
    PROVE  Stands(r)'
<1>1. UNCHANGED rows /\ Same(r)
  BY BeginEffect
<1>2. req[r] \in Request
  BY DEF TypeOK
<1>3. req[r].op \in Ops /\ req[r].so \in Orders
  BY DEF Begin, BeginUpdate, BeginConfirm, BeginRelease, BeginCancel, Ready, Ops, References
<1>4. CASE BeginUpdate(r) \/ BeginCancel(r)
  <2>1. req'[r] = [req[r] EXCEPT !.begun = TRUE, !.covers = TRUE]
    BY <1>4 DEF BeginUpdate, BeginCancel, Begun, TypeOK
  <2>2. /\ req'[r].op = req[r].op /\ req'[r].so = req[r].so /\ req'[r].lines = req[r].lines
        /\ req'[r].amount = req[r].amount /\ req'[r].covers
    BY <1>2, <2>1 DEF Request
  <2>3. req[r].op \in {"update", "cancel"}
    BY <1>4 DEF BeginUpdate, BeginCancel, Ready
  <2>4. QED
    BY <1>1, <2>2, <2>3 DEF Stands, rows, Editable, UnitsOf, EveryUnitNamed, OneLinePerUnit
<1>5. CASE BeginConfirm(r)
  <2> DEFINE adv == DerivedTotal(r) >= total[req[r].so] /\ status[req[r].so] = "AWAITING_PAYMENT"
  <2>1. req'[r] = [req[r] EXCEPT !.begun = TRUE, !.amount = DerivedTotal(r), !.advance = adv]
    BY <1>5 DEF BeginConfirm, Begun, TypeOK
  <2>2. /\ req'[r].op = "confirm" /\ req'[r].so = req[r].so /\ req'[r].pay = req[r].pay
        /\ req'[r].amount = DerivedTotal(r) /\ (req'[r].advance => adv)
    BY <1>2, <1>5, <2>1 DEF Request, BeginConfirm, Ready
  <2>3. pay[req[r].pay].status = "PENDING"
    BY <1>5 DEF BeginConfirm, Ready, Stands
  <2>4. QED
    BY <1>1, <2>2, <2>3 DEF Stands, rows, DerivedTotal, Confirmed
<1>6. CASE BeginRelease(r)
  <2>1. req'[r] = [req[r] EXCEPT !.begun = TRUE, !.lines = lines[req[r].so]]
    BY <1>6 DEF BeginRelease, Begun, TypeOK
  <2>2. /\ req'[r].op = "release" /\ req'[r].so = req[r].so
        /\ req'[r].lines = lines[req[r].so]
    BY <1>2, <1>6, <2>1 DEF Request, BeginRelease, Ready
  <2>3. CanMove(status[req[r].so], "RELEASE_AUTHORISED") /\ Covered(req[r].so)
    BY <1>6 DEF BeginRelease, ReleaseAllowed, CoversTotal, Covered
  <2>4. EveryUnitNamed(lines[req[r].so])
    BY <1>3, <2>3 DEF Agrees, CanMove, OrderTransitions
  <2>5. QED
    BY <1>1, <2>2, <2>3, <2>4
    DEF Stands, rows, Covered, ConfirmedSum, Confirmed, EveryUnitNamed
<1>7. QED
  BY <1>4, <1>5, <1>6 DEF Begin

LEMMA StandsUnchanged ==
    ASSUME NEW r \in Requests, Stands(r), UNCHANGED <<status, lines, total, pay, req>>
    PROVE  Stands(r)'
BY DEF Stands, Editable, Invoiceable, Confirmed, ConfirmedSum, Covered, UnitsOf,
       EveryUnitNamed, OneLinePerUnit

LEMMA StandsIdle ==
    ASSUME NEW r \in Requests, Ended(r)
    PROVE  Stands(r)'
BY IdleTyped DEF Ended, IdleFacts, Stands

(* A commit is about one order.                                             *)
Untouched(o) ==
    /\ status'[o] = status[o] /\ lines'[o] = lines[o] /\ total'[o] = total[o]
    /\ received'[o] = received[o] /\ papers'[o] = papers[o] /\ invoiced'[o] = invoiced[o]
    /\ Confirmed(o)' = Confirmed(o)

LEMMA UntouchedAgrees ==
    ASSUME NEW o \in Orders, Untouched(o), Agrees(o)
    PROVE  Agrees(o)'
BY DEF Untouched, Agrees, Covered, ConfirmedSum, UnitsOf, EveryUnitNamed, OneLinePerUnit

LEMMA CommitConfirms ==
    ASSUME TypeOK, References, NEW r \in Requests, Commit(r), Stands(r), NEW o \in Orders
    PROVE  IF req[r].op = "confirm" /\ o = req[r].so
           THEN Confirmed(o)' = Confirmed(o) \cup {req[r].pay}
           ELSE Confirmed(o)' = Confirmed(o)
<1> USE DEF Confirmed, TypeOK
<1>1. CASE CommitRecord(r)
  <2>1. req[r].pay \in Payments /\ pay[req[r].pay].status = "NONE"
    BY <1>1 DEF CommitRecord, References, PayOps
  <2>2. QED
    BY <1>1, <2>1 DEF CommitRecord
<1>2. CASE CommitConfirm(r)
  <2>1. /\ req[r].op = "confirm" /\ req[r].pay \in Payments
        /\ pay[req[r].pay].status = "PENDING" /\ pay[req[r].pay].so = req[r].so
    BY <1>2 DEF CommitConfirm, Stands, References, PayOps
  <2>2. QED
    BY <1>2, <2>1 DEF CommitConfirm
<1>3. CASE CommitReject(r)
  <2>1. req[r].op = "reject" /\ req[r].pay \in Payments /\ pay[req[r].pay].status = "PENDING"
    BY <1>3 DEF CommitReject, Stands, References, PayOps
  <2>2. QED
    BY <1>3, <2>1 DEF CommitReject
<1>4. QED
  BY <1>1, <1>2, <1>3
  DEF Commit, CommitCreate, CommitUpdate, CommitInvoice, CommitRelease, CommitCancel,
      CommitStep, StatusSteps, PaperSteps

LEMMA CommitUntouched ==
    ASSUME TypeOK, References, NEW r \in Requests, Commit(r), Stands(r), NEW o \in Orders,
           o # req[r].so
    PROVE  Untouched(o)
<1>1. Confirmed(o)' = Confirmed(o)
  BY CommitConfirms
<1>2. QED
  BY <1>1
  DEF Untouched, TypeOK, Commit, CommitCreate, CommitUpdate, CommitInvoice, CommitRecord,
      CommitConfirm, CommitReject, CommitRelease, CommitCancel, CommitStep

(* Where a commit moves the order: along the state machine, from where      *)
(* validation saw it.                                                       *)
LEMMA CommitMoves ==
    ASSUME TypeOK, References, NEW r \in Requests, Commit(r), Stands(r),
           NEW o \in Orders, o = req[r].so
    PROVE  \/ status'[o] = status[o] /\ req[r].op # "create"
           \/ req[r].op = "create" /\ status[o] = "NONE" /\ status'[o] = "DRAFT"
           \/ req[r].op # "create" /\ Follows(status[o], status'[o])
<1>1. CASE CommitCreate(r)
  BY <1>1 DEF CommitCreate, References, TypeOK
<1>2. CASE CommitConfirm(r)
  BY <1>2 DEF CommitConfirm, Stands, TypeOK, Follows, CanMove, OrderTransitions
<1>3. CASE CommitRelease(r)
  BY <1>3 DEF CommitRelease, Stands, TypeOK, Follows
<1>4. CASE CommitCancel(r)
  BY <1>4 DEF CommitCancel, Stands, TypeOK, Follows, Cancellable, CanMove, OrderTransitions
<1>5. CASE CommitStep(r)
  <2>1. CASE req[r].op \in StatusSteps
    <3>1. status'[o] = Goal(req[r].op)
      BY <1>5, <2>1 DEF CommitStep, TypeOK
    <3>2. CASE req[r].op = "deliveryNote"
      <4>1. status'[o] = "READY_FOR_DISPATCH" /\ status[o] \in {"RELEASE_AUTHORISED", "PICKING"}
        BY <3>1, <3>2 DEF Goal, Stands
      <4>2. QED
        BY <3>2, <4>1 DEF Follows, CanMove, OrderTransitions, OrderStatus
    <3>3. CASE req[r].op # "deliveryNote"
      BY <2>1, <3>1, <3>3 DEF StatusSteps, Goal, Stands, Follows
    <3>4. QED
      BY <3>2, <3>3
  <2>2. CASE req[r].op \notin StatusSteps
    BY <1>5, <2>2 DEF CommitStep, TypeOK, PaperSteps
  <2>3. QED
    BY <2>1, <2>2
<1>6. CASE CommitUpdate(r) \/ CommitInvoice(r) \/ CommitRecord(r) \/ CommitReject(r)
  BY <1>6 DEF CommitUpdate, CommitInvoice, CommitRecord, CommitReject
<1>7. QED
  BY <1>1, <1>2, <1>3, <1>4, <1>5, <1>6 DEF Commit

(* Nothing leaves the state of a cancelled order.                           *)
LEMMA FollowsFrom ==
    ASSUME NEW from, NEW to, Follows(from, to)
    PROVE  from \notin {"NONE", "CANCELLED"}
BY DEF Follows, CanMove, OrderTransitions

(* Only release makes an order a released one, and a released order keeps   *)
(* its lines and is not called back.                                        *)
LEMMA CommitReleases ==
    ASSUME TypeOK, References, NEW r \in Requests, Commit(r), Stands(r),
           NEW o \in Orders, o = req[r].so
    PROVE  /\ status[o] \in Released => status'[o] \in Released /\ lines'[o] = lines[o]
           /\ status[o] \notin Released /\ status'[o] \in Released => CommitRelease(r)
<1>1. CASE CommitCreate(r)
  BY <1>1 DEF CommitCreate, References, TypeOK, Released
<1>2. CASE CommitUpdate(r)
  BY <1>2 DEF CommitUpdate, Stands, Editable, Released
<1>3. CASE CommitConfirm(r)
  BY <1>3 DEF CommitConfirm, Stands, TypeOK, Released
<1>4. CASE CommitRelease(r)
  BY <1>4 DEF CommitRelease, TypeOK, Released
<1>5. CASE CommitCancel(r)
  BY <1>5 DEF CommitCancel, Stands, TypeOK, Released, Cancellable
<1>6. CASE CommitStep(r)
  <2>1. lines' = lines
    BY <1>6 DEF CommitStep
  <2>2. CASE req[r].op \in StatusSteps
    <3>1. status'[o] = Goal(req[r].op)
      BY <1>6, <2>2 DEF CommitStep, TypeOK
    <3>2. CASE req[r].op = "submit"
      BY <2>1, <3>1, <3>2 DEF Goal, Stands, CanMove, OrderTransitions, Released
    <3>3. CASE req[r].op \in DeliveryOps
      <4>1. status'[o] \in {"READY_FOR_DISPATCH", "DISPATCHED", "DELIVERED", "CLOSED"}
        BY <3>1, <3>3 DEF Goal, DeliveryOps
      <4>2. status[o] \in Released
        <5>1. CASE req[r].op = "deliveryNote"
          BY <5>1 DEF Stands, Released
        <5>2. CASE req[r].op # "deliveryNote"
          BY <3>1, <3>3, <5>2 DEF Stands, DeliveryOps, Goal, CanMove, OrderTransitions, Released
        <5>3. QED
          BY <5>1, <5>2
      <4>3. QED
        BY <2>1, <4>1, <4>2 DEF Released
    <3>4. QED
      BY <2>2, <3>2, <3>3 DEF StatusSteps, DeliveryOps
  <2>3. CASE req[r].op \notin StatusSteps
    BY <1>6, <2>1, <2>3 DEF CommitStep, TypeOK
  <2>4. QED
    BY <2>2, <2>3
<1>7. CASE CommitInvoice(r) \/ CommitRecord(r) \/ CommitReject(r)
  BY <1>7 DEF CommitInvoice, CommitRecord, CommitReject
<1>8. QED
  BY <1>1, <1>2, <1>3, <1>4, <1>5, <1>6, <1>7 DEF Commit

(* The rows of the order a commit is about agree again when it is done.     *)
LEMMA CommitAgrees ==
    ASSUME SalesAssumption, TypeOK, References, NEW r \in Requests, Commit(r), Stands(r),
           NEW o \in Orders, o = req[r].so, Agrees(o)
    PROVE  Agrees(o)'
<1> USE DEF TypeOK
<1>0. Confirmed(o) \in SUBSET Payments /\ Confirmed(o)' \in SUBSET Payments
  BY DEF Confirmed
<1>1. IF req[r].op = "confirm"
      THEN Confirmed(o)' = Confirmed(o) \cup {req[r].pay}
      ELSE Confirmed(o)' = Confirmed(o)
  BY CommitConfirms
<1>2. CASE CommitCreate(r)
  <2>1. status[o] = "NONE" /\ papers[o] = {}
    BY <1>2 DEF CommitCreate, References
  <2>2. /\ status'[o] = "DRAFT" /\ lines'[o] = req[r].lines /\ total'[o] = req[r].amount
        /\ papers' = papers /\ received' = received /\ Confirmed(o)' = Confirmed(o)
    BY <1>1, <1>2 DEF CommitCreate
  <2>3. /\ EveryUnitNamed(req[r].lines) /\ OneLinePerUnit(req[r].lines)
        /\ req[r].amount = TotalOf[UnitsOf(req[r].lines)]
    BY <1>2 DEF CommitCreate, Stands
  <2>4. QED
    BY <2>1, <2>2, <2>3
    DEF Agrees, Paid, Released, ConfirmedSum, UnitsOf, EveryUnitNamed, OneLinePerUnit
<1>3. CASE CommitUpdate(r)
  <2>1. /\ status[o] = "DRAFT" /\ req[r].covers
        /\ EveryUnitNamed(req[r].lines) /\ OneLinePerUnit(req[r].lines)
        /\ req[r].amount = TotalOf[UnitsOf(req[r].lines)]
    BY <1>3 DEF CommitUpdate, Stands, Editable
  <2>2. /\ status'[o] = "DRAFT" /\ lines'[o] = req[r].lines /\ total'[o] = req[r].amount
        /\ papers' = papers /\ received' = received /\ Confirmed(o)' = Confirmed(o)
    BY <1>1, <1>3, <2>1 DEF CommitUpdate
  <2>3. QED
    BY <2>1, <2>2
    DEF Agrees, Paid, Released, ConfirmedSum, UnitsOf, EveryUnitNamed, OneLinePerUnit
<1>4. CASE CommitInvoice(r)
  <2>1. status[o] \notin {"NONE", "DRAFT"} /\ req[r].amount = total[o]
    BY <1>4 DEF CommitInvoice, Stands, Invoiceable
  <2>2. /\ UNCHANGED <<status, lines, total, received>> /\ invoiced'[o] = total[o]
        /\ Confirmed(o)' = Confirmed(o)
    BY <1>1, <1>4, <2>1 DEF CommitInvoice
  <2>3. QED
    BY <2>1, <2>2
    DEF Agrees, Covered, ConfirmedSum, UnitsOf, EveryUnitNamed, OneLinePerUnit
<1>5. CASE CommitConfirm(r)
  <2>1. /\ Confirmed(o)' = Confirmed(o) \cup {req[r].pay}
        /\ UNCHANGED <<lines, total, papers, invoiced>>
        /\ received'[o] = req[r].amount
        /\ status'[o] = IF req[r].advance THEN "PAYMENT_RECEIVED" ELSE status[o]
        /\ req[r].amount = SumOf[Confirmed(o) \cup {req[r].pay}]
        /\ req[r].advance => status[o] = "AWAITING_PAYMENT" /\ req[r].amount >= total[o]
    BY <1>1, <1>5 DEF CommitConfirm, Stands
  <2>2. received'[o] = ConfirmedSum(o)' /\ req[r].amount = ConfirmedSum(o)'
    BY <2>1 DEF ConfirmedSum
  <2>3. status'[o] \in Paid => Covered(o)'
    <3>1. CASE req[r].advance
      BY <2>1, <2>2, <3>1 DEF Covered
    <3>2. CASE ~req[r].advance
      BY <1>0, <2>1, <3>2, CoverageStays DEF Agrees
    <3>3. QED
      BY <3>1, <3>2
  <2>4. QED
    BY <2>1, <2>2, <2>3 DEF Agrees, UnitsOf, EveryUnitNamed, OneLinePerUnit
<1>6. CASE CommitRelease(r)
  <2>1. status[o] = "PAYMENT_RECEIVED" /\ Covered(o)
    BY <1>6 DEF CommitRelease, Stands, CanMove, OrderTransitions
  <2>2. /\ UNCHANGED <<lines, total, received, invoiced>> /\ status'[o] = "RELEASE_AUTHORISED"
        /\ papers'[o] = papers[o] \cup {"release"} /\ Confirmed(o)' = Confirmed(o)
    BY <1>1, <1>6 DEF CommitRelease
  <2>3. QED
    BY <2>1, <2>2
    DEF Agrees, Covered, ConfirmedSum, UnitsOf, EveryUnitNamed, OneLinePerUnit
<1>7. CASE CommitCancel(r)
  <2>1. Cancellable(status[o]) /\ req[r].covers
    BY <1>7 DEF CommitCancel, Stands
  <2>2. /\ UNCHANGED <<total, received, papers, invoiced>> /\ status'[o] = "CANCELLED"
        /\ lines'[o] = Freed(lines[o]) /\ Confirmed(o)' = Confirmed(o)
    BY <1>1, <1>7, <2>1 DEF CommitCancel
  <2>3. UnitsOf(Freed(lines[o])) = {}
    <3>1. \A l \in Freed(lines[o]) : l.unit = None
      BY DEF Line, Freed
    <3>2. QED
      BY <3>1 DEF UnitsOf
  <2>4. UnitsOf(lines[o])' = {}
    BY <2>2, <2>3 DEF UnitsOf
  <2>5. "CANCELLED" \notin Paid
    BY DEF Paid, Released
  <2>6. QED
    BY <2>2, <2>4, <2>5 DEF Agrees, ConfirmedSum
<1>8. CASE CommitStep(r)
  <2>1. /\ UNCHANGED <<lines, total, received, invoiced>> /\ Confirmed(o)' = Confirmed(o)
        /\ "invoice" \in papers'[o] => "invoice" \in papers[o]
    BY <1>1, <1>8 DEF CommitStep, StatusSteps, PaperSteps
  <2>2. status'[o] # status[o] =>
          /\ status[o] \notin {"NONE", "CANCELLED"}
          /\ status'[o] \notin {"NONE", "DRAFT", "CANCELLED", "PAYMENT_RECEIVED"}
    <3>1. SUFFICES ASSUME status'[o] # status[o]
                   PROVE  /\ status[o] \notin {"NONE", "CANCELLED"}
                          /\ status'[o] \notin {"NONE", "DRAFT", "CANCELLED", "PAYMENT_RECEIVED"}
      OBVIOUS
    <3>2. req[r].op \in StatusSteps /\ status'[o] = Goal(req[r].op)
      BY <1>8, <3>1 DEF CommitStep
    <3>3. status'[o] \notin {"NONE", "DRAFT", "CANCELLED", "PAYMENT_RECEIVED"}
      BY <3>2 DEF Goal, StatusSteps
    <3>4. status[o] \notin {"NONE", "CANCELLED"}
      <4>1. Follows(status[o], status'[o])
        BY <1>8, <3>1, <3>2, CommitMoves DEF StatusSteps
      <4>2. QED
        BY <4>1, FollowsFrom
    <3>5. QED
      BY <3>3, <3>4
  <2>3. status'[o] \in Paid => status[o] \in Paid \/ status'[o] = status[o]
    <3>1. status'[o] \in Released => status[o] \in Released
      BY <1>8, CommitReleases DEF CommitStep, CommitRelease, StatusSteps, PaperSteps
    <3>2. QED
      BY <2>2, <3>1 DEF Paid
  <2>4. QED
    BY <2>1, <2>2, <2>3
    DEF Agrees, Covered, ConfirmedSum, UnitsOf, EveryUnitNamed, OneLinePerUnit
<1>9. CASE CommitRecord(r) \/ CommitReject(r)
  <2>1. /\ UNCHANGED <<status, lines, total, received, papers, invoiced>>
        /\ Confirmed(o)' = Confirmed(o)
    BY <1>1, <1>9 DEF CommitRecord, CommitReject
  <2>2. QED
    BY <2>1, UntouchedAgrees DEF Untouched
<1>10. QED
  BY <1>2, <1>3, <1>4, <1>5, <1>6, <1>7, <1>8, <1>9 DEF Commit

(* A release sells the units of the order it has read, and no others.       *)
LEMMA ReleaseSells ==
    ASSUME SalesAssumption, TypeOK, References, NEW r \in Requests, CommitRelease(r), Stands(r),
           Agrees(req[r].so)
    PROVE  /\ req[r].so \in Orders /\ status'[req[r].so] \in Released
           /\ lines' = lines
           /\ EveryUnitNamed(lines[req[r].so])
           /\ \A u \in Units : u \notin UnitsOf(lines[req[r].so]) =>
                 unit'[u] = unit[u] /\ sale'[u] = sale[u]
           /\ \A u \in UnitsOf(lines[req[r].so]) \cap Units :
                 sale'[u] = [order |-> req[r].so, since |-> "none"]
           /\ \A l \in lines[req[r].so] : unit'[l.unit] = SoldAs(l.form)
<1> DEFINE o == req[r].so
           ls == lines[req[r].so]
<1>1. /\ o \in Orders /\ status[o] = "PAYMENT_RECEIVED" /\ req[r].lines = lines[o]
      /\ EveryUnitNamed(ls)
  BY DEF CommitRelease, Stands, References, Ops, CanMove, OrderTransitions
<1>2. OneLinePerUnit(ls)
  BY <1>1 DEF Agrees
<1>3. unit' = [u \in Units |-> IF u \in UnitsOf(ls)
                               THEN SoldAs((CHOOSE l \in ls : l.unit = u).form)
                               ELSE unit[u]]
  BY <1>1 DEF CommitRelease
<1>4. sale' = [u \in Units |-> IF u \in UnitsOf(ls) THEN [order |-> o, since |-> "none"]
                               ELSE sale[u]]
  BY <1>1 DEF CommitRelease
<1>5. ASSUME NEW l \in ls PROVE unit'[l.unit] = SoldAs(l.form)
  <2>1. l.unit \in Units
    BY <1>1 DEF EveryUnitNamed
  <2>2. l.unit \in UnitsOf(ls)
    BY <2>1 DEF UnitsOf, SalesAssumption
  <2>3. (CHOOSE m \in ls : m.unit = l.unit) = l
    BY <1>2 DEF OneLinePerUnit
  <2>4. QED
    BY <1>3, <2>1, <2>2, <2>3
<1>6. status'[o] \in Released /\ lines' = lines
  BY <1>1 DEF CommitRelease, TypeOK, Released
<1>7. QED
  BY <1>1, <1>3, <1>4, <1>5, <1>6

(* What a mover is about to write is within its bound: no workflow sells.   *)
MovesAllowed == \A m \in Movers : moves[m] # NoMove => moves[m].to \in MoveTargets[moves[m].kind]

Goods == SoldUnitsBelongToReleases /\ ReleasedUnitsAreSold

LEMMA ReleaseGoods ==
    ASSUME SalesAssumption, TypeOK, References, OneOrderPerUnit, Goods,
           NEW r \in Requests, CommitRelease(r), Stands(r), Agrees(req[r].so),
           \A o \in Orders : status[o] \in Released => status'[o] \in Released,
           \A o \in Orders \ {req[r].so} : status'[o] = status[o]
    PROVE  Goods'
<1> DEFINE o == req[r].so
<1>1. /\ o \in Orders /\ status'[o] \in Released /\ lines' = lines /\ EveryUnitNamed(lines[o])
      /\ \A u \in Units : u \notin UnitsOf(lines[o]) => unit'[u] = unit[u] /\ sale'[u] = sale[u]
      /\ \A u \in UnitsOf(lines[o]) \cap Units : sale'[u] = [order |-> o, since |-> "none"]
      /\ \A l \in lines[o] : unit'[l.unit] = SoldAs(l.form)
  BY ReleaseSells
<1>2. SoldUnitsBelongToReleases'
  <2>1. ASSUME NEW u \in Units
        PROVE  /\ sale'[u].order # None =>
                     u \in UnitsOf(lines'[sale'[u].order]) /\ status'[sale'[u].order] \in Released
               /\ unit'[u] \in SoldStates =>
                     \/ sale'[u].order # None /\ sale'[u].since = "none"
                     \/ sale'[u].since = "push"
    <3>1. CASE u \in UnitsOf(lines[o])
      <4>1. sale'[u].order = o /\ sale'[u].since = "none"
        BY <1>1, <3>1
      <4>2. o # None
        BY <1>1 DEF SalesAssumption
      <4>3. QED
        BY <1>1, <3>1, <4>1, <4>2
    <3>2. CASE u \notin UnitsOf(lines[o])
      <4>1. unit'[u] = unit[u] /\ sale'[u] = sale[u]
        BY <1>1, <3>2
      <4>2. sale[u].order \in Orders \cup {None}
        BY DEF TypeOK, Sale
      <4>3. sale[u].order # None =>
              u \in UnitsOf(lines[sale[u].order]) /\ status[sale[u].order] \in Released
        BY DEF Goods, SoldUnitsBelongToReleases
      <4>4. unit[u] \in SoldStates =>
              \/ sale[u].order # None /\ sale[u].since = "none"
              \/ sale[u].since = "push"
        BY DEF Goods, SoldUnitsBelongToReleases
      <4>5. QED
        BY <1>1, <4>1, <4>2, <4>3, <4>4
    <3>3. QED
      BY <3>1, <3>2
  <2>2. QED
    BY <2>1 DEF SoldUnitsBelongToReleases, UnitsOf
<1>3. ReleasedUnitsAreSold'
  <2>1. ASSUME NEW p \in Orders, status'[p] \in Released, NEW l \in lines'[p]
        PROVE  /\ l.unit # None /\ sale'[l.unit].order = p
               /\ sale'[l.unit].since = "none" => unit'[l.unit] = SoldAs(l.form)
    <3>1. CASE p = o
      <4>1. l.unit \in Units /\ l.unit # None
        BY <1>1, <2>1, <3>1 DEF EveryUnitNamed, SalesAssumption
      <4>2. l.unit \in UnitsOf(lines[o])
        BY <1>1, <2>1, <3>1, <4>1 DEF UnitsOf
      <4>3. QED
        BY <1>1, <2>1, <3>1, <4>1, <4>2
    <3>2. CASE p # o
      <4>1. status[p] \in Released /\ l \in lines[p]
        BY <1>1, <2>1, <3>2
      <4>2. /\ l.unit # None /\ sale[l.unit].order = p
            /\ sale[l.unit].since = "none" => unit[l.unit] = SoldAs(l.form)
        BY <4>1 DEF Goods, ReleasedUnitsAreSold
      <4>3. l.unit \in UnitsOf(lines[p]) /\ l.unit \in Units
        BY <4>1, <4>2 DEF UnitsOf, TypeOK, Line
      <4>4. l.unit \notin UnitsOf(lines[o])
        BY <1>1, <3>2, <4>3 DEF OneOrderPerUnit
      <4>5. QED
        BY <1>1, <4>2, <4>3, <4>4
    <3>3. QED
      BY <3>1, <3>2
  <2>2. QED
    BY <2>1 DEF ReleasedUnitsAreSold
<1>4. QED
  BY <1>2, <1>3 DEF Goods

LEMMA CommitGoods ==
    ASSUME SalesAssumption, TypeOK, References, OneOrderPerUnit, SerialInv, Goods,
           NEW r \in Requests, Commit(r)
    PROVE  Goods'
<1>0. Stands(r) /\ req[r].so \in Orders /\ Agrees(req[r].so)
  BY CommitEffect DEF SerialInv, References
<1>1. ASSUME NEW o \in Orders, status[o] \in Released
      PROVE  status'[o] \in Released /\ lines'[o] = lines[o]
  BY <1>0, <1>1, CommitReleases, CommitUntouched DEF Untouched
<1>2. CASE CommitRelease(r)
  <2>1. \A o \in Orders \ {req[r].so} : status'[o] = status[o]
    BY <1>0, CommitUntouched DEF Untouched
  <2>2. QED
    BY <1>0, <1>1, <1>2, <2>1, ReleaseGoods
<1>3. CASE ~CommitRelease(r)
  <2>1. UNCHANGED <<unit, sale>>
    BY <1>3 DEF Commit, CommitCreate, CommitUpdate, CommitInvoice, CommitRecord,
                CommitConfirm, CommitReject, CommitCancel, CommitStep
  <2>2. \A o \in Orders : status'[o] \in Released => status[o] \in Released
    BY <1>0, <1>3, CommitReleases, CommitUntouched DEF Untouched
  <2>3. SoldUnitsBelongToReleases'
    <3>1. \A u \in Units : sale[u].order \in Orders \cup {None}
      BY DEF TypeOK, Sale
    <3>2. QED
      BY <1>1, <2>1, <3>1 DEF Goods, SoldUnitsBelongToReleases, UnitsOf
  <2>4. ReleasedUnitsAreSold'
    BY <1>1, <2>1, <2>2 DEF Goods, ReleasedUnitsAreSold
  <2>5. QED
    BY <2>3, <2>4 DEF Goods
<1>4. QED
  BY <1>2, <1>3

LEMMA MovesStayAllowed ==
    ASSUME TypeOK, MovesAllowed, NEW m \in Movers, Moving(m)
    PROVE  MovesAllowed'
<1>1. ASSUME NEW u \in Units, NEW kind \in MoverKind, NEW to \in MoveTargets[kind],
             ReadMove(m, u, to, kind)
      PROVE  MovesAllowed'
  <2>1. PICK v : v = [unit |-> u, to |-> to, kind |-> kind]
    OBVIOUS
  <2>2. v.to = to /\ v.kind = kind
    BY <2>1
  <2>3. moves' = [moves EXCEPT ![m] = v]
    BY <1>1, <2>1 DEF ReadMove
  <2>4. QED
    BY <2>2, <2>3 DEF MovesAllowed, TypeOK
<1>2. CASE WriteMove(m)
  BY <1>2 DEF WriteMove, MovesAllowed, TypeOK
<1>3. QED
  BY <1>1, <1>2 DEF Moving

(* A mover writes after the sale, if there was one, and only a push sells.  *)
LEMMA MoveKeepsGoods ==
    ASSUME SalesAssumption, TypeOK, Goods, MovesAllowed, NEW m \in Movers, Moving(m)
    PROVE  Goods'
<1>1. UNCHANGED <<status, lines>>
  BY MovingEffect
<1>2. ASSUME UNCHANGED <<unit, sale>> PROVE Goods'
  BY <1>1, <1>2 DEF Goods, SoldUnitsBelongToReleases, ReleasedUnitsAreSold, UnitsOf
<1>3. CASE WriteMove(m)
  <2>1. PICK v : v = moves[m]
    OBVIOUS
  <2>2. v \in Move /\ v.to \in MoveTargets[v.kind]
    BY <1>3, <2>1 DEF WriteMove, TypeOK, MovesAllowed
  <2>3. v.unit \in Units /\ v.kind \in MoverKind
    BY <2>2 DEF Move
  <2>4. /\ unit' = [unit EXCEPT ![v.unit] = v.to]
        /\ sale' = [sale EXCEPT ![v.unit].since = v.kind]
    BY <1>3, <2>1 DEF WriteMove
  <2>5. /\ unit'[v.unit] = v.to /\ sale'[v.unit].since = v.kind
        /\ \A u \in Units : sale'[u].order = sale[u].order
        /\ \A u \in Units \ {v.unit} : unit'[u] = unit[u] /\ sale'[u] = sale[u]
    BY <2>3, <2>4 DEF TypeOK, Sale
  <2>6. v.kind # "none" /\ (v.to \in SoldStates => v.kind = "push")
    BY <2>2, <2>3 DEF MoverKind, SalesAssumption
  <2>7. SoldUnitsBelongToReleases'
    <3>1. ASSUME NEW u \in Units
          PROVE  /\ sale'[u].order # None =>
                       u \in UnitsOf(lines[sale'[u].order]) /\ status[sale'[u].order] \in Released
                 /\ unit'[u] \in SoldStates =>
                       \/ sale'[u].order # None /\ sale'[u].since = "none"
                       \/ sale'[u].since = "push"
      BY <2>5, <2>6 DEF Goods, SoldUnitsBelongToReleases
    <3>2. QED
      BY <1>1, <3>1 DEF SoldUnitsBelongToReleases, UnitsOf
  <2>8. ReleasedUnitsAreSold'
    <3>1. ASSUME NEW o \in Orders, status[o] \in Released, NEW l \in lines[o]
          PROVE  /\ l.unit # None /\ sale'[l.unit].order = o
                 /\ sale'[l.unit].since = "none" => unit'[l.unit] = SoldAs(l.form)
      <4>1. /\ l.unit # None /\ sale[l.unit].order = o
            /\ sale[l.unit].since = "none" => unit[l.unit] = SoldAs(l.form)
        BY <3>1 DEF Goods, ReleasedUnitsAreSold
      <4>2. l.unit \in Units
        BY <3>1, <4>1 DEF TypeOK, Line
      <4>3. QED
        BY <2>5, <2>6, <4>1, <4>2
    <3>2. QED
      BY <1>1, <3>1 DEF ReleasedUnitsAreSold
  <2>9. QED
    BY <2>7, <2>8 DEF Goods
<1>4. QED
  BY <1>2, <1>3 DEF Moving, ReadMove, rows

LEMMA SerialStep ==
    ASSUME SalesAssumption, OneAtATime, TypeOK, References, SerialInv, [Next]_vars
    PROVE  SerialInv'
<1>1. ASSUME UNCHANGED <<status, lines, total, received, papers, invoiced, pay>>
      PROVE  \A o \in Orders : Agrees(o)'
  <2>1. \A o \in Orders : Untouched(o)
    BY <1>1 DEF Untouched, Confirmed
  <2>2. QED
    BY <2>1, UntouchedAgrees DEF SerialInv
<1>2. ASSUME NEW r \in Requests, Stands(r)' PROVE \A q \in Requests : Stands(q)'
  BY <1>2 DEF OneAtATime
<1>3. CASE UNCHANGED <<status, lines, total, received, papers, invoiced, pay, req>>
  <2>1. \A r \in Requests : Stands(r)'
    BY <1>3, StandsUnchanged DEF SerialInv
  <2>2. QED
    BY <1>1, <1>3, <2>1 DEF SerialInv
<1>4. ASSUME NEW r \in Requests, Validate(r) PROVE SerialInv'
  BY <1>1, <1>2, <1>4, ValidateAsks, StandsValidate DEF SerialInv, rows
<1>5. ASSUME NEW r \in Requests, Begin(r) PROVE SerialInv'
  BY <1>1, <1>2, <1>5, BeginEffect, StandsBegin DEF SerialInv, rows
<1>6. ASSUME NEW r \in Requests, Commit(r) PROVE SerialInv'
  <2>1. Stands(r)'
    BY <1>6, CommitEffect, StandsIdle
  <2>2. \A o \in Orders : Agrees(o)'
    BY <1>6, CommitAgrees, CommitUntouched, UntouchedAgrees DEF SerialInv
  <2>3. QED
    BY <1>2, <2>1, <2>2 DEF SerialInv
<1>7. ASSUME NEW r \in Requests, Refuse(r) \/ Lose(r) PROVE SerialInv'
  BY <1>1, <1>2, <1>7, FinishedEnds, StandsIdle DEF SerialInv, Refuse, Lose, rows
<1>8. QED
  BY <1>3, <1>4, <1>5, <1>6, <1>7, Steps, MovingEffect DEF vars, rows

LEMMA SerialInit ==
    ASSUME SalesAssumption, Init
    PROVE  SerialInv
<1>1. \A r \in Requests : Stands(r)
  BY IdleTyped DEF Init, IdleFacts, Stands
<1>2. ASSUME NEW o \in Orders PROVE Agrees(o)
  <2>1. Confirmed(o) = {}
    BY DEF Init, Confirmed
  <2>2. lines[o] = {} /\ status[o] = "NONE" /\ papers[o] = {} /\ received[o] = 0
    BY DEF Init
  <2>3. received[o] = ConfirmedSum(o)
    BY <2>1, <2>2 DEF ConfirmedSum, SalesAssumption
  <2>4. QED
    BY <2>2, <2>3 DEF Agrees, EveryUnitNamed, OneLinePerUnit, Paid, Released
<1>3. QED
  BY <1>1, <1>2 DEF SerialInv

(* With one request at a time, what a request has checked is still so when  *)
(* it writes, and every order's rows agree with each other.                 *)
THEOREM SerialOrders ==
    ASSUME SalesAssumption, OneAtATime
    PROVE  Spec => []SerialInv
<1>1. Init => SerialInv
  BY SerialInit
<1>2. TypeOK /\ References /\ SerialInv /\ [Next]_vars => SerialInv'
  BY SerialStep
<1>3. QED
  BY <1>1, <1>2, TypeCorrect, PTL DEF Spec

(* I-4 with one request at a time, and nothing excepted: an order that is   *)
(* paid or further is covered by its confirmed payments, edits and          *)
(* rejections included.                                                     *)
THEOREM PaidStaysCovered ==
    ASSUME SalesAssumption, OneAtATime
    PROVE  Spec => []PaidOrdersAreCovered
<1>1. SerialInv => PaidOrdersAreCovered
  BY DEF SerialInv, Agrees, Paid, Covered, PaidOrdersAreCovered
<1>2. QED
  BY <1>1, SerialOrders, PTL

(* With one request at a time the payment total kept on an order is the sum *)
(* of its confirmed payments (recomputePaymentReceived).                    *)
THEOREM ReceivedStaysDerived ==
    ASSUME SalesAssumption, OneAtATime
    PROVE  Spec => []ReceivedIsDerived
<1>1. SerialInv => ReceivedIsDerived
  BY DEF SerialInv, Agrees, ReceivedIsDerived
<1>2. QED
  BY <1>1, SerialOrders, PTL

(* With one request at a time an order and its invoice have one total.      *)
THEOREM TotalsStayEqual ==
    ASSUME SalesAssumption, OneAtATime
    PROVE  Spec => []TotalsAgree
<1>1. SerialInv => TotalsAgree
  BY DEF SerialInv, Agrees, TotalsAgree
<1>2. QED
  BY <1>1, SerialOrders, PTL

(* With one request at a time a cancelled order has let go of its units.    *)
THEOREM CancelledLetGo ==
    ASSUME SalesAssumption, OneAtATime
    PROVE  Spec => []CancelledOrdersHoldNothing
<1>1. SerialInv => CancelledOrdersHoldNothing
  BY DEF SerialInv, Agrees, CancelledOrdersHoldNothing
<1>2. QED
  BY <1>1, SerialOrders, PTL

(* With one sales request at a time, however many movers read and write     *)
(* units meanwhile, sales and released orders agree.                        *)
LEMMA GoodsFollowReleases ==
    ASSUME SalesAssumption, OneAtATime
    PROVE  Spec => []Goods
<1>1. Init => Goods /\ MovesAllowed
  BY DEF Init, Goods, MovesAllowed, SoldUnitsBelongToReleases, ReleasedUnitsAreSold, Released,
         CKD, SoldStates
<1>2. TypeOK /\ MovesAllowed /\ [Next]_vars => MovesAllowed'
  BY Steps, MovesStayAllowed DEF vars, MovesAllowed
<1>3. /\ TypeOK /\ References /\ OneOrderPerUnit /\ SerialInv /\ Goods /\ MovesAllowed
      /\ [Next]_vars
      => Goods'
  <2> SUFFICES ASSUME TypeOK, References, OneOrderPerUnit, SerialInv, Goods, MovesAllowed,
                      [Next]_vars
               PROVE  Goods'
    OBVIOUS
  <2>1. CASE UNCHANGED <<unit, sale, status, lines>>
    BY <2>1 DEF Goods, SoldUnitsBelongToReleases, ReleasedUnitsAreSold, UnitsOf
  <2>2. ASSUME NEW r \in Requests, Validate(r) \/ Begin(r) \/ Refuse(r) \/ Lose(r)
        PROVE  UNCHANGED <<unit, sale, status, lines>>
    BY <2>2, ValidateAsks, BeginEffect DEF Refuse, Lose, rows
  <2>3. QED
    BY <2>1, <2>2, CommitGoods, MoveKeepsGoods, Steps DEF vars, rows
<1>4. QED
  BY <1>1, <1>2, <1>3, TypeCorrect, UnitsAreReservedOnce, SerialOrders, PTL DEF Spec

(* With one sales request at a time and any number of movers, stale writes  *)
(* and pushed statuses included: a sold unit was sold by a release whose    *)
(* order still holds it, or by a pushed status.                             *)
THEOREM SoldIsReleased ==
    ASSUME SalesAssumption, OneAtATime
    PROVE  Spec => []SoldUnitsBelongToReleases
<1>1. Goods => SoldUnitsBelongToReleases
  BY DEF Goods
<1>2. QED
  BY <1>1, GoodsFollowReleases, PTL

(* Under the same conditions every unit of a released order has its SALE,   *)
(* and is as its line says until a mover writes it.                         *)
THEOREM ReleasedIsSold ==
    ASSUME SalesAssumption, OneAtATime
    PROVE  Spec => []ReleasedUnitsAreSold
<1>1. Goods => ReleasedUnitsAreSold
  BY DEF Goods
<1>2. QED
  BY <1>1, GoodsFollowReleases, PTL

(* With one request at a time, an order moves along SO_STATE_TRANSITIONS:   *)
(* what validation has checked is still so at the commit.                   *)
THEOREM OrdersMoveLegally ==
    ASSUME SalesAssumption, OneAtATime
    PROVE  Spec => OrdersFollowStateMachine
<1> DEFINE Legal == \A o \in Orders : status'[o] # status[o] =>
                       \/ status[o] = "NONE" /\ status'[o] = "DRAFT"
                       \/ Follows(status[o], status'[o])
<1>1. TypeOK /\ References /\ SerialInv /\ [Next]_vars => [Legal]_vars
  <2> SUFFICES ASSUME TypeOK, References, SerialInv, [Next]_vars, NEW o \in Orders,
                      status'[o] # status[o]
               PROVE  \/ status[o] = "NONE" /\ status'[o] = "DRAFT"
                      \/ Follows(status[o], status'[o])
    OBVIOUS
  <2>1. ASSUME NEW r \in Requests, Validate(r) \/ Begin(r) \/ Refuse(r) \/ Lose(r)
        PROVE  FALSE
    BY <2>1, ValidateAsks, BeginEffect DEF Refuse, Lose, rows
  <2>2. ASSUME NEW r \in Requests, Commit(r)
        PROVE  \/ status[o] = "NONE" /\ status'[o] = "DRAFT"
               \/ Follows(status[o], status'[o])
    <3>1. Stands(r)
      BY DEF SerialInv
    <3>2. o = req[r].so
      BY <2>2, <3>1, CommitUntouched DEF Untouched
    <3>3. QED
      BY <2>2, <3>1, <3>2, CommitMoves
  <2>3. QED
    BY <2>1, <2>2, Steps, MovingEffect DEF vars, rows
<1>2. QED
  BY <1>1, TypeCorrect, SerialOrders, PTL DEF Spec, OrdersFollowStateMachine
=============================================================================
