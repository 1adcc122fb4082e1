------------------------------ MODULE StockLedger ------------------------------
(***************************************************************************)
(* What the stock ledger promises (Invariant I-3 and the state machine): a *)
(* unit's status changes only along a legal edge, and in the same step the *)
(* ledger receives one movement that records exactly that edge.  Units of  *)
(* one request move together.                                              *)
(***************************************************************************)
EXTENDS UnitStates

CONSTANT Units

VARIABLES status,    \* the unit's current status
          lastMove   \* the newest StockMovement of the unit

ledgerVars == <<status, lastMove>>

Init ==
    /\ status \in [Units -> UnitStatus]
    /\ lastMove \in [Units -> Movement]
    /\ \A u \in Units : lastMove[u].to = status[u]

(* The units of S move, each from where it is, along a legal edge. *)
Move(S) ==
    /\ status' \in [Units -> UnitStatus]
    /\ lastMove' \in [Units -> Movement]
    /\ \A u \in S :
         /\ CanTransition(status[u], status'[u])
         /\ lastMove'[u].from = status[u]
         /\ lastMove'[u].to = status'[u]
    /\ \A u \in Units \ S : status'[u] = status[u] /\ lastMove'[u] = lastMove[u]

Next == \E S \in SUBSET Units : Move(S)

Spec == Init /\ [][Next]_ledgerVars
=============================================================================
