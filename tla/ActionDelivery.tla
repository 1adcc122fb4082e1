---------------------------- MODULE ActionDelivery ----------------------------
(***************************************************************************)
(* What the intake of offline actions promises a device that keeps sending *)
(* an action until it is acknowledged: the action takes effect once, plus  *)
(* at most once more for every time the backend died between the effect    *)
(* and its record, and it is acknowledged only after it took effect.       *)
(***************************************************************************)
EXTENDS Naturals

CONSTANT Actions

VARIABLES effects,       \* how often each action took effect
          doubts,        \* how often an effect of it stayed unrecorded
          acknowledged   \* the actions the device need not send again

deliveryVars == <<effects, doubts, acknowledged>>

Init ==
    /\ effects = [a \in Actions |-> 0]
    /\ doubts = [a \in Actions |-> 0]
    /\ acknowledged = {}

TakeEffect(a) ==
    /\ a \notin acknowledged
    /\ effects[a] <= doubts[a]
    /\ effects' = [effects EXCEPT ![a] = @ + 1]
    /\ UNCHANGED <<doubts, acknowledged>>

(* The backend dies and nobody can tell that the effect was made.          *)
Forget(a) ==
    /\ a \notin acknowledged
    /\ effects[a] > doubts[a]
    /\ doubts' = [doubts EXCEPT ![a] = @ + 1]
    /\ UNCHANGED <<effects, acknowledged>>

(* One response acknowledges the actions of a batch together.              *)
Acknowledge(S) ==
    /\ \A a \in S : effects[a] > doubts[a]
    /\ acknowledged' = acknowledged \cup S
    /\ UNCHANGED <<effects, doubts>>

Next ==
    \/ \E a \in Actions : TakeEffect(a) \/ Forget(a)
    \/ \E S \in SUBSET Actions : Acknowledge(S)

Spec == Init /\ [][Next]_deliveryVars
=============================================================================
