-------------------------------- MODULE MCSync --------------------------------
(***************************************************************************)
(* The two halves of offline work.  The push half and the pull half share  *)
(* no code and no rows here, so a behaviour exercises one of them, chosen  *)
(* at the start.                                                           *)
(***************************************************************************)
EXTENDS SyncIntake, SyncPull, TLC

VARIABLE half

syncVars == <<intakeVars, pullVars, half>>

Phone(old, new, at) == [field |-> "phone", base |-> old, new |-> new, stamp |-> at]
Status(old, new) == [field |-> "status", base |-> old, new |-> new, stamp |-> 1]

MCDevices == {"tablet", "handset"}
MCActions == {"receipt", "rename", "move", "call"}
MCOutbox == [tablet |-> <<"receipt", "rename", "move">>, handset |-> <<"call">>]
MCChanges == [receipt |-> {}, rename |-> {Phone("p0", "p1", 2)},
              move |-> {Status(CKD, "DEMO")}, call |-> {Phone("p0", "p2", 1)}]
MCHopeless == {"receipt"}
MCFields == {"phone", "status"}
MCEntityOf == [phone |-> "customer", status |-> "unit"]
MCReviewed == {"status"}
MCInitialValue == [phone |-> "p0", status |-> CKD]
MCStaffEdits == {<<"phone", "p3">>, <<"status", "DAMAGED">>}
-------------------------------------------------------------------------------
Init == IntakeInit /\ PullInit /\ half \in {"push", "pull"}

Next ==
    \/ half = "push" /\ IntakeNext /\ UNCHANGED <<pullVars, half>>
    \/ half = "pull" /\ PullNext /\ UNCHANGED <<intakeVars, half>>

(* IntakeFairness and PullFairness, each for the half it is about.          *)
Spec ==
    /\ Init /\ [][Next]_syncVars
    /\ \A r \in Requests : WF_intakeVars(half = "push" /\ Serve(r))
    /\ \A d \in Devices : SF_intakeVars(half = "push" /\ \E r \in Requests : Push(r, d))
    /\ WF_intakeVars(half = "push" /\ Tick)
    /\ \A S \in SUBSET Rows : WF_pullVars(half = "pull" /\ Commit(S))
    /\ WF_pullVars(half = "pull" /\ StartPull)
    /\ WF_pullVars(half = "pull" /\ ReadClock)
    /\ WF_pullVars(half = "pull" /\ ReadPage)

(* Every action queued on a device is answered, in behaviours that push.    *)
PushesAreAnswered == half = "push" => EveryActionIsAnswered

(* The mirror catches up when writes cease, in behaviours that pull.        *)
PullsConverge == half = "pull" => MirrorConverges
=============================================================================
