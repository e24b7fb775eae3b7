---------------------------- MODULE MediaContract ----------------------------
(***************************************************************************)
(* What the media plane promises of a grant, as the executable reference   *)
(* model of internal/domain/mediacontract/reference.go states it: only an  *)
(* active grant admits a connection, a revoke cannot be undone, and a      *)
(* grant is revoked only when its admission connections are closed and the *)
(* SFU has confirmed the teardown.                                         *)
(***************************************************************************)
CONSTANT Grants

VARIABLES state, connected, sfuDown

contractVars == <<state, connected, sfuDown>>

Init == /\ state = [g \in Grants |-> "none"]
        /\ connected = [g \in Grants |-> FALSE]
        /\ sfuDown = [g \in Grants |-> FALSE]

(* NewReferenceModel *)
Prepare(g) == /\ state[g] = "none"
              /\ state' = [state EXCEPT ![g] = "prepared"]
              /\ UNCHANGED <<connected, sfuDown>>

Activate(g) == /\ state[g] = "prepared"
               /\ state' = [state EXCEPT ![g] = "active"]
               /\ UNCHANGED <<connected, sfuDown>>

(* A connection that passed CheckAdmission.                                *)
CheckAdmission(g) == /\ state[g] = "active"
                     /\ connected' = [connected EXCEPT ![g] = TRUE]
                     /\ UNCHANGED <<state, sfuDown>>

Disconnect(g) == /\ connected' = [connected EXCEPT ![g] = FALSE]
                 /\ UNCHANGED <<state, sfuDown>>

(* One request may revoke several grants, an end of the call all of them.  *)
BeginRevoke(S) ==
    /\ \A g \in S : state[g] \in {"prepared", "active"}
    /\ state' = [g \in Grants |-> IF g \in S THEN "revoking" ELSE state[g]]
    /\ UNCHANGED <<connected, sfuDown>>

(* One half of the evidence has arrived: ErrTeardownPending.               *)
SfuConfirmed(g) == /\ state[g] = "revoking"
                   /\ sfuDown' = [sfuDown EXCEPT ![g] = TRUE]
                   /\ UNCHANGED <<state, connected>>

(* The evidence is complete with this acknowledgement.                     *)
ConfirmTeardown(g) ==
    /\ state[g] = "revoking"
    /\ sfuDown[g] \/ ~connected[g]
    /\ state' = [state EXCEPT ![g] = "revoked"]
    /\ connected' = [connected EXCEPT ![g] = FALSE]
    /\ sfuDown' = [sfuDown EXCEPT ![g] = TRUE]

(* The reference model has no deadline; the store releases a grant that    *)
(* was not activated in time, which nothing can have connected with.       *)
NeverActivated(g) == /\ state[g] = "prepared"
                     /\ ~connected[g]
                     /\ state' = [state EXCEPT ![g] = "revoked"]
                     /\ UNCHANGED <<connected, sfuDown>>

Next == \/ \E g \in Grants : \/ Prepare(g)
                             \/ Activate(g)
                             \/ CheckAdmission(g)
                             \/ Disconnect(g)
                             \/ SfuConfirmed(g)
                             \/ ConfirmTeardown(g)
                             \/ NeverActivated(g)
        \/ \E S \in SUBSET Grants : BeginRevoke(S)

Spec == Init /\ [][Next]_contractVars
=============================================================================
