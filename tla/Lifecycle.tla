----------------------------- MODULE Lifecycle ------------------------------
(***************************************************************************)
(* The status machine as the documentation draws it: one status that moves *)
(* along the table of transitions, and a closed conversation that changes  *)
(* only when a closing status of higher priority overrides it.             *)
(***************************************************************************)
EXTENDS ConversationStatus

VARIABLE status

Init == status \in Status

Transition(to) ==
    /\ IsValidTransition(status, to)
    /\ status' = to

Override(to) ==
    /\ IsClosed(status)
    /\ Outranks(to, status)
    /\ status' = to

Next == \E to \in Status : Transition(to) \/ Override(to)

Spec == Init /\ [][Next]_status
=============================================================================
