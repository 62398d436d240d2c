----------------------------- MODULE AuditTrail -----------------------------
(***************************************************************************)
(* What conversation_state_history promises about the status of a          *)
(* conversation: every change is atomic and owes one entry that names the  *)
(* status it replaced and the status it set; an entry is then written or   *)
(* lost, but never invented.                                               *)
(***************************************************************************)
EXTENDS ConversationStatus

CONSTANT Author

VARIABLES status,   \* the status of the conversation
          owed,     \* changes whose entry has not been written yet
          trail     \* the entries written

vars == <<status, owed, trail>>

Init ==
    /\ status \in Status
    /\ owed = {}
    /\ trail = {}

Change(by, to) ==
    /\ status' = to
    /\ owed' = owed \cup {[by |-> by, from |-> status, to |-> to]}
    /\ UNCHANGED trail

Settle(e) ==
    /\ owed' = owed \ {e}
    /\ trail' \in {trail, trail \cup {e}}
    /\ UNCHANGED status

Next ==
    \/ \E by \in Author, to \in Status : Change(by, to)
    \/ \E e \in owed : Settle(e)

Spec == Init /\ [][Next]_vars
=============================================================================
