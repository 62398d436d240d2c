------------------------- MODULE ConversationStatus -------------------------
(***************************************************************************)
(* The status machine of a conversation: the enumeration of                *)
(* conversation_status.py, the table of allowed transitions and the        *)
(* closing priorities of conversation_lifecycle.py.  Constant level only.  *)
(***************************************************************************)
EXTENDS Naturals

ActiveStatuses == {"pending", "progress", "human_handoff"}
PausedStatuses == {"idle_timeout"}
ClosedStatuses == {"agent_closed", "support_closed", "user_closed",
                   "expired", "failed"}
Status == ActiveStatuses \cup PausedStatuses \cup ClosedStatuses

IsActive(s) == s \in ActiveStatuses
IsClosed(s) == s \in ClosedStatuses

(***************************************************************************)
(* VALID_TRANSITIONS.  Every open status may end in FAILED, be closed by   *)
(* the agent or by the user; the rest differs per status.                  *)
(***************************************************************************)
ValidTransitions ==
    [s \in Status |->
        CASE s = "pending"       -> {"progress", "human_handoff"} \cup ClosedStatuses
          [] s = "progress"      -> {"human_handoff", "idle_timeout"} \cup ClosedStatuses
          [] s = "human_handoff" -> {"progress"} \cup (ClosedStatuses \ {"expired"})
          [] s = "idle_timeout"  -> {"progress", "human_handoff"}
                                        \cup (ClosedStatuses \ {"support_closed"})
          [] OTHER               -> {}]

\* A transition to the status already held is always allowed (idempotency).
IsValidTransition(from, to) == from = to \/ to \in ValidTransitions[from]

(***************************************************************************)
(* The Supabase repository keeps a second copy of the table inside         *)
(* update_status; it is written out as the code writes it, and lemma       *)
(* TablesAgree of ConversationProofs shows that the two copies agree.      *)
(***************************************************************************)
RepoValidNext ==
    [s \in Status |->
        CASE s = "pending" ->
               {"progress", "human_handoff", "expired", "support_closed",
                "user_closed", "agent_closed", "failed"}
          [] s = "progress" ->
               {"human_handoff", "agent_closed", "support_closed",
                "user_closed", "idle_timeout", "expired", "failed"}
          [] s = "human_handoff" ->
               {"progress", "agent_closed", "support_closed", "user_closed", "failed"}
          [] s = "idle_timeout" ->
               {"progress", "human_handoff", "expired", "agent_closed",
                "user_closed", "failed"}
          [] s \in ClosedStatuses -> {}]

RepoAccepts(from, to) == from = to \/ to \in RepoValidNext[from]

(***************************************************************************)
(* Closing priorities: the lower number wins; a status outside the table   *)
(* counts as 99.                                                           *)
(***************************************************************************)
Priority ==
    [s \in Status |->
        CASE s = "failed"         -> 1
          [] s = "user_closed"    -> 2
          [] s = "support_closed" -> 3
          [] s = "agent_closed"   -> 4
          [] s \in {"expired", "idle_timeout"} -> 5
          [] OTHER                -> 99]

Outranks(new, current) == Priority[new] < Priority[current]
=============================================================================
