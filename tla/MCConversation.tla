--------------------------- MODULE MCConversation ---------------------------
(***************************************************************************)
(* Instances of Conversation for TLC.                                      *)
(***************************************************************************)
EXTENDS Conversation, TLC

Symmetry == Permutations(Caller)

To(kind, statuses) == [kind: {kind}, to: statuses]

OfKind(kinds) == {c \in Call : c.kind \in kinds}

\* Every kind of call that keeps the history; the explicit transitions ask
\* for one status of each sort.
AuditedCalls ==
    To("transition", {"human_handoff", "progress", "agent_closed"})
      \cup To("priority", {"failed", "support_closed"})
      \cup OfKind({"user_bye", "user_text", "agent_text", "expire", "cleanup",
                   "idle", "extend", "transfer", "assign"})

\* Calls that write the context only under a version check.
VersionedCalls ==
    OfKind(VersionedKinds \cup {"user_bye", "expire"})
      \cup To("transition", {"human_handoff", "agent_closed"})

\* A user's goodbye against the expiry sweep.
ByeAndExpire == OfKind({"user_bye", "expire"})

\* A goodbye against the bot's first answer.
ByeAndAnswer == OfKind({"user_bye", "agent_text"})

\* A transfer against the bot's first answer.
TransferAndAnswer == OfKind({"transfer", "agent_text"})

\* Closing against another closing.
Closings == OfKind({"user_bye"}) \cup To("transition", {"agent_closed"})

OpenStatuses == ActiveStatuses \cup PausedStatuses
=============================================================================
