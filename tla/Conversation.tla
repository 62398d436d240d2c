---------------------------- MODULE Conversation ----------------------------
(***************************************************************************)
(* One row of the conversations table and the service calls that work on   *)
(* it concurrently: API requests, queue workers adding messages, and the   *)
(* expiry and idle sweeps of the scheduler.  A caller runs ONE call, in    *)
(* the steps the code has between two database statements, so that every   *)
(* await is a point where another caller may move.                         *)
(*                                                                         *)
(* ConversationService, ConversationLifecycle and the two repositories     *)
(* (Backend) are modelled.  Messages, and the creation of conversations,   *)
(* are the business of other modules: the row exists and add_message is    *)
(* modelled from the moment its message is stored.                         *)
(*                                                                         *)
(* Times are abstracted to two flags of the row: `expired` (expires_at has *)
(* passed) and `idle` (updated_at is older than the idle threshold).  The  *)
(* context is abstracted to the callers recorded in transfer_history and   *)
(* to the set of its other keys.                                           *)
(***************************************************************************)
EXTENDS ConversationStatus, FiniteSets

CONSTANTS
    Caller,      \* concurrent calls of the service, one per element
    Backend,     \* DATABASE_BACKEND: "supabase" or "postgres"
    Calls,       \* the calls an instance considers, a subset of Call
    InitStatus,  \* the statuses the row may have when the calls begin
    Faults       \* TRUE: a database statement may raise, the process may die

(***************************************************************************)
(* A call: its kind and the status it asks for ("none" when it asks for    *)
(* none).                                                                  *)
(*   transition  close_conversation (the API passes any status),           *)
(*               request_handoff, release_to_bot                           *)
(*   priority    close_conversation_with_priority                          *)
(*   user_bye    add_message of a message with closing intent              *)
(*   user_text, agent_text   any other add_message                         *)
(*   expire, idle            one candidate of a scheduler sweep            *)
(*   cleanup     one candidate of cleanup_expired_conversations            *)
(*   extend, transfer, escalate, assign   versioned updates of the row     *)
(***************************************************************************)
RequestCalls == [kind: {"transition", "priority"}, to: Status]

\* detect_intent: only a message of the user, or an explicit signal, closes.
MessageCalls ==
    {[kind |-> "user_bye",   to |-> "user_closed"],
     [kind |-> "user_text",  to |-> "progress"],
     [kind |-> "agent_text", to |-> "progress"]}

SweepCalls == {[kind |-> "expire", to |-> "expired"],
               [kind |-> "idle",   to |-> "idle_timeout"]}

CleanupCalls == {[kind |-> "cleanup", to |-> "expired"]}

UpdateCalls == [kind: {"extend", "transfer", "assign"}, to: {"none"}]
                 \cup {[kind |-> "escalate", to |-> "progress"]}

Call == RequestCalls \cup MessageCalls \cup SweepCalls \cup CleanupCalls
          \cup UpdateCalls

VersionedKinds == {"extend", "transfer", "escalate", "assign"}
TextKinds      == {"user_text", "agent_text"}
MessageKinds   == TextKinds \cup {"user_bye"}
RetryingKinds  == MessageKinds \cup {"transfer"}

ASSUME ConversationAssumption ==
    /\ Backend \in {"supabase", "postgres"}
    /\ Calls \subseteq Call
    /\ InitStatus \subseteq Status
    /\ Faults \in BOOLEAN

\* Mutant: one attempt too few.
MaxRetries_TwoAttempts == 2

MaxRetries == 3   \* max_retries of _handle_transition_with_retry and transfer

ContextKeys == {"accepted_by", "reactivated_from_idle", "escalated"}

Row == [status: Status, version: Nat, expired: BOOLEAN, idle: BOOLEAN,
        transfers: SUBSET Caller, keys: SUBSET ContextKeys]

\* What later steps of a call use of the Conversation object it holds, and
\* what update_status uses of the row it read.
Object  == [status: Status, version: Nat,
            transfers: SUBSET Caller, keys: SUBSET ContextKeys]
Current == [status: Status, version: Nat]

NoCall == [kind |-> "none", to |-> "none"]

VARIABLES
    row,      \* the row in the database
    pc,       \* what each caller does next
    call,     \* the call each caller runs
    obj,      \* the Conversation object the call was given
    seen,     \* the object the current attempt works on (reloaded on a retry)
    cur,      \* `current`, read by update_status just before it writes
    tries,    \* attempts that ended in a ConcurrencyError and were retried
    history   \* conversation_state_history: [by, from, to]

vars == <<row, pc, call, obj, seen, cur, tries, history>>

RowObject  == [status |-> row.status, version |-> row.version,
               transfers |-> row.transfers, keys |-> row.keys]
RowCurrent == [status |-> row.status, version |-> row.version]

PC == {"idle", "called", "write", "log", "context", "stamp", "reload",
       "done", "failed", "aborted"}

HistoryEntry == [by: Caller, from: Status, to: Status]

TypeOK ==
    /\ row \in Row
    /\ pc \in [Caller -> PC]
    /\ call \in [Caller -> Calls \cup {NoCall}]
    /\ obj \in [Caller -> Object]
    /\ seen \in [Caller -> Object]
    /\ cur \in [Caller -> Current]
    /\ tries \in [Caller -> 0 .. MaxRetries - 1]
    /\ history \subseteq HistoryEntry
    /\ \A p \in Caller :
          /\ pc[p] # "idle" => call[p] \in Calls
          /\ pc[p] \in {"write", "log"} => call[p].kind \notin VersionedKinds
          /\ pc[p] = "context" => call[p].kind \in TextKinds
          /\ pc[p] = "stamp" => call[p].kind \in MessageKinds

Init ==
    /\ \E s \in InitStatus :
          row = [status |-> s, version |-> 1, expired |-> FALSE, idle |-> FALSE,
                 transfers |-> {}, keys |-> {}]
    /\ pc = [p \in Caller |-> "idle"]
    /\ call = [p \in Caller |-> NoCall]
    /\ obj = [p \in Caller |-> RowObject]
    /\ seen = [p \in Caller |-> RowObject]
    /\ cur = [p \in Caller |-> RowCurrent]
    /\ tries = [p \in Caller |-> 0]
    /\ history = {}

Goto(p, l) == pc' = [pc EXCEPT ![p] = l]

InFlight == {p \in Caller : pc[p] \notin {"idle", "done", "failed", "aborted"}}

-----------------------------------------------------------------------------
(***************************************************************************)
(* Reading the row.  A request finds the conversation by its identifier;   *)
(* the sweeps only get rows their query selects: an active status is       *)
(* wanted, and process_idle_timeouts drops every candidate that is not     *)
(* PROGRESS.                                                               *)
(***************************************************************************)
Begin(p, c) ==
    /\ pc[p] = "idle"
    /\ call' = [call EXCEPT ![p] = c]
    /\ obj' = [obj EXCEPT ![p] = RowObject]
    /\ seen' = [seen EXCEPT ![p] = RowObject]
    /\ Goto(p, "called")
    /\ UNCHANGED <<row, cur, tries, history>>

LoadRequest(p) == \E c \in Calls \ (SweepCalls \cup CleanupCalls) : Begin(p, c)

ExpiredCandidate == IsActive(row.status) /\ row.expired
IdleCandidate    == row.status = "progress" /\ row.idle

LoadCandidate(p) ==
    \E c \in Calls \cap (SweepCalls \cup CleanupCalls) :
       /\ IF c.kind = "idle" THEN IdleCandidate ELSE ExpiredCandidate
       /\ Begin(p, c)

Load(p) == LoadRequest(p) \/ LoadCandidate(p)

(***************************************************************************)
(* add_message changes the status only for closing intent, for the first   *)
(* answer to a PENDING conversation and for a user message to an idle one; *)
(* it decides on the object it was given.                                  *)
(***************************************************************************)
MessageTransits(p) ==
    \/ call[p].kind = "user_bye"
    \/ call[p].kind = "agent_text" /\ obj[p].status = "pending"
    \/ call[p].kind = "user_text" /\ obj[p].status = "idle_timeout"

PlainMessage(p) ==
    /\ pc[p] = "called"
    /\ call[p].kind \in MessageKinds
    /\ ~MessageTransits(p)
    /\ Goto(p, "stamp")
    /\ UNCHANGED <<row, call, obj, seen, cur, tries, history>>

\* transition_to_with_priority on a conversation the caller knows is closed.
\* Mutant: the override does not ask whether the conversation is closed.
Overrides_AnyStatus(p) == call[p].kind = "priority"

Overrides(p) == call[p].kind = "priority" /\ IsClosed(seen[p].status)

IgnoreLowerPriority(p) ==
    /\ pc[p] = "called"
    /\ Overrides(p)
    /\ ~Outranks(call[p].to, seen[p].status)
    /\ Goto(p, "done")
    /\ UNCHANGED <<row, call, obj, seen, cur, tries, history>>

(***************************************************************************)
(* A call that reaches repository.update_status.  transition_to validates  *)
(* against the object in hand; _force_transition and the cleanup loop do   *)
(* not validate.                                                           *)
(***************************************************************************)
WantsStatus(p) ==
    /\ pc[p] = "called"
    /\ call[p].kind \notin VersionedKinds
    /\ call[p].kind \in MessageKinds => MessageTransits(p)
    /\ Overrides(p) => Outranks(call[p].to, seen[p].status)

ObjectAccepts(p) ==
    \/ Overrides(p)
    \/ call[p].kind = "cleanup"
    \/ IsValidTransition(seen[p].status, call[p].to)

\* The Supabase repository validates again, against the row it just read.
RowAccepts(p) ==
    \/ Backend = "postgres"
    \/ Overrides(p)
    \/ RepoAccepts(row.status, call[p].to)

\* ValueError of transition_to.
RejectTransition(p) ==
    /\ WantsStatus(p)
    /\ ~ObjectAccepts(p)
    /\ Goto(p, "failed")
    /\ UNCHANGED <<row, call, obj, seen, cur, tries, history>>

\* The first statement of update_status: read the row and its version.
ReadCurrent(p) ==
    /\ WantsStatus(p)
    /\ ObjectAccepts(p)
    /\ cur' = [cur EXCEPT ![p] = RowCurrent]
    /\ Goto(p, IF RowAccepts(p) THEN "write" ELSE "failed")
    /\ UNCHANGED <<row, call, obj, seen, tries, history>>

(***************************************************************************)
(* UPDATE ... WHERE conv_id = .. AND version = current.version.  Postgres  *)
(* goes through the versioned update, which sets version + 1; the Supabase *)
(* query leaves the version alone.                                         *)
(***************************************************************************)
\* Mutant: the status write forgets to move the version.
VersionAfterStatus_Unmoved == row.version

VersionAfterStatus ==
    IF Backend = "postgres" THEN row.version + 1 ELSE row.version

WriteStatus(p) ==
    /\ pc[p] = "write"
    /\ row.version = cur[p].version
    /\ row' = [row EXCEPT
                 !.status = call[p].to,
                 !.version = VersionAfterStatus,
                 !.idle = FALSE,
                 !.expired = @ /\ call[p].kind # "agent_text"]
    /\ Goto(p, "log")
    /\ UNCHANGED <<call, obj, seen, cur, tries, history>>

(***************************************************************************)
(* No row matched: ConcurrencyError.  add_message and transfer try again   *)
(* with a reloaded object, three attempts in all; every other caller gives *)
(* up (the sweeps log it, the API request fails).                          *)
(***************************************************************************)
GiveUpOrRetry(p) ==
    IF call[p].kind \in RetryingKinds /\ tries[p] < MaxRetries - 1
    THEN /\ tries' = [tries EXCEPT ![p] = @ + 1]
         /\ Goto(p, "reload")
    ELSE /\ Goto(p, "failed")
         /\ UNCHANGED tries

StatusConflict(p) ==
    /\ pc[p] = "write"
    /\ row.version # cur[p].version
    /\ GiveUpOrRetry(p)
    /\ UNCHANGED <<row, call, obj, seen, cur, history>>

Reload(p) ==
    /\ pc[p] = "reload"
    /\ seen' = [seen EXCEPT ![p] = RowObject]
    /\ Goto(p, "called")
    /\ UNCHANGED <<row, call, obj, cur, tries, history>>

(***************************************************************************)
(* The audit insert follows the write in a statement of its own, and its   *)
(* failure is swallowed.  add_message then updates the context unless the  *)
(* message closed the conversation.                                        *)
(***************************************************************************)
\* Mutant: the entry names the status of the object in hand.
AuditEntry_FromObject(p) == [by |-> p, from |-> seen[p].status, to |-> call[p].to]

AuditEntry(p) == [by |-> p, from |-> cur[p].status, to |-> call[p].to]

\* Mutant: a goodbye updates the context as well.
LogHistory_ContextAlways(p) ==
    /\ pc[p] = "log"
    /\ history' \in {history, history \cup {AuditEntry(p)}}
    /\ Goto(p, IF call[p].kind \in MessageKinds THEN "context" ELSE "done")
    /\ UNCHANGED <<row, call, obj, seen, cur, tries>>

LogHistory(p) ==
    /\ pc[p] = "log"
    /\ history' \in {history, history \cup {AuditEntry(p)}}
    /\ Goto(p, IF call[p].kind \in TextKinds THEN "context" ELSE "done")
    /\ UNCHANGED <<row, call, obj, seen, cur, tries>>

\* update_context replaces the whole context, whatever version the row has.
WithContext(transfers, keys) == [row EXCEPT !.transfers = transfers, !.keys = keys]

\* The context written is a copy of the one the call STARTED from.
UpdateContext(p) ==
    /\ pc[p] = "context"
    /\ LET key == IF call[p].kind = "agent_text"
                  THEN "accepted_by" ELSE "reactivated_from_idle"
       IN  row' = WithContext(obj[p].transfers, obj[p].keys \cup {key})
    /\ Goto(p, "stamp")
    /\ UNCHANGED <<call, obj, seen, cur, tries, history>>

UpdateTimestamp(p) ==
    /\ pc[p] = "stamp"
    /\ row' = [row EXCEPT !.idle = FALSE]
    /\ Goto(p, "done")
    /\ UNCHANGED <<call, obj, seen, cur, tries, history>>

(***************************************************************************)
(* repository.update(..., current_version = conversation.version): one     *)
(* statement, checked against the version of the object in hand.           *)
(***************************************************************************)
\* Mutant: a retried transfer works on the context it started from.
Updated_OldContext(p, v) ==
    IF call[p].kind = "transfer"
    THEN [row EXCEPT !.version = v, !.idle = FALSE,
                     !.transfers = obj[p].transfers \cup {p}, !.keys = obj[p].keys]
    ELSE [row EXCEPT !.version = v, !.idle = FALSE]

Updated(p, v) ==
    CASE call[p].kind = "extend" ->
           [row EXCEPT !.version = v, !.expired = FALSE]
      [] call[p].kind = "transfer" ->
           [row EXCEPT !.version = v, !.idle = FALSE,
                       !.transfers = seen[p].transfers \cup {p},
                       !.keys = seen[p].keys]
      [] call[p].kind = "escalate" ->
           [row EXCEPT !.version = v, !.idle = FALSE, !.status = "progress",
                       !.transfers = seen[p].transfers,
                       !.keys = seen[p].keys \cup {"escalated"}]
      [] OTHER -> [row EXCEPT !.version = v, !.idle = FALSE]

VersionedUpdate(p) ==
    /\ pc[p] = "called"
    /\ call[p].kind \in VersionedKinds
    /\ row.version = seen[p].version
    /\ row' = Updated(p, seen[p].version + 1)
    /\ Goto(p, "done")
    /\ UNCHANGED <<call, obj, seen, cur, tries, history>>

UpdateConflict(p) ==
    /\ pc[p] = "called"
    /\ call[p].kind \in VersionedKinds
    /\ row.version # seen[p].version
    /\ GiveUpOrRetry(p)
    /\ UNCHANGED <<row, call, obj, seen, cur, history>>

-----------------------------------------------------------------------------
(***************************************************************************)
(* Any statement may raise (connection lost, unique index on the active    *)
(* session violated), and the process may die: the call ends where it is.  *)
(***************************************************************************)
Abort(p) ==
    /\ Faults
    /\ p \in InFlight
    /\ Goto(p, "aborted")
    /\ UNCHANGED <<row, call, obj, seen, cur, tries, history>>

\* The clock passes expires_at, or the idle threshold.
ExpiryPasses ==
    /\ ~row.expired
    /\ row' = [row EXCEPT !.expired = TRUE]
    /\ UNCHANGED <<pc, call, obj, seen, cur, tries, history>>

IdleThresholdPasses ==
    /\ ~row.idle
    /\ row' = [row EXCEPT !.idle = TRUE]
    /\ UNCHANGED <<pc, call, obj, seen, cur, tries, history>>

Step(p) ==
    \/ Load(p)
    \/ PlainMessage(p)
    \/ IgnoreLowerPriority(p)
    \/ RejectTransition(p)
    \/ ReadCurrent(p)
    \/ WriteStatus(p)
    \/ StatusConflict(p)
    \/ Reload(p)
    \/ LogHistory(p)
    \/ UpdateContext(p)
    \/ UpdateTimestamp(p)
    \/ VersionedUpdate(p)
    \/ UpdateConflict(p)
    \/ Abort(p)

Next ==
    \/ \E p \in Caller : Step(p)
    \/ ExpiryPasses
    \/ IdleThresholdPasses

Spec == Init /\ [][Next]_vars
-----------------------------------------------------------------------------
(***************************************************************************)
(* Properties                                                              *)
(***************************************************************************)

(***************************************************************************)
(* The version is a faithful witness of the status: whoever holds the      *)
(* version of the row holds its status, so that a write that matches       *)
(* `version = v` replaces the status its caller read.  This is what        *)
(* optimistic locking is for; it needs every status write to move the      *)
(* version, which update_status of the Postgres repository does.           *)
(***************************************************************************)
StatusFresh ==
    \A p \in Caller :
        /\ cur[p].version = row.version => cur[p].status = row.status
        /\ seen[p].version = row.version => seen[p].status = row.status

(***************************************************************************)
(* A status write of a caller whose object is still the current version of *)
(* the row moves the status along the documented machine, override by      *)
(* priority included: with Postgres only a stale object (transition_to     *)
(* validates the object in hand, update_status reads the row again) takes  *)
(* a conversation off the machine.  The cleanup loop validates nothing.    *)
(***************************************************************************)
Machine == INSTANCE Lifecycle WITH status <- row.status

FreshWritesObey ==
    [][\A p \in Caller :
          /\ WriteStatus(p)
          /\ seen[p].version = row.version
          /\ call[p].kind # "cleanup"
          => Machine!Next]_vars

(***************************************************************************)
(* A transfer that returned is in transfer_history for good: the callers   *)
(* whose transfer_owner succeeded are all in the context, whatever         *)
(* versioned update or status write came after.                            *)
(***************************************************************************)
NoTransferLost ==
    {p \in Caller : pc[p] = "done" /\ call[p].kind = "transfer"}
        \subseteq row.transfers

(***************************************************************************)
(* conversation_state_history under concurrency: every entry describes a   *)
(* change of status that happened, with the status it really replaced, and *)
(* no change of status bypasses the history.  The row's status and the     *)
(* entries owed by callers between their write and their insert are an     *)
(* AuditTrail.                                                             *)
(***************************************************************************)
Owed == {AuditEntry(p) : p \in {q \in Caller : pc[q] = "log"}}

Audit == INSTANCE AuditTrail
    WITH Author <- Caller, status <- row.status, owed <- Owed, trail <- history

ImplementsAuditTrail == Audit!Spec

(***************************************************************************)
(* The retry loop of add_message is long enough: with fewer rival calls    *)
(* than attempts, a goodbye is refused only because the conversation was   *)
(* already closed, never because of the conflicts alone.  (A goodbye cut   *)
(* off by a database error or a crash is "aborted", not refused.)          *)
(***************************************************************************)
GoodbyeHeard ==
    \A p \in Caller :
        pc[p] = "failed" /\ call[p].kind = "user_bye"
            => IsClosed(seen[p].status) \/ IsClosed(cur[p].status)

(***************************************************************************)
(* A closed conversation is never reactivated (closed_statuses).           *)
(***************************************************************************)
ClosedIsFinal == [][IsClosed(row.status) => IsClosed(row'.status)]_row

(***************************************************************************)
(* Of two closings the one with the higher priority stands, in whichever   *)
(* order they reach the row (transition_to_with_priority).                 *)
(***************************************************************************)
PriorityRespected ==
    [][IsClosed(row.status) /\ row'.status # row.status
         => Outranks(row'.status, row.status)]_row
=============================================================================
