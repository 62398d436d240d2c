------------------------------- MODULE Session -------------------------------
(***************************************************************************)
(* get_or_create_conversation: how the inbound messages of one pair of     *)
(* phone numbers find their conversation, or open a new one linked to the  *)
(* last.  Every message is handled by a queue worker, which executes the   *)
(* call again after an error; several messages may be in flight.           *)
(*                                                                         *)
(* ConversationService.get_or_create_conversation, ConversationFinder and  *)
(* the unique index on active sessions are modelled step by step.  All     *)
(* other calls on a conversation are one action here, a status that moves  *)
(* along the table of transitions; module Conversation looks inside them.  *)
(***************************************************************************)
EXTENDS ConversationStatus, Sequences, FiniteSets

CONSTANTS
    Message,      \* inbound messages, one get_or_create_conversation each
    Backend,      \* DATABASE_BACKEND: "supabase" or "postgres"
    Form,         \* how the numbers may be written: "prefixed" by "whatsapp:" or "plain"
    Targets,      \* the statuses other calls move conversations to
    MaxRivals,    \* bound on the number of other calls
    Serial,       \* TRUE: the only worker handles one message at a time
    MaxAttempts   \* executions of a task before the queue gives it up

ASSUME SessionAssumption ==
    /\ Backend \in {"supabase", "postgres"}
    /\ Form \subseteq {"prefixed", "plain"}
    /\ Targets \subseteq Status
    /\ MaxRivals \in Nat
    /\ Serial \in BOOLEAN
    /\ MaxAttempts \in Nat \ {0}

VARIABLES
    convs,     \* the pair's rows of the conversations table, by started_at
    form,      \* how each message writes the numbers
    pc,        \* what each message's handler does next
    held,      \* the conversation a handler found (0: none), or ended up with
    object,    \* the Conversation object of that conversation, as it was read
    version,   \* the version update_status read
    attempts,  \* failed executions of each message's task
    rivals     \* other calls made so far: the status each moved to, or "extended"

vars == <<convs, form, pc, held, object, version, attempts, rivals>>

NoObject == [status |-> "none", expired |-> FALSE]

Object == [status: Status, expired: BOOLEAN]

\* `prev` and `prevStatus` are previous_conversation_id and previous_status.
Conv == [form: Form, status: Status, version: Nat, expired: BOOLEAN,
         prev: Nat, prevStatus: Status \cup {"none"}]

PC == {"find", "expire", "write", "last", "create", "served", "dead"}

TypeOK ==
    /\ convs \in Seq(Conv)
    /\ form \in [Message -> Form]
    /\ pc \in [Message -> PC]
    /\ held \in [Message -> 0 .. Len(convs)]
    /\ object \in [Message -> Object \cup {NoObject}]
    /\ version \in [Message -> Nat]
    /\ attempts \in [Message -> 0 .. MaxAttempts - 1]
    /\ rivals \in Seq(Status \cup {"extended"})
    /\ Len(rivals) <= MaxRivals
    /\ \A m \in Message :
          pc[m] \in {"expire", "write"} => held[m] # 0 /\ object[m] # NoObject

First == {[form |-> f, status |-> s, version |-> 1, expired |-> e,
           prev |-> 0, prevStatus |-> "none"] :
             f \in Form, s \in Status \ {"human_handoff"}, e \in BOOLEAN}

\* The pair's first messages, or messages that follow one conversation.
Init ==
    /\ convs \in {<<>>} \cup {<<c>> : c \in First}
    /\ form \in [Message -> Form]
    /\ pc = [m \in Message |-> "find"]
    /\ held = [m \in Message |-> 0]
    /\ object = [m \in Message |-> NoObject]
    /\ version = [m \in Message |-> 0]
    /\ attempts = [m \in Message |-> 0]
    /\ rivals = <<>>

Goto(m, l) == pc' = [pc EXCEPT ![m] = l]

-----------------------------------------------------------------------------
(***************************************************************************)
(* The column session_key is generated from the numbers as they were       *)
(* stored, while the finder prefixes both numbers before it looks them up. *)
(***************************************************************************)
SessionKey(f) == IF f = "plain" THEN "prefixed" ELSE f

ActiveWith(f) == {i \in DOMAIN convs : convs[i].form = f /\ IsActive(convs[i].status)}

Newest(S) == CHOOSE i \in S : \A j \in S : j <= i

\* idx_conversations_session_key_active admits one active row per session.
Admits(f, i) == ActiveWith(f) \subseteq {i}

\* One worker does not pick up a message while it handles another.
MayRun(m) == Serial => \A n \in Message \ {m} : pc[n] \in {"find", "served", "dead"}

\* Mutant: the lookup leaves out what has expired, and nobody expires it.
FindActive_Unexpired(m) ==
    /\ pc[m] = "find"
    /\ MayRun(m)
    /\ LET found == {i \in ActiveWith(SessionKey(form[m])) : ~convs[i].expired}
       IN  IF found = {}
           THEN /\ Goto(m, "last")
                /\ UNCHANGED <<held, object>>
           ELSE /\ held' = [held EXCEPT ![m] = Newest(found)]
                /\ Goto(m, "served")
                /\ UNCHANGED object
    /\ UNCHANGED <<convs, form, version, attempts, rivals>>

\* Find an active conversation: use it, unless it has expired.
FindActive(m) ==
    /\ pc[m] = "find"
    /\ MayRun(m)
    /\ IF ActiveWith(SessionKey(form[m])) = {}
       THEN /\ Goto(m, "last")
            /\ UNCHANGED <<held, object>>
       ELSE LET i == Newest(ActiveWith(SessionKey(form[m])))
            IN  /\ held' = [held EXCEPT ![m] = i]
                /\ object' = [object EXCEPT ![m] = [status  |-> convs[i].status,
                                                    expired |-> convs[i].expired]]
                /\ Goto(m, IF convs[i].expired THEN "expire" ELSE "served")
    /\ UNCHANGED <<convs, form, version, attempts, rivals>>

\* The exception ends the task; the queue hands it out again or gives it up.
Fail(m) ==
    IF attempts[m] + 1 < MaxAttempts
    THEN /\ attempts' = [attempts EXCEPT ![m] = @ + 1]
         /\ Goto(m, "find")
    ELSE /\ Goto(m, "dead")
         /\ UNCHANGED attempts

\* transition_to(EXPIRED) refuses the conversation: ValueError.
RefuseToExpire(m) ==
    /\ pc[m] = "expire"
    /\ ~IsValidTransition(object[m].status, "expired")
    /\ Fail(m)
    /\ UNCHANGED <<convs, form, held, object, version, rivals>>

\* update_status reads the row; the Supabase repository validates it again.
ReadToExpire(m) ==
    /\ pc[m] = "expire"
    /\ IsValidTransition(object[m].status, "expired")
    /\ IF Backend = "supabase" /\ ~RepoAccepts(convs[held[m]].status, "expired")
       THEN /\ Fail(m)
            /\ UNCHANGED version
       ELSE /\ version' = [version EXCEPT ![m] = convs[held[m]].version]
            /\ Goto(m, "write")
            /\ UNCHANGED attempts
    /\ UNCHANGED <<convs, form, held, object, rivals>>

NextVersion(v) == IF Backend = "postgres" THEN v + 1 ELSE v

WriteExpired(m) ==
    /\ pc[m] = "write"
    /\ IF convs[held[m]].version = version[m]
       THEN /\ convs' = [convs EXCEPT ![held[m]].status = "expired",
                                      ![held[m]].version = NextVersion(@)]
            /\ Goto(m, "create")
            /\ UNCHANGED attempts
       ELSE /\ Fail(m)                     \* ConcurrencyError
            /\ UNCHANGED convs
    /\ UNCHANGED <<form, held, object, version, rivals>>

Sessions(f) == {i \in DOMAIN convs : convs[i].form = f}

\* Mutant: the first of the history is taken, be there one or not.
FindLast_Unchecked(m) ==
    /\ pc[m] = "last"
    /\ held' = [held EXCEPT ![m] = Len(convs) + 1]
    /\ Goto(m, "create")
    /\ UNCHANGED <<convs, form, object, version, attempts, rivals>>

\* No active conversation: look for the last one, to link the new one to it.
FindLast(m) ==
    /\ pc[m] = "last"
    /\ IF Sessions(SessionKey(form[m])) = {}
       THEN /\ held' = [held EXCEPT ![m] = 0]
            /\ object' = [object EXCEPT ![m] = NoObject]
       ELSE LET i == Newest(Sessions(SessionKey(form[m])))
            IN  /\ held' = [held EXCEPT ![m] = i]
                /\ object' = [object EXCEPT ![m] = [status  |-> convs[i].status,
                                                    expired |-> convs[i].expired]]
    /\ Goto(m, "create")
    /\ UNCHANGED <<convs, form, version, attempts, rivals>>

\* create_new: the link is made from the object in hand.
NewConv(m) ==
    [form |-> form[m], status |-> "pending", version |-> 1, expired |-> FALSE,
     prev |-> held[m],
     prevStatus |-> IF held[m] = 0 THEN "none" ELSE object[m].status]

\* Mutant: the link is looked up when the new row is already there.
Create_LinkAfter(m) ==
    /\ pc[m] = "create"
    /\ Admits(form[m], 0)
    /\ convs' = Append(convs, [NewConv(m) EXCEPT !.prev = Len(convs) + 1])
    /\ held' = [held EXCEPT ![m] = Len(convs) + 1]
    /\ Goto(m, "served")
    /\ UNCHANGED <<form, object, version, attempts, rivals>>

Create(m) ==
    /\ pc[m] = "create"
    /\ Admits(form[m], 0)
    /\ convs' = Append(convs, NewConv(m))
    /\ held' = [held EXCEPT ![m] = Len(convs) + 1]
    /\ Goto(m, "served")
    /\ UNCHANGED <<form, object, version, attempts, rivals>>

\* The unique index refuses the insert: somebody else opened the session.
CreateRefused(m) ==
    /\ pc[m] = "create"
    /\ ~Admits(form[m], 0)
    /\ Fail(m)
    /\ UNCHANGED <<convs, form, held, object, version, rivals>>

-----------------------------------------------------------------------------
\* Any other call on conversation i: a transition of its status.
OtherCall(i, to) ==
    /\ Len(rivals) < MaxRivals
    /\ rivals' = Append(rivals, to)
    /\ to \in ValidTransitions[convs[i].status]
    /\ IsActive(to) => Admits(convs[i].form, i)
    /\ convs' = [convs EXCEPT ![i].status = to, ![i].version = NextVersion(@)]
    /\ UNCHANGED <<form, pc, held, object, version, attempts>>

\* extend_expiration
Extend(i) ==
    /\ Len(rivals) < MaxRivals
    /\ rivals' = Append(rivals, "extended")
    /\ convs' = [convs EXCEPT ![i].expired = FALSE, ![i].version = @ + 1]
    /\ UNCHANGED <<form, pc, held, object, version, attempts>>

\* The clock passes expires_at; of a closed conversation nobody looks at it.
ExpiryPasses(i) ==
    /\ ~convs[i].expired
    /\ ~IsClosed(convs[i].status)
    /\ convs' = [convs EXCEPT ![i].expired = TRUE]
    /\ UNCHANGED <<form, pc, held, object, version, attempts, rivals>>

Step(m) ==
    \/ FindActive(m)
    \/ RefuseToExpire(m)
    \/ ReadToExpire(m)
    \/ WriteExpired(m)
    \/ FindLast(m)
    \/ Create(m)
    \/ CreateRefused(m)

Next ==
    \/ \E m \in Message : Step(m)
    \/ \E i \in DOMAIN convs :
          \/ \E to \in Targets : OtherCall(i, to)
          \/ Extend(i)
          \/ ExpiryPasses(i)

Spec == Init /\ [][Next]_vars
-----------------------------------------------------------------------------
(***************************************************************************)
(* Properties                                                              *)
(***************************************************************************)

(***************************************************************************)
(* However the handlers of concurrent messages interleave, a conversation  *)
(* is opened only as the successor of one that is over or paused: the one  *)
(* it links to, read some steps earlier, is not active at that moment.     *)
(***************************************************************************)
LinksToEnded ==
    [][Len(convs') > Len(convs) =>
         LET p == convs'[Len(convs')].prev
         IN  p # 0 => ~IsActive(convs'[p].status)]_convs

(***************************************************************************)
(* The queue's executions are enough for a few messages in flight: what    *)
(* they do to each other (an insert refused by the unique index, a lost    *)
(* race for the expiry) can cost a message an execution, but none is given *)
(* up without a conversation, unless an agent took one over: that one      *)
(* cannot be expired any more, and each execution that meets it out of     *)
(* time raises.  As many messages and calls as there are executions to     *)
(* disturb would be too many: three messages are on Postgres, where each   *)
(* disturbs another one twice (GivenUpOnlyWhenOutnumbered has the bound).  *)
(***************************************************************************)
GivenUpOnlyToAgents ==
    (\E m \in Message : pc[m] = "dead") =>
        \E i \in DOMAIN rivals : rivals[i] = "human_handoff"

(***************************************************************************)
(* "Handles expiration logic if an 'active' conversation is actually       *)
(* expired": no message is given up without a conversation.                *)
(***************************************************************************)
NeverGivenUp == \A m \in Message : pc[m] # "dead"

(***************************************************************************)
(* The link records how the previous conversation ended: previous_status   *)
(* is never the status of an active conversation.                          *)
(***************************************************************************)
LinkTellsTheEnd == \A i \in DOMAIN convs : ~IsActive(convs[i].prevStatus)
=============================================================================
