------------------------------- MODULE Channel -------------------------------
(***************************************************************************)
(* The WhatsApp channel: a webhook of Twilio becomes a task, its handler   *)
(* stores the message and submits the next task, and so on until the       *)
(* answer is sent.  Four types of task run through the one queue:          *)
(*                                                                         *)
(*   process_twilio_event -> transcribe_audio -> process_ai_response       *)
(*                                                -> send_whatsapp_message *)
(*                                                                         *)
(* The queue is used by its promises (TaskQueue), which SqliteQueue is     *)
(* shown to keep: what raises is handed out again, a worker that dies      *)
(* leaves its task behind.  get_or_create_conversation and the transition  *)
(* a message causes are one step each (Session and Conversation look       *)
(* inside).  The calls to identity (the profile name) and the tasks that   *)
(* compute embeddings leave this state alone.                              *)
(***************************************************************************)
EXTENDS ConversationStatus, FiniteSets, FiniteSetsExt, Sequences

CONSTANTS
    Sid,        \* messages of Twilio, by MessageSid
    Kinds,      \* "text", "audio", "goodbye", or "local" (a local_sender payload)
    Worker,     \* queue workers
    MaxRuns,    \* executions of one task
    Parts,      \* chunks of 1500 characters of an answer
    Targets,    \* statuses that other calls move the conversation to
    MaxMoves,   \* bound on these calls
    MaxFaults   \* bound on exceptions, refusals of Twilio and deaths of workers

ASSUME ChannelAssumption ==
    /\ Kinds \subseteq {"text", "audio", "goodbye", "local"}
    /\ {MaxRuns, Parts} \subseteq Nat \ {0}
    /\ Targets \subseteq Status
    /\ {MaxMoves, MaxFaults} \subseteq Nat

Type == {"event", "transcribe", "answer", "send"}

\* A task is submitted again only after a fault, or when Twilio delivers a
\* webhook twice: the copies of one task are bounded by the faults.
Task == [type: Type, sid: Sid, copy: 0 .. MaxFaults + 1]

VARIABLES
    kind,      \* what each message is
    convs,     \* the conversations of the pair of numbers, by started_at
    stored,    \* the row of each inbound message, unique by message_sid
    replies,   \* rows of the bot's messages
    received,  \* the chunks Twilio accepted, in order, for each message
    state, holder, runs,  \* the queue's
    at,        \* what the handler of each task does next
    loc,       \* its payload and local variables
    refused,   \* for each message, transitions refused since its conversation was closed
    moves, faults

channel == <<kind, convs, stored, replies, received>>
queue == <<state, holder, runs>>
locals == <<at, loc>>
vars == <<channel, queue, locals, moves, refused, faults>>

Queue == INSTANCE TaskQueue

\* The conversation of the task, the one looked up for the reply, the status it
\* was read with, the reply's row and the next chunk of it.
NoLocals == [conv |-> 0, via |-> 0, seen |-> "pending", reply |-> 0, part |-> 1]

NotStored == [conv |-> 0, handoff |-> FALSE]

TypeOK ==
    /\ kind \in [Sid -> Kinds]
    /\ convs \in Seq(Status)
    /\ stored \in [Sid -> [conv: 0 .. Len(convs), handoff: BOOLEAN]]
    /\ \A r \in DOMAIN replies :
          replies[r] \in [sid: Sid, conv: 1 .. Len(convs), via: 1 .. Len(convs), sent: BOOLEAN]
    /\ \A s \in Sid : \A i \in DOMAIN received[s] : received[s][i] \in 1 .. Parts
    /\ refused \in [Sid -> Nat]
    /\ \A t \in Task : state[t] = "taken" => Cardinality(holder[t]) <= 1
    /\ \A t \in Task : at[t] # "idle" <=> state[t] = "taken" /\ holder[t] # {}

Init ==
    /\ kind \in [Sid -> Kinds]
    /\ convs = <<>>
    /\ stored = [s \in Sid |-> NotStored]
    /\ replies = <<>>
    /\ received = [s \in Sid |-> <<>>]
    /\ Queue!Init
    /\ at = [t \in Task |-> "idle"]
    /\ loc = [t \in Task |-> NoLocals]
    /\ refused = [s \in Sid |-> 0]
    /\ moves = 0
    /\ faults = 0

-----------------------------------------------------------------------------
(***************************************************************************)
(* The queue, as the handlers use it.                                      *)
(***************************************************************************)
\* QueueService.enqueue: the first copy that was not submitted yet.
Enqueue(type, s, payload) ==
    LET n == Min({c \in 0 .. MaxFaults + 1 :
                    state[[type |-> type, sid |-> s, copy |-> c]] = "new"})
        t == [type |-> type, sid |-> s, copy |-> n]
    IN  /\ Queue!Submit(t)
        /\ loc' = [loc EXCEPT ![t] = payload]

Entry == [event |-> "resolve", transcribe |-> "transcribe",
          answer |-> "think", send |-> "send"]

Goto(t, l) == at' = [at EXCEPT ![t] = l]

\* A worker handles one task at a time, from the start.
Take(t, w) ==
    /\ \A u \in Task : holder[u] # {w}
    /\ Queue!Take(t, w)
    /\ Goto(t, Entry[t.type])
    /\ loc' = [loc EXCEPT ![t].part = 1]
    /\ UNCHANGED <<channel, moves, refused, faults>>

\* Mutant: what was handled stays in the queue.
Ack_Kept(t, w) ==
    /\ at[t] = "ack"
    /\ Queue!Release(t, w, IF runs[t] < MaxRuns THEN "waiting" ELSE "finished")
    /\ Goto(t, "idle")
    /\ UNCHANGED <<channel, loc, moves, refused, faults>>

\* The handler returned: its task is settled, with its payload and its locals.
Ack(t, w) ==
    /\ at[t] = "ack"
    /\ Queue!Release(t, w, "finished")
    /\ Goto(t, "idle")
    /\ loc' = [loc EXCEPT ![t] = NoLocals]
    /\ UNCHANGED <<channel, moves, refused, faults>>

Fault == faults < MaxFaults /\ faults' = faults + 1

\* The handler, or the ack, raised: the task waits for its next execution or
\* is buried.
HandBack(t, w) ==
    /\ Queue!Release(t, w, IF runs[t] < MaxRuns THEN "waiting" ELSE "buried")
    /\ at' = [at EXCEPT ![t] = "idle"]

\* The handlers of audio and of answers catch what is raised and return.  (An
\* exception of the agent itself is answered, see Respond.)
Swallows(type) == type \in {"transcribe", "answer"}

Raise(t, w) ==
    /\ at[t] # "idle" /\ holder[t] = {w}
    /\ Fault
    /\ IF Swallows(t.type) /\ at[t] # "ack"
       THEN Goto(t, "ack") /\ UNCHANGED queue
       ELSE HandBack(t, w)
    /\ UNCHANGED <<channel, loc, moves, refused>>

Die(t, w) ==
    /\ Queue!Abandon(t, w)
    /\ Fault
    /\ Goto(t, "idle")
    /\ UNCHANGED <<channel, loc, moves, refused>>
-----------------------------------------------------------------------------
(***************************************************************************)
(* process_twilio_event: TwilioWebhookService.process_webhook              *)
(***************************************************************************)
\* enqueue_webhook_event: nothing is looked up, the event is a task.
Accepted(s) == Enqueue("event", s, NoLocals)

\* Twilio delivers a webhook, perhaps twice; the endpoint only enqueues it.
Deliver(s) ==
    /\ state[[type |-> "event", sid |-> s, copy |-> 1]] = "new"
    /\ Accepted(s)
    /\ UNCHANGED <<channel, at, moves, refused, faults>>

\* No account has the number or the AccountSid, for what is wrong with them or
\* with the lookup.
NoAccount(t) == at[t] = "resolve" /\ Fault

\* resolve_owner_id raises, until the event is given up.
OwnerUnknown(t, w) ==
    /\ holder[t] = {w}
    /\ NoAccount(t)
    /\ HandBack(t, w)
    /\ UNCHANGED <<channel, loc, moves, refused>>

\* The owner of the number has no active plan: an inbound message is skipped.
Skip(t) ==
    /\ at[t] = "resolve"
    /\ kind[t.sid] # "local"
    /\ Goto(t, "ack")
    /\ UNCHANGED <<channel, queue, loc, moves, refused, faults>>

Active == {i \in DOMAIN convs : IsActive(convs[i])}

\* get_or_create_conversation
Opened == IF Active = {} THEN Append(convs, "pending") ELSE convs
Found == IF Active = {} THEN Len(convs) + 1 ELSE Max(Active)

\* An inbound message is stored and answered; a local_sender payload is sent
\* first and stored when Twilio has accepted it.
Flow(s) == IF kind[s] = "local" THEN "send" ELSE "store"

Open(t) ==
    /\ at[t] = "resolve"
    /\ convs' = Opened
    /\ loc' = [loc EXCEPT ![t].conv = Found, ![t].seen = Opened[Found]]
    /\ Goto(t, Flow(t.sid))
    /\ UNCHANGED <<kind, stored, replies, received, queue, moves, refused, faults>>

\* is_handoff, from the object that was looked up.
Handoff(t) == loc[t].seen = "human_handoff"

(***************************************************************************)
(* _handle_transition_with_retry on the row of conversation i, which other *)
(* calls may have moved since it was looked up.  The transition is written *)
(* (Postgres asks nobody, Supabase if the table of transitions allows it), *)
(* or it is refused: Supabase reads the row and raises a ValueError, the   *)
(* lifecycle raises the same one for the row it reloads after a conflict   *)
(* on Postgres, and a closed conversation does not become active beside    *)
(* another active one (the unique index).  Only a ConcurrencyError is      *)
(* caught: a refusal leaves add_message, with the message in its table.    *)
(***************************************************************************)
Moved(i, to) ==
    /\ IsActive(to) => IsActive(convs[i]) \/ Active = {}
    /\ convs' = [convs EXCEPT ![i] = to]

Refused(i, to) ==
    \/ ~IsValidTransition(convs[i], to)
    \/ IsActive(to) /\ ~IsActive(convs[i]) /\ Active # {}

CountRefusal(s) == refused' = [refused EXCEPT ![s] = @ + 1]

\* A message with this MessageSid in its metadata.
AlreadyStored(s) == stored[s].conv # 0

\* idx_messages_metadata_message_sid: the DuplicateError of a second row is
\* answered with "Already processed", and nothing follows.
Duplicate(t) == Goto(t, "ack") /\ UNCHANGED stored

\* persist_inbound_message
Store(t) ==
    /\ at[t] = "store"
    /\ IF AlreadyStored(t.sid)
       THEN Duplicate(t)
       ELSE /\ stored' = [stored EXCEPT ![t.sid] =
                            [conv |-> loc[t].conv, handoff |-> Handoff(t)]]
            /\ Goto(t, "transit")
    /\ UNCHANGED <<kind, convs, replies, received, queue, loc, moves, refused, faults>>

\* add_message ends the conversation on a goodbye.  An inbound message asks for
\* no other transition: what the lookup finds is never idle_timeout.
Farewell(t) ==
    IF kind[t.sid] = "goodbye" THEN Moved(loc[t].conv, "user_closed") ELSE UNCHANGED convs

\* Mutant: the handoff is forgotten.
Transit_Always(t) ==
    /\ at[t] = "transit"
    /\ Farewell(t)
    /\ Goto(t, "chain")
    /\ UNCHANGED <<kind, stored, replies, received, queue, loc, moves, refused, faults>>

\* Mutant: what ends a conversation is not answered.
Transit_GoodbyeUnanswered(t) ==
    /\ at[t] = "transit"
    /\ Farewell(t)
    /\ Goto(t, IF Handoff(t) \/ kind[t.sid] = "goodbye" THEN "ack" ELSE "chain")
    /\ UNCHANGED <<kind, stored, replies, received, queue, loc, moves, refused, faults>>

\* The next task is submitted, unless an agent had the conversation when it was
\* looked up.
Transit(t) ==
    /\ at[t] = "transit"
    /\ Farewell(t)
    /\ Goto(t, IF Handoff(t) THEN "ack" ELSE "chain")
    /\ UNCHANGED <<kind, stored, replies, received, queue, loc, moves, refused, faults>>

\* The handler raises after the message is stored: its next execution finds a
\* duplicate.
TransitRefused(t, w) ==
    /\ at[t] = "transit" /\ holder[t] = {w}
    /\ kind[t.sid] = "goodbye" /\ Refused(loc[t].conv, "user_closed")
    /\ HandBack(t, w)
    /\ CountRefusal(t.sid)
    /\ UNCHANGED <<channel, loc, moves, faults>>

\* determine_message_type
NeedsTranscription(s) == kind[s] = "audio"

SubmitTranscription(s, conv) == Enqueue("transcribe", s, [NoLocals EXCEPT !.conv = conv])
SubmitAnswer(s, conv) == Enqueue("answer", s, [NoLocals EXCEPT !.conv = conv])

Chain(t) ==
    /\ at[t] = "chain"
    /\ IF NeedsTranscription(t.sid)
       THEN SubmitTranscription(t.sid, loc[t].conv)
       ELSE SubmitAnswer(t.sid, loc[t].conv)
    /\ Goto(t, "ack")
    /\ UNCHANGED <<channel, moves, refused, faults>>

\* The bot's first message is the acceptance of a conversation that was pending
\* when it was looked up.
Acceptance(t, i) ==
    IF loc[t].seen = "pending" THEN Moved(i, "progress") ELSE UNCHANGED convs

AcceptanceRefused(t, i) == loc[t].seen = "pending" /\ Refused(i, "progress")

\* A local_sender payload is sent first and stored afterwards.
StoreOutbound(t) ==
    replies' = Append(replies, [sid |-> t.sid, conv |-> loc[t].conv, via |-> loc[t].conv,
                                sent |-> TRUE])

PersistOutbound(t) ==
    /\ at[t] = "persist"
    /\ StoreOutbound(t)
    /\ Acceptance(t, loc[t].conv)
    /\ Goto(t, "ack")
    /\ UNCHANGED <<kind, stored, received, queue, loc, moves, refused, faults>>

\* The handler raises with the row stored: its next execution sends once more.
PersistRefused(t, w) ==
    /\ at[t] = "persist" /\ holder[t] = {w}
    /\ AcceptanceRefused(t, loc[t].conv)
    /\ StoreOutbound(t)
    /\ HandBack(t, w)
    /\ CountRefusal(t.sid)
    /\ UNCHANGED <<kind, convs, stored, received, loc, moves, faults>>

-----------------------------------------------------------------------------
(***************************************************************************)
(* transcribe_audio and process_ai_response                                *)
(***************************************************************************)
\* No media, no service, no text: the handler returns and nothing follows.
NotTranscribed(t) ==
    /\ at[t] = "transcribe"
    /\ Fault
    /\ Goto(t, "ack")
    /\ UNCHANGED <<channel, queue, loc, moves, refused>>

\* The body is replaced by the transcription, the answer is the next task.
Transcribe(t) ==
    /\ at[t] = "transcribe"
    /\ SubmitAnswer(t.sid, loc[t].conv)
    /\ Goto(t, "ack")
    /\ UNCHANGED <<channel, moves, refused, faults>>

\* The agent answers, or is silent, or raises, or the user is not known: there
\* is a text for each of these.  send_and_persist_response then looks the
\* conversation up once more; the reply keeps the conversation of its task.
Respond(t) ==
    /\ at[t] = "think"
    /\ convs' = Opened
    /\ loc' = [loc EXCEPT ![t].via = Found, ![t].seen = Opened[Found]]
    /\ Goto(t, "save")
    /\ UNCHANGED <<kind, stored, replies, received, queue, moves, refused, faults>>

SaveReply(t) ==
    /\ at[t] = "save"
    /\ replies' = Append(replies, [sid |-> t.sid, conv |-> loc[t].conv,
                                   via |-> loc[t].via, sent |-> FALSE])
    /\ loc' = [loc EXCEPT ![t].reply = Len(replies) + 1]
    /\ Goto(t, "accept")
    /\ UNCHANGED <<kind, convs, stored, received, queue, moves, refused, faults>>

Accept(t) ==
    /\ at[t] = "accept"
    /\ Acceptance(t, loc[t].via)
    /\ Goto(t, "submit")
    /\ UNCHANGED <<kind, stored, replies, received, queue, loc, moves, refused, faults>>

\* send_and_persist_response swallows the refusal: the reply is stored, and no
\* task sends it.
AcceptRefused(t) ==
    /\ at[t] = "accept"
    /\ AcceptanceRefused(t, loc[t].via)
    /\ Goto(t, "ack")
    /\ CountRefusal(t.sid)
    /\ UNCHANGED <<channel, queue, loc, moves, faults>>

SubmitSend(t) ==
    /\ at[t] = "submit"
    /\ Enqueue("send", t.sid, [NoLocals EXCEPT !.reply = loc[t].reply])
    /\ Goto(t, "ack")
    /\ UNCHANGED <<channel, moves, refused, faults>>

-----------------------------------------------------------------------------
(***************************************************************************)
(* send_whatsapp_message: OutboundWorker and TwilioService.send_message    *)
(***************************************************************************)
\* Mutant: only the first chunk is awaited.
SendPart_First(t) ==
    /\ at[t] = "send"
    /\ received' = [received EXCEPT ![t.sid] = Append(@, loc[t].part)]
    /\ loc' = [loc EXCEPT ![t].part = 1]
    /\ Goto(t, IF t.type = "event" THEN "persist" ELSE "record")
    /\ UNCHANGED <<kind, convs, stored, replies, queue, moves, refused, faults>>

\* Mutant: one chunk too many.
SendPart_Overrun(t) ==
    /\ at[t] = "send"
    /\ received' = [received EXCEPT ![t.sid] = Append(@, loc[t].part)]
    /\ IF loc[t].part <= Parts
       THEN /\ loc' = [loc EXCEPT ![t].part = @ + 1]
            /\ UNCHANGED at
       ELSE /\ loc' = [loc EXCEPT ![t].part = 1]
            /\ Goto(t, IF t.type = "event" THEN "persist" ELSE "record")
    /\ UNCHANGED <<kind, convs, stored, replies, queue, moves, refused, faults>>

\* The chunks go out one by one; a new execution starts with the first.
SendPart(t) ==
    /\ at[t] = "send"
    /\ received' = [received EXCEPT ![t.sid] = Append(@, loc[t].part)]
    /\ IF loc[t].part < Parts
       THEN /\ loc' = [loc EXCEPT ![t].part = @ + 1]
            /\ UNCHANGED at
       ELSE /\ loc' = [loc EXCEPT ![t].part = 1]
            /\ Goto(t, IF t.type = "event" THEN "persist" ELSE "record")
    /\ UNCHANGED <<kind, convs, stored, replies, queue, moves, refused, faults>>

\* TwilioRestException, or no client: None, and the task is done.
TwilioRefuses(t) ==
    /\ at[t] = "send"
    /\ Fault
    /\ Goto(t, "ack")
    /\ UNCHANGED <<channel, queue, loc, moves, refused>>

\* delivery_status becomes "sent".
Record(t) ==
    /\ at[t] = "record"
    /\ replies' = [replies EXCEPT ![loc[t].reply].sent = TRUE]
    /\ Goto(t, "ack")
    /\ UNCHANGED <<kind, convs, stored, received, queue, loc, moves, refused, faults>>

-----------------------------------------------------------------------------
\* Other calls: an agent takes over or hands back, a conversation is ended.
OtherCall(to) ==
    /\ moves < MaxMoves
    /\ moves' = moves + 1
    /\ \E i \in Active :
          /\ to \in ValidTransitions[convs[i]]
          /\ convs' = [convs EXCEPT ![i] = to]
    /\ UNCHANGED <<kind, stored, replies, received, queue, locals, refused, faults>>

Step(t) ==
    \/ Skip(t)
    \/ Open(t)
    \/ Store(t)
    \/ Transit(t)
    \/ Chain(t)
    \/ PersistOutbound(t)
    \/ Transcribe(t)
    \/ Respond(t)
    \/ SaveReply(t)
    \/ Accept(t)
    \/ AcceptRefused(t)
    \/ SubmitSend(t)
    \/ SendPart(t)
    \/ Record(t)

\* What a worker does as long as nothing fails.
Work(w) == \E t \in Task :
    \/ Take(t, w)
    \/ holder[t] = {w} /\ Step(t)
    \/ TransitRefused(t, w)
    \/ PersistRefused(t, w)
    \/ Ack(t, w)

Next ==
    \/ \E w \in Worker : Work(w)
    \/ \E t \in Task, w \in Worker : Raise(t, w) \/ OwnerUnknown(t, w) \/ Die(t, w)
    \/ \E t \in Task : NotTranscribed(t) \/ TwilioRefuses(t)
    \/ \E s \in Sid : Deliver(s)
    \/ \E to \in Targets : OtherCall(to)

\* The consumer loops of the workers run on; only Twilio and agents decide
\* freely what they do.
Spec == Init /\ [][Next]_vars /\ \A w \in Worker : WF_vars(Work(w))
-----------------------------------------------------------------------------
(***************************************************************************)
(* Properties                                                              *)
(***************************************************************************)
Submitted(type, s) == {t \in Task : t.type = type /\ t.sid = s /\ state[t] # "new"}

Copies(s, p) == Cardinality({i \in DOMAIN received[s] : received[s][i] = p})

RepliesTo(s) == {r \in DOMAIN replies : replies[r].sid = s}

(***************************************************************************)
(* A user sees an answer twice only if something failed: every further     *)
(* copy of a chunk costs an exception or a death, however often Twilio     *)
(* delivers the webhook and whatever the handlers in flight do.  (A local  *)
(* payload is sent before it is stored: again for every delivery, and for  *)
(* every acceptance the ended conversation refuses.)                       *)
(***************************************************************************)
CopiesNeedFaults ==
    \A s \in Sid, p \in 1 .. Parts :
        Copies(s, p) <= faults + IF kind[s] = "local"
                                 THEN Cardinality(Submitted("event", s)) + refused[s]
                                 ELSE 1

(***************************************************************************)
(* A message is answered only on behalf of the execution that stored it,   *)
(* and only if that one found the conversation without an agent: the       *)
(* other deliveries and executions of the same webhook add nothing.        *)
(***************************************************************************)
AnsweredForTheRow ==
    \A s \in Sid : kind[s] # "local" =>
        /\ RepliesTo(s) # {} => stored[s].conv # 0 /\ ~stored[s].handoff
        /\ \A r \in RepliesTo(s) : replies[r].conv = stored[s].conv

(***************************************************************************)
(* delivery_status tells the truth: for every reply marked as sent, Twilio *)
(* has accepted the whole text, once more for every marked reply.          *)
(***************************************************************************)
SentIsDelivered ==
    \A s \in Sid :
        Cardinality({r \in RepliesTo(s) : replies[r].sent}) <= Copies(s, Parts)

(***************************************************************************)
(* A stored message is answered, unless a step failed or a transition of   *)
(* its conversation was refused: duplicated webhooks, other messages and   *)
(* handoffs after the lookup do not break the chain of tasks.  The end of  *)
(* the conversation does, at two places: when another call ends it before  *)
(* the goodbye is written (TransitRefused), or between the lookup for the  *)
(* reply and the bot's acceptance (AcceptRefused).                         *)
(***************************************************************************)
Due(s) == stored[s].conv # 0 /\ ~stored[s].handoff

Answered(s) == Copies(s, Parts) > 0

StoredIsAnswered == \A s \in Sid : Due(s) ~> (Answered(s) \/ faults > 0 \/ refused[s] > 0)

(***************************************************************************)
(* As a reader of the handlers would have it: only a failure leaves a      *)
(* stored message without its answer.  It does not hold (bad_silence.cfg): *)
(* the end of the conversation is not a failure, and nobody answers.       *)
(***************************************************************************)
OnlyFailuresSilence == \A s \in Sid : Due(s) ~> (Answered(s) \/ faults > 0)
=============================================================================
