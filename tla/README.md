# Formal models of the WhatsApp/Twilio assistant

This directory holds TLA+ models of the parts of the system where several
callers, workers or messages meet, the TLC configurations that check them on
small instances, and proofs that hold for every size. All paths below are
relative to the repository's Python package root `src/` (for example
`modules/conversation/...`), unless they start with `migrations/` or `docs/`.

Run a check with `tlc -config <run>.cfg <module>` and a proof with
`tlapm <module>.tla`. `PROJECT.json` lists the runs, the lines of code behind
every definition, the hazards, the findings and the theorems.

## 1. The system

A user writes on WhatsApp. Twilio calls a webhook, the webhook enqueues a task,
a queue worker runs the task: it finds or opens the conversation of the two
phone numbers, stores the message and enqueues the next task; that one asks an
AI agent for an answer, stores it and enqueues the task that sends it. A
scheduler enqueues sweeps that expire and pause conversations. Agents and API
clients close, hand over, transfer and extend conversations. Billing counts the
use of features and follows Stripe's events; identity knows organizations and
users; the finance agent writes and queries tables of expenses.

| Component | State | Operations | What is hard | What makes it correct |
|---|---|---|---|---|
| Status machine (`modules/conversation/enums`, `components/conversation_lifecycle.py`) | none | table of transitions, closing priorities | the table exists twice (lifecycle, Supabase repository) | the copies agree; closed is final; priorities order closings |
| Calls on a conversation (`services/conversation_service.py`, lifecycle, two repositories) | a row: status, version, expiry, context; its history | add_message, close, close with priority, handoff, release, extend, transfer, escalate, assign, sweeps | read, validate, read again, write and audit are separate statements; two kinds of optimistic locking | no stale write wins; the history tells the truth; nothing recorded is lost |
| Finding and opening (`conversation_finder.py`, unique index of `migrations/003_create_tables.sql`) | the rows of a pair of numbers | get_or_create_conversation | check-then-insert, the index as last resort, retries by the queue | a message ends up in a conversation; links point to the past |
| Task queue (`core/queue`): SQLite, SQS, BullMQ backends and the consumer loop | rows, messages or jobs, attempts | enqueue, dequeue, ack, nack, fail | workers that stop, statements that raise, redelivery, timeouts under a busy worker | exclusive hand-out, bounded retries, nothing lost, nothing waits for ever |
| Scheduler (`modules/conversation/workers`) | none | enqueue the sweeps, run a batch | batches of objects that age while they are worked on, a LIMIT without an order | candidates are reached, stale ones are left alone |
| Twilio inbound (`modules/channels/twilio/services`) | messages, replies, the position in the chain of tasks | webhook, process, transcribe, answer | partial success before a retry, duplicates by MessageSid, a handoff in between | each stored message answered, unless a step fails or is refused, and once |
| Twilio outbound (`workers/outbound_worker.py`, `twilio_service.py`) | chunks at Twilio, delivery status | send in chunks, update | send and record are not atomic | what is recorded as sent was sent; copies cost a failure |
| Feature usage (`modules/billing`) | usage counters | check, increment, decrement, upsert | read-modify-write, check-then-increment | the quota is exceeded by a bounded amount |
| Subscriptions, plans, Stripe events | subscriptions, plans, versions, offers, catalog | checkout, upgrade, cancel, webhook events, seed | events late, twice, reordered; several inserts without a transaction | a checkout settles; a seed completes what it finds half done |
| Identity | organizations, users | register, create user, sync login | check-then-insert and find-then-act with few unique columns | a call acts for the row of its login; a phone is shared for known reasons only |
| AI memory (`modules/ai/memory`) | a Redis list before a table | get, add | read-through fill against appends, expiry, a cache each process disables on its own | the last answer is remembered; what is remembered was sent |
| AI agents (`modules/ai/engines/lchain/core`) | transcript of a run | route, hand over, call a tool, report | depends on the model's answers | the loop ends; tools are bounded; what was said is answered; no silence without a failure |
| Finance tools (`feature/finance`) | tables expense and revenue | add, query | rounding twice, four styles of conditions, two backends | the amount told is the one stored, within a cent; the rows told are those asked for, where the question is read in full |
| Configuration, DI, logging, sessions | wiring | - | - | - |

How they interact: the webhook and the scheduler talk to workers through the
queue only; workers, API and sweeps share the database rows and nothing else.
There is no transaction across two repository calls: every `await` on a
repository is a point where any other actor may move, and this is the grain of
the models.

The models are composed by contract. `Channel` uses the queue by instantiating
`TaskQueue`, the abstract queue that `SqliteQueue` is shown to implement; what
`Channel` takes as one step (find or open a conversation, move its status) is
looked into by `Session` and `Conversation`; `Sweep` takes one batch where
`Conversation` takes one candidate; `Billing` extends `Plans`, and their
callers run against each other.

## 2. Modules

| Module | What it models |
|---|---|
| `ConversationStatus` | statuses, `VALID_TRANSITIONS`, the copy in the Supabase repository, priorities; constant level |
| `Lifecycle` | abstract: the status machine as the documents draw it |
| `AuditTrail` | abstract: a status and the history owed to it |
| `Conversation` | one row, any number of concurrent calls, both repositories |
| `Session` | the rows of one pair of numbers, the handlers of several messages |
| `Sweep` | the scheduler, its queue, batches of candidates |
| `TaskQueue` | abstract: what a queue promises its users |
| `AtLeastOnce` | abstract: the weaker promise of the hosted queues |
| `SqliteQueue` | the SQLite backend with the consumer loop |
| `CloudQueue` | the SQS backend with the consumer loop, the BullMQ backend, and the two services |
| `Channel` | the chain of tasks from the webhook to the answer |
| `Plans` | catalog, plans, versions, offers, seed scripts, administrators |
| `Billing` | one tenant: subscriptions, Stripe events, usage under a quota; extends `Plans` |
| `Agent` | overlapping turns: routing agent, task agent, memory |
| `Finance` | adding amounts, parsing and running queries |
| `Identity` | registrations, creation of users, first logins |
| `MC*` | instances for TLC |
| `ConversationProofs`, `SessionProofs`, `QueueProofs`, `CloudProofs`, `ChannelProofs`, `BillingProofs`, `AgentProofs`, `IdentityProofs` | theorems, each about the module of its name (`QueueProofs` about `SqliteQueue`); `QueueProofs` also about `Sweep`, the task its workers execute, and `AgentProofs` about `Finance`, the tools its turns execute |

### Conversation

A *caller* is one call of the service. `Load` is the call's first read of the
row (for a sweep: the query that selects it, `LoadCandidate`); from there on the
caller works on its object `seen`, which ages. `obj` is the object the call was
given at its start: `add_message` decides on it and writes the context from it
even after a retry has reloaded the conversation.

A status change is `ReadCurrent` (the `find_by_id` inside `update_status`,
preceded by the validation of the object in hand and, with Supabase, followed
by the validation of the row), `WriteStatus` or `StatusConflict` (the UPDATE
filtered by version), `LogHistory` (the insert into
`conversation_state_history`, which may fail unnoticed). With Postgres the
write moves the version, with Supabase it does not (`VersionAfterStatus`).
`add_message` goes on with `UpdateContext` (no version check) and
`UpdateTimestamp`. Extend, transfer, escalate and assign are one statement
(`VersionedUpdate` or `UpdateConflict`). Calls of `add_message` and transfer
retry twice after a conflict, through `Reload`. `Abort` ends a call at any
point: a statement that raises, or the end of the process.

Abstractions: times are two flags of the row, `expired` and `idle`, set by
`ExpiryPasses` and `IdleThresholdPasses` and cleared by the calls that renew
them; the context is the set of transfers recorded in it and the set of its
other keys. Messages are stored before the modelled part of a call begins.

### Session

One handler per message, with the steps of `get_or_create_conversation`:
`FindActive`; for an expired conversation `RefuseToExpire` or `ReadToExpire`
and `WriteExpired`; otherwise `FindLast`; then `Create`, or `CreateRefused` by
the unique index on active sessions. An exception goes to `Fail`: the queue
executes the task again, four times in all. Everything other calls may do is
`OtherCall` (a valid transition), `Extend` and `ExpiryPasses`; `Conversation`
looks inside those calls. `form` is the spelling of the numbers: the lookup key
is normalised, the generated column `session_key` is not.

### SqliteQueue

`Dequeue` is one action because the code runs the select and the update in one
exclusive transaction. Handler, ack, nack and fail are separate steps of a
worker, with `AckRaises` and `GivesUp` for statements that raise, and `Stop` and
`Restart` for the process. `runs` is a history variable: how often a task was
handed to a handler.

### CloudQueue

`job` is the state of a task in the service. With SQS, `Receive` hides the
message until `BecomesVisible`, which may come while its worker is busy (`late`);
`owner` is the holder of the valid receipt handle, and `Ack` and `Nack` say what
a stale one does. A nack leaves the body alone, so `attempts` stays 0 and the
consumer loop never calls `fail`: the model has no such action. With BullMQ the
library runs the handler, `Finish` settles the job (without attempts: the first
error is final), and `Stalls` is the expired lock, fatal at the second time. What
the services do is external, modelled from the options the code passes.

### Sweep

One of the two sweeps (`kind`) over several rows. `Schedule` enqueues a task or
loses it, `TakeTask` reads a batch, any `Limit` of the candidates, and the worker
goes through it: `Pass` (not a status this sweep may move), `ReadRow`,
`WriteRow`, `Finish`. Other calls and the other sweep move rows in between.

### Channel

Four types of task for each message of Twilio (`Sid`), in numbered copies, with
the program counter `at` of its handler. `Deliver` is the webhook; `Open`,
`Store`, `Transit`, `Chain` are `process_webhook`; `Transcribe`; `Respond`,
`SaveReply`, `Accept`, `SubmitSend` are `handle_ai_response` and
`send_and_persist_response`; `SendPart` and `Record` the outbound worker.
A `local` message is a payload of the local_sender, which is sent first and
stored afterwards (`PersistOutbound`). `Raise`, `Die`, `NotTranscribed`,
`TwilioRefuses` and `OwnerUnknown` are what goes wrong, each costs one of
`faults`. An exception of the agent is not one of them: it is answered with a
text.

The chain moves the status of its conversation at three places: a goodbye ends it
(`Farewell`), the bot's first message accepts it (`Acceptance`, for a reply and
for a local payload). Each is decided on `seen`, the status at the lookup, while
other calls move the row. `Moved` is the transition written. `Refused` is the
ValueError of the repository or the lifecycle, or the unique index; it is not the
ConcurrencyError that `_handle_transition_with_retry` catches, so it leaves
`add_message` after the row was stored: the event is executed again and meets a
duplicate (`TransitRefused`), the local payload is sent again (`PersistRefused`),
the reply is stored and never enqueued (`AcceptRefused`). `refused` counts them
for each message. The reactivation of an idle conversation in `add_message` has no
step: `find_active` returns, and `create` makes, only pending, running and
handed-over conversations, so that no message is stored in an idle one.

### Plans and Billing

A caller makes one call; `pc` is its next statement. The repositories differ in
what works, and the model keeps that: on Postgres the finders of subscriptions
are those of the protocol class and return None, and `find_by_id` asks for a
column `id` that is not there (`FindersWork`); on Supabase the upsert of usage
carries datetimes the client can not send, so that `Features` raises whenever the
plan offers something. `IsEvent` calls are delivered again by Stripe until they
return. `consumed` is a history variable, what was really used. `Plans` gives
every caller a list of jobs, the seed a long one, an administrator one job.

### Agent

A turn reads the memory twice, for the routing agent and for the task agent it
hands over to: `ReadCache`, on a miss `ReadMessages` and `Fill`. `Reach` is the
Redis repository that disables itself in its own process. The loop of the task
agent is `Speak`, `ModelError`, `CallTool`, `ToolRaises`, `Report`, `StopLoop`;
the answer is pushed to the cache (`KeepAnswer`) before it is sent (`Reply`).
`send_and_persist_response` catches everything, so a reply or an excuse that fails
(`ReplyFails`) ends the turn in silence, with or without its row; `ReadFails` is
the read of the table that is swallowed. The answer is the set of the kinds of
texts it is joined of (`With`): what the model said, the refusal of a report that
came without its text (`Report`), which the loop collects like an answer, or, when
there are none, a tool's result or an error. `Past` are the
conversations a run may start from; their messages are told apart by an index
(`Earlier`).

### Finance

One tool call is one action; amounts are in cents and `round` is any nearest
cent. A condition is written in a style and a form, `Parse` says how it is read,
`Executes` what the backend accepts, `Display` that a whole row is validated, and
its gross amount computed, once more before it is shown. Some forms are more than
a comparison: text with an AND in a list, an OR (`or` with quotes around the values,
`loose` without), a NOT or a difference of columns, of which the regular
expressions find one comparison and ignore the rest (`Sql`, `Value`), and a
dictionary whose key begins with an underscore, which is skipped (`Parse`).
`Asks` says what each of them means.

### Identity

One caller per call of `register_organization`, `create_user` and `sync_user`.
The procedure of the database is one step, everything else a step per statement.
`found` is the row a call works with: the one `create_user` was authenticated as,
or the one `sync_user` links. `checked` is a history variable: how many users there
were when a creation looked for the phone.

## 3. What the runs show

Eleven runs pass:

* `conv_postgres`: two calls of every kind except escalate, all four open
  initial statuses, faults. `StatusFresh` (the version vouches for the
  status); `FreshWritesObey` (a write of a caller whose object is current is a
  step of `Lifecycle`); `ImplementsAuditTrail` (row and history implement
  `AuditTrail`). Two callers are enough for every race between a read and a
  write of one call; the proofs cover any number.
* `conv_updates`: three callers, Supabase, only calls that write the context
  under a version. `NoTransferLost`: a transfer that returned stays in
  `transfer_history`. `GoodbyeHeard`: with two rivals (fewer than attempts) a
  goodbye is refused only by a closed conversation. Three is the smallest number
  of callers at which the third attempt matters.
* `session`: three messages and one other call of any kind.
  `GivenUpOnlyToAgents`: refused inserts and lost races are healed by four
  executions; only a handover makes a message fail for good.
  It rests on the numbers: on Postgres, where status writes move the version,
  three messages alone can make one of them lose four races (every other message
  moves a conversation twice), on Supabase three messages need two other calls.
  `GivenUpOnlyWhenOutnumbered` (section 4) has the bound for all numbers.
  `LinksToEnded`: a conversation is opened only as the
  successor of one that is not active at that moment, although the link was read
  several steps before.
* `queue_sqlite`: two tasks, two workers, two stops, faults, fairness.
  `RunsCounted`, `ImplementsTaskQueue`, and `SettledOrOrphaned`: every task is in
  the end acknowledged, failed, or left in `processing` by a worker that stopped
  or could not write. Tasks do not interact, so two show the order of the queue,
  and two stops cover a worker that dies, restarts and dies again.
* `queue_cloud`: `NothingLost` (a task leaves the service only when a handler has
  returned), `DoneIsFinal` (what is done is handed out again only after a death, a
  timeout under a busy worker or a failed request), `ImplementsAtLeastOnce` (a task
  that times out may be held by several workers, which `TaskQueue` excludes; it is
  settled once, by one of them, and stays settled), `SettledOrPoison` (liveness: on
  SQS a handler that raises for ever is retried for ever, and this is the only
  exception). Two late timeouts are what fails a BullMQ job.
* `sweep`: `OverdueIsSwept` (liveness): a conversation that is out of time is
  swept, extended, closed or handed over, unless the candidates that the sweep
  refuses are as many as the LIMIT. Two refused rows of three fill the batch of
  two, so the exception occurs.
* `channel`: one message (of each kind), its webhook delivered twice.
  `CopiesNeedFaults`, `AnsweredForTheRow`, `SentIsDelivered`, and the liveness
  `StoredIsAnswered`: a stored message is answered unless a step failed or a
  transition of its conversation was refused. One move by another call is enough
  to end the conversation between the lookup and the transition, so refusals
  occur; that they cause silence without any failure is `bad_silence`. Two workers
  make the two executions of the same webhook overlap; two executions and one
  fault make a retry meet what was done before; two chunks are the smallest long
  answer.
* `billing`: three callers, in every mix of the subscription calls and events, of
  the users of a feature, and of the seed with administrators.
  `OverrunBounded`, `SeedGivesFeatures` and the liveness `CheckoutSettles`, which
  holds because the row the failing step leaves behind is what the next delivery
  finds.
* `agent`: two turns on two processes, one with up to two steps and one with one,
  and one failure (of Redis, of a read of the table, of a reply or of an excuse) or
  one expiry of the cached list.
  `ToolsBounded`, `SaidIsAnswered`, `RememberedWasSent`, `RemembersLast`, and the
  liveness `TurnEnds`: a turn ends with an answer or an excuse, and in silence only
  after a failure. `RemembersLast` says that the routing agent is shown the last
  answer of the table, unless something failed, the key expired in the middle of a
  turn, or a turn that had missed filled the list behind an answer it did not know
  (`torn`). The limit is five entries, the least for two turns: with four the
  trimming alone forgets the answer. Three turns need seven. The instance of
  `bad_amnesia.cfg` (three turns on two processes, one step each, a past of two
  messages or as long as the limit, one failure or expiry) satisfies the property
  when it is named there, in 9.4 million states, and violates it with six. Without
  the last exception the property is false at any limit: two turns miss the cache
  and read the table, one fills the cache and keeps its answer, and the fill of the
  other, a page as long as the limit, pushes that answer out; a third turn is not
  shown it (`bad_amnesia`). On one worker no exception but failure and expiry is needed
  (`AgentRemembersLast`, section 4).
* `finance`: `ToldWithinACent` and `AnswerIsRight`, on both backends. A query in the
  styles the tool describes is answered with exactly the rows asked for, or refused.
  What the parser reads in part is answered all the same, and the property says
  with what: of an OR with quoted values only one side is read, so that no row is
  shown that was not asked for; an AND in a text of a list (only a text that is the
  whole question is split at AND) and a hidden key are dropped, so that no row
  is left out. Of the other forms nothing holds (`bad_query`). The rate and
  the amounts are ones where rounding twice differs by a cent. The types are not
  checked by the run but proved (`FinanceTypeCorrect`).
* `identity`: `PhoneSharedByRace` and `OnlyNamesakesTakeOver`, with nine calls that
  share organizations, auth ids, e-mails and phones in every way, on an empty and a
  seeded table. `OnlyNamesakesTakeOver`: the row for which a call acts is still the
  row of its login, and an administrator's, unless another first login with the
  same e-mail has linked it in the meantime. Four callers are the fewest for the
  longest case: an organization registers, its administrator creates another one,
  who is authenticated, and whose row is linked to a new login before he inserts.

One run ends in a counterexample, listed in `PROJECT.json` under `findings`:
`bad_reopen`. On Supabase the bot's first answer reopens a conversation closed by
the user between the repository's read and its write; the version filter does not
notice, because a status write leaves the version alone.

### Further counterexamples

The configurations below are kept to be run by hand; each ends in a
counterexample to the property it checks. They show the code departing from a
sentence of the repository.

| Configuration (module) | Property | What happens | The sentence |
|---|---|---|---|
| `bad_priority` (`MCConversation`) | `PriorityRespected` | On Postgres the expiry sweep, which goes through `transition_to` without priorities and with the status of its batch (`conversation_lifecycle.py:305`), replaces USER_CLOSED by EXPIRED. | `docs/plan/v1/conformidades/05/task-04-report.md:5`: "garantindo que estados finais mais críticos (`FAILED`, `USER_CLOSED`) prevaleçam sobre fechamentos automáticos" |
| `bad_audit_supabase` (`MCConversation`) | `ImplementsAuditTrail` | Two closings of one conversation both record that they replaced the same status; the real transition is recorded nowhere. | `modules/conversation/docs/analise_conformidade_modulo_conversation.md:85`: "registra todas as transições de estado da FSM" |
| `bad_transfer` (`MCConversation`) | `NoTransferLost` | The acceptance context, written without a version from the object the message started with, erases a transfer recorded in between. | `modules/conversation/docs/analise_conformidade_modulo_conversation_01.md:86`: "Optimistic Locking (`version`) para evitar sobrescrita de dados" |
| `bad_link` (`MCSession`) | `LinkTellsTheEnd` | `previous_status` is that of the conversation before it was expired. | `docs/plan/v1/conformidades/05/task-03-report.md:12`: "Status final da anterior" |
| `bad_plain` (`MCSession`) | `NeverGivenUp` | Numbers without `whatsapp:` are stored but never found; the second message is refused on every execution. | `modules/conversation/README.md:150` shows get_or_create_conversation with plain numbers |
| `bad_handoff` (`MCSession`) | `NeverGivenUp` | HUMAN_HANDOFF has no transition to EXPIRED: an expired conversation of an agent can be neither used nor expired, and every message of its user is given up. | `conversation_service.py:63`: "Handles expiration logic if an 'active' conversation is actually expired." |
| `bad_silence` (`MCChannel`) | `OnlyFailuresSilence` | A reply is stored in a pending conversation that was closed after its lookup: the acceptance is refused with a ValueError, which `send_and_persist_response` swallows, and no task sends the reply. Nothing has failed. | `message_handler.py:211`: "Helper to persist response and enqueue sending task." |
| `bad_amnesia` (`MCAgent`) | `OnlyTroubleForgets` | Three turns overlap: the fill of a turn that had missed the cache pushes out the answer another turn added in between. | `hybrid_memory_service.py:41`: "If miss, try L2 (DB) and populate L1" |
| `bad_query` (`MCFinance`) | `NothingIsGuessed` | A condition is read in part (the first comparison of an OR, a NOT, a difference; none of a key with an underscore) and answered with the rows of what was read. | `query.py:191`: "Parse SQL-like conditions into WhereStatement objects" |
| `bad_version` (`MCBilling`) | `VersionInForce` | The active version is deactivated, then the insert of the next is refused, its change_type being none the table knows: the plan has no version in force. | `plan_service.py:92`: "Create a new version of a plan." |
| `bad_checkout` (`MCBilling`) | `CheckoutCreates` | A tenant with an active subscription, of the free plan for example, pays for another: the event is acknowledged and no subscription has its Stripe id (`webhook_handler_service.py:81`). | The comment there: "Optionally update the existing subscription with new stripe info if missing" |
| `bad_checkout`, with this property in its place (`MCBilling`) | `CreatedWithFeatures` | The event that raised at the features is delivered again, finds the subscription it left, and returns: the usage is never initialized. | `subscription_service.py:43`: "Create subscription and initialize feature usage." |
| `bad_amount` (`MCFinance`) | `ToldAsStored` | A gross amount with a rate gives a rounded net amount; the row is validated again when it is read, and another gross amount is computed over the one given. | `feature/finance/models/models.py`: "Calcula automaticamente valores faltantes" |

Departures that share a cause with one of these have no configuration of their
own: with escalate among the calls `ImplementsAuditTrail` fails at once (it writes
no history); the idle sweep pauses a conversation closed after its query; an
extension committed after the sweep's query does not stop the expiry.

### Mutants, bounds, deadlock, fairness

Every property of a passing run has a mutant in `PROJECT.json`: a plausible slip
in one definition, written next to it under "Mutant", that TLC refutes.

**Bounds.** A caller or message makes one call, because a call that has
returned leaves nothing behind but the rows (a user of a feature comes back
`MaxUses` times). `MaxRivals` and `MaxMoves` bound the other calls on a
conversation, `MaxStops` the stops of workers, `MaxLate` the timeouts under a busy
worker, `MaxFaults` what raises, is lost or refused by a service (for the memory the
expiries of its key count as well), `MaxQueued` the sweep tasks that wait,
`MaxRows` the rows of a table. `MaxAttempts` and
`MaxRuns` are executions of a task: four in the code, as in `session`, two in
`channel`, which shows a retry after a partial success. Versions are not bounded:
each call moves them at most once. `Symmetry` is used only in runs whose
properties look at states or steps.

**Deadlock.** The configurations switch the check off where the system really
stops: when every call has returned, or every task is settled or left behind. In
`finance` and `sweep` nothing stops, and the check is on.

**Fairness.** Safety needs none. For liveness:

* Consumer loops (`SqliteQueue`, `CloudQueue`, `Channel`, `Sweep`): weak fairness
  of each worker's work. The loop is `while running`, it catches what a message
  raises, and a stopped process is started again by its supervisor; handlers
  return or raise, which the code does not enforce by a timeout and the models
  take as given. Nothing is assumed about which outcome a handler or a statement
  has.
* `BackoffEnds`, `BecomesVisible`, `Stalls`: the clock advances.
* `CloudQueue` has strong fairness of the hand-out of each task: a message that is
  visible again and again is in the end given to somebody who polls. The services
  promise no order, but they do not starve a message.
* `Schedule` in `Sweep`: the scheduler's loop goes on.
* `Step(c)` in `Billing`: a call that runs goes on, and Stripe delivers again.
  Nothing is assumed of seeds and administrators.
* `Progress(t)` in `Agent`: calls of the model, of tools and of Redis return or
  raise. A response with several tool calls makes `run_step` call itself without
  a count (`agent.py:283`); that the model does not do this for ever is an
  assumption of `TurnEnds`.

## 4. What is proved

`ConversationProofs`, for every set of callers, every set of calls and initial
statuses, with or without faults. The only assumption on constants is
`ConversationAssumption` (their types); what else a theorem needs is in its
statement.

* `TablesAgree`: the two copies of the transition table have the same entries.
* `TypeCorrect`: `Spec => []TypeOK`, on both repositories; `TypeOK` is inductive.
* `PostgresStatusFresh`: on Postgres `Spec => []StatusFresh`. `StatusFresh` alone
  is not inductive: a caller might hold a version from the future, and a write
  would then make it match. `VersionsLag` (nobody holds a version above the
  row's) excludes that; `VersionGrows` keeps it, and `StatusMovesVersion` says
  that no Postgres statement changes the status and leaves the version.
* `PostgresFreshWritesObey`: from `StatusFresh` and `WritesAccepted` (a caller at
  its write had its target accepted for the object it still holds).
* `PostgresAuditTrail`: on Postgres without escalation, the refinement of
  `AuditTrail`. The entries owed are a state function (`Owed`): a write adds one
  (`OwedGrows`), writing or losing it removes it (`OwedShrinks`), and by
  `StatusFresh` it names the status replaced.
* `TransfersKept`: on both repositories, without messages that write the context,
  `Spec => []NoTransferLost`, by `TransfersFresh` (an attempt whose version still
  matches knows all transfers).
* `GoodbyesHeard`: on both repositories and for any number of callers, a goodbye
  is refused by conflicts alone only after the version has passed `MaxRetries`.
  `GoodbyeHeard` alone says nothing of the attempts before the last one. The
  inductive part is `Conflicts`: every retried attempt has been paid by a move of
  the version, up to the one in `cur` while the attempt is at its write. That
  neither table refuses a goodbye to an open conversation is
  `OpenAcceptsGoodbye`, from `TablesAgree`.
* `GoodbyesHeardByFew`: if the callers are no more than the attempts, `Spec =>
  []GoodbyeHeard`. A call moves the version at most once, and has then left its
  write behind (`MovesCounted`); the goodbye that failed has not moved it. The
  bound on the callers is the number of attempts in `add_message`; with more
  callers three of them can win three races against one goodbye.

`QueueProofs`, for every set of tasks and workers and any number of stops, from
`QueueAssumption`: `QueueTypeCorrect`, `AttemptsCountRuns` and
`SqliteImplementsQueue`. The inductive invariant `IInv` adds two facts to
`TypeOK` and `RunsCounted`: `Holding` (a task is in `processing` while a worker
holds it, and `seen`, the attempts the worker was given, are still those of the
row) and `Exclusive` (no two workers hold the same task). Without `Holding` an
ack or a nack could hit a row in any status, without `Exclusive` the row of
another worker. The module also has `SweepTypeCorrect`: `TypeOK` of `Sweep`, for any
finite set of conversations and any workers, limit and lost tasks (without
finiteness the size of a batch has no meaning). It is inductive together with
the domain of `batch`: each action changes one worker's batch (`WorkerMoves`), and
what is left of a batch is within the limit because the batch was.

`SessionProofs`, for every set of messages, any number of executions and of other
calls, on both backends, from `SessionAssumption`: `SessionTypeCorrect` (`TypeOK`
is inductive: it says too that a handler about to expire a conversation holds a
row it has read, which needs `NewestIsThere`: a nonempty set of positions has a
greatest one, by the least distance to the end) and `SuccessorOfTheEnded`:
`LinksToEnded` if all numbers are prefixed. A plain number is looked up under the
prefixed key and stored under its own, so that the index, which guards the step
between lookup and insert, then guards another session; the hypothesis is needed.

`GivenUpOnlyWhenOutnumbered` proves `GivenUpOnlyToAgents` for any finite number of
messages, with prefixed numbers, unless a message is outnumbered: with N messages
and R other calls, unless 2(N - 1) + R (Postgres) or N - 1 + R (Supabase) is at
least the number of executions, `MaxAttempts`. With
four executions TLC refutes the property at the bound (N = 3, R = 0 and N = 2,
R = 2 on Postgres, N = 3, R = 2 on Supabase) and confirms it just below, so the
hypothesis is not stronger than it has to be; four executions, as in the code, are
enough for two messages with one other call on Postgres and for three messages with
one other call on Supabase.
The inductive invariant holds as long as no call has handed a conversation over
(`NoHandoff`):

* `Fits`: at most one conversation is active, none is an agent's, and a message
  that is given up has used all its executions;
* `Races`, an account kept for every message that is not served (`Account`). An
  execution fails only because of something that happened after it began, and
  `Doomed` says that it has happened: a conversation was opened or reopened, or the
  row that is to be expired was written. Every lost execution is paid by an event of
  its own: on Supabase the one conversation that another message opens, or another
  call; on Postgres also the expiry that another message writes, which there
  cannot be more of than rows that are open, so that the open rows are part of the
  account. `GivenUpOnlyToAgents` alone does not say why an execution fails and is
  not inductive.

`CloudProofs`, for any tasks and workers and any number of deaths, timeouts and
failed requests, from `CloudAssumption`: `CloudTypeCorrect` and
`CloudNothingLost`. The inductive invariant `IInv` adds to `TypeOK` and
`NothingLost` that workers are `Honest` (a worker has a task exactly from the
receipt to the answer, and answers what its handler did; without it an ack could
remove a task nobody has done) and `StallsCounted` (the second expiry of a lock
fails the job, so that the counter stays in its type). `CloudDoneIsFinal` needs
more: that a task is handed out again is decided by who may answer for it.
`LossExcused` says that a worker whose task has another owner, or none, lost it to
something that excuses the task, and `DoneIsSettled` that a task which is done and
not excused has left the service or is at its owner's acknowledgement. Without
`LossExcused` a nack of one worker could return what another had done.
`CloudImplementsAtLeastOnce` is the refinement of `AtLeastOnce`, on both backends:
the states of a job by their abstract names, the holders of a task the workers
whose message it is. Every step is one of `AtLeastOnce` or a stutter; by `Honest`
who finishes a task holds it and somebody has executed it, and by `TypeOK` a task
with an owner is hidden, so that an answer that is not stale finds it taken.

`ChannelProofs`, for any messages, workers, executions, length of the answer,
other calls and faults, from `ChannelAssumption`. The inductive invariant `IInv` is
`Typed` (the types of what `TypeOK` leaves implicit), `Held` (one worker per task,
whose handler runs exactly then), `Fits` of every task (`OnPath`: its handler is at
a step of its type; `Refers`: the conversation and reply it names are there;
`ForTheRow`: between the insert of a message and the end of its answer, payload,
local variables and the row of the message agree) and `RepliesFit`. It gives

* `ChannelTypeCorrect` and `ChannelAnswersForTheRow`. The unique MessageSid lets one
  execution insert the row, and only that one gets to `transit` and `chain`; an
  execution that raised after its insert is turned away as a duplicate when the
  queue repeats it, so the row never belongs to two chains.
* `ChannelSentIsDelivered`, by `SentBefore`: the replies marked as sent and the
  handlers between sending and recording are together no more than the copies of
  the last chunk at Twilio.
* `ChannelCopiesNeedFaults`, by `CopiesPaid`, an account kept for every message and
  chunk (`Balance`): the copies at Twilio, the tasks that may still send one
  (`Pend`) and the copy owed by a message not yet stored are together no more than
  the faults so far and what is allowed without any: one, or one per delivery and
  per refused acceptance of the payload of a local sender. `Paid` says that a step
  which makes a task pending either ends another one or is paid by a fault, the
  insert, a delivery or a refusal (`PersistRefusedPaid`).

`BillingProofs`, for any finite number of callers with any mix of calls, any
plans, script, amounts and faults. Beyond types, `PlansAssumption` and
`BillingAssumption` say that there is a plan, that calls name plans, and that the
callers are finitely many, without which a bound that counts the users is
meaningless. `IInv` adds to the types

* `PlanThere` and `OnScript`, for `BillingSeedGivesFeatures`: a seed that has lost
  no statement has before it exactly the end of its script, and the jobs before
  that end have left behind their plan or offer. No call removes either, so
  another seed, an administrator or a retry can only have done the work already;
* `HasRow`, for `BillingTypeCorrect`: a call that updates or logs a subscription
  has found or inserted one;
* `Room`, for `BillingOverrunBounded`, on Postgres only: what was consumed, plus
  the largest amount for each user between check and increment, stays below the
  bound. It needs that the counter is what was consumed, which is
  false of the increment of the Supabase repository. The bound itself is not
  inductive: it says nothing of the users who have passed the check.

`AgentProofs`, for any turns, processes, histories, limits and failures, and
whatever the language model returns, from `AgentAssumption`: `AgentTypeCorrect`,
`AgentToolsBounded`, `AgentSaidIsAnswered` and `AgentRememberedWasSent`. `IInv` is
`Typed`, `Trimmed` (lists within their limits), `Loop` (every tool executed is a
step counted, but for one that raised and ended the loop; who has spoken answers
what was said, joined at most by the refusal of a report) and `Told`: the cache
holds only messages that are in the table or are answers remembered and about to be
sent (`Coming`), and a fill in flight carries only what is in the table. The property
speaks of the moments when no turn runs; `Told` is what holds while they overlap.

Two theorems are about turns on one worker (`OneWorker`: the same process executes
all turns, one after the other, as the consumer loop does). Like `RemembersLast`
they say nothing once Redis or a reply has failed or the key has expired in the
middle of a turn; between turns it may expire at any time.

* `AgentShowsLast`: for any number of turns, the routing agent is shown the last
  answer of the table if no more messages come after it than the limits of the
  cache and of reading (`Window`) leave room for.
* `AgentRemembersLast`: `Spec => []RemembersLast`, for finitely many turns, if at
  most k messages come after the last answer there was before them and
  k + 2N < `Window` for N turns: a turn leaves two messages at the most. The code
  reads ten messages and keeps fifty.

The invariant is `Memory`. One turn runs at a time (`Solo`), and Redis is up while
nothing has failed (`Up`). The list is empty or ends like the table (`Kept`): no
more messages come after the last answer than in the table, and one more, the
copy of the input, once the turn has passed its routing. `Own` says what the turn
that runs relies on: after a miss the list is still empty when it is filled, with
the page the table would give now. That is what a second worker breaks
(section 3). `After` counts the messages that come after the last answer.

The tools of the finance agent, for any amounts in cents, any rates up to a
hundred percent, any conditions, rows and either backend, from
`FinanceAssumption` (the styles of a condition, and that a plain dictionary can
only ask for equality): `FinanceTypeCorrect`, `FinanceToldWithinACent` and
`FinanceAnswerIsRight`. `FinanceInv` adds to the three that every row is `Faithful`:
whatever a reader computes again from its net amount and its rate is within a cent
of its gross amount. For an amount that was given as a gross amount this is
`GrossThroughNet`: the net amount is off by half a cent, which a rate of at most a
hundred percent makes one cent, and rounding once more adds half of one.
`MatchingRight` says that a question that is not refused matches exactly the rows
it asks for if it is well spelled, no others if a part of it is an OR of which one
side is read, and all of them if a part of it is dropped; by `ReadRight` for the
operator in every style and form, and `ParsedRight` for what is left of a
condition.

`IdentityProofs`, for every set of callers and calls and every table the seed
script may have written (`IdentityAssumption`): `IdentityTypeCorrect`,
`PhonesApart` and `RowsGoByEmail`. The inductive invariant `IInv` adds to `TypeOK`
and the two properties what a creation knows at its insert (`PhoneKnown`: the
organization is there, and none of the rows it has seen has the phone) and what a
call knows of the row it has found (`CallKnown`: the row a login is about to link
has its e-mail). Without `PhoneKnown` an insert could repeat a phone that was there
when it looked, without `CallKnown` a row could be linked by anybody.
`OwnStep` treats the statements that write no row that is there; `Link` is the only
one that does, and the login it ends is the witness that the row was taken over.

Only model-checked:

* `GivenUpOnlyToAgents` and `RemembersLast` outside the hypotheses of their
  theorems. Beyond its bound the first is false. The second is checked for turns
  on two workers, two by the run `agent` and three by hand.
* `ClosedIsFinal` and the other properties of the configurations that end in
  counterexamples, which are false.
* All liveness (`SettledOrOrphaned`, `SettledOrPoison`, `OverdueIsSwept`,
  `StoredIsAnswered`, `CheckoutSettles`, `TurnEnds`): liveness under fairness and
  ENABLED are out of the prover's reach, as are induction over data and RECURSIVE
  operators; the modules use none of the latter.

## 5. Plan

Done: the modules of section 2. What is left: `Session` with calls of API clients,
which are not retried.

## 6. Not modelled

* Settings, dependency injection, logging, observability, database sessions: wiring
  and I/O without a protocol of their own.
* HTTP routing, response models, conversion of payloads, keyword matching, profile
  names, formatting, prompts: functions of a text; their outcome is the kind of a
  call or message.
* The language model, Twilio, Stripe, Redis, SQS and BullMQ themselves: they appear
  as what the code sees of them.
* The logs of thoughts and results of the AI, the hourly cleanup of these logs, the
  embedding tasks, the vector memory and the relationships feature: single inserts,
  deletes and reads of independent tables, each with its own try, no state that
  two steps share.
* Updates of names and preferences in identity (read, merge, write of one column
  without a version: the last one wins, and nothing in the repository says
  otherwise), deletion and deactivation, which have no caller.
* Code without callers: `cleanup_expired_conversations`, `close_by_message_policy`,
  `find_idle_conversations`, `update_from_schema` and the sums of the finance
  repositories, overrides and deprecation of features. The increments of usage
  are called only by `scripts/verify_billing_flow.py`, and are modelled.
* The command line tools, the local_sender (its payload is modelled) and the
  sample conversations of `scripts/seed.py`: data and I/O.
