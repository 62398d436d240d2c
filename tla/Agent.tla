-------------------------------- MODULE Agent --------------------------------
(***************************************************************************)
(* How the messages of one conversation are answered: the routing agent,   *)
(* the task agent it hands over to with its loop of tool calls, and the    *)
(* memory both read, a list in Redis in front of the table of messages.    *)
(* Turns overlap when several workers run.  A language model may return    *)
(* anything; what is said matters only as far as: something, nothing, or   *)
(* a text that was not meant as an answer.                                 *)
(***************************************************************************)
EXTENDS Integers, Sequences, SequencesExt, FiniteSets

CONSTANTS
    Turn,         \* inbound messages
    Proc,         \* the worker process that takes each of them
    Earlier,      \* messages before them
    Past,         \* what the conversation may hold before
    Feature,      \* features of the catalogue
    MaxSteps,     \* max_steps of the agent a turn may be handed over to
    Limit,        \* recent_messages_limit
    MaxMessages,  \* max_messages of the cache
    MaxFaults     \* bound on the failures of Redis, of reading and of sending
                  \* and the expiries of the cache's key, taken together

\* What is stored and remembered: the user's message, an answer to it, a fixed
\* text of the program.
Message == [role: {"user", "assistant", "fixed"}, turn: Turn \cup Earlier]

ASSUME AgentAssumption ==
    /\ DOMAIN Proc = Turn
    /\ Past \subseteq Seq(Message)
    /\ MaxSteps \in [Turn -> Nat \ {0}]
    /\ {Limit, MaxMessages} \subseteq Nat \ {0}
    /\ MaxFaults \in Nat

VARIABLES
    db,        \* table messages, by timestamp
    cache,     \* the list in Redis
    redis,     \* FALSE: no connection
    off,       \* the processes whose repository has disabled itself
    pc,        \* the next step of each turn
    phase,     \* who reads the memory: "routing", "task"
    context,   \* what get_context returned
    latest,    \* the last answer of an earlier turn, when it started
    steps,     \* steps of the task agent's loop
    tools,     \* tools it executed
    spoken,    \* an assistant's text was collected
    answer,    \* what the final content is made of
    faults, expiries,
    torn       \* the key expired in the middle of a turn, or the list was
               \* filled behind an answer that the fill did not know

vars == <<db, cache, redis, off, pc, phase, context, latest, steps, tools,
          spoken, answer, faults, expiries, torn>>

memory == <<cache, off>>
run    == <<steps, tools, spoken, answer>>
world  == <<redis, faults, expiries, torn>>

\* Texts are joined: one the model meant as an answer, and the refusal of a
\* report that came without its text.  Without any, the result of a tool or the
\* text of an error.
Texts == {"said", "refusal"}
What == Texts \cup {"note"}

User(t) == [role |-> "user", turn |-> t]
Assistant(t) == [role |-> "assistant", turn |-> t]
Fixed(t) == [role |-> "fixed", turn |-> t]

LastOf(n, s) == SubSeq(s, IF Len(s) > n THEN Len(s) - n + 1 ELSE 1, Len(s))

PC == {"new", "l1", "l2", "fill", "route", "step", "keep", "reply", "excuse",
       "done", "excused", "silent"}

TypeOK ==
    /\ redis \in BOOLEAN /\ torn \in BOOLEAN
    /\ off \subseteq Range(Proc)
    /\ pc \in [Turn -> PC]
    /\ phase \in [Turn -> {"routing", "task"}]
    /\ Len(cache) <= MaxMessages
    /\ \A t \in Turn : steps[t] \in 0 .. MaxSteps[t] /\ Len(context[t]) <= Limit /\ latest[t] \in 0 .. Len(db)
    /\ tools \in [Turn -> Nat]
    /\ spoken \in [Turn -> BOOLEAN]
    /\ answer \in [Turn -> SUBSET What]
    /\ faults \in Nat /\ expiries \in Nat /\ faults + expiries <= MaxFaults

Init ==
    /\ db \in Past
    /\ cache \in {<<>>, LastOf(MaxMessages, db)}
    /\ redis = TRUE
    /\ off = {}
    /\ pc = [t \in Turn |-> "new"]
    /\ phase = [t \in Turn |-> "routing"]
    /\ context = [t \in Turn |-> <<>>]
    /\ latest = [t \in Turn |-> 0]
    /\ steps = [t \in Turn |-> 0]
    /\ tools = [t \in Turn |-> 0]
    /\ spoken = [t \in Turn |-> FALSE]
    /\ answer = [t \in Turn |-> {}]
    /\ faults = 0 /\ expiries = 0
    /\ torn = FALSE

Goto(t, l) == pc' = [pc EXCEPT ![t] = l]

\* The loop is over, and what was local to it is gone.
Leave(t, l) ==
    /\ Goto(t, l)
    /\ phase' = [phase EXCEPT ![t] = "routing"]
    /\ steps' = [steps EXCEPT ![t] = 0]
    /\ tools' = [tools EXCEPT ![t] = 0]

\* The turn is over, and so is what it collected.
End(t, l) ==
    /\ Leave(t, l)
    /\ spoken' = [spoken EXCEPT ![t] = FALSE]
    /\ answer' = [answer EXCEPT ![t] = {}]

Running(t) == pc[t] \notin {"new", "done", "excused", "silent"}

Fault == faults + expiries < MaxFaults /\ faults' = faults + 1

-----------------------------------------------------------------------------
(***************************************************************************)
(* The cache.  A connection error disables it in this process; after the   *)
(* backoff the next call tries again.                                      *)
(***************************************************************************)
Reach(t, then, else) ==
    \/ /\ Proc[t] \in off
       /\ UNCHANGED off
       /\ else
    \/ /\ redis
       /\ off' = off \ {Proc[t]}
       /\ then
    \/ /\ ~redis
       /\ off' = off \cup {Proc[t]}
       /\ else

\* Mutant: the list is not trimmed.
Push_Untrimmed(s) == cache' = cache \o s

\* rpush, ltrim and expire in one pipeline.
Push(s) == cache' = LastOf(MaxMessages, cache \o s)

Write(t, s) == Reach(t, Push(s), UNCHANGED cache)

\* The message is stored, and a worker processes it.
Start(t) ==
    /\ pc[t] = "new"
    /\ \A u \in Turn : Running(u) => Proc[u] # Proc[t]
    /\ db' = Append(db, User(t))
    /\ LET answered == {i \in DOMAIN db : db[i].role = "assistant"}
       IN  latest' = [latest EXCEPT ![t] =
                        IF answered = {} THEN 0 ELSE CHOOSE i \in answered : \A j \in answered : j <= i]
    /\ Goto(t, "l1")
    /\ UNCHANGED <<memory, phase, context, run, world>>

\* The routing agent puts the history in its prompt; what the task agent is
\* shown is not looked at any more.
Shown(t, s) ==
    /\ context' = [context EXCEPT ![t] = IF phase[t] = "routing" THEN s ELSE <<>>]
    /\ Goto(t, IF phase[t] = "routing" THEN "route" ELSE "step")

\* Mutant: whatever the cache returns is the context.
ReadCache_Trusted(t) ==
    /\ pc[t] = "l1"
    /\ Reach(t, Shown(t, LastOf(Limit, cache)), Shown(t, <<>>))
    /\ UNCHANGED <<db, cache, phase, latest, run, world>>

Miss(t) == Goto(t, "l2") /\ UNCHANGED context

\* get_context: an empty list is a miss.
ReadCache(t) ==
    /\ pc[t] = "l1"
    /\ Reach(t, IF cache = <<>> THEN Miss(t) ELSE Shown(t, LastOf(Limit, cache)), Miss(t))
    /\ UNCHANGED <<db, cache, phase, latest, run, world>>

\* find_recent_by_conversation: the last messages, oldest first.
Recent == LastOf(Limit, db)

ReadMessages(t) ==
    /\ pc[t] = "l2"
    /\ context' = [context EXCEPT ![t] = Recent]
    /\ Goto(t, "fill")
    /\ UNCHANGED <<db, memory, phase, latest, run, world>>

\* The table is not read: the agent goes on without a context.
ReadFails(t) ==
    /\ pc[t] = "l2"
    /\ Fault
    /\ Shown(t, <<>>)
    /\ UNCHANGED <<db, memory, phase, latest, run, redis, expiries, torn>>

\* Mutant: the context is read from the cache again.
Fill_Again(t) ==
    /\ pc[t] = "fill"
    /\ Write(t, context[t])
    /\ context' = [context EXCEPT ![t] = <<>>]
    /\ Goto(t, "l1")
    /\ UNCHANGED <<db, phase, latest, run, world>>

\* add_messages_bulk, behind what others may have pushed since the miss.
Fill(t) ==
    /\ pc[t] = "fill"
    /\ Write(t, context[t])
    /\ torn' = (torn \/ \E m \in ToSet(cache) : m.role = "assistant" /\ m \notin ToSet(context[t]))
    /\ Shown(t, context[t])
    /\ UNCHANGED <<db, phase, latest, run, redis, faults, expiries>>

-----------------------------------------------------------------------------
(***************************************************************************)
(* The routing agent: it answers, calls a task agent, or raises.           *)
(***************************************************************************)
Routed(t) == context' = [context EXCEPT ![t] = <<>>] /\ latest' = [latest EXCEPT ![t] = 0]

(***************************************************************************)
(* Which agent the owner gets: the first preferred feature that is active, *)
(* else any active one, else "finance".  Not every feature has an agent.   *)
(***************************************************************************)
Preferred == <<"finance", "relationships", "identity">>

\* get_usage_summary: of the features the tenant has, whether each is active.
Summary == UNION {[owned -> BOOLEAN] : owned \in SUBSET Feature}

Resolved(summary) ==
    LET active == {f \in DOMAIN summary : summary[f]}
        first == SelectSeq(Preferred, LAMBDA f : f \in active)
    IN  IF first # <<>> THEN {Head(first)}
        ELSE IF active = {} THEN {"finance"} ELSE active

HasAgent(f) == f \in {"finance", "finance_agent", "relationships", "default",
                      "ai_chat_assistant"}

Arrives(t) == pc[t] = "l1" /\ phase[t] = "routing"

\* get_agent raises.
NoAgent(t) ==
    /\ Arrives(t)
    /\ \E summary \in Summary : \E f \in Resolved(summary) : ~HasAgent(f)
    /\ Goto(t, "excuse")
    /\ Routed(t)
    /\ UNCHANGED <<db, memory, phase, run, world>>

\* The number is not registered: a fixed text, no agent.
NoUser(t) ==
    /\ Arrives(t)
    /\ Goto(t, "reply")
    /\ Routed(t)
    /\ UNCHANGED <<db, memory, phase, run, world>>

RouteRaises(t) ==
    /\ pc[t] = "route"
    /\ Goto(t, "excuse")
    /\ Routed(t)
    /\ UNCHANGED <<db, memory, phase, run, world>>

\* The input is remembered, whatever follows.
SmallTalk(t) ==
    /\ pc[t] = "route"
    /\ Write(t, <<User(t)>>)
    /\ \E said \in {{}, {"said"}} :
          /\ answer' = [answer EXCEPT ![t] = said]
          /\ Goto(t, IF said = {} THEN "reply" ELSE "keep")
    /\ Routed(t)
    /\ UNCHANGED <<db, phase, steps, tools, spoken, world>>

\* load_agent: the task agent begins with the memory.
Loaded(t) == phase' = [phase EXCEPT ![t] = "task"] /\ Goto(t, "l1")

\* prepare_agent may not know the agent the model asked for, or not accept its
\* arguments.
NotPrepared(t) == Goto(t, "excuse") /\ UNCHANGED phase

HandOver(t) ==
    /\ pc[t] = "route"
    /\ Write(t, <<User(t)>>)
    /\ Loaded(t) \/ NotPrepared(t)
    /\ Routed(t)
    /\ UNCHANGED <<db, run, world>>

-----------------------------------------------------------------------------
(***************************************************************************)
(* The task agent                                                          *)
(***************************************************************************)
More(t) == pc[t] = "step" /\ steps[t] < MaxSteps[t]

\* What the answer is after a step that returned content of the kind w.
With(w, said) ==
    IF w \in Texts THEN (said \cap Texts) \cup {w}
    ELSE IF said \cap Texts # {} THEN said ELSE {w}

\* The loop collects it.
Collect(t, w) ==
    /\ spoken' = [spoken EXCEPT ![t] = @ \/ w = "said"]
    /\ answer' = [answer EXCEPT ![t] = With(w, @)]

\* A step without content.
Nothing == UNCHANGED <<spoken, answer>>

\* An answer does not end the loop: the model is asked again.
Speak(t) ==
    /\ More(t)
    /\ Collect(t, "said") \/ Nothing
    /\ steps' = [steps EXCEPT ![t] = @ + 1]
    /\ UNCHANGED <<db, memory, pc, phase, context, latest, tools, world>>

\* The call of the model fails; its message is fed back as a user's.
ModelError(t) ==
    /\ More(t)
    /\ Collect(t, "note")
    /\ steps' = [steps EXCEPT ![t] = @ + 1]
    /\ UNCHANGED <<db, memory, pc, phase, context, latest, tools, world>>

\* Mutant: the step of a tool is counted when it was of use.
CallTool_Failed(t) ==
    /\ More(t)
    /\ Collect(t, "note")
    /\ tools' = [tools EXCEPT ![t] = IF @ > MaxSteps[t] THEN @ ELSE @ + 1]
    /\ \/ steps' = [steps EXCEPT ![t] = @ + 1]
       \/ UNCHANGED steps
    /\ UNCHANGED <<db, memory, pc, phase, context, latest, world>>

\* A tool is executed; its result, or which values it misses, is the step's
\* content.
CallTool(t) ==
    /\ More(t)
    /\ Collect(t, "note") \/ Nothing
    /\ tools' = [tools EXCEPT ![t] = @ + 1]
    /\ steps' = [steps EXCEPT ![t] = @ + 1]
    /\ UNCHANGED <<db, memory, pc, phase, context, latest, world>>

\* A tool that is not there, or that raises, ends the run.
ToolRaises(t) ==
    /\ More(t)
    /\ tools' = [tools EXCEPT ![t] = @ + 1]
    /\ Goto(t, "excuse")
    /\ UNCHANGED <<db, memory, phase, context, latest, steps, spoken, answer, world>>

\* Mutant: the report takes the place of what was said before.
Report_First(t) ==
    /\ More(t)
    /\ answer' = [answer EXCEPT ![t] = {"refusal"}]
    /\ Leave(t, "keep")
    /\ UNCHANGED <<db, memory, context, latest, spoken, world>>

\* report_tool: its text, or that it misses one, joins what was said, and the
\* loop ends.
Report(t) ==
    /\ More(t)
    /\ Collect(t, "said") \/ Collect(t, "refusal") \/ Nothing
    /\ Leave(t, IF answer'[t] = {} THEN "reply" ELSE "keep")
    /\ UNCHANGED <<db, memory, context, latest, world>>

StopLoop(t) ==
    /\ pc[t] = "step" /\ steps[t] = MaxSteps[t]
    /\ Leave(t, IF answer[t] = {} THEN "reply" ELSE "keep")
    /\ UNCHANGED <<db, memory, context, latest, spoken, answer, world>>

-----------------------------------------------------------------------------
\* The answer goes to the cache before it goes to the user.
KeepAnswer(t) ==
    /\ pc[t] = "keep"
    /\ Write(t, <<Assistant(t)>>)
    /\ Goto(t, "reply")
    /\ UNCHANGED <<db, phase, context, latest, run, world>>

\* An empty answer is replaced by a fixed text.
Response(t) == IF answer[t] = {} THEN Fixed(t) ELSE Assistant(t)

\* Mutant: what is sent is not what is remembered.
Reply_Fixed(t) ==
    /\ pc[t] = "reply"
    /\ db' = Append(db, Fixed(t))
    /\ End(t, "done")
    /\ UNCHANGED <<memory, context, latest, world>>

\* send_and_persist_response.
Reply(t) ==
    /\ pc[t] = "reply"
    /\ db' = Append(db, Response(t))
    /\ End(t, "done")
    /\ UNCHANGED <<memory, context, latest, world>>

\* Any exception: the friendly message is sent instead.
Excuse(t) ==
    /\ pc[t] = "excuse"
    /\ db' = Append(db, Fixed(t))
    /\ End(t, "excused")
    /\ UNCHANGED <<memory, context, latest, world>>

\* send_and_persist_response swallows what goes wrong in it (Channel says what
\* can): nothing is sent, no excuse either, whether the row is there or not.
ReplyFails(t) ==
    /\ pc[t] \in {"reply", "excuse"}
    /\ Fault
    /\ \/ UNCHANGED db
       \/ db' = Append(db, IF pc[t] = "reply" THEN Response(t) ELSE Fixed(t))
    /\ End(t, "silent")
    /\ UNCHANGED <<memory, context, latest, redis, expiries, torn>>

-----------------------------------------------------------------------------
\* ttl_seconds pass without a write.
Expire ==
    /\ cache # <<>>
    /\ faults + expiries < MaxFaults
    /\ expiries' = expiries + 1
    /\ cache' = <<>>
    /\ torn' = (torn \/ \E t \in Turn : Running(t))
    /\ UNCHANGED <<db, redis, off, pc, phase, context, latest, run, faults>>

RedisGoes ==
    /\ redis
    /\ Fault
    /\ redis' = FALSE
    /\ UNCHANGED <<db, memory, pc, phase, context, latest, run, expiries, torn>>

RedisReturns ==
    /\ ~redis
    /\ redis' = TRUE
    /\ UNCHANGED <<db, memory, pc, phase, context, latest, run, faults, expiries, torn>>

Progress(t) ==
    \/ ReadCache(t) \/ ReadMessages(t) \/ ReadFails(t) \/ Fill(t)
    \/ NoAgent(t) \/ NoUser(t)
    \/ RouteRaises(t) \/ SmallTalk(t) \/ HandOver(t)
    \/ Speak(t) \/ ModelError(t) \/ CallTool(t) \/ ToolRaises(t) \/ Report(t) \/ StopLoop(t)
    \/ KeepAnswer(t) \/ Reply(t) \/ Excuse(t) \/ ReplyFails(t)

Next ==
    \/ \E t \in Turn : Progress(t) \/ Start(t)
    \/ Expire
    \/ RedisGoes
    \/ RedisReturns

\* A call returns or raises.  A response with several calls at once is a
\* stutter: run_step calls itself, executes none and the loop does not count;
\* that the model does not repeat it for ever is assumed here.
Spec == Init /\ [][Next]_vars /\ \A t \in Turn : WF_vars(Progress(t))
-----------------------------------------------------------------------------
(***************************************************************************)
(* Properties                                                              *)
(***************************************************************************)

(***************************************************************************)
(* However the model behaves, a turn executes no more than max_steps tools *)
(* (each may add an expense): errors, refusals and answers count as steps, *)
(* and a step that asked for several tools executes none.                  *)
(***************************************************************************)
ToolsBounded == \A t \in Turn : tools[t] <= MaxSteps[t]

(***************************************************************************)
(* What the model said to the user is not lost: unless something raised, a *)
(* turn in which a text was collected is answered with what the model      *)
(* said, joined at most by the refusal of a report without its text; never *)
(* with a tool's result or a fixed phrase.                                 *)
(***************************************************************************)
SaidIsAnswered ==
    \A t \in Turn :
        (pc[t] \in {"keep", "reply"} /\ spoken[t]) => "said" \in answer[t] /\ answer[t] \subseteq Texts

(***************************************************************************)
(* The memory tells what happened: unless a reply failed or Redis did, no  *)
(* answer is remembered that the user was not sent.                        *)
(***************************************************************************)
RememberedWasSent ==
    (faults = 0 /\ \A t \in Turn : ~Running(t)) => ToSet(cache) \subseteq ToSet(db)

(***************************************************************************)
(* No amnesia: what the routing agent is shown holds the last answer that  *)
(* the user had got when the turn started, unless something failed, the    *)
(* key expired in the middle of a turn, or a turn that had missed filled   *)
(* the list behind an answer it did not know.  The lists must be long      *)
(* enough for what the turns that overlap push: five entries for two       *)
(* turns, seven for three; one less and the trimming alone forgets.        *)
(***************************************************************************)
RemembersLast ==
    \A t \in Turn :
        (pc[t] = "route" /\ latest[t] # 0 /\ faults = 0 /\ ~torn) =>
            db[latest[t]] \in ToSet(context[t])

(***************************************************************************)
(* Every message is answered, by the model or with an excuse, unless the   *)
(* answer failed on its way: then nothing follows it.                      *)
(***************************************************************************)
TurnEnds ==
    \A t \in Turn :
        Running(t) ~> \/ pc[t] \in {"done", "excused"}
                      \/ pc[t] = "silent" /\ faults > 0

(***************************************************************************)
(* Checked by hand, and not true where three turns overlap: short of       *)
(* failures and of expiries, the last answer is shown.                     *)
(***************************************************************************)
OnlyTroubleForgets ==
    \A t \in Turn :
        (pc[t] = "route" /\ latest[t] # 0 /\ faults = 0 /\ expiries = 0) =>
            db[latest[t]] \in ToSet(context[t])
=============================================================================
