---------------------------- MODULE ChannelProofs ---------------------------
(***************************************************************************)
(* Theorems about Channel, for any messages, workers, executions, length   *)
(* of answers, other calls and faults.                                     *)
(***************************************************************************)
EXTENDS Channel, FiniteSetTheorems, WellFoundedInduction, TLAPS

-----------------------------------------------------------------------------
(***************************************************************************)
(* The first invariant: what a task carries and where its handler can be.  *)
(***************************************************************************)
Locals == [conv: 0 .. Len(convs), via: 0 .. Len(convs), seen: Status,
           reply: 0 .. Len(replies), part: 1 .. Parts]

Reply == [sid: Sid, conv: 1 .. Len(convs), via: 1 .. Len(convs), sent: BOOLEAN]

Label == {"idle", "ack", "resolve", "store", "transit", "chain", "send", "persist",
          "transcribe", "think", "save", "accept", "submit", "record"}

Typed ==
    /\ kind \in [Sid -> Kinds]
    /\ convs \in Seq(Status)
    /\ stored \in [Sid -> [conv: 0 .. Len(convs), handoff: BOOLEAN]]
    /\ replies \in Seq(Reply)
    /\ received \in [Sid -> Seq(1 .. Parts)]
    /\ state \in [Task -> {"new", "waiting", "taken", "finished", "buried"}]
    /\ holder \in [Task -> SUBSET Worker]
    /\ runs \in [Task -> Nat]
    /\ at \in [Task -> Label]
    /\ loc \in [Task -> Locals]
    /\ refused \in [Sid -> Nat]
    /\ moves \in Nat
    /\ faults \in 0 .. MaxFaults

\* A handler runs exactly while one worker holds the task.
Held ==
    \A t \in Task :
        /\ at[t] # "idle" <=> state[t] = "taken" /\ holder[t] # {}
        /\ holder[t] # {} => \E w \in Worker : holder[t] = {w}

\* The steps of each type of task.
OnPath(t) ==
    \/ at[t] \in {"idle", "ack"}
    \/ t.type = "event" /\ at[t] = "resolve"
    \/ t.type = "event" /\ kind[t.sid] = "local" /\ at[t] \in {"send", "persist"}
    \/ t.type = "event" /\ kind[t.sid] # "local" /\ at[t] \in {"store", "transit", "chain"}
    \/ t.type = "transcribe" /\ at[t] = "transcribe"
    \/ t.type = "answer" /\ at[t] \in {"think", "save", "accept", "submit"}
    \/ t.type = "send" /\ at[t] \in {"send", "record"}

\* The queue still has a task that may be executed, with its payload.
Live(t) == state[t] \in {"waiting", "taken"}

\* What a handler refers to is there.
Refers(t) ==
    /\ (t.type = "event" /\ at[t] \in {"store", "transit", "chain", "send", "persist"}) =>
          loc[t].conv # 0
    /\ at[t] \in {"save", "accept"} => loc[t].via # 0
    /\ (at[t] \in {"accept", "submit"} \/ (t.type = "send" /\ Live(t))) =>
          loc[t].reply # 0 /\ replies[loc[t].reply].sid = t.sid

\* What the execution that stored the message passes on is in its row.
ForTheRow(t) ==
    /\ at[t] \in {"transit", "chain"} =>
          stored[t.sid] = [conv |-> loc[t].conv, handoff |-> Handoff(t)]
    /\ at[t] = "chain" => ~Handoff(t)
    /\ (t.type \in {"transcribe", "answer"} /\ Live(t)) =>
          /\ loc[t].conv # 0
          /\ stored[t.sid] = [conv |-> loc[t].conv, handoff |-> FALSE]

Fits(t) == OnPath(t) /\ Refers(t) /\ ForTheRow(t)

RepliesFit ==
    \A r \in DOMAIN replies : kind[replies[r].sid] # "local" =>
        stored[replies[r].sid] = [conv |-> replies[r].conv, handoff |-> FALSE]

IInv == Typed /\ Held /\ (\A t \in Task : Fits(t)) /\ RepliesFit

-----------------------------------------------------------------------------
(***************************************************************************)
(* Lemmas about the operators of the model.                                *)
(***************************************************************************)
LEMMA TaskFields ==
    ASSUME NEW t \in Task
    PROVE  /\ t.type \in Type /\ t.sid \in Sid
           /\ Entry[t.type] \in Label \ {"idle"}
           /\ t.type = "event" <=> Entry[t.type] = "resolve"
           /\ t.type = "transcribe" <=> Entry[t.type] = "transcribe"
           /\ t.type = "answer" <=> Entry[t.type] = "think"
           /\ t.type = "send" <=> Entry[t.type] = "send"
<1>1. t.type \in Type /\ t.sid \in Sid
  BY DEF Task
<1>2. \A type \in Type :
        /\ Entry[type] \in {"resolve", "transcribe", "think", "send"}
        /\ type = "event" <=> Entry[type] = "resolve"
        /\ type = "transcribe" <=> Entry[type] = "transcribe"
        /\ type = "answer" <=> Entry[type] = "think"
        /\ type = "send" <=> Entry[type] = "send"
  BY DEF Type, Entry
<1>3. \A e \in {"resolve", "transcribe", "think", "send"} : e \in Label \ {"idle"}
  BY DEF Label
<1> QED
  BY <1>1, <1>2, <1>3

(***************************************************************************)
(* Enqueue submits a new task of the message, or nothing (which the bound  *)
(* on copies excludes, but no invariant depends on it).                    *)
(***************************************************************************)
LEMMA Enqueues ==
    ASSUME Typed, NEW type \in Type, NEW s \in Sid, NEW p, Enqueue(type, s, p)
    PROVE  /\ UNCHANGED <<holder, runs>>
           /\ \/ \E u \in Task : /\ u.type = type /\ u.sid = s
                                 /\ state[u] = "new"
                                 /\ state' = [state EXCEPT ![u] = "waiting"]
                                 /\ loc' = [loc EXCEPT ![u] = p]
              \/ UNCHANGED <<state, loc>>
<1> DEFINE n == Min({c \in 0 .. MaxFaults + 1 :
                       state[[type |-> type, sid |-> s, copy |-> c]] = "new"})
           u == [type |-> type, sid |-> s, copy |-> n]
<1>1. /\ state[u] = "new" /\ state' = [state EXCEPT ![u] = "waiting"]
      /\ loc' = [loc EXCEPT ![u] = p] /\ UNCHANGED <<holder, runs>>
  BY DEF Enqueue, Queue!Submit
<1>2. u.type = type /\ u.sid = s
  OBVIOUS
<1> HIDE DEF u
<1>3. CASE u \in Task
  BY <1>1, <1>2, <1>3
<1>4. CASE u \notin Task
  BY <1>1, <1>4 DEF Typed
<1> QED
  BY <1>1, <1>3, <1>4

(***************************************************************************)
(* The greatest of some positions is one of them.                          *)
(***************************************************************************)
LEMMA GreatestIsThere ==
    ASSUME NEW n \in Nat, NEW S, S \subseteq 1 .. n, S # {}
    PROVE  Max(S) \in S
<1> DEFINE Distance == {n - i : i \in S}
<1>1. Distance \subseteq Nat /\ Distance # {}
  <2>1. \A i \in S : n - i \in Nat
    OBVIOUS
  <2>2. \E i \in S : n - i \in Distance
    BY Zenon
  <2> QED
    BY <2>1, <2>2
<1> HIDE DEF Distance
<1>2. PICK d \in Distance : \A e \in Distance : ~ (<<e, d>> \in OpToRel(<, Nat))
  BY <1>1, NatLessThanWellFounded, WFMin, Zenon
<1>3. \A e \in Distance : ~ (e < d)
  BY <1>1, <1>2 DEF OpToRel
<1>4. \E i \in S : \A j \in S : i >= j
  <2>1. PICK i \in S : d = n - i
    BY DEF Distance
  <2>2. ASSUME NEW j \in S PROVE i >= j
    <3>1. n - j \in Distance
      BY DEF Distance
    <3> QED
      BY <3>1, <2>1, <1>3
  <2> QED
    BY <2>2
<1> QED
  BY <1>4 DEF Max

(***************************************************************************)
(* get_or_create_conversation finds a conversation and loses none.         *)
(***************************************************************************)
LEMMA FoundIsOpen ==
    ASSUME Typed
    PROVE  /\ Opened \in Seq(Status) /\ Len(convs) \in Nat
           /\ Len(convs) <= Len(Opened)
           /\ Found \in 1 .. Len(Opened)
<1>1. convs \in Seq(Status) /\ DOMAIN convs = 1 .. Len(convs) /\ Len(convs) \in Nat
  BY DEF Typed
<1>2. "pending" \in Status
  BY DEF Status, ActiveStatuses
<1>3. Active \subseteq 1 .. Len(convs)
  BY <1>1 DEF Active
<1>4. CASE Active = {}
  BY <1>1, <1>2, <1>4 DEF Opened, Found
<1>5. CASE Active # {}
  <2>1. Max(Active) \in Active
    BY <1>1, <1>3, <1>5, GreatestIsThere, Zenon
  <2>2. Opened = convs /\ Found = Max(Active)
    BY <1>5 DEF Opened, Found
  <2>3. Found \in 1 .. Len(convs)
    BY <1>3, <2>1, <2>2, Zenon
  <2> QED
    BY <1>1, <2>2, <2>3
<1> QED
  BY <1>4, <1>5

-----------------------------------------------------------------------------
(***************************************************************************)
(* The first invariant is inductive.                                       *)
(***************************************************************************)
\* Nothing that a task refers to is taken away.
Grown ==
    /\ UNCHANGED kind
    /\ convs' \in Seq(Status) /\ Len(convs) <= Len(convs')
    /\ stored' \in [Sid -> [conv: 0 .. Len(convs'), handoff: BOOLEAN]]
    /\ \A s \in Sid : stored'[s] = stored[s] \/ stored[s].conv = 0
    /\ replies' \in Seq(Reply') /\ Len(replies) <= Len(replies')
    /\ \A r \in DOMAIN replies :
          replies'[r].sid = replies[r].sid /\ replies'[r].conv = replies[r].conv

(***************************************************************************)
(* A task that did not move still fits: rows of messages are written once. *)
(***************************************************************************)
LEMMA OthersFit ==
    ASSUME IInv, Grown, NEW u \in Task,
           at'[u] = at[u], state'[u] = state[u], loc'[u] = loc[u]
    PROVE  Fits(u)'
<1>1. u.sid \in Sid /\ loc[u].reply \in 0 .. Len(replies) /\ replies \in Seq(Reply)
  BY TaskFields DEF IInv, Typed, Locals
<1>2. OnPath(u) /\ Refers(u) /\ ForTheRow(u)
  BY DEF IInv, Fits
<1>3. OnPath(u)' /\ Refers(u)'
  BY <1>1, <1>2 DEF Grown, OnPath, Refers, Live
<1>4. ForTheRow(u)'
  <2>1. stored[u.sid] = [conv |-> loc[u].conv, handoff |-> Handoff(u)] /\ loc[u].conv # 0
           => stored'[u.sid] = stored[u.sid]
    BY <1>1 DEF Grown
  <2>2. at[u] \in {"transit", "chain"} => loc[u].conv # 0
    BY <1>2 DEF OnPath, Refers
  <2>3. stored[u.sid] = [conv |-> loc[u].conv, handoff |-> FALSE] /\ loc[u].conv # 0
           => stored'[u.sid] = stored[u.sid]
    BY <1>1 DEF Grown
  <2>4. Handoff(u)' = Handoff(u) /\ Live(u)' = Live(u)
    BY DEF Handoff, Live
  <2> QED
    BY <1>2, <2>1, <2>2, <2>3, <2>4 DEF ForTheRow
<1> QED
  BY <1>3, <1>4 DEF Fits

LEMMA LocalsGrow ==
    ASSUME IInv, Grown, NEW u \in Task
    PROVE  loc[u] \in Locals'
<1>1. loc[u] \in Locals /\ convs \in Seq(Status) /\ replies \in Seq(Reply)
  BY DEF IInv, Typed
<1>2. 0 .. Len(convs) \subseteq 0 .. Len(convs') /\ 0 .. Len(replies) \subseteq 0 .. Len(replies')
  BY <1>1 DEF Grown
<1> QED
  BY <1>1, <1>2 DEF Locals

(***************************************************************************)
(* A step of a handler that leaves the queue alone.                        *)
(***************************************************************************)
LEMMA HandlerKeeps ==
    ASSUME IInv, Grown, NEW t \in Task, at[t] # "idle",
           NEW l \in Label \ {"idle"}, at' = [at EXCEPT ![t] = l],
           NEW p \in Locals', loc' = [loc EXCEPT ![t] = p],
           UNCHANGED queue,
           received' \in [Sid -> Seq(1 .. Parts)],
           refused' \in [Sid -> Nat], moves' \in Nat, faults' \in 0 .. MaxFaults,
           Fits(t)', RepliesFit'
    PROVE  IInv'
<1> USE DEF IInv
<1>1. \A u \in Task : loc[u] \in Locals'
  BY LocalsGrow
<1>2. loc' \in [Task -> Locals']
  BY <1>1 DEF Typed
<1>3. at' \in [Task -> Label]
  BY DEF Typed
<1>4. Typed'
  BY <1>2, <1>3 DEF Typed, Grown, queue
<1>5. Held'
  BY DEF Held, Typed, queue
<1>6. \A u \in Task \ {t} : Fits(u)'
  BY OthersFit DEF Typed, queue
<1> QED
  BY <1>4, <1>5, <1>6

(***************************************************************************)
(* A handler, or nobody, submits a task.                                   *)
(***************************************************************************)
LEMMA SubmitKeeps ==
    ASSUME IInv, UNCHANGED <<channel, holder, runs, moves, refused, faults>>,
           \/ UNCHANGED at
           \/ \E t \in Task : at[t] # "idle" /\ at' = [at EXCEPT ![t] = "ack"],
           NEW type \in Type, NEW s \in Sid, NEW p \in Locals, Enqueue(type, s, p),
           type = "send" => p.reply # 0 /\ replies[p.reply].sid = s,
           type \in {"transcribe", "answer"} =>
                /\ p.conv # 0
                /\ stored[s] = [conv |-> p.conv, handoff |-> FALSE]
    PROVE  IInv'
<1> USE DEF IInv
<1>1. \/ \E u \in Task : /\ u.type = type /\ u.sid = s
                         /\ state[u] = "new"
                         /\ state' = [state EXCEPT ![u] = "waiting"]
                         /\ loc' = [loc EXCEPT ![u] = p]
      \/ UNCHANGED <<state, loc>>
  BY Enqueues
<1>2. UNCHANGED <<kind, convs, stored, replies, received>>
  BY DEF channel
<1>3. Typed'
  <2>1. Locals' = Locals /\ Reply' = Reply
    BY <1>2 DEF Locals, Reply
  <2>2. at' \in [Task -> Label]
    BY DEF Typed, Label
  <2>3. loc' \in [Task -> Locals]
    BY <1>1 DEF Typed
  <2>4. state' \in [Task -> {"new", "waiting", "taken", "finished", "buried"}]
    BY <1>1 DEF Typed
  <2> QED
    BY <1>2, <2>1, <2>2, <2>3, <2>4 DEF Typed
<1>4. Held'
  BY <1>1 DEF Held, Typed
<1>5. Grown
  BY <1>2, <1>3 DEF Grown, Typed
<1>6. RepliesFit'
  BY <1>2 DEF RepliesFit
<1>7. ASSUME NEW v \in Task PROVE Fits(v)'
  <2>1. CASE at'[v] = at[v] /\ state'[v] = state[v] /\ loc'[v] = loc[v]
    BY <1>5, <2>1, OthersFit
  <2>2. CASE at'[v] # at[v]
    <3>1. at'[v] = "ack" /\ at[v] # "idle" /\ state[v] = "taken"
      BY <2>2 DEF Typed, Held
    <3>2. loc'[v] = loc[v] /\ state'[v] = state[v]
      BY <1>1, <3>1 DEF Typed
    <3> QED
      BY <1>2, <3>1, <3>2 DEF Fits, OnPath, Refers, ForTheRow, Live, Handoff
  <2>3. CASE at'[v] = at[v] /\ (state'[v] # state[v] \/ loc'[v] # loc[v])
    <3>1. /\ v.type = type /\ v.sid = s /\ state[v] = "new"
          /\ state'[v] = "waiting" /\ loc'[v] = p
      BY <1>1, <2>3 DEF Typed
    <3>2. at'[v] = "idle"
      BY <2>3, <3>1 DEF Held
    <3> QED
      BY <1>2, <3>1, <3>2 DEF Fits, OnPath, Refers, ForTheRow
  <2> QED
    BY <2>1, <2>2, <2>3
<1> QED
  BY <1>3, <1>4, <1>6, <1>7

(***************************************************************************)
(* The queue takes a task back, or a worker leaves it behind; the handler  *)
(* has perhaps written what it wrote.                                      *)
(***************************************************************************)
LEMMA LeaveKeeps ==
    ASSUME IInv, Grown, NEW t \in Task, NEW w \in Worker,
           \/ \E s \in {"waiting", "buried"} : Queue!Release(t, w, s) /\ UNCHANGED loc
           \/ Queue!Release(t, w, "finished") /\ loc' = [loc EXCEPT ![t] = NoLocals]
           \/ Queue!Abandon(t, w) /\ UNCHANGED loc,
           at' = [at EXCEPT ![t] = "idle"],
           received' \in [Sid -> Seq(1 .. Parts)],
           refused' \in [Sid -> Nat], moves' \in Nat, faults' \in 0 .. MaxFaults,
           RepliesFit'
    PROVE  IInv'
<1> USE DEF IInv
<1>1. /\ state[t] = "taken"
      /\ holder' = [holder EXCEPT ![t] = {}]
      /\ \E s \in {"waiting", "finished", "buried", "taken"} : state' = [state EXCEPT ![t] = s]
      /\ UNCHANGED runs
  BY DEF Queue!Release, Queue!Abandon, Typed
<1>2. \/ UNCHANGED loc
      \/ loc' = [loc EXCEPT ![t] = NoLocals] /\ state' = [state EXCEPT ![t] = "finished"]
  BY DEF Queue!Release
<1>3. loc' \in [Task -> Locals']
  <2>1. \A u \in Task : loc[u] \in Locals'
    BY LocalsGrow
  <2>2. Len(convs') \in Nat /\ Len(replies') \in Nat /\ 1 \in 1 .. Parts
    BY ChannelAssumption DEF Grown
  <2>3. NoLocals \in Locals'
    BY <2>2 DEF NoLocals, Locals, Status, ActiveStatuses
  <2> QED
    BY <1>2, <2>1, <2>3 DEF Typed
<1>4. Typed'
  BY <1>1, <1>3 DEF Typed, Grown, Label
<1>5. Held'
  BY <1>1 DEF Held, Typed
<1>6. Fits(t)'
  <2>1. /\ at'[t] = "idle" /\ OnPath(t)'
        /\ t.sid \in Sid /\ loc[t].reply \in 0 .. Len(replies) /\ replies \in Seq(Reply)
    BY TaskFields DEF OnPath, Typed, Locals
  <2>2. CASE UNCHANGED loc
    <3>1. Live(t) /\ Refers(t) /\ ForTheRow(t)
      BY <1>1 DEF Live, Fits
    <3>2. Refers(t)'
      BY <2>1, <2>2, <3>1 DEF Grown, Refers
    <3>3. ForTheRow(t)'
      <4>1. stored[t.sid] = [conv |-> loc[t].conv, handoff |-> FALSE] /\ loc[t].conv # 0
               => stored'[t.sid] = stored[t.sid]
        BY <2>1 DEF Grown
      <4> QED
        BY <2>1, <2>2, <3>1, <4>1 DEF ForTheRow
    <3> QED
      BY <2>1, <3>2, <3>3 DEF Fits
  <2>3. CASE state' = [state EXCEPT ![t] = "finished"]
    <3>1. ~ Live(t)'
      BY <2>3 DEF Live, Typed
    <3> QED
      BY <2>1, <3>1 DEF Fits, Refers, ForTheRow
  <2> QED
    BY <1>2, <2>2, <2>3
<1>7. \A u \in Task \ {t} : Fits(u)'
  <2>1. \A u \in Task \ {t} : at'[u] = at[u] /\ state'[u] = state[u] /\ loc'[u] = loc[u]
    BY <1>1, <1>2 DEF Typed
  <2> QED
    BY <2>1, OthersFit
<1> QED
  BY <1>4, <1>5, <1>6, <1>7

\* The rows stay as they are.
LEMMA SameGrown ==
    ASSUME IInv, UNCHANGED channel
    PROVE  Grown /\ RepliesFit' /\ received' \in [Sid -> Seq(1 .. Parts)]
<1> USE DEF IInv
<1>1. UNCHANGED <<kind, convs, stored, replies, received>>
  BY DEF channel
<1>2. Reply' = Reply
  BY <1>1 DEF Reply
<1>3. Grown
  BY <1>1, <1>2 DEF Grown, Typed
<1> QED
  BY <1>1, <1>3 DEF RepliesFit, Typed

LEMMA FirstPart ==
    ASSUME NEW l \in Locals
    PROVE  [l EXCEPT !.part = 1] \in Locals
<1>1. 1 \in 1 .. Parts
  BY ChannelAssumption
<1> QED
  BY <1>1 DEF Locals

LEMMA TakeKeeps ==
    ASSUME IInv, NEW t \in Task, NEW w \in Worker, Take(t, w)
    PROVE  IInv'
<1> USE DEF IInv
<1>1. /\ state[t] = "waiting"
      /\ state' = [state EXCEPT ![t] = "taken"]
      /\ holder' = [holder EXCEPT ![t] = {w}]
      /\ runs' = [runs EXCEPT ![t] = @ + 1]
      /\ at' = [at EXCEPT ![t] = Entry[t.type]]
      /\ loc' = [loc EXCEPT ![t].part = 1]
      /\ UNCHANGED <<kind, convs, stored, replies, received, moves, refused, faults>>
  BY DEF Take, Queue!Take, Goto, channel
<1>2. /\ Entry[t.type] \in Label \ {"idle"}
      /\ t.type = "event" <=> Entry[t.type] = "resolve"
      /\ t.type = "transcribe" <=> Entry[t.type] = "transcribe"
      /\ t.type = "answer" <=> Entry[t.type] = "think"
      /\ t.type = "send" <=> Entry[t.type] = "send"
      /\ t.type \in Type
  BY TaskFields
<1>3. loc' = [loc EXCEPT ![t] = [@ EXCEPT !.part = 1]] /\ loc[t] \in Locals
  BY <1>1 DEF Typed
<1>4. Typed'
  <2>1. Locals' = Locals /\ Reply' = Reply
    BY <1>1 DEF Locals, Reply
  <2>2. [loc[t] EXCEPT !.part = 1] \in Locals
    BY <1>3, FirstPart
  <2>3. loc' \in [Task -> Locals]
    BY <1>3, <2>2 DEF Typed
  <2>4. at' \in [Task -> Label]
    BY <1>1, <1>2 DEF Typed
  <2>5. /\ state' \in [Task -> {"new", "waiting", "taken", "finished", "buried"}]
        /\ holder' \in [Task -> SUBSET Worker]
        /\ runs' \in [Task -> Nat]
    BY <1>1 DEF Typed
  <2> QED
    BY <1>1, <2>1, <2>3, <2>4, <2>5 DEF Typed
<1>5. Held'
  BY <1>1, <1>2 DEF Held, Typed
<1>6. Grown
  BY <1>1, <1>4 DEF Grown, Typed
<1>7. RepliesFit'
  BY <1>1 DEF RepliesFit
<1>8. Fits(t)'
  <2>1. Fits(t)
    OBVIOUS
  <2>2. /\ state'[t] = "taken" /\ at'[t] = Entry[t.type]
        /\ loc'[t].conv = loc[t].conv /\ loc'[t].reply = loc[t].reply
    BY <1>1, <1>3 DEF Typed, Locals
  <2> QED
    BY <1>1, <1>2, <2>1, <2>2 DEF Fits, OnPath, Refers, ForTheRow, Live, Type
<1>9. \A u \in Task \ {t} : Fits(u)'
  BY <1>1, <1>6, OthersFit DEF Typed
<1> QED
  BY <1>4, <1>5, <1>7, <1>8, <1>9

(***************************************************************************)
(* A handler returns: it is skipped, refused, or swallows what was raised. *)
(***************************************************************************)
LEMMA ReturnKeeps ==
    ASSUME IInv, NEW t \in Task, at[t] # "idle", Goto(t, "ack"),
           UNCHANGED <<channel, queue, loc, moves>>, refused' \in [Sid -> Nat],
           faults' \in 0 .. MaxFaults
    PROVE  IInv'
<1> USE DEF IInv
<1>1. UNCHANGED <<kind, convs, stored, replies, received>> /\ UNCHANGED <<state, holder, runs>>
  BY DEF channel, queue
<1>2. Locals' = Locals /\ Reply' = Reply
  BY <1>1 DEF Locals, Reply
<1>3. Grown
  BY <1>1, <1>2 DEF Grown, Typed
<1>4. loc[t] \in Locals' /\ loc' = [loc EXCEPT ![t] = loc[t]]
  BY <1>2 DEF Typed
<1>5. at' = [at EXCEPT ![t] = "ack"] /\ "ack" \in Label \ {"idle"}
  BY DEF Goto, Label
<1>6. Fits(t)'
  <2>1. Fits(t) /\ at'[t] = "ack"
    BY <1>5 DEF Typed
  <2> QED
    BY <1>1, <2>1 DEF Fits, OnPath, Refers, ForTheRow, Live
<1>7. RepliesFit'
  BY <1>1 DEF RepliesFit
<1>8. received' \in [Sid -> Seq(1 .. Parts)] /\ moves' \in Nat
  BY <1>1 DEF Typed
<1> QED
  BY <1>3, <1>4, <1>5, <1>6, <1>7, <1>8, HandlerKeeps

LEMMA FaultIsBounded ==
    ASSUME Typed, Fault
    PROVE  faults' \in 0 .. MaxFaults /\ faults' = faults + 1
  BY ChannelAssumption DEF Typed, Fault

LEMMA LocalsOfOpen ==
    ASSUME NEW l \in Locals', NEW c \in 0 .. Len(convs'), NEW h \in Status
    PROVE  LET p == [[l EXCEPT !.conv = c] EXCEPT !.seen = h]
           IN  p \in Locals' /\ p.conv = c
<1>1. [l EXCEPT !.conv = c] \in Locals' /\ [l EXCEPT !.conv = c].conv = c
  BY DEF Locals
<1> QED
  BY <1>1 DEF Locals

LEMMA OpenKeeps ==
    ASSUME IInv, NEW t \in Task, Open(t)
    PROVE  IInv'
<1> USE DEF IInv
<1>1. /\ at[t] = "resolve" /\ at[t] # "idle"
      /\ convs' = Opened
      /\ UNCHANGED <<kind, stored, replies, received, state, holder, runs, moves, refused, faults>>
  BY DEF Open, queue
<1>2. /\ convs' \in Seq(Status) /\ Len(convs) \in Nat /\ Len(convs) <= Len(convs')
      /\ Found \in 1 .. Len(convs')
  BY <1>1, FoundIsOpen
<1>3. Reply \subseteq Reply' /\ 0 .. Len(convs) \subseteq 0 .. Len(convs')
  BY <1>2 DEF Reply
<1>4. replies' \in Seq(Reply')
  BY <1>1, <1>3 DEF Typed
<1>5. stored' \in [Sid -> [conv: 0 .. Len(convs'), handoff: BOOLEAN]]
  BY <1>1, <1>3 DEF Typed
<1>6. Grown
  BY <1>1, <1>2, <1>4, <1>5 DEF Grown, Typed
<1> DEFINE h == Opened[Found]
           q == [loc[t] EXCEPT !.conv = Found]
           p == [q EXCEPT !.seen = h]
<1>7. loc[t] \in Locals'
  BY <1>6, LocalsGrow
<1>8. p \in Locals' /\ p.conv = Found
  <2>1. h \in Status
    BY FoundIsOpen
  <2>2. Found \in 0 .. Len(convs')
    BY <1>2
  <2> HIDE DEF h
  <2> QED
    BY <1>7, <2>1, <2>2, LocalsOfOpen
<1>9. loc' = [loc EXCEPT ![t] = p]
  BY DEF Open, Typed
<1>10. Flow(t.sid) \in Label \ {"idle"} /\ at' = [at EXCEPT ![t] = Flow(t.sid)]
  BY DEF Open, Goto, Flow, Label
<1> HIDE DEF p
<1>11. Fits(t)'
  <2>1. OnPath(t)
    BY DEF Fits
  <2>2. t.type = "event"
    BY <1>1, <2>1 DEF OnPath
  <2>3. /\ at'[t] = IF kind[t.sid] = "local" THEN "send" ELSE "store"
        /\ loc'[t].conv # 0
    BY <1>2, <1>8, <1>9, <1>10 DEF Typed, Flow
  <2> QED
    BY <1>1, <2>2, <2>3 DEF Fits, OnPath, Refers, ForTheRow
<1>12. RepliesFit'
  BY <1>1 DEF RepliesFit
<1>13. /\ received' \in [Sid -> Seq(1 .. Parts)] /\ moves' \in Nat
       /\ refused' \in [Sid -> Nat] /\ faults' \in 0 .. MaxFaults /\ UNCHANGED queue
  BY <1>1 DEF Typed, queue
<1> QED
  BY <1>1, <1>6, <1>8, <1>9, <1>10, <1>11, <1>12, <1>13, HandlerKeeps

LEMMA StoreKeeps ==
    ASSUME IInv, NEW t \in Task, Store(t)
    PROVE  IInv'
<1> USE DEF IInv
<1>1. /\ at[t] = "store" /\ at[t] # "idle"
      /\ UNCHANGED <<kind, convs, replies, received, state, holder, runs, loc, moves, refused, faults>>
  BY DEF Store, queue
<1>2. Fits(t) /\ t.sid \in Sid /\ loc[t] \in Locals
  BY TaskFields DEF Typed
<1>3. t.type = "event" /\ kind[t.sid] # "local" /\ loc[t].conv # 0
  BY <1>1, <1>2 DEF Fits, OnPath, Refers
<1>4. CASE AlreadyStored(t.sid)
  BY <1>1, <1>4, ReturnKeeps DEF Store, Duplicate, channel, queue, Typed
<1>5. CASE ~AlreadyStored(t.sid)
  <2>1. /\ stored' = [stored EXCEPT ![t.sid] = [conv |-> loc[t].conv, handoff |-> Handoff(t)]]
        /\ at' = [at EXCEPT ![t] = "transit"]
        /\ stored[t.sid].conv = 0
    BY <1>5 DEF Store, AlreadyStored, Goto
  <2>2. [conv |-> loc[t].conv, handoff |-> Handoff(t)] \in [conv: 0 .. Len(convs), handoff: BOOLEAN]
    BY <1>2 DEF Locals, Handoff
  <2>3. Locals' = Locals /\ Reply' = Reply
    BY <1>1 DEF Locals, Reply
  <2>4. Grown
    <3>1. stored' \in [Sid -> [conv: 0 .. Len(convs'), handoff: BOOLEAN]]
      BY <1>1, <2>1, <2>2 DEF Typed
    <3>2. \A s \in Sid : stored'[s] = stored[s] \/ stored[s].conv = 0
      BY <2>1 DEF Typed
    <3> QED
      BY <1>1, <2>3, <3>1, <3>2 DEF Grown, Typed
  <2>5. loc[t] \in Locals' /\ loc' = [loc EXCEPT ![t] = loc[t]]
    BY <1>1, <1>2, <2>3 DEF Typed
  <2>6. "transit" \in Label \ {"idle"}
    BY DEF Label
  <2>7. Fits(t)'
    <3>1. /\ at'[t] = "transit"
          /\ stored'[t.sid] = [conv |-> loc[t].conv, handoff |-> Handoff(t)]
          /\ Handoff(t)' = Handoff(t)
      BY <1>1, <1>2, <2>1 DEF Typed, Handoff
    <3> QED
      BY <1>1, <1>3, <3>1 DEF Fits, OnPath, Refers, ForTheRow
  <2>8. RepliesFit'
    <3>1. ASSUME NEW r \in DOMAIN replies, kind[replies[r].sid] # "local"
          PROVE  stored'[replies[r].sid] = [conv |-> replies[r].conv, handoff |-> FALSE]
      <4>1. stored[replies[r].sid] = [conv |-> replies[r].conv, handoff |-> FALSE]
        BY <3>1 DEF RepliesFit
      <4>2. replies[r] \in Reply
        BY DEF Typed
      <4>3. replies[r].conv # 0 /\ replies[r].sid \in Sid
        BY <4>2 DEF Reply, Typed
      <4>4. replies[r].sid # t.sid
        BY <2>1, <4>1, <4>3
      <4> QED
        BY <2>1, <4>1, <4>3, <4>4 DEF Typed
    <3> QED
      BY <1>1, <3>1 DEF RepliesFit
  <2>9. /\ received' \in [Sid -> Seq(1 .. Parts)] /\ moves' \in Nat
        /\ refused' \in [Sid -> Nat] /\ faults' \in 0 .. MaxFaults /\ UNCHANGED queue
    BY <1>1 DEF Typed, queue
  <2> QED
    BY <1>1, <2>1, <2>4, <2>5, <2>6, <2>7, <2>8, <2>9, HandlerKeeps
<1> QED
  BY <1>4, <1>5

\* Statuses change, conversations stay.
LEMMA StatusWritten ==
    ASSUME Typed, NEW i \in Nat, NEW s \in Status, convs' = [convs EXCEPT ![i] = s]
    PROVE  convs' \in Seq(Status) /\ Len(convs') = Len(convs)
<1>1. convs \in [1 .. Len(convs) -> Status] /\ Len(convs) \in Nat
  BY DEF Typed
<1>2. convs' \in [1 .. Len(convs) -> Status]
  BY <1>1
<1> QED
  BY <1>1, <1>2

(***************************************************************************)
(* A step of a handler that leaves the rows of messages and the sequence   *)
(* of conversations alone, but for their statuses.                         *)
(***************************************************************************)
LEMMA StatusStepKeeps ==
    ASSUME IInv, NEW t \in Task, at[t] # "idle",
           NEW l \in Label \ {"idle"}, Goto(t, l),
           NEW p \in Locals, loc' = [loc EXCEPT ![t] = p],
           convs' \in Seq(Status), Len(convs') = Len(convs),
           UNCHANGED <<kind, stored, replies, queue, moves, faults>>,
           refused' \in [Sid -> Nat],
           received' \in [Sid -> Seq(1 .. Parts)],
           Fits(t)'
    PROVE  IInv'
<1> USE DEF IInv
<1>1. Locals' = Locals /\ Reply' = Reply
  BY DEF Locals, Reply
<1>2. Grown
  BY <1>1 DEF Grown, Typed
<1>3. RepliesFit'
  BY DEF RepliesFit
<1>4. moves' \in Nat /\ faults' \in 0 .. MaxFaults /\ at' = [at EXCEPT ![t] = l]
  BY DEF Typed, Goto
<1> QED
  BY <1>1, <1>2, <1>3, <1>4, HandlerKeeps

\* A transition is written, or none was asked for.
LEMMA TransitionWritten ==
    ASSUME Typed, NEW t \in Task, NEW i \in Nat,
           (Farewell(t) /\ loc[t].conv \in Nat) \/ Acceptance(t, i)
    PROVE  convs' \in Seq(Status) /\ Len(convs') = Len(convs)
<1>1. "user_closed" \in Status /\ "progress" \in Status
  BY DEF Status, ClosedStatuses, ActiveStatuses
<1>2. CASE UNCHANGED convs
  BY <1>2 DEF Typed
<1>3. ASSUME NEW k \in Nat, NEW to \in Status, Moved(k, to)
      PROVE  convs' \in Seq(Status) /\ Len(convs') = Len(convs)
  BY <1>3, StatusWritten DEF Moved
<1> QED
  BY <1>1, <1>2, <1>3 DEF Farewell, Acceptance

LEMMA TransitKeeps ==
    ASSUME IInv, NEW t \in Task, Transit(t)
    PROVE  IInv'
<1> USE DEF IInv
<1> DEFINE l == IF Handoff(t) THEN "ack" ELSE "chain"
<1>1. /\ at[t] = "transit" /\ at[t] # "idle" /\ Goto(t, l)
      /\ UNCHANGED <<kind, stored, replies, received, queue, loc, moves, refused, faults>>
  BY DEF Transit
<1>2. UNCHANGED <<state, holder, runs>> /\ received' \in [Sid -> Seq(1 .. Parts)]
      /\ refused' \in [Sid -> Nat]
  BY <1>1 DEF queue, Typed
<1>3. loc[t] \in Locals /\ loc' = [loc EXCEPT ![t] = loc[t]]
  BY <1>1 DEF Typed
<1>4. convs' \in Seq(Status) /\ Len(convs') = Len(convs)
  <2>1. loc[t].conv \in Nat
    BY <1>3 DEF Locals
  <2> QED
    BY <2>1, TransitionWritten DEF Transit
<1>5. l \in Label \ {"idle"}
  BY DEF Label
<1>6. Fits(t)'
  <2>1. Fits(t) /\ at'[t] = l /\ Handoff(t)' = Handoff(t)
    BY <1>1 DEF Goto, Typed, Handoff
  <2> QED
    BY <1>1, <1>2, <2>1 DEF Fits, OnPath, Refers, ForTheRow, Live
<1> QED
  BY <1>1, <1>2, <1>3, <1>4, <1>5, <1>6, StatusStepKeeps

LEMMA AcceptKeeps ==
    ASSUME IInv, NEW t \in Task, Accept(t)
    PROVE  IInv'
<1> USE DEF IInv
<1>1. /\ at[t] = "accept" /\ at[t] # "idle" /\ Goto(t, "submit")
      /\ UNCHANGED <<kind, stored, replies, received, queue, loc, moves, refused, faults>>
  BY DEF Accept
<1>2. UNCHANGED <<state, holder, runs>> /\ received' \in [Sid -> Seq(1 .. Parts)]
      /\ refused' \in [Sid -> Nat]
  BY <1>1 DEF queue, Typed
<1>3. /\ loc[t] \in Locals /\ loc' = [loc EXCEPT ![t] = loc[t]]
      /\ Fits(t) /\ at'[t] = "submit"
  BY <1>1 DEF Typed, Goto
<1>4. loc[t].via \in Nat
  BY <1>3 DEF Locals
<1>5. convs' \in Seq(Status) /\ Len(convs') = Len(convs)
  BY <1>4, TransitionWritten DEF Accept
<1>6. "submit" \in Label \ {"idle"}
  BY DEF Label
<1>7. Fits(t)'
  BY <1>1, <1>2, <1>3 DEF Fits, OnPath, Refers, ForTheRow, Live
<1> QED
  BY <1>1, <1>2, <1>3, <1>5, <1>6, <1>7, StatusStepKeeps

LEMMA RefusalCounted ==
    ASSUME Typed, NEW t \in Task, CountRefusal(t.sid)
    PROVE  /\ refused' \in [Sid -> Nat]
           /\ refused'[t.sid] = refused[t.sid] + 1
           /\ \A s \in Sid : refused'[s] >= refused[s]
<1>1. t.sid \in Sid /\ refused \in [Sid -> Nat]
  BY TaskFields DEF Typed
<1> QED
  BY <1>1 DEF CountRefusal

LEMMA AcceptRefusedKeeps ==
    ASSUME IInv, NEW t \in Task, AcceptRefused(t)
    PROVE  IInv'
<1>1. refused' \in [Sid -> Nat] /\ faults' \in 0 .. MaxFaults
  BY RefusalCounted DEF AcceptRefused, IInv, Typed
<1> QED
  BY <1>1, ReturnKeeps DEF AcceptRefused

LEMMA SendPartKeeps ==
    ASSUME IInv, NEW t \in Task, SendPart(t)
    PROVE  IInv'
<1> USE DEF IInv
<1>1. /\ at[t] = "send" /\ at[t] # "idle"
      /\ UNCHANGED <<kind, convs, stored, replies, queue, moves, refused, faults>>
  BY DEF SendPart
<1>2. UNCHANGED <<state, holder, runs>> /\ convs' \in Seq(Status) /\ Len(convs') = Len(convs)
      /\ refused' \in [Sid -> Nat]
  BY <1>1 DEF queue, Typed
<1>3. loc[t] \in Locals /\ Fits(t) /\ t.sid \in Sid
  BY TaskFields DEF Typed
<1>4. received' \in [Sid -> Seq(1 .. Parts)]
  <2>1. loc[t].part \in 1 .. Parts /\ received[t.sid] \in Seq(1 .. Parts)
    BY <1>3 DEF Locals, Typed
  <2>2. Append(received[t.sid], loc[t].part) \in Seq(1 .. Parts)
    BY <2>1
  <2> QED
    BY <2>2 DEF SendPart, Typed
<1>5. Parts \in Nat \ {0}
  BY ChannelAssumption
<1>6. CASE loc[t].part < Parts
  <2> DEFINE p == [loc[t] EXCEPT !.part = @ + 1]
  <2>1. p \in Locals
    BY <1>3, <1>5, <1>6 DEF Locals
  <2>2. loc' = [loc EXCEPT ![t] = p] /\ Goto(t, "send")
    BY <1>1, <1>6 DEF SendPart, Typed, Goto
  <2>3. Fits(t)'
    <3>1. /\ at'[t] = at[t] /\ loc'[t].conv = loc[t].conv /\ loc'[t].reply = loc[t].reply
      BY <1>1, <1>3, <2>2 DEF Typed, Locals, Goto
    <3> QED
      BY <1>1, <1>2, <1>3, <3>1 DEF Fits, OnPath, Refers, ForTheRow, Live, Handoff
  <2>4. "send" \in Label \ {"idle"}
    BY DEF Label
  <2> HIDE DEF p
  <2> QED
    BY <1>1, <1>2, <1>4, <2>1, <2>2, <2>3, <2>4, StatusStepKeeps
<1>7. CASE ~ (loc[t].part < Parts)
  <2> DEFINE p == [loc[t] EXCEPT !.part = 1]
             l == IF t.type = "event" THEN "persist" ELSE "record"
  <2>1. p \in Locals
    BY <1>3, <1>5 DEF Locals
  <2>2. loc' = [loc EXCEPT ![t] = p] /\ Goto(t, l)
    BY <1>1, <1>7 DEF SendPart, Typed
  <2>3. Fits(t)'
    <3>1. /\ at'[t] = l /\ loc'[t].conv = loc[t].conv /\ loc'[t].reply = loc[t].reply
      BY <1>1, <1>3, <2>2 DEF Typed, Locals, Goto
    <3> QED
      BY <1>1, <1>2, <1>3, <3>1 DEF Fits, OnPath, Refers, ForTheRow, Live, Handoff
  <2>4. l \in Label \ {"idle"}
    BY DEF Label
  <2> HIDE DEF p, l
  <2> QED
    BY <1>1, <1>2, <1>4, <2>1, <2>2, <2>3, <2>4, StatusStepKeeps
<1> QED
  BY <1>6, <1>7

(***************************************************************************)
(* A row of the bot is added.                                              *)
(***************************************************************************)
LEMMA ReplyAdded ==
    ASSUME IInv, NEW r \in Reply, replies' = Append(replies, r),
           convs' \in Seq(Status), Len(convs') = Len(convs),
           UNCHANGED <<kind, stored>>,
           kind[r.sid] # "local" => stored[r.sid] = [conv |-> r.conv, handoff |-> FALSE]
    PROVE  /\ Grown /\ RepliesFit'
           /\ Len(replies) \in Nat /\ Len(replies') = Len(replies) + 1
           /\ replies'[Len(replies) + 1] = r
           /\ \A i \in 1 .. Len(replies) : replies'[i] = replies[i]
<1> USE DEF IInv
<1>1. replies \in Seq(Reply) /\ Reply' = Reply
  BY DEF Typed, Reply
<1>2. /\ replies' \in Seq(Reply) /\ Len(replies) \in Nat /\ Len(replies') = Len(replies) + 1
      /\ replies'[Len(replies) + 1] = r
      /\ \A i \in 1 .. Len(replies) : replies'[i] = replies[i]
      /\ DOMAIN replies = 1 .. Len(replies) /\ DOMAIN replies' = 1 .. (Len(replies) + 1)
  BY <1>1
<1>3. Grown
  BY <1>1, <1>2 DEF Grown, Typed
<1>4. RepliesFit'
  <2>1. ASSUME NEW i \in DOMAIN replies', kind[replies'[i].sid] # "local"
        PROVE  stored[replies'[i].sid] = [conv |-> replies'[i].conv, handoff |-> FALSE]
    <3>1. CASE i = Len(replies) + 1
      BY <1>2, <2>1, <3>1
    <3>2. CASE i \in 1 .. Len(replies)
      BY <1>2, <2>1, <3>2 DEF RepliesFit
    <3>3. i \in 1 .. (Len(replies) + 1)
      BY <1>2, <2>1
    <3>4. i = Len(replies) + 1 \/ i \in 1 .. Len(replies)
      BY <1>2, <3>3
    <3> QED
      BY <3>1, <3>2, <3>4
  <2> QED
    BY <2>1 DEF RepliesFit
<1> QED
  BY <1>2, <1>3, <1>4

\* The row of a local_sender payload.
LEMMA OutboundStored ==
    ASSUME IInv, NEW t \in Task, at[t] = "persist", StoreOutbound(t),
           convs' \in Seq(Status), Len(convs') = Len(convs), UNCHANGED <<kind, stored>>
    PROVE  Grown /\ RepliesFit'
<1> USE DEF IInv
<1> DEFINE r == [sid |-> t.sid, conv |-> loc[t].conv, via |-> loc[t].conv, sent |-> TRUE]
<1>1. loc[t] \in Locals /\ Fits(t) /\ t.sid \in Sid
  BY TaskFields DEF Typed
<1>2. kind[t.sid] = "local" /\ loc[t].conv \in 1 .. Len(convs)
  BY <1>1 DEF Fits, OnPath, Refers, Locals
<1>3. r \in Reply /\ kind[r.sid] = "local" /\ replies' = Append(replies, r)
  BY <1>1, <1>2 DEF Reply, StoreOutbound
<1> HIDE DEF r
<1> QED
  BY <1>3, ReplyAdded

LEMMA PersistOutboundKeeps ==
    ASSUME IInv, NEW t \in Task, PersistOutbound(t)
    PROVE  IInv'
<1> USE DEF IInv
<1>1. /\ at[t] = "persist" /\ at[t] # "idle" /\ at' = [at EXCEPT ![t] = "ack"]
      /\ UNCHANGED <<kind, stored, received, queue, loc, moves, refused, faults>>
  BY DEF PersistOutbound, Goto
<1>2. UNCHANGED <<state, holder, runs>>
  BY <1>1 DEF queue
<1>3. loc[t] \in Locals /\ Fits(t)
  BY DEF Typed
<1>4. convs' \in Seq(Status) /\ Len(convs') = Len(convs)
  <2>1. loc[t].conv \in Nat
    BY <1>3 DEF Locals
  <2> QED
    BY <2>1, TransitionWritten DEF PersistOutbound
<1>5. Grown /\ RepliesFit'
  BY <1>1, <1>4, OutboundStored DEF PersistOutbound
<1>6. loc[t] \in Locals' /\ loc' = [loc EXCEPT ![t] = loc[t]]
  BY <1>1, <1>5, LocalsGrow DEF Typed
<1>7. "ack" \in Label \ {"idle"}
  BY DEF Label
<1>8. Fits(t)'
  <2>1. at'[t] = "ack" /\ t.type = "event"
    BY <1>1, <1>3 DEF Typed, Fits, OnPath
  <2> QED
    BY <1>1, <1>2, <1>3, <2>1 DEF Fits, OnPath, Refers, ForTheRow
<1>9. /\ received' \in [Sid -> Seq(1 .. Parts)] /\ moves' \in Nat
      /\ refused' \in [Sid -> Nat] /\ faults' \in 0 .. MaxFaults
  BY <1>1 DEF Typed
<1> QED
  BY <1>1, <1>5, <1>6, <1>7, <1>8, <1>9, HandlerKeeps

LEMMA RespondKeeps ==
    ASSUME IInv, NEW t \in Task, Respond(t)
    PROVE  IInv'
<1> USE DEF IInv
<1>1. /\ at[t] = "think" /\ at[t] # "idle" /\ at' = [at EXCEPT ![t] = "save"]
      /\ convs' = Opened
      /\ UNCHANGED <<kind, stored, replies, received, state, holder, runs, moves, refused, faults>>
  BY DEF Respond, queue, Goto
<1>2. /\ convs' \in Seq(Status) /\ Len(convs) \in Nat /\ Len(convs) <= Len(convs')
      /\ Found \in 1 .. Len(convs')
  BY <1>1, FoundIsOpen
<1>3. Reply \subseteq Reply' /\ 0 .. Len(convs) \subseteq 0 .. Len(convs')
  BY <1>2 DEF Reply
<1>4. replies' \in Seq(Reply')
  BY <1>1, <1>3 DEF Typed
<1>5. stored' \in [Sid -> [conv: 0 .. Len(convs'), handoff: BOOLEAN]]
  BY <1>1, <1>3 DEF Typed
<1>6. Grown
  BY <1>1, <1>2, <1>4, <1>5 DEF Grown, Typed
<1> DEFINE h == Opened[Found]
           q == [loc[t] EXCEPT !.via = Found]
           p == [q EXCEPT !.seen = h]
<1>7. loc[t] \in Locals'
  BY <1>6, LocalsGrow
<1>8. p \in Locals' /\ p.via = Found /\ p.conv = loc[t].conv
  <2>1. h \in Status
    BY FoundIsOpen
  <2>2. q \in Locals' /\ q.via = Found /\ q.conv = loc[t].conv
    BY <1>2, <1>7 DEF Locals
  <2> HIDE DEF h, q
  <2> QED
    BY <2>1, <2>2 DEF Locals
<1>9. loc' = [loc EXCEPT ![t] = p]
  BY DEF Respond, Typed
<1>10. "save" \in Label \ {"idle"}
  BY DEF Label
<1> HIDE DEF p
<1>11. Fits(t)'
  <2>1. Fits(t) /\ at'[t] = "save" /\ loc'[t] = p
    BY <1>1, <1>9 DEF Typed
  <2>2. t.type = "answer" /\ Found # 0
    BY <1>1, <1>2, <2>1 DEF Fits, OnPath
  <2> QED
    BY <1>1, <1>8, <2>1, <2>2 DEF Fits, OnPath, Refers, ForTheRow, Live
<1>12. RepliesFit'
  BY <1>1 DEF RepliesFit
<1>13. /\ received' \in [Sid -> Seq(1 .. Parts)] /\ moves' \in Nat
       /\ refused' \in [Sid -> Nat] /\ faults' \in 0 .. MaxFaults /\ UNCHANGED queue
  BY <1>1 DEF Typed, queue
<1> QED
  BY <1>1, <1>6, <1>8, <1>9, <1>10, <1>11, <1>12, <1>13, HandlerKeeps

LEMMA SaveReplyKeeps ==
    ASSUME IInv, NEW t \in Task, SaveReply(t)
    PROVE  IInv'
<1> USE DEF IInv
<1> DEFINE r == [sid |-> t.sid, conv |-> loc[t].conv, via |-> loc[t].via, sent |-> FALSE]
           p == [loc[t] EXCEPT !.reply = Len(replies) + 1]
<1>1. /\ at[t] = "save" /\ at[t] # "idle" /\ at' = [at EXCEPT ![t] = "accept"]
      /\ replies' = Append(replies, r)
      /\ UNCHANGED <<kind, convs, stored, received, state, holder, runs, moves, refused, faults>>
  BY DEF SaveReply, queue, Goto
<1>2. loc[t] \in Locals /\ Fits(t) /\ t.sid \in Sid /\ state[t] = "taken"
  BY <1>1, TaskFields DEF Typed, Held
<1>3. t.type = "answer" /\ loc[t].via \in 1 .. Len(convs)
  BY <1>1, <1>2 DEF Fits, OnPath, Refers, Locals
<1>4. /\ loc[t].conv \in 1 .. Len(convs)
      /\ stored[t.sid] = [conv |-> loc[t].conv, handoff |-> FALSE]
  BY <1>2, <1>3 DEF Fits, ForTheRow, Locals, Live
<1>5. r \in Reply
  BY <1>2, <1>3, <1>4 DEF Reply
<1>6. r.sid = t.sid /\ r.conv = loc[t].conv
  OBVIOUS
<1>7. convs' \in Seq(Status) /\ Len(convs') = Len(convs)
  BY <1>1 DEF Typed
<1> HIDE DEF r
<1>8. /\ Grown /\ RepliesFit'
      /\ Len(replies) \in Nat /\ Len(replies') = Len(replies) + 1
      /\ replies'[Len(replies) + 1] = r
  BY <1>1, <1>4, <1>5, <1>6, <1>7, ReplyAdded
<1>9. p \in Locals' /\ p.via = loc[t].via /\ p.conv = loc[t].conv /\ p.reply = Len(replies) + 1
  <2>1. loc[t] \in Locals'
    BY <1>8, LocalsGrow
  <2> QED
    BY <1>8, <2>1 DEF Locals
<1>10. loc' = [loc EXCEPT ![t] = p]
  BY DEF SaveReply, Typed
<1>11. "accept" \in Label \ {"idle"}
  BY DEF Label
<1> HIDE DEF p
<1>12. Fits(t)'
  <2>1. at'[t] = "accept" /\ loc'[t] = p /\ p.reply # 0 /\ p.via # 0
    BY <1>1, <1>3, <1>8, <1>9, <1>10 DEF Typed
  <2>2. replies'[p.reply].sid = t.sid
    BY <1>6, <1>8, <1>9
  <2> QED
    BY <1>1, <1>2, <1>3, <1>9, <2>1, <2>2 DEF Fits, OnPath, Refers, ForTheRow, Live, Handoff
<1>13. /\ received' \in [Sid -> Seq(1 .. Parts)] /\ moves' \in Nat
       /\ refused' \in [Sid -> Nat] /\ faults' \in 0 .. MaxFaults /\ UNCHANGED queue
  BY <1>1 DEF Typed, queue
<1> QED
  BY <1>1, <1>8, <1>9, <1>10, <1>11, <1>12, <1>13, HandlerKeeps

LEMMA RecordKeeps ==
    ASSUME IInv, NEW t \in Task, Record(t)
    PROVE  IInv'
<1> USE DEF IInv
<1>1. /\ at[t] = "record" /\ at[t] # "idle" /\ at' = [at EXCEPT ![t] = "ack"]
      /\ replies' = [replies EXCEPT ![loc[t].reply].sent = TRUE]
      /\ UNCHANGED <<kind, convs, stored, received, state, holder, runs, loc, moves, refused, faults>>
  BY DEF Record, queue, Goto
<1>2. loc[t] \in Locals /\ Fits(t) /\ state[t] = "taken"
  BY <1>1, TaskFields DEF Typed, Held
<1>3. t.type = "send" /\ loc[t].reply \in 1 .. Len(replies)
  BY <1>1, <1>2 DEF Fits, OnPath, Refers, Locals, Live
<1>4. replies \in [1 .. Len(replies) -> Reply] /\ Len(replies) \in Nat /\ Reply' = Reply
  <2>1. replies \in Seq(Reply)
    BY DEF Typed
  <2>2. Reply' = Reply
    BY <1>1 DEF Reply
  <2> QED
    BY <2>1, <2>2
<1>5. [replies[loc[t].reply] EXCEPT !.sent = TRUE] \in Reply
  BY <1>3, <1>4 DEF Reply
<1>6. replies' \in [1 .. Len(replies) -> Reply]
  BY <1>1, <1>3, <1>4, <1>5
<1>7. replies' \in Seq(Reply') /\ Len(replies') = Len(replies) /\ DOMAIN replies = 1 .. Len(replies)
      /\ DOMAIN replies' = 1 .. Len(replies)
  BY <1>4, <1>6
<1>8. \A i \in DOMAIN replies : replies'[i].sid = replies[i].sid /\ replies'[i].conv = replies[i].conv
  BY <1>1, <1>4, <1>7 DEF Reply
<1>9. Grown
  BY <1>1, <1>4, <1>7, <1>8 DEF Grown, Typed
<1>10. RepliesFit'
  BY <1>1, <1>7, <1>8 DEF RepliesFit
<1>11. loc[t] \in Locals' /\ loc' = [loc EXCEPT ![t] = loc[t]]
  BY <1>1, <1>9, LocalsGrow DEF Typed
<1>12. "ack" \in Label \ {"idle"}
  BY DEF Label
<1>13. Fits(t)'
  <2>1. at'[t] = "ack" /\ loc'[t] = loc[t]
    BY <1>1 DEF Typed
  <2> QED
    BY <1>1, <1>2, <1>3, <1>7, <1>8, <2>1 DEF Fits, OnPath, Refers, ForTheRow, Live
<1>14. /\ received' \in [Sid -> Seq(1 .. Parts)] /\ moves' \in Nat
       /\ refused' \in [Sid -> Nat] /\ faults' \in 0 .. MaxFaults /\ UNCHANGED queue
  BY <1>1 DEF Typed, queue
<1> QED
  BY <1>1, <1>9, <1>10, <1>11, <1>12, <1>13, <1>14, HandlerKeeps

\* The payloads of the tasks.
LEMMA Payloads ==
    ASSUME Typed
    PROVE  /\ NoLocals \in Locals
           /\ \A c \in 0 .. Len(convs) : /\ [NoLocals EXCEPT !.conv = c] \in Locals
                                         /\ [NoLocals EXCEPT !.conv = c].conv = c
           /\ \A r \in 0 .. Len(replies) : /\ [NoLocals EXCEPT !.reply = r] \in Locals
                                           /\ [NoLocals EXCEPT !.reply = r].reply = r
<1>1. Len(convs) \in Nat /\ Len(replies) \in Nat /\ 1 \in 1 .. Parts
  BY ChannelAssumption DEF Typed
<1>2. NoLocals \in Locals
  BY <1>1 DEF NoLocals, Locals, Status, ActiveStatuses
<1>3. ASSUME NEW c \in 0 .. Len(convs)
      PROVE  [NoLocals EXCEPT !.conv = c] \in Locals /\ [NoLocals EXCEPT !.conv = c].conv = c
  BY <1>1, <1>2 DEF Locals
<1>4. ASSUME NEW r \in 0 .. Len(replies)
      PROVE  [NoLocals EXCEPT !.reply = r] \in Locals /\ [NoLocals EXCEPT !.reply = r].reply = r
  BY <1>1, <1>2 DEF Locals
<1> QED
  BY <1>2, <1>3, <1>4

LEMMA ChainKeeps ==
    ASSUME IInv, NEW t \in Task, Chain(t)
    PROVE  IInv'
<1>1. IInv /\ Typed /\ Fits(t) /\ t.sid \in Sid /\ loc[t] \in Locals
  BY TaskFields DEF IInv, Typed
<1>2. /\ at[t] = "chain" /\ at[t] # "idle" /\ at' = [at EXCEPT ![t] = "ack"]
      /\ UNCHANGED <<channel, moves, refused, faults>>
  BY DEF Chain, Goto
<1> DEFINE c == loc[t].conv
           p == [NoLocals EXCEPT !.conv = c]
<1>3. /\ c \in 0 .. Len(convs) /\ c # 0
      /\ stored[t.sid] = [conv |-> c, handoff |-> FALSE]
  BY <1>1, <1>2 DEF Fits, OnPath, Refers, ForTheRow, Locals, Live, Handoff
<1>4. PICK type \in {"transcribe", "answer"} : Enqueue(type, t.sid, p)
  BY DEF Chain, SubmitTranscription, SubmitAnswer
<1>5. p \in Locals /\ p.conv = c
  BY <1>1, <1>3, Payloads
<1> HIDE DEF p
<1>6. type \in Type /\ type # "send"
  BY DEF Type
<1>7. UNCHANGED <<holder, runs>>
  BY <1>1, <1>4, <1>6, Enqueues
<1> QED
  BY <1>1, <1>2, <1>3, <1>4, <1>5, <1>6, <1>7, SubmitKeeps

LEMMA TranscribeKeeps ==
    ASSUME IInv, NEW t \in Task, Transcribe(t)
    PROVE  IInv'
<1>1. IInv /\ Typed /\ Fits(t) /\ t.sid \in Sid /\ loc[t] \in Locals
  BY TaskFields DEF IInv, Typed
<1>2. /\ at[t] = "transcribe" /\ at[t] # "idle" /\ at' = [at EXCEPT ![t] = "ack"]
      /\ UNCHANGED <<channel, moves, refused, faults>>
  BY DEF Transcribe, Goto
<1> DEFINE c == loc[t].conv
           p == [NoLocals EXCEPT !.conv = c]
<1>3. /\ c \in 0 .. Len(convs) /\ c # 0
      /\ stored[t.sid] = [conv |-> c, handoff |-> FALSE]
  <2>1. t.type = "transcribe" /\ state[t] = "taken"
    BY <1>1, <1>2 DEF Fits, OnPath, IInv, Held
  <2> QED
    BY <1>1, <2>1 DEF Fits, ForTheRow, Locals, Live
<1>4. Enqueue("answer", t.sid, p)
  BY DEF Transcribe, SubmitAnswer
<1>5. p \in Locals /\ p.conv = c
  BY <1>1, <1>3, Payloads
<1> HIDE DEF p
<1>6. "answer" \in Type
  BY DEF Type
<1>7. UNCHANGED <<holder, runs>>
  BY <1>1, <1>4, <1>6, Enqueues
<1> QED
  BY <1>1, <1>2, <1>3, <1>4, <1>5, <1>6, <1>7, SubmitKeeps

LEMMA SubmitSendKeeps ==
    ASSUME IInv, NEW t \in Task, SubmitSend(t)
    PROVE  IInv'
<1>1. IInv /\ Typed /\ Fits(t) /\ t.sid \in Sid /\ loc[t] \in Locals
  BY TaskFields DEF IInv, Typed
<1>2. /\ at[t] = "submit" /\ at[t] # "idle" /\ at' = [at EXCEPT ![t] = "ack"]
      /\ UNCHANGED <<channel, moves, refused, faults>>
  BY DEF SubmitSend, Goto
<1> DEFINE c == loc[t].reply
           p == [NoLocals EXCEPT !.reply = c]
<1>3. c \in 0 .. Len(replies) /\ c # 0 /\ replies[c].sid = t.sid
  BY <1>1, <1>2 DEF Fits, Refers, Locals
<1>4. Enqueue("send", t.sid, p)
  BY DEF SubmitSend
<1>5. p \in Locals /\ p.reply = c
  BY <1>1, <1>3, Payloads
<1> HIDE DEF p
<1>6. "send" \in Type
  BY DEF Type
<1>7. UNCHANGED <<holder, runs>>
  BY <1>1, <1>4, <1>6, Enqueues
<1> QED
  BY <1>1, <1>2, <1>3, <1>4, <1>5, <1>6, <1>7, SubmitKeeps

LEMMA DeliverKeeps ==
    ASSUME IInv, NEW s \in Sid, Deliver(s)
    PROVE  IInv'
<1>1. IInv /\ Typed /\ NoLocals \in Locals
  BY Payloads DEF IInv
<1>2. Enqueue("event", s, NoLocals) /\ UNCHANGED <<channel, at, moves, refused, faults>>
  BY DEF Deliver, Accepted
<1>3. "event" \in Type
  BY DEF Type
<1>4. UNCHANGED <<holder, runs>>
  BY <1>1, <1>2, <1>3, Enqueues
<1> QED
  BY <1>1, <1>2, <1>3, <1>4, SubmitKeeps

LEMMA HandBackKeeps ==
    ASSUME IInv, NEW t \in Task, NEW w \in Worker, HandBack(t, w),
           Grown, RepliesFit', received' \in [Sid -> Seq(1 .. Parts)],
           UNCHANGED <<loc, moves>>, refused' \in [Sid -> Nat], faults' \in 0 .. MaxFaults
    PROVE  IInv'
<1>1. \E s \in {"waiting", "buried"} : Queue!Release(t, w, s)
  <2>1. CASE runs[t] < MaxRuns
    BY <2>1 DEF HandBack
  <2>2. CASE ~ (runs[t] < MaxRuns)
    BY <2>2 DEF HandBack
  <2> QED
    BY <2>1, <2>2
<1>2. at' = [at EXCEPT ![t] = "idle"] /\ moves' \in Nat
  BY DEF HandBack, IInv, Typed
<1> QED
  BY <1>1, <1>2, LeaveKeeps

LEMMA RaiseKeeps ==
    ASSUME IInv, NEW t \in Task, NEW w \in Worker, Raise(t, w)
    PROVE  IInv'
<1>1. /\ at[t] # "idle" /\ faults' \in 0 .. MaxFaults /\ refused' \in [Sid -> Nat]
      /\ UNCHANGED <<channel, loc, moves>>
  BY FaultIsBounded DEF Raise, IInv, Typed
<1>2. CASE Goto(t, "ack") /\ UNCHANGED queue
  BY <1>1, <1>2, ReturnKeeps
<1>3. CASE HandBack(t, w)
  BY <1>1, <1>3, SameGrown, HandBackKeeps
<1> QED
  BY <1>2, <1>3 DEF Raise

LEMMA TransitRefusedKeeps ==
    ASSUME IInv, NEW t \in Task, NEW w \in Worker, TransitRefused(t, w)
    PROVE  IInv'
<1>1. refused' \in [Sid -> Nat] /\ faults' \in 0 .. MaxFaults
  BY RefusalCounted DEF TransitRefused, IInv, Typed
<1> QED
  BY <1>1, SameGrown, HandBackKeeps DEF TransitRefused

LEMMA PersistRefusedKeeps ==
    ASSUME IInv, NEW t \in Task, NEW w \in Worker, PersistRefused(t, w)
    PROVE  IInv'
<1>1. refused' \in [Sid -> Nat] /\ faults' \in 0 .. MaxFaults
      /\ received' \in [Sid -> Seq(1 .. Parts)]
  BY RefusalCounted DEF PersistRefused, IInv, Typed
<1>2. convs' \in Seq(Status) /\ Len(convs') = Len(convs)
  BY DEF PersistRefused, IInv, Typed
<1>3. Grown /\ RepliesFit'
  BY <1>2, OutboundStored DEF PersistRefused
<1> QED
  BY <1>1, <1>3, HandBackKeeps DEF PersistRefused

LEMMA OtherCallKeeps ==
    ASSUME IInv, NEW to \in Targets, OtherCall(to)
    PROVE  IInv'
<1> USE DEF IInv
<1>1. /\ moves < MaxMoves /\ moves' = moves + 1
      /\ UNCHANGED <<kind, stored, replies, received, state, holder, runs, at, loc, refused, faults>>
  BY DEF OtherCall, queue, locals
<1>2. convs' \in Seq(Status) /\ Len(convs') = Len(convs)
  <2>1. PICK i \in Active : convs' = [convs EXCEPT ![i] = to]
    BY DEF OtherCall
  <2>2. i \in Nat /\ to \in Status
    BY ChannelAssumption DEF Active, Typed
  <2> QED
    BY <2>1, <2>2, StatusWritten
<1>3. Locals' = Locals /\ Reply' = Reply
  BY <1>1, <1>2 DEF Locals, Reply
<1>4. Grown
  BY <1>1, <1>2, <1>3 DEF Grown, Typed
<1>5. Typed'
  BY <1>1, <1>2, <1>3 DEF Typed
<1>6. Held' /\ RepliesFit'
  BY <1>1 DEF Held, RepliesFit
<1>7. \A u \in Task : Fits(u)'
  BY <1>1, <1>4, OthersFit
<1> QED
  BY <1>5, <1>6, <1>7

(***************************************************************************)
(* The steps that lead on, and those that do not.                          *)
(***************************************************************************)
LEMMA InitFits == Init => IInv
<1> SUFFICES ASSUME Init PROVE IInv
  OBVIOUS
<1> USE DEF Init, Queue!Init
<1>1. convs = <<>> /\ replies = <<>> /\ Len(convs) = 0 /\ Len(replies) = 0
  OBVIOUS
<1>2. Typed
  <2>1. NoLocals \in Locals
    BY <1>1, ChannelAssumption DEF NoLocals, Locals, Status, ActiveStatuses
  <2>2. NotStored \in [conv: 0 .. Len(convs), handoff: BOOLEAN]
    BY <1>1 DEF NotStored
  <2>3. "idle" \in Label
    BY DEF Label
  <2>4. loc \in [Task -> Locals] /\ stored \in [Sid -> [conv: 0 .. Len(convs), handoff: BOOLEAN]]
    BY <2>1, <2>2
  <2>5. /\ state \in [Task -> {"new", "waiting", "taken", "finished", "buried"}]
        /\ holder \in [Task -> SUBSET Worker] /\ runs \in [Task -> Nat]
        /\ at \in [Task -> Label]
    BY <2>3
  <2>6. convs \in Seq(Status) /\ replies \in Seq(Reply) /\ received \in [Sid -> Seq(1 .. Parts)]
    OBVIOUS
  <2>7. /\ moves \in Nat /\ faults \in 0 .. MaxFaults /\ kind \in [Sid -> Kinds]
        /\ refused \in [Sid -> Nat]
    BY ChannelAssumption
  <2> QED
    BY <2>4, <2>5, <2>6, <2>7 DEF Typed
<1>3. Held
  BY DEF Held
<1>4. \A t \in Task : Fits(t)
  BY DEF Fits, OnPath, Refers, ForTheRow, Live
<1>5. RepliesFit
  BY <1>1 DEF RepliesFit
<1> QED
  BY <1>2, <1>3, <1>4, <1>5 DEF IInv

LEMMA HandlerStepFits ==
    ASSUME IInv, NEW t \in Task, Step(t)
    PROVE  IInv'
<1>1. CASE Skip(t)
  <2>1. at[t] # "idle" /\ faults' \in 0 .. MaxFaults /\ refused' \in [Sid -> Nat]
    BY <1>1 DEF Skip, IInv, Typed
  <2> QED
    BY <1>1, <2>1, ReturnKeeps DEF Skip
<1> QED
  BY <1>1, OpenKeeps, StoreKeeps, TransitKeeps, ChainKeeps, PersistOutboundKeeps,
     TranscribeKeeps, RespondKeeps, SaveReplyKeeps, AcceptKeeps, AcceptRefusedKeeps,
     SubmitSendKeeps, SendPartKeeps, RecordKeeps DEF Step

LEMMA StepFits == IInv /\ [Next]_vars => IInv'
<1> SUFFICES ASSUME IInv, [Next]_vars PROVE IInv'
  OBVIOUS
<1>1. ASSUME NEW t \in Task, NEW w \in Worker, Ack(t, w)
      PROVE  IInv'
  <2>1. refused' \in [Sid -> Nat] /\ moves' \in Nat /\ faults' \in 0 .. MaxFaults
    BY <1>1 DEF Ack, IInv, Typed
  <2> QED
    BY <1>1, <2>1, SameGrown, LeaveKeeps DEF Ack, Goto
<1>2. ASSUME NEW t \in Task, NEW w \in Worker, OwnerUnknown(t, w)
      PROVE  IInv'
  <2>1. refused' \in [Sid -> Nat]
    BY <1>2 DEF OwnerUnknown, IInv, Typed
  <2> QED
    BY <1>2, <2>1, FaultIsBounded, SameGrown, HandBackKeeps DEF OwnerUnknown, NoAccount, IInv
<1>3. ASSUME NEW t \in Task, NEW w \in Worker, Die(t, w)
      PROVE  IInv'
  <2>1. refused' \in [Sid -> Nat] /\ moves' \in Nat
    BY <1>3 DEF Die, IInv, Typed
  <2> QED
    BY <1>3, <2>1, FaultIsBounded, SameGrown, LeaveKeeps DEF Die, Goto, IInv
<1>4. ASSUME NEW t \in Task, NotTranscribed(t) \/ TwilioRefuses(t)
      PROVE  IInv'
  <2>1. /\ at[t] # "idle" /\ Goto(t, "ack") /\ Fault
        /\ UNCHANGED <<channel, queue, loc, moves, refused>>
    BY <1>4 DEF NotTranscribed, TwilioRefuses
  <2>2. refused' \in [Sid -> Nat]
    BY <2>1 DEF IInv, Typed
  <2> QED
    BY <2>1, <2>2, FaultIsBounded, ReturnKeeps DEF IInv
<1>5. CASE UNCHANGED vars
  <2>1. UNCHANGED <<kind, convs, stored, replies, received, state, holder, runs, at, loc,
                    moves, refused, faults>>
    BY <1>5 DEF vars, channel, queue, locals
  <2>2. Locals' = Locals /\ Reply' = Reply
    BY <2>1 DEF Locals, Reply
  <2>3. Typed'
    BY <2>1, <2>2 DEF IInv, Typed
  <2>4. Held' /\ RepliesFit'
    BY <2>1 DEF IInv, Held, RepliesFit
  <2>5. \A u \in Task : Fits(u)'
    BY <2>1 DEF IInv, Fits, OnPath, Refers, ForTheRow, Live, Handoff
  <2> QED
    BY <2>3, <2>4, <2>5 DEF IInv
<1> QED
  BY <1>1, <1>2, <1>3, <1>4, <1>5, TakeKeeps, HandlerStepFits, TransitRefusedKeeps,
     PersistRefusedKeeps, RaiseKeeps, DeliverKeeps, OtherCallKeeps DEF Next, Work

LEMMA SpecFits == Spec => []IInv
<1> QED
  BY InitFits, StepFits, PTL DEF Spec

-----------------------------------------------------------------------------
LEMMA ItemsOf ==
    ASSUME NEW S, NEW q \in Seq(S), NEW i \in DOMAIN q
    PROVE  q[i] \in S
  OBVIOUS

(***************************************************************************)
(* Every task is held by one worker at most, and the handlers, the rows    *)
(* and the queue stay of their types: whatever is delivered twice, raises  *)
(* or dies.                                                                *)
(***************************************************************************)
THEOREM ChannelTypeCorrect == Spec => []TypeOK
<1>1. IInv => TypeOK
  <2> SUFFICES ASSUME IInv PROVE TypeOK
    OBVIOUS
  <2> USE DEF IInv
  <2>1. \A r \in DOMAIN replies : replies[r] \in Reply
    BY DEF Typed
  <2>2. ASSUME NEW s \in Sid, NEW i \in DOMAIN received[s]
        PROVE  received[s][i] \in 1 .. Parts
    <3>1. received[s] \in Seq(1 .. Parts)
      BY DEF Typed
    <3> QED
      BY <3>1, ItemsOf
  <2>3. ASSUME NEW t \in Task PROVE Cardinality(holder[t]) <= 1
    <3>1. CASE holder[t] = {}
      BY <3>1, FS_EmptySet
    <3>2. ASSUME NEW w \in Worker, holder[t] = {w} PROVE Cardinality(holder[t]) <= 1
      <4>1. Cardinality({w}) = 1
        BY FS_Singleton
      <4> QED
        BY <3>2, <4>1
    <3> QED
      BY <3>1, <3>2 DEF Held
  <2>4. \A t \in Task : at[t] # "idle" <=> state[t] = "taken" /\ holder[t] # {}
    BY DEF Held
  <2> QED
    BY <2>1, <2>2, <2>3, <2>4 DEF TypeOK, Typed, Reply
<1> QED
  BY <1>1, SpecFits, PTL

(***************************************************************************)
(* A message is answered only on behalf of the execution that stored it,   *)
(* and only when no agent had the conversation: the payloads of the tasks, *)
(* the local variables of their handlers and the row of the message agree. *)
(***************************************************************************)
THEOREM ChannelAnswersForTheRow == Spec => []AnsweredForTheRow
<1>1. IInv => AnsweredForTheRow
  <2> SUFFICES ASSUME IInv, NEW s \in Sid, kind[s] # "local", NEW r \in RepliesTo(s)
               PROVE  /\ stored[s].conv # 0 /\ ~stored[s].handoff
                      /\ replies[r].conv = stored[s].conv
    BY DEF AnsweredForTheRow
  <2>1. r \in DOMAIN replies /\ replies[r].sid = s
    BY DEF RepliesTo
  <2>2. replies[r] \in Reply
    BY <2>1 DEF IInv, Typed
  <2>3. replies[r].conv # 0
    BY <2>2 DEF Reply, IInv, Typed
  <2>4. stored[s] = [conv |-> replies[r].conv, handoff |-> FALSE]
    BY <2>1 DEF IInv, RepliesFit
  <2> QED
    BY <2>3, <2>4
<1> QED
  BY <1>1, SpecFits, PTL

-----------------------------------------------------------------------------
(***************************************************************************)
(* What Twilio has accepted, counted.                                      *)
(***************************************************************************)
LEMMA Fewer ==
    ASSUME NEW A, NEW B, IsFiniteSet(A), B \subseteq A
    PROVE  IsFiniteSet(B) /\ Cardinality(B) \in Nat /\ Cardinality(A) \in Nat
           /\ Cardinality(B) <= Cardinality(A)
  BY FS_Subset, FS_CardinalityType

LEMMA OneMore ==
    ASSUME NEW A, NEW B, NEW x, IsFiniteSet(A), B \subseteq A \cup {x}
    PROVE  IsFiniteSet(B) /\ Cardinality(B) \in Nat /\ Cardinality(A) \in Nat
           /\ Cardinality(B) <= Cardinality(A) + 1
<1>1. /\ IsFiniteSet(A \cup {x}) /\ Cardinality(A) \in Nat
      /\ Cardinality(A \cup {x}) \in {Cardinality(A), Cardinality(A) + 1}
  BY FS_AddElement, FS_CardinalityType
<1>2. /\ IsFiniteSet(B) /\ Cardinality(B) \in Nat
      /\ Cardinality(B) <= Cardinality(A \cup {x})
  BY <1>1, Fewer
<1> QED
  BY <1>1, <1>2

LEMMA OneLess ==
    ASSUME NEW A, NEW B, NEW x \in A, IsFiniteSet(A), B \subseteq A \ {x}
    PROVE  IsFiniteSet(B) /\ Cardinality(B) \in Nat /\ Cardinality(A) \in Nat
           /\ Cardinality(B) <= Cardinality(A) - 1
<1>1. /\ IsFiniteSet(A \ {x}) /\ Cardinality(A) \in Nat
      /\ Cardinality(A \ {x}) = Cardinality(A) - 1
  BY FS_RemoveElement, FS_CardinalityType
<1>2. /\ IsFiniteSet(B) /\ Cardinality(B) \in Nat
      /\ Cardinality(B) <= Cardinality(A \ {x})
  BY <1>1, Fewer
<1> QED
  BY <1>1, <1>2

LEMMA Swapped ==
    ASSUME NEW A, NEW B, NEW x \in A, NEW y, IsFiniteSet(A), B \subseteq (A \ {x}) \cup {y}
    PROVE  IsFiniteSet(B) /\ Cardinality(B) \in Nat /\ Cardinality(A) \in Nat
           /\ Cardinality(B) <= Cardinality(A)
<1>1. /\ IsFiniteSet(A \ {x}) /\ Cardinality(A) \in Nat
      /\ Cardinality(A \ {x}) = Cardinality(A) - 1
  BY FS_RemoveElement, FS_CardinalityType
<1>2. /\ IsFiniteSet(B) /\ Cardinality(B) \in Nat
      /\ Cardinality(B) <= Cardinality(A \ {x}) + 1
  BY <1>1, OneMore
<1> QED
  BY <1>1, <1>2

(***************************************************************************)
(* A message has finitely many tasks.                                      *)
(***************************************************************************)
TasksOf(s) == {t \in Task : t.sid = s}

LEMMA TasksFinite ==
    ASSUME NEW s \in Sid
    PROVE  IsFiniteSet(TasksOf(s))
<1> DEFINE T == TasksOf(s)
           Keys == Type \X (0 .. MaxFaults + 1)
           f == [t \in T |-> <<t.type, t.copy>>]
<1>1. IsFiniteSet(Type)
  <2>1. IsFiniteSet({"event"}) /\ IsFiniteSet({"transcribe"})
        /\ IsFiniteSet({"answer"}) /\ IsFiniteSet({"send"})
    BY FS_Singleton
  <2>2. IsFiniteSet({"event"} \cup {"transcribe"}) /\ IsFiniteSet({"answer"} \cup {"send"})
    BY <2>1, FS_Union
  <2>3. IsFiniteSet(({"event"} \cup {"transcribe"}) \cup ({"answer"} \cup {"send"}))
    BY <2>2, FS_Union
  <2>4. Type = ({"event"} \cup {"transcribe"}) \cup ({"answer"} \cup {"send"})
    BY DEF Type
  <2> QED
    BY <2>3, <2>4
<1>2. IsFiniteSet(0 .. MaxFaults + 1)
  BY FS_Interval, ChannelAssumption
<1>3. IsFiniteSet(Keys)
  BY <1>1, <1>2, FS_Product
<1>4. f \in Injection(T, Keys)
  <2>1. \A t \in T : <<t.type, t.copy>> \in Keys
    BY DEF TasksOf, Task
  <2>2. ASSUME NEW t \in T, NEW u \in T, f[t] = f[u]
        PROVE  t = u
    <3>1. t.type = u.type /\ t.copy = u.copy /\ t.sid = u.sid
      BY <2>2 DEF TasksOf
    <3>2. t = [type |-> t.type, sid |-> t.sid, copy |-> t.copy]
          /\ u = [type |-> u.type, sid |-> u.sid, copy |-> u.copy]
      BY DEF TasksOf, Task
    <3> QED
      BY <3>1, <3>2
  <2> QED
    BY <2>1, <2>2 DEF Injection, IsInjective
<1> QED
  BY <1>3, <1>4, FS_Injection

(***************************************************************************)
(* A chunk more is a copy more of this chunk, and of no other.             *)
(***************************************************************************)
LEMMA AppendCounts ==
    ASSUME NEW q \in Seq(1 .. Parts), NEW v \in 1 .. Parts, NEW p \in 1 .. Parts
    PROVE  LET Before == Cardinality({i \in DOMAIN q : q[i] = p})
               After == Cardinality({i \in DOMAIN Append(q, v) : Append(q, v)[i] = p})
           IN  /\ Before \in Nat /\ After \in Nat
               /\ v = p => After = Before + 1
               /\ v # p => After = Before
<1> DEFINE A == {i \in DOMAIN q : q[i] = p}
           B == {i \in DOMAIN Append(q, v) : Append(q, v)[i] = p}
           n == Len(q) + 1
<1>1. /\ Len(q) \in Nat /\ DOMAIN q = 1 .. Len(q) /\ DOMAIN Append(q, v) = 1 .. n
      /\ Append(q, v)[n] = v
      /\ \A i \in 1 .. Len(q) : Append(q, v)[i] = q[i]
  OBVIOUS
<1>2. IsFiniteSet(A)
  <2>1. IsFiniteSet(1 .. Len(q))
    BY <1>1, FS_Interval
  <2> QED
    BY <1>1, <2>1, Fewer
<1>3. n \notin A
  BY <1>1
<1>4. v = p => B = A \cup {n}
  BY <1>1
<1>5. v # p => B = A
  BY <1>1
<1> HIDE DEF A, B, n
<1>6. Cardinality(A) \in Nat
  BY <1>2, FS_CardinalityType
<1>7. Cardinality(A \cup {n}) = Cardinality(A) + 1
  BY <1>2, <1>3, FS_AddElement
<1>8. /\ Cardinality(A) \in Nat /\ Cardinality(B) \in Nat
      /\ v = p => Cardinality(B) = Cardinality(A) + 1
      /\ v # p => Cardinality(B) = Cardinality(A)
  <2>1. CASE v = p
    <3>1. Cardinality(B) = Cardinality(A) + 1
      BY <1>4, <1>7, <2>1, Zenon
    <3> QED
      BY <1>6, <2>1, <3>1
  <2>2. CASE v # p
    <3>1. Cardinality(B) = Cardinality(A)
      BY <1>5, <2>2, Zenon
    <3> QED
      BY <1>6, <2>2, <3>1
  <2> QED
    BY <2>1, <2>2
<1> QED
  BY <1>8 DEF A, B

LEMMA CopiesCounted ==
    ASSUME Typed, NEW s \in Sid, NEW p \in 1 .. Parts
    PROVE  IsFiniteSet({i \in DOMAIN received[s] : received[s][i] = p}) /\ Copies(s, p) \in Nat
<1>1. received[s] \in Seq(1 .. Parts)
  BY DEF Typed
<1>2. DOMAIN received[s] = 1 .. Len(received[s]) /\ Len(received[s]) \in Nat
  BY <1>1
<1>3. IsFiniteSet(DOMAIN received[s])
  <2>1. IsFiniteSet(1 .. Len(received[s]))
    BY <1>2, FS_Interval
  <2> QED
    BY <1>2, <2>1
<1> QED
  BY <1>3, Fewer DEF Copies

(***************************************************************************)
(* One execution sends one chunk; what other executions sent stays.        *)
(***************************************************************************)
LEMMA PartCounts ==
    ASSUME IInv, NEW t \in Task, SendPart(t), NEW s \in Sid, NEW p \in 1 .. Parts
    PROVE  /\ Copies(s, p) \in Nat /\ Copies(s, p)' \in Nat
           /\ (s = t.sid /\ loc[t].part = p) => Copies(s, p)' = Copies(s, p) + 1
           /\ ~ (s = t.sid /\ loc[t].part = p) => Copies(s, p)' = Copies(s, p)
<1> DEFINE v == loc[t].part
           q == received[s]
<1>1. v \in 1 .. Parts /\ t.sid \in Sid /\ q \in Seq(1 .. Parts)
  <2>1. loc[t] \in Locals /\ q \in Seq(1 .. Parts)
    BY DEF IInv, Typed
  <2> QED
    BY <2>1, TaskFields DEF Locals
<1>2. received' = [received EXCEPT ![t.sid] = Append(@, v)] /\ DOMAIN received = Sid
  BY DEF SendPart, IInv, Typed
<1>3. CASE s = t.sid
  <2>1. received'[s] = Append(q, v)
    BY <1>2, <1>3
  <2> HIDE DEF v, q
  <2>2. /\ Cardinality({i \in DOMAIN q : q[i] = p}) \in Nat
        /\ Cardinality({i \in DOMAIN Append(q, v) : Append(q, v)[i] = p}) \in Nat
        /\ v = p => Cardinality({i \in DOMAIN Append(q, v) : Append(q, v)[i] = p})
                      = Cardinality({i \in DOMAIN q : q[i] = p}) + 1
        /\ v # p => Cardinality({i \in DOMAIN Append(q, v) : Append(q, v)[i] = p})
                      = Cardinality({i \in DOMAIN q : q[i] = p})
    BY <1>1, AppendCounts
  <2>3. Copies(s, p) = Cardinality({i \in DOMAIN q : q[i] = p})
    BY DEF Copies, q
  <2>4. Copies(s, p)' = Cardinality({i \in DOMAIN Append(q, v) : Append(q, v)[i] = p})
    BY <2>1 DEF Copies
  <2>5. /\ Copies(s, p) \in Nat /\ Copies(s, p)' \in Nat
        /\ v = p => Copies(s, p)' = Copies(s, p) + 1
        /\ v # p => Copies(s, p)' = Copies(s, p)
    BY <2>2, <2>3, <2>4
  <2> QED
    BY <1>3, <2>5 DEF v
<1>4. CASE s # t.sid
  <2>1. received'[s] = received[s]
    BY <1>2, <1>4
  <2>2. Copies(s, p)' = Copies(s, p)
    BY <2>1 DEF Copies
  <2> QED
    BY <1>4, <2>2, CopiesCounted DEF IInv
<1> QED
  BY <1>3, <1>4

(***************************************************************************)
(* Twilio has the whole text of a reply before the reply is marked: the    *)
(* executions between the last chunk and the mark have sent it, too.       *)
(***************************************************************************)
Sent(s) == {r \in RepliesTo(s) : replies[r].sent}

Recording(s) == {t \in Task : t.sid = s /\ at[t] \in {"persist", "record"}}

SentBefore == \A s \in Sid : Cardinality(Sent(s)) + Cardinality(Recording(s)) <= Copies(s, Parts)

LEMMA SentCounted ==
    ASSUME Typed, NEW s \in Sid
    PROVE  /\ IsFiniteSet(Sent(s)) /\ Cardinality(Sent(s)) \in Nat
           /\ IsFiniteSet(Recording(s)) /\ Cardinality(Recording(s)) \in Nat
           /\ Copies(s, Parts) \in Nat
<1>1. replies \in Seq(Reply)
  BY DEF Typed
<1>2. IsFiniteSet(DOMAIN replies)
  <2>1. DOMAIN replies = 1 .. Len(replies) /\ Len(replies) \in Nat
    BY <1>1
  <2> QED
    BY <2>1, FS_Interval
<1>3. Sent(s) \subseteq DOMAIN replies
  BY DEF Sent, RepliesTo
<1>4. Recording(s) \subseteq TasksOf(s) /\ IsFiniteSet(TasksOf(s))
  BY TasksFinite DEF Recording, TasksOf
<1>5. Parts \in 1 .. Parts
  BY ChannelAssumption
<1> QED
  BY <1>2, <1>3, <1>4, <1>5, Fewer, CopiesCounted

\* A step that neither sends a chunk nor marks a reply.
LEMMA NothingMarked ==
    ASSUME IInv, SentBefore, NEW s \in Sid,
           UNCHANGED received, Sent(s)' \subseteq Sent(s), Recording(s)' \subseteq Recording(s)
    PROVE  Cardinality(Sent(s)') + Cardinality(Recording(s)') <= Copies(s, Parts)'
<1>1. Cardinality(Sent(s)) + Cardinality(Recording(s)) <= Copies(s, Parts)
  BY DEF SentBefore
<1>2. /\ IsFiniteSet(Sent(s)) /\ IsFiniteSet(Recording(s)) /\ Copies(s, Parts) \in Nat
  BY SentCounted DEF IInv
<1>3. Copies(s, Parts)' = Copies(s, Parts)
  BY DEF Copies
<1> DEFINE S == Sent(s)
           T == Sent(s)'
           A == Recording(s)
           B == Recording(s)'
<1>4. T \subseteq S /\ B \subseteq A /\ IsFiniteSet(S) /\ IsFiniteSet(A)
  BY <1>2
<1> HIDE DEF S, T, A, B
<1>5. /\ Cardinality(T) \in Nat /\ Cardinality(S) \in Nat /\ Cardinality(T) <= Cardinality(S)
      /\ Cardinality(B) \in Nat /\ Cardinality(A) \in Nat /\ Cardinality(B) <= Cardinality(A)
  BY <1>4, Fewer
<1>6. Cardinality(S) + Cardinality(A) <= Copies(s, Parts)
  BY <1>1 DEF S, A
<1>7. Cardinality(T) + Cardinality(B) <= Copies(s, Parts)
  BY <1>2, <1>5, <1>6
<1> QED
  BY <1>3, <1>7 DEF T, B

\* A handler that sent the text marks its reply.
LEMMA OneMarked ==
    ASSUME IInv, SentBefore, NEW s \in Sid, NEW t \in Recording(s), NEW r,
           UNCHANGED received, Sent(s)' \subseteq Sent(s) \cup {r},
           Recording(s)' \subseteq Recording(s) \ {t}
    PROVE  Cardinality(Sent(s)') + Cardinality(Recording(s)') <= Copies(s, Parts)'
<1>1. Cardinality(Sent(s)) + Cardinality(Recording(s)) <= Copies(s, Parts)
  BY DEF SentBefore
<1>2. /\ IsFiniteSet(Sent(s)) /\ IsFiniteSet(Recording(s)) /\ Copies(s, Parts) \in Nat
  BY SentCounted DEF IInv
<1>3. Copies(s, Parts)' = Copies(s, Parts)
  BY DEF Copies
<1> DEFINE S == Sent(s)
           T == Sent(s)'
           A == Recording(s)
           B == Recording(s)'
<1>4. T \subseteq S \cup {r} /\ B \subseteq A \ {t} /\ t \in A /\ IsFiniteSet(S) /\ IsFiniteSet(A)
  BY <1>2
<1> HIDE DEF S, T, A, B
<1>5. /\ Cardinality(T) \in Nat /\ Cardinality(S) \in Nat /\ Cardinality(T) <= Cardinality(S) + 1
  BY <1>4, OneMore
<1>6. /\ Cardinality(B) \in Nat /\ Cardinality(A) \in Nat /\ Cardinality(B) <= Cardinality(A) - 1
  BY <1>4, OneLess
<1>7. Cardinality(S) + Cardinality(A) <= Copies(s, Parts)
  BY <1>1 DEF S, A
<1>8. Cardinality(T) + Cardinality(B) <= Copies(s, Parts)
  BY <1>2, <1>5, <1>6, <1>7
<1> QED
  BY <1>3, <1>8 DEF T, B

LEMMA SendPartSent ==
    ASSUME IInv, SentBefore, NEW t \in Task, SendPart(t), NEW s \in Sid
    PROVE  Cardinality(Sent(s)') + Cardinality(Recording(s)') <= Copies(s, Parts)'
<1>1. Cardinality(Sent(s)) + Cardinality(Recording(s)) <= Copies(s, Parts)
  BY DEF SentBefore
<1>2. /\ IsFiniteSet(Sent(s)) /\ IsFiniteSet(Recording(s)) /\ Copies(s, Parts) \in Nat
  BY SentCounted DEF IInv
<1>3. Parts \in Nat \ {0} /\ Parts \in 1 .. Parts /\ loc[t].part \in 1 .. Parts
  <2>1. loc[t] \in Locals
    BY DEF IInv, Typed
  <2> QED
    BY <2>1, ChannelAssumption DEF Locals
<1>4. /\ Copies(s, Parts)' \in Nat
      /\ (s = t.sid /\ loc[t].part = Parts) => Copies(s, Parts)' = Copies(s, Parts) + 1
      /\ ~ (s = t.sid /\ loc[t].part = Parts) => Copies(s, Parts)' = Copies(s, Parts)
  BY <1>3, PartCounts
<1> DEFINE S == Sent(s)
           T == Sent(s)'
           A == Recording(s)
           B == Recording(s)'
<1>5. T = S
  BY DEF SendPart, Sent, RepliesTo
<1>6. CASE s = t.sid /\ loc[t].part = Parts
  <2>1. B \subseteq A \cup {t}
    BY DEF SendPart, Goto, Recording, IInv, Typed
  <2> HIDE DEF S, T, A, B
  <2>2. Cardinality(B) \in Nat /\ Cardinality(A) \in Nat /\ Cardinality(B) <= Cardinality(A) + 1
    BY <1>2, <2>1, OneMore DEF A
  <2>3. Cardinality(S) \in Nat /\ Cardinality(S) + Cardinality(A) <= Copies(s, Parts)
    BY <1>1, <1>2, FS_CardinalityType DEF S, A
  <2>4. Cardinality(S) + Cardinality(B) <= Copies(s, Parts)'
    BY <1>2, <1>4, <1>6, <2>2, <2>3
  <2> QED
    BY <1>5, <2>4 DEF T, B
<1>7. CASE ~ (s = t.sid /\ loc[t].part = Parts)
  <2>1. B \subseteq A
    <3>1. loc[t].part # Parts => loc[t].part < Parts
      BY <1>3
    <3>2. s # t.sid \/ UNCHANGED at
      BY <1>7, <3>1 DEF SendPart
    <3>3. \A u \in Task : u # t => at'[u] = at[u]
      BY DEF SendPart, Goto, IInv, Typed
    <3> QED
      BY <3>2, <3>3 DEF Recording
  <2> HIDE DEF S, T, A, B
  <2>2. Cardinality(B) \in Nat /\ Cardinality(A) \in Nat /\ Cardinality(B) <= Cardinality(A)
    BY <1>2, <2>1, Fewer DEF A
  <2>3. Cardinality(S) \in Nat /\ Cardinality(S) + Cardinality(A) <= Copies(s, Parts)
    BY <1>1, <1>2, FS_CardinalityType DEF S, A
  <2>4. Cardinality(S) + Cardinality(B) <= Copies(s, Parts)'
    BY <1>2, <1>4, <1>7, <2>2, <2>3
  <2> QED
    BY <1>5, <2>4 DEF T, B
<1> QED
  BY <1>6, <1>7

LEMMA PersistOutboundSent ==
    ASSUME IInv, SentBefore, NEW t \in Task, NEW s \in Sid,
           PersistOutbound(t) \/ \E w \in Worker : PersistRefused(t, w)
    PROVE  Cardinality(Sent(s)') + Cardinality(Recording(s)') <= Copies(s, Parts)'
<1>1. /\ at[t] = "persist" /\ UNCHANGED received
      /\ at' = [at EXCEPT ![t] = "ack"] \/ at' = [at EXCEPT ![t] = "idle"]
      /\ replies' = Append(replies, [sid |-> t.sid, conv |-> loc[t].conv, via |-> loc[t].conv,
                                     sent |-> TRUE])
  BY DEF PersistOutbound, PersistRefused, StoreOutbound, HandBack, Goto
<1>2. replies \in Seq(Reply) /\ at \in [Task -> Label]
  BY DEF IInv, Typed
<1>3. /\ Len(replies) \in Nat /\ DOMAIN replies = 1 .. Len(replies)
      /\ DOMAIN replies' = 1 .. (Len(replies) + 1)
      /\ \A i \in 1 .. Len(replies) : replies'[i] = replies[i]
      /\ replies'[Len(replies) + 1].sid = t.sid
  BY <1>1, <1>2
<1>4. \A i \in 1 .. (Len(replies) + 1) : i = Len(replies) + 1 \/ i \in 1 .. Len(replies)
  BY <1>3
<1>5. CASE s = t.sid
  <2>1. Sent(s)' \subseteq Sent(s) \cup {Len(replies) + 1}
    BY <1>3, <1>4 DEF Sent, RepliesTo
  <2>2. t \in Recording(s) /\ Recording(s)' \subseteq Recording(s) \ {t}
    BY <1>1, <1>2, <1>5 DEF Recording
  <2> QED
    BY <1>1, <2>1, <2>2, OneMarked
<1>6. CASE s # t.sid
  <2>1. Sent(s)' \subseteq Sent(s)
    BY <1>3, <1>4, <1>6 DEF Sent, RepliesTo
  <2>2. Recording(s)' \subseteq Recording(s)
    BY <1>1, <1>2, <1>6 DEF Recording
  <2> QED
    BY <1>1, <2>1, <2>2, NothingMarked
<1> QED
  BY <1>5, <1>6

LEMMA RecordSent ==
    ASSUME IInv, SentBefore, NEW t \in Task, Record(t), NEW s \in Sid
    PROVE  Cardinality(Sent(s)') + Cardinality(Recording(s)') <= Copies(s, Parts)'
<1> DEFINE r == loc[t].reply
<1>1. /\ at[t] = "record" /\ at' = [at EXCEPT ![t] = "ack"] /\ UNCHANGED received
      /\ replies' = [replies EXCEPT ![r].sent = TRUE]
  BY DEF Record, Goto
<1>2. replies \in Seq(Reply) /\ at \in [Task -> Label] /\ loc[t] \in Locals
  BY DEF IInv, Typed
<1>3. r \in DOMAIN replies /\ replies[r].sid = t.sid
  <2>1. Fits(t) /\ state[t] = "taken"
    BY <1>1 DEF IInv, Held
  <2>2. t.type = "send"
    BY <1>1, <2>1 DEF Fits, OnPath
  <2>3. r \in 1 .. Len(replies) /\ replies[r].sid = t.sid
    BY <1>2, <2>1, <2>2 DEF Fits, Refers, Locals, Live
  <2> QED
    BY <1>2, <2>3
<1>4. /\ DOMAIN replies' = DOMAIN replies
      /\ \A i \in DOMAIN replies : i # r => replies'[i] = replies[i]
  BY <1>1, <1>2
<1>5. replies'[r].sid = t.sid
  <2>1. replies' = [replies EXCEPT ![r] = [@ EXCEPT !.sent = TRUE]]
    BY <1>1
  <2>2. replies[r] \in Reply
    BY <1>2, <1>3
  <2> QED
    BY <1>3, <2>1, <2>2 DEF Reply
<1>6. CASE s = t.sid
  <2>1. Sent(s)' \subseteq Sent(s) \cup {r}
    BY <1>4 DEF Sent, RepliesTo
  <2>2. t \in Recording(s) /\ Recording(s)' \subseteq Recording(s) \ {t}
    BY <1>1, <1>2, <1>6 DEF Recording
  <2> QED
    BY <1>1, <2>1, <2>2, OneMarked
<1>7. CASE s # t.sid
  <2>1. Sent(s)' \subseteq Sent(s)
    BY <1>4, <1>5, <1>7 DEF Sent, RepliesTo
  <2>2. Recording(s)' \subseteq Recording(s)
    BY <1>1, <1>2, <1>7 DEF Recording
  <2> QED
    BY <1>1, <2>1, <2>2, NothingMarked
<1> QED
  BY <1>6, <1>7

\* Every other step leads to no mark.
LEMMA OtherStepsMarkNothing ==
    ASSUME IInv, [Next]_vars,
           \A t \in Task : ~ SendPart(t) /\ ~ PersistOutbound(t) /\ ~ Record(t),
           \A t \in Task, w \in Worker : ~ PersistRefused(t, w),
           NEW s \in Sid
    PROVE  /\ UNCHANGED received
           /\ Sent(s)' \subseteq Sent(s)
           /\ Recording(s)' \subseteq Recording(s)
<1>1. at \in [Task -> Label]
  BY DEF IInv, Typed
<1>2. ASSUME NEW t \in Task, NEW l, l \notin {"persist", "record"}, at' = [at EXCEPT ![t] = l]
      PROVE  Recording(s)' \subseteq Recording(s)
  BY <1>1, <1>2 DEF Recording
<1>3. UNCHANGED replies => Sent(s)' \subseteq Sent(s)
  BY DEF Sent, RepliesTo
<1>4. UNCHANGED at => Recording(s)' \subseteq Recording(s)
  BY DEF Recording
<1>5. \A t \in Task : Entry[t.type] \notin {"persist", "record"}
  <2>1. \A type \in Type : Entry[type] \notin {"persist", "record"}
    BY DEF Type, Entry
  <2> QED
    BY <2>1, TaskFields
<1>6. ASSUME NEW t \in Task, NEW w \in Worker,
             \/ Take(t, w) \/ Ack(t, w) \/ Raise(t, w) \/ OwnerUnknown(t, w) \/ Die(t, w)
             \/ TransitRefused(t, w)
      PROVE  UNCHANGED <<replies, received>> /\ Recording(s)' \subseteq Recording(s)
  <2>1. UNCHANGED <<replies, received>>
    BY <1>6 DEF Take, Ack, Raise, OwnerUnknown, Die, TransitRefused, channel
  <2>2. \E l \in {"ack", "idle", Entry[t.type]} : at' = [at EXCEPT ![t] = l]
    BY <1>6 DEF Take, Ack, Raise, OwnerUnknown, Die, TransitRefused, Goto, HandBack
  <2> QED
    BY <1>2, <1>5, <2>1, <2>2
<1>7. ASSUME NEW t \in Task,
             \/ Skip(t) \/ Open(t) \/ Store(t) \/ Transit(t) \/ Chain(t) \/ Transcribe(t)
             \/ Respond(t) \/ Accept(t) \/ AcceptRefused(t) \/ SubmitSend(t)
             \/ NotTranscribed(t) \/ TwilioRefuses(t)
      PROVE  UNCHANGED <<replies, received>> /\ Recording(s)' \subseteq Recording(s)
  <2>1. UNCHANGED <<replies, received>>
    BY <1>7 DEF Skip, Open, Store, Transit, Chain, Transcribe, Respond, Accept,
                AcceptRefused, SubmitSend, NotTranscribed, TwilioRefuses, channel
  <2>2. \E l \in {"ack", "send", "store", "transit", "chain", "save", "submit"} :
            at' = [at EXCEPT ![t] = l]
    BY <1>7 DEF Skip, Open, Store, Transit, Chain, Transcribe, Respond, Accept,
                AcceptRefused, SubmitSend, NotTranscribed, TwilioRefuses, Goto, Flow, Duplicate
  <2> QED
    BY <1>2, <2>1, <2>2
<1>8. ASSUME NEW t \in Task, SaveReply(t)
      PROVE  /\ UNCHANGED received /\ Sent(s)' \subseteq Sent(s)
             /\ Recording(s)' \subseteq Recording(s)
  <2>1. /\ UNCHANGED received /\ at' = [at EXCEPT ![t] = "accept"]
        /\ replies' = Append(replies, [sid |-> t.sid, conv |-> loc[t].conv,
                                       via |-> loc[t].via, sent |-> FALSE])
    BY <1>8 DEF SaveReply, Goto
  <2>2. replies \in Seq(Reply)
    BY DEF IInv, Typed
  <2>3. /\ Len(replies) \in Nat /\ DOMAIN replies = 1 .. Len(replies)
        /\ DOMAIN replies' = 1 .. (Len(replies) + 1)
        /\ \A i \in 1 .. Len(replies) : replies'[i] = replies[i]
        /\ ~ replies'[Len(replies) + 1].sent
    BY <2>1, <2>2
  <2>4. \A i \in 1 .. (Len(replies) + 1) : i = Len(replies) + 1 \/ i \in 1 .. Len(replies)
    BY <2>3
  <2>5. Sent(s)' \subseteq Sent(s)
    BY <2>3, <2>4 DEF Sent, RepliesTo
  <2> QED
    BY <1>2, <2>1, <2>5
<1>9. CASE \E x \in Sid : Deliver(x)
  BY <1>3, <1>4, <1>9 DEF Deliver, channel
<1>10. CASE \E to \in Targets : OtherCall(to)
  BY <1>3, <1>4, <1>10 DEF OtherCall, locals
<1>11. CASE UNCHANGED vars
  BY <1>3, <1>4, <1>11 DEF vars, channel, locals
<1> QED
  BY <1>3, <1>6, <1>7, <1>8, <1>9, <1>10, <1>11 DEF Next, Work, Step

LEMMA InitSent == Init => SentBefore
<1> SUFFICES ASSUME Init, NEW s \in Sid
             PROVE  Cardinality(Sent(s)) + Cardinality(Recording(s)) <= Copies(s, Parts)
  BY DEF SentBefore
<1>1. Typed
  BY InitFits DEF IInv
<1>2. Sent(s) = {} /\ Recording(s) = {}
  BY DEF Init, Sent, RepliesTo, Recording
<1>3. Cardinality(Sent(s)) = 0 /\ Cardinality(Recording(s)) = 0 /\ Copies(s, Parts) \in Nat
  BY <1>1, <1>2, SentCounted, FS_EmptySet
<1> QED
  BY <1>3

LEMMA StepSent == IInv /\ SentBefore /\ [Next]_vars => SentBefore'
<1> SUFFICES ASSUME IInv, SentBefore, [Next]_vars, NEW s \in Sid
             PROVE  Cardinality(Sent(s)') + Cardinality(Recording(s)') <= Copies(s, Parts)'
  BY DEF SentBefore
<1>1. CASE \E t \in Task : SendPart(t)
  BY <1>1, SendPartSent
<1>2. CASE \E t \in Task : PersistOutbound(t)
  BY <1>2, PersistOutboundSent
<1>3. CASE \E t \in Task : Record(t)
  BY <1>3, RecordSent
<1>4. CASE \E t \in Task, w \in Worker : PersistRefused(t, w)
  BY <1>4, PersistOutboundSent
<1>5. CASE /\ \A t \in Task : ~ SendPart(t) /\ ~ PersistOutbound(t) /\ ~ Record(t)
           /\ \A t \in Task, w \in Worker : ~ PersistRefused(t, w)
  BY <1>5, OtherStepsMarkNothing, NothingMarked
<1> QED
  BY <1>1, <1>2, <1>3, <1>4, <1>5

(***************************************************************************)
(* delivery_status tells the truth: a reply is marked only after Twilio    *)
(* accepted its last chunk, once more for every marked reply, whatever     *)
(* raises, dies and is executed again between the two.                     *)
(***************************************************************************)
THEOREM ChannelSentIsDelivered == Spec => []SentIsDelivered
<1>1. IInv /\ SentBefore => SentIsDelivered
  <2> SUFFICES ASSUME IInv, SentBefore, NEW s \in Sid
               PROVE  Cardinality({r \in RepliesTo(s) : replies[r].sent}) <= Copies(s, Parts)
    BY DEF SentIsDelivered
  <2>1. Cardinality(Sent(s)) + Cardinality(Recording(s)) <= Copies(s, Parts)
    BY DEF SentBefore
  <2>2. /\ Cardinality(Sent(s)) \in Nat /\ Cardinality(Recording(s)) \in Nat
        /\ Copies(s, Parts) \in Nat
    BY SentCounted DEF IInv
  <2>3. Cardinality(Sent(s)) <= Copies(s, Parts)
    BY <2>1, <2>2
  <2> QED
    BY <2>3 DEF Sent
<1>2. Init => IInv /\ SentBefore
  BY InitFits, InitSent
<1>3. (IInv /\ SentBefore) /\ [Next]_vars => (IInv /\ SentBefore)'
  BY StepFits, StepSent
<1> QED
  BY <1>1, <1>2, <1>3, PTL DEF Spec

-----------------------------------------------------------------------------
(***************************************************************************)
(* Copies and faults.  A task is pending for a chunk while it, or a task   *)
(* that follows from it, can still send the chunk with nothing failing     *)
(* again: every copy was pending once, and a chunk becomes pending again   *)
(* only for a fault, with the row of the message, or with a delivery or a  *)
(* refused acceptance of a local payload.                                  *)
(***************************************************************************)
Pending(t, p) ==
    \/ t.type = "event" /\ at[t] \in {"transit", "chain"}
    \/ /\ t.type = "event" /\ kind[t.sid] = "local"
       /\ state[t] = "waiting" \/ at[t] = "resolve" \/ (at[t] = "send" /\ loc[t].part <= p)
    \/ /\ t.type \in {"transcribe", "answer"}
       /\ state[t] = "waiting" \/ at[t] \in {"transcribe", "think", "save", "accept", "submit"}
    \/ /\ t.type = "send"
       /\ state[t] = "waiting" \/ (at[t] = "send" /\ loc[t].part <= p)

Pend(s, p) == {t \in Task : t.sid = s /\ Pending(t, p)}

Unstored(s) == IF kind[s] # "local" /\ stored[s].conv = 0 THEN 1 ELSE 0

Allowed(s) == IF kind[s] = "local" THEN Cardinality(Submitted("event", s)) + refused[s] ELSE 1

Balance(s, p) == Copies(s, p) + Cardinality(Pend(s, p)) + Unstored(s) <= faults + Allowed(s)

CopiesPaid == \A s \in Sid, p \in 1 .. Parts : Balance(s, p)

\* The other tasks stay where they are.
Alone(t) == \A u \in Task : u # t => /\ at'[u] = at[u] /\ state'[u] = state[u]
                                    /\ loc'[u] = loc[u]

LEMMA BalanceCounted ==
    ASSUME IInv, NEW s \in Sid, NEW p \in 1 .. Parts
    PROVE  /\ Copies(s, p) \in Nat
           /\ IsFiniteSet(Pend(s, p)) /\ Cardinality(Pend(s, p)) \in Nat
           /\ IsFiniteSet(Submitted("event", s)) /\ Cardinality(Submitted("event", s)) \in Nat
           /\ Unstored(s) \in Nat /\ Allowed(s) \in Nat /\ faults \in Nat
<1>1. IsFiniteSet(TasksOf(s)) /\ Pend(s, p) \subseteq TasksOf(s)
      /\ Submitted("event", s) \subseteq TasksOf(s)
  BY TasksFinite DEF TasksOf, Pend, Submitted
<1>2. /\ IsFiniteSet(Pend(s, p)) /\ Cardinality(Pend(s, p)) \in Nat
  BY <1>1, Fewer
<1>3. IsFiniteSet(Submitted("event", s)) /\ Cardinality(Submitted("event", s)) \in Nat
  BY <1>1, Fewer
<1>4. Copies(s, p) \in Nat
  BY CopiesCounted DEF IInv
<1>5. Unstored(s) \in Nat /\ Allowed(s) \in Nat
  <2>1. refused[s] \in Nat
    BY DEF IInv, Typed
  <2> QED
    BY <1>3, <2>1 DEF Unstored, Allowed
<1>6. faults \in Nat
  BY ChannelAssumption DEF IInv, Typed
<1> QED
  BY <1>2, <1>3, <1>4, <1>5, <1>6

LEMMA AllowedGrows ==
    ASSUME IInv, IInv', NEW s \in Sid, UNCHANGED kind, refused'[s] >= refused[s],
           \A u \in Task : state[u] # "new" => state'[u] # "new"
    PROVE  Allowed(s) <= Allowed(s)' /\ Allowed(s) \in Nat /\ Allowed(s)' \in Nat
<1> DEFINE A == Submitted("event", s)
           B == Submitted("event", s)'
<1>1. A \subseteq B
  BY DEF Submitted
<1>2. IsFiniteSet(TasksOf(s)) /\ B \subseteq TasksOf(s)
  BY TasksFinite DEF TasksOf, Submitted
<1>3. IsFiniteSet(B)
  BY <1>2, Fewer
<1> HIDE DEF A, B
<1>4. Cardinality(A) \in Nat /\ Cardinality(B) \in Nat /\ Cardinality(A) <= Cardinality(B)
  BY <1>1, <1>3, Fewer
<1>5. /\ Allowed(s) = IF kind[s] = "local" THEN Cardinality(A) + refused[s] ELSE 1
      /\ Allowed(s)' = IF kind[s] = "local" THEN Cardinality(B) + refused'[s] ELSE 1
  BY DEF Allowed, A, B
<1>6. refused[s] \in Nat /\ refused'[s] \in Nat
  BY DEF IInv, Typed
<1> QED
  BY <1>4, <1>5, <1>6

LEMMA RefusalsKept ==
    ASSUME IInv, NEW s \in Sid, UNCHANGED refused
    PROVE  refused'[s] >= refused[s]
  BY DEF IInv, Typed

(***************************************************************************)
(* What a step may do to the balance: nothing becomes pending, or one task *)
(* does and something pays for it.                                         *)
(***************************************************************************)
LEMMA Paid ==
    ASSUME IInv, IInv', NEW s \in Sid, NEW p \in 1 .. Parts, Balance(s, p),
           UNCHANGED kind, \A u \in Task : state[u] # "new" => state'[u] # "new",
           refused'[s] >= refused[s],
           faults' >= faults, Copies(s, p)' = Copies(s, p), Unstored(s)' <= Unstored(s),
           \/ Pend(s, p)' \subseteq Pend(s, p)
           \/ \E x \in Pend(s, p) : \E y : Pend(s, p)' \subseteq (Pend(s, p) \ {x}) \cup {y}
           \/ /\ \E x : Pend(s, p)' \subseteq Pend(s, p) \cup {x}
              /\ \/ faults' = faults + 1
                 \/ Unstored(s)' = Unstored(s) - 1
                 \/ Allowed(s)' = Allowed(s) + 1
    PROVE  Balance(s, p)'
<1>1. /\ Copies(s, p) \in Nat /\ IsFiniteSet(Pend(s, p)) /\ Cardinality(Pend(s, p)) \in Nat
      /\ Unstored(s) \in Nat /\ faults \in Nat
  BY BalanceCounted
<1>2. faults' \in Nat /\ Unstored(s)' \in Nat
  <2>1. faults' \in Nat
    BY ChannelAssumption DEF IInv, Typed
  <2> QED
    BY <2>1 DEF Unstored
<1>3. Allowed(s) <= Allowed(s)' /\ Allowed(s) \in Nat /\ Allowed(s)' \in Nat
  BY AllowedGrows
<1> DEFINE A == Pend(s, p)
           B == Pend(s, p)'
           c == Copies(s, p)
           d == Copies(s, p)'
           u == Unstored(s)
           v == Unstored(s)'
           m == Allowed(s)
           n == Allowed(s)'
<1>4. c + Cardinality(A) + u <= faults + m
  BY DEF Balance
<1>5. SUFFICES d + Cardinality(B) + v <= faults' + n
  BY DEF Balance
<1>6. /\ c \in Nat /\ d = c /\ u \in Nat /\ v \in Nat /\ m \in Nat /\ n \in Nat /\ IsFiniteSet(A)
      /\ faults \in Nat /\ faults' \in Nat /\ faults' >= faults /\ v <= u /\ m <= n
  BY <1>1, <1>2, <1>3
<1>7. \/ B \subseteq A
      \/ \E x \in A : \E y : B \subseteq (A \ {x}) \cup {y}
      \/ (\E x : B \subseteq A \cup {x}) /\ (faults' = faults + 1 \/ v = u - 1 \/ n = m + 1)
  OBVIOUS
<1> HIDE DEF A, B, c, d, u, v, m, n
<1>8. CASE B \subseteq A
  <2>1. Cardinality(B) \in Nat /\ Cardinality(A) \in Nat /\ Cardinality(B) <= Cardinality(A)
    BY <1>6, <1>8, Fewer
  <2> QED
    BY <1>4, <1>6, <2>1
<1>9. ASSUME NEW x \in A, NEW y, B \subseteq (A \ {x}) \cup {y}
      PROVE  d + Cardinality(B) + v <= faults' + n
  <2>1. Cardinality(B) \in Nat /\ Cardinality(A) \in Nat /\ Cardinality(B) <= Cardinality(A)
    BY <1>6, <1>9, Swapped
  <2> QED
    BY <1>4, <1>6, <2>1
<1>10. ASSUME NEW x, B \subseteq A \cup {x}, faults' = faults + 1 \/ v = u - 1 \/ n = m + 1
       PROVE  d + Cardinality(B) + v <= faults' + n
  <2>1. Cardinality(B) \in Nat /\ Cardinality(A) \in Nat /\ Cardinality(B) <= Cardinality(A) + 1
    BY <1>6, <1>10, OneMore
  <2> QED
    BY <1>4, <1>6, <1>10, <2>1
<1> QED
  BY <1>7, <1>8, <1>9, <1>10

(***************************************************************************)
(* A step of one task that sends nothing, stores nothing and submits       *)
(* nothing.                                                                *)
(***************************************************************************)
LEMMA OneTaskPaid ==
    ASSUME IInv, IInv', NEW s \in Sid, NEW p \in 1 .. Parts, Balance(s, p),
           UNCHANGED <<kind, stored, received>>, refused'[s] >= refused[s],
           NEW t \in Task, Alone(t), state[t] # "new" => state'[t] # "new",
           faults' = faults + 1 \/ (faults' >= faults /\ (Pending(t, p)' => Pending(t, p)))
    PROVE  Balance(s, p)'
<1>1. Copies(s, p)' = Copies(s, p) /\ Unstored(s)' = Unstored(s)
  BY DEF Copies, Unstored
<1>2. Unstored(s) \in Nat /\ faults \in Nat
  BY BalanceCounted
<1>3. \A u \in Task : state[u] # "new" => state'[u] # "new"
  BY DEF Alone
<1>4. \A u \in Task : u # t => (Pending(u, p)' => Pending(u, p))
  BY DEF Pending, Alone
<1>5. Pend(s, p)' \subseteq Pend(s, p) \cup {t}
  BY <1>4 DEF Pend
<1>6. (Pending(t, p)' => Pending(t, p)) => Pend(s, p)' \subseteq Pend(s, p)
  BY <1>4 DEF Pend
<1>7. faults' >= faults /\ Unstored(s)' <= Unstored(s)
  BY <1>1, <1>2
<1> QED
  BY <1>1, <1>3, <1>5, <1>6, <1>7, Paid

LEMMA TakePaid ==
    ASSUME IInv, IInv', NEW s \in Sid, NEW p \in 1 .. Parts, Balance(s, p),
           NEW t \in Task, NEW w \in Worker, Take(t, w)
    PROVE  Balance(s, p)'
<1>1. /\ state[t] = "waiting"
      /\ state' = [state EXCEPT ![t] = "taken"]
      /\ at' = [at EXCEPT ![t] = Entry[t.type]]
      /\ loc' = [loc EXCEPT ![t].part = 1]
      /\ UNCHANGED <<kind, stored, received, refused, faults>>
  BY DEF Take, Queue!Take, Goto, channel
<1>2. Alone(t) /\ state'[t] = "taken" /\ at'[t] = Entry[t.type]
  BY <1>1 DEF Alone, IInv, Typed
<1>3. Pending(t, p)' => Pending(t, p)
  BY <1>1, <1>2, TaskFields DEF Pending, Type
<1>4. faults \in Nat
  BY BalanceCounted
<1> QED
  BY <1>1, <1>2, <1>3, <1>4, RefusalsKept, OneTaskPaid

\* A task goes back, or is left behind, after a fault; or it is done.
LEMMA ReleasePaid ==
    ASSUME IInv, IInv', NEW s \in Sid, NEW p \in 1 .. Parts, Balance(s, p),
           NEW t \in Task, NEW w \in Worker,
           \/ Ack(t, w) \/ Raise(t, w) \/ OwnerUnknown(t, w) \/ Die(t, w)
           \/ TransitRefused(t, w)
    PROVE  Balance(s, p)'
<1>1. /\ UNCHANGED <<kind, stored, received>>
      /\ UNCHANGED loc \/ loc' = [loc EXCEPT ![t] = NoLocals]
      /\ \E l \in {"idle", "ack"} : at' = [at EXCEPT ![t] = l]
      /\ UNCHANGED state \/ \E q \in {"waiting", "finished", "buried"} : state' = [state EXCEPT ![t] = q]
  BY DEF Ack, Raise, OwnerUnknown, Die, TransitRefused, HandBack, Goto, channel, queue,
         Queue!Release, Queue!Abandon
<1>2. Alone(t) /\ (state[t] # "new" => state'[t] # "new")
  BY <1>1 DEF Alone, IInv, Typed
<1>3. faults \in Nat /\ (UNCHANGED faults => faults' >= faults)
  BY BalanceCounted
<1>4. refused'[s] >= refused[s]
  <2>1. CASE UNCHANGED refused
    BY <2>1, RefusalsKept
  <2>2. CASE TransitRefused(t, w)
    BY <2>2, RefusalCounted DEF TransitRefused, IInv
  <2> QED
    BY <2>1, <2>2 DEF Ack, Raise, OwnerUnknown, Die
<1>5. CASE Ack(t, w)
  <2>1. state'[t] = "finished" /\ at'[t] = "idle" /\ UNCHANGED faults
    BY <1>5 DEF Ack, Queue!Release, Goto, IInv, Typed
  <2>2. Pending(t, p)' => Pending(t, p)
    BY <2>1 DEF Pending
  <2> QED
    BY <1>1, <1>2, <1>3, <1>4, <2>1, <2>2, OneTaskPaid
<1>6. CASE Raise(t, w) \/ OwnerUnknown(t, w) \/ Die(t, w)
  <2>1. faults' = faults + 1
    BY <1>6 DEF Raise, OwnerUnknown, NoAccount, Die, Fault
  <2> QED
    BY <1>1, <1>2, <1>4, <2>1, OneTaskPaid
<1>7. CASE TransitRefused(t, w)
  <2>1. at[t] = "transit" /\ at'[t] = "idle" /\ UNCHANGED faults
    BY <1>7 DEF TransitRefused, HandBack, IInv, Typed
  <2>2. t.type = "event" /\ kind[t.sid] # "local"
    BY <2>1 DEF IInv, Fits, OnPath
  <2>3. ~ Pending(t, p)'
    BY <1>1, <2>1, <2>2 DEF Pending
  <2> QED
    BY <1>1, <1>2, <1>3, <1>4, <2>1, <2>3, OneTaskPaid
<1> QED
  BY <1>5, <1>6, <1>7

\* The refused acceptance of a local payload pays for the text sent once more.
LEMMA PersistRefusedPaid ==
    ASSUME IInv, IInv', NEW s \in Sid, NEW p \in 1 .. Parts, Balance(s, p),
           NEW t \in Task, NEW w \in Worker, PersistRefused(t, w)
    PROVE  Balance(s, p)'
<1>1. /\ at[t] = "persist" /\ UNCHANGED <<kind, stored, received, loc, faults>>
      /\ at' = [at EXCEPT ![t] = "idle"]
      /\ \E q \in {"waiting", "buried"} : state' = [state EXCEPT ![t] = q]
      /\ refused' = [refused EXCEPT ![t.sid] = @ + 1]
  BY DEF PersistRefused, HandBack, CountRefusal, Queue!Release
<1>2. Alone(t) /\ (\A u \in Task : state[u] # "new" => state'[u] # "new")
  BY <1>1 DEF Alone, IInv, Typed
<1>3. t.sid \in Sid /\ kind[t.sid] = "local" /\ refused \in [Sid -> Nat]
  BY <1>1, TaskFields DEF IInv, Fits, OnPath, Typed
<1>4. /\ Copies(s, p)' = Copies(s, p) /\ Unstored(s)' = Unstored(s)
      /\ Unstored(s) \in Nat /\ faults \in Nat
  BY <1>1, BalanceCounted DEF Copies, Unstored
<1>5. faults' >= faults /\ Unstored(s)' <= Unstored(s) /\ refused'[s] >= refused[s]
  BY <1>1, <1>3, <1>4
<1>6. \A u \in Task : u # t => (Pending(u, p)' => Pending(u, p))
  BY <1>1, <1>2 DEF Pending, Alone
<1>7. CASE s = t.sid
  <2>1. Pend(s, p)' \subseteq Pend(s, p) \cup {t}
    BY <1>6 DEF Pend
  <2>2. Allowed(s)' = Allowed(s) + 1
    <3>1. Submitted("event", s)' = Submitted("event", s)
      <4>1. state[t] # "new" /\ state'[t] # "new"
        BY <1>1 DEF IInv, Held, Typed
      <4> QED
        BY <1>1, <4>1 DEF Submitted, IInv, Typed
    <3>2. Cardinality(Submitted("event", s)) \in Nat
      BY BalanceCounted
    <3> DEFINE A == Submitted("event", s)
    <3>3. Allowed(s) = Cardinality(A) + refused[s] /\ Allowed(s)' = Cardinality(A) + refused'[s]
      BY <1>1, <1>3, <1>7, <3>1 DEF Allowed
    <3>4. refused'[s] = refused[s] + 1 /\ refused[s] \in Nat
      BY <1>1, <1>3, <1>7
    <3> HIDE DEF A
    <3> QED
      BY <3>2, <3>3, <3>4 DEF A
  <2> QED
    BY <1>1, <1>2, <1>4, <1>5, <2>1, <2>2, Paid
<1>8. CASE s # t.sid
  <2>1. Pend(s, p)' \subseteq Pend(s, p)
    BY <1>6, <1>8 DEF Pend
  <2> QED
    BY <1>1, <1>2, <1>4, <1>5, <2>1, Paid
<1> QED
  BY <1>7, <1>8

\* The handler goes on, or returns.
LEMMA HandlerPaid ==
    ASSUME IInv, IInv', NEW s \in Sid, NEW p \in 1 .. Parts, Balance(s, p), NEW t \in Task,
           \/ Skip(t) \/ Open(t) \/ Transit(t) \/ Respond(t) \/ SaveReply(t) \/ Accept(t)
           \/ AcceptRefused(t) \/ PersistOutbound(t) \/ Record(t) \/ NotTranscribed(t) \/ TwilioRefuses(t)
           \/ (Store(t) /\ AlreadyStored(t.sid))
    PROVE  Balance(s, p)'
<1>1. UNCHANGED <<kind, stored, received, state>>
  BY DEF Skip, Open, Store, Transit, Respond, SaveReply, Accept, AcceptRefused,
         PersistOutbound, Record,
         NotTranscribed, TwilioRefuses, Duplicate, channel, queue
<1>2. faults' = faults \/ faults' = faults + 1
  BY DEF Skip, Open, Store, Transit, Respond, SaveReply, Accept, AcceptRefused,
         PersistOutbound, Record,
         NotTranscribed, TwilioRefuses, Fault
<1>3. \E l : at' = [at EXCEPT ![t] = l]
  BY DEF Skip, Open, Store, Transit, Respond, SaveReply, Accept, AcceptRefused,
         PersistOutbound, Record,
         NotTranscribed, TwilioRefuses, Duplicate, Goto
<1>4. \A u \in Task : u # t => loc'[u] = loc[u]
  BY DEF Skip, Open, Store, Transit, Respond, SaveReply, Accept, AcceptRefused,
         PersistOutbound, Record,
         NotTranscribed, TwilioRefuses, IInv, Typed
<1>5. Alone(t)
  BY <1>1, <1>3, <1>4 DEF Alone, IInv, Typed
<1>6. Fits(t) /\ state[t] = "taken" /\ state'[t] = "taken"
  <2>1. at[t] # "idle"
    BY DEF Skip, Open, Store, Transit, Respond, SaveReply, Accept, AcceptRefused,
         PersistOutbound, Record,
           NotTranscribed, TwilioRefuses
  <2> QED
    BY <1>1, <2>1 DEF IInv, Held
<1>7. Pending(t, p)' => Pending(t, p)
  <2>1. CASE Skip(t) \/ NotTranscribed(t) \/ TwilioRefuses(t) \/ PersistOutbound(t) \/ Record(t)
             \/ AcceptRefused(t) \/ (Store(t) /\ AlreadyStored(t.sid))
    <3>1. at'[t] = "ack"
      BY <2>1 DEF Skip, Store, PersistOutbound, Record, NotTranscribed, TwilioRefuses,
                  AcceptRefused, Duplicate, Goto, IInv, Typed
    <3> QED
      BY <1>6, <3>1 DEF Pending
  <2>2. CASE Open(t)
    <3>1. at[t] = "resolve" /\ at'[t] = IF kind[t.sid] = "local" THEN "send" ELSE "store"
      BY <2>2 DEF Open, Goto, Flow, IInv, Typed
    <3>2. t.type = "event"
      BY <1>6, <3>1 DEF Fits, OnPath
    <3> QED
      BY <1>1, <1>6, <3>1, <3>2 DEF Pending
  <2>3. CASE Transit(t)
    <3>1. at[t] = "transit" /\ at'[t] \in {"ack", "chain"}
      BY <2>3 DEF Transit, Goto, IInv, Typed
    <3>2. t.type = "event"
      BY <1>6, <3>1 DEF Fits, OnPath
    <3> QED
      BY <1>6, <3>1, <3>2 DEF Pending
  <2>4. CASE Respond(t) \/ SaveReply(t) \/ Accept(t)
    <3>1. at[t] \in {"think", "save", "accept"} /\ at'[t] \in {"save", "accept", "submit"}
      BY <2>4 DEF Respond, SaveReply, Accept, Goto, IInv, Typed
    <3>2. t.type = "answer"
      BY <1>6, <3>1 DEF Fits, OnPath
    <3> QED
      BY <1>6, <3>1, <3>2 DEF Pending
  <2> QED
    BY <2>1, <2>2, <2>3, <2>4
<1>8. faults \in Nat
  BY BalanceCounted
<1>9. faults' >= faults
  BY <1>2, <1>8
<1>10. refused'[s] >= refused[s]
  <2>1. CASE UNCHANGED refused
    BY <2>1, RefusalsKept
  <2>2. CASE AcceptRefused(t)
    BY <2>2, RefusalCounted DEF AcceptRefused, IInv
  <2> QED
    BY <2>1, <2>2 DEF Skip, Open, Store, Transit, Respond, SaveReply, Accept, PersistOutbound,
                      Record, NotTranscribed, TwilioRefuses
<1> QED
  BY <1>1, <1>5, <1>6, <1>7, <1>9, <1>10, OneTaskPaid

\* The row of the message is written once: it pays for the first answer.
LEMMA StorePaid ==
    ASSUME IInv, IInv', NEW s \in Sid, NEW p \in 1 .. Parts, Balance(s, p), NEW t \in Task,
           Store(t), ~ AlreadyStored(t.sid)
    PROVE  Balance(s, p)'
<1>1. /\ at[t] = "store" /\ at' = [at EXCEPT ![t] = "transit"]
      /\ stored' = [stored EXCEPT ![t.sid] = [conv |-> loc[t].conv, handoff |-> Handoff(t)]]
      /\ stored[t.sid].conv = 0
      /\ UNCHANGED <<kind, received, state, loc, refused, faults>>
  BY DEF Store, AlreadyStored, Goto, queue
<1>2. Alone(t)
  BY <1>1 DEF Alone, IInv, Typed
<1>3. t.sid \in Sid /\ kind[t.sid] # "local" /\ loc[t].conv # 0
  BY <1>1, TaskFields DEF IInv, Fits, OnPath, Refers
<1>4. \A u \in Task : u # t => (Pending(u, p)' => Pending(u, p))
  BY <1>1, <1>2 DEF Pending, Alone
<1>5. faults \in Nat /\ faults' >= faults /\ refused'[s] >= refused[s]
  BY <1>1, BalanceCounted, RefusalsKept
<1>6. Copies(s, p)' = Copies(s, p)
  BY <1>1 DEF Copies
<1>7. CASE s = t.sid
  <2>1. Unstored(s) = 1 /\ Unstored(s)' = 0
    BY <1>1, <1>3, <1>7 DEF Unstored, IInv, Typed
  <2>2. Pend(s, p)' \subseteq Pend(s, p) \cup {t}
    BY <1>4 DEF Pend
  <2>3. Unstored(s)' = Unstored(s) - 1 /\ Unstored(s)' <= Unstored(s)
    BY <2>1
  <2> QED
    BY <1>1, <1>5, <1>6, <2>2, <2>3, Paid
<1>8. CASE s # t.sid
  <2>1. Unstored(s)' = Unstored(s) /\ Unstored(s) \in Nat
    BY <1>1, <1>8, BalanceCounted DEF Unstored, IInv, Typed
  <2>2. Pend(s, p)' \subseteq Pend(s, p)
    BY <1>4, <1>8 DEF Pend
  <2>3. Unstored(s)' <= Unstored(s)
    BY <2>1
  <2> QED
    BY <1>1, <1>5, <1>6, <2>2, <2>3, Paid
<1> QED
  BY <1>7, <1>8

\* A copy of a chunk was pending, and is no more.
LEMMA SendPartPaid ==
    ASSUME IInv, IInv', NEW s \in Sid, NEW p \in 1 .. Parts, Balance(s, p), NEW t \in Task,
           SendPart(t)
    PROVE  Balance(s, p)'
<1>1. /\ at[t] = "send" /\ UNCHANGED <<kind, stored, state, refused, faults>>
      /\ \E l : at' = [at EXCEPT ![t] = l]
      /\ \E l : loc' = [loc EXCEPT ![t] = l]
  <2>1. at[t] = "send" /\ UNCHANGED <<kind, stored, state, refused, faults>>
    BY DEF SendPart, queue
  <2>2. \E l : at' = [at EXCEPT ![t] = l]
    BY DEF SendPart, Goto, IInv, Typed
  <2>3. \E l : loc' = [loc EXCEPT ![t] = l]
    BY DEF SendPart
  <2> QED
    BY <2>1, <2>2, <2>3
<1>2. Alone(t)
  BY <1>1 DEF Alone, IInv, Typed
<1>3. Fits(t) /\ state[t] = "taken" /\ loc[t] \in Locals
  BY <1>1 DEF IInv, Held, Typed
<1>4. t.type = "send" \/ (t.type = "event" /\ kind[t.sid] = "local")
  BY <1>1, <1>3 DEF Fits, OnPath
<1>5. loc[t].part \in 1 .. Parts /\ Parts \in Nat \ {0}
  BY <1>3, ChannelAssumption DEF Locals
<1>6. \/ at'[t] = "send" /\ loc'[t].part = loc[t].part + 1
      \/ at'[t] \in {"persist", "record"}
  <2>1. CASE loc[t].part < Parts
    <3>1. loc'[t] = [loc[t] EXCEPT !.part = @ + 1] /\ at'[t] = "send"
      BY <1>1, <2>1 DEF SendPart, IInv, Typed
    <3> QED
      BY <1>3, <3>1 DEF Locals
  <2>2. CASE ~ (loc[t].part < Parts)
    BY <2>2 DEF SendPart, Goto, IInv, Typed
  <2> QED
    BY <2>1, <2>2
<1>7. /\ Pending(t, p)' => Pending(t, p)
      /\ loc[t].part = p => Pending(t, p) /\ ~ Pending(t, p)'
  BY <1>1, <1>3, <1>4, <1>5, <1>6 DEF Pending
<1>8. \A u \in Task : u # t => (Pending(u, p)' => Pending(u, p))
  BY <1>1, <1>2 DEF Pending, Alone
<1>9. /\ Copies(s, p) \in Nat /\ IsFiniteSet(Pend(s, p)) /\ Unstored(s) \in Nat
      /\ faults \in Nat /\ Unstored(s)' = Unstored(s)
  BY <1>1, BalanceCounted DEF Unstored
<1>10. (\A u \in Task : state[u] # "new" => state'[u] # "new") /\ refused'[s] >= refused[s]
  BY <1>1, RefusalsKept
<1>11. CASE s = t.sid /\ loc[t].part = p
  <2>1. Copies(s, p)' = Copies(s, p) + 1
    BY <1>11, PartCounts
  <2>2. t \in Pend(s, p) /\ Pend(s, p)' \subseteq Pend(s, p) \ {t}
    BY <1>7, <1>8, <1>11 DEF Pend
  <2>3. Allowed(s) <= Allowed(s)' /\ Allowed(s) \in Nat /\ Allowed(s)' \in Nat
    BY <1>1, <1>10, AllowedGrows
  <2> DEFINE A == Pend(s, p)
             B == Pend(s, p)'
  <2>4. Copies(s, p) + Cardinality(A) + Unstored(s) <= faults + Allowed(s)
    BY DEF Balance
  <2>5. t \in A /\ B \subseteq A \ {t} /\ IsFiniteSet(A)
    BY <1>9, <2>2
  <2> HIDE DEF A, B
  <2>6. Cardinality(B) \in Nat /\ Cardinality(A) \in Nat /\ Cardinality(B) <= Cardinality(A) - 1
    BY <2>5, OneLess
  <2>7. Copies(s, p)' + Cardinality(B) + Unstored(s)' <= faults' + Allowed(s)'
    BY <1>1, <1>9, <2>1, <2>3, <2>4, <2>6
  <2> QED
    BY <2>7 DEF Balance, B
<1>12. CASE ~ (s = t.sid /\ loc[t].part = p)
  <2>1. Copies(s, p)' = Copies(s, p)
    BY <1>12, PartCounts
  <2>2. Pend(s, p)' \subseteq Pend(s, p)
    BY <1>7, <1>8 DEF Pend
  <2>3. faults' >= faults /\ Unstored(s)' <= Unstored(s)
    BY <1>1, <1>9
  <2> QED
    BY <1>1, <1>10, <2>1, <2>2, <2>3, Paid
<1> QED
  BY <1>11, <1>12

\* The next task of a chain takes the place of the one that submits it.
LEMMA SubmitPaid ==
    ASSUME IInv, IInv', NEW s \in Sid, NEW p \in 1 .. Parts, Balance(s, p), NEW t \in Task,
           at[t] # "idle", at' = [at EXCEPT ![t] = "ack"], Pending(t, p),
           NEW type \in Type, NEW l, Enqueue(type, t.sid, l),
           UNCHANGED <<kind, stored, received, refused, faults>>
    PROVE  Balance(s, p)'
<1>1. t.sid \in Sid /\ Typed /\ state[t] = "taken"
  BY TaskFields DEF IInv, Held
<1>2. \/ \E u \in Task : /\ u.type = type /\ u.sid = t.sid
                         /\ state[u] = "new"
                         /\ state' = [state EXCEPT ![u] = "waiting"]
                         /\ loc' = [loc EXCEPT ![u] = l]
      \/ UNCHANGED <<state, loc>>
  BY <1>1, Enqueues
<1>3. \E u : /\ u.sid = t.sid /\ u # t
             /\ \A v \in Task : v # u => state'[v] = state[v] /\ loc'[v] = loc[v]
  <2>1. CASE UNCHANGED <<state, loc>>
    <3>1. [sid |-> t.sid].sid = t.sid /\ [sid |-> t.sid] # t
      BY DEF Task
    <3> QED
      BY <2>1, <3>1
  <2>2. CASE ~ UNCHANGED <<state, loc>>
    BY <1>1, <1>2, <2>2 DEF Typed
  <2> QED
    BY <2>1, <2>2
<1>4. \A u \in Task : state[u] # "new" => state'[u] # "new"
  BY <1>1, <1>2 DEF Typed
<1>5. PICK u : /\ u.sid = t.sid /\ u # t
               /\ \A v \in Task : v # u => state'[v] = state[v] /\ loc'[v] = loc[v]
  BY <1>3
<1>6. ASSUME NEW v \in Task, v # u, v # t, Pending(v, p)'
      PROVE  Pending(v, p)
  <2>1. at'[v] = at[v] /\ state'[v] = state[v] /\ loc'[v] = loc[v]
    BY <1>1, <1>5, <1>6 DEF Typed
  <2> QED
    BY <1>6, <2>1 DEF Pending
<1>7. ~ Pending(t, p)'
  <2>1. at'[t] = "ack" /\ state'[t] = "taken"
    BY <1>1, <1>5 DEF Typed
  <2> QED
    BY <2>1 DEF Pending
<1>8. /\ Copies(s, p)' = Copies(s, p) /\ Unstored(s)' = Unstored(s)
      /\ Unstored(s) \in Nat /\ faults \in Nat
  BY BalanceCounted DEF Copies, Unstored
<1>9. faults' >= faults /\ Unstored(s)' <= Unstored(s) /\ refused'[s] >= refused[s]
  BY <1>8, RefusalsKept
<1>10. CASE s = t.sid
  <2>1. t \in Pend(s, p) /\ Pend(s, p)' \subseteq (Pend(s, p) \ {t}) \cup {u}
    BY <1>6, <1>7, <1>10 DEF Pend
  <2> QED
    BY <1>4, <1>8, <1>9, <2>1, Paid
<1>11. CASE s # t.sid
  <2>1. Pend(s, p)' \subseteq Pend(s, p)
    BY <1>5, <1>6, <1>11 DEF Pend
  <2> QED
    BY <1>4, <1>8, <1>9, <2>1, Paid
<1> QED
  BY <1>10, <1>11

LEMMA ChainPaid ==
    ASSUME IInv, IInv', NEW s \in Sid, NEW p \in 1 .. Parts, Balance(s, p), NEW t \in Task,
           Chain(t) \/ Transcribe(t) \/ SubmitSend(t)
    PROVE  Balance(s, p)'
<1>1. /\ at[t] \in {"chain", "transcribe", "submit"} /\ at' = [at EXCEPT ![t] = "ack"]
      /\ UNCHANGED <<kind, stored, received, refused, faults>>
  BY DEF Chain, Transcribe, SubmitSend, Goto, channel
<1>2. at[t] # "idle" /\ Fits(t)
  BY <1>1 DEF IInv
<1>3. Pending(t, p)
  BY <1>1, <1>2 DEF Fits, OnPath, Pending
<1>4. \E type \in Type : \E l : Enqueue(type, t.sid, l)
  <2>1. {"transcribe", "answer", "send"} \subseteq Type
    BY DEF Type
  <2> QED
    BY <2>1 DEF Chain, Transcribe, SubmitSend, SubmitTranscription, SubmitAnswer
<1> QED
  BY <1>1, <1>2, <1>3, <1>4, SubmitPaid

\* A delivery pays for the text of a local payload, and makes nothing else pending.
LEMMA DeliverPaid ==
    ASSUME IInv, IInv', NEW s \in Sid, NEW p \in 1 .. Parts, Balance(s, p), NEW x \in Sid,
           Deliver(x)
    PROVE  Balance(s, p)'
<1>1. Enqueue("event", x, NoLocals) /\ UNCHANGED <<kind, stored, received, at, refused, faults>>
  BY DEF Deliver, Accepted, channel
<1>2. Typed /\ "event" \in Type
  BY DEF IInv, Type
<1>3. \/ \E u \in Task : /\ u.type = "event" /\ u.sid = x
                         /\ state[u] = "new"
                         /\ state' = [state EXCEPT ![u] = "waiting"]
                         /\ loc' = [loc EXCEPT ![u] = NoLocals]
      \/ UNCHANGED <<state, loc>>
  BY <1>1, <1>2, Enqueues
<1>4. \A u \in Task : state[u] # "new" => state'[u] # "new"
  BY <1>2, <1>3 DEF Typed
<1>5. /\ Copies(s, p)' = Copies(s, p) /\ Unstored(s)' = Unstored(s)
      /\ Unstored(s) \in Nat /\ faults \in Nat
  BY <1>1, BalanceCounted DEF Copies, Unstored
<1>6. faults' >= faults /\ Unstored(s)' <= Unstored(s) /\ refused'[s] >= refused[s]
  BY <1>1, <1>5, RefusalsKept
<1>7. CASE UNCHANGED <<state, loc>>
  <2>1. Pend(s, p)' \subseteq Pend(s, p)
    BY <1>1, <1>7 DEF Pend, Pending
  <2> QED
    BY <1>1, <1>4, <1>5, <1>6, <2>1, Paid
<1>8. ASSUME NEW u \in Task, u.type = "event", u.sid = x, state[u] = "new",
             state' = [state EXCEPT ![u] = "waiting"], loc' = [loc EXCEPT ![u] = NoLocals]
      PROVE  Balance(s, p)'
  <2>1. ASSUME NEW v \in Task, v # u, Pending(v, p)'
        PROVE  Pending(v, p)
    <3>1. at'[v] = at[v] /\ state'[v] = state[v] /\ loc'[v] = loc[v]
      BY <1>1, <1>2, <1>8, <2>1 DEF Typed
    <3> QED
      BY <1>1, <2>1, <3>1 DEF Pending
  <2>2. state'[u] = "waiting" /\ at'[u] = "idle"
    BY <1>1, <1>2, <1>8 DEF Typed, IInv, Held
  <2>3. CASE s = x /\ kind[s] = "local"
    <3>1. Pend(s, p)' \subseteq Pend(s, p) \cup {u}
      BY <2>1 DEF Pend
    <3>2. Allowed(s)' = Allowed(s) + 1
      <4> DEFINE A == Submitted("event", s)
                 B == Submitted("event", s)'
      <4>1. B = A \cup {u} /\ u \notin A
        BY <1>2, <1>8, <2>3 DEF Submitted, Typed
      <4>2. IsFiniteSet(A)
        BY BalanceCounted
      <4>3. /\ Allowed(s) = Cardinality(A) + refused[s] /\ refused[s] \in Nat
            /\ Allowed(s)' = Cardinality(B) + refused[s]
        BY <1>1, <1>2, <2>3 DEF Allowed, Typed
      <4> HIDE DEF A, B
      <4>4. Cardinality(A \cup {u}) = Cardinality(A) + 1 /\ Cardinality(A) \in Nat
        BY <4>1, <4>2, FS_AddElement, FS_CardinalityType
      <4> QED
        BY <4>1, <4>3, <4>4
    <3> QED
      BY <1>1, <1>4, <1>5, <1>6, <3>1, <3>2, Paid
  <2>4. CASE ~ (s = x /\ kind[s] = "local")
    <3>1. s = x => ~ Pending(u, p)'
      BY <1>1, <1>8, <2>2, <2>4 DEF Pending
    <3>2. Pend(s, p)' \subseteq Pend(s, p)
      BY <1>8, <2>1, <3>1 DEF Pend
    <3> QED
      BY <1>1, <1>4, <1>5, <1>6, <3>2, Paid
  <2> QED
    BY <2>3, <2>4
<1> QED
  BY <1>3, <1>7, <1>8

LEMMA InitPaid == Init => CopiesPaid
<1> SUFFICES ASSUME Init, NEW s \in Sid, NEW p \in 1 .. Parts
             PROVE  Balance(s, p)
  BY DEF CopiesPaid
<1>1. IInv
  BY InitFits
<1>2. Pend(s, p) = {}
  BY DEF Init, Queue!Init, Pend, Pending
<1>3. Cardinality(Pend(s, p)) = 0
  BY <1>2, FS_EmptySet
<1>4. Copies(s, p) = 0
  <2>1. {i \in DOMAIN received[s] : received[s][i] = p} = {}
    BY DEF Init
  <2> QED
    BY <2>1, FS_EmptySet DEF Copies
<1>5. Unstored(s) <= Allowed(s) /\ Unstored(s) \in Nat /\ Allowed(s) \in Nat
  <2>1. Cardinality(Submitted("event", s)) \in Nat
    BY <1>1, BalanceCounted
  <2>2. refused[s] = 0
    BY DEF Init
  <2> QED
    BY <2>1, <2>2 DEF Unstored, Allowed
<1> QED
  BY <1>3, <1>4, <1>5 DEF Balance, Init

LEMMA StepPaid == IInv /\ CopiesPaid /\ [Next]_vars => CopiesPaid'
<1> SUFFICES ASSUME IInv, CopiesPaid, [Next]_vars, NEW s \in Sid, NEW p \in 1 .. Parts
             PROVE  Balance(s, p)'
  BY DEF CopiesPaid
<1>1. IInv' /\ Balance(s, p)
  BY StepFits DEF CopiesPaid
<1>2. CASE UNCHANGED <<kind, stored, received, queue, locals, refused, faults>>
  <2>1. /\ Copies(s, p)' = Copies(s, p) /\ Unstored(s)' = Unstored(s)
        /\ Unstored(s) \in Nat /\ faults \in Nat
    BY <1>2, BalanceCounted DEF Copies, Unstored
  <2>2. Pend(s, p)' \subseteq Pend(s, p) /\ \A u \in Task : state[u] # "new" => state'[u] # "new"
    BY <1>2 DEF Pend, Pending, queue, locals
  <2>3. faults' >= faults /\ Unstored(s)' <= Unstored(s) /\ refused'[s] >= refused[s]
    BY <1>2, <2>1, RefusalsKept
  <2> QED
    BY <1>1, <1>2, <2>1, <2>2, <2>3, Paid
<1>3. CASE \E to \in Targets : OtherCall(to)
  BY <1>2, <1>3 DEF OtherCall
<1>4. CASE UNCHANGED vars
  BY <1>2, <1>4 DEF vars, channel
<1>5. ASSUME NEW t \in Task, Step(t)
      PROVE  Balance(s, p)'
  BY <1>1, <1>5, HandlerPaid, StorePaid, ChainPaid, SendPartPaid DEF Step
<1> QED
  BY <1>1, <1>3, <1>4, <1>5, TakePaid, ReleasePaid, PersistRefusedPaid, HandlerPaid,
     DeliverPaid DEF Next, Work

(***************************************************************************)
(* A user sees a chunk twice only if something failed: every further copy  *)
(* costs a fault, however often the webhook is delivered and whatever the  *)
(* executions in flight do; a local payload is sent again for a delivery   *)
(* and for a refused acceptance, too.                                      *)
(***************************************************************************)
THEOREM ChannelCopiesNeedFaults == Spec => []CopiesNeedFaults
<1>1. IInv /\ CopiesPaid => CopiesNeedFaults
  <2> SUFFICES ASSUME IInv, CopiesPaid, NEW s \in Sid, NEW p \in 1 .. Parts
               PROVE  Copies(s, p) <= faults + IF kind[s] = "local"
                                               THEN Cardinality(Submitted("event", s)) + refused[s]
                                               ELSE 1
    BY DEF CopiesNeedFaults
  <2>1. Copies(s, p) + Cardinality(Pend(s, p)) + Unstored(s) <= faults + Allowed(s)
    BY DEF CopiesPaid, Balance
  <2>2. /\ Copies(s, p) \in Nat /\ Cardinality(Pend(s, p)) \in Nat
        /\ Unstored(s) \in Nat /\ Allowed(s) \in Nat /\ faults \in Nat
    BY BalanceCounted
  <2>3. Copies(s, p) <= faults + Allowed(s)
    BY <2>1, <2>2
  <2> QED
    BY <2>3 DEF Allowed
<1>2. Init => IInv /\ CopiesPaid
  BY InitFits, InitPaid
<1>3. (IInv /\ CopiesPaid) /\ [Next]_vars => (IInv /\ CopiesPaid)'
  BY StepFits, StepPaid
<1> QED
  BY <1>1, <1>2, <1>3, PTL DEF Spec
=============================================================================
