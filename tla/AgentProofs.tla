----------------------------- MODULE AgentProofs -----------------------------
(***************************************************************************)
(* Theorems about Agent, for any turns, workers, histories, limits and     *)
(* failures, and whatever the language model returns; and about Finance,   *)
(* the tools that a turn of the finance agent executes.                    *)
(***************************************************************************)
EXTENDS Agent, SequenceTheorems, FiniteSetTheorems, WellFoundedInduction, TLAPS

-----------------------------------------------------------------------------
(***************************************************************************)
(* The inductive invariant.                                                *)
(***************************************************************************)
Typed ==
    /\ db \in Seq(Message) /\ cache \in Seq(Message)
    /\ redis \in BOOLEAN /\ torn \in BOOLEAN
    /\ off \subseteq Range(Proc)
    /\ pc \in [Turn -> PC]
    /\ phase \in [Turn -> {"routing", "task"}]
    /\ context \in [Turn -> Seq(Message)]
    /\ latest \in [Turn -> Nat]
    /\ steps \in [Turn -> Nat] /\ tools \in [Turn -> Nat]
    /\ spoken \in [Turn -> BOOLEAN]
    /\ answer \in [Turn -> SUBSET What]
    /\ faults \in Nat /\ expiries \in Nat /\ faults + expiries <= MaxFaults

\* Lists are trimmed, and the last answer stays where it is.
Trimmed ==
    /\ Len(cache) <= MaxMessages
    /\ \A t \in Turn : Len(context[t]) <= Limit /\ latest[t] <= Len(db)

\* The answer holds what the model said, and what was not text is not in it.
Answers(t) == "said" \in answer[t] /\ answer[t] \subseteq Texts

\* Every tool is a step; only the one that raised is not counted as one.
Loop(t) ==
    /\ steps[t] <= MaxSteps[t]
    /\ tools[t] <= IF pc[t] = "step" THEN steps[t] ELSE MaxSteps[t]
    /\ pc[t] \notin {"step", "keep", "reply", "excuse"} => tools[t] = 0 /\ ~ spoken[t]
    /\ spoken[t] => Answers(t)
    /\ pc[t] = "keep" => answer[t] # {}

\* An answer that is remembered and not yet sent.
Coming(t) == pc[t] = "reply" /\ answer[t] # {}

\* What the cache holds is in the table, or about to be.
Told ==
    /\ \A t \in Turn : Running(t) => User(t) \in ToSet(db)
    /\ \A t \in Turn : pc[t] = "fill" => ToSet(context[t]) \subseteq ToSet(db)
    /\ faults = 0 =>
          \A m \in ToSet(cache) :
              m \in ToSet(db) \/ \E t \in Turn : Coming(t) /\ m = Assistant(t)

IInv == Typed /\ Trimmed /\ (\A t \in Turn : Loop(t)) /\ Told

-----------------------------------------------------------------------------
(***************************************************************************)
(* Lemmas about the lists.                                                 *)
(***************************************************************************)
LEMMA LastOfList ==
    ASSUME NEW S, NEW s \in Seq(S), NEW n \in Nat \ {0}
    PROVE  /\ LastOf(n, s) \in Seq(S) /\ Len(LastOf(n, s)) <= n
           /\ Len(LastOf(n, s)) \in Nat
           /\ ToSet(LastOf(n, s)) \subseteq ToSet(s)
<1> DEFINE m == IF Len(s) > n THEN Len(s) - n + 1 ELSE 1
<1>1. Len(s) \in Nat /\ m \in 1 .. (Len(s) + 1) /\ Len(s) - m + 1 <= n /\ Len(s) - m + 1 \in Nat
  OBVIOUS
<1>2. /\ SubSeq(s, m, Len(s)) \in Seq(S)
      /\ Len(SubSeq(s, m, Len(s))) = Len(s) - m + 1
      /\ \A i \in 1 .. (Len(s) - m + 1) : SubSeq(s, m, Len(s))[i] = s[m + i - 1]
  <2>1. m \in Int /\ Len(s) \in Int /\ \A i \in m .. Len(s) : s[i] \in S
    BY <1>1
  <2> HIDE DEF m
  <2>2. /\ SubSeq(s, m, Len(s)) \in Seq(S)
        /\ Len(SubSeq(s, m, Len(s))) = IF m <= Len(s) THEN Len(s) - m + 1 ELSE 0
        /\ \A i \in 1 .. Len(s) - m + 1 : SubSeq(s, m, Len(s))[i] = s[m + i - 1]
    BY <2>1, SubSeqProperties
  <2> QED
    BY <1>1, <2>2
<1> HIDE DEF m
<1>3. ToSet(SubSeq(s, m, Len(s))) \subseteq ToSet(s)
  <2>1. DOMAIN SubSeq(s, m, Len(s)) = 1 .. (Len(s) - m + 1) /\ DOMAIN s = 1 .. Len(s)
    BY <1>2
  <2>2. \A i \in 1 .. (Len(s) - m + 1) : m + i - 1 \in 1 .. Len(s)
    BY <1>1
  <2> QED
    BY <1>2, <2>1, <2>2 DEF ToSet
<1> QED
  BY <1>1, <1>2, <1>3 DEF LastOf, m

LEMMA AddedTo ==
    ASSUME NEW S, NEW s \in Seq(S), NEW m \in S
    PROVE  /\ Append(s, m) \in Seq(S) /\ Len(Append(s, m)) = Len(s) + 1 /\ Len(s) \in Nat
           /\ ToSet(Append(s, m)) = ToSet(s) \cup {m}
<1>1. /\ Append(s, m) \in Seq(S) /\ Len(Append(s, m)) = Len(s) + 1 /\ Len(s) \in Nat
      /\ DOMAIN Append(s, m) = 1 .. (Len(s) + 1) /\ DOMAIN s = 1 .. Len(s)
      /\ Append(s, m)[Len(s) + 1] = m
      /\ \A i \in 1 .. Len(s) : Append(s, m)[i] = s[i]
  OBVIOUS
<1>2. 1 .. (Len(s) + 1) = (1 .. Len(s)) \cup {Len(s) + 1}
  BY <1>1
<1>3. ToSet(Append(s, m)) = ToSet(s) \cup {m}
  BY <1>1, <1>2 DEF ToSet
<1> QED
  BY <1>1, <1>3

LEMMA Joined ==
    ASSUME NEW S, NEW s \in Seq(S), NEW r \in Seq(S)
    PROVE  s \o r \in Seq(S) /\ ToSet(s \o r) \subseteq ToSet(s) \cup ToSet(r)
<1>1. /\ s \o r \in Seq(S) /\ Len(s) \in Nat /\ Len(r) \in Nat
      /\ DOMAIN (s \o r) = 1 .. (Len(s) + Len(r))
      /\ DOMAIN s = 1 .. Len(s) /\ DOMAIN r = 1 .. Len(r)
      /\ \A i \in 1 .. (Len(s) + Len(r)) :
            (s \o r)[i] = IF i <= Len(s) THEN s[i] ELSE r[i - Len(s)]
  OBVIOUS
<1>2. \A i \in 1 .. (Len(s) + Len(r)) : i \in 1 .. Len(s) \/ (i > Len(s) /\ i - Len(s) \in 1 .. Len(r))
  BY <1>1
<1>3. \A i \in 1 .. (Len(s) + Len(r)) : (s \o r)[i] \in ToSet(s) \cup ToSet(r)
  <2> SUFFICES ASSUME NEW i \in 1 .. (Len(s) + Len(r))
               PROVE  (s \o r)[i] \in ToSet(s) \cup ToSet(r)
    OBVIOUS
  <2>1. CASE i \in 1 .. Len(s)
    BY <1>1, <2>1 DEF ToSet
  <2>2. CASE i > Len(s) /\ i - Len(s) \in 1 .. Len(r)
    BY <1>1, <2>2 DEF ToSet
  <2> QED
    BY <1>2, <2>1, <2>2
<1> QED
  BY <1>1, <1>3 DEF ToSet

LEMMA OneEntry ==
    ASSUME NEW m
    PROVE  ToSet(<<m>>) = {m}
  BY DEF ToSet

\* The place of the last answer is a place in the table.
LEMMA LastPlace ==
    ASSUME NEW n \in Nat, NEW S, S \subseteq 1 .. n, S # {}
    PROVE  /\ (CHOOSE i \in S : \A j \in S : j <= i) \in S
           /\ \A k \in S : k <= (CHOOSE i \in S : \A j \in S : j <= i)
<1> DEFINE Distance == {n - i : i \in S}
<1>1. Distance \subseteq Nat /\ Distance # {}
  <2>1. \A i \in S : n - i \in Nat
    OBVIOUS
  <2>2. \E i \in S : n - i \in Distance
    BY Zenon
  <2> QED
    BY <2>1, <2>2
<1> HIDE DEF Distance
<1>2. PICK d \in Distance : \A e \in Distance : ~ (<<e, d>> \in OpToRel(<, Nat))
  BY <1>1, NatLessThanWellFounded, WFMin, Zenon
<1>3. \A e \in Distance : ~ (e < d)
  BY <1>1, <1>2 DEF OpToRel
<1>4. \E i \in S : \A j \in S : j <= i
  <2>1. PICK i \in S : d = n - i
    BY DEF Distance
  <2>2. ASSUME NEW j \in S PROVE j <= i
    <3>1. n - j \in Distance
      BY DEF Distance
    <3> QED
      BY <3>1, <2>1, <1>3
  <2> QED
    BY <2>2
<1> QED
  BY <1>4, Zenon

LEMMA Messages ==
    ASSUME NEW t \in Turn
    PROVE  User(t) \in Message /\ Assistant(t) \in Message /\ Fixed(t) \in Message
  BY DEF User, Assistant, Fixed, Message

(***************************************************************************)
(* A write reaches the list, trimmed, or it does not; nothing else gets    *)
(* into it.                                                                *)
(***************************************************************************)
LEMMA Writes ==
    ASSUME Typed, Trimmed, NEW t \in Turn, NEW s \in Seq(Message), Write(t, s)
    PROVE  /\ cache' \in Seq(Message) /\ Len(cache') <= MaxMessages
           /\ off' \subseteq Range(Proc)
           /\ ToSet(cache') \subseteq ToSet(cache) \cup ToSet(s)
<1>1. off' \subseteq Range(Proc)
  BY AgentAssumption DEF Write, Reach, Typed, Range
<1>2. CASE UNCHANGED cache
  BY <1>1, <1>2 DEF Typed, Trimmed
<1>3. CASE Push(s)
  <2>1. cache \o s \in Seq(Message) /\ ToSet(cache \o s) \subseteq ToSet(cache) \cup ToSet(s)
    BY Joined DEF Typed
  <2>2. /\ cache' = LastOf(MaxMessages, cache \o s) /\ MaxMessages \in Nat \ {0}
    BY <1>3, AgentAssumption DEF Push
  <2>3. /\ cache' \in Seq(Message) /\ Len(cache') <= MaxMessages
        /\ ToSet(cache') \subseteq ToSet(cache \o s)
    BY <2>1, <2>2, LastOfList
  <2> QED
    BY <1>1, <2>1, <2>3
<1> QED
  BY <1>2, <1>3 DEF Write, Reach

-----------------------------------------------------------------------------
(***************************************************************************)
(* The invariant is inductive.                                             *)
(***************************************************************************)
\* A step of turn t: the other turns stay where they are.
Alone(t) ==
    \A u \in Turn : u # t =>
        /\ pc'[u] = pc[u] /\ context'[u] = context[u]
        /\ steps'[u] = steps[u] /\ tools'[u] = tools[u]
        /\ spoken'[u] = spoken[u] /\ answer'[u] = answer[u]

LEMMA TurnKeeps ==
    ASSUME IInv, Typed', Trimmed', NEW t \in Turn, Alone(t), Loop(t)',
           ToSet(db) \subseteq ToSet(db'),
           Running(t)' => User(t) \in ToSet(db'),
           pc'[t] = "fill" => ToSet(context'[t]) \subseteq ToSet(db'),
           faults' = 0 => faults = 0,
           faults' = 0 => \A m \in ToSet(cache') :
               \/ m \in ToSet(cache) \cup ToSet(db')
               \/ Coming(t)' /\ m = Assistant(t),
           (faults' = 0 /\ Coming(t)) => Coming(t)' \/ Assistant(t) \in ToSet(db')
    PROVE  IInv'
<1> USE DEF IInv
<1>1. \A u \in Turn : Loop(u)'
  BY DEF Alone, Loop, Answers
<1>2. \A u \in Turn : Running(u)' => User(u) \in ToSet(db')
  BY DEF Alone, Running, Told
<1>3. \A u \in Turn : pc'[u] = "fill" => ToSet(context'[u]) \subseteq ToSet(db')
  BY DEF Alone, Told
<1>4. ASSUME faults' = 0, NEW m \in ToSet(cache')
      PROVE  m \in ToSet(db') \/ \E u \in Turn : Coming(u)' /\ m = Assistant(u)
  <2>1. CASE m \in ToSet(db') \/ (Coming(t)' /\ m = Assistant(t))
    BY <2>1
  <2>2. CASE m \in ToSet(cache)
    <3>1. m \in ToSet(db) \/ \E u \in Turn : Coming(u) /\ m = Assistant(u)
      BY <1>4, <2>2 DEF Told
    <3>2. \A u \in Turn : Coming(u) => Coming(u)' \/ Assistant(u) \in ToSet(db')
      BY <1>4 DEF Alone, Coming
    <3> QED
      BY <3>1, <3>2
  <2> QED
    BY <1>4, <2>1, <2>2
<1> QED
  BY <1>1, <1>2, <1>3, <1>4 DEF Told

\* Steps that leave the lists alone.
LEMMA QuietTurnKeeps ==
    ASSUME IInv, Typed', NEW t \in Turn, Alone(t), Loop(t)',
           UNCHANGED <<db, cache>>, Running(t), pc'[t] # "fill",
           Len(context'[t]) <= Limit, latest' = latest \/ latest' = [latest EXCEPT ![t] = 0],
           faults' = 0 => faults = 0 /\ ~ Coming(t)
    PROVE  IInv'
<1> USE DEF IInv
<1>1. Trimmed'
  <2>1. \A u \in Turn : Len(context'[u]) <= Limit
    BY DEF Trimmed, Alone
  <2>2. Len(db) \in Nat
    BY DEF Typed
  <2>3. ASSUME NEW u \in Turn PROVE latest'[u] <= Len(db)
    <3>1. latest[u] <= Len(db) /\ latest \in [Turn -> Nat]
      BY DEF Trimmed, Typed
    <3>2. latest'[u] = latest[u] \/ latest'[u] = 0
      BY <3>1
    <3> QED
      BY <2>2, <3>1, <3>2
  <2> QED
    BY <2>1, <2>3 DEF Trimmed
<1>2. User(t) \in ToSet(db')
  BY DEF Told
<1> QED
  BY <1>1, <1>2, TurnKeeps

LEMMA StartKeeps ==
    ASSUME IInv, NEW t \in Turn, Start(t)
    PROVE  IInv'
<1> USE DEF IInv
<1> DEFINE answered == {i \in DOMAIN db : db[i].role = "assistant"}
           l == IF answered = {} THEN 0 ELSE CHOOSE i \in answered : \A j \in answered : j <= i
<1>1. /\ pc[t] = "new" /\ pc' = [pc EXCEPT ![t] = "l1"]
      /\ db' = Append(db, User(t)) /\ latest' = [latest EXCEPT ![t] = l]
      /\ UNCHANGED <<cache, off, phase, context, steps, tools, spoken, answer,
                     redis, faults, expiries, torn>>
  BY DEF Start, Goto, memory, run, world
<1>2. db \in Seq(Message)
  BY DEF Typed
<1>3. Len(db) \in Nat /\ l \in 0 .. Len(db)
  <2>1. answered \subseteq 1 .. Len(db) /\ Len(db) \in Nat
    BY <1>2
  <2>2. CASE answered = {}
    BY <2>1, <2>2
  <2>3. CASE answered # {}
    <3> HIDE DEF answered
    <3>1. (CHOOSE i \in answered : \A j \in answered : j <= i) \in answered
      BY <2>1, <2>3, LastPlace, Zenon
    <3>2. l = CHOOSE i \in answered : \A j \in answered : j <= i
      BY <2>3, Zenon
    <3>3. l \in answered
      BY <3>1, <3>2, Zenon
    <3> HIDE DEF l
    <3> QED
      BY <2>1, <3>3
  <2> QED
    BY <2>2, <2>3
<1> HIDE DEF l
<1>4. /\ db' \in Seq(Message) /\ Len(db') = Len(db) + 1
      /\ ToSet(db') = ToSet(db) \cup {User(t)}
  BY <1>1, <1>2, Messages, AddedTo
<1>5. Typed'
  <2>1. pc' \in [Turn -> PC]
    BY <1>1 DEF Typed, PC
  <2>2. latest' \in [Turn -> Nat]
    BY <1>1, <1>3 DEF Typed
  <2> QED
    BY <1>1, <1>4, <2>1, <2>2 DEF Typed
<1>6. Trimmed'
  BY <1>1, <1>3, <1>4 DEF Trimmed, Typed
<1>7. Alone(t)
  BY <1>1 DEF Alone, Typed
<1>8. Loop(t)'
  BY <1>1 DEF Loop, Typed
<1>9. pc'[t] = "l1"
  BY <1>1 DEF Typed
<1> QED
  BY <1>1, <1>4, <1>5, <1>6, <1>7, <1>8, <1>9, TurnKeeps DEF Coming

-----------------------------------------------------------------------------
(***************************************************************************)
(* Reading the memory.                                                     *)
(***************************************************************************)
LEMMA ReadCacheKeeps ==
    ASSUME IInv, NEW t \in Turn, ReadCache(t)
    PROVE  IInv'
<1> USE DEF IInv
<1>1. /\ pc[t] = "l1" /\ off' \subseteq Range(Proc)
      /\ UNCHANGED <<db, cache, phase, latest, steps, tools, spoken, answer,
                     redis, faults, expiries, torn>>
  BY AgentAssumption DEF ReadCache, Reach, Typed, Range, run, world
<1>2. \/ /\ pc' = [pc EXCEPT ![t] = "l2"] /\ UNCHANGED context
      \/ Shown(t, LastOf(Limit, cache))
  BY DEF ReadCache, Reach, Miss, Goto
<1>3. /\ LastOf(Limit, cache) \in Seq(Message) /\ Len(LastOf(Limit, cache)) <= Limit
      /\ <<>> \in Seq(Message) /\ Len(<<>>) = 0
  BY AgentAssumption, LastOfList DEF Typed
<1>4. \E l \in {"l2", "route", "step"} : pc' = [pc EXCEPT ![t] = l]
  BY <1>2 DEF Shown, Goto
<1>5. \E s \in Seq(Message) : Len(s) <= Limit /\ context' = [context EXCEPT ![t] = s]
  <2>1. CASE UNCHANGED context
    <3>1. context[t] \in Seq(Message) /\ Len(context[t]) <= Limit
          /\ context' = [context EXCEPT ![t] = context[t]]
      BY <2>1 DEF Typed, Trimmed
    <3> QED
      BY <3>1
  <2>2. CASE Shown(t, LastOf(Limit, cache))
    <3>1. CASE phase[t] = "routing"
      BY <1>3, <2>2, <3>1 DEF Shown
    <3>2. CASE phase[t] # "routing"
      <4>1. <<>> \in Seq(Message) /\ Len(<<>>) <= Limit
        BY <1>3, AgentAssumption
      <4>2. context' = [context EXCEPT ![t] = <<>>]
        BY <2>2, <3>2 DEF Shown
      <4> QED
        BY <4>1, <4>2, Zenon
    <3> QED
      BY <3>1, <3>2
  <2> QED
    BY <1>2, <2>1, <2>2
<1>6. Typed'
  <2>1. pc' \in [Turn -> PC]
    BY <1>4 DEF Typed, PC
  <2>2. context' \in [Turn -> Seq(Message)]
    BY <1>5 DEF Typed
  <2> QED
    BY <1>1, <2>1, <2>2 DEF Typed
<1>7. Alone(t) /\ pc'[t] \in {"l2", "route", "step"} /\ Len(context'[t]) <= Limit
  BY <1>1, <1>4, <1>5 DEF Alone, Typed
<1>8. Loop(t)'
  <2>1. steps[t] \in Nat /\ tools[t] = 0
    BY <1>1 DEF Typed, Loop
  <2> QED
    BY <1>1, <1>7, <2>1, AgentAssumption DEF Loop
<1> QED
  BY <1>1, <1>6, <1>7, <1>8, QuietTurnKeeps DEF Running, Coming

LEMMA ReadMessagesKeeps ==
    ASSUME IInv, NEW t \in Turn, ReadMessages(t)
    PROVE  IInv'
<1> USE DEF IInv
<1>1. /\ pc[t] = "l2" /\ pc' = [pc EXCEPT ![t] = "fill"]
      /\ context' = [context EXCEPT ![t] = Recent]
      /\ UNCHANGED <<db, cache, off, phase, latest, steps, tools, spoken, answer,
                     redis, faults, expiries, torn>>
  BY DEF ReadMessages, Goto, memory, run, world
<1>2. /\ Recent \in Seq(Message) /\ Len(Recent) <= Limit /\ ToSet(Recent) \subseteq ToSet(db)
  BY AgentAssumption, LastOfList DEF Typed, Recent
<1>3. Typed'
  <2>1. pc' \in [Turn -> PC]
    BY <1>1 DEF Typed, PC
  <2>2. context' \in [Turn -> Seq(Message)]
    BY <1>1, <1>2 DEF Typed
  <2> QED
    BY <1>1, <2>1, <2>2 DEF Typed
<1>4. Alone(t) /\ pc'[t] = "fill" /\ context'[t] = Recent
  BY <1>1 DEF Alone, Typed
<1>5. Trimmed'
  BY <1>1, <1>2, <1>4 DEF Trimmed, Alone
<1>6. Loop(t)'
  BY <1>1, <1>4 DEF Loop, Answers
<1>7. User(t) \in ToSet(db) /\ ~ Coming(t)
  BY <1>1 DEF Told, Running, Coming
<1> QED
  BY <1>1, <1>2, <1>3, <1>4, <1>5, <1>6, <1>7, TurnKeeps

LEMMA ReadFailsKeeps ==
    ASSUME IInv, NEW t \in Turn, ReadFails(t)
    PROVE  IInv'
<1> USE DEF IInv
<1>1. /\ pc[t] = "l2" /\ \E l \in {"route", "step"} : pc' = [pc EXCEPT ![t] = l]
      /\ context' = [context EXCEPT ![t] = <<>>]
      /\ faults + expiries < MaxFaults /\ faults' = faults + 1
      /\ UNCHANGED <<db, cache, off, phase, latest, steps, tools, spoken, answer,
                     redis, expiries, torn>>
  BY DEF ReadFails, Fault, Shown, Goto, memory, run
<1>2. faults' \in Nat /\ faults' + expiries' <= MaxFaults /\ faults' # 0
  BY <1>1, AgentAssumption DEF Typed
<1>3. /\ context' \in [Turn -> Seq(Message)] /\ Len(context'[t]) <= Limit
  <2>1. <<>> \in Seq(Message) /\ Len(<<>>) <= Limit /\ context \in [Turn -> Seq(Message)]
    BY AgentAssumption DEF Typed
  <2> QED
    BY <1>1, <2>1
<1>4. Typed'
  <2>1. pc' \in [Turn -> PC]
    BY <1>1 DEF Typed, PC
  <2> QED
    BY <1>1, <1>2, <1>3, <2>1 DEF Typed
<1>5. Alone(t) /\ pc'[t] \in {"route", "step"}
  BY <1>1 DEF Alone, Typed
<1>6. Loop(t)'
  <2>1. steps[t] \in Nat /\ tools[t] = 0 /\ MaxSteps[t] \in Nat
    BY <1>1, AgentAssumption DEF Typed, Loop
  <2> QED
    BY <1>1, <1>5, <2>1 DEF Loop, Answers
<1> QED
  BY <1>1, <1>2, <1>3, <1>4, <1>5, <1>6, QuietTurnKeeps DEF Running

LEMMA FillKeeps ==
    ASSUME IInv, NEW t \in Turn, Fill(t)
    PROVE  IInv'
<1> USE DEF IInv
<1>1. /\ pc[t] = "fill" /\ Write(t, context[t]) /\ Shown(t, context[t])
      /\ UNCHANGED <<db, phase, latest, steps, tools, spoken, answer,
                     redis, faults, expiries>>
      /\ torn' \in BOOLEAN
  BY DEF Fill, run, Typed
<1>2. context[t] \in Seq(Message) /\ Len(context[t]) <= Limit /\ ToSet(context[t]) \subseteq ToSet(db)
  BY <1>1 DEF Typed, Trimmed, Told
<1>3. /\ cache' \in Seq(Message) /\ Len(cache') <= MaxMessages /\ off' \subseteq Range(Proc)
      /\ ToSet(cache') \subseteq ToSet(cache) \cup ToSet(context[t])
  BY <1>1, <1>2, Writes
<1>4. /\ \E l \in {"route", "step"} : pc' = [pc EXCEPT ![t] = l]
      /\ \E s \in {context[t], <<>>} : context' = [context EXCEPT ![t] = s]
  BY <1>1 DEF Shown, Goto
<1>5. Typed'
  <2>1. pc' \in [Turn -> PC]
    BY <1>4 DEF Typed, PC
  <2>2. context' \in [Turn -> Seq(Message)]
    <3>1. PICK s \in {context[t], <<>>} : context' = [context EXCEPT ![t] = s]
      BY <1>4
    <3>2. <<>> \in Seq(Message) /\ context \in [Turn -> Seq(Message)]
      BY DEF Typed
    <3>3. s \in Seq(Message)
      BY <1>2, <3>2, Zenon
    <3> QED
      BY <3>1, <3>2, <3>3
  <2> QED
    BY <1>1, <1>3, <2>1, <2>2 DEF Typed
<1>6. Alone(t) /\ pc'[t] \in {"route", "step"} /\ Len(context'[t]) <= Limit
  <2>1. Len(<<>>) <= Limit
    BY AgentAssumption
  <2> QED
    BY <1>1, <1>2, <1>4, <2>1 DEF Alone, Typed
<1>7. Trimmed'
  BY <1>1, <1>3, <1>6 DEF Trimmed, Alone
<1>8. Loop(t)'
  <2>1. steps[t] \in Nat /\ tools[t] = 0
    BY <1>1 DEF Typed, Loop
  <2> QED
    BY <1>1, <1>6, <2>1, AgentAssumption DEF Loop, Answers
<1>9. User(t) \in ToSet(db) /\ ~ Coming(t)
  BY <1>1 DEF Told, Running, Coming
<1>10. \A m \in ToSet(cache') : m \in ToSet(cache) \cup ToSet(db')
  BY <1>1, <1>2, <1>3
<1> QED
  BY <1>1, <1>5, <1>6, <1>7, <1>8, <1>9, <1>10, TurnKeeps

-----------------------------------------------------------------------------
(***************************************************************************)
(* The routing agent.                                                      *)
(***************************************************************************)
LEMMA RoutedTyped ==
    ASSUME IInv, NEW t \in Turn, Routed(t)
    PROVE  /\ context' \in [Turn -> Seq(Message)] /\ latest' \in [Turn -> Nat]
           /\ Len(context'[t]) <= Limit
           /\ latest' = [latest EXCEPT ![t] = 0]
           /\ \A u \in Turn : u # t => context'[u] = context[u]
<1>1. /\ context \in [Turn -> Seq(Message)] /\ latest \in [Turn -> Nat]
      /\ <<>> \in Seq(Message) /\ Len(<<>>) <= Limit
  BY AgentAssumption DEF IInv, Typed
<1> QED
  BY <1>1 DEF Routed

\* No agent, no user, or the routing agent raises.
LEMMA NotRoutedKeeps ==
    ASSUME IInv, NEW t \in Turn, NoAgent(t) \/ NoUser(t) \/ RouteRaises(t)
    PROVE  IInv'
<1> USE DEF IInv
<1>1. /\ pc[t] \in {"l1", "route"} /\ Routed(t)
      /\ \E l \in {"excuse", "reply"} : pc' = [pc EXCEPT ![t] = l]
      /\ UNCHANGED <<db, cache, off, phase, steps, tools, spoken, answer,
                     redis, faults, expiries, torn>>
  BY DEF NoAgent, NoUser, RouteRaises, Arrives, Goto, memory, run, world
<1>2. Typed'
  <2>1. pc' \in [Turn -> PC]
    BY <1>1 DEF Typed, PC
  <2> QED
    BY <1>1, <2>1, RoutedTyped DEF Typed
<1>3. Alone(t) /\ pc'[t] \in {"excuse", "reply"}
  BY <1>1, RoutedTyped DEF Alone, Typed
<1>4. Loop(t)'
  <2>1. tools[t] = 0 /\ MaxSteps[t] \in Nat
    BY <1>1, AgentAssumption DEF Loop
  <2> QED
    BY <1>1, <1>3, <2>1 DEF Loop
<1> QED
  BY <1>1, <1>2, <1>3, <1>4, RoutedTyped, QuietTurnKeeps DEF Running, Coming

\* The input is remembered.
LEMMA RouteKeeps ==
    ASSUME IInv, NEW t \in Turn, SmallTalk(t) \/ HandOver(t)
    PROVE  IInv'
<1> USE DEF IInv
<1>1. /\ pc[t] = "route" /\ Routed(t) /\ Write(t, <<User(t)>>)
      /\ \E l \in {"reply", "keep", "l1", "excuse"} : pc' = [pc EXCEPT ![t] = l]
      /\ UNCHANGED <<db, steps, tools, spoken, redis, faults, expiries, torn>>
  BY DEF SmallTalk, HandOver, Loaded, NotPrepared, Goto, run, world
<1>2. <<User(t)>> \in Seq(Message) /\ ToSet(<<User(t)>>) = {User(t)}
  <2>1. User(t) \in Message
    BY Messages
  <2> QED
    BY <2>1, OneEntry
<1>3. /\ cache' \in Seq(Message) /\ Len(cache') <= MaxMessages /\ off' \subseteq Range(Proc)
      /\ ToSet(cache') \subseteq ToSet(cache) \cup {User(t)}
  BY <1>1, <1>2, Writes
<1>4. /\ \E w \in {{}, {"said"}, answer[t]} : answer' = [answer EXCEPT ![t] = w]
      /\ pc'[t] = "keep" => answer'[t] # {}
      /\ phase' \in [Turn -> {"routing", "task"}]
  <2>1. CASE SmallTalk(t)
    <3>1. PICK w \in {{}, {"said"}} :
              /\ answer' = [answer EXCEPT ![t] = w]
              /\ pc' = [pc EXCEPT ![t] = IF w = {} THEN "reply" ELSE "keep"]
      BY <2>1 DEF SmallTalk, Goto
    <3>2. pc'[t] = "keep" => answer'[t] # {}
      BY <3>1 DEF Typed
    <3> QED
      BY <2>1, <3>1, <3>2 DEF SmallTalk, Typed
  <2>2. CASE HandOver(t)
    <3>1. answer' = [answer EXCEPT ![t] = answer[t]]
      BY <2>2 DEF HandOver, run, Typed
    <3>2. pc'[t] # "keep" /\ phase' \in [Turn -> {"routing", "task"}]
      BY <2>2 DEF HandOver, Loaded, NotPrepared, Goto, Typed
    <3> QED
      BY <3>1, <3>2
  <2> QED
    BY <2>1, <2>2
<1>5. answer' \in [Turn -> SUBSET What]
  <2>1. \A w \in {{}, {"said"}, answer[t]} : w \in SUBSET What
    BY DEF Typed, What, Texts
  <2> QED
    BY <1>4, <2>1 DEF Typed
<1>6. Typed'
  <2>1. pc' \in [Turn -> PC]
    BY <1>1 DEF Typed, PC
  <2> QED
    BY <1>1, <1>3, <1>4, <1>5, <2>1, RoutedTyped DEF Typed
<1>7. Alone(t) /\ pc'[t] \in {"reply", "keep", "l1", "excuse"}
  BY <1>1, <1>4, RoutedTyped DEF Alone, Typed
<1>8. Trimmed'
  <2>1. \A u \in Turn : Len(context'[u]) <= Limit
    BY <1>1, <1>7, RoutedTyped DEF Trimmed
  <2>2. Len(db) \in Nat /\ latest \in [Turn -> Nat]
    BY DEF Typed
  <2>3. ASSUME NEW u \in Turn PROVE latest'[u] <= Len(db)
    <3>1. latest[u] <= Len(db)
      BY DEF Trimmed
    <3>2. latest'[u] = latest[u] \/ latest'[u] = 0
      BY <1>1, <2>2, RoutedTyped
    <3> QED
      BY <2>2, <3>1, <3>2
  <2> QED
    BY <1>1, <1>3, <2>1, <2>3 DEF Trimmed
<1>9. Loop(t)'
  <2>1. tools[t] = 0 /\ ~ spoken[t] /\ MaxSteps[t] \in Nat
    BY <1>1, AgentAssumption DEF Loop
  <2> QED
    BY <1>1, <1>4, <1>7, <2>1 DEF Loop
<1>10. User(t) \in ToSet(db) /\ ~ Coming(t)
  BY <1>1 DEF Told, Running, Coming
<1>11. \A m \in ToSet(cache') : m \in ToSet(cache) \cup ToSet(db')
  BY <1>1, <1>3, <1>10
<1> QED
  BY <1>1, <1>6, <1>7, <1>8, <1>9, <1>10, <1>11, TurnKeeps

-----------------------------------------------------------------------------
(***************************************************************************)
(* The task agent.                                                         *)
(***************************************************************************)
\* What a step does to the answer.
Collected(t) == (\E w \in What : Collect(t, w)) \/ Nothing

LEMMA WithText ==
    ASSUME NEW said \in SUBSET What, NEW w \in What
    PROVE  /\ With(w, said) \in SUBSET What /\ With(w, said) # {}
           /\ w = "said" => "said" \in With(w, said) /\ With(w, said) \subseteq Texts
           /\ "said" \in said /\ said \subseteq Texts =>
                "said" \in With(w, said) /\ With(w, said) \subseteq Texts
<1>1. CASE w \in Texts
  BY <1>1 DEF With, What, Texts
<1>2. CASE w \notin Texts /\ said \cap Texts # {}
  BY <1>2 DEF With, What, Texts
<1>3. CASE w \notin Texts /\ said \cap Texts = {}
  BY <1>3 DEF With, What, Texts
<1> QED
  BY <1>1, <1>2, <1>3

LEMMA Collects ==
    ASSUME IInv, NEW t \in Turn, Collected(t)
    PROVE  /\ spoken' \in [Turn -> BOOLEAN] /\ answer' \in [Turn -> SUBSET What]
           /\ \A u \in Turn : u # t => spoken'[u] = spoken[u] /\ answer'[u] = answer[u]
           /\ spoken'[t] => Answers(t)'
<1>1. answer \in [Turn -> SUBSET What] /\ spoken \in [Turn -> BOOLEAN] /\ (spoken[t] => Answers(t))
  BY DEF IInv, Typed, Loop
<1>2. CASE Nothing
  BY <1>1, <1>2 DEF Nothing, Answers
<1>3. ASSUME NEW w \in What, Collect(t, w)
      PROVE  /\ spoken' \in [Turn -> BOOLEAN] /\ answer' \in [Turn -> SUBSET What]
             /\ \A u \in Turn : u # t => spoken'[u] = spoken[u] /\ answer'[u] = answer[u]
             /\ spoken'[t] => Answers(t)'
  <2>1. answer' = [answer EXCEPT ![t] = With(w, answer[t])]
    BY <1>3 DEF Collect
  <2>2. answer[t] \in SUBSET What
    BY <1>1
  <2>3. /\ With(w, answer[t]) \in SUBSET What
        /\ w = "said" => "said" \in With(w, answer[t]) /\ With(w, answer[t]) \subseteq Texts
        /\ Answers(t) => "said" \in With(w, answer[t]) /\ With(w, answer[t]) \subseteq Texts
    BY <2>2, WithText DEF Answers
  <2>4. /\ answer' \in [Turn -> SUBSET What] /\ answer'[t] = With(w, answer[t])
        /\ \A u \in Turn : u # t => answer'[u] = answer[u]
    BY <1>1, <2>1, <2>3
  <2>5. /\ spoken' \in [Turn -> BOOLEAN] /\ \A u \in Turn : u # t => spoken'[u] = spoken[u]
        /\ spoken'[t] => spoken[t] \/ w = "said"
    BY <1>1, <1>3 DEF Collect
  <2>6. spoken'[t] => Answers(t)'
    BY <1>1, <2>3, <2>4, <2>5 DEF Answers
  <2> QED
    BY <2>4, <2>5, <2>6
<1> QED
  BY <1>2, <1>3 DEF Collected

\* A step of the loop that goes on.
LEMMA LoopStepKeeps ==
    ASSUME IInv, NEW t \in Turn, More(t), Collected(t),
           \/ UNCHANGED tools
           \/ tools' = [tools EXCEPT ![t] = @ + 1],
           steps' = [steps EXCEPT ![t] = @ + 1],
           UNCHANGED <<db, memory, pc, phase, context, latest, world>>
    PROVE  IInv'
<1> USE DEF IInv
<1>1. /\ pc[t] = "step" /\ steps[t] < MaxSteps[t]
      /\ UNCHANGED <<db, cache, off, pc, phase, context, latest, redis, faults, expiries, torn>>
  BY DEF More, memory, world
<1>2. Typed'
  <2>1. steps' \in [Turn -> Nat] /\ tools' \in [Turn -> Nat]
    BY DEF Typed
  <2> QED
    BY <1>1, <2>1, Collects DEF Typed
<1>3. Alone(t)
  BY <1>1, Collects DEF Alone, Typed
<1>4. Loop(t)'
  <2>1. /\ steps[t] \in Nat /\ tools[t] \in Nat /\ tools[t] <= steps[t]
        /\ steps'[t] = steps[t] + 1 /\ tools'[t] \in {tools[t], tools[t] + 1}
        /\ MaxSteps[t] \in Nat
    BY <1>1, AgentAssumption DEF Typed, Loop
  <2> QED
    BY <1>1, <2>1, Collects DEF Loop
<1>5. Len(context'[t]) <= Limit
  BY <1>1 DEF Trimmed
<1> QED
  BY <1>1, <1>2, <1>3, <1>4, <1>5, QuietTurnKeeps DEF Running, Coming

LEMMA LoopCollects ==
    ASSUME NEW t \in Turn, Speak(t) \/ ModelError(t) \/ CallTool(t)
    PROVE  Collected(t)
  BY DEF Speak, ModelError, CallTool, Collected, What, Texts

LEMMA LoopKeeps ==
    ASSUME IInv, NEW t \in Turn, Speak(t) \/ ModelError(t) \/ CallTool(t)
    PROVE  IInv'
  BY LoopCollects, LoopStepKeeps DEF Speak, ModelError, CallTool

LEMMA ToolRaisesKeeps ==
    ASSUME IInv, NEW t \in Turn, ToolRaises(t)
    PROVE  IInv'
<1> USE DEF IInv
<1>1. /\ pc[t] = "step" /\ steps[t] < MaxSteps[t] /\ pc' = [pc EXCEPT ![t] = "excuse"]
      /\ tools' = [tools EXCEPT ![t] = @ + 1]
      /\ UNCHANGED <<db, cache, off, phase, context, latest, steps, spoken, answer,
                     redis, faults, expiries, torn>>
  BY DEF ToolRaises, More, Goto, memory, world
<1>2. Typed'
  <2>1. pc' \in [Turn -> PC] /\ tools' \in [Turn -> Nat]
    BY <1>1 DEF Typed, PC
  <2> QED
    BY <1>1, <2>1 DEF Typed
<1>3. Alone(t)
  BY <1>1 DEF Alone, Typed
<1>4. Loop(t)'
  <2>1. /\ steps[t] \in Nat /\ tools[t] \in Nat /\ tools[t] <= steps[t]
        /\ tools'[t] = tools[t] + 1 /\ pc'[t] = "excuse"
        /\ MaxSteps[t] \in Nat
    BY <1>1, AgentAssumption DEF Typed, Loop
  <2> QED
    BY <1>1, <2>1 DEF Loop, Answers
<1>5. Len(context'[t]) <= Limit /\ pc'[t] # "fill"
  BY <1>1 DEF Trimmed, Typed
<1> QED
  BY <1>1, <1>2, <1>3, <1>4, <1>5, QuietTurnKeeps DEF Running, Coming

\* The loop ends, by the report tool or by the last step.
LEMMA LoopEndKeeps ==
    ASSUME IInv, NEW t \in Turn, Report(t) \/ StopLoop(t)
    PROVE  IInv'
<1> USE DEF IInv
<1>1. /\ pc[t] = "step"
      /\ pc' = [pc EXCEPT ![t] = IF answer'[t] = {} THEN "reply" ELSE "keep"]
      /\ phase' = [phase EXCEPT ![t] = "routing"]
      /\ steps' = [steps EXCEPT ![t] = 0] /\ tools' = [tools EXCEPT ![t] = 0]
      /\ UNCHANGED <<db, cache, off, context, latest, redis, faults, expiries, torn>>
  BY DEF Report, StopLoop, Leave, More, Goto, memory, world
<1>2. /\ spoken' \in [Turn -> BOOLEAN] /\ answer' \in [Turn -> SUBSET What]
      /\ \A u \in Turn : u # t => spoken'[u] = spoken[u] /\ answer'[u] = answer[u]
      /\ spoken'[t] => Answers(t)'
  <2>1. Collected(t)
    BY DEF Report, StopLoop, run, Collected, Nothing, What, Texts
  <2> QED
    BY <2>1, Collects
<1>3. Typed'
  <2>1. pc' \in [Turn -> PC] /\ phase' \in [Turn -> {"routing", "task"}]
    BY <1>1 DEF Typed, PC
  <2>2. steps' \in [Turn -> Nat] /\ tools' \in [Turn -> Nat]
    BY <1>1 DEF Typed
  <2> QED
    BY <1>1, <1>2, <2>1, <2>2 DEF Typed
<1>4. Alone(t) /\ pc'[t] = IF answer'[t] = {} THEN "reply" ELSE "keep"
  BY <1>1, <1>2 DEF Alone, Typed
<1>5. Loop(t)'
  <2>1. steps'[t] = 0 /\ tools'[t] = 0 /\ MaxSteps[t] \in Nat
    BY <1>1, AgentAssumption DEF Typed
  <2> QED
    BY <1>2, <1>4, <2>1 DEF Loop
<1>6. Len(context'[t]) <= Limit
  BY <1>1 DEF Trimmed
<1> QED
  BY <1>1, <1>3, <1>4, <1>5, <1>6, QuietTurnKeeps DEF Running, Coming

-----------------------------------------------------------------------------
(***************************************************************************)
(* The answer: remembered, then sent.                                      *)
(***************************************************************************)
LEMMA KeepAnswerKeeps ==
    ASSUME IInv, NEW t \in Turn, KeepAnswer(t)
    PROVE  IInv'
<1> USE DEF IInv
<1>1. /\ pc[t] = "keep" /\ Write(t, <<Assistant(t)>>) /\ pc' = [pc EXCEPT ![t] = "reply"]
      /\ UNCHANGED <<db, phase, context, latest, steps, tools, spoken, answer,
                     redis, faults, expiries, torn>>
  BY DEF KeepAnswer, Goto, run, world
<1>2. <<Assistant(t)>> \in Seq(Message) /\ ToSet(<<Assistant(t)>>) = {Assistant(t)}
  <2>1. Assistant(t) \in Message
    BY Messages
  <2> QED
    BY <2>1, OneEntry
<1>3. /\ cache' \in Seq(Message) /\ Len(cache') <= MaxMessages /\ off' \subseteq Range(Proc)
      /\ ToSet(cache') \subseteq ToSet(cache) \cup {Assistant(t)}
  BY <1>1, <1>2, Writes
<1>4. Typed'
  <2>1. pc' \in [Turn -> PC]
    BY <1>1 DEF Typed, PC
  <2> QED
    BY <1>1, <1>3, <2>1 DEF Typed
<1>5. Alone(t) /\ pc'[t] = "reply"
  BY <1>1 DEF Alone, Typed
<1>6. Trimmed'
  BY <1>1, <1>3 DEF Trimmed
<1>7. Loop(t)'
  BY <1>1, <1>5 DEF Loop, Answers
<1>8. User(t) \in ToSet(db)
  BY <1>1 DEF Told, Running
<1>9. Coming(t)' /\ ~ Coming(t)
  BY <1>1, <1>5 DEF Coming, Loop
<1> QED
  BY <1>1, <1>3, <1>4, <1>5, <1>6, <1>7, <1>8, <1>9, TurnKeeps

\* The last step of a turn: a message is sent and stored, what was local is gone.
LEMMA EndKeeps ==
    ASSUME IInv, NEW t \in Turn, NEW m \in Message, db' = Append(db, m) \/ db' = db,
           \E l \in {"done", "excused", "silent"} : End(t, l),
           UNCHANGED <<memory, context, latest, redis, expiries, torn>>,
           faults' \in Nat, faults' + expiries <= MaxFaults,
           faults' = 0 => faults = 0 /\ db' = Append(db, m) /\ (Coming(t) => m = Assistant(t))
    PROVE  IInv'
<1> USE DEF IInv
<1>1. /\ \E l \in {"done", "excused", "silent"} : pc' = [pc EXCEPT ![t] = l]
      /\ phase' = [phase EXCEPT ![t] = "routing"]
      /\ steps' = [steps EXCEPT ![t] = 0] /\ tools' = [tools EXCEPT ![t] = 0]
      /\ spoken' = [spoken EXCEPT ![t] = FALSE] /\ answer' = [answer EXCEPT ![t] = {}]
      /\ UNCHANGED <<cache, off, context, latest, redis, expiries, torn>>
  BY DEF End, Leave, Goto, memory
<1>2. /\ db' \in Seq(Message) /\ Len(db') \in {Len(db), Len(db) + 1} /\ Len(db) \in Nat
      /\ ToSet(db) \subseteq ToSet(db')
      /\ faults' = 0 => m \in ToSet(db')
  <2>1. CASE db' = Append(db, m)
    BY <2>1, AddedTo DEF Typed
  <2>2. CASE db' = db
    BY <2>1, <2>2 DEF Typed
  <2> QED
    BY <2>1, <2>2
<1>3. Typed'
  <2>1. pc' \in [Turn -> PC]
    BY <1>1 DEF Typed, PC
  <2>2. steps' \in [Turn -> Nat] /\ tools' \in [Turn -> Nat]
    BY <1>1 DEF Typed
  <2>3. phase' \in [Turn -> {"routing", "task"}] /\ spoken' \in [Turn -> BOOLEAN]
    BY <1>1 DEF Typed
  <2>4. answer' \in [Turn -> SUBSET What]
    BY <1>1 DEF Typed
  <2> QED
    BY <1>1, <1>2, <2>1, <2>2, <2>3, <2>4 DEF Typed
<1>4. Alone(t) /\ pc'[t] \in {"done", "excused", "silent"} /\ steps'[t] = 0 /\ tools'[t] = 0 /\ ~ spoken'[t]
  BY <1>1 DEF Alone, Typed
<1>5. Trimmed'
  <2>1. \A u \in Turn : latest[u] <= Len(db) /\ latest[u] \in Nat
    BY DEF Trimmed, Typed
  <2>2. \A u \in Turn : latest[u] <= Len(db')
    BY <1>2, <2>1
  <2> QED
    BY <1>1, <2>2 DEF Trimmed
<1>6. Loop(t)'
  BY <1>4, AgentAssumption DEF Loop
<1>7. ~ Running(t)' /\ pc'[t] # "fill"
  BY <1>4 DEF Running
<1>8. faults' = 0 /\ Coming(t) => Assistant(t) \in ToSet(db')
  BY <1>2
<1>9. \A x \in ToSet(cache') : x \in ToSet(cache) \cup ToSet(db')
  BY <1>1
<1> QED
  BY <1>1, <1>2, <1>3, <1>4, <1>5, <1>6, <1>7, <1>8, <1>9, TurnKeeps

LEMMA ResponseIs ==
    ASSUME NEW t \in Turn
    PROVE  Response(t) \in Message /\ (Coming(t) => Response(t) = Assistant(t))
  BY Messages DEF Response, Coming

LEMMA ReplyKeeps ==
    ASSUME IInv, NEW t \in Turn, Reply(t)
    PROVE  IInv'
<1>1. /\ db' = Append(db, Response(t)) /\ End(t, "done")
      /\ UNCHANGED <<memory, context, latest, redis, expiries, torn>> /\ faults' = faults
  BY DEF Reply, world
<1>2. faults \in Nat /\ faults + expiries <= MaxFaults
  BY DEF IInv, Typed
<1> QED
  BY <1>1, <1>2, ResponseIs, EndKeeps

LEMMA ExcuseKeeps ==
    ASSUME IInv, NEW t \in Turn, Excuse(t)
    PROVE  IInv'
<1>1. /\ Fixed(t) \in Message /\ ~ Coming(t)
      /\ faults \in Nat /\ faults + expiries <= MaxFaults
  BY Messages DEF Excuse, Coming, IInv, Typed
<1>2. /\ db' = Append(db, Fixed(t)) /\ End(t, "excused")
      /\ UNCHANGED <<memory, context, latest, redis, expiries, torn>> /\ faults' = faults
  BY DEF Excuse, world
<1> QED
  BY <1>1, <1>2, EndKeeps

LEMMA ReplyFailsKeeps ==
    ASSUME IInv, NEW t \in Turn, ReplyFails(t)
    PROVE  IInv'
<1>1. PICK m \in {Response(t), Fixed(t)} : db' = Append(db, m) \/ db' = db
  BY DEF ReplyFails
<1>2. /\ End(t, "silent") /\ UNCHANGED <<memory, context, latest, redis, expiries, torn>>
      /\ faults + expiries < MaxFaults /\ faults' = faults + 1
  BY DEF ReplyFails, Fault
<1>3. faults' \in Nat /\ faults' + expiries <= MaxFaults /\ faults' # 0
  BY <1>2, AgentAssumption DEF IInv, Typed
<1>4. m \in Message
  BY ResponseIs, Messages
<1> QED
  BY <1>1, <1>2, <1>3, <1>4, EndKeeps

-----------------------------------------------------------------------------
(***************************************************************************)
(* What happens to Redis.                                                  *)
(***************************************************************************)
\* Steps that are nobody's: the cache at most forgets.
LEMMA AroundKeeps ==
    ASSUME IInv, redis' \in BOOLEAN, torn' \in BOOLEAN,
           faults' \in Nat, expiries' \in Nat, faults' + expiries' <= MaxFaults,
           faults' = 0 => faults = 0, cache' \in {cache, <<>>},
           UNCHANGED <<db, off, pc, phase, context, latest, run>>
    PROVE  IInv'
<1> USE DEF IInv
<1>1. /\ cache \in Seq(Message) /\ <<>> \in Seq(Message) /\ ToSet(<<>>) = {}
      /\ Len(<<>>) <= MaxMessages /\ Len(cache) <= MaxMessages
  <2>1. cache \in Seq(Message) /\ <<>> \in Seq(Message) /\ Len(<<>>) = 0 /\ DOMAIN <<>> = {}
    BY DEF Typed
  <2> QED
    BY <2>1, AgentAssumption DEF Trimmed, ToSet
<1>2. cache' \in Seq(Message) /\ Len(cache') <= MaxMessages /\ ToSet(cache') \subseteq ToSet(cache)
  BY <1>1
<1>3. UNCHANGED <<db, off, pc, phase, context, latest, steps, tools, spoken, answer>>
  BY DEF run
<1>4. Typed' /\ Trimmed'
  BY <1>2, <1>3 DEF Typed, Trimmed
<1>5. \A t \in Turn : Loop(t)'
  BY <1>3 DEF Loop, Answers
<1>6. Told'
  <2>1. /\ \A t \in Turn : Running(t)' => User(t) \in ToSet(db')
        /\ \A t \in Turn : pc'[t] = "fill" => ToSet(context'[t]) \subseteq ToSet(db')
    BY <1>3 DEF Told, Running
  <2>2. ASSUME faults' = 0, NEW m \in ToSet(cache')
        PROVE  m \in ToSet(db') \/ \E t \in Turn : Coming(t)' /\ m = Assistant(t)
    <3>1. m \in ToSet(db) \/ \E t \in Turn : Coming(t) /\ m = Assistant(t)
      BY <1>2, <2>2 DEF Told
    <3> QED
      BY <1>3, <3>1 DEF Coming
  <2> QED
    BY <2>1, <2>2 DEF Told
<1> QED
  BY <1>4, <1>5, <1>6

LEMMA RedisKeeps ==
    ASSUME IInv, Expire \/ RedisGoes \/ RedisReturns
    PROVE  IInv'
<1>1. faults \in Nat /\ expiries \in Nat /\ faults + expiries <= MaxFaults /\ MaxFaults \in Nat
      /\ redis \in BOOLEAN /\ torn \in BOOLEAN
  BY AgentAssumption DEF IInv, Typed
<1>2. CASE Expire
  <2>1. torn' \in BOOLEAN
    BY <1>1, <1>2 DEF Expire
  <2>2. /\ faults' = faults /\ expiries' = expiries + 1 /\ faults + expiries < MaxFaults
        /\ cache' = <<>> /\ redis' = redis
        /\ UNCHANGED <<db, off, pc, phase, context, latest, run>>
    BY <1>2 DEF Expire
  <2> QED
    BY <1>1, <2>1, <2>2, AroundKeeps
<1>3. CASE RedisGoes
  <2>1. /\ faults' = faults + 1 /\ expiries' = expiries /\ faults + expiries < MaxFaults
        /\ cache' = cache /\ redis' = FALSE /\ torn' = torn
        /\ UNCHANGED <<db, off, pc, phase, context, latest, run>>
    BY <1>3 DEF RedisGoes, Fault, memory
  <2>2. faults' # 0 /\ faults' \in Nat /\ expiries' \in Nat /\ faults' + expiries' <= MaxFaults
    BY <1>1, <2>1
  <2>3. redis' \in BOOLEAN /\ torn' \in BOOLEAN /\ cache' \in {cache, <<>>}
    <3>1. torn \in BOOLEAN /\ torn' = torn /\ redis' = FALSE
      BY <1>1, <2>1
    <3> QED
      BY <2>1, <3>1
  <2> QED
    BY <2>1, <2>2, <2>3, AroundKeeps
<1>4. CASE RedisReturns
  <2>1. /\ faults' = faults /\ expiries' = expiries
        /\ cache' = cache /\ redis' = TRUE /\ torn' = torn
        /\ UNCHANGED <<db, off, pc, phase, context, latest, run>>
    BY <1>4 DEF RedisReturns, memory
  <2>2. faults' \in Nat /\ expiries' \in Nat /\ faults' + expiries' <= MaxFaults
        /\ redis' \in BOOLEAN /\ torn' \in BOOLEAN /\ cache' \in {cache, <<>>}
    BY <1>1, <2>1
  <2> QED
    BY <2>1, <2>2, AroundKeeps
<1> QED
  BY <1>2, <1>3, <1>4

LEMMA StutterKeeps ==
    ASSUME IInv, UNCHANGED vars
    PROVE  IInv'
<1>1. UNCHANGED <<db, cache, off, pc, phase, context, latest, run, redis, faults, expiries, torn>>
  BY DEF vars, run
<1>2. faults' \in Nat /\ expiries' \in Nat /\ faults' + expiries' <= MaxFaults
      /\ redis' \in BOOLEAN /\ torn' \in BOOLEAN /\ cache' \in {cache, <<>>}
  BY <1>1 DEF IInv, Typed
<1> QED
  BY <1>1, <1>2, AroundKeeps

-----------------------------------------------------------------------------
(***************************************************************************)
(* The theorems.                                                           *)
(***************************************************************************)
LEMMA InitHolds ==
    ASSUME Init
    PROVE  IInv
<1>1. db \in Seq(Message) /\ MaxMessages \in Nat \ {0} /\ Limit \in Nat \ {0} /\ MaxFaults \in Nat
      /\ Len(db) \in Nat
  BY AgentAssumption DEF Init
<1>2. cache \in Seq(Message) /\ Len(cache) <= MaxMessages /\ ToSet(cache) \subseteq ToSet(db)
  <2>1. CASE cache = <<>>
    <3>1. <<>> \in Seq(Message) /\ Len(<<>>) = 0 /\ DOMAIN <<>> = {}
      OBVIOUS
    <3> QED
      BY <1>1, <2>1, <3>1 DEF ToSet
  <2>2. CASE cache = LastOf(MaxMessages, db)
    BY <1>1, <2>2, LastOfList
  <2> QED
    BY <2>1, <2>2 DEF Init
<1>3. Typed
  <2>1. /\ context \in [Turn -> Seq(Message)] /\ latest \in [Turn -> Nat]
        /\ steps \in [Turn -> Nat] /\ tools \in [Turn -> Nat]
    BY DEF Init
  <2>2. /\ pc \in [Turn -> PC] /\ phase \in [Turn -> {"routing", "task"}]
        /\ spoken \in [Turn -> BOOLEAN] /\ answer \in [Turn -> SUBSET What]
    BY DEF Init, PC
  <2>3. /\ redis \in BOOLEAN /\ torn \in BOOLEAN /\ off \subseteq Range(Proc)
        /\ faults \in Nat /\ expiries \in Nat /\ faults + expiries <= MaxFaults
    <3>1. redis = TRUE /\ torn = FALSE /\ off = {}
      BY DEF Init
    <3>2. faults = 0 /\ expiries = 0
      BY DEF Init
    <3>3. faults \in Nat /\ expiries \in Nat /\ faults + expiries <= MaxFaults
      BY <1>1, <3>2
    <3>4. redis \in BOOLEAN /\ torn \in BOOLEAN
      BY <3>1, Zenon
    <3> QED
      BY <3>1, <3>3, <3>4
  <2> QED
    BY <1>1, <1>2, <2>1, <2>2, <2>3 DEF Typed
<1>4. Trimmed
  <2>1. ASSUME NEW t \in Turn
        PROVE  Len(context[t]) <= Limit /\ latest[t] <= Len(db)
    <3>1. context[t] = <<>> /\ Len(<<>>) = 0 /\ latest[t] = 0
      BY DEF Init
    <3> QED
      BY <1>1, <3>1
  <2> QED
    BY <1>2, <2>1 DEF Trimmed
<1>5. \A t \in Turn : Loop(t)
  BY AgentAssumption DEF Init, Loop
<1>6. Told
  BY <1>2 DEF Init, Told, Running
<1> QED
  BY <1>3, <1>4, <1>5, <1>6 DEF IInv

LEMMA StepKeeps ==
    ASSUME IInv, [Next]_vars
    PROVE  IInv'
<1>1. ASSUME NEW t \in Turn, Progress(t) PROVE IInv'
  <2>1. CASE ReadCache(t) \/ ReadMessages(t) \/ ReadFails(t) \/ Fill(t)
    BY <2>1, ReadCacheKeeps, ReadMessagesKeeps, ReadFailsKeeps, FillKeeps
  <2>2. CASE NoAgent(t) \/ NoUser(t) \/ RouteRaises(t)
    BY <2>2, NotRoutedKeeps
  <2>3. CASE SmallTalk(t) \/ HandOver(t)
    BY <2>3, RouteKeeps
  <2>4. CASE Speak(t) \/ ModelError(t) \/ CallTool(t)
    BY <2>4, LoopKeeps
  <2>5. CASE ToolRaises(t)
    BY <2>5, ToolRaisesKeeps
  <2>6. CASE Report(t) \/ StopLoop(t)
    BY <2>6, LoopEndKeeps
  <2>7. CASE KeepAnswer(t)
    BY <2>7, KeepAnswerKeeps
  <2>8. CASE Reply(t)
    BY <2>8, ReplyKeeps
  <2>9. CASE ReplyFails(t)
    BY <2>9, ReplyFailsKeeps
  <2>10. CASE Excuse(t)
    BY <2>10, ExcuseKeeps
  <2> QED
    BY <1>1, <2>1, <2>2, <2>3, <2>4, <2>5, <2>6, <2>7, <2>8, <2>9, <2>10 DEF Progress
<1>2. ASSUME NEW t \in Turn, Start(t) PROVE IInv'
  BY <1>2, StartKeeps
<1> QED
  BY <1>1, <1>2, RedisKeeps, StutterKeeps DEF Next

LEMMA Invariance == Spec => []IInv
<1>1. Init => IInv
  BY InitHolds
<1>2. IInv /\ [Next]_vars => IInv'
  BY StepKeeps
<1> QED
  BY <1>1, <1>2, PTL DEF Spec

(***************************************************************************)
(* Every state is well-formed; the list in Redis and a context never       *)
(* exceed their limits, and a loop of tool calls its.                      *)
(***************************************************************************)
THEOREM AgentTypeCorrect == Spec => []TypeOK
<1>1. IInv => TypeOK
  <2> SUFFICES ASSUME IInv PROVE TypeOK
    OBVIOUS
  <2>1. ASSUME NEW t \in Turn
        PROVE  steps[t] \in 0 .. MaxSteps[t] /\ Len(context[t]) <= Limit /\ latest[t] \in 0 .. Len(db)
    <3>1. /\ steps[t] \in Nat /\ steps[t] <= MaxSteps[t] /\ MaxSteps[t] \in Nat
          /\ latest[t] \in Nat /\ latest[t] <= Len(db) /\ Len(db) \in Nat
          /\ Len(context[t]) <= Limit
      BY AgentAssumption DEF IInv, Typed, Trimmed, Loop
    <3> QED
      BY <3>1
  <2> QED
    BY <2>1 DEF IInv, Typed, Trimmed, TypeOK
<1> QED
  BY <1>1, Invariance, PTL

(***************************************************************************)
(* ToolsBounded: whatever the model asks for, a turn executes no more than *)
(* max_steps tools; errors, refusals and answers count as steps.           *)
(***************************************************************************)
THEOREM AgentToolsBounded == Spec => []ToolsBounded
<1>1. IInv => ToolsBounded
  <2> SUFFICES ASSUME IInv, NEW t \in Turn PROVE tools[t] <= MaxSteps[t]
    BY DEF ToolsBounded
  <2>1. Loop(t) /\ tools[t] \in Nat /\ steps[t] \in Nat /\ MaxSteps[t] \in Nat
    BY AgentAssumption DEF IInv, Typed
  <2> QED
    BY <2>1 DEF Loop
<1> QED
  BY <1>1, Invariance, PTL

(***************************************************************************)
(* SaidIsAnswered: a text the model said to the user is in what the turn   *)
(* is answered with, whatever tools and errors came after it, and of these *)
(* at most the refusal of a report without its text.                       *)
(***************************************************************************)
THEOREM AgentSaidIsAnswered == Spec => []SaidIsAnswered
<1>1. IInv => SaidIsAnswered
  BY DEF IInv, Loop, Answers, SaidIsAnswered
<1> QED
  BY <1>1, Invariance, PTL

(***************************************************************************)
(* RememberedWasSent: however turns, workers and expiries interleave, the  *)
(* memory holds nothing the table of messages does not, once no turn runs  *)
(* and if neither Redis nor a reply failed.                                *)
(***************************************************************************)
THEOREM AgentRememberedWasSent == Spec => []RememberedWasSent
<1>1. IInv => RememberedWasSent
  BY DEF IInv, Told, Coming, Running, RememberedWasSent
<1> QED
  BY <1>1, Invariance, PTL
-----------------------------------------------------------------------------
(***************************************************************************)
(* What a lone worker remembers.  With one worker, while neither Redis nor *)
(* a reply fails and no key expires under a turn, the list is either empty *)
(* or ends like the table: no more messages come after the last answer     *)
(* than in the table, and one more, the copy of the input, when a turn is  *)
(* over.                                                                   *)
(***************************************************************************)
OneWorker == \A t, u \in Turn : Proc[t] = Proc[u]

Window == IF Limit <= MaxMessages THEN Limit ELSE MaxMessages

LastAnswer(i) ==
    /\ i \in DOMAIN db /\ db[i].role = "assistant"
    /\ \A j \in DOMAIN db : db[j].role = "assistant" => j <= i

\* No more than k messages of list c come after an m.
InTail(m, c, k) == \E p \in DOMAIN c : c[p] = m /\ Len(c) - p <= k

Near(i) == Len(db) - i + 2 <= Window

Kept(n) ==
    \A i \in DOMAIN db : LastAnswer(i) /\ Near(i) =>
        cache = <<>> \/ InTail(db[i], cache, Len(db) - i + n)

Untroubled == faults = 0 /\ ~ torn

Early(t) == phase[t] = "routing" /\ pc[t] \in {"l1", "l2", "fill", "route"}

Solo == \A t, u \in Turn : Running(t) /\ Running(u) => t = u

Blank(t) ==
    /\ pc[t] \in {"new", "l1", "l2", "fill", "route", "done", "excused", "silent"} => answer[t] = {}
    /\ pc[t] = "route" => phase[t] = "routing"

Up == faults = 0 => redis /\ off = {}

Shows(t) ==
    pc[t] = "route" /\ latest[t] # 0 /\ Near(latest[t]) => db[latest[t]] \in ToSet(context[t])

\* What a turn relies on while it runs.
Own(t) ==
    /\ Early(t) /\ latest[t] # 0 => LastAnswer(latest[t])
    /\ Untroubled =>
          /\ Coming(t) => cache # <<>> /\ cache[Len(cache)] = Assistant(t)
          /\ ~ Coming(t) => Kept(IF Early(t) THEN 0 ELSE 1)
          /\ pc[t] \in {"l2", "fill"} => cache = <<>>
          /\ pc[t] = "fill" => context[t] = Recent
          /\ pc[t] = "route" => cache # <<>>
          /\ Shows(t)

Memory ==
    /\ Solo /\ Up
    /\ \A t \in Turn : Blank(t) /\ (Running(t) => Own(t))
    /\ (\A t \in Turn : ~ Running(t)) /\ Untroubled => Kept(1)

-----------------------------------------------------------------------------
(***************************************************************************)
(* The tail of a list.                                                     *)
(***************************************************************************)
LEMMA LastOfFrom ==
    ASSUME NEW S, NEW s \in Seq(S), NEW n \in Nat \ {0}
    PROVE  \E a \in Nat \ {0} :
             /\ a = 1 \/ a = Len(s) - n + 1
             /\ a <= Len(s) + 1
             /\ Len(LastOf(n, s)) = Len(s) - a + 1
             /\ DOMAIN LastOf(n, s) = 1 .. (Len(s) - a + 1)
             /\ \A i \in 1 .. (Len(s) - a + 1) : LastOf(n, s)[i] = s[a + i - 1]
<1> DEFINE a == IF Len(s) > n THEN Len(s) - n + 1 ELSE 1
<1>1. /\ Len(s) \in Nat /\ a \in Nat \ {0} /\ a <= Len(s) + 1
      /\ a = 1 \/ a = Len(s) - n + 1
  OBVIOUS
<1>2. LastOf(n, s) = SubSeq(s, a, Len(s))
  BY DEF LastOf
<1> HIDE DEF a
<1>3. /\ SubSeq(s, a, Len(s)) \in Seq(S)
      /\ Len(SubSeq(s, a, Len(s))) = Len(s) - a + 1
      /\ \A i \in 1 .. (Len(s) - a + 1) : SubSeq(s, a, Len(s))[i] = s[a + i - 1]
  <2>1. a \in Int /\ Len(s) \in Int /\ \A i \in a .. Len(s) : s[i] \in S
    BY <1>1
  <2>2. /\ SubSeq(s, a, Len(s)) \in Seq(S)
        /\ Len(SubSeq(s, a, Len(s))) = IF a <= Len(s) THEN Len(s) - a + 1 ELSE 0
        /\ \A i \in 1 .. Len(s) - a + 1 : SubSeq(s, a, Len(s))[i] = s[a + i - 1]
    BY <2>1, SubSeqProperties
  <2> QED
    BY <1>1, <2>2
<1> QED
  BY <1>1, <1>2, <1>3

LEMMA TailOfLast ==
    ASSUME NEW S, NEW s \in Seq(S), NEW n \in Nat \ {0}, NEW m, NEW k \in Int,
           InTail(m, s, k), k < n
    PROVE  InTail(m, LastOf(n, s), k)
<1>1. PICK a \in Nat \ {0} :
             /\ a = 1 \/ a = Len(s) - n + 1
             /\ a <= Len(s) + 1
             /\ Len(LastOf(n, s)) = Len(s) - a + 1
             /\ DOMAIN LastOf(n, s) = 1 .. (Len(s) - a + 1)
             /\ \A i \in 1 .. (Len(s) - a + 1) : LastOf(n, s)[i] = s[a + i - 1]
  BY LastOfFrom
<1>2. PICK p \in DOMAIN s : s[p] = m /\ Len(s) - p <= k
  BY DEF InTail
<1>3. DOMAIN s = 1 .. Len(s) /\ Len(s) \in Nat
  OBVIOUS
<1>4. PICK q \in 1 .. (Len(s) - a + 1) : a + q - 1 = p
  <2>1. p - a + 1 \in 1 .. (Len(s) - a + 1) /\ a + (p - a + 1) - 1 = p
    BY <1>1, <1>2, <1>3
  <2> QED
    BY <2>1
<1>5. LastOf(n, s)[q] = m
  BY <1>1, <1>2, <1>4
<1>6. Len(LastOf(n, s)) - q <= k
  BY <1>1, <1>2, <1>3, <1>4
<1> QED
  BY <1>1, <1>4, <1>5, <1>6 DEF InTail

LEMMA TailOfPush ==
    ASSUME NEW S, NEW s \in Seq(S), NEW x \in S
    PROVE  /\ InTail(x, s \o <<x>>, 0)
           /\ \A m : \A k \in Int : InTail(m, s, k) => InTail(m, s \o <<x>>, k + 1)
<1>1. /\ Len(s) \in Nat /\ Len(s \o <<x>>) = Len(s) + 1
      /\ DOMAIN (s \o <<x>>) = 1 .. (Len(s) + 1) /\ DOMAIN s = 1 .. Len(s)
      /\ \A i \in 1 .. Len(s) : (s \o <<x>>)[i] = s[i]
      /\ (s \o <<x>>)[Len(s) + 1] = x
  OBVIOUS
<1>2. InTail(x, s \o <<x>>, 0)
  BY <1>1 DEF InTail
<1>3. ASSUME NEW m, NEW k \in Int, InTail(m, s, k)
      PROVE  InTail(m, s \o <<x>>, k + 1)
  BY <1>1, <1>3 DEF InTail
<1> QED
  BY <1>2, <1>3

LEMMA TailShows ==
    ASSUME NEW S, NEW s \in Seq(S), NEW m, NEW k \in Int, InTail(m, s, k)
    PROVE  /\ m \in ToSet(s) /\ s # <<>>
           /\ \A l \in Int : k <= l => InTail(m, s, l)
           /\ k = 0 => s[Len(s)] = m
<1>1. PICK p \in DOMAIN s : s[p] = m /\ Len(s) - p <= k
  BY DEF InTail
<1>2. DOMAIN s = 1 .. Len(s) /\ Len(s) \in Nat /\ p \in Nat
  OBVIOUS
<1>3. m \in ToSet(s) /\ s # <<>>
  BY <1>1, <1>2 DEF ToSet
<1>4. \A l \in Int : k <= l => InTail(m, s, l)
  BY <1>1, <1>2 DEF InTail
<1>5. k = 0 => p = Len(s)
  BY <1>1, <1>2
<1> QED
  BY <1>1, <1>3, <1>4, <1>5

\* The last answer in the table, and in what is read of it.
LEMMA AnswerInTable ==
    ASSUME Typed, NEW i \in DOMAIN db
    PROVE  /\ InTail(db[i], db, Len(db) - i) /\ Len(db) - i \in Nat /\ Len(db) \in Nat
           /\ i \in Nat /\ db[i] \in Message
<1>1. db \in Seq(Message) /\ DOMAIN db = 1 .. Len(db) /\ Len(db) \in Nat
  BY DEF Typed
<1> QED
  BY <1>1 DEF InTail

LEMMA Windows ==
    /\ Limit \in Nat \ {0} /\ MaxMessages \in Nat \ {0}
    /\ Window \in Nat /\ Window <= Limit /\ Window <= MaxMessages
  BY AgentAssumption DEF Window
-----------------------------------------------------------------------------
(***************************************************************************)
(* A step of the one turn that runs.                                       *)
(***************************************************************************)
Resting(t) == \A u \in Turn : u # t => ~ Running(u)

LEMMA MemoryKept ==
    ASSUME Memory, NEW t \in Turn, Resting(t), Alone(t), Blank(t)', Up',
           \A u \in Turn : u # t => phase'[u] = phase[u],
           Running(t)' => Own(t)',
           ~ Running(t)' /\ Untroubled' => Kept(1)'
    PROVE  Memory'
<1>1. \A u \in Turn : u # t => ~ Running(u)' /\ Blank(u)'
  BY DEF Memory, Resting, Alone, Running, Blank
<1>2. Solo'
  BY <1>1 DEF Solo
<1> QED
  BY <1>1, <1>2 DEF Memory

\* With one worker a turn that runs is alone.
LEMMA RunsAlone ==
    ASSUME Memory, NEW t \in Turn, Running(t)
    PROVE  Resting(t) /\ Own(t) /\ Blank(t)
  BY DEF Memory, Solo, Resting

\* What a write does while Redis is there.
LEMMA WriteReaches ==
    ASSUME Up, faults = 0, NEW t \in Turn, NEW s, Write(t, s)
    PROVE  Push(s) /\ off' = {}
  BY DEF Up, Write, Reach

LEMMA StartRemembers ==
    ASSUME IInv, Memory, OneWorker, NEW t \in Turn, Start(t)
    PROVE  Memory'
<1> DEFINE answered == {i \in DOMAIN db : db[i].role = "assistant"}
           l == IF answered = {} THEN 0 ELSE CHOOSE i \in answered : \A j \in answered : j <= i
<1>1. /\ pc[t] = "new" /\ pc' = [pc EXCEPT ![t] = "l1"]
      /\ db' = Append(db, User(t)) /\ latest' = [latest EXCEPT ![t] = l]
      /\ UNCHANGED <<cache, off, phase, context, steps, tools, spoken, answer,
                     redis, faults, expiries, torn>>
  BY DEF Start, Goto, memory, run, world
<1>2. \A u \in Turn : ~ Running(u)
  BY DEF Start, OneWorker
<1>3. Typed /\ db \in Seq(Message) /\ Len(db) \in Nat /\ DOMAIN db = 1 .. Len(db)
  BY DEF IInv, Typed
<1>4. l # 0 => l \in answered /\ \A k \in answered : k <= l
  <2>1. answered \subseteq 1 .. Len(db)
    BY <1>3
  <2>2. CASE answered = {}
    BY <2>2
  <2>3. CASE answered # {}
    <3>1. l = CHOOSE i \in answered : \A j \in answered : j <= i
      BY <2>3, Zenon
    <3> HIDE DEF answered
    <3> QED
      BY <1>3, <2>1, <2>3, <3>1, LastPlace
  <2> QED
    BY <2>2, <2>3
<1>5. l # 0 => LastAnswer(l)
  BY <1>4 DEF LastAnswer
<1> HIDE DEF l, answered
<1>6. User(t) \in Message /\ User(t).role = "user"
  BY Messages DEF User
<1>7. /\ Len(db') = Len(db) + 1 /\ DOMAIN db' = 1 .. (Len(db) + 1)
      /\ \A i \in DOMAIN db : db'[i] = db[i]
      /\ db'[Len(db) + 1] = User(t)
  BY <1>1, <1>3, <1>6
<1>8. \A i : LastAnswer(i)' <=> LastAnswer(i)
  <2>1. \A i : i \in DOMAIN db' /\ db'[i].role = "assistant" <=>
               i \in DOMAIN db /\ db[i].role = "assistant"
    BY <1>3, <1>6, <1>7
  <2> QED
    BY <2>1 DEF LastAnswer
<1>9. Untroubled' => Kept(0)'
  <2> SUFFICES ASSUME Untroubled', NEW i \in DOMAIN db', LastAnswer(i)', Near(i)'
               PROVE  cache' = <<>> \/ InTail(db'[i], cache', Len(db') - i + 0)
    BY DEF Kept
  <2>1. i \in DOMAIN db /\ LastAnswer(i)
    BY <1>8 DEF LastAnswer
  <2>2. Near(i) /\ Len(db') - i + 0 = Len(db) - i + 1
    BY <1>3, <1>7, <2>1, Windows DEF Near
  <2>3. Kept(1)
    BY <1>1, <1>2 DEF Memory, Untroubled
  <2> QED
    BY <1>1, <1>7, <2>1, <2>2, <2>3 DEF Kept
<1>10. pc'[t] = "l1" /\ latest'[t] = l /\ answer'[t] = answer[t]
  BY <1>1 DEF IInv, Typed
<1>11. Untroubled' => Kept(1)'
  <2> SUFFICES ASSUME Untroubled', NEW i \in DOMAIN db', LastAnswer(i)', Near(i)'
               PROVE  cache' = <<>> \/ InTail(db'[i], cache', Len(db') - i + 1)
    BY DEF Kept
  <2>1. cache' = <<>> \/ InTail(db'[i], cache', Len(db') - i + 0)
    BY <1>9 DEF Kept
  <2>2. Len(db') - i + 0 \in Int /\ Len(db') - i + 0 <= Len(db') - i + 1 /\ cache' \in Seq(Message)
    BY <1>1, <1>3, <1>7 DEF IInv, Typed
  <2> QED
    BY <2>1, <2>2, TailShows
<1>12. Own(t)'
  BY <1>5, <1>8, <1>9, <1>10, <1>11 DEF Own, Coming, Shows
<1>13. Blank(t)' /\ Up' /\ Resting(t) /\ Alone(t)
  <2>1. answer[t] = {}
    BY <1>1 DEF Memory, Blank
  <2> QED
    BY <1>1, <1>2, <1>10, <2>1 DEF Blank, Up, Resting, Alone, Memory, IInv, Typed
<1> QED
  BY <1>1, <1>10, <1>12, <1>13, MemoryKept DEF Running

\* When the list and the table stay, the tail does.
LEMMA KeptSame ==
    ASSUME Typed, NEW n \in {0, 1}, Kept(n), UNCHANGED <<db, cache>>
    PROVE  Kept(n)' /\ Kept(1)'
<1>1. Kept(n)'
  BY DEF Kept, LastAnswer, Near
<1>2. Kept(1)'
  <2> SUFFICES ASSUME NEW i \in DOMAIN db', LastAnswer(i)', Near(i)'
               PROVE  cache' = <<>> \/ InTail(db'[i], cache', Len(db') - i + 1)
    BY DEF Kept
  <2>1. cache' = <<>> \/ InTail(db'[i], cache', Len(db') - i + n)
    BY <1>1 DEF Kept
  <2>2. /\ Len(db') - i + n \in Int /\ Len(db') - i + 1 \in Int
        /\ Len(db') - i + n <= Len(db') - i + 1 /\ cache' \in Seq(Message)
    <3>1. Len(db) - i \in Nat /\ Len(db') = Len(db)
      BY AnswerInTable
    <3>2. cache' \in Seq(Message)
      BY DEF Typed
    <3> QED
      BY <3>1, <3>2
  <2> QED
    BY <2>1, <2>2, TailShows
<1> QED
  BY <1>1, <1>2

\* Steps that leave the list and the table alone, and leave the routing agent.
LEMMA QuietRemembers ==
    ASSUME IInv, Memory, NEW t \in Turn, Running(t), Alone(t),
           \A u \in Turn : u # t => phase'[u] = phase[u],
           UNCHANGED <<db, cache, redis, off, torn>>, faults' = 0 => faults = 0,
           pc'[t] \in {"step", "keep", "reply", "excuse"},
           Untroubled' => ~ Coming(t) /\ ~ Coming(t)'
    PROVE  Memory'
<1>1. Resting(t) /\ Own(t)
  BY RunsAlone
<1>2. Untroubled' => Kept(1)'
  <2>1. Untroubled' => Untroubled
    BY DEF Untroubled
  <2> QED
    BY <1>1, <2>1, KeptSame DEF Own, IInv
<1>3. Own(t)'
  BY <1>2 DEF Own, Early, Shows
<1>4. Blank(t)' /\ Up' /\ Running(t)'
  BY DEF Blank, Up, Memory, Running
<1> QED
  BY <1>1, <1>3, <1>4, MemoryKept

LEMMA LoopRemembers ==
    ASSUME IInv, Memory, NEW t \in Turn,
           Speak(t) \/ ModelError(t) \/ CallTool(t) \/ ToolRaises(t) \/ Report(t) \/ StopLoop(t)
    PROVE  Memory'
<1>1. /\ pc[t] = "step"
      /\ UNCHANGED <<db, cache, off, context, latest, redis, faults, expiries, torn>>
      /\ phase' = phase \/ phase' = [phase EXCEPT ![t] = "routing"]
  BY DEF Speak, ModelError, CallTool, ToolRaises, Report, StopLoop, Leave, More, memory, world
<1>2. \/ UNCHANGED pc
      \/ pc' = [pc EXCEPT ![t] = "excuse"]
      \/ pc' = [pc EXCEPT ![t] = IF answer'[t] = {} THEN "reply" ELSE "keep"]
  BY DEF Speak, ModelError, CallTool, ToolRaises, Report, StopLoop, Leave, Goto, run
<1>3. /\ pc'[t] \in {"step", "excuse", "reply", "keep"}
      /\ pc'[t] = "reply" => answer'[t] = {}
      /\ \A u \in Turn : u # t => pc'[u] = pc[u]
  BY <1>1, <1>2 DEF IInv, Typed
<1>4. Alone(t)
  <2>1. \A u \in Turn : u # t => steps'[u] = steps[u] /\ tools'[u] = tools[u]
    BY DEF Speak, ModelError, CallTool, ToolRaises, Report, StopLoop, Leave, run, IInv, Typed
  <2>2. \A u \in Turn : u # t => spoken'[u] = spoken[u] /\ answer'[u] = answer[u]
    <3>1. Collected(t)
      BY LoopCollects DEF ToolRaises, Report, StopLoop, run, Collected, Nothing, What, Texts
    <3> QED
      BY <3>1, Collects
  <2> QED
    BY <1>1, <1>3, <2>1, <2>2 DEF Alone
<1>5. ~ Coming(t) /\ ~ Coming(t)'
  BY <1>1, <1>3 DEF Coming
<1>6. Running(t)
  BY <1>1 DEF Running
<1>7. \A u \in Turn : u # t => phase'[u] = phase[u]
  BY <1>1 DEF IInv, Typed
<1> QED
  BY <1>1, <1>3, <1>4, <1>5, <1>6, <1>7, QuietRemembers

LEMMA NotRoutedRemembers ==
    ASSUME IInv, Memory, NEW t \in Turn, NoAgent(t) \/ NoUser(t) \/ RouteRaises(t)
    PROVE  Memory'
<1>1. /\ pc[t] \in {"l1", "route"} /\ Routed(t)
      /\ \E l \in {"excuse", "reply"} : pc' = [pc EXCEPT ![t] = l]
      /\ UNCHANGED <<db, cache, off, phase, steps, tools, spoken, answer,
                     redis, faults, expiries, torn>>
  BY DEF NoAgent, NoUser, RouteRaises, Arrives, Goto, memory, run, world
<1>2. pc'[t] \in {"excuse", "reply"} /\ Alone(t)
  BY <1>1, RoutedTyped DEF Alone, IInv, Typed
<1>3. Running(t)
  BY <1>1 DEF Running
<1>4. answer'[t] = {} /\ answer[t] = {}
  BY <1>1, <1>3, RunsAlone DEF Blank
<1> QED
  BY <1>1, <1>2, <1>3, <1>4, QuietRemembers DEF Coming
-----------------------------------------------------------------------------
\* A read of the list: it ends with the last answer, so what is shown holds it.
LEMMA ReadCacheRemembers ==
    ASSUME IInv, Memory, NEW t \in Turn, ReadCache(t)
    PROVE  Memory'
<1>1. /\ pc[t] = "l1" /\ Running(t)
      /\ UNCHANGED <<db, cache, phase, latest, steps, tools, spoken, answer,
                     redis, faults, expiries, torn>>
  BY DEF ReadCache, run, world, Running
<1>2. /\ Resting(t) /\ Own(t) /\ answer[t] = {} /\ Typed
      /\ db \in Seq(Message) /\ cache \in Seq(Message)
  BY <1>1, RunsAlone DEF Blank, IInv, Typed
<1>3. \/ /\ pc'[t] = "l2" /\ UNCHANGED context
      \/ /\ pc'[t] = "step" /\ phase[t] # "routing"
      \/ /\ pc'[t] = "route" /\ phase[t] = "routing"
         /\ context'[t] = LastOf(Limit, cache)
  BY DEF ReadCache, Reach, Miss, Shown, Goto, IInv, Typed
<1>4. faults = 0 => /\ off' = {} /\ redis
                    /\ pc'[t] = "l2" => cache = <<>>
                    /\ pc'[t] # "l2" => cache # <<>>
  BY <1>1 DEF ReadCache, Reach, Miss, Shown, Goto, Memory, Up, IInv, Typed
<1>5. Alone(t)
  <2>1. \A u \in Turn : u # t => pc'[u] = pc[u] /\ context'[u] = context[u]
    BY DEF ReadCache, Reach, Miss, Shown, Goto, IInv, Typed
  <2> QED
    BY <1>1, <2>1 DEF Alone
<1>6. Untroubled' => Untroubled /\ Kept(IF Early(t) THEN 0 ELSE 1)'
  <2>1. (IF Early(t) THEN 0 ELSE 1) \in {0, 1} /\ (Early(t) <=> phase[t] = "routing")
    BY <1>1 DEF Early
  <2>2. Untroubled' => Untroubled /\ Kept(IF Early(t) THEN 0 ELSE 1)
    BY <1>1, <1>2 DEF Untroubled, Own, Coming
  <2>3. Untroubled' => /\ (phase[t] = "routing" => Kept(0)')
                       /\ (phase[t] # "routing" => Kept(1)')
    <3>1. CASE phase[t] = "routing"
      BY <1>1, <1>2, <2>1, <2>2, <3>1, KeptSame
    <3>2. CASE phase[t] # "routing"
      BY <1>1, <1>2, <2>1, <2>2, <3>2, KeptSame
    <3> QED
      BY <3>1, <3>2
  <2>4. Early(t)' <=> phase[t] = "routing"
    BY <1>1, <1>3 DEF Early
  <2> QED
    BY <2>2, <2>3, <2>4
<1>7. Untroubled' => Shows(t)'
  <2> SUFFICES ASSUME Untroubled', pc'[t] = "route", latest[t] # 0, Near(latest[t])'
               PROVE  db[latest[t]] \in ToSet(context'[t])
    BY <1>1 DEF Shows
  <2> DEFINE i == latest[t]
             d == Len(db) - i
  <2>1. LastAnswer(i) /\ Near(i) /\ Kept(0) /\ cache # <<>> /\ context'[t] = LastOf(Limit, cache)
    BY <1>1, <1>2, <1>3, <1>4 DEF Own, Early, Coming, Near, Untroubled
  <2>2. i \in DOMAIN db
    BY <2>1 DEF LastAnswer
  <2>3. d \in Nat /\ d + 0 = d /\ d < Limit
    <3>1. d \in Nat
      BY <1>2, <2>2, AnswerInTable
    <3> QED
      BY <2>1, <3>1, Windows DEF Near
  <2>4. InTail(db[i], cache, d)
    BY <2>1, <2>2, <2>3 DEF Kept
  <2> HIDE DEF i, d
  <2>5. InTail(db[i], LastOf(Limit, cache), d) /\ LastOf(Limit, cache) \in Seq(Message)
    BY <1>2, <2>3, <2>4, Windows, TailOfLast, LastOfList
  <2>6. db[i] \in ToSet(LastOf(Limit, cache))
    BY <2>3, <2>5, TailShows
  <2> QED
    BY <2>1, <2>6 DEF i
<1>8. Own(t)'
  <2>1. Early(t)' /\ latest'[t] # 0 => LastAnswer(latest[t])'
    <3>1. Early(t)' => Early(t)
      BY <1>1 DEF Early
    <3>2. Early(t) /\ latest[t] # 0 => LastAnswer(latest[t])
      BY <1>2 DEF Own
    <3> QED
      BY <1>1, <3>1, <3>2 DEF LastAnswer
  <2>2. ~ Coming(t)'
    BY <1>3 DEF Coming
  <2> QED
    BY <1>1, <1>3, <1>4, <1>6, <1>7, <2>1, <2>2 DEF Own, Untroubled
<1>9. Blank(t)' /\ Up' /\ Running(t)'
  BY <1>1, <1>2, <1>3, <1>4 DEF Blank, Up, Running
<1> QED
  BY <1>1, <1>2, <1>5, <1>8, <1>9, MemoryKept

LEMMA ReadMessagesRemembers ==
    ASSUME IInv, Memory, NEW t \in Turn, ReadMessages(t)
    PROVE  Memory'
<1>1. /\ pc[t] = "l2" /\ Running(t) /\ pc'[t] = "fill" /\ context'[t] = Recent
      /\ UNCHANGED <<db, cache, off, phase, latest, steps, tools, spoken, answer,
                     redis, faults, expiries, torn>>
      /\ \A u \in Turn : u # t => pc'[u] = pc[u] /\ context'[u] = context[u]
  BY DEF ReadMessages, Goto, memory, run, world, Running, IInv, Typed
<1>2. /\ Resting(t) /\ Own(t) /\ answer[t] = {}
      /\ Untroubled' => Untroubled /\ cache = <<>>
  BY <1>1, RunsAlone DEF Blank, Own, Untroubled
<1>3. Alone(t)
  BY <1>1 DEF Alone
<1>4. Early(t)' /\ latest'[t] # 0 => LastAnswer(latest[t])'
  <2>1. Early(t)' => Early(t)
    BY <1>1 DEF Early
  <2>2. Early(t) /\ latest[t] # 0 => LastAnswer(latest[t])
    BY <1>2 DEF Own
  <2> QED
    BY <1>1, <2>1, <2>2 DEF LastAnswer
<1>5. Untroubled' => Kept(0)' /\ Kept(1)'
  BY <1>1, <1>2 DEF Kept
<1>6. Own(t)'
  BY <1>1, <1>2, <1>4, <1>5 DEF Own, Shows, Coming, Recent
<1>7. Blank(t)' /\ Up' /\ Running(t)'
  BY <1>1, <1>2 DEF Blank, Up, Memory, Running
<1> QED
  BY <1>1, <1>2, <1>3, <1>6, <1>7, MemoryKept

LEMMA ReadFailsRemembers ==
    ASSUME IInv, Memory, NEW t \in Turn, ReadFails(t)
    PROVE  Memory'
<1>1. /\ pc[t] = "l2" /\ Running(t) /\ faults' = faults + 1
      /\ pc'[t] = IF phase[t] = "routing" THEN "route" ELSE "step"
      /\ UNCHANGED <<db, cache, off, phase, latest, steps, tools, spoken, answer, redis>>
      /\ \A u \in Turn : u # t => pc'[u] = pc[u] /\ context'[u] = context[u]
  BY DEF ReadFails, Fault, Shown, Goto, memory, run, Running, IInv, Typed
<1>2. faults' # 0
  BY <1>1, AgentAssumption DEF IInv, Typed
<1>3. Resting(t) /\ Own(t) /\ answer[t] = {}
  BY <1>1, RunsAlone DEF Blank
<1>4. Early(t)' /\ latest'[t] # 0 => LastAnswer(latest[t])'
  <2>1. Early(t)' => Early(t)
    BY <1>1 DEF Early
  <2>2. Early(t) /\ latest[t] # 0 => LastAnswer(latest[t])
    BY <1>3 DEF Own
  <2> QED
    BY <1>1, <2>1, <2>2 DEF LastAnswer
<1>5. Own(t)' /\ Alone(t) /\ Running(t)'
  BY <1>1, <1>2, <1>4 DEF Own, Untroubled, Alone, Running
<1>6. Blank(t)' /\ Up'
  BY <1>1, <1>2, <1>3 DEF Blank, Up
<1> QED
  BY <1>1, <1>3, <1>5, <1>6, MemoryKept

\* A fill of the empty list: it ends as the table does.
LEMMA FillRemembers ==
    ASSUME IInv, Memory, NEW t \in Turn, Fill(t)
    PROVE  Memory'
<1>1. /\ pc[t] = "fill" /\ Running(t) /\ Write(t, context[t])
      /\ UNCHANGED <<db, phase, latest, steps, tools, spoken, answer,
                     redis, faults, expiries>>
      /\ torn => torn'
  BY DEF Fill, run, Running
<1>2. \/ pc'[t] = "step" /\ phase[t] # "routing"
      \/ pc'[t] = "route" /\ phase[t] = "routing" /\ context'[t] = context[t]
  BY DEF Fill, Shown, Goto, IInv, Typed
<1>3. /\ Resting(t) /\ Own(t) /\ answer[t] = {} /\ Typed
      /\ db \in Seq(Message) /\ User(t) \in ToSet(db)
  BY <1>1, RunsAlone DEF Blank, IInv, Typed, Told
<1>4. Alone(t)
  <2>1. \A u \in Turn : u # t => pc'[u] = pc[u] /\ context'[u] = context[u]
    BY DEF Fill, Shown, Goto, IInv, Typed
  <2> QED
    BY <1>1, <2>1 DEF Alone
<1>5. Untroubled' => /\ Untroubled /\ off' = {} /\ context[t] = Recent
                     /\ cache' = LastOf(MaxMessages, Recent)
  <2>1. Recent \in Seq(Message)
    BY <1>3, Windows, LastOfList DEF Recent
  <2>2. <<>> \o Recent = Recent
    BY <2>1
  <2>3. Untroubled' => Untroubled /\ cache = <<>> /\ context[t] = Recent
    BY <1>1, <1>3 DEF Own, Untroubled
  <2>4. Untroubled' => Push(context[t]) /\ off' = {}
    BY <1>1, <2>3, WriteReaches DEF Memory, Untroubled
  <2> QED
    BY <2>2, <2>3, <2>4 DEF Push
<1>6. ASSUME NEW i \in DOMAIN db, Near(i)
      PROVE  /\ InTail(db[i], Recent, Len(db) - i)
             /\ InTail(db[i], LastOf(MaxMessages, Recent), Len(db) - i)
  <2> DEFINE d == Len(db) - i
  <2>1. InTail(db[i], db, d) /\ d \in Nat /\ Len(db) \in Nat /\ i \in Nat
    BY <1>3, AnswerInTable
  <2>2. d < Limit /\ d < MaxMessages
    BY <1>6, <2>1, Windows DEF Near
  <2> HIDE DEF d
  <2>3. InTail(db[i], Recent, d) /\ Recent \in Seq(Message)
    BY <1>3, <2>1, <2>2, Windows, TailOfLast, LastOfList DEF Recent
  <2>4. InTail(db[i], LastOf(MaxMessages, Recent), d)
    BY <2>1, <2>2, <2>3, Windows, TailOfLast
  <2> QED
    BY <2>3, <2>4 DEF d
<1>7. Untroubled' => Kept(0)' /\ Kept(1)'
  <2> SUFFICES ASSUME Untroubled', NEW i \in DOMAIN db', Near(i)', NEW n \in {0, 1}
               PROVE  InTail(db'[i], cache', Len(db') - i + n)
    BY DEF Kept
  <2>1. InTail(db[i], LastOf(MaxMessages, Recent), Len(db) - i)
    BY <1>1, <1>6 DEF Near
  <2>2. Recent \in Seq(Message) /\ LastOf(MaxMessages, Recent) \in Seq(Message)
    BY <1>3, Windows, LastOfList DEF Recent
  <2>3. Len(db) - i \in Int /\ Len(db) - i + n \in Int /\ Len(db) - i <= Len(db) - i + n
    BY <1>1, <1>3, AnswerInTable
  <2> QED
    BY <1>1, <1>5, <2>1, <2>2, <2>3, TailShows
<1>8. Untroubled' => Shows(t)'
  <2> SUFFICES ASSUME Untroubled', pc'[t] = "route", latest[t] # 0, Near(latest[t])'
               PROVE  db[latest[t]] \in ToSet(context'[t])
    BY <1>1 DEF Shows
  <2>1. LastAnswer(latest[t]) /\ Near(latest[t]) /\ context'[t] = Recent
    BY <1>1, <1>2, <1>3, <1>5 DEF Own, Early, Near
  <2>2. latest[t] \in DOMAIN db
    BY <2>1 DEF LastAnswer
  <2>3. /\ InTail(db[latest[t]], Recent, Len(db) - latest[t]) /\ Recent \in Seq(Message)
        /\ Len(db) - latest[t] \in Int
    BY <1>3, <1>6, <2>1, <2>2, AnswerInTable, Windows, LastOfList DEF Recent
  <2> QED
    BY <2>1, <2>3, TailShows
<1>9. Untroubled' => cache' # <<>>
  <2>1. Len(db) \in Nat /\ Len(db) > 0
    BY <1>3 DEF ToSet
  <2>2. InTail(db[Len(db)], db, 0)
    BY <1>3, <2>1 DEF InTail
  <2>3. InTail(db[Len(db)], Recent, 0) /\ Recent \in Seq(Message)
    <3>1. Recent \in Seq(Message)
      BY <1>3, Windows, LastOfList DEF Recent
    <3>2. Limit \in Nat \ {0} /\ 0 < Limit
      BY Windows
    <3>3. InTail(db[Len(db)], LastOf(Limit, db), 0)
      BY <1>3, <2>2, <3>2, TailOfLast
    <3> QED
      BY <3>1, <3>3 DEF Recent
  <2>4. /\ InTail(db[Len(db)], LastOf(MaxMessages, Recent), 0)
        /\ LastOf(MaxMessages, Recent) \in Seq(Message)
    BY <2>3, Windows, TailOfLast, LastOfList
  <2> QED
    BY <1>5, <2>4, TailShows
<1>10. Own(t)'
  <2>1. Early(t)' /\ latest'[t] # 0 => LastAnswer(latest[t])'
    <3>1. Early(t)' => Early(t)
      BY <1>1 DEF Early
    <3>2. Early(t) /\ latest[t] # 0 => LastAnswer(latest[t])
      BY <1>3 DEF Own
    <3> QED
      BY <1>1, <3>1, <3>2 DEF LastAnswer
  <2>2. ~ Coming(t)'
    BY <1>2 DEF Coming
  <2> QED
    BY <1>1, <1>2, <1>7, <1>8, <1>9, <2>1, <2>2 DEF Own
<1>11. Blank(t)' /\ Up' /\ Running(t)'
  <2>1. faults = 0 => redis /\ off' = {}
    BY <1>1, WriteReaches DEF Memory, Up
  <2> QED
    BY <1>1, <1>2, <1>3, <2>1 DEF Blank, Up, Running
<1> QED
  BY <1>1, <1>3, <1>4, <1>10, <1>11, MemoryKept
-----------------------------------------------------------------------------
\* The input is pushed behind the list.
LEMMA RouteRemembers ==
    ASSUME IInv, Memory, NEW t \in Turn, SmallTalk(t) \/ HandOver(t)
    PROVE  Memory'
<1>1. /\ pc[t] = "route" /\ Running(t) /\ Write(t, <<User(t)>>) /\ Routed(t)
      /\ UNCHANGED <<db, steps, tools, spoken, redis, faults, expiries, torn>>
  BY DEF SmallTalk, HandOver, run, world, Running
<1>2. /\ Resting(t) /\ Own(t) /\ Blank(t) /\ Typed /\ cache \in Seq(Message)
      /\ answer[t] = {} /\ phase[t] = "routing"
  BY <1>1, RunsAlone DEF Blank, IInv, Typed
<1>3. \/ /\ pc'[t] = "reply" /\ answer'[t] = {} /\ UNCHANGED phase
      \/ /\ pc'[t] = "keep" /\ UNCHANGED phase
      \/ /\ pc'[t] = "l1" /\ phase'[t] = "task" /\ UNCHANGED answer
      \/ /\ pc'[t] = "excuse" /\ UNCHANGED <<phase, answer>>
  BY DEF SmallTalk, HandOver, Loaded, NotPrepared, Goto, run, IInv, Typed
<1>4. /\ Alone(t)
      /\ \A u \in Turn : u # t => phase'[u] = phase[u]
  <2>1. \A u \in Turn : u # t => pc'[u] = pc[u] /\ phase'[u] = phase[u] /\ answer'[u] = answer[u]
    BY DEF SmallTalk, HandOver, Loaded, NotPrepared, Goto, run, IInv, Typed
  <2>2. \A u \in Turn : u # t => context'[u] = context[u]
    BY <1>1, RoutedTyped
  <2> QED
    BY <1>1, <2>1, <2>2 DEF Alone
<1>5. User(t) \in Message /\ cache \o <<User(t)>> \in Seq(Message)
  BY <1>2, Messages
<1>6. Untroubled' => /\ Untroubled /\ Kept(0) /\ cache # <<>>
                     /\ cache' = LastOf(MaxMessages, cache \o <<User(t)>>)
  <2>1. Untroubled' => Push(<<User(t)>>)
    BY <1>1, WriteReaches DEF Memory, Untroubled
  <2> QED
    BY <1>1, <1>2, <2>1 DEF Push, Own, Early, Coming, Untroubled
<1>7. Untroubled' => Kept(1)'
  <2> SUFFICES ASSUME Untroubled', NEW i \in DOMAIN db', LastAnswer(i)', Near(i)'
               PROVE  InTail(db'[i], cache', Len(db') - i + 1)
    BY DEF Kept
  <2>1. i \in DOMAIN db /\ LastAnswer(i) /\ Near(i) /\ db[i] \in Message
    BY <1>1, <1>2, AnswerInTable DEF LastAnswer, Near
  <2> DEFINE d == Len(db) - i
  <2>2. d \in Nat /\ d + 0 = d /\ d + 1 < MaxMessages
    <3>1. d \in Nat
      BY <1>2, <2>1, AnswerInTable
    <3> QED
      BY <2>1, <3>1, Windows DEF Near
  <2>3. InTail(db[i], cache, d)
    BY <1>6, <2>1, <2>2 DEF Kept
  <2> HIDE DEF d
  <2> DEFINE c == cache \o <<User(t)>>
  <2>4. InTail(db[i], c, d + 1) /\ d + 1 \in Int /\ c \in Seq(Message)
    BY <1>2, <1>5, <2>2, <2>3, TailOfPush
  <2>5. cache' = LastOf(MaxMessages, c)
    BY <1>6
  <2> HIDE DEF c
  <2>6. InTail(db[i], LastOf(MaxMessages, c), d + 1)
    BY <2>2, <2>4, Windows, TailOfLast
  <2> QED
    BY <1>1, <2>5, <2>6 DEF d
<1>8. ~ Early(t)' /\ ~ Coming(t)'
  BY <1>2, <1>3 DEF Early, Coming
<1>9. Own(t)'
  BY <1>3, <1>7, <1>8 DEF Own, Shows
<1>10. Blank(t)' /\ Up' /\ Running(t)'
  <2>1. faults = 0 => redis /\ off' = {}
    BY <1>1, WriteReaches DEF Memory, Up
  <2> QED
    BY <1>1, <1>2, <1>3, <2>1 DEF Blank, Up, Running
<1> QED
  BY <1>2, <1>4, <1>9, <1>10, MemoryKept

\* The answer is pushed behind the list.
LEMMA KeepAnswerRemembers ==
    ASSUME IInv, Memory, NEW t \in Turn, KeepAnswer(t)
    PROVE  Memory'
<1>1. /\ pc[t] = "keep" /\ Running(t) /\ Write(t, <<Assistant(t)>>)
      /\ UNCHANGED <<db, phase, context, latest, steps, tools, spoken, answer,
                     redis, faults, expiries, torn>>
      /\ pc'[t] = "reply" /\ \A u \in Turn : u # t => pc'[u] = pc[u]
  BY DEF KeepAnswer, Goto, run, world, Running, IInv, Typed
<1>2. Resting(t) /\ Alone(t) /\ cache \in Seq(Message) /\ Coming(t)'
  BY <1>1, RunsAlone DEF Alone, IInv, Typed, Loop, Coming
<1>3. Untroubled' => cache' # <<>> /\ cache'[Len(cache')] = Assistant(t)
  <2> DEFINE c == cache \o <<Assistant(t)>>
  <2>1. Untroubled' => cache' = LastOf(MaxMessages, c)
    BY <1>1, WriteReaches DEF Memory, Untroubled, Push
  <2>2. Assistant(t) \in Message /\ c \in Seq(Message)
    BY <1>2, Messages
  <2>3. InTail(Assistant(t), c, 0)
    BY <1>2, <2>2, TailOfPush
  <2> HIDE DEF c
  <2>4. InTail(Assistant(t), LastOf(MaxMessages, c), 0) /\ LastOf(MaxMessages, c) \in Seq(Message)
    BY <2>2, <2>3, Windows, TailOfLast, LastOfList
  <2> QED
    BY <2>1, <2>4, TailShows
<1>4. Own(t)'
  BY <1>1, <1>2, <1>3 DEF Own, Early, Shows
<1>5. Blank(t)' /\ Up' /\ Running(t)'
  <2>1. faults = 0 => redis /\ off' = {}
    BY <1>1, WriteReaches DEF Memory, Up
  <2> QED
    BY <1>1, <2>1 DEF Blank, Up, Running
<1> QED
  BY <1>1, <1>2, <1>4, <1>5, MemoryKept

\* The last step of a turn: a fixed text, or the answer the list ends with.
LEMMA EndRemembers ==
    ASSUME IInv, Memory, NEW t \in Turn, Running(t), NEW m \in Message, db' = Append(db, m),
           \E l \in {"done", "excused"} : End(t, l),
           UNCHANGED <<memory, context, latest, world>>,
           IF Coming(t) THEN m = Assistant(t) ELSE m.role # "assistant"
    PROVE  Memory'
<1>1. /\ \E l \in {"done", "excused"} : pc' = [pc EXCEPT ![t] = l]
      /\ phase' = [phase EXCEPT ![t] = "routing"]
      /\ steps' = [steps EXCEPT ![t] = 0] /\ tools' = [tools EXCEPT ![t] = 0]
      /\ spoken' = [spoken EXCEPT ![t] = FALSE] /\ answer' = [answer EXCEPT ![t] = {}]
      /\ UNCHANGED <<cache, off, context, latest, redis, faults, expiries, torn>>
  BY DEF End, Leave, Goto, memory, world
<1>2. /\ pc'[t] \in {"done", "excused"} /\ answer'[t] = {} /\ ~ Running(t)'
      /\ Alone(t) /\ \A u \in Turn : u # t => phase'[u] = phase[u]
  BY <1>1 DEF IInv, Typed, Alone, Running
<1>3. /\ Resting(t) /\ Own(t) /\ Typed /\ db \in Seq(Message) /\ cache \in Seq(Message)
      /\ Untroubled' => Untroubled
  BY <1>1, RunsAlone DEF IInv, Typed, Untroubled
<1>4. /\ Len(db) \in Nat /\ Len(db') = Len(db) + 1 /\ DOMAIN db' = 1 .. (Len(db) + 1)
      /\ DOMAIN db = 1 .. Len(db)
      /\ \A i \in DOMAIN db : db'[i] = db[i]
      /\ db'[Len(db) + 1] = m
  BY <1>3
<1>5. ASSUME Untroubled', NEW i \in DOMAIN db', LastAnswer(i)', Near(i)'
      PROVE  cache' = <<>> \/ InTail(db'[i], cache', Len(db') - i + 1)
  <2>1. CASE Coming(t)
    <3>1. db'[Len(db) + 1].role = "assistant" /\ m = Assistant(t)
      BY <1>4, <2>1 DEF Assistant
    <3>2. i = Len(db) + 1
      BY <1>4, <1>5, <3>1 DEF LastAnswer
    <3>3. cache # <<>> /\ cache[Len(cache)] = Assistant(t)
      BY <1>3, <1>5, <2>1 DEF Own
    <3>4. Len(cache) \in DOMAIN cache /\ Len(cache) \in Nat
      BY <1>3, <3>3
    <3>5. InTail(m, cache, 1)
      BY <3>1, <3>3, <3>4 DEF InTail
    <3> QED
      BY <1>1, <1>4, <3>2, <3>5
  <2>2. CASE ~ Coming(t)
    <3>1. i \in DOMAIN db
      BY <1>4, <1>5, <2>2 DEF LastAnswer
    <3>2. db[i].role = "assistant" /\ \A j \in DOMAIN db : db[j].role = "assistant" => j <= i
      BY <1>4, <1>5, <3>1 DEF LastAnswer
    <3>3. LastAnswer(i) /\ Near(i)
      BY <1>4, <1>5, <3>1, <3>2, Windows DEF LastAnswer, Near
    <3>4. PICK n \in {0, 1} : Kept(n)
      BY <1>3, <1>5, <2>2 DEF Own
    <3>5. cache = <<>> \/ InTail(db[i], cache, Len(db) - i + n)
      BY <3>1, <3>3, <3>4 DEF Kept
    <3>6. /\ Len(db) - i + n \in Int /\ Len(db') - i + 1 \in Int
          /\ Len(db) - i + n <= Len(db') - i + 1
      BY <1>4, <3>1
    <3> QED
      BY <1>1, <1>3, <1>4, <3>1, <3>5, <3>6, TailShows
  <2> QED
    BY <2>1, <2>2
<1>6. Untroubled' => Kept(1)'
  BY <1>5 DEF Kept
<1>7. Blank(t)' /\ Up'
  BY <1>1, <1>2 DEF Blank, Up, Memory
<1> QED
  BY <1>2, <1>3, <1>6, <1>7, MemoryKept

LEMMA AnswerRemembers ==
    ASSUME IInv, Memory, NEW t \in Turn, Reply(t) \/ Excuse(t)
    PROVE  Memory'
<1>1. CASE Reply(t)
  <2> DEFINE m == Response(t)
  <2>1. /\ m \in Message /\ IF Coming(t) THEN m = Assistant(t) ELSE m.role # "assistant"
    BY <1>1, ResponseIs DEF Coming, Reply, Response, Fixed
  <2>2. /\ db' = Append(db, m) /\ End(t, "done") /\ UNCHANGED <<memory, context, latest, world>>
        /\ Running(t)
    BY <1>1 DEF Reply, Running
  <2> HIDE DEF m
  <2> QED
    BY <2>1, <2>2, EndRemembers
<1>2. CASE Excuse(t)
  <2>1. Fixed(t) \in Message /\ ~ Coming(t) /\ Fixed(t).role # "assistant" /\ Running(t)
    BY <1>2, Messages DEF Excuse, Coming, Fixed, Running
  <2> QED
    BY <1>2, <2>1, EndRemembers DEF Excuse
<1> QED
  BY <1>1, <1>2

\* A turn whose reply fails ends, and from then on something has failed.
LEMMA ReplyFailsRemembers ==
    ASSUME IInv, Memory, NEW t \in Turn, ReplyFails(t)
    PROVE  Memory'
<1>1. /\ pc[t] \in {"reply", "excuse"} /\ faults' = faults + 1
      /\ pc' = [pc EXCEPT ![t] = "silent"]
      /\ phase' = [phase EXCEPT ![t] = "routing"]
      /\ steps' = [steps EXCEPT ![t] = 0] /\ tools' = [tools EXCEPT ![t] = 0]
      /\ spoken' = [spoken EXCEPT ![t] = FALSE] /\ answer' = [answer EXCEPT ![t] = {}]
      /\ UNCHANGED <<context>>
  BY DEF ReplyFails, Fault, End, Leave, Goto
<1>2. faults' # 0
  BY <1>1, AgentAssumption DEF IInv, Typed
<1>3. /\ Running(t) /\ pc'[t] = "silent" /\ answer'[t] = {} /\ ~ Running(t)'
      /\ Alone(t) /\ \A u \in Turn : u # t => phase'[u] = phase[u]
  BY <1>1 DEF IInv, Typed, Alone, Running
<1>4. Resting(t) /\ Blank(t)' /\ Up' /\ ~ Untroubled'
  BY <1>2, <1>3, RunsAlone DEF Blank, Up, Untroubled
<1> QED
  BY <1>3, <1>4, MemoryKept

\* Steps that are nobody's.
LEMMA AroundRemembers ==
    ASSUME IInv, Memory, UNCHANGED <<db, off, pc, phase, context, latest, run>>,
           Up', Untroubled' => /\ Untroubled
                               /\ UNCHANGED cache \/ \A t \in Turn : ~ Running(t)
                               /\ cache' \in {cache, <<>>}
    PROVE  Memory'
<1>1. UNCHANGED <<db, off, pc, phase, context, latest, steps, tools, spoken, answer>>
  BY DEF run
<1>2. Solo' /\ \A t \in Turn : Blank(t)'
  BY <1>1 DEF Memory, Solo, Running, Blank
<1>3. ASSUME NEW t \in Turn, Running(t)' PROVE Own(t)'
  <2>1. Running(t) /\ Own(t)
    BY <1>1, <1>3 DEF Memory, Running
  <2>2. Untroubled' => Untroubled /\ UNCHANGED cache
    BY <2>1
  <2>3. Early(t)' /\ latest'[t] # 0 => LastAnswer(latest[t])'
    BY <1>1, <2>1 DEF Own, Early, LastAnswer
  <2>4. Untroubled' => Kept(IF Early(t) THEN 0 ELSE 1)'
                       \/ Coming(t)
    <3>1. Untroubled' /\ ~ Coming(t) => Kept(IF Early(t) THEN 0 ELSE 1)
      BY <2>1, <2>2 DEF Own
    <3> QED
      BY <1>1, <2>2, <3>1 DEF Kept, LastAnswer, Near, Early
  <2> QED
    BY <1>1, <2>1, <2>2, <2>3, <2>4 DEF Own, Early, Coming, Shows, Near, Recent
<1>4. (\A t \in Turn : ~ Running(t)') /\ Untroubled' => Kept(1)'
  <2>1. (\A t \in Turn : ~ Running(t)') /\ Untroubled' => Kept(1) /\ cache' \in {cache, <<>>}
    BY <1>1 DEF Memory, Running
  <2> QED
    BY <1>1, <2>1 DEF Kept, LastAnswer, Near
<1> QED
  BY <1>2, <1>3, <1>4 DEF Memory

LEMMA RedisRemembers ==
    ASSUME IInv, Memory, Expire \/ RedisGoes \/ RedisReturns \/ UNCHANGED vars
    PROVE  Memory'
<1>1. faults \in Nat
  BY AgentAssumption DEF IInv, Typed
<1>2. CASE Expire
  <2>1. /\ UNCHANGED <<db, off, pc, phase, context, latest, run>> /\ UNCHANGED <<redis, faults>>
        /\ cache' = <<>> /\ torn' = (torn \/ \E t \in Turn : Running(t))
    BY <1>2 DEF Expire
  <2>2. Up'
    BY <2>1 DEF Memory, Up
  <2>3. Untroubled' => Untroubled /\ \A t \in Turn : ~ Running(t)
    BY <2>1 DEF Untroubled
  <2> QED
    BY <2>1, <2>2, <2>3, AroundRemembers
<1>3. CASE RedisGoes
  <2>1. /\ UNCHANGED <<db, off, pc, phase, context, latest, run>>
        /\ faults' = faults + 1
    BY <1>3 DEF RedisGoes, Fault, memory
  <2>2. Up' /\ ~ Untroubled'
    BY <1>1, <2>1 DEF Up, Untroubled
  <2> QED
    BY <2>1, <2>2, AroundRemembers
<1>4. CASE RedisReturns
  <2>1. /\ UNCHANGED <<db, off, pc, phase, context, latest, run>> /\ UNCHANGED <<cache, faults, torn>>
        /\ ~ redis
    BY <1>4 DEF RedisReturns, memory
  <2>2. Up' /\ (Untroubled' => Untroubled)
    BY <2>1 DEF Memory, Up, Untroubled
  <2> QED
    BY <2>1, <2>2, AroundRemembers
<1>5. CASE UNCHANGED vars
  <2>1. /\ UNCHANGED <<db, off, pc, phase, context, latest, run>>
        /\ UNCHANGED <<cache, redis, faults, torn>>
    BY <1>5 DEF vars, run
  <2>2. Up' /\ (Untroubled' => Untroubled)
    BY <2>1 DEF Memory, Up, Untroubled
  <2> QED
    BY <2>1, <2>2, AroundRemembers
<1> QED
  BY <1>2, <1>3, <1>4, <1>5

LEMMA MemoryBegins ==
    ASSUME Init
    PROVE  Memory
<1>1. /\ \A t \in Turn : pc[t] = "new" /\ answer[t] = {}
      /\ redis /\ off = {} /\ Typed /\ db \in Seq(Message)
  BY InitHolds DEF Init, IInv, Typed
<1>2. \A t \in Turn : ~ Running(t) /\ Blank(t)
  BY <1>1 DEF Running, Blank
<1>3. Kept(1)
  <2>1. CASE cache = <<>>
    BY <2>1 DEF Kept
  <2>2. CASE cache = LastOf(MaxMessages, db)
    <3> SUFFICES ASSUME NEW i \in DOMAIN db, Near(i)
                 PROVE  InTail(db[i], cache, Len(db) - i + 1)
      BY DEF Kept
    <3> DEFINE d == Len(db) - i
    <3>1. InTail(db[i], db, d) /\ d \in Nat /\ d < MaxMessages
      <4>1. InTail(db[i], db, d) /\ d \in Nat
        BY <1>1, AnswerInTable
      <4> QED
        BY <4>1, Windows DEF Near
    <3> HIDE DEF d
    <3>2. InTail(db[i], cache, d) /\ cache \in Seq(Message)
      BY <1>1, <2>2, <3>1, Windows, TailOfLast, LastOfList
    <3>3. InTail(db[i], cache, d + 1)
      BY <3>1, <3>2, TailShows
    <3> QED
      BY <3>3 DEF d
  <2> QED
    BY <2>1, <2>2 DEF Init
<1> QED
  BY <1>1, <1>2, <1>3 DEF Memory, Solo, Up

LEMMA MemoryStep ==
    ASSUME IInv, Memory, OneWorker, [Next]_vars
    PROVE  Memory'
<1>1. ASSUME NEW t \in Turn, Progress(t) PROVE Memory'
  <2>1. CASE ReadCache(t) \/ ReadMessages(t) \/ ReadFails(t) \/ Fill(t)
    BY <2>1, ReadCacheRemembers, ReadMessagesRemembers, ReadFailsRemembers, FillRemembers
  <2>2. CASE NoAgent(t) \/ NoUser(t) \/ RouteRaises(t)
    BY <2>2, NotRoutedRemembers
  <2>3. CASE SmallTalk(t) \/ HandOver(t)
    BY <2>3, RouteRemembers
  <2>4. CASE Speak(t) \/ ModelError(t) \/ CallTool(t) \/ ToolRaises(t) \/ Report(t) \/ StopLoop(t)
    BY <2>4, LoopRemembers
  <2>5. CASE KeepAnswer(t)
    BY <2>5, KeepAnswerRemembers
  <2>6. CASE ReplyFails(t)
    BY <2>6, ReplyFailsRemembers
  <2>7. CASE Reply(t) \/ Excuse(t)
    BY <2>7, AnswerRemembers
  <2> QED
    BY <1>1, <2>1, <2>2, <2>3, <2>4, <2>5, <2>6, <2>7 DEF Progress
<1>2. ASSUME NEW t \in Turn, Start(t) PROVE Memory'
  BY <1>2, StartRemembers
<1> QED
  BY <1>1, <1>2, RedisRemembers DEF Next

(***************************************************************************)
(* With one worker, for any number of turns: while neither Redis nor a     *)
(* reply fails and no key expires under a turn, the routing agent is shown *)
(* the last answer, if no more messages come after it than the limits      *)
(* leave room for.                                                         *)
(***************************************************************************)
ShowsLast ==
    \A t \in Turn : pc[t] = "route" /\ latest[t] # 0 /\ Near(latest[t]) /\ Untroubled =>
        db[latest[t]] \in ToSet(context[t])

THEOREM AgentShowsLast == ASSUME OneWorker PROVE Spec => []ShowsLast
<1>1. Memory => ShowsLast
  BY DEF Memory, Own, Shows, ShowsLast, Running
<1>2. Init => Memory
  BY MemoryBegins
<1>3. IInv /\ Memory /\ [Next]_vars => Memory'
  BY MemoryStep
<1> QED
  BY <1>1, <1>2, <1>3, Invariance, PTL DEF Spec
-----------------------------------------------------------------------------
(***************************************************************************)
(* How many messages may come after the last answer: what came after it    *)
(* before, and two for a turn, the message and what it is answered with.   *)
(***************************************************************************)
Begun == {t \in Turn : pc[t] # "new"}
Over  == {t \in Turn : pc[t] \in {"done", "excused", "silent"}}

After(k) ==
    \A i \in DOMAIN db : LastAnswer(i) =>
        Len(db) - i <= k + Cardinality(Begun) + Cardinality(Over)

\* At most k messages of what there was before come after its last answer.
Trails(k) ==
    \A p \in Past : \A i \in DOMAIN p : p[i].role = "assistant" =>
        \E j \in DOMAIN p : i <= j /\ p[j].role = "assistant" /\ Len(p) - j <= k

LEMMA TurnsCounted ==
    ASSUME IsFiniteSet(Turn)
    PROVE  /\ IsFiniteSet(Begun) /\ IsFiniteSet(Over)
           /\ Cardinality(Begun) \in Nat /\ Cardinality(Over) \in Nat
           /\ Cardinality(Begun) <= Cardinality(Turn) /\ Cardinality(Turn) \in Nat
<1>1. Begun \subseteq Turn /\ Over \subseteq Turn
  BY DEF Begun, Over
<1> QED
  BY <1>1, FS_Subset, FS_CardinalityType

LEMMA AfterStays ==
    ASSUME NEW k \in Nat, After(k), db' = db, Begun' = Begun, Over' = Over
    PROVE  After(k)'
  BY DEF After, LastAnswer

LEMMA AfterStart ==
    ASSUME IInv, IsFiniteSet(Turn), NEW k \in Nat, After(k), NEW t \in Turn, Start(t)
    PROVE  After(k)'
<1>1. /\ pc[t] = "new" /\ pc' = [pc EXCEPT ![t] = "l1"] /\ db' = Append(db, User(t))
      /\ pc \in [Turn -> PC] /\ db \in Seq(Message) /\ User(t) \in Message
      /\ User(t).role = "user"
  BY Messages DEF Start, Goto, IInv, Typed, User
<1>2. Begun' = Begun \cup {t} /\ t \notin Begun /\ Over' = Over
  BY <1>1 DEF Begun, Over
<1>3. Cardinality(Begun') = Cardinality(Begun) + 1
  BY <1>2, TurnsCounted, FS_AddElement
<1>4. /\ Len(db) \in Nat /\ Len(db') = Len(db) + 1 /\ DOMAIN db' = 1 .. (Len(db) + 1)
      /\ DOMAIN db = 1 .. Len(db)
      /\ \A i \in DOMAIN db : db'[i] = db[i]
      /\ db'[Len(db) + 1] = User(t)
  BY <1>1
<1>5. ASSUME NEW i \in DOMAIN db', LastAnswer(i)'
      PROVE  Len(db') - i <= k + Cardinality(Begun') + Cardinality(Over')
  <2>1. i \in DOMAIN db
    BY <1>1, <1>4, <1>5 DEF LastAnswer
  <2>2. db[i].role = "assistant" /\ \A j \in DOMAIN db : db[j].role = "assistant" => j <= i
    BY <1>4, <1>5, <2>1 DEF LastAnswer
  <2>3. Len(db) - i <= k + Cardinality(Begun) + Cardinality(Over)
    BY <2>1, <2>2 DEF After, LastAnswer
  <2>4. Cardinality(Begun) \in Nat /\ Cardinality(Over) \in Nat /\ Cardinality(Over') = Cardinality(Over)
    BY <1>2, TurnsCounted
  <2> QED
    BY <1>3, <1>4, <2>1, <2>3, <2>4
<1> QED
  BY <1>5 DEF After

LEMMA AfterEnd ==
    ASSUME IInv, IsFiniteSet(Turn), NEW k \in Nat, After(k), NEW t \in Turn, Running(t),
           db' = db \/ \E m \in Message : db' = Append(db, m),
           \E l \in {"done", "excused", "silent"} : End(t, l)
    PROVE  After(k)'
<1>1. /\ pc \in [Turn -> PC] /\ db \in Seq(Message)
      /\ \E l \in {"done", "excused", "silent"} : pc' = [pc EXCEPT ![t] = l]
  BY DEF End, Leave, Goto, IInv, Typed
<1>2. Over' = Over \cup {t} /\ t \notin Over /\ Begun' = Begun
  BY <1>1 DEF Begun, Over, Running
<1>3. Cardinality(Over') = Cardinality(Over) + 1
  BY <1>2, TurnsCounted, FS_AddElement
<1>4. /\ Len(db) \in Nat /\ DOMAIN db = 1 .. Len(db)
      /\ \E n \in {Len(db), Len(db) + 1} : Len(db') = n /\ DOMAIN db' = 1 .. n
      /\ \A i \in DOMAIN db : i \in DOMAIN db' /\ db'[i] = db[i]
  BY <1>1
<1>5. ASSUME NEW i \in DOMAIN db', LastAnswer(i)'
      PROVE  Len(db') - i <= k + Cardinality(Begun') + Cardinality(Over')
  <2>1. /\ Cardinality(Begun) \in Nat /\ Cardinality(Over) \in Nat
        /\ Cardinality(Begun') = Cardinality(Begun)
    BY <1>2, TurnsCounted
  <2>2. CASE i \in DOMAIN db
    <3>1. db[i].role = "assistant" /\ \A j \in DOMAIN db : db[j].role = "assistant" => j <= i
      BY <1>4, <1>5, <2>2 DEF LastAnswer
    <3>2. Len(db) - i <= k + Cardinality(Begun) + Cardinality(Over)
      BY <2>2, <3>1 DEF After, LastAnswer
    <3> QED
      BY <1>3, <1>4, <2>1, <2>2, <3>2
  <2>3. CASE i = Len(db) + 1
    BY <1>3, <1>4, <2>1, <2>3
  <2> QED
    BY <1>4, <2>2, <2>3
<1> QED
  BY <1>5 DEF After

\* Any other step of a turn begins none and ends none.
LEMMA AfterProgress ==
    ASSUME IInv, IsFiniteSet(Turn), NEW k \in Nat, After(k), NEW t \in Turn, Progress(t)
    PROVE  After(k)'
<1>1. Running(t)
  BY DEF Progress, ReadCache, ReadMessages, ReadFails, Fill, NoAgent, NoUser, RouteRaises, SmallTalk,
         HandOver, Speak, ModelError, CallTool, ToolRaises, Report, StopLoop, KeepAnswer, Reply,
         ReplyFails, Excuse, Arrives, More, Running
<1>2. CASE Reply(t) \/ Excuse(t) \/ ReplyFails(t)
  <2>1. db' = db \/ \E m \in Message : db' = Append(db, m)
    BY <1>2, Messages, ResponseIs DEF Reply, Excuse, ReplyFails
  <2>2. \E l \in {"done", "excused", "silent"} : End(t, l)
    BY <1>2 DEF Reply, Excuse, ReplyFails
  <2> QED
    BY <1>1, <2>1, <2>2, AfterEnd
<1>3. CASE ~ (Reply(t) \/ Excuse(t) \/ ReplyFails(t))
  <2> DEFINE Ways == {"l1", "l2", "fill", "route", "step", "keep", "reply", "excuse"}
  <2>1. db' = db
    BY <1>3 DEF Progress, ReadCache, ReadMessages, ReadFails, Fill, NoAgent, NoUser, RouteRaises,
                SmallTalk, HandOver, Speak, ModelError, CallTool, ToolRaises, Report, StopLoop,
                KeepAnswer
  <2>2. \E l \in Ways : pc' = [pc EXCEPT ![t] = l]
    <3>1. CASE ReadCache(t) \/ ReadMessages(t) \/ ReadFails(t) \/ Fill(t)
      BY <3>1 DEF ReadCache, ReadMessages, ReadFails, Fill, Reach, Miss, Shown, Goto
    <3>2. CASE NoAgent(t) \/ NoUser(t) \/ RouteRaises(t) \/ SmallTalk(t) \/ HandOver(t)
      BY <3>2 DEF NoAgent, NoUser, RouteRaises, SmallTalk, HandOver, Loaded, NotPrepared, Goto
    <3>3. CASE Speak(t) \/ ModelError(t) \/ CallTool(t)
      <4>1. pc' = pc /\ pc[t] = "step" /\ pc \in [Turn -> PC]
        BY <3>3 DEF Speak, ModelError, CallTool, More, IInv, Typed
      <4>2. pc' = [pc EXCEPT ![t] = "step"]
        BY <4>1
      <4> QED
        BY <4>2
    <3>4. CASE ToolRaises(t) \/ Report(t) \/ StopLoop(t)
      BY <3>4 DEF ToolRaises, Report, StopLoop, Leave, Goto
    <3>5. CASE KeepAnswer(t)
      BY <3>5 DEF KeepAnswer, Goto
    <3> QED
      BY <1>3, <3>1, <3>2, <3>3, <3>4, <3>5 DEF Progress
  <2>3. pc \in [Turn -> PC]
    BY DEF IInv, Typed
  <2>4. Begun' = Begun /\ Over' = Over
    BY <1>1, <2>2, <2>3 DEF Begun, Over, Running
  <2> QED
    BY <2>1, <2>4, AfterStays
<1> QED
  BY <1>2, <1>3

LEMMA AfterKept ==
    ASSUME IInv, IsFiniteSet(Turn), NEW k \in Nat, After(k), [Next]_vars
    PROVE  After(k)'
<1>1. CASE Expire \/ RedisGoes \/ RedisReturns \/ UNCHANGED vars
  <2>1. db' = db /\ pc' = pc
    BY <1>1 DEF Expire, RedisGoes, RedisReturns, vars
  <2> QED
    BY <2>1, AfterStays DEF Begun, Over
<1> QED
  BY <1>1, AfterStart, AfterProgress DEF Next

LEMMA AfterBegins ==
    ASSUME Init, IsFiniteSet(Turn), NEW k \in Nat, Trails(k)
    PROVE  After(k)
<1>1. db \in Past /\ Cardinality(Begun) \in Nat /\ Cardinality(Over) \in Nat
  BY TurnsCounted DEF Init
<1>2. Len(db) \in Nat /\ DOMAIN db = 1 .. Len(db)
  BY <1>1, AgentAssumption
<1> SUFFICES ASSUME NEW i \in DOMAIN db, LastAnswer(i)
             PROVE  Len(db) - i <= k + Cardinality(Begun) + Cardinality(Over)
  BY DEF After
<1>3. PICK j \in DOMAIN db : i <= j /\ db[j].role = "assistant" /\ Len(db) - j <= k
  BY <1>1 DEF Trails, LastAnswer
<1>4. j = i
  BY <1>2, <1>3 DEF LastAnswer
<1> QED
  BY <1>1, <1>2, <1>3, <1>4

(***************************************************************************)
(* RemembersLast: one worker remembers the last answer through all its     *)
(* turns, whether they are answered or not, if the limits have room for    *)
(* two messages of every turn and what came after the answer before them.  *)
(* It fills only an empty list.  With several workers a fill may push a    *)
(* page of the table, as long as the limit, over an answer that came in    *)
(* after the page was read.                                                *)
(***************************************************************************)
THEOREM AgentRemembersLast ==
    ASSUME OneWorker, IsFiniteSet(Turn),
           NEW k \in Nat, Trails(k), k + 2 * Cardinality(Turn) < Window
    PROVE  Spec => []RemembersLast
<1>1. Init => After(k)
  BY AfterBegins
<1>2. IInv /\ After(k) /\ [Next]_vars => After(k)'
  BY AfterKept
<1>3. IInv /\ Memory /\ After(k) /\ ShowsLast => RemembersLast
  <2> SUFFICES ASSUME IInv, Memory, After(k), ShowsLast, NEW t \in Turn, pc[t] = "route",
                      latest[t] # 0, faults = 0, ~ torn
               PROVE  db[latest[t]] \in ToSet(context[t])
    BY DEF RemembersLast
  <2>1. LastAnswer(latest[t]) /\ latest[t] \in DOMAIN db
    <3>1. Own(t) /\ Early(t)
      BY RunsAlone DEF Running, Blank, Early
    <3> QED
      BY <3>1 DEF Own, LastAnswer
  <2>2. Len(db) - latest[t] <= k + Cardinality(Begun) + Cardinality(Over)
    BY <2>1 DEF After
  <2>3. Len(db) - latest[t] \in Nat
    BY <2>1, AnswerInTable DEF IInv
  <2>4. Cardinality(Over) + 1 <= Cardinality(Turn)
    <3>1. IsFiniteSet(Turn \ {t}) /\ Cardinality(Turn \ {t}) = Cardinality(Turn) - 1
      BY FS_RemoveElement
    <3>2. Over \subseteq Turn \ {t}
      BY DEF Over
    <3>3. Cardinality(Over) <= Cardinality(Turn \ {t}) /\ Cardinality(Over) \in Nat
      BY <3>1, <3>2, FS_Subset, TurnsCounted
    <3> QED
      BY <3>1, <3>3, TurnsCounted
  <2>5. Len(db) - latest[t] + 2 <= Window
    BY <2>2, <2>3, <2>4, TurnsCounted, Windows
  <2> QED
    BY <2>5 DEF Near, ShowsLast, Untroubled
<1>4. Init => Memory
  BY MemoryBegins
<1>5. IInv /\ Memory /\ [Next]_vars => Memory'
  BY MemoryStep
<1>6. Memory => ShowsLast
  BY DEF Memory, Own, Shows, ShowsLast, Running
<1> QED
  BY <1>1, <1>2, <1>3, <1>4, <1>5, <1>6, Invariance, PTL DEF Spec
-----------------------------------------------------------------------------
(***************************************************************************)
(* The tools of the finance agent, which a step of run_step executes, for  *)
(* any amounts, rates, conditions and rows.                                *)
(***************************************************************************)
CONSTANTS Backends, Amounts, Rates, Words, Wheres, MaxRows

VARIABLES backend, table, told

Finance == INSTANCE Finance

\* Reading a row again comes within a cent of what is stored, if its rate was
\* given.
Faithful(row) ==
    row.rated => \A s \in Finance!Gross(row.net, row.tax) : s - row.gross \in -1 .. 1

FinanceInv ==
    /\ Finance!TypeOK
    /\ \A i \in DOMAIN table : Faithful(table[i])
    /\ Finance!ToldWithinACent
    /\ Finance!AnswerIsRight

LEMMA RoundedNear ==
    ASSUME NEW n \in Int, NEW d \in Nat \ {0}, NEW r \in Finance!Rounded(n, d)
    PROVE  r \in Int /\ 2 * (n - d * r) <= d /\ 2 * (d * r - n) <= d
<1>1. n \div d \in Int
  OBVIOUS
<1> QED
  BY <1>1 DEF Finance!Rounded

LEMMA GrossOfInts ==
    ASSUME NEW net \in Int, NEW tax \in Int, NEW s \in Finance!Gross(net, tax)
    PROVE  s \in Int
<1>1. net * (100 + tax) \in Int
  OBVIOUS
<1> QED
  BY <1>1, RoundedNear DEF Finance!Gross

\* The two nearest cents are a cent apart.
LEMMA GrossWithinACent ==
    ASSUME NEW net \in Int, NEW tax \in Int,
           NEW r \in Finance!Gross(net, tax), NEW s \in Finance!Gross(net, tax)
    PROVE  s - r \in -1 .. 1
<1> DEFINE n == net * (100 + tax)
           q == n \div 100
<1>1. n \in Int
  OBVIOUS
<1>2. r \in {q, q + 1} /\ s \in {q, q + 1}
  BY DEF Finance!Gross, Finance!Rounded
<1> HIDE DEF n
<1>3. q \in Int
  BY <1>1
<1> HIDE DEF q
<1> QED
  BY <1>2, <1>3

\* A gross amount that goes through a rounded net amount loses a cent at most.
LEMMA GrossThroughNet ==
    ASSUME NEW gross \in Int, NEW tax \in 0 .. 100,
           NEW net \in Finance!Net(gross, tax), NEW s \in Finance!Gross(net, tax)
    PROVE  net \in Int /\ s - gross \in -1 .. 1
<1>1. gross * 100 \in Int /\ 100 + tax \in Nat \ {0}
  OBVIOUS
<1>2. /\ net \in Int
      /\ 2 * (gross * 100 - (100 + tax) * net) <= 100 + tax
      /\ 2 * ((100 + tax) * net - gross * 100) <= 100 + tax
  BY <1>1, RoundedNear DEF Finance!Net
<1> DEFINE p == net * (100 + tax)
<1>3. p \in Int /\ (100 + tax) * net = p
  BY <1>2
<1>4. s \in Finance!Rounded(p, 100)
  BY DEF Finance!Gross
<1> HIDE DEF p
<1>5. s \in Int /\ 2 * (p - 100 * s) <= 100 /\ 2 * (100 * s - p) <= 100
  BY <1>3, <1>4, RoundedNear
<1>6. 2 * (gross * 100 - p) <= 200 /\ 2 * (p - gross * 100) <= 200
  BY <1>2, <1>3
<1>7. 200 * (gross - s) <= 300 /\ 200 * (s - gross) <= 300
  BY <1>3, <1>5, <1>6
<1> QED
  BY <1>2, <1>5, <1>7

LEMMA ArgumentsTyped ==
    ASSUME Finance!FinanceAssumption, NEW a \in Finance!Arguments
    PROVE  /\ "net" \in DOMAIN a => a["net"] \in Nat
           /\ "gross" \in DOMAIN a => a["gross"] \in Nat
           /\ "tax" \in DOMAIN a => a["tax"] \in 0 .. 100
<1>1. \A k \in DOMAIN a : IF k = "tax" THEN a[k] \in Rates ELSE a[k] \in Amounts
  BY DEF Finance!Arguments
<1> QED
  BY <1>1 DEF Finance!FinanceAssumption

\* What an amount comes to is a number, and read again is the same to a cent.
LEMMA ValidatedFaithful ==
    ASSUME Finance!FinanceAssumption, NEW a \in Finance!Arguments,
           NEW v \in Finance!Validated(a)
    PROVE  /\ v.net \in Int /\ v.gross \in Int /\ v.tax \in Int
           /\ "tax" \in DOMAIN a =>
                 \A s \in Finance!Gross(v.net, v.tax) : s - v.gross \in -1 .. 1
<1>0. /\ "net" \in DOMAIN a => a["net"] \in Nat
      /\ "gross" \in DOMAIN a => a["gross"] \in Nat
      /\ "tax" \in DOMAIN a => a["tax"] \in 0 .. 100
  BY ArgumentsTyped
<1>1. CASE {"net", "tax"} \subseteq DOMAIN a
  <2>1. PICK g \in Finance!Gross(a["net"], a["tax"]) :
            v = [net |-> a["net"], gross |-> g, tax |-> a["tax"]]
    BY <1>1 DEF Finance!Validated
  <2>2. a["net"] \in Int /\ a["tax"] \in Int
    BY <1>0, <1>1
  <2>3. g \in Int
    BY <2>2, GrossOfInts
  <2>4. \A s \in Finance!Gross(a["net"], a["tax"]) : s - g \in -1 .. 1
    BY <2>2, GrossWithinACent
  <2> QED
    BY <2>1, <2>2, <2>3, <2>4
<1>2. CASE ~ ({"net", "tax"} \subseteq DOMAIN a) /\ {"gross", "tax"} \subseteq DOMAIN a
  <2>1. PICK n \in Finance!Net(a["gross"], a["tax"]) :
            v = [net |-> n, gross |-> a["gross"], tax |-> a["tax"]]
    BY <1>2 DEF Finance!Validated
  <2>2. a["gross"] \in Int /\ a["tax"] \in 0 .. 100
    BY <1>0, <1>2
  <2>3. 100 + a["tax"] \in Nat \ {0} /\ a["gross"] * 100 \in Int
    BY <2>2
  <2>4. n \in Int
    BY <2>3, RoundedNear DEF Finance!Net
  <2>5. \A s \in Finance!Gross(n, a["tax"]) : s - a["gross"] \in -1 .. 1
    BY <2>2, GrossThroughNet
  <2> QED
    BY <2>1, <2>2, <2>4, <2>5
<1>3. CASE ~ ({"net", "tax"} \subseteq DOMAIN a) /\ ~ ({"gross", "tax"} \subseteq DOMAIN a)
  <2>1. {"net", "gross"} \subseteq DOMAIN a
    BY <1>3 DEF Finance!Validated
  <2>2. PICK t \in Finance!Tax(a["net"], a["gross"]) :
            v = [net |-> a["net"], gross |-> a["gross"], tax |-> t]
    BY <1>3, <2>1 DEF Finance!Validated
  <2>3. a["net"] \in Nat /\ a["gross"] \in Nat
    BY <1>0, <2>1
  <2>4. a["net"] # 0
    BY <2>2 DEF Finance!Tax
  <2>5. t \in Finance!Rounded((a["gross"] - a["net"]) * 100, a["net"])
    BY <2>2, <2>4 DEF Finance!Tax
  <2>6. (a["gross"] - a["net"]) * 100 \in Int /\ a["net"] \in Nat \ {0}
    BY <2>3, <2>4
  <2>7. t \in Int
    BY <2>5, <2>6, RoundedNear
  <2>8. "tax" \notin DOMAIN a
    BY <1>3, <2>1
  <2> QED
    BY <2>2, <2>3, <2>7, <2>8
<1> QED
  BY <1>1, <1>2, <1>3

\* A row is read as if its net amount and its rate had been given.
LEMMA ShownOfRow ==
    ASSUME NEW row \in Finance!Row, NEW s \in Finance!Shown(row)
    PROVE  s \in Int /\ s \in Finance!Gross(row.net, row.tax)
<1> DEFINE a == [k \in Finance!AmountOf |-> row[k]]
<1>1. PICK v \in Finance!Validated(a) : s = v.gross
  BY DEF Finance!Shown
<1>2. {"net", "tax"} \subseteq DOMAIN a /\ a["net"] = row.net /\ a["tax"] = row.tax
  BY DEF Finance!AmountOf
<1> HIDE DEF a
<1>3. PICK g \in Finance!Gross(row.net, row.tax) :
          v = [net |-> row.net, gross |-> g, tax |-> row.tax]
  BY <1>1, <1>2 DEF Finance!Validated
<1>4. s = g
  BY <1>1, <1>3
<1> QED
  BY <1>4, GrossOfInts DEF Finance!Row

\* What is shown of a faithful row is close to it.
LEMMA ShownClose ==
    ASSUME NEW row \in Finance!Row, Faithful(row), NEW s \in Finance!Shown(row)
    PROVE  s \in Int /\ Finance!Close(s, row)
BY ShownOfRow DEF Faithful, Finance!Close

-----------------------------------------------------------------------------
(***************************************************************************)
(* What a condition is read as.                                            *)
(***************************************************************************)
Comparison(c) == Finance!WellSpelled(c) \/ c.form \in {"and", "or"}

LEMMA ReadRight ==
    ASSUME Finance!FinanceAssumption, NEW where \in Wheres, NEW c \in where,
           Comparison(c), Finance!Read(c) # Finance!Refused
    PROVE  Finance!Read(c) = c.operator
<1>1. /\ c.style \in {"statement", "list", "sql", "mongo", "plain"}
      /\ c.style = "plain" => c.operator = "eq"
      /\ c.form \in {"and", "or"} => c.style = "sql"
  BY DEF Finance!FinanceAssumption
<1>2. \A form : Finance!Statement(form, c.operator) \in {c.operator, Finance!Refused}
  BY DEF Finance!Statement
<1>3. CASE c.style = "statement"
  BY <1>2, <1>3 DEF Finance!Read
<1>4. CASE c.style = "list"
  BY <1>2, <1>4 DEF Finance!Read, Finance!ListItem
<1>5. CASE c.style = "sql"
  BY <1>5 DEF Finance!Read, Finance!Sql
<1>6. CASE c.style = "mongo"
  <2>1. c.form = "dollar"
    BY <1>1, <1>6 DEF Comparison, Finance!WellSpelled
  <2>2. Finance!Read(c) = Finance!Statement("word", c.operator)
    BY <1>6, <2>1 DEF Finance!Read, Finance!Mongo
  <2> QED
    BY <1>2, <2>2
<1>7. CASE c.style = "plain"
  BY <1>1, <1>7 DEF Finance!Read
<1> QED
  BY <1>1, <1>3, <1>4, <1>5, <1>6, <1>7

\* What a comparison asks for, and what its first half is.
LEMMA AsksFor ==
    ASSUME NEW c, NEW row
    PROVE  LET First == Finance!Compare(row[c.column], c.operator, c.value)
           IN  /\ Finance!WellSpelled(c) => (Finance!Asks(row, c) <=> First)
               /\ c.form = "or" /\ First => Finance!Asks(row, c)
               /\ c.form = "and" /\ Finance!Asks(row, c) => First
<1>1. CASE Finance!WellSpelled(c)
  <2>1. c.form \in {"symbol", "word", "dollar"}
    BY <1>1 DEF Finance!WellSpelled
  <2> QED
    BY <2>1 DEF Finance!Asks
<1>2. CASE ~ Finance!WellSpelled(c)
  BY <1>2 DEF Finance!Asks
<1> QED
  BY <1>1, <1>2

\* If nothing is refused, a comparison is executed as its first half was asked.
LEMMA ParsedRight ==
    ASSUME Finance!FinanceAssumption, NEW where \in Wheres, NEW row,
           ~ \E e \in Finance!Parse(where) : e.operator = Finance!Refused,
           \A c \in where : Comparison(c) \/ c.form = "hidden"
    PROVE  (\A e \in Finance!Parse(where) :
                Finance!Compare(row[e.column], e.operator, e.value))
           <=> \A c \in where : Comparison(c) =>
                Finance!Compare(row[c.column], c.operator, c.value)
<1> DEFINE Parsed(c) ==
        [column   |-> IF c.form = "not" /\ c.operator = "ct" THEN "not" ELSE c.column,
         operator |-> Finance!Read(c), value |-> Finance!Value(c), clean |-> c.form # "loose"]
<1>1. /\ \A c \in where : c.form # "hidden" => Parsed(c) \in Finance!Parse(where)
      /\ \A e \in Finance!Parse(where) : \E c \in where : c.form # "hidden" /\ e = Parsed(c)
  BY DEF Finance!Parse
<1>2. ASSUME NEW c \in where, c.form # "hidden"
      PROVE  /\ Parsed(c).column = c.column /\ Parsed(c).operator = c.operator
             /\ Parsed(c).value = c.value
  <2>1. Comparison(c) /\ c.form \notin {"not", "loose"}
    BY <1>2 DEF Comparison, Finance!WellSpelled
  <2>2. Parsed(c).operator # Finance!Refused
    BY <1>1, <1>2
  <2>3. Finance!Read(c) = c.operator
    BY <2>1, <2>2, ReadRight
  <2> QED
    BY <2>1, <2>3 DEF Finance!Value
<1>3. \A c \in where : Comparison(c) <=> c.form # "hidden"
  BY DEF Comparison, Finance!WellSpelled
<1> HIDE DEF Parsed
<1> QED
  BY <1>1, <1>2, <1>3

LEMMA MatchingRight ==
    ASSUME Finance!FinanceAssumption, NEW where \in Wheres,
           ~ \E e \in Finance!Parse(where) : e.operator = Finance!Refused
    PROVE  /\ (\A c \in where : Finance!WellSpelled(c) \/ c.form = "or") =>
                  Finance!Matching(Finance!Parse(where)) \subseteq Finance!AskedFor(where)
           /\ (\A c \in where : Finance!WellSpelled(c) \/ c.form \in {"and", "hidden"}) =>
                  Finance!AskedFor(where) \subseteq Finance!Matching(Finance!Parse(where))
<1>1. ASSUME \A c \in where : Finance!WellSpelled(c) \/ c.form = "or",
             NEW i \in Finance!Matching(Finance!Parse(where))
      PROVE  i \in Finance!AskedFor(where)
  <2>1. /\ i \in DOMAIN table
        /\ \A e \in Finance!Parse(where) : Finance!Compare(table[i][e.column], e.operator, e.value)
    BY <1>1 DEF Finance!Matching
  <2>2. \A c \in where : Comparison(c)
    BY <1>1 DEF Comparison
  <2>3. \A c \in where : Finance!Compare(table[i][c.column], c.operator, c.value)
    BY <2>1, <2>2, ParsedRight
  <2>4. \A c \in where : Finance!Asks(table[i], c)
    BY <1>1, <2>3, AsksFor
  <2> QED
    BY <2>1, <2>4 DEF Finance!AskedFor
<1>2. ASSUME \A c \in where : Finance!WellSpelled(c) \/ c.form \in {"and", "hidden"},
             NEW i \in Finance!AskedFor(where)
      PROVE  i \in Finance!Matching(Finance!Parse(where))
  <2>1. i \in DOMAIN table /\ \A c \in where : Finance!Asks(table[i], c)
    BY <1>2 DEF Finance!AskedFor
  <2>2. \A c \in where : Comparison(c) \/ c.form = "hidden"
    BY <1>2 DEF Comparison
  <2>3. \A c \in where : Comparison(c) => Finance!WellSpelled(c) \/ c.form = "and"
    BY <1>2 DEF Comparison, Finance!WellSpelled
  <2>4. \A c \in where : Comparison(c) => Finance!Compare(table[i][c.column], c.operator, c.value)
    BY <2>1, <2>3, AsksFor
  <2> QED
    BY <2>1, <2>2, <2>4, ParsedRight DEF Finance!Matching
<1> QED
  BY <1>1, <1>2

-----------------------------------------------------------------------------
(***************************************************************************)
(* The actions.                                                            *)
(***************************************************************************)
LEMMA InsertedFaithful ==
    ASSUME Finance!FinanceAssumption, FinanceInv,
           NEW a \in Finance!Arguments, NEW d \in SUBSET Words, Finance!Insert(a, d)
    PROVE  /\ backend' \in Backends
           /\ table' \in Seq(Finance!Row) /\ Len(table') <= MaxRows
           /\ Len(table') \in DOMAIN table'
           /\ \A i \in DOMAIN table' : Faithful(table'[i])
<1>1. PICK v \in Finance!Validated(a) :
          table' = Append(table, [net |-> v.net, gross |-> v.gross, tax |-> v.tax,
                                  description |-> d, rated |-> "tax" \in DOMAIN a])
  BY DEF Finance!Insert
<1> DEFINE row == [net |-> v.net, gross |-> v.gross, tax |-> v.tax,
                   description |-> d, rated |-> "tax" \in DOMAIN a]
<1>2. row \in Finance!Row
  BY ValidatedFaithful DEF Finance!Row
<1>3. Faithful(row)
  BY ValidatedFaithful DEF Faithful
<1> HIDE DEF row
<1>4. table' = Append(table, row)
  BY <1>1 DEF row
<1>5. table \in Seq(Finance!Row) /\ Len(table) < MaxRows /\ MaxRows \in Nat
  BY DEF FinanceInv, Finance!TypeOK, Finance!Insert, Finance!FinanceAssumption
<1>6. /\ table' \in Seq(Finance!Row) /\ Len(table') = Len(table) + 1
      /\ \A i \in 1 .. Len(table) : table'[i] = table[i]
      /\ table'[Len(table) + 1] = row
  BY <1>2, <1>4, <1>5
<1>7. \A i \in DOMAIN table' : Faithful(table'[i])
  BY <1>3, <1>5, <1>6 DEF FinanceInv
<1>8. backend' \in Backends
  BY DEF FinanceInv, Finance!TypeOK, Finance!Insert
<1> QED
  BY <1>5, <1>6, <1>7, <1>8

LEMMA AddStep ==
    ASSUME Finance!FinanceAssumption, FinanceInv,
           NEW a \in Finance!Arguments, NEW d \in SUBSET Words, Finance!Add(a, d)
    PROVE  FinanceInv'
<1>1. /\ backend' \in Backends
      /\ table' \in Seq(Finance!Row) /\ Len(table') <= MaxRows
      /\ Len(table') \in DOMAIN table'
      /\ \A i \in DOMAIN table' : Faithful(table'[i])
  BY InsertedFaithful DEF Finance!Add
<1>2. PICK g \in Finance!Shown(table'[Len(table')]) :
          told' = [kind |-> "added", row |-> Len(table'), gross |-> g]
  BY DEF Finance!Add
<1>3. table'[Len(table')] \in Finance!Row /\ Faithful(table'[Len(table')])
  BY <1>1
<1>4. g \in Int /\ Finance!Close(g, table'[Len(table')])
  BY <1>3, ShownClose
<1>5. /\ told'.kind = "added" /\ told'.row = Len(table') /\ told'.gross = g
  BY <1>2
<1>6. Finance!TypeOK'
  BY <1>1, <1>4, <1>5 DEF Finance!TypeOK
<1>7. Finance!ToldWithinACent'
  BY <1>4, <1>5 DEF Finance!ToldWithinACent, Finance!Close
<1>8. Finance!AnswerIsRight'
  BY <1>5 DEF Finance!AnswerIsRight
<1>9. \A i \in DOMAIN table' : Faithful(table[i])'
  BY <1>1 DEF Faithful
<1> QED
  BY <1>6, <1>7, <1>8, <1>9 DEF FinanceInv

\* What failed or raised says nothing about the rows.
LEMMA SaysNothing ==
    ASSUME backend' \in Backends,
           table' \in Seq(Finance!Row), Len(table') <= MaxRows,
           \A i \in DOMAIN table' : Faithful(table'[i]),
           told' \in {Finance!Failed, Finance!Raised}
    PROVE  FinanceInv'
<1>1. told'.kind \notin {"added", "found"}
  BY DEF Finance!Failed, Finance!Raised
<1>2. Finance!TypeOK'
  BY DEF Finance!TypeOK, Finance!Failed, Finance!Raised
<1>3. Finance!ToldWithinACent' /\ Finance!AnswerIsRight'
  BY <1>1 DEF Finance!ToldWithinACent, Finance!AnswerIsRight
<1>4. \A i \in DOMAIN table' : Faithful(table[i])'
  BY DEF Faithful
<1> QED
  BY <1>2, <1>3, <1>4 DEF FinanceInv

\* The rows and the backend as they were.
LEMMA RowsStay ==
    ASSUME FinanceInv, UNCHANGED <<backend, table>>
    PROVE  /\ backend' \in Backends
           /\ table' \in Seq(Finance!Row) /\ Len(table') <= MaxRows
           /\ \A i \in DOMAIN table' : Faithful(table'[i])
BY DEF FinanceInv, Finance!TypeOK

\* What is shown of the rows that were found.
LEMMA DisplayClose ==
    ASSUME FinanceInv, NEW rows \in SUBSET DOMAIN table, NEW columns,
           NEW f \in Finance!Display(rows, columns)
    PROVE  /\ DOMAIN f = rows /\ f \in [rows -> Int]
           /\ \A i \in rows : Finance!Close(f[i], table[i])
<1>0. \A i \in rows : table[i] \in Finance!Row /\ Faithful(table[i])
  BY DEF FinanceInv, Finance!TypeOK
<1>1. CASE columns = {"*"}
  <2>1. /\ f \in [rows -> UNION {Finance!Shown(table[i]) : i \in rows}]
        /\ \A i \in rows : f[i] \in Finance!Shown(table[i])
    BY <1>1 DEF Finance!Display
  <2>2. \A i \in rows : f[i] \in Int /\ Finance!Close(f[i], table[i])
    BY <1>0, <2>1, ShownClose
  <2> QED
    BY <2>1, <2>2
<1>2. CASE columns # {"*"}
  <2>1. f = [i \in rows |-> table[i].gross]
    BY <1>2 DEF Finance!Display
  <2>2. \A i \in rows : f[i] \in Int /\ f[i] - table[i].gross = 0
    BY <1>0, <2>1 DEF Finance!Row
  <2> QED
    BY <2>1, <2>2 DEF Finance!Close
<1> QED
  BY <1>1, <1>2

LEMMA QueryStep ==
    ASSUME Finance!FinanceAssumption, FinanceInv,
           NEW where \in Wheres, NEW columns, Finance!Query(where, columns)
    PROVE  FinanceInv'
<1> DEFINE conditions == Finance!Parse(where)
           rows == Finance!Matching(conditions)
<1>0. UNCHANGED <<backend, table>>
  BY DEF Finance!Query
<1>1. /\ backend' \in Backends
      /\ table' \in Seq(Finance!Row) /\ Len(table') <= MaxRows
      /\ \A i \in DOMAIN table' : Faithful(table'[i])
  BY <1>0, RowsStay
<1>2. \/ told' \in {Finance!Failed, Finance!Raised}
      \/ /\ ~ \E c \in conditions : c.operator = Finance!Refused
         /\ \E f \in Finance!Display(rows, columns) :
               told' = [kind |-> "found", where |-> where, shown |-> f]
  BY DEF Finance!Query
<1>3. CASE told' \in {Finance!Failed, Finance!Raised}
  BY <1>1, <1>3, SaysNothing
<1>4. CASE /\ ~ \E c \in conditions : c.operator = Finance!Refused
           /\ \E f \in Finance!Display(rows, columns) :
                 told' = [kind |-> "found", where |-> where, shown |-> f]
  <2>1. PICK f \in Finance!Display(rows, columns) :
            told' = [kind |-> "found", where |-> where, shown |-> f]
    BY <1>4
  <2>2. rows \in SUBSET DOMAIN table
    BY DEF Finance!Matching
  <2>3. /\ DOMAIN f = rows /\ f \in [rows -> Int]
        /\ \A i \in rows : Finance!Close(f[i], table[i])
    BY <2>2, DisplayClose
  <2>4. /\ (\A c \in where : Finance!WellSpelled(c) \/ c.form = "or") =>
               rows \subseteq Finance!AskedFor(where)
        /\ (\A c \in where : Finance!WellSpelled(c) \/ c.form \in {"and", "hidden"}) =>
               Finance!AskedFor(where) \subseteq rows
    BY <1>4, MatchingRight
  <2> HIDE DEF rows, conditions
  <2>5. told'.kind = "found" /\ told'.where = where /\ told'.shown = f
    BY <2>1
  <2>6. Finance!TypeOK'
    BY <1>0, <1>1, <2>2, <2>3, <2>5 DEF Finance!TypeOK
  <2>7. Finance!ToldWithinACent'
    BY <1>0, <2>3, <2>5 DEF Finance!ToldWithinACent
  <2>8. Finance!AskedFor(where)' = Finance!AskedFor(where)
    BY <1>0 DEF Finance!AskedFor
  <2>9. Finance!AnswerIsRight'
    BY <2>3, <2>4, <2>5, <2>8 DEF Finance!AnswerIsRight
  <2>10. \A i \in DOMAIN table' : Faithful(table[i])'
    BY <1>1 DEF Faithful
  <2> QED
    BY <2>6, <2>7, <2>9, <2>10 DEF FinanceInv
<1> QED
  BY <1>2, <1>3, <1>4

\* Every step of the finance tools keeps the invariant.
LEMMA FinanceStep ==
    ASSUME Finance!FinanceAssumption, FinanceInv, [Finance!Next]_(Finance!vars)
    PROVE  FinanceInv'
<1>1. ASSUME NEW a \in Finance!Arguments, NEW d \in SUBSET Words, Finance!Add(a, d)
      PROVE  FinanceInv'
  BY <1>1, AddStep
<1>2. ASSUME NEW a \in Finance!Arguments, NEW d \in SUBSET Words, Finance!AddLost(a, d)
      PROVE  FinanceInv'
  <2>1. /\ backend' \in Backends
        /\ table' \in Seq(Finance!Row) /\ Len(table') <= MaxRows
        /\ \A i \in DOMAIN table' : Faithful(table'[i])
    BY <1>2, InsertedFaithful DEF Finance!AddLost
  <2>2. told' \in {Finance!Failed, Finance!Raised}
    BY <1>2 DEF Finance!AddLost
  <2> QED
    BY <2>1, <2>2, SaysNothing
<1>3. ASSUME told' = Finance!Failed, UNCHANGED <<backend, table>>
      PROVE  FinanceInv'
  <2>1. /\ backend' \in Backends
        /\ table' \in Seq(Finance!Row) /\ Len(table') <= MaxRows
        /\ \A i \in DOMAIN table' : Faithful(table'[i])
    BY <1>3, RowsStay
  <2> QED
    BY <1>3, <2>1, SaysNothing
<1>4. ASSUME NEW a \in Finance!Arguments, Finance!AddRefused(a)
      PROVE  FinanceInv'
  BY <1>3, <1>4 DEF Finance!AddRefused
<1>5. ASSUME Finance!UnknownTable
      PROVE  FinanceInv'
  BY <1>3, <1>5 DEF Finance!UnknownTable
<1>6. ASSUME NEW where \in Wheres, NEW columns, Finance!Query(where, columns)
      PROVE  FinanceInv'
  BY <1>6, QueryStep
<1>7. CASE UNCHANGED Finance!vars
  BY <1>7 DEF Finance!vars, FinanceInv, Faithful, Finance!TypeOK, Finance!ToldWithinACent,
              Finance!Close, Finance!AnswerIsRight, Finance!AskedFor
<1> QED
  BY <1>1, <1>2, <1>4, <1>5, <1>6, <1>7 DEF Finance!Next

LEMMA FinanceStart ==
    ASSUME Finance!FinanceAssumption, Finance!Init
    PROVE  FinanceInv
<1>1. table = <<>> /\ told = Finance!Nothing /\ told.kind = "nothing" /\ backend \in Backends
  BY DEF Finance!Init, Finance!Nothing
<1>2. Finance!TypeOK
  BY <1>1 DEF Finance!TypeOK, Finance!FinanceAssumption
<1> QED
  BY <1>1, <1>2 DEF FinanceInv, Finance!ToldWithinACent, Finance!AnswerIsRight

LEMMA FinanceInvariant ==
    ASSUME Finance!FinanceAssumption
    PROVE  Finance!Spec => []FinanceInv
<1>1. Finance!Init => FinanceInv
  BY FinanceStart
<1>2. FinanceInv /\ [Finance!Next]_(Finance!vars) => FinanceInv'
  BY FinanceStep
<1> QED
  BY <1>1, <1>2, PTL DEF Finance!Spec

(***************************************************************************)
(* Type correctness of the finance tools, for any amounts, rates,          *)
(* questions and number of rows: what is told of a row is a number.        *)
(***************************************************************************)
THEOREM FinanceTypeCorrect ==
    ASSUME Finance!FinanceAssumption
    PROVE  Finance!Spec => []Finance!TypeOK
<1>1. FinanceInv => Finance!TypeOK
  BY DEF FinanceInv
<1> QED
  BY <1>1, FinanceInvariant, PTL

(***************************************************************************)
(* For any amounts and any rates up to a hundred percent, what AddExpense, *)
(* AddRevenue and a query tell of a row whose rate was given is within a   *)
(* cent of its gross amount, though ExpenseCreate rounds the net amount,   *)
(* and Expense the gross amount once more when the row is read.            *)
(***************************************************************************)
THEOREM FinanceToldWithinACent ==
    ASSUME Finance!FinanceAssumption
    PROVE  Finance!Spec => []Finance!ToldWithinACent
<1>1. FinanceInv => Finance!ToldWithinACent
  BY DEF FinanceInv
<1> QED
  BY <1>1, FinanceInvariant, PTL

(***************************************************************************)
(* For any conditions on any table, and on either backend: a query that is *)
(* answered is answered with the rows that were asked for if it is well    *)
(* spelled, with no other rows if of some conditions only an alternative   *)
(* was read, and with no fewer if conditions were ignored.  In every style *)
(* QueryConfig reads the operator of a comparison as what it means, or not *)
(* at all.                                                                 *)
(***************************************************************************)
THEOREM FinanceAnswerIsRight ==
    ASSUME Finance!FinanceAssumption
    PROVE  Finance!Spec => []Finance!AnswerIsRight
<1>1. FinanceInv => Finance!AnswerIsRight
  BY DEF FinanceInv
<1> QED
  BY <1>1, FinanceInvariant, PTL
=============================================================================
