---------------------------- MODULE SessionProofs ---------------------------
(***************************************************************************)
(* Theorems about Session, for any number of messages, of other calls and  *)
(* of executions, on both backends.                                        *)
(***************************************************************************)
EXTENDS Session, FiniteSetTheorems, WellFoundedInduction, TLAPS

-----------------------------------------------------------------------------
(***************************************************************************)
(* The newest of some rows is one of them: a nonempty set of positions of  *)
(* a sequence has a greatest element, because the distance to the end has  *)
(* a least one.                                                            *)
(***************************************************************************)
LEMMA NewestIsThere ==
    ASSUME NEW n \in Nat, NEW S, S \subseteq 1 .. n, S # {}
    PROVE  Newest(S) \in S
<1> DEFINE Distance == {n - i : i \in S}
<1>1. Distance \subseteq Nat /\ Distance # {}
  <2>1. \A i \in S : n - i \in Nat
    OBVIOUS
  <2>2. \E i \in S : n - i \in Distance
    BY Zenon
  <2> QED
    BY <2>1, <2>2
<1> HIDE DEF Distance
<1>2. PICK d \in Distance : \A e \in Distance : ~ (<<e, d>> \in OpToRel(<, Nat))
  BY <1>1, NatLessThanWellFounded, WFMin, Zenon
<1>3. \A e \in Distance : ~ (e < d)
  BY <1>1, <1>2 DEF OpToRel
<1>4. \E i \in S : \A j \in S : j <= i
  <2>1. PICK i \in S : d = n - i
    BY DEF Distance
  <2>2. ASSUME NEW j \in S PROVE j <= i
    <3>1. n - j \in Distance
      BY DEF Distance
    <3> QED BY <3>1, <2>1, <1>3
  <2> QED BY <2>2
<1> QED
  BY <1>4 DEF Newest

-----------------------------------------------------------------------------
(***************************************************************************)
(* A row written in place stays a row, and no position is added or lost.   *)
(***************************************************************************)
LEMMA RowWritten ==
    ASSUME TypeOK, NEW i \in DOMAIN convs,
           NEW s \in Status, NEW v \in Nat, NEW e \in BOOLEAN,
           convs' = [convs EXCEPT ![i] = [@ EXCEPT !.status = s, !.version = v,
                                                   !.expired = e]]
    PROVE  convs' \in Seq(Conv) /\ Len(convs') = Len(convs)
<1>1. convs \in Seq(Conv) /\ DOMAIN convs = 1 .. Len(convs) /\ convs[i] \in Conv
  BY DEF TypeOK
<1>2. [convs[i] EXCEPT !.status = s, !.version = v, !.expired = e] \in Conv
  BY <1>1 DEF Conv
<1> QED
  BY <1>1, <1>2

(***************************************************************************)
(* A failed execution leaves the counter below the bound.                  *)
(***************************************************************************)
LEMMA FailTyped ==
    ASSUME TypeOK, NEW m \in Message, Fail(m)
    PROVE  /\ pc' \in [Message -> PC]
           /\ attempts' \in [Message -> 0 .. MaxAttempts - 1]
           /\ pc'[m] \in {"find", "dead"}
           /\ \A n \in Message \ {m} : pc'[n] = pc[n]
<1>1. /\ pc \in [Message -> PC] /\ attempts \in [Message -> 0 .. MaxAttempts - 1]
      /\ MaxAttempts \in Nat
  BY SessionAssumption DEF TypeOK
<1>2. CASE attempts[m] + 1 < MaxAttempts
  <2>1. attempts' = [attempts EXCEPT ![m] = @ + 1] /\ pc' = [pc EXCEPT ![m] = "find"]
    BY <1>2 DEF Fail, Goto
  <2> QED
    BY <1>1, <1>2, <2>1 DEF PC
<1>3. CASE ~(attempts[m] + 1 < MaxAttempts)
  <2>1. attempts' = attempts /\ pc' = [pc EXCEPT ![m] = "dead"]
    BY <1>3 DEF Fail, Goto
  <2> QED
    BY <1>1, <2>1 DEF PC
<1> QED
  BY <1>2, <1>3

LEMMA NextVersionTyped == \A v \in Nat : NextVersion(v) \in Nat
BY DEF NextVersion

(***************************************************************************)
(* What a handler finds is a row, and the object it keeps is one.          *)
(***************************************************************************)
LEMMA FoundIsRow ==
    ASSUME TypeOK, NEW S, S \subseteq DOMAIN convs, S # {}
    PROVE  /\ Newest(S) \in 1 .. Len(convs)
           /\ [status |-> convs[Newest(S)].status,
               expired |-> convs[Newest(S)].expired] \in Object
           /\ convs[Newest(S)].expired \in BOOLEAN
           /\ [status |-> convs[Newest(S)].status,
               expired |-> convs[Newest(S)].expired] # NoObject
<1>1. convs \in Seq(Conv) /\ DOMAIN convs = 1 .. Len(convs) /\ Len(convs) \in Nat
  BY DEF TypeOK
<1>2. Newest(S) \in S
  BY <1>1, NewestIsThere, Zenon
<1>3. convs[Newest(S)] \in Conv
  BY <1>1, <1>2
<1>4. "none" \notin Status
  BY DEF Status, ActiveStatuses, PausedStatuses, ClosedStatuses
<1> QED
  BY <1>1, <1>2, <1>3, <1>4 DEF Conv, Object, NoObject

-----------------------------------------------------------------------------
LEMMA InitTyped == Init => TypeOK
<1> SUFFICES ASSUME Init PROVE TypeOK
  OBVIOUS
<1>1. First \subseteq Conv
  BY DEF First, Conv
<1>2. convs \in Seq(Conv)
  <2>1. convs = <<>> \/ \E c \in First : convs = <<c>>
    BY DEF Init
  <2>2. CASE convs = <<>>
    BY <2>2
  <2>3. ASSUME NEW c \in First, convs = <<c>> PROVE convs \in Seq(Conv)
    BY <1>1, <2>3
  <2> QED
    BY <2>1, <2>2, <2>3
<1> QED
  BY <1>2, SessionAssumption DEF Init, TypeOK, PC

(***************************************************************************)
(* Every step keeps the types.                                             *)
(***************************************************************************)
LEMMA StepTyped == TypeOK /\ [Next]_vars => TypeOK'
<1> SUFFICES ASSUME TypeOK, [Next]_vars PROVE TypeOK'
  OBVIOUS
<1>0. convs \in Seq(Conv) /\ DOMAIN convs = 1 .. Len(convs) /\ Len(convs) \in Nat
  BY DEF TypeOK
<1>1. ASSUME NEW m \in Message, FindActive(m) PROVE TypeOK'
  <2>1. ActiveWith(SessionKey(form[m])) \subseteq DOMAIN convs
    BY DEF ActiveWith
  <2>2. CASE ActiveWith(SessionKey(form[m])) = {}
    BY <1>1, <2>2 DEF FindActive, Goto, TypeOK, PC
  <2>3. CASE ActiveWith(SessionKey(form[m])) # {}
    <3> DEFINE i == Newest(ActiveWith(SessionKey(form[m])))
               o == [status |-> convs[i].status, expired |-> convs[i].expired]
    <3>1. i \in 1 .. Len(convs) /\ o \in Object /\ o # NoObject
      BY <2>1, <2>3, FoundIsRow, Zenon
    <3>2. /\ held' = [held EXCEPT ![m] = i]
          /\ object' = [object EXCEPT ![m] = o]
          /\ pc' \in {[pc EXCEPT ![m] = "expire"], [pc EXCEPT ![m] = "served"]}
      BY <1>1, <2>3 DEF FindActive, Goto
    <3>3. UNCHANGED <<convs, form, version, attempts, rivals>>
      BY <1>1 DEF FindActive
    <3>4. pc' \in [Message -> PC] /\ \A n \in Message \ {m} : pc'[n] = pc[n]
      BY <3>2 DEF TypeOK, PC
    <3>5. /\ held' \in [Message -> 0 .. Len(convs)] /\ held'[m] # 0
          /\ \A n \in Message \ {m} : held'[n] = held[n]
      <4> HIDE DEF i, o
      <4> QED
        BY <1>0, <3>1, <3>2 DEF TypeOK
    <3>6. /\ object' \in [Message -> Object \cup {NoObject}] /\ object'[m] # NoObject
          /\ \A n \in Message \ {m} : object'[n] = object[n]
      <4> HIDE DEF i, o
      <4> QED
        BY <3>1, <3>2 DEF TypeOK
    <3> QED
      BY <3>3, <3>4, <3>5, <3>6 DEF TypeOK
  <2> QED
    BY <2>2, <2>3
<1>2. ASSUME NEW m \in Message, RefuseToExpire(m) PROVE TypeOK'
  BY <1>2, FailTyped DEF RefuseToExpire, TypeOK
<1>3. ASSUME NEW m \in Message, ReadToExpire(m) PROVE TypeOK'
  <2>1. pc[m] = "expire" /\ held[m] \in 1 .. Len(convs) /\ object[m] # NoObject
    BY <1>3 DEF ReadToExpire, TypeOK
  <2>2. convs[held[m]].version \in Nat
    <3>1. convs[held[m]] \in Conv
      BY <1>0, <2>1
    <3> QED
      BY <3>1 DEF Conv
  <2>3. UNCHANGED <<convs, form, held, object, rivals>>
    BY <1>3 DEF ReadToExpire
  <2>4. CASE Fail(m) /\ UNCHANGED version
    BY <2>3, <2>4, FailTyped DEF TypeOK
  <2>5. CASE /\ version' = [version EXCEPT ![m] = convs[held[m]].version]
             /\ Goto(m, "write")
             /\ UNCHANGED attempts
    BY <2>1, <2>2, <2>3, <2>5 DEF TypeOK, Goto, PC
  <2> QED
    BY <1>3, <2>4, <2>5 DEF ReadToExpire
<1>4. ASSUME NEW m \in Message, WriteExpired(m) PROVE TypeOK'
  <2>1. pc[m] = "write" /\ held[m] \in DOMAIN convs
    BY <1>0, <1>4 DEF WriteExpired, TypeOK
  <2>2. UNCHANGED <<form, held, object, version, rivals>>
    BY <1>4 DEF WriteExpired
  <2>3. CASE /\ convs' = [convs EXCEPT ![held[m]].status = "expired",
                                      ![held[m]].version = NextVersion(@)]
             /\ Goto(m, "create")
             /\ UNCHANGED attempts
    <3> DEFINE i == held[m]
    <3>1. convs[i] \in Conv
      BY <1>0, <2>1
    <3>2. convs' = [convs EXCEPT ![i] = [@ EXCEPT !.status = "expired",
                            !.version = NextVersion(convs[i].version),
                            !.expired = convs[i].expired]]
      BY <1>0, <2>1, <2>3, <3>1 DEF Conv
    <3>3. /\ "expired" \in Status /\ NextVersion(convs[i].version) \in Nat
          /\ convs[i].expired \in BOOLEAN
      BY <3>1, NextVersionTyped
      DEF Conv, Status, ActiveStatuses, PausedStatuses, ClosedStatuses
    <3>4. convs' \in Seq(Conv) /\ Len(convs') = Len(convs)
      BY <2>1, <3>2, <3>3, RowWritten
    <3> QED
      BY <2>2, <2>3, <3>4 DEF TypeOK, Goto, PC
  <2>4. CASE Fail(m) /\ UNCHANGED convs
    BY <2>2, <2>4, FailTyped DEF TypeOK
  <2> QED
    BY <1>4, <2>3, <2>4 DEF WriteExpired
<1>5. ASSUME NEW m \in Message, FindLast(m) PROVE TypeOK'
  <2>1. Sessions(SessionKey(form[m])) \subseteq DOMAIN convs
    BY DEF Sessions
  <2>2. CASE Sessions(SessionKey(form[m])) = {}
    <3>1. /\ held' = [held EXCEPT ![m] = 0]
          /\ object' = [object EXCEPT ![m] = NoObject]
          /\ pc' = [pc EXCEPT ![m] = "create"]
      BY <1>5, <2>2 DEF FindLast, Goto
    <3>2. UNCHANGED <<convs, form, version, attempts, rivals>>
      BY <1>5 DEF FindLast
    <3> QED
      BY <1>0, <3>1, <3>2 DEF TypeOK, PC
  <2>3. CASE Sessions(SessionKey(form[m])) # {}
    <3> DEFINE i == Newest(Sessions(SessionKey(form[m])))
               o == [status |-> convs[i].status, expired |-> convs[i].expired]
    <3>1. i \in 1 .. Len(convs) /\ o \in Object /\ o # NoObject
      BY <2>1, <2>3, FoundIsRow, Zenon
    <3>2. /\ held' = [held EXCEPT ![m] = i]
          /\ object' = [object EXCEPT ![m] = o]
          /\ pc' = [pc EXCEPT ![m] = "create"]
      BY <1>5, <2>3 DEF FindLast, Goto
    <3>3. UNCHANGED <<convs, form, version, attempts, rivals>>
      BY <1>5 DEF FindLast
    <3> HIDE DEF i, o
    <3> QED
      BY <3>1, <3>2, <3>3 DEF TypeOK, PC
  <2> QED
    BY <2>2, <2>3
<1>6. ASSUME NEW m \in Message, Create(m) PROVE TypeOK'
  <2>1. held[m] = 0 \/ object[m].status \in Status \cup {"none"}
    BY DEF TypeOK, Object, NoObject
  <2>2. NewConv(m) \in Conv
    BY <1>0, <2>1
    DEF NewConv, Conv, TypeOK, Status, ActiveStatuses, PausedStatuses, ClosedStatuses
  <2>3. convs' \in Seq(Conv) /\ Len(convs') = Len(convs) + 1
    BY <1>0, <1>6, <2>2 DEF Create
  <2> QED
    BY <1>0, <1>6, <2>3 DEF Create, Goto, TypeOK, PC
<1>7. ASSUME NEW m \in Message, CreateRefused(m) PROVE TypeOK'
  BY <1>7, FailTyped DEF CreateRefused, TypeOK
<1>8. ASSUME NEW i \in DOMAIN convs, NEW to \in Targets, OtherCall(i, to) PROVE TypeOK'
  <2>1. convs[i] \in Conv /\ to \in Status
    BY <1>0, SessionAssumption
  <2>2. convs' = [convs EXCEPT ![i] = [@ EXCEPT !.status = to,
                            !.version = NextVersion(convs[i].version),
                            !.expired = convs[i].expired]]
    BY <1>0, <1>8, <2>1 DEF OtherCall, Conv
  <2>3. convs' \in Seq(Conv) /\ Len(convs') = Len(convs)
    <3>1. NextVersion(convs[i].version) \in Nat /\ convs[i].expired \in BOOLEAN
      BY <2>1, NextVersionTyped DEF Conv
    <3> QED
      BY <2>1, <2>2, <3>1, RowWritten
  <2>4. rivals' \in Seq(Status \cup {"extended"}) /\ Len(rivals') <= MaxRivals
    BY <1>8, <2>1, SessionAssumption DEF OtherCall, TypeOK
  <2> QED
    BY <1>8, <2>3, <2>4 DEF OtherCall, TypeOK
<1>9. ASSUME NEW i \in DOMAIN convs, Extend(i) PROVE TypeOK'
  <2>1. convs[i] \in Conv
    BY <1>0
  <2>2. convs' = [convs EXCEPT ![i] = [@ EXCEPT !.status = convs[i].status,
                            !.version = convs[i].version + 1, !.expired = FALSE]]
    BY <1>0, <1>9, <2>1 DEF Extend, Conv
  <2>3. convs' \in Seq(Conv) /\ Len(convs') = Len(convs)
    <3>1. /\ convs[i].status \in Status /\ convs[i].version + 1 \in Nat
          /\ FALSE \in BOOLEAN
      BY <2>1 DEF Conv
    <3> QED
      BY <2>2, <3>1, RowWritten
  <2>4. rivals' \in Seq(Status \cup {"extended"}) /\ Len(rivals') <= MaxRivals
    BY <1>9, SessionAssumption DEF Extend, TypeOK
  <2> QED
    BY <1>9, <2>3, <2>4 DEF Extend, TypeOK
<1>10. ASSUME NEW i \in DOMAIN convs, ExpiryPasses(i) PROVE TypeOK'
  <2>1. convs[i] \in Conv
    BY <1>0
  <2>2. convs' = [convs EXCEPT ![i] = [@ EXCEPT !.status = convs[i].status,
                            !.version = convs[i].version, !.expired = TRUE]]
    BY <1>0, <1>10, <2>1 DEF ExpiryPasses, Conv
  <2>3. convs' \in Seq(Conv) /\ Len(convs') = Len(convs)
    BY <2>1, <2>2, RowWritten DEF Conv
  <2> QED
    BY <1>10, <2>3 DEF ExpiryPasses, TypeOK
<1>11. CASE UNCHANGED vars
  BY <1>11 DEF vars, TypeOK
<1> QED
  BY <1>1, <1>2, <1>3, <1>4, <1>5, <1>6, <1>7, <1>8, <1>9, <1>10, <1>11
  DEF Next, Step

(***************************************************************************)
(* Type correctness, for any number of messages, executions and calls of   *)
(* others, on both backends: what a handler holds when it expires a        *)
(* conversation is a row it read.                                          *)
(***************************************************************************)
THEOREM SessionTypeCorrect == Spec => []TypeOK
<1>1. Init => TypeOK
  BY InitTyped
<1>2. TypeOK /\ [Next]_vars => TypeOK'
  BY StepTyped
<1> QED
  BY <1>1, <1>2, PTL DEF Spec

-----------------------------------------------------------------------------
(***************************************************************************)
(* When all numbers are written with the prefix, as Twilio sends them, a   *)
(* new row links to one that is not active: the index that refuses a       *)
(* second active row looks at the spelling the lookup used, and sees what  *)
(* other messages did since.                                               *)
(***************************************************************************)
LEMMA CreateLinksToEnded ==
    ASSUME TypeOK, Form = {"prefixed"}, NEW m \in Message, Create(m),
           convs'[Len(convs')].prev # 0
    PROVE  ~IsActive(convs'[convs'[Len(convs')].prev].status)
<1>1. /\ convs \in Seq(Conv) /\ DOMAIN convs = 1 .. Len(convs) /\ Len(convs) \in Nat
      /\ held[m] \in 0 .. Len(convs) /\ form[m] = "prefixed"
  BY DEF TypeOK
<1>2. convs' = Append(convs, NewConv(m)) /\ Admits(form[m], 0)
  BY DEF Create
<1>3. Len(convs') = Len(convs) + 1 /\ convs'[Len(convs')] = NewConv(m)
  BY <1>1, <1>2
<1>4. convs'[Len(convs')].prev = held[m]
  BY <1>3 DEF NewConv
<1>5. held[m] \in DOMAIN convs /\ convs'[held[m]] = convs[held[m]]
  BY <1>1, <1>2, <1>4
<1>6. convs[held[m]].form = form[m]
  <2>1. convs[held[m]] \in Conv
    BY <1>1, <1>5
  <2> QED
    BY <1>1, <2>1 DEF Conv
<1>7. held[m] \notin ActiveWith(form[m])
  BY <1>1, <1>2, <1>5 DEF Admits
<1>8. ~IsActive(convs[held[m]].status)
  BY <1>5, <1>6, <1>7 DEF ActiveWith
<1> QED
  BY <1>4, <1>5, <1>8

(***************************************************************************)
(* However many handlers and other calls interleave, a conversation is     *)
(* opened only as the successor of one that is over or paused, if the      *)
(* numbers are prefixed: only Create adds a row.                           *)
(***************************************************************************)
THEOREM SuccessorOfTheEnded == Form = {"prefixed"} => (Spec => LinksToEnded)
<1> SUFFICES ASSUME Form = {"prefixed"} PROVE Spec => LinksToEnded
  OBVIOUS
<1> DEFINE Linked == Len(convs') > Len(convs) =>
                        LET p == convs'[Len(convs')].prev
                        IN  p # 0 => ~IsActive(convs'[p].status)
<1>1. ASSUME TypeOK, Next PROVE Linked
  <2>0. convs \in Seq(Conv) /\ Len(convs) \in Nat
    BY <1>1 DEF TypeOK
  <2>1. CASE \E m \in Message : Create(m)
    BY <1>1, <2>1, CreateLinksToEnded
  <2>2. ASSUME NEW m \in Message, Step(m), ~Create(m) PROVE Len(convs') = Len(convs)
    <3>1. CASE WriteExpired(m)
      <4>1. convs' = convs \/ convs' = [convs EXCEPT ![held[m]].status = "expired",
                                      ![held[m]].version = NextVersion(@)]
        BY <3>1 DEF WriteExpired
      <4> QED
        BY <2>0, <4>1
    <3>2. CASE ~WriteExpired(m)
      BY <2>2, <3>2
      DEF Step, FindActive, RefuseToExpire, ReadToExpire, FindLast, CreateRefused
    <3> QED
      BY <3>1, <3>2
  <2>3. ASSUME NEW i \in DOMAIN convs, NEW to \in Targets, OtherCall(i, to)
        PROVE  Len(convs') = Len(convs)
    BY <2>0, <2>3 DEF OtherCall
  <2>4. ASSUME NEW i \in DOMAIN convs, Extend(i) \/ ExpiryPasses(i)
        PROVE  Len(convs') = Len(convs)
    BY <2>0, <2>4 DEF Extend, ExpiryPasses
  <2> QED
    BY <1>1, <2>0, <2>1, <2>2, <2>3, <2>4 DEF Next
<1>2. TypeOK /\ [Next]_vars => [Linked]_convs
  BY <1>1 DEF vars
<1> QED
  BY <1>2, SessionTypeCorrect, PTL DEF Spec, LinksToEnded
-----------------------------------------------------------------------------
(***************************************************************************)
(* The failed executions of a message.  Without an agent, an execution     *)
(* fails only because of something that happened after it began: a row     *)
(* that was opened or reopened, an expiry that somebody else wrote first   *)
(* (the Postgres version moves, that of Supabase does not), another call.  *)
(* Every execution needs an event of its own, and the events are counted:  *)
(* a message opens one conversation, and expires no more than the rows     *)
(* that are open.                                                          *)
(***************************************************************************)
NoHandoff == \A i \in DOMAIN rivals : rivals[i] # "human_handoff"

Active == {i \in DOMAIN convs : IsActive(convs[i].status)}
Open   == {i \in DOMAIN convs : ~ IsClosed(convs[i].status)}

Fits ==
    /\ \A i, j \in Active : i = j
    /\ \A i \in DOMAIN convs : convs[i].status # "human_handoff"
    /\ \A m \in Message :
          /\ pc[m] = "expire" => object[m].status \in {"pending", "progress"}
          /\ pc[m] = "dead" => attempts[m] = MaxAttempts - 1

\* The row a handler is about to expire is not what it was when it was found.
Late(m) ==
    \/ Active \ {held[m]} # {}
    \/ pc[m] = "write" /\ convs[held[m]].version # version[m]
    \/ Backend = "postgres" /\ IsClosed(convs[held[m]].status)
    \/ /\ Backend = "supabase" /\ pc[m] = "expire"
       /\ ~ RepoAccepts(convs[held[m]].status, "expired")

\* What makes the execution under way fail has happened.
Doomed(m) ==
    \/ pc[m] \in {"last", "create"} /\ Active # {}
    \/ pc[m] \in {"expire", "write"} /\ Late(m)

Lost(m) == attempts[m] + (IF pc[m] = "dead" THEN 1 ELSE 0) + (IF Doomed(m) THEN 1 ELSE 0)

Served(m) == {n \in Message \ {m} : pc[n] = "served"}

Others == Cardinality(Message) - 1

\* l lost, o open, s served, r calls of the others, h other messages.
Account(l, o, s, r, h) ==
    IF Backend = "postgres"
    THEN /\ l + o <= 2 * s + r + 1
         /\ l <= 2 * h + r
    ELSE l <= s + r

RacesCounted(m) ==
    Account(Lost(m), Cardinality(Open), Cardinality(Served(m)), Len(rivals), Others)

Races == \A m \in Message : pc[m] # "served" => RacesCounted(m)

LEMMA Rows ==
    ASSUME TypeOK
    PROVE  /\ convs \in Seq(Conv) /\ Len(convs) \in Nat /\ DOMAIN convs = 1 .. Len(convs)
           /\ \A i \in DOMAIN convs :
                 /\ convs[i] \in Conv /\ convs[i].form \in Form /\ convs[i].status \in Status
                 /\ convs[i].version \in Nat /\ convs[i].expired \in BOOLEAN
<1>1. convs \in Seq(Conv) /\ Len(convs) \in Nat /\ DOMAIN convs = 1 .. Len(convs)
  BY DEF TypeOK
<1>2. \A i \in DOMAIN convs : convs[i] \in Conv
  BY <1>1
<1> QED
  BY <1>1, <1>2 DEF Conv

\* With prefixed numbers there is one session.
LEMMA OneSession ==
    ASSUME TypeOK, Form = {"prefixed"}, NEW m \in Message
    PROVE  ActiveWith(form[m]) = Active /\ ActiveWith(SessionKey(form[m])) = Active
<1>1. form[m] = "prefixed" /\ SessionKey(form[m]) = "prefixed"
  BY DEF TypeOK, SessionKey
<1>2. \A i \in DOMAIN convs : convs[i].form = "prefixed"
  BY Rows
<1> QED
  BY <1>1, <1>2 DEF ActiveWith, Active

(***************************************************************************)
(* What a step does to the rows.                                           *)
(***************************************************************************)
Writes(i, s, v) ==
    /\ i \in DOMAIN convs /\ DOMAIN convs' = DOMAIN convs
    /\ \A j \in DOMAIN convs \ {i} : convs'[j] = convs[j]
    /\ convs'[i].status = s /\ convs'[i].version = v

Adds ==
    /\ DOMAIN convs' = DOMAIN convs \cup {Len(convs) + 1} /\ Len(convs) + 1 \notin DOMAIN convs
    /\ \A j \in DOMAIN convs : convs'[j] = convs[j]
    /\ convs'[Len(convs) + 1].status = "pending"

LEMMA ExpiryWrites ==
    ASSUME TypeOK, NEW m \in Message, WriteExpired(m), convs[held[m]].version = version[m]
    PROVE  /\ Writes(held[m], "expired", NextVersion(convs[held[m]].version))
           /\ pc' = [pc EXCEPT ![m] = "create"]
           /\ UNCHANGED <<form, held, object, version, attempts, rivals>>
<1>1. /\ convs' = [convs EXCEPT ![held[m]].status = "expired",
                                ![held[m]].version = NextVersion(@)]
      /\ pc' = [pc EXCEPT ![m] = "create"]
      /\ UNCHANGED <<form, held, object, version, attempts, rivals>>
  BY DEF WriteExpired, Goto
<1>2. held[m] \in DOMAIN convs /\ convs[held[m]] \in Conv
  BY Rows DEF WriteExpired, TypeOK
<1> QED
  BY <1>1, <1>2, Rows DEF Writes, Conv

LEMMA OtherCallWrites ==
    ASSUME TypeOK, NEW i \in DOMAIN convs, NEW to \in Targets, OtherCall(i, to)
    PROVE  Writes(i, to, NextVersion(convs[i].version))
<1>1. convs' = [convs EXCEPT ![i].status = to, ![i].version = NextVersion(@)] /\ convs[i] \in Conv
  BY Rows DEF OtherCall
<1> QED
  BY <1>1, Rows DEF Writes, Conv

LEMMA ExtendWrites ==
    ASSUME TypeOK, NEW i \in DOMAIN convs, Extend(i)
    PROVE  Writes(i, convs[i].status, convs[i].version + 1)
<1>1. convs' = [convs EXCEPT ![i].expired = FALSE, ![i].version = @ + 1] /\ convs[i] \in Conv
  BY Rows DEF Extend
<1> QED
  BY <1>1, Rows DEF Writes, Conv

LEMMA ExpiryPassesWrites ==
    ASSUME TypeOK, NEW i \in DOMAIN convs, ExpiryPasses(i)
    PROVE  Writes(i, convs[i].status, convs[i].version)
<1>1. convs' = [convs EXCEPT ![i].expired = TRUE] /\ convs[i] \in Conv
  BY Rows DEF ExpiryPasses
<1> QED
  BY <1>1, Rows DEF Writes, Conv

LEMMA CreateAdds ==
    ASSUME TypeOK, NEW m \in Message, Create(m)
    PROVE  /\ Adds /\ pc' = [pc EXCEPT ![m] = "served"]
           /\ held' = [held EXCEPT ![m] = Len(convs) + 1]
           /\ UNCHANGED <<form, object, version, attempts, rivals>>
<1>1. convs' = Append(convs, NewConv(m)) /\ NewConv(m).status = "pending"
  BY DEF Create, NewConv
<1>2. Adds
  BY <1>1, Rows DEF Adds
<1> QED
  BY <1>2 DEF Create, Goto
-----------------------------------------------------------------------------
(***************************************************************************)
(* Rows: one active row, and none of an agent.                             *)
(***************************************************************************)
LEMMA RowsFitWritten ==
    ASSUME Fits, NEW i, NEW s, NEW v, Writes(i, s, v), s # "human_handoff",
           IsActive(s) => Active \subseteq {i}
    PROVE  /\ \A j, k \in Active' : j = k
           /\ \A j \in DOMAIN convs' : convs'[j].status # "human_handoff"
<1>1. \A j \in Active' : j # i => j \in Active
  BY DEF Active, Writes
<1>2. i \in Active' => IsActive(s)
  BY DEF Active, Writes
<1> QED
  BY <1>1, <1>2 DEF Fits, Writes

\* A failed execution: the counter tells how many, until the message is dead.
LEMMA FailCounts ==
    ASSUME TypeOK, NEW m \in Message, Fail(m), pc[m] # "dead", pc[m] # "served"
    PROVE  /\ attempts'[m] + (IF pc'[m] = "dead" THEN 1 ELSE 0) = attempts[m] + 1
           /\ pc'[m] = "dead" => attempts'[m] = MaxAttempts - 1
           /\ pc'[m] \in {"find", "dead"}
           /\ \A n \in Message \ {m} : pc'[n] = pc[n] /\ attempts'[n] = attempts[n]
<1>1. /\ pc \in [Message -> PC] /\ attempts \in [Message -> 0 .. MaxAttempts - 1]
      /\ MaxAttempts \in Nat \ {0} /\ attempts[m] \in 0 .. MaxAttempts - 1
  BY SessionAssumption DEF TypeOK
<1>2. CASE attempts[m] + 1 < MaxAttempts
  <2>1. attempts' = [attempts EXCEPT ![m] = @ + 1] /\ pc' = [pc EXCEPT ![m] = "find"]
    BY <1>2 DEF Fail, Goto
  <2> QED
    BY <1>1, <2>1
<1>3. CASE ~(attempts[m] + 1 < MaxAttempts)
  <2>1. attempts' = attempts /\ pc' = [pc EXCEPT ![m] = "dead"]
    BY <1>3 DEF Fail, Goto
  <2> QED
    BY <1>1, <1>3, <2>1
<1> QED
  BY <1>2, <1>3

\* What a step of one handler leaves to the others.
LEMMA OthersWait ==
    ASSUME TypeOK, NEW m \in Message, Step(m), NEW n \in Message, n # m
    PROVE  /\ pc'[n] = pc[n] /\ held'[n] = held[n] /\ object'[n] = object[n]
           /\ version'[n] = version[n] /\ attempts'[n] = attempts[n]
<1>1. /\ pc \in [Message -> PC] /\ held \in [Message -> 0 .. Len(convs)]
      /\ object \in [Message -> Object \cup {NoObject}] /\ version \in [Message -> Nat]
      /\ attempts \in [Message -> 0 .. MaxAttempts - 1]
  BY DEF TypeOK
<1>2. CASE FindActive(m) \/ FindLast(m)
  BY <1>1, <1>2 DEF FindActive, FindLast, Goto
<1>3. CASE RefuseToExpire(m) \/ CreateRefused(m)
  BY <1>1, <1>3 DEF RefuseToExpire, CreateRefused, Fail, Goto
<1>4. CASE ReadToExpire(m)
  BY <1>1, <1>4 DEF ReadToExpire, Fail, Goto
<1>5. CASE WriteExpired(m) \/ Create(m)
  BY <1>1, <1>5 DEF WriteExpired, Create, Fail, Goto
<1> QED
  BY <1>2, <1>3, <1>4, <1>5 DEF Step

(***************************************************************************)
(* An execution begins, and goes on, undisturbed: after its own step a     *)
(* handler is doomed only if it was, and its execution fails only then.    *)
(***************************************************************************)
OwnStep(m) ==
    /\ pc'[m] # "served" => Lost(m)' <= Lost(m)
    /\ pc'[m] = "expire" => object'[m].status \in {"pending", "progress"}
    /\ pc'[m] = "dead" => attempts'[m] = MaxAttempts - 1

\* When an execution fails that was doomed, nothing more is lost.
LEMMA DoomedFails ==
    ASSUME TypeOK, NEW m \in Message, Fail(m), pc[m] # "dead", pc[m] # "served", Doomed(m)
    PROVE  OwnStep(m)
<1>1. ~ Doomed(m)'
  BY FailCounts DEF Doomed
<1>2. attempts[m] \in Nat
  BY DEF TypeOK
<1> QED
  BY <1>1, <1>2, FailCounts DEF OwnStep, Lost

\* The statuses of an open row without an agent.
LEMMA ActiveWithoutAgent ==
    \A s : IsActive(s) /\ s # "human_handoff" =>
               /\ s \in {"pending", "progress"} /\ ~ IsClosed(s)
               /\ IsValidTransition(s, "expired") /\ RepoAccepts(s, "expired")
<1> SUFFICES ASSUME NEW s \in {"pending", "progress"}
             PROVE  ~ IsClosed(s) /\ IsValidTransition(s, "expired") /\ RepoAccepts(s, "expired")
  BY DEF IsActive, ActiveStatuses
<1>1. "expired" \in ValidTransitions[s] /\ "expired" \in RepoValidNext[s]
  BY DEF ValidTransitions, RepoValidNext, Status, ActiveStatuses, PausedStatuses, ClosedStatuses
<1> QED
  BY <1>1 DEF IsValidTransition, RepoAccepts, IsClosed, ClosedStatuses

LEMMA FindActiveOwn ==
    ASSUME TypeOK, Fits, Form = {"prefixed"}, NEW m \in Message, FindActive(m)
    PROVE  OwnStep(m)
<1>1. /\ pc[m] = "find" /\ attempts' = attempts /\ convs' = convs /\ version' = version
      /\ pc \in [Message -> PC] /\ held \in [Message -> 0 .. Len(convs)]
      /\ object \in [Message -> Object \cup {NoObject}]
      /\ attempts[m] \in Nat /\ ~ Doomed(m)
  BY DEF FindActive, TypeOK, Doomed
<1>2. CASE Active = {}
  <2>1. pc' = [pc EXCEPT ![m] = "last"]
    BY <1>2, OneSession DEF FindActive, Goto
  <2>2. ~ Doomed(m)'
    BY <1>1, <1>2, <2>1 DEF Doomed, Active
  <2> QED
    BY <1>1, <2>1, <2>2 DEF OwnStep, Lost
<1>3. CASE Active # {}
  <2> DEFINE i == Newest(Active)
             o == [status |-> convs[i].status, expired |-> convs[i].expired]
  <2>1. /\ held' = [held EXCEPT ![m] = i] /\ object' = [object EXCEPT ![m] = o]
        /\ pc' = [pc EXCEPT ![m] = IF convs[i].expired THEN "expire" ELSE "served"]
    BY <1>3, OneSession DEF FindActive, Goto
  <2>2. i \in Active
    <3>1. Active \subseteq 1 .. Len(convs) /\ Len(convs) \in Nat
      BY Rows DEF Active
    <3> QED
      BY <1>3, <3>1, NewestIsThere
  <2>3. IsActive(convs[i].status) /\ convs[i].status # "human_handoff" /\ Active = {i}
    BY <2>2 DEF Active, Fits
  <2>4. convs[i].status \in {"pending", "progress"} /\ ~ IsClosed(convs[i].status)
        /\ RepoAccepts(convs[i].status, "expired")
    BY <2>3, ActiveWithoutAgent
  <2> HIDE DEF i
  <2>5. pc'[m] \in {"expire", "served"} /\ held'[m] = i /\ object'[m] = o
    BY <1>1, <2>1
  <2>6. ~ Doomed(m)'
    BY <1>1, <2>3, <2>4, <2>5 DEF Doomed, Late, Active
  <2> QED
    BY <1>1, <2>4, <2>5, <2>6 DEF OwnStep, Lost
<1> QED
  BY <1>2, <1>3
LEMMA NoRefusal ==
    ASSUME TypeOK, Fits, NEW m \in Message
    PROVE  ~ RefuseToExpire(m)
<1>1. pc[m] = "expire" => IsValidTransition(object[m].status, "expired")
  <2>1. pc[m] = "expire" => IsActive(object[m].status) /\ object[m].status # "human_handoff"
    BY DEF Fits, IsActive, ActiveStatuses
  <2> QED
    BY <2>1, ActiveWithoutAgent
<1> QED
  BY <1>1 DEF RefuseToExpire

LEMMA ReadToExpireOwn ==
    ASSUME TypeOK, NEW m \in Message, ReadToExpire(m)
    PROVE  OwnStep(m)
<1>1. /\ pc[m] = "expire" /\ convs' = convs /\ held' = held /\ object' = object
      /\ pc \in [Message -> PC] /\ version \in [Message -> Nat] /\ attempts[m] \in Nat
  BY DEF ReadToExpire, TypeOK
<1>2. CASE Backend = "supabase" /\ ~RepoAccepts(convs[held[m]].status, "expired")
  <2>1. Fail(m)
    BY <1>2 DEF ReadToExpire
  <2>2. Doomed(m)
    BY <1>1, <1>2 DEF Doomed, Late
  <2> QED
    BY <1>1, <2>1, <2>2, DoomedFails
<1>3. CASE ~(Backend = "supabase" /\ ~RepoAccepts(convs[held[m]].status, "expired"))
  <2>1. /\ version' = [version EXCEPT ![m] = convs[held[m]].version]
        /\ pc' = [pc EXCEPT ![m] = "write"] /\ attempts' = attempts
    BY <1>3 DEF ReadToExpire, Goto
  <2>2. pc'[m] = "write" /\ version'[m] = convs[held[m]].version
    BY <1>1, <2>1
  <2>3. Doomed(m)' => Doomed(m)
    BY <1>1, <2>2 DEF Doomed, Late, Active
  <2> QED
    BY <1>1, <2>1, <2>2, <2>3 DEF OwnStep, Lost
<1> QED
  BY <1>2, <1>3

LEMMA WriteExpiredOwn ==
    ASSUME TypeOK, NEW m \in Message, WriteExpired(m)
    PROVE  OwnStep(m)
<1>1. pc[m] = "write" /\ pc \in [Message -> PC] /\ attempts[m] \in Nat
  BY DEF WriteExpired, TypeOK
<1>2. CASE convs[held[m]].version = version[m]
  <2>1. /\ Writes(held[m], "expired", NextVersion(convs[held[m]].version))
        /\ pc'[m] = "create" /\ attempts' = attempts
    BY <1>1, <1>2, ExpiryWrites
  <2>2. Active' \subseteq Active \ {held[m]}
    BY <2>1 DEF Writes, Active, IsActive, ActiveStatuses
  <2>3. Doomed(m)' => Doomed(m)
    BY <1>1, <2>1, <2>2 DEF Doomed, Late
  <2> QED
    BY <1>1, <2>1, <2>3 DEF OwnStep, Lost
<1>3. CASE convs[held[m]].version # version[m]
  <2>1. Fail(m) /\ Doomed(m)
    BY <1>1, <1>3 DEF WriteExpired, Doomed, Late
  <2> QED
    BY <1>1, <2>1, DoomedFails
<1> QED
  BY <1>2, <1>3

LEMMA CreationOwn ==
    ASSUME TypeOK, Form = {"prefixed"}, NEW m \in Message,
           FindLast(m) \/ CreateRefused(m) \/ Create(m)
    PROVE  OwnStep(m)
<1>1. pc[m] \in {"last", "create"} /\ pc \in [Message -> PC] /\ attempts[m] \in Nat
  BY DEF FindLast, CreateRefused, Create, TypeOK
<1>2. CASE FindLast(m)
  <2>1. pc'[m] = "create" /\ convs' = convs /\ attempts' = attempts
    BY <1>1, <1>2 DEF FindLast, Goto
  <2>2. Doomed(m)' => Doomed(m)
    BY <1>1, <2>1 DEF Doomed, Active
  <2> QED
    BY <1>1, <2>1, <2>2 DEF OwnStep, Lost
<1>3. CASE CreateRefused(m)
  <2>1. Fail(m) /\ Doomed(m)
    BY <1>1, <1>3, OneSession DEF CreateRefused, Admits, Doomed
  <2> QED
    BY <1>1, <2>1, DoomedFails
<1>4. CASE Create(m)
  BY <1>1, <1>4, CreateAdds DEF OwnStep
<1> QED
  BY <1>2, <1>3, <1>4

LEMMA StepOwn ==
    ASSUME TypeOK, Fits, Form = {"prefixed"}, NEW m \in Message, Step(m)
    PROVE  OwnStep(m) /\ ~ RefuseToExpire(m)
  BY NoRefusal, FindActiveOwn, ReadToExpireOwn, WriteExpiredOwn, CreationOwn DEF Step

-----------------------------------------------------------------------------
(***************************************************************************)
(* The rows after a step of a handler, and after one of the others.        *)
(***************************************************************************)
Quiet == convs' = convs

Closes(i) ==
    /\ Active' \subseteq Active \ {i} /\ Open' = Open \ {i}
    /\ \E v \in Nat : Writes(i, "expired", v)

LEMMA StepRows ==
    ASSUME TypeOK, NEW m \in Message, Step(m), ~ RefuseToExpire(m)
    PROVE  /\ rivals' = rivals
           /\ \/ Quiet
              \/ /\ WriteExpired(m) /\ pc[m] = "write" /\ pc'[m] # "served" /\ Closes(held[m])
                 /\ Writes(held[m], "expired", NextVersion(convs[held[m]].version))
              \/ Create(m) /\ Adds
<1>1. rivals' = rivals
  BY DEF Step, FindActive, RefuseToExpire, ReadToExpire, WriteExpired, FindLast, Create, CreateRefused
<1>2. CASE WriteExpired(m)
  <2>1. CASE convs[held[m]].version = version[m]
    <3>1. Writes(held[m], "expired", NextVersion(convs[held[m]].version)) /\ pc'[m] = "create"
      BY <1>2, <2>1, ExpiryWrites DEF TypeOK
    <3>2. NextVersion(convs[held[m]].version) \in Nat
      BY <3>1, Rows DEF Writes, NextVersion
    <3>3. Active' \subseteq Active \ {held[m]} /\ Open' = Open \ {held[m]}
      BY <3>1 DEF Writes, Active, Open, IsActive, IsClosed, ActiveStatuses, ClosedStatuses
    <3> QED
      BY <1>1, <1>2, <3>1, <3>2, <3>3 DEF Closes, WriteExpired
  <2>2. CASE convs[held[m]].version # version[m]
    BY <1>1, <1>2, <2>2 DEF WriteExpired, Quiet
  <2> QED
    BY <2>1, <2>2
<1>3. CASE Create(m)
  BY <1>1, <1>3, CreateAdds
<1>4. CASE ~ WriteExpired(m) /\ ~ Create(m)
  BY <1>1, <1>4 DEF Step, FindActive, RefuseToExpire, ReadToExpire, FindLast, CreateRefused, Quiet
<1> QED
  BY <1>2, <1>3, <1>4

(***************************************************************************)
(* The rows stay as they must be.                                          *)
(***************************************************************************)
LEMMA FitsKept ==
    ASSUME TypeOK, TypeOK', Fits, Form = {"prefixed"}, [Next]_vars, NoHandoff'
    PROVE  Fits'
<1> DEFINE RowsFit == /\ \A i, j \in Active : i = j
                      /\ \A i \in DOMAIN convs : convs[i].status # "human_handoff"
           Handled == \A m \in Message :
                        /\ pc[m] = "expire" => object[m].status \in {"pending", "progress"}
                        /\ pc[m] = "dead" => attempts[m] = MaxAttempts - 1
<1>1. RowsFit /\ Handled
  BY DEF Fits
<1>2. SUFFICES RowsFit' /\ Handled'
  BY DEF Fits
<1>3. ASSUME NEW m \in Message, Step(m)
      PROVE  RowsFit' /\ Handled'
  <2>1. OwnStep(m) /\ ~ RefuseToExpire(m)
    BY <1>3, StepOwn
  <2>2. Handled'
    BY <1>1, <1>3, <2>1, OthersWait DEF OwnStep
  <2>3. CASE Quiet
    BY <1>1, <2>2, <2>3 DEF Quiet, Active
  <2>4. CASE Closes(held[m])
    BY <1>1, <2>2, <2>4, RowsFitWritten DEF Closes, IsActive, ActiveStatuses
  <2>5. CASE Create(m) /\ Adds
    <3>1. Active = {}
      <4>1. Active \subseteq {0}
        BY <2>5, OneSession DEF Create, Admits
      <4> QED
        BY <4>1, Rows DEF Active
    <3>2. Active' \subseteq {Len(convs) + 1}
      BY <2>5, <3>1 DEF Adds, Active
    <3> QED
      BY <1>1, <2>2, <2>5, <3>2 DEF Adds
  <2> QED
    BY <1>3, <2>1, <2>3, <2>4, <2>5, StepRows
<1>4. ASSUME NEW i \in DOMAIN convs, NEW to \in Targets, OtherCall(i, to)
      PROVE  RowsFit' /\ Handled'
  <2>1. to # "human_handoff"
    <3>1. rivals' = Append(rivals, to) /\ rivals \in Seq(Status \cup {"extended"})
      BY <1>4 DEF OtherCall, TypeOK
    <3>2. Len(rivals) + 1 \in DOMAIN rivals' /\ rivals'[Len(rivals) + 1] = to
      BY <3>1
    <3> QED
      BY <3>2 DEF NoHandoff
  <2>2. IsActive(to) => Active \subseteq {i}
    <3>1. convs[i].form = "prefixed" /\ \A j \in DOMAIN convs : convs[j].form = "prefixed"
      BY Rows
    <3> QED
      BY <1>4, <3>1 DEF OtherCall, Admits, ActiveWith, Active
  <2>3. RowsFit'
    BY <1>4, <2>1, <2>2, OtherCallWrites, RowsFitWritten
  <2> QED
    BY <1>1, <1>4, <2>3 DEF OtherCall
<1>5. ASSUME NEW i \in DOMAIN convs, Extend(i) \/ ExpiryPasses(i)
      PROVE  RowsFit' /\ Handled'
  <2>1. \E v : Writes(i, convs[i].status, v)
    BY <1>5, ExtendWrites, ExpiryPassesWrites
  <2>2. IsActive(convs[i].status) => Active \subseteq {i}
    BY <1>1 DEF Active
  <2>3. RowsFit'
    BY <1>1, <2>1, <2>2, RowsFitWritten
  <2> QED
    BY <1>1, <1>5, <2>3 DEF Extend, ExpiryPasses
<1>6. CASE UNCHANGED vars
  BY <1>1, <1>6 DEF vars, Active
<1> QED
  BY <1>3, <1>4, <1>5, <1>6 DEF Next
-----------------------------------------------------------------------------
(***************************************************************************)
(* The account.                                                            *)
(***************************************************************************)
LEMMA Counted ==
    ASSUME TypeOK, IsFiniteSet(Message), NEW m \in Message
    PROVE  /\ IsFiniteSet(Open) /\ Cardinality(Open) \in Nat
           /\ IsFiniteSet(Served(m)) /\ Cardinality(Served(m)) \in Nat
           /\ Cardinality(Served(m)) <= Others /\ Others \in Nat
           /\ attempts[m] \in Nat /\ Lost(m) \in Nat /\ Len(rivals) \in Nat
<1>1. IsFiniteSet(Open)
  <2>1. IsFiniteSet(1 .. Len(convs))
    BY Rows, FS_Interval
  <2> QED
    BY <2>1, Rows, FS_Subset DEF Open
<1>2. IsFiniteSet(Message \ {m}) /\ Cardinality(Message \ {m}) = Others
  BY FS_RemoveElement DEF Others
<1>3. IsFiniteSet(Served(m)) /\ Cardinality(Served(m)) <= Others
  BY <1>2, FS_Subset DEF Served
<1>4. attempts[m] \in Nat /\ Len(rivals) \in Nat
  BY DEF TypeOK
<1>5. Lost(m) \in Nat
  BY <1>4 DEF Lost
<1> QED
  BY <1>1, <1>2, <1>3, <1>4, <1>5, FS_CardinalityType

LEMMA CountedNext ==
    ASSUME TypeOK', IsFiniteSet(Message), NEW m \in Message
    PROVE  /\ IsFiniteSet(Open') /\ Cardinality(Open') \in Nat
           /\ IsFiniteSet(Served(m)') /\ Cardinality(Served(m)') \in Nat
           /\ Cardinality(Served(m)') <= Others
           /\ Lost(m)' \in Nat /\ Len(rivals') \in Nat
<1>1. IsFiniteSet(Open')
  <2>1. DOMAIN convs' = 1 .. Len(convs') /\ Len(convs') \in Nat
    BY DEF TypeOK
  <2>2. IsFiniteSet(1 .. Len(convs'))
    BY <2>1, FS_Interval
  <2> QED
    BY <2>1, <2>2, FS_Subset DEF Open
<1>2. IsFiniteSet(Message \ {m}) /\ Cardinality(Message \ {m}) = Others
  BY FS_RemoveElement DEF Others
<1>3. IsFiniteSet(Served(m)') /\ Cardinality(Served(m)') <= Others
  BY <1>2, FS_Subset DEF Served
<1>4. attempts'[m] \in Nat /\ Len(rivals') \in Nat
  BY DEF TypeOK
<1>5. Lost(m)' \in Nat
  BY <1>4 DEF Lost
<1> QED
  BY <1>1, <1>2, <1>3, <1>4, <1>5, FS_CardinalityType

LEMMA OthersFixed == Others' = Others
  BY DEF Others

\* An event fails one execution of a message, at the most.
LEMMA OneLost ==
    ASSUME TypeOK, TypeOK', NEW m \in Message, pc'[m] = pc[m], attempts'[m] = attempts[m]
    PROVE  /\ Lost(m)' <= Lost(m) + 1
           /\ (Doomed(m)' => Doomed(m)) => Lost(m)' <= Lost(m)
<1>1. attempts[m] \in Nat
  BY DEF TypeOK
<1> QED
  BY <1>1 DEF Lost

\* What may happen to the account: nothing that costs an execution, a call of the
\* others, a message that opens a row, one that closes a row on Postgres.
LEMMA AccountKept ==
    ASSUME NEW l \in Nat, NEW o \in Nat, NEW s \in Nat, NEW r \in Nat, NEW h \in Nat,
           NEW l2 \in Nat, NEW o2 \in Nat, NEW s2 \in Nat, NEW r2 \in Nat,
           Account(l, o, s, r, h), s2 <= h,
           \/ l2 <= l /\ o2 <= o /\ s <= s2 /\ r <= r2
           \/ l2 <= l + 1 /\ o2 <= o /\ s2 = s /\ r2 = r + 1
           \/ l2 <= l + 1 /\ o2 = o + 1 /\ s2 = s + 1 /\ r2 = r
           \/ Backend = "postgres" /\ l2 <= l + 1 /\ o = o2 + 1 /\ s2 = s /\ s + 1 <= h /\ r2 = r
    PROVE  Account(l2, o2, s2, r2, h)
<1>1. CASE Backend = "postgres"
  <2>1. l + o <= 2 * s + r + 1 /\ l <= 2 * h + r
    BY <1>1 DEF Account
  <2>2. l2 + o2 <= 2 * s2 + r2 + 1 /\ l2 <= 2 * h + r2
    BY <2>1
  <2> QED
    BY <1>1, <2>2 DEF Account
<1>2. CASE Backend # "postgres"
  <2>1. l <= s + r
    BY <1>2 DEF Account
  <2>2. l2 <= s2 + r2
    BY <1>2, <2>1
  <2> QED
    BY <1>2, <2>2 DEF Account
<1> QED
  BY <1>1, <1>2

LEMMA SettledNext ==
    ASSUME TypeOK, TypeOK', IsFiniteSet(Message), NEW m \in Message, RacesCounted(m),
           \/ /\ Lost(m)' <= Lost(m) /\ Cardinality(Open') <= Cardinality(Open)
              /\ Cardinality(Served(m)) <= Cardinality(Served(m)') /\ Len(rivals) <= Len(rivals')
           \/ /\ Lost(m)' <= Lost(m) + 1 /\ Cardinality(Open') <= Cardinality(Open)
              /\ Served(m)' = Served(m) /\ Len(rivals') = Len(rivals) + 1
           \/ /\ Lost(m)' <= Lost(m) + 1 /\ Cardinality(Open') = Cardinality(Open) + 1
              /\ Cardinality(Served(m)') = Cardinality(Served(m)) + 1 /\ rivals' = rivals
           \/ /\ Backend = "postgres" /\ Lost(m)' <= Lost(m) + 1
              /\ Cardinality(Open) = Cardinality(Open') + 1 /\ Served(m)' = Served(m)
              /\ Cardinality(Served(m)) + 1 <= Others /\ rivals' = rivals
    PROVE  RacesCounted(m)'
<1> DEFINE l == Lost(m)
           l2 == Lost(m)'
           o == Cardinality(Open)
           o2 == Cardinality(Open')
           s == Cardinality(Served(m))
           s2 == Cardinality(Served(m)')
           r == Len(rivals)
           r2 == Len(rivals')
<1>1. /\ o \in Nat /\ s \in Nat /\ l \in Nat /\ Others \in Nat /\ r \in Nat
      /\ Account(l, o, s, r, Others)
  BY Counted DEF RacesCounted
<1>2. o2 \in Nat /\ s2 \in Nat /\ l2 \in Nat /\ r2 \in Nat /\ s2 <= Others
  BY CountedNext
<1>3. \/ l2 <= l /\ o2 <= o /\ s <= s2 /\ r <= r2
      \/ l2 <= l + 1 /\ o2 <= o /\ s2 = s /\ r2 = r + 1
      \/ l2 <= l + 1 /\ o2 = o + 1 /\ s2 = s + 1 /\ r2 = r
      \/ Backend = "postgres" /\ l2 <= l + 1 /\ o = o2 + 1 /\ s2 = s /\ s + 1 <= Others /\ r2 = r
  OBVIOUS
<1>4. RacesCounted(m)' <=> Account(l2, o2, s2, r2, Others)
  BY OthersFixed DEF RacesCounted, Account
<1> HIDE DEF l, l2, o, o2, s, s2, r, r2
<1> QED
  BY <1>1, <1>2, <1>3, <1>4, AccountKept

\* The account is settled when no more is lost than before.
LEMMA NothingLost ==
    ASSUME TypeOK, TypeOK', IsFiniteSet(Message), NEW m \in Message, RacesCounted(m),
           Lost(m)' <= Lost(m), Open' \subseteq Open, Served(m) \subseteq Served(m)',
           Len(rivals') >= Len(rivals)
    PROVE  RacesCounted(m)'
<1>1. /\ Cardinality(Open') <= Cardinality(Open)
      /\ Cardinality(Served(m)) <= Cardinality(Served(m)')
  BY Counted, CountedNext, FS_Subset
<1>2. Len(rivals') \in Nat /\ Len(rivals) \in Nat
  BY Counted, CountedNext
<1> QED
  BY <1>1, <1>2, SettledNext

\* A call of the others may cost an execution, and is counted.
LEMMA CallLost ==
    ASSUME TypeOK, TypeOK', IsFiniteSet(Message), NEW m \in Message, RacesCounted(m),
           pc' = pc, attempts' = attempts, Open' \subseteq Open, Len(rivals') = Len(rivals) + 1
    PROVE  RacesCounted(m)'
<1>1. Cardinality(Open') <= Cardinality(Open) /\ Served(m)' = Served(m)
  BY Counted, FS_Subset DEF Served
<1>2. Lost(m)' <= Lost(m) + 1
  BY OneLost
<1> QED
  BY <1>1, <1>2, SettledNext

\* One that is served with a new row pays for the row and for the insert it has
\* refused.
LEMMA CreateLost ==
    ASSUME TypeOK, TypeOK', IsFiniteSet(Message), NEW m \in Message, RacesCounted(m),
           NEW n \in Message \ {m}, Step(n), Create(n), Adds, rivals' = rivals
    PROVE  RacesCounted(m)'
<1>1. Served(m)' = Served(m) \cup {n} /\ n \notin Served(m)
  <2>1. pc[n] = "create" /\ pc' = [pc EXCEPT ![n] = "served"] /\ pc \in [Message -> PC]
    BY CreateAdds DEF Create, TypeOK
  <2> QED
    BY <2>1 DEF Served
<1>2. Open' = Open \cup {Len(convs) + 1} /\ Len(convs) + 1 \notin Open
  BY DEF Adds, Open, IsClosed, ClosedStatuses
<1>3. /\ Cardinality(Served(m)') = Cardinality(Served(m)) + 1
      /\ Cardinality(Open') = Cardinality(Open) + 1
  BY <1>1, <1>2, Counted, FS_AddElement
<1>4. Lost(m)' <= Lost(m) + 1
  BY OneLost, OthersWait
<1> QED
  BY <1>3, <1>4, SettledNext

\* One that closes an open row on Postgres fails those that have read it, and is
\* not served yet.
LEMMA CloseLost ==
    ASSUME TypeOK, TypeOK', IsFiniteSet(Message), NEW m \in Message, RacesCounted(m),
           NEW n \in Message \ {m}, Step(n), pc[n] = "write", pc'[n] # "served", rivals' = rivals,
           Backend = "postgres", NEW i \in Open, Open' = Open \ {i}
    PROVE  RacesCounted(m)'
<1>1. Served(m)' = Served(m)
  <2>1. \A k \in Message \ {n} : pc'[k] = pc[k]
    BY OthersWait
  <2> QED
    BY <2>1 DEF Served
<1>2. Cardinality(Open) = Cardinality(Open') + 1
  <2>1. Cardinality(Open \ {i}) = Cardinality(Open) - 1 /\ Cardinality(Open) \in Nat
    BY Counted, FS_RemoveElement
  <2> QED
    BY <2>1
<1>3. Cardinality(Served(m)) + 1 <= Others
  <2>1. /\ IsFiniteSet(Message \ {m}) /\ Cardinality(Message \ {m}) = Others
        /\ Others \in Nat
    BY Counted, FS_RemoveElement DEF Others
  <2>2. /\ IsFiniteSet((Message \ {m}) \ {n})
        /\ Cardinality((Message \ {m}) \ {n}) = Others - 1
    BY <2>1, FS_RemoveElement
  <2>3. Served(m) \subseteq (Message \ {m}) \ {n}
    BY DEF Served
  <2>4. Cardinality(Served(m)) <= Others - 1 /\ Cardinality(Served(m)) \in Nat
    BY <2>2, <2>3, Counted, FS_Subset
  <2> QED
    BY <2>1, <2>4
<1>4. Lost(m)' <= Lost(m) + 1
  BY OneLost, OthersWait
<1> QED
  BY <1>1, <1>2, <1>3, <1>4, SettledNext

(***************************************************************************)
(* An expiry written by another one: on Supabase it fails nobody, on       *)
(* Postgres those that have read the row, if it was open; if it was not,   *)
(* they were doomed.                                                       *)
(***************************************************************************)
LEMMA ClosedDooms ==
    ASSUME TypeOK, NEW m \in Message, NEW i \in DOMAIN convs, Closes(i),
           pc'[m] = pc[m], held'[m] = held[m], version'[m] = version[m],
           \/ Backend = "postgres" /\ IsClosed(convs[i].status)
           \/ /\ Backend = "supabase"
              /\ Writes(i, "expired", convs[i].version)
    PROVE  Doomed(m)' => Doomed(m)
<1>1. Active' \subseteq Active
  BY DEF Closes
<1>2. CASE pc[m] \in {"last", "create"}
  BY <1>1, <1>2 DEF Doomed
<1>3. CASE pc[m] \in {"expire", "write"}
  <2>1. held[m] \in DOMAIN convs
    BY <1>3, Rows DEF TypeOK
  <2>2. CASE held[m] # i
    <3>1. convs'[held[m]] = convs[held[m]]
      BY <2>1, <2>2 DEF Closes, Writes
    <3> QED
      BY <1>1, <1>3, <3>1 DEF Doomed, Late
  <2>3. CASE held[m] = i /\ Backend = "postgres"
    <3>1. IsClosed(convs[held[m]].status)
      BY <2>3
    <3> QED
      BY <1>3, <2>3, <3>1 DEF Doomed, Late
  <2>4. CASE held[m] = i /\ Backend = "supabase"
    <3>1. convs'[i].version = convs[i].version /\ convs'[i].status = "expired"
      BY <2>4 DEF Writes
    <3>2. RepoAccepts("expired", "expired")
      BY DEF RepoAccepts
    <3> QED
      BY <1>1, <1>3, <2>4, <3>1, <3>2 DEF Doomed, Late
  <2> QED
    BY <2>2, <2>3, <2>4, SessionAssumption
<1>4. CASE pc[m] \notin {"last", "create", "expire", "write"}
  BY <1>4 DEF Doomed
<1> QED
  BY <1>2, <1>3, <1>4

LEMMA ExpiryLost ==
    ASSUME TypeOK, TypeOK', IsFiniteSet(Message), NEW m \in Message, RacesCounted(m),
           NEW n \in Message \ {m}, Step(n), pc[n] = "write", pc'[n] # "served", rivals' = rivals,
           Closes(held[n]), Writes(held[n], "expired", NextVersion(convs[held[n]].version))
    PROVE  RacesCounted(m)'
<1> DEFINE i == held[n]
<1>1. i \in DOMAIN convs
  BY DEF Writes
<1>2. pc'[m] = pc[m] /\ held'[m] = held[m] /\ version'[m] = version[m] /\ attempts'[m] = attempts[m]
  BY OthersWait
<1>3. CASE Backend = "postgres" /\ i \in Open
  BY <1>3, CloseLost DEF Closes
<1>4. CASE ~ (Backend = "postgres" /\ i \in Open)
  <2>1. \/ Backend = "postgres" /\ IsClosed(convs[i].status)
        \/ Backend = "supabase" /\ Writes(i, "expired", convs[i].version)
    BY <1>1, <1>4, SessionAssumption DEF Open, NextVersion
  <2>2. Lost(m)' <= Lost(m)
    BY <1>1, <1>2, <2>1, ClosedDooms, OneLost
  <2>3. Served(m) \subseteq Served(m)' /\ Open' \subseteq Open
    <3>1. \A k \in Message \ {n} : pc'[k] = pc[k]
      BY OthersWait
    <3> QED
      BY <3>1 DEF Served, Closes
  <2>4. Len(rivals') >= Len(rivals)
    BY Counted
  <2> QED
    BY <2>2, <2>3, <2>4, NothingLost
<1> QED
  BY <1>3, <1>4

\* While the rows stay, a step of another one is not felt.
LEMMA QuietLost ==
    ASSUME TypeOK, TypeOK', IsFiniteSet(Message), NEW m \in Message, RacesCounted(m),
           NEW n \in Message \ {m}, Step(n), Quiet, rivals' = rivals
    PROVE  RacesCounted(m)'
<1>1. /\ pc'[m] = pc[m] /\ held'[m] = held[m] /\ version'[m] = version[m]
      /\ attempts'[m] = attempts[m]
  BY OthersWait
<1>2. Doomed(m)' => Doomed(m)
  BY <1>1 DEF Doomed, Late, Active, Quiet
<1>3. Lost(m)' <= Lost(m)
  BY <1>1, <1>2, OneLost
<1>4. Served(m) \subseteq Served(m)'
  <2>1. \A k \in Message \ {n} : pc'[k] = pc[k]
    BY OthersWait
  <2>2. pc[n] # "served"
    BY DEF Step, FindActive, RefuseToExpire, ReadToExpire, WriteExpired, FindLast, Create,
           CreateRefused
  <2> QED
    BY <2>1, <2>2 DEF Served
<1>5. Open' \subseteq Open /\ Len(rivals') >= Len(rivals)
  BY Counted DEF Open, Quiet
<1> QED
  BY <1>3, <1>4, <1>5, NothingLost

\* A handler's own step.
LEMMA OwnLost ==
    ASSUME TypeOK, TypeOK', IsFiniteSet(Message), NEW m \in Message, RacesCounted(m),
           Step(m), OwnStep(m), ~ RefuseToExpire(m), pc'[m] # "served"
    PROVE  RacesCounted(m)'
<1>1. Lost(m)' <= Lost(m)
  BY DEF OwnStep
<1>2. Served(m) \subseteq Served(m)'
  BY OthersWait DEF Served
<1>3. ~ Create(m)
  BY CreateAdds DEF TypeOK
<1>4. Open' \subseteq Open
  BY <1>3, StepRows DEF Open, Quiet, Closes
<1>5. Len(rivals') >= Len(rivals)
  BY StepRows, Counted
<1> QED
  BY <1>1, <1>2, <1>4, <1>5, NothingLost

\* No call of the others opens a row that is closed.
LEMMA CallOpensNone ==
    ASSUME TypeOK, NEW i \in DOMAIN convs,
           \/ \E to \in Targets : OtherCall(i, to)
           \/ Extend(i)
    PROVE  Open' \subseteq Open
<1>1. CASE Extend(i)
  <2>1. Writes(i, convs[i].status, convs[i].version + 1)
    BY <1>1, ExtendWrites
  <2> QED
    BY <2>1 DEF Writes, Open
<1>2. ASSUME NEW to \in Targets, OtherCall(i, to)
      PROVE  Open' \subseteq Open
  <2>1. Writes(i, to, NextVersion(convs[i].version))
    BY <1>2, OtherCallWrites
  <2>2. ~ IsClosed(convs[i].status)
    <3>1. to \in ValidTransitions[convs[i].status] /\ convs[i].status \in Status
      BY <1>2, Rows DEF OtherCall
    <3> QED
      BY <3>1 DEF ValidTransitions, IsClosed, Status, ActiveStatuses, PausedStatuses, ClosedStatuses
  <2> QED
    BY <2>1, <2>2 DEF Writes, Open
<1> QED
  BY <1>1, <1>2
-----------------------------------------------------------------------------
LEMMA RacesKept ==
    ASSUME TypeOK, TypeOK', IsFiniteSet(Message), Fits, Races, Form = {"prefixed"},
           [Next]_vars
    PROVE  Races'
<1> SUFFICES ASSUME NEW m \in Message, pc'[m] # "served"
             PROVE  RacesCounted(m)'
  BY DEF Races
<1>1. ASSUME NEW n \in Message, Step(n)
      PROVE  RacesCounted(m)'
  <2>1. /\ OwnStep(n) /\ ~ RefuseToExpire(n) /\ rivals' = rivals
        /\ \/ Quiet
           \/ /\ pc[n] = "write" /\ pc'[n] # "served" /\ Closes(held[n])
              /\ Writes(held[n], "expired", NextVersion(convs[held[n]].version))
           \/ Create(n) /\ Adds
    BY <1>1, StepOwn, StepRows
  <2>2. pc[m] # "served"
    <3>1. pc[n] # "served"
      BY <1>1 DEF Step, FindActive, RefuseToExpire, ReadToExpire, WriteExpired, FindLast, Create,
                  CreateRefused
    <3> QED
      BY <1>1, <3>1, OthersWait
  <2>3. RacesCounted(m)
    BY <2>2 DEF Races
  <2>4. CASE n = m
    BY <1>1, <2>1, <2>3, <2>4, OwnLost
  <2>5. CASE n # m
    BY <1>1, <2>1, <2>3, <2>5, QuietLost, ExpiryLost, CreateLost
  <2> QED
    BY <2>4, <2>5
<1>2. ASSUME NEW i \in DOMAIN convs, (\E to \in Targets : OtherCall(i, to)) \/ Extend(i)
      PROVE  RacesCounted(m)'
  <2>1. pc' = pc /\ attempts' = attempts /\ Len(rivals') = Len(rivals) + 1
    <3>1. /\ pc' = pc /\ attempts' = attempts
          /\ \/ rivals' = Append(rivals, "extended")
             \/ \E to \in Targets : rivals' = Append(rivals, to)
      BY <1>2 DEF OtherCall, Extend
    <3>2. rivals \in Seq(Status \cup {"extended"}) /\ Targets \subseteq Status
      BY SessionAssumption DEF TypeOK
    <3> QED
      BY <3>1, <3>2
  <2>2. RacesCounted(m)
    BY <2>1 DEF Races
  <2> QED
    BY <1>2, <2>1, <2>2, CallOpensNone, CallLost
<1>3. ASSUME (\E i \in DOMAIN convs : ExpiryPasses(i)) \/ UNCHANGED vars
      PROVE  RacesCounted(m)'
  <2>1. /\ pc' = pc /\ attempts' = attempts /\ rivals' = rivals /\ held' = held
        /\ version' = version
    BY <1>3 DEF ExpiryPasses, vars
  <2>2. /\ DOMAIN convs' = DOMAIN convs
        /\ \A j \in DOMAIN convs : /\ convs'[j].status = convs[j].status
                                   /\ convs'[j].version = convs[j].version
    <3>1. CASE UNCHANGED vars
      BY <3>1 DEF vars
    <3>2. ASSUME NEW i \in DOMAIN convs, ExpiryPasses(i)
          PROVE  /\ DOMAIN convs' = DOMAIN convs
                 /\ \A j \in DOMAIN convs : /\ convs'[j].status = convs[j].status
                                            /\ convs'[j].version = convs[j].version
      <4>1. Writes(i, convs[i].status, convs[i].version)
        BY <3>2, ExpiryPassesWrites
      <4> QED
        BY <4>1 DEF Writes
    <3> QED
      BY <1>3, <3>1, <3>2
  <2>3. Active' = Active /\ Open' = Open
    BY <2>2 DEF Active, Open
  <2>4. Doomed(m)' => Doomed(m)
    <3>1. pc[m] \in {"expire", "write"} => held[m] \in DOMAIN convs
      BY Rows DEF TypeOK
    <3> QED
      BY <2>1, <2>2, <2>3, <3>1 DEF Doomed, Late
  <2>5. Lost(m)' <= Lost(m) /\ Served(m)' = Served(m) /\ Len(rivals') >= Len(rivals)
    BY <2>1, <2>4, OneLost, Counted DEF Served
  <2>6. RacesCounted(m)
    BY <2>1 DEF Races
  <2> QED
    BY <2>3, <2>5, <2>6, NothingLost
<1> QED
  BY <1>1, <1>2, <1>3 DEF Next

LEMMA RacesBegin ==
    ASSUME Init, TypeOK, IsFiniteSet(Message)
    PROVE  Fits /\ Races
<1>1. /\ \A m \in Message : pc[m] = "find" /\ attempts[m] = 0
      /\ rivals = <<>>
  BY DEF Init
<1>2. /\ Active \subseteq {1} /\ Open \subseteq {1}
      /\ \A i \in DOMAIN convs : convs[i].status # "human_handoff"
  <2>1. CASE convs = <<>>
    BY <2>1 DEF Active, Open
  <2>2. ASSUME NEW c \in First, convs = <<c>>
        PROVE  /\ Active \subseteq {1} /\ Open \subseteq {1}
               /\ \A i \in DOMAIN convs : convs[i].status # "human_handoff"
    <3>1. c.status # "human_handoff"
      BY DEF First
    <3>2. DOMAIN convs = {1} /\ convs[1] = c
      BY <2>2
    <3> QED
      BY <3>1, <3>2 DEF Active, Open
  <2> QED
    BY <2>1, <2>2 DEF Init
<1>3. Fits
  BY <1>1, <1>2 DEF Fits
<1>4. ASSUME NEW m \in Message
      PROVE  RacesCounted(m)
  <2>1. Lost(m) = 0
    BY <1>1 DEF Lost, Doomed
  <2>2. Cardinality(Open) <= 1
    <3>1. IsFiniteSet({1}) /\ Cardinality({1}) = 1
      BY FS_Singleton
    <3> QED
      BY <1>2, <3>1, FS_Subset
  <2>3. /\ Cardinality(Open) \in Nat /\ Cardinality(Served(m)) \in Nat /\ Others \in Nat
        /\ Len(rivals) \in Nat
    BY Counted
  <2> HIDE DEF Others
  <2> QED
    BY <2>1, <2>2, <2>3 DEF RacesCounted, Account
<1> QED
  BY <1>3, <1>4 DEF Races

LEMMA NoHandoffBefore ==
    ASSUME TypeOK, [Next]_vars, NoHandoff'
    PROVE  NoHandoff
<1>1. rivals \in Seq(Status \cup {"extended"})
  BY DEF TypeOK
<1>2. rivals' = rivals \/ \E x \in Status \cup {"extended"} : rivals' = Append(rivals, x)
  BY SessionAssumption DEF Next, Step, FindActive, RefuseToExpire, ReadToExpire, WriteExpired,
                           FindLast, Create, CreateRefused, OtherCall, Extend, ExpiryPasses, vars
<1>3. \A i \in DOMAIN rivals : i \in DOMAIN rivals' /\ rivals'[i] = rivals[i]
  BY <1>1, <1>2
<1> QED
  BY <1>3 DEF NoHandoff

(***************************************************************************)
(* The queue's executions are enough for as many messages and other calls  *)
(* as cannot disturb one message MaxAttempts times: on Supabase each of    *)
(* them can do so once, on Postgres a message can do so twice, with the    *)
(* expiry it writes and with the row it opens.  Then no message is given   *)
(* up unless an agent took the conversation over.                          *)
(***************************************************************************)
Outnumbered ==
    IF Backend = "postgres"
    THEN 2 * Others + MaxRivals >= MaxAttempts
    ELSE Others + MaxRivals >= MaxAttempts

THEOREM GivenUpOnlyWhenOutnumbered ==
    ASSUME Form = {"prefixed"}, IsFiniteSet(Message), ~ Outnumbered
    PROVE  Spec => []GivenUpOnlyToAgents
<1> DEFINE Inv == NoHandoff => Fits /\ Races
<1>1. Init /\ TypeOK => Inv
  BY RacesBegin
<1>2. Inv /\ TypeOK /\ TypeOK' /\ [Next]_vars => Inv'
  BY NoHandoffBefore, FitsKept, RacesKept
<1>3. Inv /\ TypeOK => GivenUpOnlyToAgents
  <2> SUFFICES ASSUME Fits, Races, TypeOK, NEW m \in Message, pc[m] = "dead"
               PROVE  FALSE
    BY DEF GivenUpOnlyToAgents, NoHandoff
  <2>1. Lost(m) = MaxAttempts
    <3>1. attempts[m] = MaxAttempts - 1 /\ ~ Doomed(m)
      BY DEF Fits, Doomed
    <3> QED
      BY <3>1, SessionAssumption DEF Lost
  <2>2. RacesCounted(m)
    BY DEF Races
  <2>3. /\ Cardinality(Served(m)) \in Nat /\ Cardinality(Served(m)) <= Others /\ Others \in Nat
        /\ Len(rivals) \in Nat /\ Len(rivals) <= MaxRivals
    BY Counted DEF TypeOK
  <2> HIDE DEF Others
  <2>4. CASE Backend = "postgres"
    <3>1. MaxAttempts <= 2 * Others + Len(rivals)
      BY <2>1, <2>2, <2>4 DEF RacesCounted, Account
    <3> QED
      BY <2>3, <2>4, <3>1, SessionAssumption DEF Outnumbered
  <2>5. CASE Backend # "postgres"
    <3>1. MaxAttempts <= Cardinality(Served(m)) + Len(rivals)
      BY <2>1, <2>2, <2>5 DEF RacesCounted, Account
    <3> QED
      BY <2>3, <2>5, <3>1, SessionAssumption DEF Outnumbered
  <2> QED
    BY <2>4, <2>5
<1> QED
  BY <1>1, <1>2, <1>3, SessionTypeCorrect, PTL DEF Spec
=============================================================================
