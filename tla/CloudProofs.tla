---------------------------- MODULE CloudProofs -----------------------------
(***************************************************************************)
(* Theorems about CloudQueue, for any tasks and workers and any number of  *)
(* deaths, timeouts and failed requests, on both backends.                 *)
(***************************************************************************)
EXTENDS CloudQueue, TLAPS

\* A worker has a task exactly from its receipt to the answer, and what it
\* answers is what its handler did.
Honest ==
    \A w \in Worker :
        /\ msg[w] = NoOne <=> pc[w] \in {"poll", "stopped"}
        /\ pc[w] = "ack" => done[msg[w]]
        /\ pc[w] = "nack" => raised[msg[w]]

\* The second expiry of a lock fails the job.
StallsCounted == \A t \in Task : stalled[t] = 2 => job[t] = "failed"

IInv == TypeOK /\ Honest /\ StallsCounted /\ NothingLost

-----------------------------------------------------------------------------
(***************************************************************************)
(* A worker that has a task has one: msg is a task.                        *)
(***************************************************************************)
LEMMA HasTask ==
    ASSUME IInv, NEW w \in Worker, pc[w] \in {"run", "ack", "nack"}
    PROVE  msg[w] \in Task /\ msg[w] # NoOne
BY CloudAssumption DEF IInv, TypeOK, Honest

(***************************************************************************)
(* Whatever excuses a task, or none, keeps the type of excused.            *)
(***************************************************************************)
LEMMA ExcuseType ==
    ASSUME TypeOK, \/ UNCHANGED excused
                   \/ \E t \in Task : Excuse(t)
    PROVE  excused' \in [Task -> BOOLEAN]
BY DEF TypeOK, Excuse

(***************************************************************************)
(* Before anything is enqueued.                                            *)
(***************************************************************************)
LEMMA InitHolds == Init => IInv
BY CloudAssumption DEF Init, IInv, TypeOK, Honest, StallsCounted, NothingLost, JobState

(***************************************************************************)
(* A task is accepted by the service.                                      *)
(***************************************************************************)
LEMMA SubmitKeeps ==
    ASSUME IInv, NEW t \in Task, Submitted(t)
    PROVE  IInv'
BY DEF IInv, Submitted, history, TypeOK, Honest, StallsCounted, NothingLost, JobState

(***************************************************************************)
(* A task that waits is nobody's, and who polls has none: after the        *)
(* hand-out the worker owns this task and no other.                        *)
(***************************************************************************)
LEMMA GivenKeeps ==
    ASSUME IInv, NEW t \in Task, NEW w \in Worker, Given(w, t)
    PROVE  IInv'
<1> USE DEF IInv
<1>1. /\ job[t] = "waiting" /\ pc[w] = "poll"
      /\ job' = [job EXCEPT ![t] = "hidden"]
      /\ owner' = [owner EXCEPT ![t] = w]
      /\ msg' = [msg EXCEPT ![w] = t]
      /\ pc' = [pc EXCEPT ![w] = "run"]
      /\ UNCHANGED <<backend, stalled, done, raised, excused, stops, late, faults>>
  BY DEF Given, Goto, history
<1>2. msg[w] = NoOne /\ t # NoOne
  BY <1>1, CloudAssumption DEF Honest
<1>3. \A u \in Task : owner[u] # w
  BY <1>2, CloudAssumption DEF TypeOK
<1>4. TypeOK'
  <2>1. \A u \in Task : owner'[u] # NoOne => job'[u] = "hidden" /\ msg'[owner'[u]] = u
    <3> TAKE u \in Task
    <3>1. CASE u = t
      BY <3>1, <1>1 DEF TypeOK
    <3>2. CASE u # t
      BY <3>2, <1>1, <1>3 DEF TypeOK
    <3> QED
      BY <3>1, <3>2
  <2> QED
    BY <1>1, <2>1 DEF TypeOK, JobState
<1>5. Honest'
  BY <1>1, <1>2 DEF Honest, TypeOK
<1>6. StallsCounted' /\ NothingLost'
  BY <1>1 DEF StallsCounted, NothingLost, TypeOK
<1> QED
  BY <1>4, <1>5, <1>6

(***************************************************************************)
(* A handler ends, and what it did is remembered.                          *)
(***************************************************************************)
LEMMA HandlerKeeps ==
    ASSUME IInv, NEW w \in Worker, HandlerReturns(w) \/ HandlerRaises(w)
    PROVE  IInv'
<1> USE DEF IInv
<1>1. msg[w] \in Task /\ msg[w] # NoOne
  BY HasTask DEF HandlerReturns, HandlerRaises
<1>2. CASE HandlerReturns(w)
  BY <1>1, <1>2 DEF HandlerReturns, Goto, history, TypeOK, Honest, StallsCounted, NothingLost
<1>3. CASE HandlerRaises(w)
  BY <1>1, <1>3 DEF HandlerRaises, Goto, TypeOK, Honest, StallsCounted, NothingLost
<1> QED
  BY <1>2, <1>3

(***************************************************************************)
(* A worker answers for its task and forgets it.  If the task was still    *)
(* its own it is so no longer, and it owns no other.  The task is gone or  *)
(* failed only for a reason.                                               *)
(***************************************************************************)
LEMMA AnswerKeeps ==
    ASSUME IInv, NEW w \in Worker,
           pc[w] \in {"ack", "nack"},
           Forget(w, "poll"),
           \/ ~Owned(w) /\ UNCHANGED <<job, owner>>
           \/ \E s \in {"hidden", "gone", "failed"} :
                 /\ Leave(msg[w], s)
                 /\ stalled[msg[w]] = 2 => s = "failed"
                 /\ s = "gone" => done[msg[w]]
                 /\ s = "failed" => raised[msg[w]],
           UNCHANGED <<backend, stalled, done, raised, stops, late>>,
           excused' \in [Task -> BOOLEAN], faults' \in 0 .. MaxFaults
    PROVE  IInv'
<1> USE DEF IInv
<1> DEFINE t == msg[w]
<1>1. t \in Task /\ t # NoOne
  BY HasTask
<1>2. msg' = [msg EXCEPT ![w] = NoOne] /\ pc' = [pc EXCEPT ![w] = "poll"]
  BY DEF Forget, Goto
<1>3. \A u \in Task : u # t => owner[u] # w
  BY <1>1, CloudAssumption DEF TypeOK
<1>4. \/ owner[t] # w /\ UNCHANGED <<job, owner>>
      \/ \E s \in {"hidden", "gone", "failed"} :
            /\ job' = [job EXCEPT ![t] = s] /\ owner' = [owner EXCEPT ![t] = NoOne]
            /\ stalled[t] = 2 => s = "failed"
            /\ s = "gone" => done[t]
            /\ s = "failed" => raised[t]
  BY DEF Owned, Leave
<1>5. TypeOK'
  <2>1. job' \in [Task -> JobState] /\ owner' \in [Task -> Worker \cup {NoOne}]
    BY <1>4 DEF TypeOK, JobState
  <2>2. \A u \in Task : owner'[u] # NoOne => job'[u] = "hidden" /\ msg'[owner'[u]] = u
    <3> TAKE u \in Task
    <3>1. CASE u = t
      BY <3>1, <1>1, <1>2, <1>4 DEF TypeOK
    <3>2. CASE u # t
      BY <3>2, <1>1, <1>2, <1>3, <1>4 DEF TypeOK
    <3> QED
      BY <3>1, <3>2
  <2> QED
    BY <1>2, <2>1, <2>2 DEF TypeOK
<1>6. Honest'
  BY <1>2 DEF Honest, TypeOK
<1>7. StallsCounted' /\ NothingLost'
  BY <1>1, <1>4 DEF StallsCounted, NothingLost, TypeOK
<1> QED
  BY <1>5, <1>6, <1>7

(***************************************************************************)
(* SQS: delete_message, and change_message_visibility.                     *)
(***************************************************************************)
LEMMA SqsAnswerKeeps ==
    ASSUME IInv, NEW w \in Worker, Ack(w) \/ Nack(w)
    PROVE  IInv'
<1> USE DEF IInv
<1>1. msg[w] \in Task /\ pc[w] \in {"ack", "nack"}
  BY HasTask DEF Ack, Nack
<1>2. stalled[msg[w]] = 2 => job[msg[w]] = "failed"
  BY <1>1 DEF StallsCounted
<1>3. Owned(w) => job[msg[w]] = "hidden"
  BY <1>1, CloudAssumption DEF Owned, TypeOK
<1>4. excused' \in [Task -> BOOLEAN] /\ faults' \in 0 .. MaxFaults
  <2>1. UNCHANGED excused \/ Excuse(msg[w])
    BY DEF Ack, Nack, history
  <2>2. UNCHANGED faults \/ (faults < MaxFaults /\ faults' = faults + 1)
    BY DEF Ack, Nack, history
  <2> QED
    BY <1>1, <2>1, <2>2, ExcuseType, CloudAssumption DEF TypeOK
<1>5. CASE Ack(w)
  <2>1. pc[w] = "ack" /\ done[msg[w]]
    BY <1>5 DEF Ack, Honest
  <2>2. \/ ~Owned(w) /\ UNCHANGED <<job, owner>>
        \/ \E s \in {"hidden", "gone"} : Leave(msg[w], s) /\ stalled[msg[w]] # 2
    BY <1>2, <1>3, <1>5 DEF Ack
  <2> QED
    BY <1>1, <1>4, <1>5, <2>1, <2>2, AnswerKeeps DEF Ack
<1>6. CASE Nack(w)
  <2>1. \/ ~Owned(w) /\ UNCHANGED <<job, owner>>
        \/ Leave(msg[w], "hidden") /\ stalled[msg[w]] # 2
    BY <1>2, <1>3, <1>6 DEF Nack
  <2> QED
    BY <1>1, <1>4, <1>6, <2>1, AnswerKeeps DEF Nack, history
<1> QED
  BY <1>5, <1>6

(***************************************************************************)
(* BullMQ: the library finishes the job, if its lock is still there.       *)
(***************************************************************************)
LEMMA FinishKeeps ==
    ASSUME IInv, NEW w \in Worker, Finish(w)
    PROVE  IInv'
<1> USE DEF IInv
<1>1. msg[w] \in Task /\ pc[w] \in {"ack", "nack"}
  BY HasTask DEF Finish
<1>2. Owned(w) => stalled[msg[w]] # 2
  BY <1>1, CloudAssumption DEF Owned, TypeOK, StallsCounted
<1>3. \/ ~Owned(w) /\ UNCHANGED <<job, owner>>
      \/ \E s \in {"hidden", "gone", "failed"} :
            /\ Leave(msg[w], s)
            /\ stalled[msg[w]] = 2 => s = "failed"
            /\ s = "gone" => done[msg[w]]
            /\ s = "failed" => raised[msg[w]]
  <2>1. pc[w] = "ack" => done[msg[w]]
    BY DEF Honest
  <2>2. pc[w] # "ack" => raised[msg[w]]
    BY <1>1 DEF Honest
  <2> QED
    BY <1>2, <2>1, <2>2 DEF Finish
<1> QED
  BY <1>1, <1>3, AnswerKeeps DEF Finish, history, TypeOK

(***************************************************************************)
(* The service takes a task away from whoever has it: a lost response, the *)
(* end of a visibility timeout, an expired lock.                           *)
(***************************************************************************)
LEMMA ServiceKeeps ==
    ASSUME IInv, NEW t \in Task, ReceiveFails(t) \/ BecomesVisible(t) \/ Stalls(t)
    PROVE  IInv'
<1> USE DEF IInv
<1>1. /\ job[t] \in {"waiting", "hidden"} /\ stalled[t] \in 0 .. 1
      /\ owner' = [owner EXCEPT ![t] = NoOne]
      /\ UNCHANGED <<backend, pc, msg, done, raised, stops>>
      /\ excused' \in [Task -> BOOLEAN]
      /\ late' \in 0 .. MaxLate /\ faults' \in 0 .. MaxFaults
  <2>1. /\ job[t] \in {"waiting", "hidden"}
        /\ owner' = [owner EXCEPT ![t] = NoOne]
        /\ UNCHANGED <<backend, pc, msg, done, raised, stops>>
    BY DEF ReceiveFails, BecomesVisible, Stalls, Leave
  <2>2. UNCHANGED excused \/ Excuse(t)
    BY DEF ReceiveFails, BecomesVisible, Stalls
  <2>3. /\ UNCHANGED late \/ (late < MaxLate /\ late' = late + 1)
        /\ UNCHANGED faults \/ (faults < MaxFaults /\ faults' = faults + 1)
    BY DEF ReceiveFails, BecomesVisible, Stalls
  <2>4. late' \in 0 .. MaxLate /\ faults' \in 0 .. MaxFaults
    BY <2>3, CloudAssumption DEF TypeOK
  <2>5. stalled[t] \in 0 .. 1
    BY <2>1 DEF TypeOK, StallsCounted
  <2> QED
    BY <2>1, <2>2, <2>4, <2>5, ExcuseType
<1>2. \/ /\ \E s \in {"waiting", "hidden"} : job' = [job EXCEPT ![t] = s]
         /\ stalled' \in {stalled, [stalled EXCEPT ![t] = 1]}
      \/ job' = [job EXCEPT ![t] = "failed"] /\ stalled' = [stalled EXCEPT ![t] = 2]
  BY <1>1 DEF ReceiveFails, BecomesVisible, Stalls, Leave, TypeOK
<1>3. TypeOK'
  BY <1>1, <1>2 DEF TypeOK, JobState
<1>4. Honest'
  BY <1>1 DEF Honest
<1>5. StallsCounted'
  BY <1>1, <1>2 DEF StallsCounted, TypeOK
<1>6. NothingLost'
  BY <1>1, <1>2 DEF NothingLost, TypeOK
<1> QED
  BY <1>3, <1>4, <1>5, <1>6

(***************************************************************************)
(* A worker dies, and is started again.                                    *)
(***************************************************************************)
LEMMA ProcessKeeps ==
    ASSUME IInv, NEW w \in Worker, Stop(w) \/ Start(w)
    PROVE  IInv'
<1> USE DEF IInv
<1>1. CASE Start(w)
  BY <1>1 DEF Start, Goto, history, TypeOK, Honest, StallsCounted, NothingLost
<1>2. CASE Stop(w)
  <2>1. /\ msg' = [msg EXCEPT ![w] = NoOne] /\ pc' = [pc EXCEPT ![w] = "stopped"]
        /\ UNCHANGED <<backend, job, stalled, done, raised, late, faults>>
        /\ stops' \in 0 .. MaxStops
    BY <1>2, CloudAssumption DEF Stop, Forget, Goto, TypeOK
  <2>2. /\ owner' \in [Task -> Worker \cup {NoOne}]
        /\ \A u \in Task : owner'[u] # NoOne => owner'[u] = owner[u] /\ owner[u] # w
        /\ excused' \in [Task -> BOOLEAN]
    <3>1. CASE msg[w] = NoOne
      BY <1>2, <3>1, CloudAssumption DEF Stop, TypeOK
    <3>2. CASE msg[w] # NoOne
      <4>1. /\ Excuse(msg[w]) /\ msg[w] \in Task
            /\ owner' = [u \in Task |-> IF owner[u] = w THEN NoOne ELSE owner[u]]
        BY <1>2, <3>2 DEF Stop, TypeOK
      <4>2. excused' \in [Task -> BOOLEAN]
        BY <4>1, ExcuseType
      <4> QED
        BY <4>1, <4>2, CloudAssumption DEF TypeOK
    <3> QED
      BY <3>1, <3>2
  <2>3. TypeOK'
    BY <2>1, <2>2 DEF TypeOK
  <2>4. Honest' /\ StallsCounted' /\ NothingLost'
    BY <2>1 DEF Honest, StallsCounted, NothingLost, TypeOK
  <2> QED
    BY <2>3, <2>4
<1> QED
  BY <1>1, <1>2

(***************************************************************************)
(* Every step keeps the invariant.                                         *)
(***************************************************************************)
LEMMA StepKeeps == IInv /\ [Next]_vars => IInv'
<1> SUFFICES ASSUME IInv, [Next]_vars PROVE IInv'
  OBVIOUS
<1>1. CASE UNCHANGED vars
  BY <1>1 DEF vars, IInv, TypeOK, Honest, StallsCounted, NothingLost
<1>2. ASSUME NEW t \in Task,
             Send(t) \/ Add(t) \/ ReceiveFails(t) \/ BecomesVisible(t) \/ Stalls(t)
      PROVE  IInv'
  BY <1>2, SubmitKeeps, ServiceKeeps DEF Send, Add
<1>3. ASSUME NEW w \in Worker, Work(w) \/ Stop(w)
      PROVE  IInv'
  <2>1. ASSUME NEW t \in Task, Receive(w, t) \/ ProcessJob(w, t) PROVE IInv'
    BY <2>1, GivenKeeps DEF Receive, ProcessJob
  <2> QED
    BY <1>3, <2>1, HandlerKeeps, SqsAnswerKeeps, FinishKeeps, ProcessKeeps DEF Work
<1> QED
  BY <1>1, <1>2, <1>3 DEF Next

(***************************************************************************)
(* Type correctness: an owner has the task it owns and it is hidden from   *)
(* the others, and no lock is counted a third time.                        *)
(***************************************************************************)
THEOREM CloudTypeCorrect == Spec => []TypeOK
<1>1. IInv => TypeOK
  BY DEF IInv
<1> QED
  BY InitHolds, StepKeeps, <1>1, PTL DEF Spec

(***************************************************************************)
(* At least once, whatever dies, is late or fails: a task leaves either    *)
(* service only when a handler has returned, and a job fails only when a   *)
(* handler raised or two locks expired.                                    *)
(***************************************************************************)
THEOREM CloudNothingLost == Spec => []NothingLost
<1>1. IInv => NothingLost
  BY DEF IInv
<1> QED
  BY InitHolds, StepKeeps, <1>1, PTL DEF Spec

-----------------------------------------------------------------------------
(***************************************************************************)
(* Why a task that was done stays done.                                    *)
(***************************************************************************)
\* A worker loses the task it works on only to something that excuses it.
LossExcused ==
    \A w \in Worker : msg[w] # NoOne => owner[msg[w]] = w \/ excused[msg[w]]

\* A task that was done is settled, or about to be by its owner.
DoneIsSettled ==
    \A t \in Task : (done[t] /\ ~excused[t]) =>
        \/ job[t] \in {"gone", "failed"}
        \/ owner[t] # NoOne /\ pc[owner[t]] = "ack"

Finality == LossExcused /\ DoneIsSettled

(***************************************************************************)
(* What an answer leaves behind: a task that is hidden again and was done  *)
(* is excused, and others than its owner had lost it before.               *)
(***************************************************************************)
LEMMA AnswerFinal ==
    ASSUME IInv, Finality, NEW w \in Worker,
           pc[w] \in {"ack", "nack"},
           Forget(w, "poll"),
           \/ UNCHANGED <<job, owner, excused>>
           \/ \E s \in {"hidden", "gone", "failed"} :
                 /\ Leave(msg[w], s)
                 /\ UNCHANGED excused \/ Excuse(msg[w])
                 /\ Owned(w) \/ s = "gone"
                 /\ (s = "hidden" /\ done[msg[w]]) => excused'[msg[w]],
           ~Owned(w) \/ ~UNCHANGED owner,
           UNCHANGED done
    PROVE  Finality'
<1> USE DEF IInv
<1> DEFINE t == msg[w]
<1>1. t \in Task /\ t # NoOne
  BY HasTask
<1>2. msg' = [msg EXCEPT ![w] = NoOne] /\ pc' = [pc EXCEPT ![w] = "poll"]
  BY DEF Forget, Goto
<1>3. \A u \in Task : u # t => owner[u] # w
  BY <1>1, CloudAssumption DEF TypeOK
<1>4. CASE UNCHANGED <<job, owner, excused>>
  <2>1. owner[t] # w
    BY <1>4 DEF Owned
  <2> QED
    BY <1>1, <1>2, <1>3, <1>4, <2>1, CloudAssumption
    DEF Finality, LossExcused, DoneIsSettled, TypeOK
<1>5. ASSUME NEW s \in {"hidden", "gone", "failed"},
             Leave(t, s), UNCHANGED excused \/ Excuse(t),
             Owned(w) \/ s = "gone",
             (s = "hidden" /\ done[t]) => excused'[t]
      PROVE  Finality'
  <2>1. /\ job' = [job EXCEPT ![t] = s] /\ owner' = [owner EXCEPT ![t] = NoOne]
        /\ \A u \in Task : excused[u] => excused'[u]
        /\ \A u \in Task : u # t => excused'[u] = excused[u]
    BY <1>1, <1>5 DEF Leave, Excuse, TypeOK
  <2>2. LossExcused'
    <3> SUFFICES ASSUME NEW v \in Worker, msg'[v] # NoOne
                 PROVE  owner'[msg'[v]] = v \/ excused'[msg'[v]]
      BY DEF LossExcused
    <3>1. v # w /\ msg'[v] = msg[v] /\ msg[v] \in Task
      BY <1>2 DEF TypeOK
    <3>2. CASE msg[v] # t
      BY <2>1, <3>1, <3>2 DEF Finality, LossExcused, TypeOK
    <3>3. CASE msg[v] = t /\ owner[t] = v
      <4>1. s = "gone" /\ ~Owned(w)
        BY <1>5, <3>1, <3>3 DEF Owned
      <4>2. excused[t]
        BY <1>1, <4>1 DEF Finality, LossExcused, Owned
      <4> QED
        BY <2>1, <3>1, <3>3, <4>2
    <3>4. CASE msg[v] = t /\ owner[t] # v
      BY <2>1, <3>1, <3>4 DEF Finality, LossExcused
    <3> QED
      BY <3>2, <3>3, <3>4
  <2>3. DoneIsSettled'
    <3> SUFFICES ASSUME NEW u \in Task, done[u], ~excused'[u]
                 PROVE  \/ job'[u] \in {"gone", "failed"}
                        \/ owner'[u] # NoOne /\ pc'[owner'[u]] = "ack"
      BY DEF DoneIsSettled
    <3>1. CASE u = t
      BY <1>5, <2>1, <3>1 DEF TypeOK
    <3>2. CASE u # t
      BY <1>2, <1>3, <2>1, <3>2 DEF Finality, DoneIsSettled, TypeOK
    <3> QED
      BY <3>1, <3>2
  <2> QED
    BY <2>2, <2>3 DEF Finality
<1> QED
  BY <1>4, <1>5

(***************************************************************************)
(* Every answer, on either service, is one of these.                       *)
(***************************************************************************)
LEMMA AnswersFinal ==
    ASSUME IInv, Finality, NEW w \in Worker, Ack(w) \/ Nack(w) \/ Finish(w)
    PROVE  Finality'
<1> USE DEF IInv
<1>1. msg[w] \in Task /\ pc[w] \in {"ack", "nack"} /\ UNCHANGED done /\ Forget(w, "poll")
  BY HasTask DEF Ack, Nack, Finish
<1>2. Owned(w) => owner[msg[w]] = w /\ w # NoOne /\ job[msg[w]] = "hidden"
  BY <1>1, CloudAssumption DEF Owned, TypeOK
<1>3. ASSUME NEW s \in JobState, Leave(msg[w], s), Owned(w) PROVE ~UNCHANGED owner
  BY <1>1, <1>2, <1>3 DEF Leave, TypeOK
<1>4. (Owned(w) /\ done[msg[w]] /\ pc[w] = "nack") => excused[msg[w]]
  BY <1>1, <1>2 DEF Finality, DoneIsSettled
<1>5. CASE Ack(w)
  <2>1. CASE ~Owned(w) /\ UNCHANGED <<job, owner, excused, faults>>
    BY <1>1, <2>1, AnswerFinal
  <2>2. CASE Leave(msg[w], "gone") /\ UNCHANGED <<excused, faults>>
    BY <1>1, <1>3, <2>2, AnswerFinal DEF JobState
  <2>3. CASE Owned(w) /\ Leave(msg[w], "hidden") /\ Excuse(msg[w])
    <3>1. excused'[msg[w]]
      BY <1>1, <2>3 DEF Excuse, TypeOK
    <3> QED
      BY <1>1, <1>3, <2>3, <3>1, AnswerFinal DEF JobState
  <2> QED
    BY <1>5, <2>1, <2>2, <2>3 DEF Ack
<1>6. CASE Nack(w)
  BY <1>1, <1>3, <1>4, <1>6, AnswerFinal DEF Nack, history, JobState
<1>7. CASE Finish(w)
  BY <1>1, <1>3, <1>7, AnswerFinal DEF Finish, history, JobState
<1> QED
  BY <1>5, <1>6, <1>7

(***************************************************************************)
(* The service takes a task away: it excuses it, unless nobody had it.     *)
(***************************************************************************)
LEMMA ServiceFinal ==
    ASSUME IInv, Finality, NEW t \in Task,
           ReceiveFails(t) \/ BecomesVisible(t) \/ Stalls(t)
    PROVE  Finality'
<1> USE DEF IInv
<1>1. /\ owner' = [owner EXCEPT ![t] = NoOne]
      /\ \E s \in JobState : job' = [job EXCEPT ![t] = s]
      /\ UNCHANGED <<pc, msg, done>>
      /\ UNCHANGED excused \/ Excuse(t)
      /\ job[t] \in {"waiting", "hidden"}
  BY DEF ReceiveFails, BecomesVisible, Stalls, Leave, JobState
<1>2. owner[t] = NoOne \/ Excuse(t)
  BY DEF ReceiveFails, BecomesVisible, Stalls, Busy
<1>3. /\ \A u \in Task : excused[u] => excused'[u]
      /\ \A u \in Task : u # t => excused'[u] = excused[u]
      /\ Excuse(t) => excused'[t]
  BY <1>1 DEF Excuse, TypeOK
<1>4. LossExcused'
  <2> SUFFICES ASSUME NEW v \in Worker, msg[v] # NoOne
               PROVE  owner'[msg[v]] = v \/ excused'[msg[v]]
    BY <1>1 DEF LossExcused
  <2>1. msg[v] \in Task /\ v # NoOne
    BY CloudAssumption DEF TypeOK
  <2> QED
    BY <1>1, <1>2, <1>3, <2>1 DEF Finality, LossExcused, TypeOK
<1>5. DoneIsSettled'
  <2> SUFFICES ASSUME NEW u \in Task, done[u], ~excused'[u]
               PROVE  \/ job'[u] \in {"gone", "failed"}
                      \/ owner'[u] # NoOne /\ pc[owner'[u]] = "ack"
    BY <1>1 DEF DoneIsSettled
  <2>1. CASE u = t
    BY <1>1, <1>2, <1>3, <2>1 DEF Finality, DoneIsSettled
  <2>2. CASE u # t
    BY <1>1, <1>3, <2>2 DEF Finality, DoneIsSettled, TypeOK
  <2> QED
    BY <2>1, <2>2
<1> QED
  BY <1>4, <1>5 DEF Finality

LEMMA StopFinal ==
    ASSUME IInv, Finality, NEW w \in Worker, Stop(w)
    PROVE  Finality'
<1> USE DEF IInv
<1>1. /\ msg' = [msg EXCEPT ![w] = NoOne] /\ pc' = [pc EXCEPT ![w] = "stopped"]
      /\ UNCHANGED <<job, done>>
  BY DEF Stop, Forget, Goto
<1>2. CASE msg[w] = NoOne
  <2>1. \A t \in Task : owner[t] # w
    <3> SUFFICES ASSUME NEW t \in Task, owner[t] = w PROVE FALSE
      OBVIOUS
    <3>1. w # NoOne /\ t # NoOne
      BY CloudAssumption
    <3>2. msg[w] = t
      BY <3>1 DEF TypeOK
    <3> QED
      BY <1>2, <3>1, <3>2
  <2> QED
    BY <1>1, <1>2, <2>1 DEF Stop, Finality, LossExcused, DoneIsSettled, TypeOK
<1>3. CASE msg[w] # NoOne
  <2>1. /\ owner' = [t \in Task |-> IF owner[t] = w THEN NoOne ELSE owner[t]]
        /\ excused' = [excused EXCEPT ![msg[w]] = TRUE]
        /\ msg[w] \in Task
    BY <1>3 DEF Stop, Excuse, TypeOK
  <2>2. LossExcused'
    BY <1>1, <2>1 DEF Finality, LossExcused, TypeOK
  <2>3. DoneIsSettled'
    <3> SUFFICES ASSUME NEW u \in Task, done[u], ~excused'[u]
                 PROVE  \/ job[u] \in {"gone", "failed"}
                        \/ owner'[u] # NoOne /\ pc'[owner'[u]] = "ack"
      BY <1>1 DEF DoneIsSettled
    <3>1. u # msg[w] /\ ~excused[u]
      BY <2>1 DEF TypeOK
    <3>2. owner[u] # w
      BY <3>1, CloudAssumption DEF TypeOK
    <3> QED
      BY <1>1, <2>1, <3>1, <3>2 DEF Finality, DoneIsSettled, TypeOK
  <2> QED
    BY <2>2, <2>3 DEF Finality
<1> QED
  BY <1>2, <1>3

(***************************************************************************)
(* A worker that is given a task is its owner; one whose handler returned  *)
(* still is, unless the task is excused.                                   *)
(***************************************************************************)
LEMMA WorkFinal ==
    ASSUME IInv, Finality, NEW w \in Worker,
           \/ \E t \in Task : Given(w, t)
           \/ HandlerReturns(w) \/ HandlerRaises(w) \/ Start(w)
    PROVE  Finality'
<1> USE DEF IInv
<1>1. ASSUME NEW t \in Task, Given(w, t) PROVE Finality'
  <2>1. /\ job[t] = "waiting" /\ pc[w] = "poll"
        /\ job' = [job EXCEPT ![t] = "hidden"]
        /\ owner' = [owner EXCEPT ![t] = w]
        /\ msg' = [msg EXCEPT ![w] = t]
        /\ pc' = [pc EXCEPT ![w] = "run"]
        /\ UNCHANGED <<done, excused>>
    BY <1>1 DEF Given, Goto, history
  <2>2. msg[w] = NoOne /\ owner[t] = NoOne
    BY <2>1 DEF Honest, TypeOK
  <2>3. \A u \in Task : owner[u] # w
    BY <2>2, CloudAssumption DEF TypeOK
  <2>4. LossExcused'
    <3> SUFFICES ASSUME NEW v \in Worker, msg'[v] # NoOne
                 PROVE  owner'[msg'[v]] = v \/ excused[msg'[v]]
      BY <2>1 DEF LossExcused
    <3>1. CASE v = w
      BY <2>1, <3>1 DEF TypeOK
    <3>2. CASE v # w
      <4>1. msg'[v] = msg[v] /\ msg[v] \in Task /\ v # NoOne
        BY <2>1, <3>2, CloudAssumption DEF TypeOK
      <4> QED
        BY <2>1, <2>2, <4>1 DEF Finality, LossExcused, TypeOK
    <3> QED
      BY <3>1, <3>2
  <2>5. DoneIsSettled'
    BY <2>1, <2>2, <2>3 DEF Finality, DoneIsSettled, TypeOK
  <2> QED
    BY <2>4, <2>5 DEF Finality
<1>2. CASE HandlerReturns(w)
  <2>1. /\ msg[w] \in Task /\ msg[w] # NoOne /\ w # NoOne
        /\ done' = [done EXCEPT ![msg[w]] = TRUE]
        /\ pc' = [pc EXCEPT ![w] = "ack"]
        /\ UNCHANGED <<job, owner, msg, excused>>
    BY <1>2, HasTask, CloudAssumption DEF HandlerReturns, Goto, history
  <2> QED
    BY <2>1 DEF Finality, LossExcused, DoneIsSettled, TypeOK
<1>3. CASE HandlerRaises(w) \/ Start(w)
  BY <1>3 DEF HandlerRaises, Start, Goto, history, Finality, LossExcused, DoneIsSettled, TypeOK
<1> QED
  BY <1>1, <1>2, <1>3

LEMMA InitFinal == Init => Finality
BY DEF Init, Finality, LossExcused, DoneIsSettled

LEMMA StepFinal == IInv /\ Finality /\ [Next]_vars => Finality'
<1> SUFFICES ASSUME IInv, Finality, [Next]_vars PROVE Finality'
  OBVIOUS
<1>1. CASE UNCHANGED vars
  BY <1>1 DEF vars, Finality, LossExcused, DoneIsSettled
<1>2. ASSUME NEW t \in Task, Send(t) \/ Add(t) PROVE Finality'
  BY <1>2 DEF Send, Add, Submitted, history, Finality, LossExcused, DoneIsSettled, IInv, TypeOK
<1>3. ASSUME NEW t \in Task, ReceiveFails(t) \/ BecomesVisible(t) \/ Stalls(t)
      PROVE  Finality'
  BY <1>3, ServiceFinal
<1>4. ASSUME NEW w \in Worker, Work(w) \/ Stop(w) PROVE Finality'
  <2>1. ASSUME NEW t \in Task, Receive(w, t) \/ ProcessJob(w, t) PROVE Finality'
    BY <2>1, WorkFinal DEF Receive, ProcessJob
  <2> QED
    BY <1>4, <2>1, WorkFinal, AnswersFinal, StopFinal DEF Work
<1> QED
  BY <1>1, <1>2, <1>3, <1>4 DEF Next

(***************************************************************************)
(* Exactly once when nothing goes wrong: on either service, for any number *)
(* of tasks and workers, a task that was done is handed out again only if  *)
(* a death, a timeout or a failed request excuses it.  One that waits has  *)
(* no owner, so that DoneIsSettled leaves it nothing but the excuse.       *)
(***************************************************************************)
THEOREM CloudDoneIsFinal == Spec => DoneIsFinal
<1> DEFINE Handed == \A t \in Task :
                        (done[t] /\ job[t] = "waiting" /\ job'[t] = "hidden") => excused[t]
<1>1. IInv /\ Finality => Handed
  BY DEF IInv, Finality, DoneIsSettled, TypeOK
<1>2. IInv /\ Finality /\ [Next]_vars => [Handed]_vars
  BY <1>1
<1> QED
  BY InitHolds, StepKeeps, InitFinal, StepFinal, <1>2, PTL DEF Spec, DoneIsFinal
-----------------------------------------------------------------------------
(***************************************************************************)
(* The refinement of AtLeastOnce.                                          *)
(***************************************************************************)
LEMMA Stutters ==
    ASSUME UNCHANGED <<job, msg, done>>
    PROVE  UNCHANGED Hosted!vars
BY DEF Hosted!vars, State, Holders

\* One task changes its state.
LEMMA StateBecomes ==
    ASSUME TypeOK, NEW t \in Task, NEW s \in JobState, job' = [job EXCEPT ![t] = s]
    PROVE  State[t] = Names[job[t]] /\ Hosted!Becomes(t, Names[s])
BY DEF TypeOK, State, Hosted!Becomes

\* What a job that is not settled is called.
LEMMA OpenNames ==
    ASSUME TypeOK, NEW t \in Task
    PROVE  /\ job[t] = "new" <=> State[t] = "new"
           /\ job[t] = "waiting" <=> State[t] = "waiting"
           /\ job[t] = "hidden" <=> State[t] = "taken"
BY DEF TypeOK, JobState, State, Names

\* A worker lets go of its task.
LEMMA Forgets ==
    ASSUME IInv, NEW w \in Worker, msg[w] \in Task, msg' = [msg EXCEPT ![w] = NoOne],
           UNCHANGED done
    PROVE  Hosted!Drop(msg[w], w)
<1>1. msg \in [Worker -> Task \cup {NoOne}] /\ NoOne \notin Task
  BY CloudAssumption DEF IInv, TypeOK
<1>2. ASSUME NEW u \in Task
      PROVE  {v \in Worker : msg'[v] = u}
                 = IF u = msg[w] THEN {v \in Worker : msg[v] = u} \ {w}
                                 ELSE {v \in Worker : msg[v] = u}
  BY <1>1
<1>3. w \in Holders[msg[w]]
  BY DEF Holders
<1>4. Holders' = [Holders EXCEPT ![msg[w]] = @ \ {w}]
  BY <1>2 DEF Holders
<1> QED
  BY <1>3, <1>4 DEF Hosted!Drop

LEMMA GivenRefines ==
    ASSUME IInv, NEW w \in Worker, NEW t \in Task, Given(w, t)
    PROVE  Hosted!Take(t, w)
<1>1. msg \in [Worker -> Task \cup {NoOne}] /\ NoOne \notin Task /\ msg[w] = NoOne
  BY CloudAssumption DEF IInv, TypeOK, Honest, Given
<1>2. msg' = [msg EXCEPT ![w] = t] /\ job[t] = "waiting" /\ UNCHANGED done
  BY DEF Given
<1>3. \A u \in Task : w \notin Holders[u]
  BY <1>1 DEF Holders
<1>4. ASSUME NEW u \in Task
      PROVE  {v \in Worker : msg'[v] = u}
                 = IF u = t THEN {v \in Worker : msg[v] = u} \cup {w}
                            ELSE {v \in Worker : msg[v] = u}
  BY <1>1, <1>2
<1>5. Holders' = [Holders EXCEPT ![t] = @ \cup {w}]
  BY <1>4 DEF Holders
<1>6. State[t] = "waiting" /\ Hosted!Becomes(t, "taken")
  BY <1>2, StateBecomes, OpenNames DEF Given, IInv, JobState, Names
<1> QED
  BY <1>2, <1>3, <1>5, <1>6 DEF Hosted!Take

\* The service moves a task that nobody lets go of.
LEMMA ServiceRefines ==
    ASSUME IInv, NEW t \in Task, Submitted(t) \/ ReceiveFails(t) \/ BecomesVisible(t) \/ Stalls(t)
    PROVE  Hosted!Submit(t) \/ Hosted!Mislay(t) \/ Hosted!Return(t)
<1>0. UNCHANGED Holders /\ UNCHANGED done
  BY DEF Submitted, ReceiveFails, BecomesVisible, Stalls, Holders
<1>1. CASE Submitted(t)
  <2>1. job[t] = "new" /\ job' = [job EXCEPT ![t] = "waiting"]
    BY <1>1 DEF Submitted
  <2>2. State[t] = "new" /\ Hosted!Becomes(t, "waiting")
    BY <2>1, StateBecomes, OpenNames DEF IInv, JobState, Names
  <2> QED
    BY <1>0, <2>2 DEF Hosted!Submit
<1>2. CASE ReceiveFails(t)
  <2>1. job[t] = "waiting" /\ job' = [job EXCEPT ![t] = "hidden"]
    BY <1>2 DEF ReceiveFails, Leave
  <2>2. State[t] = "waiting" /\ Hosted!Becomes(t, "taken")
    BY <2>1, StateBecomes, OpenNames DEF IInv, JobState, Names
  <2> QED
    BY <1>0, <2>2 DEF Hosted!Mislay
<1>3. CASE BecomesVisible(t) \/ Stalls(t)
  <2>1. /\ job[t] = "hidden"
        /\ \E s \in {"waiting", "failed"} : job' = [job EXCEPT ![t] = s]
    BY <1>3 DEF BecomesVisible, Stalls, Leave
  <2>2. State[t] = "taken" /\ \E s \in {"waiting", "buried"} : Hosted!Becomes(t, s)
    BY <2>1, StateBecomes, OpenNames DEF IInv, JobState, Names
  <2> QED
    BY <1>0, <2>2 DEF Hosted!Return
<1> QED
  BY <1>1, <1>2, <1>3

\* An answer finishes the task, buries it, or only lets go of it.
LEMMA AnswerRefines ==
    ASSUME IInv, NEW w \in Worker, Ack(w) \/ Nack(w) \/ Finish(w)
    PROVE  \/ Hosted!Finish(msg[w], w)
           \/ Hosted!Bury(msg[w], w)
           \/ Hosted!Abandon(msg[w], w)
<1> DEFINE t == msg[w]
<1>1. pc[w] \in {"ack", "nack"} /\ t \in Task
  BY HasTask DEF Ack, Nack, Finish
<1>2. TypeOK /\ job \in [Task -> JobState]
  BY DEF IInv, TypeOK
<1>3. Hosted!Drop(t, w)
  <2>1. msg' = [msg EXCEPT ![w] = NoOne] /\ UNCHANGED done
    BY DEF Ack, Nack, Finish, Forget
  <2> QED
    BY <1>1, <2>1, Forgets
<1>4. Owned(w) => job[t] = "hidden"
  BY <1>1, CloudAssumption DEF IInv, TypeOK, Owned
<1>5. \/ /\ pc[w] = "ack" /\ job[t] \in {"waiting", "hidden"}
         /\ job' = [job EXCEPT ![t] = "gone"]
      \/ /\ job[t] = "hidden" /\ job' = [job EXCEPT ![t] = "failed"]
      \/ /\ job[t] = "hidden" /\ job' = [job EXCEPT ![t] = "hidden"]
      \/ UNCHANGED job
  BY <1>4 DEF Ack, Nack, Finish, Leave
<1> HIDE DEF t
<1>6. CASE /\ pc[w] = "ack" /\ job[t] \in {"waiting", "hidden"}
           /\ job' = [job EXCEPT ![t] = "gone"]
  <2>1. done[t]
    BY <1>6 DEF IInv, Honest, t
  <2>2. State[t] \in {"waiting", "taken"} /\ Hosted!Becomes(t, "finished")
    BY <1>1, <1>2, <1>6, StateBecomes, OpenNames DEF JobState, Names
  <2> QED
    BY <1>3, <2>1, <2>2 DEF Hosted!Finish, t
<1>7. CASE job[t] = "hidden" /\ job' = [job EXCEPT ![t] = "failed"]
  <2>1. State[t] = "taken" /\ Hosted!Becomes(t, "buried")
    BY <1>1, <1>2, <1>7, StateBecomes, OpenNames DEF JobState, Names
  <2> QED
    BY <1>3, <2>1 DEF Hosted!Bury, t
<1>8. CASE (job[t] = "hidden" /\ job' = [job EXCEPT ![t] = "hidden"]) \/ UNCHANGED job
  <2>1. UNCHANGED job
    BY <1>2, <1>8
  <2> QED
    BY <1>3, <2>1 DEF Hosted!Abandon, State, t
<1> QED
  BY <1>5, <1>6, <1>7, <1>8

\* A worker runs its handler, or dies and starts again.
LEMMA WorkerRefines ==
    ASSUME IInv, NEW w \in Worker,
           HandlerReturns(w) \/ HandlerRaises(w) \/ Stop(w) \/ Start(w)
    PROVE  \/ UNCHANGED Hosted!vars
           \/ msg[w] \in Task /\ (Hosted!Execute(msg[w], w) \/ Hosted!Abandon(msg[w], w))
<1>1. CASE HandlerReturns(w)
  <2>1. msg[w] \in Task
    BY <1>1, HasTask DEF HandlerReturns
  <2>2. w \in Holders[msg[w]] /\ UNCHANGED <<State, Holders>>
    BY <1>1, <2>1 DEF HandlerReturns, State, Holders
  <2>3. done' = [done EXCEPT ![msg[w]] = TRUE]
    BY <1>1 DEF HandlerReturns
  <2> QED
    BY <2>1, <2>2, <2>3 DEF Hosted!Execute
<1>2. CASE HandlerRaises(w) \/ Start(w)
  BY <1>2, Stutters DEF HandlerRaises, Start, history
<1>3. CASE Stop(w)
  <2>1. msg' = [msg EXCEPT ![w] = NoOne] /\ UNCHANGED <<job, done>>
    BY <1>3 DEF Stop, Forget
  <2>2. msg \in [Worker -> Task \cup {NoOne}]
    BY DEF IInv, TypeOK
  <2>3. CASE msg[w] = NoOne
    <3>1. UNCHANGED msg
      BY <2>1, <2>2, <2>3
    <3> QED
      BY <2>1, <3>1, Stutters
  <2>4. CASE msg[w] \in Task
    BY <2>1, <2>4, Forgets DEF Hosted!Abandon, State
  <2> QED
    BY <2>2, <2>3, <2>4
<1> QED
  BY <1>1, <1>2, <1>3

(***************************************************************************)
(* SQS with the consumer loop, and BullMQ, implement AtLeastOnce, for any  *)
(* tasks and workers and whatever times out, dies or fails: an answer that *)
(* comes too late revives nothing that was settled, and nothing is settled *)
(* that nobody has done.                                                   *)
(***************************************************************************)
THEOREM CloudImplementsAtLeastOnce == Spec => ImplementsAtLeastOnce
<1>1. Init => Hosted!Init
  <2> SUFFICES ASSUME Init PROVE Hosted!Init
    OBVIOUS
  <2>1. State = [t \in Task |-> "new"]
    BY DEF Init, State, Names
  <2>2. Holders = [t \in Task |-> {}]
    BY CloudAssumption DEF Init, Holders
  <2> QED
    BY <2>1, <2>2 DEF Init, Hosted!Init
<1>2. IInv /\ [Next]_vars => [Hosted!Next]_(Hosted!vars)
  <2> SUFFICES ASSUME IInv, [Next]_vars PROVE [Hosted!Next]_(Hosted!vars)
    OBVIOUS
  <2>1. ASSUME NEW t \in Task, Send(t) \/ Add(t) \/ ReceiveFails(t) \/ BecomesVisible(t) \/ Stalls(t)
        PROVE  Hosted!Next
    BY <2>1, ServiceRefines DEF Send, Add, Hosted!Next
  <2>2. ASSUME NEW w \in Worker, NEW t \in Task, Receive(w, t) \/ ProcessJob(w, t)
        PROVE  Hosted!Next
    BY <2>2, GivenRefines DEF Receive, ProcessJob, Hosted!Next
  <2>3. ASSUME NEW w \in Worker, Ack(w) \/ Nack(w) \/ Finish(w)
        PROVE  Hosted!Next
    <3>1. msg[w] \in Task
      BY <2>3, HasTask DEF Ack, Nack, Finish
    <3> QED
      BY <2>3, <3>1, AnswerRefines DEF Hosted!Next
  <2>4. ASSUME NEW w \in Worker, HandlerReturns(w) \/ HandlerRaises(w) \/ Stop(w) \/ Start(w)
        PROVE  [Hosted!Next]_(Hosted!vars)
    BY <2>4, WorkerRefines DEF Hosted!Next
  <2>5. CASE UNCHANGED vars
    BY <2>5, Stutters DEF vars
  <2> QED
    BY <2>1, <2>2, <2>3, <2>4, <2>5 DEF Next, Work
<1> QED
  BY <1>1, <1>2, InitHolds, StepKeeps, PTL DEF Spec, ImplementsAtLeastOnce, Hosted!Spec
=============================================================================
