---------------------------- MODULE QueueProofs -----------------------------
(***************************************************************************)
(* Proofs about SqliteQueue, for every set of tasks and workers, with any  *)
(* number of stops: its invariants, and that it implements TaskQueue.      *)
(* Then about Sweep, the task of the scheduler that its workers execute.   *)
(***************************************************************************)
EXTENDS SqliteQueue, FiniteSetTheorems, TLAPS

(***************************************************************************)
(* What makes the invariants inductive: a worker between its dequeue and   *)
(* its release holds a row in "processing" whose attempts nobody else      *)
(* changes, and no other worker holds the same row.                        *)
(***************************************************************************)
Holding ==
    \A w \in Worker : msg[w] # NoTask =>
        /\ rows[msg[w]].status = "processing"
        /\ rows[msg[w]].attempts = seen[w]
        /\ pc[w] = "retry" => seen[w] < MAX_RETRIES
        /\ pc[w] = "fail" => seen[w] = MAX_RETRIES

Exclusive ==
    \A v, w \in Worker : msg[v] = msg[w] /\ msg[v] # NoTask => v = w

IInv == TypeOK /\ Holding /\ Exclusive /\ RunsCounted

\* An empty queue and idle workers satisfy the invariant.
LEMMA InitInv == Init => IInv
<1> SUFFICES ASSUME Init PROVE IInv
  OBVIOUS
<1>1. TypeOK
  BY QueueAssumption DEF Init, TypeOK, Row, PC, MAX_RETRIES
<1>2. Holding /\ Exclusive /\ RunsCounted
  BY DEF Init, Holding, Exclusive, RunsCounted
<1>3. QED
  BY <1>1, <1>2 DEF IInv

\* A task is enqueued or becomes due: nobody holds it.
LEMMA TaskStepInv ==
    ASSUME IInv, NEW t \in Task, Enqueue(t) \/ BackoffEnds(t)
    PROVE  IInv'
<1> USE DEF IInv
<1>1. \A u \in Task :
         /\ rows'[u].attempts = rows[u].attempts
         /\ u # t => rows'[u] = rows[u]
  BY DEF Enqueue, BackoffEnds, TypeOK, Row
<1>2. rows[t].status \in {"new", "pending"} /\ rows'[t].status = "pending"
  BY DEF Enqueue, BackoffEnds, TypeOK, Row
<1>3. /\ UNCHANGED <<pc, msg, seen, runs, stops>>
      /\ order' \in Seq(Task)
      /\ rows' \in [Task -> Row]
  <2>1. rows[t] \in Row
    BY DEF TypeOK
  <2>2. [rows[t] EXCEPT !.status = "pending"] \in Row
    BY <2>1 DEF Row
  <2>3. [rows[t] EXCEPT !.due = TRUE] \in Row
    BY <2>1 DEF Row
  <2>4. rows' \in [Task -> Row]
    BY <2>2, <2>3 DEF Enqueue, BackoffEnds, TypeOK
  <2>5. order' \in Seq(Task)
    <3>1. order \in Seq(Task)
      BY DEF TypeOK
    <3>2. Append(order, t) \in Seq(Task)
      BY <3>1
    <3>3. order' \in {order, Append(order, t)}
      BY DEF Enqueue, BackoffEnds
    <3>4. QED
      BY <3>1, <3>2, <3>3
  <2>6. UNCHANGED <<pc, msg, seen, runs, stops>>
    BY DEF Enqueue, BackoffEnds
  <2>7. QED
    BY <2>4, <2>5, <2>6
<1>4. TypeOK'
  BY <1>3 DEF TypeOK
<1>5. Holding'
  BY <1>1, <1>2, <1>3 DEF Holding, TypeOK
<1>6. Exclusive' /\ RunsCounted'
  BY <1>1, <1>2, <1>3 DEF Exclusive, RunsCounted
<1>7. QED
  BY <1>4, <1>5, <1>6

\* A worker takes a pending task, which nobody holds.
LEMMA DequeueInv ==
    ASSUME IInv, NEW w \in Worker, Dequeue(w)
    PROVE  IInv'
<1> USE DEF IInv
<1>1. PICK i \in Candidates :
         /\ msg' = [msg EXCEPT ![w] = order[i]]
         /\ seen' = [seen EXCEPT ![w] = rows[order[i]].attempts]
         /\ rows' = [rows EXCEPT ![order[i]].status = "processing"]
         /\ runs' = [runs EXCEPT ![order[i]] = @ + 1]
  BY DEF Dequeue
<1> DEFINE t == order[i]
<1>2. t \in Task /\ rows[t].status = "pending" /\ t # NoTask
  BY <1>1, QueueAssumption DEF Candidates, TypeOK
<1>3. pc' = [pc EXCEPT ![w] = "run"] /\ pc[w] = "poll" /\ UNCHANGED <<order, stops>>
  BY DEF Dequeue, Goto
<1> HIDE DEF t
<1>4. /\ msg' = [msg EXCEPT ![w] = t]
      /\ seen' = [seen EXCEPT ![w] = rows[t].attempts]
      /\ rows' = [rows EXCEPT ![t].status = "processing"]
      /\ runs' = [runs EXCEPT ![t] = @ + 1]
  BY <1>1 DEF t
<1>5. \A v \in Worker : msg[v] # t
  BY <1>2 DEF Holding
<1>6. TypeOK'
  <2>1. rows' \in [Task -> Row]
    <3>1. rows[t] \in Row
      BY <1>2 DEF TypeOK
    <3>2. [rows[t] EXCEPT !.status = "processing"] \in Row
      BY <3>1 DEF Row
    <3>3. QED
      BY <3>2, <1>4 DEF TypeOK
  <2>2. seen' \in [Worker -> 0 .. MAX_RETRIES]
    <3>1. rows[t].attempts \in 0 .. MAX_RETRIES
      BY <1>2 DEF TypeOK, Row
    <3>2. QED
      BY <3>1, <1>4 DEF TypeOK
  <2>3. runs' \in [Task -> Nat]
    BY <1>2, <1>4 DEF TypeOK
  <2>4. msg' \in [Worker -> Task \cup {NoTask}] /\ pc' \in [Worker -> PC]
    BY <1>2, <1>3, <1>4 DEF TypeOK, PC
  <2>5. \A v \in Worker : msg'[v] = NoTask <=> pc'[v] \in {"poll", "stopped"}
    BY <1>2, <1>3, <1>4 DEF TypeOK
  <2>6. QED
    BY <1>3, <2>1, <2>2, <2>3, <2>4, <2>5 DEF TypeOK
<1>7. Holding'
  BY <1>2, <1>3, <1>4, <1>5 DEF Holding, TypeOK, Row
<1>8. Exclusive'
  BY <1>3, <1>4, <1>5 DEF Exclusive, TypeOK
<1>9. RunsCounted'
  BY <1>2, <1>4 DEF RunsCounted, TypeOK, Row
<1>10. QED
  BY <1>6, <1>7, <1>8, <1>9

\* The handler ends, or the ack raises: the worker decides what to do next.
LEMMA DecideInv ==
    ASSUME IInv, NEW w \in Worker,
           HandlerReturns(w) \/ HandlerRaises(w) \/ AckRaises(w)
    PROVE  IInv'
<1> USE DEF IInv
<1>1. /\ UNCHANGED <<rows, order, msg, seen, runs, stops>>
      /\ pc[w] \in {"run", "ack"}
      /\ pc' = [pc EXCEPT ![w] = "ack"] \/ pc' = [pc EXCEPT ![w] = AfterError(w)]
  BY DEF HandlerReturns, HandlerRaises, AckRaises, Goto
<1>2. /\ AfterError(w) \in {"retry", "fail"}
      /\ AfterError(w) = "retry" => seen[w] < MAX_RETRIES
      /\ AfterError(w) = "fail" => seen[w] = MAX_RETRIES
  BY DEF AfterError, TypeOK, MAX_RETRIES
<1>3. TypeOK'
  BY <1>1, <1>2 DEF TypeOK, PC
<1>4. Holding'
  BY <1>1, <1>2 DEF Holding, TypeOK
<1>5. Exclusive' /\ RunsCounted'
  BY <1>1 DEF Exclusive, RunsCounted
<1>6. QED
  BY <1>3, <1>4, <1>5

\* A worker writes the fate of the task it holds and lets go of it.
LEMMA SettleInv ==
    ASSUME IInv, NEW w \in Worker, Ack(w) \/ Nack(w) \/ Fail(w)
    PROVE  IInv'
<1> USE DEF IInv
<1> DEFINE t == msg[w]
<1>1. /\ t \in Task /\ t # NoTask
      /\ rows[t].status = "processing"
      /\ rows[t].attempts = seen[w]
  BY QueueAssumption DEF Ack, Nack, Fail, Holding, TypeOK
<1>2. \/ rows' = [rows EXCEPT ![t].status = "deleted"]
      \/ rows' = [rows EXCEPT ![t].status = "failed"]
      \/ /\ rows' = [rows EXCEPT ![t].status = "pending", ![t].attempts = @ + 1,
                                 ![t].due = FALSE]
         /\ seen[w] < MAX_RETRIES
  BY <1>1 DEF Ack, Nack, Fail, Holding
<1>3. /\ msg' = [msg EXCEPT ![w] = NoTask]
      /\ pc' = [pc EXCEPT ![w] = "poll"]
      /\ UNCHANGED <<order, seen, runs, stops>>
  BY DEF Ack, Nack, Fail, Release, Goto
<1>4. rows' \in [Task -> Row] /\ \A u \in Task : u # t => rows'[u] = rows[u]
  <2>1. rows[t] \in Row /\ seen[w] \in Nat
    BY <1>1 DEF TypeOK
  <2>2. CASE rows' = [rows EXCEPT ![t].status = "deleted"]
    <3>1. [rows[t] EXCEPT !.status = "deleted"] \in Row
      BY <2>1 DEF Row
    <3>2. QED
      BY <3>1, <2>2, <1>1 DEF TypeOK
  <2>3. CASE rows' = [rows EXCEPT ![t].status = "failed"]
    <3>1. [rows[t] EXCEPT !.status = "failed"] \in Row
      BY <2>1 DEF Row
    <3>2. QED
      BY <3>1, <2>3, <1>1 DEF TypeOK
  <2>4. CASE /\ rows' = [rows EXCEPT ![t].status = "pending", ![t].attempts = @ + 1,
                                     ![t].due = FALSE]
             /\ seen[w] < MAX_RETRIES
    <3>1. rows[t].attempts + 1 \in 0 .. MAX_RETRIES
      BY <2>1, <2>4, <1>1 DEF Row, MAX_RETRIES
    <3>2. [rows[t] EXCEPT !.status = "pending", !.attempts = @ + 1, !.due = FALSE] \in Row
      BY <2>1, <3>1 DEF Row
    <3>3. QED
      BY <3>2, <2>4, <1>1 DEF TypeOK
  <2>5. QED
    BY <1>2, <2>2, <2>3, <2>4
<1>5. TypeOK'
  BY <1>3, <1>4 DEF TypeOK, PC
<1>6. Holding'
  BY <1>1, <1>3, <1>4 DEF Holding, Exclusive, TypeOK
<1>7. Exclusive'
  BY <1>3 DEF Exclusive, TypeOK
<1>8. RunsCounted'
  <2> SUFFICES ASSUME NEW u \in Task
               PROVE  runs'[u] = rows'[u].attempts
                        + IF rows'[u].status \in {"processing", "failed", "deleted"}
                          THEN 1 ELSE 0
    BY DEF RunsCounted
  <2>1. CASE u # t
    BY <2>1, <1>3, <1>4 DEF RunsCounted
  <2>2. CASE u = t
    <3>1. runs[t] = rows[t].attempts + 1 /\ rows[t].attempts \in Nat
      BY <1>1 DEF RunsCounted, TypeOK, Row
    <3>2. \/ /\ rows'[t].attempts = rows[t].attempts
             /\ rows'[t].status \in {"deleted", "failed"}
          \/ /\ rows'[t].attempts = rows[t].attempts + 1
             /\ rows'[t].status = "pending"
      <4>1. rows[t] \in Row /\ rows \in [Task -> Row]
        BY <1>1 DEF TypeOK
      <4>2. CASE rows' = [rows EXCEPT ![t].status = "deleted"]
        BY <4>1, <4>2, <1>1 DEF Row
      <4>3. CASE rows' = [rows EXCEPT ![t].status = "failed"]
        BY <4>1, <4>3, <1>1 DEF Row
      <4>4. CASE rows' = [rows EXCEPT ![t].status = "pending", ![t].attempts = @ + 1,
                                      ![t].due = FALSE]
        BY <4>1, <4>4, <1>1 DEF Row
      <4>5. QED
        BY <4>2, <4>3, <4>4, <1>2
    <3>3. QED
      BY <3>1, <3>2, <2>2, <1>3
  <2>3. QED
    BY <2>1, <2>2
<1>9. QED
  BY <1>5, <1>6, <1>7, <1>8

\* A worker loses its task, or comes back without one.
LEMMA LoseInv ==
    ASSUME IInv, NEW w \in Worker, GivesUp(w) \/ Stop(w) \/ Restart(w)
    PROVE  IInv'
<1> USE DEF IInv
<1>1. /\ UNCHANGED <<rows, order, seen, runs>>
      /\ msg' = [msg EXCEPT ![w] = NoTask]
      /\ pc' = [pc EXCEPT ![w] = "poll"] \/ pc' = [pc EXCEPT ![w] = "stopped"]
      /\ stops' \in 0 .. MaxStops
  BY QueueAssumption DEF GivesUp, Stop, Restart, Release, Goto, TypeOK
<1>2. TypeOK'
  BY <1>1 DEF TypeOK, PC
<1>3. Holding' /\ Exclusive' /\ RunsCounted'
  BY <1>1 DEF Holding, Exclusive, RunsCounted, TypeOK
<1>4. QED
  BY <1>2, <1>3

\* The invariant is inductive.
LEMMA NextInv == IInv /\ [Next]_vars => IInv'
<1> SUFFICES ASSUME IInv, [Next]_vars PROVE IInv'
  OBVIOUS
<1>1. CASE Next
  BY <1>1, TaskStepInv, DequeueInv, DecideInv, SettleInv, LoseInv DEF Next, Work
<1>2. CASE UNCHANGED vars
  BY <1>2 DEF vars, IInv, TypeOK, Holding, Exclusive, RunsCounted
<1>3. QED
  BY <1>1, <1>2

(***************************************************************************)
(* Type correctness: in particular, no row counts more than MAX_RETRIES    *)
(* attempts.                                                               *)
(***************************************************************************)
THEOREM QueueTypeCorrect == Spec => []TypeOK
BY InitInv, NextInv, PTL DEF Spec, IInv

(***************************************************************************)
(* The attempts of a row count the executions of its task, whatever raises *)
(* and whoever stops: with TypeOK, a task runs MAX_RETRIES + 1 times at    *)
(* most.                                                                   *)
(***************************************************************************)
THEOREM AttemptsCountRuns == Spec => []RunsCounted
BY InitInv, NextInv, PTL DEF Spec, IInv
-----------------------------------------------------------------------------
\* The abstract state changes where the rows do, the holders where msg does.
LEMMA StateChange ==
    ASSUME IInv, NEW t \in Task, NEW s,
           \A u \in Task : u # t => rows'[u].status = rows[u].status,
           Names[rows'[t].status] = s
    PROVE  State' = [State EXCEPT ![t] = s]
BY DEF State

\* A worker that lets go of its task was the only one to hold it.
LEMMA HolderFree ==
    ASSUME IInv, NEW w \in Worker, msg[w] # NoTask, msg' = [msg EXCEPT ![w] = NoTask]
    PROVE  /\ Holder[msg[w]] = {w}
           /\ Holder' = [Holder EXCEPT ![msg[w]] = {}]
<1> USE DEF IInv
<1>1. msg[w] \in Task /\ msg \in [Worker -> Task \cup {NoTask}]
  BY DEF TypeOK
<1>2. \A v \in Worker : msg[v] = msg[w] => v = w
  BY DEF Exclusive
<1>3. Holder[msg[w]] = {w}
  BY <1>1, <1>2 DEF Holder
<1>4. \A t \in Task : {v \in Worker : msg'[v] = t}
                        = IF t = msg[w] THEN {} ELSE {v \in Worker : msg[v] = t}
  BY <1>1, <1>2, QueueAssumption
<1>5. QED
  BY <1>1, <1>3, <1>4 DEF Holder

\* Nothing the queue promises about has changed.
LEMMA Stutter ==
    ASSUME UNCHANGED <<msg, runs>>,
           \A t \in Task : rows'[t].status = rows[t].status
    PROVE  UNCHANGED Queue!vars
BY DEF Queue!vars, State, Holder

\* Enqueuing a task submits it; a backoff that ends changes nothing.
LEMMA TaskStepRefines ==
    ASSUME IInv, NEW t \in Task, Enqueue(t) \/ BackoffEnds(t)
    PROVE  [Queue!Next]_Queue!vars
<1> USE DEF IInv
<1>1. CASE Enqueue(t)
  <2>1. /\ rows' = [rows EXCEPT ![t].status = "pending"] /\ rows[t].status = "new"
        /\ UNCHANGED <<msg, runs>>
    BY <1>1 DEF Enqueue
  <2>2. /\ rows'[t].status = "pending"
        /\ \A u \in Task : u # t => rows'[u].status = rows[u].status
    BY <2>1 DEF TypeOK, Row
  <2>3. State' = [State EXCEPT ![t] = "waiting"]
    <3>1. Names[rows'[t].status] = "waiting"
      BY <2>2 DEF Names
    <3>2. QED
      BY <2>2, <3>1, StateChange
  <2>4. State[t] = "new"
    BY <2>1 DEF State, Names
  <2>5. Queue!Submit(t)
    BY <2>1, <2>3, <2>4 DEF Queue!Submit, Holder
  <2>6. QED
    BY <2>5 DEF Queue!Next
<1>2. CASE BackoffEnds(t)
  <2>1. /\ rows' = [rows EXCEPT ![t].due = TRUE]
        /\ UNCHANGED <<msg, runs>>
    BY <1>2 DEF BackoffEnds
  <2>2. \A u \in Task : rows'[u].status = rows[u].status
    BY <2>1 DEF TypeOK, Row
  <2>3. QED
    BY <2>1, <2>2, Stutter
<1>3. QED
  BY <1>1, <1>2

\* A dequeue takes a waiting task that may still run.
LEMMA DequeueRefines ==
    ASSUME IInv, NEW w \in Worker, Dequeue(w)
    PROVE  [Queue!Next]_Queue!vars
<1> USE DEF IInv
<1>1. PICK i \in Candidates :
         /\ msg' = [msg EXCEPT ![w] = order[i]]
         /\ rows' = [rows EXCEPT ![order[i]].status = "processing"]
         /\ runs' = [runs EXCEPT ![order[i]] = @ + 1]
  BY DEF Dequeue
<1> DEFINE t == order[i]
<1>2. t \in Task /\ rows[t].status = "pending" /\ t # NoTask
  BY QueueAssumption DEF Candidates, TypeOK
<1>3. msg[w] = NoTask
  BY DEF Dequeue, TypeOK
<1> HIDE DEF t
<1>4. /\ msg' = [msg EXCEPT ![w] = t]
      /\ rows' = [rows EXCEPT ![t].status = "processing"]
      /\ runs' = [runs EXCEPT ![t] = @ + 1]
  BY <1>1 DEF t
<1>5. \A v \in Worker : msg[v] # t
  BY <1>2 DEF Holding
<1>6. State' = [State EXCEPT ![t] = "taken"] /\ State[t] = "waiting"
  <2>1. /\ rows'[t].status = "processing"
        /\ \A u \in Task : u # t => rows'[u].status = rows[u].status
    BY <1>2, <1>4 DEF TypeOK, Row
  <2>2. Names[rows'[t].status] = "taken" /\ Names[rows[t].status] = "waiting"
    BY <1>2, <2>1 DEF Names
  <2>3. State[t] = "waiting"
    BY <1>2, <2>2 DEF State
  <2>4. QED
    BY <1>2, <2>1, <2>2, <2>3, StateChange
<1>7. Holder' = [Holder EXCEPT ![t] = {w}]
  <2>1. \A u \in Task : {v \in Worker : msg'[v] = u}
                          = IF u = t THEN {w} ELSE {v \in Worker : msg[v] = u}
    BY <1>2, <1>3, <1>4, <1>5, QueueAssumption DEF TypeOK
  <2>2. QED
    BY <1>2, <2>1 DEF Holder
<1>8. runs[t] < MAX_RETRIES + 1
  <2>1. rows[t].attempts \in 0 .. MAX_RETRIES /\ runs[t] = rows[t].attempts
    <3>1. rows[t] \in Row /\ runs[t] \in Nat
      BY <1>2 DEF TypeOK
    <3>2. QED
      BY <1>2, <3>1 DEF Row, RunsCounted
  <2>2. QED
    BY <2>1 DEF MAX_RETRIES
<1>9. Queue!Take(t, w)
  BY <1>4, <1>6, <1>7, <1>8 DEF Queue!Take
<1>10. QED
  BY <1>2, <1>9 DEF Queue!Next

\* Ack, nack and fail release the task with the outcome the queue promises.
LEMMA SettleRefines ==
    ASSUME IInv, NEW w \in Worker, Ack(w) \/ Nack(w) \/ Fail(w)
    PROVE  [Queue!Next]_Queue!vars
<1> USE DEF IInv
<1> DEFINE t == msg[w]
<1>1. /\ t \in Task /\ t # NoTask
      /\ rows[t].status = "processing"
      /\ rows[t].attempts = seen[w]
      /\ seen[w] \in 0 .. MAX_RETRIES
      /\ rows \in [Task -> Row]
  BY QueueAssumption DEF Ack, Nack, Fail, Holding, TypeOK
<1>2. Holder[t] = {w} /\ Holder' = [Holder EXCEPT ![t] = {}] /\ UNCHANGED runs
  BY <1>1, HolderFree DEF Ack, Nack, Fail, Release
<1>3. State[t] = "taken"
  BY <1>1 DEF State, Names
<1>4. runs[t] = seen[w] + 1
  BY <1>1 DEF RunsCounted
<1>5. ASSUME NEW s, NEW n, Names[s] = n, rows'[t].status = s,
             \A u \in Task : u # t => rows'[u] = rows[u]
      PROVE  State' = [State EXCEPT ![t] = n]
  BY <1>1, <1>5, StateChange
<1>6. CASE Ack(w)
  <2>1. State' = [State EXCEPT ![t] = "finished"]
    <3>1. /\ rows'[t].status = "deleted"
          /\ \A u \in Task : u # t => rows'[u] = rows[u]
      BY <1>1, <1>6 DEF Ack, Row
    <3>2. Names["deleted"] = "finished"
      BY DEF Names
    <3>3. QED
      BY <1>5, <3>1, <3>2
  <2>2. Queue!Release(t, w, "finished")
    BY <1>2, <1>3, <2>1 DEF Queue!Release
  <2>3. QED
    BY <1>1, <2>2 DEF Queue!Next
<1>7. CASE Nack(w)
  <2>1. State' = [State EXCEPT ![t] = "waiting"]
    <3>1. /\ rows'[t].status = "pending"
          /\ \A u \in Task : u # t => rows'[u] = rows[u]
      BY <1>1, <1>7 DEF Nack, Row
    <3>2. Names["pending"] = "waiting"
      BY DEF Names
    <3>3. QED
      BY <1>5, <3>1, <3>2
  <2>2. runs[t] < MAX_RETRIES + 1
    BY <1>1, <1>4, <1>7 DEF Holding, Nack, MAX_RETRIES
  <2>3. Queue!Release(t, w, "waiting")
    BY <1>2, <1>3, <2>1, <2>2 DEF Queue!Release
  <2>4. QED
    BY <1>1, <2>3 DEF Queue!Next
<1>8. CASE Fail(w)
  <2>1. State' = [State EXCEPT ![t] = "buried"]
    <3>1. /\ rows'[t].status = "failed"
          /\ \A u \in Task : u # t => rows'[u] = rows[u]
      BY <1>1, <1>8 DEF Fail, Row
    <3>2. Names["failed"] = "buried"
      BY DEF Names
    <3>3. QED
      BY <1>5, <3>1, <3>2
  <2>2. runs[t] = MAX_RETRIES + 1
    BY <1>1, <1>4, <1>8 DEF Holding, Fail
  <2>3. Queue!Release(t, w, "buried")
    BY <1>2, <1>3, <2>1, <2>2 DEF Queue!Release
  <2>4. QED
    BY <1>1, <2>3 DEF Queue!Next
<1>9. QED
  BY <1>6, <1>7, <1>8

\* A worker that stops or gives up abandons the task it holds, if any.
LEMMA LoseRefines ==
    ASSUME IInv, NEW w \in Worker, GivesUp(w) \/ Stop(w) \/ Restart(w)
    PROVE  [Queue!Next]_Queue!vars
<1> USE DEF IInv
<1>1. UNCHANGED <<rows, runs>> /\ msg' = [msg EXCEPT ![w] = NoTask]
  BY DEF GivesUp, Stop, Restart, Release, TypeOK
<1>2. CASE msg[w] = NoTask
  <2>1. UNCHANGED msg
    BY <1>1, <1>2 DEF TypeOK
  <2>2. QED
    BY <1>1, <2>1, Stutter
<1>3. CASE msg[w] # NoTask
  <2>1. msg[w] \in Task /\ rows[msg[w]].status = "processing"
    BY <1>3 DEF Holding, TypeOK
  <2>2. State[msg[w]] = "taken" /\ UNCHANGED State
    BY <1>1, <2>1 DEF State, Names
  <2>3. Queue!Abandon(msg[w], w)
    BY <1>1, <1>3, <2>2, HolderFree DEF Queue!Abandon
  <2>4. QED
    BY <2>1, <2>3 DEF Queue!Next
<1>4. QED
  BY <1>2, <1>3

\* Between the handler and the write nothing the queue promises about moves.
LEMMA DecideRefines ==
    ASSUME IInv, NEW w \in Worker,
           HandlerReturns(w) \/ HandlerRaises(w) \/ AckRaises(w)
    PROVE  [Queue!Next]_Queue!vars
BY Stutter DEF HandlerReturns, HandlerRaises, AckRaises

(***************************************************************************)
(* The SQLite backend and the consumer loop implement the task queue.      *)
(***************************************************************************)
THEOREM SqliteImplementsQueue == Spec => ImplementsTaskQueue
<1>1. Init => Queue!Init
  <2> SUFFICES ASSUME Init PROVE Queue!Init
    OBVIOUS
  <2>1. State = [t \in Task |-> "new"]
    BY DEF Init, State, Names
  <2>2. Holder = [t \in Task |-> {}]
    BY QueueAssumption DEF Init, Holder
  <2>3. QED
    BY <2>1, <2>2 DEF Init, Queue!Init
<1>2. IInv /\ [Next]_vars => [Queue!Next]_Queue!vars
  <2> SUFFICES ASSUME IInv, [Next]_vars PROVE [Queue!Next]_Queue!vars
    OBVIOUS
  <2>1. CASE Next
    BY <2>1, TaskStepRefines, DequeueRefines, DecideRefines, SettleRefines, LoseRefines
       DEF Next, Work
  <2>2. CASE UNCHANGED vars
    BY <2>2, Stutter DEF vars
  <2>3. QED
    BY <2>1, <2>2
<1>3. QED
  BY <1>1, <1>2, InitInv, NextInv, PTL DEF Spec, ImplementsTaskQueue, Queue!Spec
-----------------------------------------------------------------------------
(***************************************************************************)
(* The tasks of the scheduler, which the same workers execute: a sweep,    *)
(* for any conversations, batch size and bounds.                           *)
(***************************************************************************)
CONSTANTS Conv, Limit, Targets, MaxRivals, MaxQueued, MaxFaults, NoConv

VARIABLES backend, conversations, kind, queued, busy, batch, cur, version, rivals, faults

Sweep == INSTANCE Sweep WITH rows <- conversations

\* What is left of a worker's batch.
BatchOK(w) ==
    /\ batch[w] \in [DOMAIN batch[w] -> Sweep!ActiveStatuses]
    /\ Cardinality(DOMAIN batch[w]) <= Limit
    /\ DOMAIN batch[w] \subseteq Conv \ {cur[w]}
    /\ w \notin busy => batch[w] = <<>> /\ cur[w] = NoConv

SweepInv ==
    /\ Sweep!TypeOK
    /\ batch = [w \in Worker |-> batch[w]]

\* The two instances of FiniteSets count alike.
LEMMA SameCardinality == \A S : Sweep!Cardinality(S) = Cardinality(S)
BY DEF Sweep!Cardinality, Cardinality

LEMMA SweepTyped == Sweep!TypeOK => \A w \in Worker : BatchOK(w)
BY SameCardinality DEF Sweep!TypeOK, BatchOK

\* Fewer candidates are within the limit too.
LEMMA SmallerBatch ==
    ASSUME IsFiniteSet(Conv), Limit \in Nat, NEW S \in SUBSET Conv, NEW T \in SUBSET S,
           Cardinality(S) <= Limit
    PROVE  Cardinality(T) <= Limit
<1>1. IsFiniteSet(S)
  BY FS_Subset
<1>2. Cardinality(T) <= Cardinality(S) /\ IsFiniteSet(T)
  BY <1>1, FS_Subset
<1>3. Cardinality(S) \in Nat /\ Cardinality(T) \in Nat
  BY <1>1, <1>2, FS_CardinalityType
<1> QED
  BY <1>2, <1>3

\* A batch is as large as the limit at the most.
LEMMA BatchWithinLimit ==
    ASSUME IsFiniteSet(Conv), Limit \in Nat, NEW S \in Sweep!Batches
    PROVE  S \subseteq Sweep!Candidates /\ Cardinality(S) <= Limit
<1> DEFINE n == Cardinality(Sweep!Candidates)
<1>1. Sweep!Candidates \in SUBSET Conv
  BY DEF Sweep!Candidates
<1>2. n \in Nat
  BY <1>1, FS_Subset, FS_CardinalityType
<1>3. S \subseteq Sweep!Candidates /\ Cardinality(S) = Sweep!Min({Limit, n})
  BY SameCardinality DEF Sweep!Batches, Sweep!kSubset
<1> HIDE DEF n
<1>4. \E x \in {Limit, n} : \A y \in {Limit, n} : x <= y
  BY <1>2
<1>5. Sweep!Min({Limit, n}) <= Limit
  BY <1>4 DEF Sweep!Min
<1> QED
  BY <1>3, <1>5

LEMMA MovedRow ==
    ASSUME NEW row \in Sweep!Row, NEW to \in Sweep!Status
    PROVE  Sweep!Moved(row, to) \in Sweep!Row
<1> DEFINE v == Sweep!NextVersion(row.version)
           o == IF kind = "idle" THEN FALSE ELSE row.overdue
<1>1. v \in Nat
  BY DEF Sweep!NextVersion, Sweep!Row
<1>2. o \in BOOLEAN
  BY DEF Sweep!Row
<1>3. Sweep!Moved(row, to) = [row EXCEPT !.status = to, !.version = v, !.overdue = o]
  BY Zenon DEF Sweep!Moved
<1> HIDE DEF v, o
<1> QED
  BY <1>1, <1>2, <1>3 DEF Sweep!Row

\* One worker's batch and conversation change; the others' do not.
LEMMA WorkerMoves ==
    ASSUME Sweep!SweepAssumption, SweepInv, NEW w \in Worker,
           NEW b, NEW c \in Conv \cup {NoConv}, NEW n \in Nat,
           UNCHANGED <<backend, kind, rivals>>,
           conversations' \in [Conv -> Sweep!Row],
           queued' \in 0 .. MaxQueued, faults' \in 0 .. MaxFaults,
           busy' \subseteq Worker, \A v \in Worker \ {w} : v \in busy' <=> v \in busy,
           batch' = [batch EXCEPT ![w] = b], cur' = [cur EXCEPT ![w] = c],
           version' = [version EXCEPT ![w] = n],
           b \in [DOMAIN b -> Sweep!ActiveStatuses], Cardinality(DOMAIN b) <= Limit,
           DOMAIN b \subseteq Conv \ {c},
           w \notin busy' => b = <<>> /\ c = NoConv
    PROVE  SweepInv'
<1>1. /\ cur \in [Worker -> Conv \cup {NoConv}] /\ version \in [Worker -> Nat]
      /\ backend \in {"supabase", "postgres"} /\ kind \in {"idle", "expired"}
      /\ rivals \in 0 .. MaxRivals
      /\ batch = [v \in Worker |-> batch[v]]
  BY DEF SweepInv, Sweep!TypeOK
<1>2. batch' = [v \in Worker |-> batch'[v]] /\ batch'[w] = b
  BY <1>1
<1>3. cur'[w] = c /\ cur' \in [Worker -> Conv \cup {NoConv}] /\ version' \in [Worker -> Nat]
  BY <1>1
<1>4. \A v \in Worker \ {w} : batch'[v] = batch[v] /\ cur'[v] = cur[v]
  BY <1>1
<1>5. BatchOK(w)'
  BY <1>2, <1>3 DEF BatchOK
<1>6. ASSUME NEW v \in Worker \ {w}
      PROVE  BatchOK(v)'
  <2>1. BatchOK(v)
    BY SweepTyped DEF SweepInv
  <2> QED
    BY <1>4, <2>1 DEF BatchOK
<1>7. \A v \in Worker : BatchOK(v)'
  BY <1>5, <1>6
<1>8. Sweep!TypeOK'
  BY <1>1, <1>3, <1>7, SameCardinality DEF Sweep!TypeOK, BatchOK
<1> QED
  BY <1>2, <1>8 DEF SweepInv

LEMMA TakeTaskStep ==
    ASSUME Sweep!SweepAssumption, IsFiniteSet(Conv), SweepInv,
           NEW w \in Worker, Sweep!TakeTask(w)
    PROVE  SweepInv'
<1>1. PICK S \in Sweep!Batches :
          batch' = [batch EXCEPT ![w] = [i \in S |-> conversations[i].status]]
  BY DEF Sweep!TakeTask
<1> DEFINE b == [i \in S |-> conversations[i].status]
<1>2. Limit \in Nat /\ MaxQueued \in Nat /\ NoConv \notin Conv
  BY DEF Sweep!SweepAssumption
<1>3. S \subseteq Sweep!Candidates /\ Cardinality(S) <= Limit
  BY <1>2, BatchWithinLimit
<1>4. b \in [S -> Sweep!ActiveStatuses] /\ DOMAIN b = S /\ S \subseteq Conv
  BY <1>3 DEF Sweep!Candidates, Sweep!IsActive
<1>5. /\ w \notin busy /\ busy' = busy \cup {w} /\ queued > 0 /\ queued' = queued - 1
      /\ UNCHANGED <<backend, kind, conversations, cur, version, rivals, faults>>
  BY DEF Sweep!TakeTask
<1>6. /\ cur[w] = NoConv /\ cur' = [cur EXCEPT ![w] = NoConv]
      /\ version[w] \in Nat /\ version' = [version EXCEPT ![w] = version[w]]
      /\ conversations' \in [Conv -> Sweep!Row] /\ queued' \in 0 .. MaxQueued
      /\ faults' \in 0 .. MaxFaults /\ busy' \subseteq Worker
  BY <1>2, <1>5 DEF SweepInv, Sweep!TypeOK
<1>7. batch' = [batch EXCEPT ![w] = b]
  BY <1>1
<1> HIDE DEF b
<1>8. b \in [DOMAIN b -> Sweep!ActiveStatuses] /\ DOMAIN b \subseteq Conv \ {NoConv}
  BY <1>2, <1>4
<1>9. \A v \in Worker \ {w} : v \in busy' <=> v \in busy
  BY <1>5
<1> QED
  BY <1>3, <1>4, <1>5, <1>6, <1>7, <1>8, <1>9, WorkerMoves

\* A candidate leaves the batch, and may be the one that is written next.
LEMMA WithoutStep ==
    ASSUME Sweep!SweepAssumption, IsFiniteSet(Conv), SweepInv,
           NEW w \in Worker, NEW i \in DOMAIN batch[w],
           NEW c \in {NoConv, i}, NEW n \in Nat,
           batch' = Sweep!Without(w, i), cur' = [cur EXCEPT ![w] = c],
           version' = [version EXCEPT ![w] = n],
           UNCHANGED <<backend, kind, conversations, queued, busy, rivals, faults>>
    PROVE  SweepInv'
<1> DEFINE b == [j \in DOMAIN batch[w] \ {i} |-> batch[w][j]]
<1>1. BatchOK(w)
  BY SweepTyped DEF SweepInv
<1>2. DOMAIN batch[w] \in SUBSET Conv /\ Limit \in Nat /\ NoConv \notin Conv
  BY <1>1 DEF BatchOK, Sweep!SweepAssumption
<1>3. Cardinality(DOMAIN batch[w] \ {i}) <= Limit
  BY <1>1, <1>2, SmallerBatch DEF BatchOK
<1>4. /\ DOMAIN b = DOMAIN batch[w] \ {i}
      /\ b \in [DOMAIN b -> Sweep!ActiveStatuses]
  BY <1>1 DEF BatchOK
<1>5. DOMAIN b \subseteq Conv \ {c} /\ c \in Conv \cup {NoConv}
  BY <1>2, <1>4
<1>6. w \in busy
  BY <1>1 DEF BatchOK
<1>7. batch' = [batch EXCEPT ![w] = b]
  BY DEF Sweep!Without
<1>8. /\ conversations' \in [Conv -> Sweep!Row] /\ queued' \in 0 .. MaxQueued
      /\ faults' \in 0 .. MaxFaults /\ busy' \subseteq Worker
  BY DEF SweepInv, Sweep!TypeOK
<1> HIDE DEF b
<1> QED
  BY <1>3, <1>4, <1>5, <1>6, <1>7, <1>8, WorkerMoves

LEMMA PassStep ==
    ASSUME Sweep!SweepAssumption, IsFiniteSet(Conv), SweepInv,
           NEW w \in Worker, NEW i, Sweep!Pass(w, i)
    PROVE  SweepInv'
<1>1. /\ cur[w] = NoConv /\ i \in DOMAIN batch[w] /\ batch' = Sweep!Without(w, i)
      /\ UNCHANGED <<backend, kind, conversations, queued, busy, cur, version, rivals, faults>>
  BY DEF Sweep!Pass
<1>2. /\ cur' = [cur EXCEPT ![w] = NoConv] /\ version[w] \in Nat
      /\ version' = [version EXCEPT ![w] = version[w]]
  BY <1>1 DEF SweepInv, Sweep!TypeOK
<1> QED
  BY <1>1, <1>2, WithoutStep

LEMMA ReadRowStep ==
    ASSUME Sweep!SweepAssumption, IsFiniteSet(Conv), SweepInv,
           NEW w \in Worker, NEW i \in Conv, Sweep!ReadRow(w, i)
    PROVE  SweepInv'
<1>1. /\ cur[w] = NoConv /\ i \in DOMAIN batch[w] /\ batch' = Sweep!Without(w, i)
      /\ UNCHANGED <<backend, kind, conversations, queued, busy, rivals, faults>>
  BY DEF Sweep!ReadRow
<1>2. CASE UNCHANGED <<cur, version>>
  <2>1. /\ cur' = [cur EXCEPT ![w] = NoConv] /\ version[w] \in Nat
        /\ version' = [version EXCEPT ![w] = version[w]]
    BY <1>1, <1>2 DEF SweepInv, Sweep!TypeOK
  <2> QED
    BY <1>1, <2>1, WithoutStep
<1>3. CASE /\ cur' = [cur EXCEPT ![w] = i]
           /\ version' = [version EXCEPT ![w] = conversations[i].version]
  <2>1. conversations[i].version \in Nat
    BY DEF SweepInv, Sweep!TypeOK, Sweep!Row
  <2> QED
    BY <1>1, <1>3, <2>1, WithoutStep
<1> QED
  BY <1>2, <1>3 DEF Sweep!ReadRow

\* The conversation is written or its race is lost; the batch stays.
LEMMA WriteRowStep ==
    ASSUME Sweep!SweepAssumption, SweepInv, NEW w \in Worker, Sweep!WriteRow(w)
    PROVE  SweepInv'
<1>1. BatchOK(w)
  BY SweepTyped DEF SweepInv
<1>2. /\ cur[w] # NoConv /\ cur' = [cur EXCEPT ![w] = NoConv]
      /\ UNCHANGED <<backend, kind, queued, busy, batch, version, rivals, faults>>
  BY DEF Sweep!WriteRow
<1>3. /\ cur[w] \in Conv /\ conversations \in [Conv -> Sweep!Row]
      /\ batch = [v \in Worker |-> batch[v]] /\ version \in [Worker -> Nat]
      /\ busy \subseteq Worker /\ queued \in 0 .. MaxQueued /\ faults \in 0 .. MaxFaults
  BY <1>2 DEF SweepInv, Sweep!TypeOK
<1>4. Sweep!Moved(conversations[cur[w]], Sweep!Target) \in Sweep!Row
  <2>1. Sweep!Target \in Sweep!Status
    BY DEF Sweep!Target, Sweep!Status, Sweep!PausedStatuses, Sweep!ClosedStatuses
  <2> QED
    BY <1>3, <2>1, MovedRow
<1>5. conversations' \in [Conv -> Sweep!Row]
  BY <1>3, <1>4 DEF Sweep!WriteRow
<1>6. batch' = [batch EXCEPT ![w] = batch[w]] /\ version' = [version EXCEPT ![w] = version[w]]
  BY <1>2, <1>3
<1>7. DOMAIN batch[w] \subseteq Conv \ {NoConv} /\ version[w] \in Nat
  BY <1>1, <1>3 DEF BatchOK, Sweep!SweepAssumption
<1>8. w \in busy
  BY <1>1, <1>2 DEF BatchOK
<1> QED
  BY <1>1, <1>2, <1>3, <1>5, <1>6, <1>7, <1>8, WorkerMoves DEF BatchOK

\* The task ends, or its worker dies.
LEMMA EndStep ==
    ASSUME Sweep!SweepAssumption, SweepInv, NEW w \in Worker,
           Sweep!Finish(w) \/ Sweep!Lose(w)
    PROVE  SweepInv'
<1>1. /\ batch = [v \in Worker |-> batch[v]] /\ cur \in [Worker -> Conv \cup {NoConv}]
      /\ version \in [Worker -> Nat] /\ busy \subseteq Worker
      /\ conversations \in [Conv -> Sweep!Row]
      /\ queued \in 0 .. MaxQueued /\ faults \in 0 .. MaxFaults /\ MaxFaults \in Nat
  BY DEF SweepInv, Sweep!TypeOK, Sweep!SweepAssumption
<1>2. /\ batch' = [batch EXCEPT ![w] = <<>>] /\ cur' = [cur EXCEPT ![w] = NoConv]
      /\ version' = [version EXCEPT ![w] = version[w]] /\ busy' = busy \ {w}
      /\ UNCHANGED <<backend, kind, conversations, queued, rivals>>
      /\ faults' \in 0 .. MaxFaults
  BY <1>1 DEF Sweep!Finish, Sweep!Lose
<1>3. /\ <<>> \in [DOMAIN <<>> -> Sweep!ActiveStatuses]
      /\ DOMAIN <<>> = {} /\ Cardinality({}) <= Limit
  BY FS_EmptySet DEF Sweep!SweepAssumption
<1>4. /\ DOMAIN <<>> \subseteq Conv \ {NoConv} /\ Cardinality(DOMAIN <<>>) <= Limit
      /\ version[w] \in Nat
  BY <1>1, <1>3
<1> QED
  BY <1>1, <1>2, <1>3, <1>4, WorkerMoves

\* What moves the rows, the queue or the faults and no worker.
LEMMA OutsideStep ==
    ASSUME SweepInv, UNCHANGED <<backend, kind, busy, batch, cur, version>>,
           conversations' \in [Conv -> Sweep!Row], queued' \in 0 .. MaxQueued,
           rivals' \in 0 .. MaxRivals, faults' \in 0 .. MaxFaults
    PROVE  SweepInv'
BY DEF SweepInv, Sweep!TypeOK

LEMMA RivalStep ==
    ASSUME Sweep!SweepAssumption, SweepInv, NEW i \in Conv,
           \/ \E to \in Targets : Sweep!OtherCall(i, to)
           \/ Sweep!Extend(i) \/ Sweep!TimePasses(i)
    PROVE  SweepInv'
<1>1. /\ conversations \in [Conv -> Sweep!Row] /\ queued \in 0 .. MaxQueued
      /\ rivals \in 0 .. MaxRivals /\ faults \in 0 .. MaxFaults /\ MaxRivals \in Nat
      /\ Targets \subseteq Sweep!Status
  BY DEF SweepInv, Sweep!TypeOK, Sweep!SweepAssumption
<1>2. conversations[i] \in Sweep!Row
  BY <1>1
<1>3. /\ [conversations[i] EXCEPT !.overdue = FALSE, !.version = @ + 1] \in Sweep!Row
      /\ [conversations[i] EXCEPT !.overdue = TRUE] \in Sweep!Row
      /\ \A to \in Targets : Sweep!Moved(conversations[i], to) \in Sweep!Row
  <2>1. \A to \in Targets : Sweep!Moved(conversations[i], to) \in Sweep!Row
    BY <1>1, <1>2, MovedRow
  <2>2. conversations[i].version + 1 \in Nat
    BY <1>2 DEF Sweep!Row
  <2> QED
    BY <1>2, <2>1, <2>2 DEF Sweep!Row
<1>4. conversations' \in [Conv -> Sweep!Row]
  <2>1. PICK r \in Sweep!Row : conversations' = [conversations EXCEPT ![i] = r]
    <3>1. ASSUME NEW to \in Targets, Sweep!OtherCall(i, to)
          PROVE  conversations' = [conversations EXCEPT ![i] = Sweep!Moved(conversations[i], to)]
      BY <3>1 DEF Sweep!OtherCall
    <3>2. CASE Sweep!Extend(i)
      <4>1. conversations'
              = [conversations EXCEPT ![i].overdue = FALSE, ![i].version = @ + 1]
        BY <3>2 DEF Sweep!Extend
      <4> QED
        BY <1>1, <1>2, <1>3, <4>1
    <3>3. CASE Sweep!TimePasses(i)
      BY <1>3, <3>3 DEF Sweep!TimePasses
    <3> QED
      BY <1>3, <3>1, <3>2, <3>3
  <2> QED
    BY <1>1, <2>1
<1>5. /\ UNCHANGED <<backend, kind, busy, batch, cur, version, queued, faults>>
      /\ rivals' \in 0 .. MaxRivals
  BY <1>1 DEF Sweep!OtherCall, Sweep!Extend, Sweep!TimePasses, Sweep!worker
<1> QED
  BY <1>1, <1>4, <1>5, OutsideStep

LEMMA ScheduleStep ==
    ASSUME Sweep!SweepAssumption, SweepInv, Sweep!Schedule
    PROVE  SweepInv'
<1>1. /\ UNCHANGED <<backend, kind, busy, batch, cur, version, conversations, rivals>>
      /\ queued' \in 0 .. MaxQueued /\ faults' \in 0 .. MaxFaults
  BY DEF Sweep!Schedule, Sweep!worker, SweepInv, Sweep!TypeOK, Sweep!SweepAssumption
<1> QED
  BY <1>1, OutsideStep DEF SweepInv, Sweep!TypeOK

LEMMA SweepStep ==
    ASSUME Sweep!SweepAssumption, IsFiniteSet(Conv), SweepInv, [Sweep!Next]_(Sweep!vars)
    PROVE  SweepInv'
<1>1. CASE UNCHANGED Sweep!vars
  BY <1>1 DEF Sweep!vars, SweepInv, Sweep!TypeOK
<1>2. CASE Sweep!Next
  BY <1>2, ScheduleStep, TakeTaskStep, PassStep, ReadRowStep, WriteRowStep, EndStep, RivalStep
     DEF Sweep!Next, Sweep!Work
<1> QED
  BY <1>1, <1>2

LEMMA SweepStart ==
    ASSUME Sweep!SweepAssumption, Sweep!Init
    PROVE  SweepInv
<1>1. /\ MaxRivals \in Nat /\ MaxQueued \in Nat /\ MaxFaults \in Nat /\ Limit \in Nat
  BY DEF Sweep!SweepAssumption
<1>2. /\ <<>> \in [DOMAIN <<>> -> Sweep!ActiveStatuses]
      /\ DOMAIN <<>> = {} /\ Cardinality(DOMAIN <<>>) <= Limit
  BY <1>1, FS_EmptySet
<1>3. \A w \in Worker : BatchOK(w)
  BY <1>2 DEF Sweep!Init, BatchOK
<1>4. conversations \in [Conv -> Sweep!Row]
  <2>1. [status: Sweep!ActiveStatuses, version: {1}, overdue: {FALSE}] \subseteq Sweep!Row
    <3>1. Sweep!ActiveStatuses \subseteq Sweep!Status /\ 1 \in Nat /\ FALSE \in BOOLEAN
      BY DEF Sweep!Status
    <3>2. ASSUME NEW r \in [status: Sweep!ActiveStatuses, version: {1}, overdue: {FALSE}]
          PROVE  r \in [status: Sweep!Status, version: Nat, overdue: BOOLEAN]
      BY <3>1
    <3> QED
      BY <3>2 DEF Sweep!Row
  <2> QED
    BY <2>1 DEF Sweep!Init
<1>5. /\ cur \in [Worker -> Conv \cup {NoConv}] /\ version \in [Worker -> Nat]
      /\ batch = [w \in Worker |-> batch[w]]
  BY DEF Sweep!Init
<1>6. /\ backend \in {"supabase", "postgres"} /\ kind \in {"idle", "expired"}
      /\ queued = 0 /\ busy = {} /\ rivals = 0 /\ faults = 0
  BY DEF Sweep!Init
<1> QED
  BY <1>1, <1>3, <1>4, <1>5, <1>6, SameCardinality DEF SweepInv, Sweep!TypeOK, BatchOK

(***************************************************************************)
(* Type correctness of the sweeps, for any conversations, workers, limit   *)
(* and lost tasks: a batch never grows over batch_size, a worker without a *)
(* task has nothing left, and the conversation it is about is no longer in *)
(* its batch.                                                              *)
(***************************************************************************)
THEOREM SweepTypeCorrect ==
    ASSUME Sweep!SweepAssumption, IsFiniteSet(Conv)
    PROVE  Sweep!Spec => []Sweep!TypeOK
<1>1. Sweep!Init => SweepInv
  BY SweepStart
<1>2. SweepInv /\ [Sweep!Next]_(Sweep!vars) => SweepInv'
  BY SweepStep
<1>3. SweepInv => Sweep!TypeOK
  BY DEF SweepInv
<1> QED
  BY <1>1, <1>2, <1>3, PTL DEF Sweep!Spec
=============================================================================
