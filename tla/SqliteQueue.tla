---------------------------- MODULE SqliteQueue -----------------------------
(***************************************************************************)
(* The SQLite backend of the task queue and the consumer loop that polls   *)
(* it (QueueBackend.start_consuming).  Workers are processes of their own  *)
(* that share the database file; each database statement is one step, so   *)
(* a worker may stop, or another one move, between any two of them.        *)
(***************************************************************************)
EXTENDS Naturals, Sequences, FiniteSets

CONSTANTS
    Task,      \* tasks, each enqueued once
    Worker,    \* worker processes
    MaxStops,  \* bound on the workers that stop in the middle of something
    Faults     \* TRUE: ack, nack and fail may raise ("database is locked")

CONSTANT NoTask

ASSUME QueueAssumption ==
    /\ MaxStops \in Nat
    /\ Faults \in BOOLEAN
    /\ NoTask \notin Task

MAX_RETRIES == 3

VARIABLES
    rows,    \* table message_queue
    order,   \* the tasks by created_at, taken as the order of their inserts
    pc,      \* what each worker does next
    msg,     \* the task of the message each worker holds
    seen,    \* msg.attempts, as it was when the message was dequeued
    runs,    \* how often each task was handed to a worker's handler
    stops    \* workers stopped so far

vars == <<rows, order, pc, msg, seen, runs, stops>>

\* "new": not enqueued yet; "deleted": acknowledged.
Row == [status: {"new", "pending", "processing", "failed", "deleted"},
        attempts: 0 .. MAX_RETRIES, due: BOOLEAN]

PC == {"poll", "run", "ack", "retry", "fail", "stopped"}

TypeOK ==
    /\ rows \in [Task -> Row]
    /\ order \in Seq(Task)
    /\ pc \in [Worker -> PC]
    /\ msg \in [Worker -> Task \cup {NoTask}]
    /\ seen \in [Worker -> 0 .. MAX_RETRIES]
    /\ runs \in [Task -> Nat]
    /\ stops \in 0 .. MaxStops
    /\ \A w \in Worker : msg[w] = NoTask <=> pc[w] \in {"poll", "stopped"}

Init ==
    /\ rows = [t \in Task |-> [status |-> "new", attempts |-> 0, due |-> TRUE]]
    /\ order = <<>>
    /\ pc = [w \in Worker |-> "poll"]
    /\ msg = [w \in Worker |-> NoTask]
    /\ seen = [w \in Worker |-> 0]
    /\ runs = [t \in Task |-> 0]
    /\ stops = 0

Goto(w, l) == pc' = [pc EXCEPT ![w] = l]

-----------------------------------------------------------------------------
Enqueue(t) ==
    /\ rows[t].status = "new"
    /\ rows' = [rows EXCEPT ![t].status = "pending"]
    /\ order' = Append(order, t)
    /\ UNCHANGED <<pc, msg, seen, runs, stops>>

\* Mutant: the poll takes up fresh rows only.
Candidates_Fresh ==
    {i \in DOMAIN order : rows[order[i]].status = "pending" /\ rows[order[i]].attempts = 0}

Candidates ==
    {i \in DOMAIN order : rows[order[i]].status = "pending" /\ rows[order[i]].due}

\* The oldest pending row that is due, marked within one exclusive transaction.
Dequeue(w) ==
    /\ pc[w] = "poll"
    /\ \E i \in Candidates :
          /\ \A j \in Candidates : i <= j
          /\ msg' = [msg EXCEPT ![w] = order[i]]
          /\ seen' = [seen EXCEPT ![w] = rows[order[i]].attempts]
          /\ rows' = [rows EXCEPT ![order[i]].status = "processing"]
          /\ runs' = [runs EXCEPT ![order[i]] = @ + 1]
    /\ Goto(w, "run")
    /\ UNCHANGED <<order, stops>>

\* The handler returns; it may have succeeded in part before it raises.
HandlerReturns(w) ==
    /\ pc[w] = "run"
    /\ Goto(w, "ack")
    /\ UNCHANGED <<rows, order, msg, seen, runs, stops>>

\* Mutant: one retry fewer than the constant says.
AfterError_OneFewer(w) == IF seen[w] + 1 >= MAX_RETRIES THEN "fail" ELSE "retry"

\* Mutant: one retry more than the constant says.
AfterError_OneMore(w) == IF seen[w] > MAX_RETRIES THEN "fail" ELSE "retry"

\* The consumer's except clause, for the handler and for the ack alike.
AfterError(w) == IF seen[w] >= MAX_RETRIES THEN "fail" ELSE "retry"

HandlerRaises(w) ==
    /\ pc[w] = "run"
    /\ Goto(w, AfterError(w))
    /\ UNCHANGED <<rows, order, msg, seen, runs, stops>>

Release(w) ==
    /\ msg' = [msg EXCEPT ![w] = NoTask]
    /\ Goto(w, "poll")

Ack(w) ==
    /\ pc[w] = "ack"
    /\ rows' = [rows EXCEPT ![msg[w]].status = "deleted"]
    /\ Release(w)
    /\ UNCHANGED <<order, seen, runs, stops>>

AckRaises(w) ==
    /\ Faults
    /\ pc[w] = "ack"
    /\ Goto(w, AfterError(w))
    /\ UNCHANGED <<rows, order, msg, seen, runs, stops>>

\* Mutant: the attempt is not counted.
Nack_Uncounted(w) ==
    /\ pc[w] = "retry"
    /\ rows' = [rows EXCEPT ![msg[w]].status = "pending", ![msg[w]].due = FALSE]
    /\ Release(w)
    /\ UNCHANGED <<order, seen, runs, stops>>

Nack(w) ==
    /\ pc[w] = "retry"
    /\ rows' = [rows EXCEPT ![msg[w]].status = "pending",
                            ![msg[w]].attempts = @ + 1,
                            ![msg[w]].due = FALSE]
    /\ Release(w)
    /\ UNCHANGED <<order, seen, runs, stops>>

Fail(w) ==
    /\ pc[w] = "fail"
    /\ rows' = [rows EXCEPT ![msg[w]].status = "failed"]
    /\ Release(w)
    /\ UNCHANGED <<order, seen, runs, stops>>

\* nack or fail raises inside the except clause: the outer loop logs it.
GivesUp(w) ==
    /\ Faults
    /\ pc[w] \in {"retry", "fail"}
    /\ Release(w)
    /\ UNCHANGED <<rows, order, seen, runs, stops>>

\* next_retry_at passes.
BackoffEnds(t) ==
    /\ rows[t].status = "pending" /\ ~rows[t].due
    /\ rows' = [rows EXCEPT ![t].due = TRUE]
    /\ UNCHANGED <<order, pc, msg, seen, runs, stops>>

\* The process dies, or the loop is cancelled, whatever the worker is doing.
Stop(w) ==
    /\ stops < MaxStops
    /\ stops' = stops + 1
    /\ pc[w] # "stopped"
    /\ msg' = [msg EXCEPT ![w] = NoTask]
    /\ Goto(w, "stopped")
    /\ UNCHANGED <<rows, order, seen, runs>>

Restart(w) ==
    /\ pc[w] = "stopped"
    /\ Goto(w, "poll")
    /\ UNCHANGED <<rows, order, msg, seen, runs, stops>>

Work(w) ==
    \/ Dequeue(w)
    \/ HandlerReturns(w)
    \/ HandlerRaises(w)
    \/ Ack(w)
    \/ AckRaises(w)
    \/ Nack(w)
    \/ Fail(w)
    \/ GivesUp(w)
    \/ Restart(w)

Next ==
    \/ \E t \in Task : Enqueue(t) \/ BackoffEnds(t)
    \/ \E w \in Worker : Work(w) \/ Stop(w)

Spec == Init /\ [][Next]_vars

(***************************************************************************)
(* Time passes, and every worker keeps polling: its loop catches all that  *)
(* a message does, and a stopped process is started again.  Nothing is     *)
(* assumed of the handlers: they return or they raise.                     *)
(***************************************************************************)
Fairness ==
    /\ \A t \in Task : WF_vars(BackoffEnds(t))
    /\ \A w \in Worker : WF_vars(Work(w))

FairSpec == Spec /\ Fairness
-----------------------------------------------------------------------------
(***************************************************************************)
(* Properties                                                              *)
(***************************************************************************)

(***************************************************************************)
(* The backend and the consumer loop keep the promises of a task queue: a  *)
(* task is never held by two workers, runs four times at most, is marked   *)
(* failed only then, and never runs again once acknowledged or failed;     *)
(* whatever statement raises and whenever a worker stops.                  *)
(***************************************************************************)
Names == [new |-> "new", pending |-> "waiting", processing |-> "taken",
          deleted |-> "finished", failed |-> "buried"]

State == [t \in Task |-> Names[rows[t].status]]

Holder == [t \in Task |-> {w \in Worker : msg[w] = t}]

Queue == INSTANCE TaskQueue
    WITH MaxRuns <- MAX_RETRIES + 1, state <- State, holder <- Holder

ImplementsTaskQueue == Queue!Spec

(***************************************************************************)
(* The attempts column counts the executions: the retry limit, which is    *)
(* compared with it, is a limit on the executions.                         *)
(***************************************************************************)
RunsCounted ==
    \A t \in Task :
        runs[t] = rows[t].attempts
                    + IF rows[t].status \in {"processing", "failed", "deleted"} THEN 1 ELSE 0

(***************************************************************************)
(* No task waits for ever and none is retried for ever: a task that was    *)
(* enqueued is in the end acknowledged, marked as failed, or left behind   *)
(* in 'processing' by a worker that stopped or could not say how it went.  *)
(***************************************************************************)
Orphaned(t) == rows[t].status = "processing" /\ Holder[t] = {}

SettledOrOrphaned ==
    \A t \in Task :
        rows[t].status = "pending"
            ~> rows[t].status \in {"deleted", "failed"} \/ Orphaned(t)
=============================================================================
