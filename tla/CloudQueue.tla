---------------------------- MODULE CloudQueue ------------------------------
(***************************************************************************)
(* The two hosted backends of the task queue.  Amazon SQS is polled by the *)
(* consumer loop; BullMQ, on Redis, pushes jobs to a Worker of its own     *)
(* library.  Both hide a task from the others while a worker has it, and   *)
(* both give it to somebody else when that takes too long: SQS when the    *)
(* visibility timeout ends, BullMQ when the lock of the job has expired.   *)
(***************************************************************************)
EXTENDS Naturals

CONSTANTS
    Task,       \* tasks, each enqueued once
    Worker,     \* worker processes
    MaxStops,   \* bound on the workers that die
    MaxLate,    \* bound on the timeouts that end while a worker is busy
    MaxFaults   \* bound on the requests to the queue that fail

CONSTANT NoOne

ASSUME CloudAssumption ==
    /\ {MaxStops, MaxLate, MaxFaults} \subseteq Nat
    /\ NoOne \notin Task \cup Worker

VARIABLES
    backend,  \* QUEUE_BACKEND, fixed
    job,      \* state of each task in the service
    owner,    \* the worker with the valid receipt handle, or lock
    stalled,  \* how often a lock of the job expired
    pc,       \* what each worker does
    msg,      \* the task it was given
    done,     \* a handler has returned normally
    raised,   \* a handler has raised
    excused,  \* something went wrong with the task that no handler caused
    stops, late, faults

vars == <<backend, job, owner, stalled, pc, msg, done, raised, excused,
          stops, late, faults>>

history == <<raised, excused, stops, late, faults>>

\* "hidden": given to somebody, or handed back and not yet visible.
JobState == {"new", "waiting", "hidden", "gone", "failed"}

TypeOK ==
    /\ backend \in {"sqs", "bullmq"}
    /\ job \in [Task -> JobState]
    /\ owner \in [Task -> Worker \cup {NoOne}]
    /\ stalled \in [Task -> 0 .. 2]
    /\ pc \in [Worker -> {"poll", "run", "ack", "nack", "stopped"}]
    /\ msg \in [Worker -> Task \cup {NoOne}]
    /\ {done, raised, excused} \subseteq [Task -> BOOLEAN]
    /\ stops \in 0 .. MaxStops /\ late \in 0 .. MaxLate /\ faults \in 0 .. MaxFaults
    /\ \A t \in Task : owner[t] # NoOne => job[t] = "hidden" /\ msg[owner[t]] = t

Init ==
    /\ backend \in {"sqs", "bullmq"}
    /\ job = [t \in Task |-> "new"]
    /\ owner = [t \in Task |-> NoOne]
    /\ stalled = [t \in Task |-> 0]
    /\ pc = [w \in Worker |-> "poll"]
    /\ msg = [w \in Worker |-> NoOne]
    /\ done = [t \in Task |-> FALSE]
    /\ raised = [t \in Task |-> FALSE]
    /\ excused = [t \in Task |-> FALSE]
    /\ stops = 0 /\ late = 0 /\ faults = 0

Goto(w, l) == pc' = [pc EXCEPT ![w] = l]

Excuse(t) == excused' = [excused EXCEPT ![t] = TRUE]

\* The task is in state s for the service, and nobody's.
Leave(t, s) ==
    /\ job' = [job EXCEPT ![t] = s]
    /\ owner' = [owner EXCEPT ![t] = NoOne]

Forget(w, l) ==
    /\ msg' = [msg EXCEPT ![w] = NoOne]
    /\ Goto(w, l)

-----------------------------------------------------------------------------
\* The service has accepted the task; a request that fails raises to whoever
\* enqueues, and there is no task.
Submitted(t) ==
    /\ job[t] = "new"
    /\ job' = [job EXCEPT ![t] = "waiting"]
    /\ UNCHANGED <<backend, owner, stalled, pc, msg, done, history>>

\* send_message: the service gives the message an id of its own.
Send(t) == backend = "sqs" /\ Submitted(t)

\* add, with the id of the message as the id of the job.
Add(t) == backend = "bullmq" /\ Submitted(t)

Given(w, t) ==
    /\ job[t] = "waiting"
    /\ pc[w] = "poll"
    /\ job' = [job EXCEPT ![t] = "hidden"]
    /\ owner' = [owner EXCEPT ![t] = w]
    /\ msg' = [msg EXCEPT ![w] = t]
    /\ Goto(w, "run")
    /\ UNCHANGED <<backend, stalled, done, history>>

\* Mutant: the message keeps its own id, of which the service knows nothing.
Receive_OwnId(w, t) ==
    /\ backend = "sqs"
    /\ job[t] = "waiting"
    /\ pc[w] = "poll"
    /\ job' = [job EXCEPT ![t] = "hidden"]
    /\ msg' = [msg EXCEPT ![w] = t]
    /\ Goto(w, "run")
    /\ UNCHANGED <<backend, owner, stalled, done, history>>

\* dequeue: any visible message, with its receipt handle as the id.
Receive(w, t) == backend = "sqs" /\ Given(w, t)

\* The response is lost and dequeue returns None: nobody has the message.
ReceiveFails(t) ==
    /\ backend = "sqs"
    /\ job[t] = "waiting"
    /\ faults < MaxFaults
    /\ faults' = faults + 1
    /\ Leave(t, "hidden")
    /\ Excuse(t)
    /\ UNCHANGED <<backend, stalled, pc, msg, done, raised, stops, late>>

\* process_job, called by the Worker of the library.
ProcessJob(w, t) == backend = "bullmq" /\ Given(w, t)

HandlerReturns(w) ==
    /\ pc[w] = "run"
    /\ done' = [done EXCEPT ![msg[w]] = TRUE]
    /\ Goto(w, "ack")
    /\ UNCHANGED <<backend, job, owner, stalled, msg, history>>

\* attempts is part of the body and the body never changes: it is 0 in every
\* delivery, the limit of the loop is not reached, and fail is not called.
HandlerRaises(w) ==
    /\ pc[w] = "run"
    /\ raised' = [raised EXCEPT ![msg[w]] = TRUE]
    /\ Goto(w, "nack")
    /\ UNCHANGED <<backend, job, owner, stalled, msg, done, excused, stops, late, faults>>

-----------------------------------------------------------------------------
(***************************************************************************)
(* The answer to the service                                               *)
(***************************************************************************)
Owned(w) == owner[msg[w]] = w

\* delete_message.  A stale handle may still delete; an error is swallowed.
Ack(w) ==
    /\ backend = "sqs" /\ pc[w] = "ack"
    /\ LET t == msg[w]
       IN  \/ /\ Owned(w) \/ job[t] \in {"waiting", "hidden"}
              /\ Leave(t, "gone")
              /\ UNCHANGED <<excused, faults>>
           \/ ~Owned(w) /\ UNCHANGED <<job, owner, excused, faults>>
           \/ /\ Owned(w) /\ faults < MaxFaults
              /\ faults' = faults + 1
              /\ Leave(t, "hidden")
              /\ Excuse(t)
    /\ Forget(w, "poll")
    /\ UNCHANGED <<backend, stalled, done, raised, stops, late>>

\* Mutant: the message is kept.
Nack_Kept(w) ==
    /\ backend = "sqs" /\ pc[w] = "nack"
    /\ Forget(w, "poll")
    /\ UNCHANGED <<backend, job, owner, stalled, done, history>>

\* Mutant: a handle that is stale works like any other.
Nack_Stale(w) ==
    /\ backend = "sqs" /\ pc[w] = "nack"
    /\ Leave(msg[w], "hidden")
    /\ Forget(w, "poll")
    /\ UNCHANGED <<backend, stalled, done, history>>

\* change_message_visibility: hidden for 10 more seconds.  A handle that is
\* stale or a request that fails changes nothing, and is swallowed.
Nack(w) ==
    /\ backend = "sqs" /\ pc[w] = "nack"
    /\ IF Owned(w) THEN Leave(msg[w], "hidden") ELSE UNCHANGED <<job, owner>>
    /\ Forget(w, "poll")
    /\ UNCHANGED <<backend, stalled, done, history>>

\* Mutant: jobs are removed when they fail, as they are when they complete.
Finish_Removed(w) ==
    /\ backend = "bullmq" /\ pc[w] \in {"ack", "nack"}
    /\ IF Owned(w) THEN Leave(msg[w], "gone") ELSE UNCHANGED <<job, owner>>
    /\ Forget(w, "poll")
    /\ UNCHANGED <<backend, stalled, done, history>>

\* removeOnComplete, removeOnFail = False, and no attempts: the first error is
\* the last.  Without the lock the library refuses to finish the job.
Finish(w) ==
    /\ backend = "bullmq" /\ pc[w] \in {"ack", "nack"}
    /\ IF Owned(w)
       THEN Leave(msg[w], IF pc[w] = "ack" THEN "gone" ELSE "failed")
       ELSE UNCHANGED <<job, owner>>
    /\ Forget(w, "poll")
    /\ UNCHANGED <<backend, stalled, done, history>>

-----------------------------------------------------------------------------
(***************************************************************************)
(* The services                                                            *)
(***************************************************************************)
Busy(t) == owner[t] # NoOne

\* The visibility timeout ends; when its worker is busy it did not renew it.
BecomesVisible(t) ==
    /\ backend = "sqs"
    /\ job[t] = "hidden"
    /\ IF Busy(t) THEN /\ late < MaxLate
                       /\ late' = late + 1
                       /\ Excuse(t)
                  ELSE UNCHANGED <<late, excused>>
    /\ Leave(t, "waiting")
    /\ UNCHANGED <<backend, stalled, pc, msg, done, raised, stops, faults>>

\* Mutant: nobody looks for the jobs of dead workers.
Stalls_Unchecked(t) ==
    /\ backend = "bullmq"
    /\ job[t] = "hidden" /\ Busy(t)
    /\ late < MaxLate /\ late' = late + 1
    /\ Excuse(t)
    /\ stalled' = [stalled EXCEPT ![t] = @ + 1]
    /\ Leave(t, IF stalled[t] = 0 THEN "waiting" ELSE "failed")
    /\ UNCHANGED <<backend, pc, msg, done, raised, stops, faults>>

\* The lock has expired: the worker is dead, or a handler has kept its event
\* loop from renewing it.  The second time the job fails (maxStalledCount).
Stalls(t) ==
    /\ backend = "bullmq"
    /\ job[t] = "hidden"
    /\ IF Busy(t) THEN late < MaxLate /\ late' = late + 1 ELSE UNCHANGED late
    /\ Excuse(t)
    /\ stalled' = [stalled EXCEPT ![t] = @ + 1]
    /\ Leave(t, IF stalled[t] = 0 THEN "waiting" ELSE "failed")
    /\ UNCHANGED <<backend, pc, msg, done, raised, stops, faults>>

\* The process dies with what it holds.
Stop(w) ==
    /\ pc[w] # "stopped"
    /\ stops < MaxStops
    /\ stops' = stops + 1
    /\ IF msg[w] = NoOne
       THEN UNCHANGED <<owner, excused>>
       ELSE /\ Excuse(msg[w])
            /\ owner' = [t \in Task |-> IF owner[t] = w THEN NoOne ELSE owner[t]]
    /\ Forget(w, "stopped")
    /\ UNCHANGED <<backend, job, stalled, done, raised, late, faults>>

\* main: every handler is registered before the worker consumes.
Start(w) ==
    /\ pc[w] = "stopped"
    /\ Goto(w, "poll")
    /\ UNCHANGED <<backend, job, owner, stalled, msg, done, history>>

Work(w) ==
    \/ \E t \in Task : Receive(w, t) \/ ProcessJob(w, t)
    \/ HandlerReturns(w)
    \/ HandlerRaises(w)
    \/ Ack(w)
    \/ Nack(w)
    \/ Finish(w)
    \/ Start(w)

Next ==
    \/ \E t \in Task : Send(t) \/ Add(t) \/ ReceiveFails(t) \/ BecomesVisible(t) \/ Stalls(t)
    \/ \E w \in Worker : Work(w) \/ Stop(w)

\* Timeouts end, handlers return or raise, and a dead worker is started again.
\* A message that is visible is in the end given to somebody who polls.
Spec ==
    /\ Init /\ [][Next]_vars
    /\ \A t \in Task : WF_vars(BecomesVisible(t)) /\ WF_vars(Stalls(t))
    /\ \A w \in Worker : WF_vars(Work(w))
    /\ \A t \in Task : SF_vars(\E w \in Worker : Receive(w, t) \/ ProcessJob(w, t))
-----------------------------------------------------------------------------
(***************************************************************************)
(* Properties                                                              *)
(***************************************************************************)

(***************************************************************************)
(* At least once: a task leaves the service only when a handler has        *)
(* returned normally; a job that failed is kept, and failed only because a *)
(* handler raised or two locks expired.                                    *)
(***************************************************************************)
NothingLost ==
    \A t \in Task :
        /\ job[t] = "gone" => done[t]
        /\ job[t] = "failed" => raised[t] \/ stalled[t] = 2

(***************************************************************************)
(* Exactly once when nothing goes wrong: a task that was done is given to  *)
(* a worker again only if a worker died with it, outlived its timeout, or  *)
(* a request about it failed.                                              *)
(***************************************************************************)
DoneIsFinal ==
    [][\A t \in Task : (done[t] /\ job[t] = "waiting" /\ job'[t] = "hidden") => excused[t]]_vars

(***************************************************************************)
(* Both backends implement AtLeastOnce: answers that come too late neither *)
(* revive what was settled nor settle what nobody has done.                *)
(***************************************************************************)
Names == [new |-> "new", waiting |-> "waiting", hidden |-> "taken",
          gone |-> "finished", failed |-> "buried"]

State == [t \in Task |-> Names[job[t]]]

Holders == [t \in Task |-> {w \in Worker : msg[w] = t}]

Hosted == INSTANCE AtLeastOnce WITH state <- State, holders <- Holders

ImplementsAtLeastOnce == Hosted!Spec

(***************************************************************************)
(* No task is forgotten: one that waits is in the end finished or failed,  *)
(* unless its handler raises for ever, which SQS answers for ever.         *)
(***************************************************************************)
SettledOrPoison ==
    \A t \in Task :
        \/ job[t] = "waiting" ~> job[t] \in {"gone", "failed"}
        \/ []<><<\E w \in Worker : msg[w] = t /\ HandlerRaises(w)>>_vars
=============================================================================
