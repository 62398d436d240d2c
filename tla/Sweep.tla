-------------------------------- MODULE Sweep --------------------------------
(***************************************************************************)
(* The scheduler and one of the two sweeps, of the idle conversations or   *)
(* of the expired ones.  The scheduler enqueues a task cycle after cycle;  *)
(* a worker that takes it reads a batch of candidates of LIMIT rows, in no *)
(* order, and transitions them one by one while other calls go on, those   *)
(* of the other sweep among them.  Every conversation is of a pair of      *)
(* numbers of its own.                                                     *)
(***************************************************************************)
EXTENDS ConversationStatus, FiniteSets, FiniteSetsExt

CONSTANTS
    Conv,       \* conversations
    Worker,     \* worker processes
    Limit,      \* batch_size of the scheduler
    Targets,    \* the statuses other calls move conversations to
    MaxRivals,  \* bound on the other calls
    MaxQueued,  \* bound on the tasks that wait
    MaxFaults   \* bound on the tasks that are lost

CONSTANT NoConv

ASSUME SweepAssumption ==
    /\ Limit \in Nat \ {0}
    /\ Targets \subseteq Status
    /\ {MaxRivals, MaxQueued, MaxFaults} \subseteq Nat
    /\ NoConv \notin Conv

VARIABLES
    backend,  \* DATABASE_BACKEND, fixed
    rows,     \* table conversations
    kind,     \* the sweep this is about, fixed
    queued,   \* its tasks that wait in the queue
    busy,     \* the workers that execute one
    batch,    \* the candidates left, with the status they were read with
    cur,      \* the conversation update_status is about, and its version
    version,
    rivals, faults

vars == <<backend, kind, rows, queued, busy, batch, cur, version, rivals, faults>>

\* overdue: expires_at has passed; for the idle sweep, updated_at is too old.
Row == [status: Status, version: Nat, overdue: BOOLEAN]

TypeOK ==
    /\ backend \in {"supabase", "postgres"}
    /\ rows \in [Conv -> Row]
    /\ kind \in {"idle", "expired"}
    /\ queued \in 0 .. MaxQueued
    /\ busy \subseteq Worker
    /\ cur \in [Worker -> Conv \cup {NoConv}]
    /\ version \in [Worker -> Nat]
    /\ rivals \in 0 .. MaxRivals /\ faults \in 0 .. MaxFaults
    /\ \A w \in Worker :
          /\ batch[w] \in [DOMAIN batch[w] -> ActiveStatuses]
          /\ Cardinality(DOMAIN batch[w]) <= Limit
          /\ DOMAIN batch[w] \subseteq Conv \ {cur[w]}
          /\ w \notin busy => batch[w] = <<>> /\ cur[w] = NoConv

Init ==
    /\ backend \in {"supabase", "postgres"}
    /\ rows \in [Conv -> [status: ActiveStatuses, version: {1}, overdue: {FALSE}]]
    /\ kind \in {"idle", "expired"}
    /\ queued = 0
    /\ busy = {}
    /\ batch = [w \in Worker |-> <<>>]
    /\ cur = [w \in Worker |-> NoConv]
    /\ version = [w \in Worker |-> 0]
    /\ rivals = 0 /\ faults = 0

worker == <<busy, batch, cur, version>>

-----------------------------------------------------------------------------
\* _schedule_tasks, every cycle, whatever became of the last one's task; an
\* error is logged.
Schedule ==
    /\ \/ /\ queued < MaxQueued
          /\ queued' = queued + 1
          /\ UNCHANGED faults
       \/ faults < MaxFaults /\ faults' = faults + 1 /\ UNCHANGED queued
    /\ UNCHANGED <<backend, kind, rows, worker, rivals>>

-----------------------------------------------------------------------------
(***************************************************************************)
(* The sweeps                                                              *)
(***************************************************************************)
\* find_expired_candidates and find_idle_candidates.
Candidates == {i \in Conv : IsActive(rows[i].status) /\ rows[i].overdue}

\* LIMIT without ORDER BY: any rows, as many as there are up to the limit.
Batches == kSubset(Min({Limit, Cardinality(Candidates)}), Candidates)

TakeTask(w) ==
    /\ w \notin busy
    /\ queued > 0
    /\ queued' = queued - 1
    /\ busy' = busy \cup {w}
    /\ \E S \in Batches :
          batch' = [batch EXCEPT ![w] = [i \in S |-> rows[i].status]]
    /\ UNCHANGED <<backend, kind, rows, cur, version, rivals, faults>>

Target == IF kind = "idle" THEN "idle_timeout" ELSE "expired"

Without(w, i) == [batch EXCEPT ![w] = [j \in DOMAIN batch[w] \ {i} |-> batch[w][j]]]

\* Only PROGRESS goes to IDLE_TIMEOUT; transition_to validates the object.
Refused(w, i) ==
    \/ kind = "idle" /\ batch[w][i] # "progress"
    \/ ~IsValidTransition(batch[w][i], Target)

\* Mutant: an exception ends the batch.
Pass_Ends(w, i) ==
    /\ cur[w] = NoConv /\ i \in DOMAIN batch[w]
    /\ Refused(w, i)
    /\ batch' = [batch EXCEPT ![w] = <<>>]
    /\ UNCHANGED <<backend, kind, rows, queued, busy, cur, version, rivals, faults>>

\* continue, or a ValueError that is logged: on to the next.
Pass(w, i) ==
    /\ cur[w] = NoConv /\ i \in DOMAIN batch[w]
    /\ Refused(w, i)
    /\ batch' = Without(w, i)
    /\ UNCHANGED <<backend, kind, rows, queued, busy, cur, version, rivals, faults>>

\* Mutant: the conversation stays in the batch.
ReadRow_Again(w, i) ==
    /\ cur[w] = NoConv /\ i \in DOMAIN batch[w]
    /\ ~Refused(w, i)
    /\ cur' = [cur EXCEPT ![w] = i]
    /\ version' = [version EXCEPT ![w] = rows[i].version]
    /\ UNCHANGED <<backend, kind, rows, queued, busy, batch, rivals, faults>>

\* update_status reads the row; Supabase validates the transition once more.
ReadRow(w, i) ==
    /\ cur[w] = NoConv /\ i \in DOMAIN batch[w]
    /\ ~Refused(w, i)
    /\ batch' = Without(w, i)
    /\ IF backend = "supabase" /\ ~RepoAccepts(rows[i].status, Target)
       THEN UNCHANGED <<cur, version>>
       ELSE /\ cur' = [cur EXCEPT ![w] = i]
            /\ version' = [version EXCEPT ![w] = rows[i].version]
    /\ UNCHANGED <<backend, kind, rows, queued, busy, rivals, faults>>

NextVersion(v) == IF backend = "postgres" THEN v + 1 ELSE v

Moved(row, to) ==
    [row EXCEPT !.status = to, !.version = NextVersion(@), !.overdue = IF kind = "idle" THEN FALSE ELSE @]

\* A lost race raises ConcurrencyError, which is logged.
WriteRow(w) ==
    /\ cur[w] # NoConv
    /\ rows' = IF rows[cur[w]].version = version[w]
               THEN [rows EXCEPT ![cur[w]] = Moved(@, Target)]
               ELSE rows
    /\ cur' = [cur EXCEPT ![w] = NoConv]
    /\ UNCHANGED <<backend, kind, queued, busy, batch, version, rivals, faults>>

Finish(w) ==
    /\ w \in busy
    /\ cur[w] = NoConv /\ batch[w] = <<>>
    /\ busy' = busy \ {w}
    /\ UNCHANGED <<backend, kind, rows, queued, batch, cur, version, rivals, faults>>

\* The worker dies, and the task stays behind in 'processing'.
Lose(w) ==
    /\ w \in busy
    /\ faults < MaxFaults
    /\ faults' = faults + 1
    /\ busy' = busy \ {w}
    /\ batch' = [batch EXCEPT ![w] = <<>>]
    /\ cur' = [cur EXCEPT ![w] = NoConv]
    /\ UNCHANGED <<backend, kind, rows, queued, version, rivals>>

-----------------------------------------------------------------------------
\* Any other call on conversation i: a transition of its status.
OtherCall(i, to) ==
    /\ rivals < MaxRivals
    /\ rivals' = rivals + 1
    /\ to \in ValidTransitions[rows[i].status]
    /\ rows' = [rows EXCEPT ![i] = Moved(@, to)]
    /\ UNCHANGED <<backend, kind, queued, worker, faults>>

\* extend_expiration
Extend(i) ==
    /\ rivals < MaxRivals
    /\ rivals' = rivals + 1
    /\ rows' = [rows EXCEPT ![i].overdue = FALSE, ![i].version = @ + 1]
    /\ UNCHANGED <<backend, kind, queued, worker, faults>>

TimePasses(i) ==
    /\ IsActive(rows[i].status)
    /\ ~rows[i].overdue
    /\ rows' = [rows EXCEPT ![i].overdue = TRUE]
    /\ UNCHANGED <<backend, kind, queued, worker, rivals, faults>>

Work(w) ==
    \/ \E i \in Conv : Pass(w, i) \/ ReadRow(w, i)
    \/ WriteRow(w)
    \/ Finish(w)

Next ==
    \/ Schedule
    \/ \E w \in Worker : TakeTask(w) \/ Work(w) \/ Lose(w)
    \/ \E i \in Conv :
          \/ \E to \in Targets : OtherCall(i, to)
          \/ Extend(i)
          \/ TimePasses(i)

\* The loops of the scheduler and of the workers go on.
Spec ==
    /\ Init /\ [][Next]_vars
    /\ WF_vars(Schedule)
    /\ \A w \in Worker : WF_vars(TakeTask(w) \/ Work(w))
-----------------------------------------------------------------------------
(***************************************************************************)
(* Properties                                                              *)
(***************************************************************************)

\* The candidates that the sweep refuses, again and again.
Stuck ==
    {i \in Candidates :
        IF kind = "idle" THEN rows[i].status # "progress" ELSE rows[i].status = "human_handoff"}

(***************************************************************************)
(* Whatever tasks are lost and whatever other calls come in between, a     *)
(* conversation that is out of time does not stay: it is swept, or else    *)
(* extended, closed or handed over.  The one exception is the LIMIT: there *)
(* are as many candidates that the sweep refuses as fit into a batch, and  *)
(* nothing orders the rows.                                                *)
(***************************************************************************)
OverdueIsSwept ==
    \A i \in Conv :
        i \in Candidates \ Stuck
            ~> i \notin Candidates \ Stuck \/ Cardinality(Stuck) >= Limit
=============================================================================
