----------------------------- MODULE TaskQueue ------------------------------
(***************************************************************************)
(* What the task queue promises its users, whichever the backend: a task   *)
(* is held by one worker at a time, is handed out at most MaxRuns times,   *)
(* is buried only when it has been handed out that often, and is never     *)
(* handed out again once it is finished or buried.  A worker that stops    *)
(* leaves the task it holds behind.                                        *)
(***************************************************************************)
EXTENDS Naturals

CONSTANTS Task, Worker, MaxRuns

VARIABLES
    state,   \* state of each task
    holder,  \* the workers that hold each task
    runs     \* how often each task was handed out

vars == <<state, holder, runs>>

Init ==
    /\ state = [t \in Task |-> "new"]
    /\ holder = [t \in Task |-> {}]
    /\ runs = [t \in Task |-> 0]

Submit(t) ==
    /\ state[t] = "new"
    /\ state' = [state EXCEPT ![t] = "waiting"]
    /\ UNCHANGED <<holder, runs>>

Take(t, w) ==
    /\ state[t] = "waiting"
    /\ runs[t] < MaxRuns
    /\ state' = [state EXCEPT ![t] = "taken"]
    /\ holder' = [holder EXCEPT ![t] = {w}]
    /\ runs' = [runs EXCEPT ![t] = @ + 1]

\* The worker hands the task back, finishes it, or buries it.
Release(t, w, s) ==
    /\ state[t] = "taken" /\ holder[t] = {w}
    /\ s = "waiting" => runs[t] < MaxRuns
    /\ s = "buried" => runs[t] = MaxRuns
    /\ state' = [state EXCEPT ![t] = s]
    /\ holder' = [holder EXCEPT ![t] = {}]
    /\ UNCHANGED runs

Abandon(t, w) ==
    /\ state[t] = "taken" /\ holder[t] = {w}
    /\ holder' = [holder EXCEPT ![t] = {}]
    /\ UNCHANGED <<state, runs>>

Next ==
    \E t \in Task :
        \/ Submit(t)
        \/ \E w \in Worker :
              \/ Take(t, w)
              \/ \E s \in {"waiting", "finished", "buried"} : Release(t, w, s)
              \/ Abandon(t, w)

Spec == Init /\ [][Next]_vars
=============================================================================
