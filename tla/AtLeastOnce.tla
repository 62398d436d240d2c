---------------------------- MODULE AtLeastOnce -----------------------------
(***************************************************************************)
(* What the hosted queues promise their users.  A task that was handed out *)
(* may return to the queue while its worker goes on, and then has several  *)
(* holders; but it is finished once, by one of them and after somebody has *)
(* executed it, and what is finished or buried stays so.                   *)
(***************************************************************************)
CONSTANTS Task, Worker

VARIABLES
    state,    \* state of each task
    holders,  \* the workers that believe to have it
    done      \* somebody has executed it

vars == <<state, holders, done>>

Init ==
    /\ state = [t \in Task |-> "new"]
    /\ holders = [t \in Task |-> {}]
    /\ done = [t \in Task |-> FALSE]

Becomes(t, s) == state' = [state EXCEPT ![t] = s]

Submit(t) ==
    /\ state[t] = "new"
    /\ Becomes(t, "waiting")
    /\ UNCHANGED <<holders, done>>

\* It is handed to a worker that has no other, or to nobody that knows.
Take(t, w) ==
    /\ state[t] = "waiting"
    /\ \A u \in Task : w \notin holders[u]
    /\ Becomes(t, "taken")
    /\ holders' = [holders EXCEPT ![t] = @ \cup {w}]
    /\ UNCHANGED done

Mislay(t) ==
    /\ state[t] = "waiting"
    /\ Becomes(t, "taken")
    /\ UNCHANGED <<holders, done>>

\* The queue takes it back, or gives it up, whoever holds it.
Return(t) ==
    /\ state[t] = "taken"
    /\ \E s \in {"waiting", "buried"} : Becomes(t, s)
    /\ UNCHANGED <<holders, done>>

Execute(t, w) ==
    /\ w \in holders[t]
    /\ done' = [done EXCEPT ![t] = TRUE]
    /\ UNCHANGED <<state, holders>>

Drop(t, w) ==
    /\ w \in holders[t]
    /\ holders' = [holders EXCEPT ![t] = @ \ {w}]
    /\ UNCHANGED done

\* A holder finishes it, buries it, or lets go of it.
Finish(t, w) ==
    /\ done[t] /\ state[t] \in {"waiting", "taken"}
    /\ Becomes(t, "finished")
    /\ Drop(t, w)

Bury(t, w) ==
    /\ state[t] = "taken"
    /\ Becomes(t, "buried")
    /\ Drop(t, w)

Abandon(t, w) == Drop(t, w) /\ UNCHANGED state

Next ==
    \E t \in Task :
        \/ Submit(t) \/ Mislay(t) \/ Return(t)
        \/ \E w \in Worker :
              Take(t, w) \/ Execute(t, w) \/ Finish(t, w) \/ Bury(t, w) \/ Abandon(t, w)

Spec == Init /\ [][Next]_vars
=============================================================================
