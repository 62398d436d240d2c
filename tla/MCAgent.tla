------------------------------- MODULE MCAgent -------------------------------
(***************************************************************************)
(* Instances of Agent for TLC.                                             *)
(***************************************************************************)
EXTENDS Agent, TLC

CONSTANTS t1, t2, t3, p1, p2

\* Two workers, so that the turns may overlap; one of them may take a second
\* turn while the other is still at its first.
Procs == [t \in Turn |-> IF t = t2 THEN p2 ELSE p1]

\* Two steps show every way a loop can go on or end; where turns overlap, one.
Steps == [t \in Turn |-> IF t = t1 THEN 2 ELSE 1]
OneStep == [t \in Turn |-> 1]

\* The two turns of the first worker are alike.
Alike == Permutations({t1, t3})

\* A conversation with a message that was answered, and one as long as what
\* is read of the table.
Answered == <<User("past"), Assistant("past")>>
Pasts == {Answered}
LongPasts == {Answered, [i \in 1 .. Limit - 2 |-> User("older")] \o Answered}
=============================================================================
