------------------------------- MODULE MCSweep -------------------------------
(***************************************************************************)
(* Instances of Sweep for TLC.                                             *)
(***************************************************************************)
EXTENDS Sweep

\* A message resumes a conversation, an agent takes over, the user says goodbye.
Moves == {"progress", "human_handoff", "user_closed"}
=============================================================================
