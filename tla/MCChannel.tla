------------------------------ MODULE MCChannel ------------------------------
(***************************************************************************)
(* Instances of Channel for TLC.                                           *)
(***************************************************************************)
EXTENDS Channel

\* An agent takes over, or the conversation is closed under the user's feet.
Moves == {"human_handoff", "support_closed"}
=============================================================================
