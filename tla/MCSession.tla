------------------------------ MODULE MCSession ------------------------------
(***************************************************************************)
(* Instances of Session for TLC.                                           *)
(***************************************************************************)
EXTENDS Session, TLC

\* An agent takes over.
Handoff == {"human_handoff"}

\* Nobody else touches the conversations.
Nothing == {}

Symmetry == Permutations(Message)
=============================================================================
