--------------------------- MODULE MCSqliteQueue ----------------------------
(***************************************************************************)
(* Instances of SqliteQueue for TLC: tasks and workers are model values of *)
(* the configuration, and so is NoTask.                                    *)
(***************************************************************************)
EXTENDS SqliteQueue
=============================================================================
