---------------------------- MODULE MCCloudQueue ----------------------------
(***************************************************************************)
(* Instances of CloudQueue for TLC: tasks, workers and NoOne are model     *)
(* values of the configuration.                                            *)
(***************************************************************************)
EXTENDS CloudQueue
=============================================================================
