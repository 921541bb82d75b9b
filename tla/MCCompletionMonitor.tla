-------------------------- MODULE MCCompletionMonitor --------------------------
(***************************************************************************)
(* Instances of CompletionMonitor alone for TLC.                           *)
(***************************************************************************)
EXTENDS CompletionMonitor
===============================================================================
