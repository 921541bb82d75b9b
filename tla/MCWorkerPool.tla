----------------------------- MODULE MCWorkerPool -----------------------------
(***************************************************************************)
(* Instances of WorkerPool for TLC.                                        *)
(***************************************************************************)
EXTENDS WorkerPoolLedger

CONSTANTS j1, j2, j3

\* j1 brings its own MaxRetries, the others take the configured one.
MCJobMaxRetries == [j \in Jobs |-> IF j = j1 THEN 1 ELSE 0]
=============================================================================
