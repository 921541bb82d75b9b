------------------------------ MODULE JobLedger -------------------------------
(***************************************************************************)
(* What internal/worker/pool.go promises of each job it accepts, without   *)
(* channels, workers or goroutines: it is attempted one to Limit[job]      *)
(* times, then settled at most once and counted at that moment, and it is  *)
(* failed only when no attempt is left.                                    *)
(***************************************************************************)
EXTENDS Naturals

CONSTANTS Jobs, Limit    \* Limit[job]: how many attempts it has

VARIABLES outcome, tries, completed, failed

ledger == <<outcome, tries, completed, failed>>

Init ==
  /\ outcome = [j \in Jobs |-> "new"]
  /\ tries = [j \in Jobs |-> 0]
  /\ completed = 0 /\ failed = 0

Record(j, o) == outcome' = [outcome EXCEPT ![j] = o]

Accept(j) ==
  /\ outcome[j] = "new"
  /\ Record(j, "open")
  /\ UNCHANGED <<tries, completed, failed>>

Attempt(j) ==
  /\ outcome[j] = "open" /\ tries[j] < Limit[j]
  /\ tries' = [tries EXCEPT ![j] = @ + 1]
  /\ UNCHANGED <<outcome, completed, failed>>

Complete(j) ==
  /\ outcome[j] = "open" /\ tries[j] > 0
  /\ Record(j, "completed") /\ completed' = completed + 1
  /\ UNCHANGED <<tries, failed>>

Fail(j) ==
  /\ outcome[j] = "open" /\ tries[j] = Limit[j]
  /\ Record(j, "failed") /\ failed' = failed + 1
  /\ UNCHANGED <<tries, completed>>

Next == \E j \in Jobs : Accept(j) \/ Attempt(j) \/ Complete(j) \/ Fail(j)

Spec == Init /\ [][Next]_ledger
=============================================================================
