--------------------------- MODULE WorkerPoolLedger ---------------------------
(***************************************************************************)
(* The pool implements the ledger.  A job is settled in the ledger when its*)
(* counter is incremented, one step after its status says so.              *)
(***************************************************************************)
EXTENDS WorkerPool

Uncounted(j) == \E w \in Workers : hand[w] = j /\ pc[w] \in {"countOk", "countFail"}

LedgerOutcome(j) ==
  IF status[j] \in Terminal /\ ~Uncounted(j) THEN status[j]
  ELSE IF j \in accepted THEN "open" ELSE "new"

\* MaxRetries is compared after Attempts++: zero still gives one attempt.
AttemptLimit(j) == IF MaxRetries(j) = 0 THEN 1 ELSE MaxRetries(j)

Ledger == INSTANCE JobLedger WITH
            Limit   <- [j \in Jobs |-> AttemptLimit(j)],
            outcome <- [j \in Jobs |-> LedgerOutcome(j)],
            tries   <- attempts

\* Every behaviour of the pool, its Stop, restart and panics included, is one of the
\* ledger: each accepted job is attempted within its limit, settled at most once, counted
\* when it is settled, and failed only when its attempts are used up.
ImplementsLedger == Ledger!Spec
=============================================================================
