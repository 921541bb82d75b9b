------------------------ MODULE WorkerPoolLedgerProofs ------------------------
(***************************************************************************)
(* Theorems about the counters of WorkerPool and about the ledger it       *)
(* implements, for any sets of jobs and workers, any queue size and retry  *)
(* limits.  They rest on the invariant Inv of WorkerPoolProofs.            *)
(***************************************************************************)
EXTENDS WorkerPoolLedger, WorkerPoolProofs

(***************************************************************************)
(* The sets the counters are compared with, and how a step changes them.   *)
(***************************************************************************)
LEMMA CountedFinite ==
  /\ \A st : IsFiniteSet(With(st)) /\ Cardinality(With(st)) \in Nat
  /\ \A place : IsFiniteSet(At(place)) /\ Cardinality(At(place)) \in Nat
<1>1. \A st : With(st) \subseteq Jobs
  BY DEF With
<1>2. \A place : At(place) \subseteq Workers
  BY DEF At
<1>3. \A st : IsFiniteSet(With(st))
  BY <1>1, JobsAssumption, FS_Subset
<1>4. \A place : IsFiniteSet(At(place))
  BY <1>2, WorkersAssumption, FS_Subset
<1> QED BY <1>3, <1>4, FS_CardinalityType

LEMMA GainsOne ==
  ASSUME NEW S, NEW T, NEW x, IsFiniteSet(S), x \notin S, T = S \cup {x}
  PROVE  Cardinality(T) = Cardinality(S) + 1
BY FS_AddElement

\* A step that takes no job to its final status and no worker to or from a count.
LEMMA CountsSame ==
  ASSUME CountersMatchStatuses, UNCHANGED <<completed, failed>>,
         \A j \in Jobs : status[j] \in Terminal \/ status'[j] \in Terminal => status'[j] = status[j],
         \A v \in Workers : pc[v] \in {"countOk", "countFail"} \/ pc'[v] \in {"countOk", "countFail"}
                            => pc'[v] = pc[v]
  PROVE  CountersMatchStatuses'
<1>1. With("completed")' = With("completed") /\ With("failed")' = With("failed")
  BY DEF With, Terminal
<1>2. At("countOk")' = At("countOk") /\ At("countFail")' = At("countFail")
  BY DEF At
<1> QED BY <1>1, <1>2 DEF CountersMatchStatuses

\* An outcome is set: the status counts the job, and the worker is about to.
LEMMA OutcomeCounts ==
  ASSUME Inv, CountersMatchStatuses, NEW w \in Workers,
         NEW st, NEW place, <<st, place>> \in {<<"completed", "countOk">>, <<"failed", "countFail">>},
         Executed(w, st, place)
  PROVE  CountersMatchStatuses'
<1> DEFINE j == hand[w]
<1>1. /\ j \in Jobs /\ status[j] = "running" /\ pc[w] = "running"
  BY HandIsJob DEF Executed, StatusInHand
<1>2. /\ status'[j] = st /\ \A k \in Jobs \ {j} : status'[k] = status[k]
      /\ pc'[w] = place /\ \A v \in Workers \ {w} : pc'[v] = pc[v]
      /\ UNCHANGED <<completed, failed>>
  BY <1>1 DEF Executed, Goto, Inv, TypeInv, TypeOK, tally
<1> HIDE DEF j
<1>3. With(st)' = With(st) \cup {j} /\ j \notin With(st)
  BY <1>1, <1>2 DEF With
<1>4. At(place)' = At(place) \cup {w} /\ w \notin At(place)
  BY <1>1, <1>2 DEF At
<1>5. Cardinality(With(st)') = Cardinality(With(st)) + 1
      /\ Cardinality(At(place)') = Cardinality(At(place)) + 1
  BY <1>3, <1>4, CountedFinite, GainsOne
<1>6. CASE st = "completed" /\ place = "countOk"
  <2>1. With("failed")' = With("failed") /\ At("countFail")' = At("countFail")
    BY <1>1, <1>2, <1>6 DEF With, At
  <2> QED BY <1>2, <1>5, <1>6, <2>1, CountedFinite
          DEF CountersMatchStatuses, Inv, TypeInv, TypeOK
<1>7. CASE st = "failed" /\ place = "countFail"
  <2>1. With("completed")' = With("completed") /\ At("countOk")' = At("countOk")
    BY <1>1, <1>2, <1>7 DEF With, At
  <2> QED BY <1>2, <1>5, <1>7, <2>1, CountedFinite
          DEF CountersMatchStatuses, Inv, TypeInv, TypeOK
<1> QED BY <1>6, <1>7

\* The counter is incremented, and the worker is no longer about to.
LEMMA CountResultCounts ==
  ASSUME Inv, CountersMatchStatuses, NEW w \in Workers, CountResult(w)
  PROVE  CountersMatchStatuses'
<1>0. /\ pc'[w] = "send" /\ \A v \in Workers \ {w} : pc'[v] = pc[v]
      /\ status' = status
  BY DEF CountResult, CountWhen, Goto, Inv, TypeInv, TypeOK
<1>1. With("completed")' = With("completed") /\ With("failed")' = With("failed")
  BY <1>0 DEF With
<1>2. CASE pc[w] = "countOk" /\ completed' = completed + 1 /\ failed' = failed
  <2>1. At("countOk") = At("countOk")' \cup {w} /\ w \notin At("countOk")'
        /\ At("countFail")' = At("countFail")
    BY <1>0, <1>2 DEF At
  <2>2. Cardinality(At("countOk")) = Cardinality(At("countOk")') + 1
        /\ Cardinality(At("countOk")') \in Nat
    <3>1. IsFiniteSet(At("countOk")')
      BY <2>1, CountedFinite, FS_Subset
    <3> QED BY <2>1, <3>1, GainsOne, FS_CardinalityType
  <2> QED BY <1>1, <1>2, <2>1, <2>2, CountedFinite
          DEF CountersMatchStatuses, Inv, TypeInv, TypeOK
<1>3. CASE pc[w] = "countFail" /\ failed' = failed + 1 /\ completed' = completed
  <2>1. At("countFail") = At("countFail")' \cup {w} /\ w \notin At("countFail")'
        /\ At("countOk")' = At("countOk")
    BY <1>0, <1>3 DEF At
  <2>2. Cardinality(At("countFail")) = Cardinality(At("countFail")') + 1
        /\ Cardinality(At("countFail")') \in Nat
    <3>1. IsFiniteSet(At("countFail")')
      BY <2>1, CountedFinite, FS_Subset
    <3> QED BY <2>1, <3>1, GainsOne, FS_CardinalityType
  <2> QED BY <1>1, <1>3, <2>1, <2>2, CountedFinite
          DEF CountersMatchStatuses, Inv, TypeInv, TypeOK
<1> QED BY <1>2, <1>3 DEF CountResult, CountWhen

LEMMA InitCounts == Init => CountersMatchStatuses
<1> SUFFICES ASSUME Init PROVE CountersMatchStatuses
  OBVIOUS
<1>1. With("completed") = {} /\ With("failed") = {} /\ At("countOk") = {} /\ At("countFail") = {}
  BY DEF Init, With, At
<1>2. Cardinality({}) = 0
  BY FS_EmptySet
<1>3. completed = 0 /\ failed = 0
  BY DEF Init
<1> QED BY <1>1, <1>2, <1>3 DEF CountersMatchStatuses

LEMMA StepCounts == Inv /\ CountersMatchStatuses /\ [Next]_vars => CountersMatchStatuses'
<1> SUFFICES ASSUME Inv, CountersMatchStatuses, [Next]_vars PROVE CountersMatchStatuses'
  OBVIOUS
<1>0. /\ status \in [Jobs -> Statuses] /\ pc \in [Workers -> WorkerPCs]
      /\ \A j \in Jobs : status[j] \in Terminal => status'[j] = status[j]
  BY FinalStatusStep DEF Inv, TypeInv, TypeOK
<1>1. CASE Start
  BY <1>0, <1>1, CountsSame DEF Start, WaitGroupZero, Exited, tally
<1>2. ASSUME NEW j \in Jobs, Submit(j) PROVE CountersMatchStatuses'
  <2>1. status' = [status EXCEPT ![j] = "pending"] /\ UNCHANGED <<pc, completed, failed>>
    BY <1>2 DEF Submit, SubmitAccepted, SubmitRefused, SubmitPanics, SubmitCounts, tally
  <2>2. \A k \in Jobs : status'[k] \in Terminal => status'[k] = status[k]
    BY <1>0, <2>1 DEF Terminal
  <2> QED BY <1>0, <2>1, <2>2, CountsSame
<1>3. CASE StopCancel \/ StopClose \/ StopFinish
  BY <1>3, CountsSame DEF StopCancel, StopClose, StopFinish, StopUnchanged, tally
<1>4. ASSUME NEW w \in Workers, Worker(w) PROVE CountersMatchStatuses'
  <2>1. CASE CountResult(w)
    BY <2>1, CountResultCounts
  <2>2. CASE ExecuteSucceeds(w)
    BY <2>2, OutcomeCounts DEF ExecuteSucceeds
  <2>3. CASE ExecuteFails(w)
    <3>1. CASE Executed(w, "failed", "countFail")
      BY <3>1, OutcomeCounts
    <3>2. CASE Executed(w, "retrying", "retry")
      BY <1>0, <3>2, CountsSame DEF Executed, Goto, Terminal, tally
    <3> QED BY <2>3, <3>1, <3>2 DEF ExecuteFails
  <2>4. CASE BeginJob(w)
    BY <1>0, <2>4, CountsSame DEF BeginJob, Goto, Terminal
  <2>5. CASE WorkerTakes(w) \/ WorkerExits(w) \/ ScheduleRetry(w) \/ SendResult(w) \/ LeaveJob(w)
    <3>1. UNCHANGED <<status, completed, failed>>
      BY <2>5 DEF WorkerTakes, WorkerExits, ScheduleRetry, SpawnRetrier, SendResult, LeaveJob,
                  tally
    <3>2. pc[w] \in {"select", "retry", "send", "leave"}
          /\ \E place \in {"taken", "done", "leave", "select"} : Goto(w, place)
      BY <2>5 DEF WorkerTakes, WorkerExits, ScheduleRetry, SpawnRetrier, SendResult, LeaveJob
    <3> QED BY <1>0, <3>1, <3>2, CountsSame DEF Goto
  <2> QED BY <1>4, <2>1, <2>2, <2>3, <2>4, <2>5 DEF Worker, WorkInBody
<1>5. ASSUME NEW r \in retriers, Retrier(r) PROVE CountersMatchStatuses'
  <2>1. UNCHANGED <<pc, completed, failed>>
    BY <1>5 DEF Retrier, TimerFires, RetryCancelled, ReadStopped, ResetStatus, RetryQueued,
                RetryDropped, RetryPanics, RetryUnchanged, tally
  <2>2. status' = status \/ status' = [status EXCEPT ![r.job] = "pending"]
    BY <1>5 DEF Retrier, TimerFires, RetryCancelled, ReadStopped, ResetStatus, RetryQueued,
                RetryDropped, RetryPanics
  <2>3. \A k \in Jobs : status'[k] \in Terminal => status'[k] = status[k]
    BY <1>0, <2>2 DEF Terminal
  <2> QED BY <1>0, <2>1, <2>3, CountsSame
<1>6. CASE ProcessResult \/ ProcessorExits
  BY <1>6, CountsSame DEF ProcessResult, ProcessorExits, tally
<1>7. CASE UNCHANGED vars
  BY <1>7, CountsSame DEF vars
<1> QED BY <1>1, <1>2, <1>3, <1>4, <1>5, <1>6, <1>7 DEF Next, Step, Terminated

\* CompletedJobs and FailedJobs are the numbers of jobs with that status, less the workers
\* that have set it and not counted yet: no outcome is counted twice, and none is lost.
THEOREM CountersMatch == Spec => []CountersMatchStatuses
BY InitInv, StepInv, InitCounts, StepCounts, PTL DEF Spec
-----------------------------------------------------------------------------
(***************************************************************************)
(* What waitForCompletion may conclude from the counters.                  *)
(***************************************************************************)

\* Only accepted jobs are settled, so the counters reach the number of accepted jobs only
\* when all of them are settled and counted.
LEMMA AllCounted ==
  ASSUME Inv, CountersMatchStatuses, completed + failed >= Cardinality(accepted)
  PROVE  /\ \A j \in accepted : status[j] \in Terminal
         /\ At("countOk") = {} /\ At("countFail") = {}
<1> DEFINE settled == With("completed") \cup With("failed")
<1>1. With("completed") \cap With("failed") = {} /\ settled \subseteq accepted
  BY DEF With, Inv, PlacesConsistent
<1>2. IsFiniteSet(accepted) /\ IsFiniteSet(settled)
  <2>1. accepted \subseteq Jobs /\ settled \subseteq Jobs
    BY DEF Inv, TypeInv, TypeOK, With
  <2> QED BY <2>1, JobsAssumption, FS_Subset
<1>3. Cardinality({}) = 0
  BY FS_EmptySet
<1>4. Cardinality(settled) = Cardinality(With("completed")) + Cardinality(With("failed"))
  <2>1. Cardinality(settled) = Cardinality(With("completed")) + Cardinality(With("failed"))
                               - Cardinality(With("completed") \cap With("failed"))
    BY CountedFinite, FS_Union
  <2>2. Cardinality(With("completed")) \in Nat /\ Cardinality(With("failed")) \in Nat
    BY CountedFinite
  <2>3. Cardinality(With("completed") \cap With("failed")) = 0
    BY <1>1, <1>3
  <2> HIDE DEF settled
  <2> QED BY <2>1, <2>2, <2>3
<1>5. Cardinality(settled) <= Cardinality(accepted)
      /\ (Cardinality(accepted) = Cardinality(settled) => accepted = settled)
  BY <1>1, <1>2, FS_Subset
<1>6. Cardinality(settled) \in Nat /\ Cardinality(accepted) \in Nat
  BY <1>2, FS_CardinalityType
<1> HIDE DEF settled
<1>7. Cardinality(accepted) = Cardinality(settled)
      /\ Cardinality(At("countOk")) = 0 /\ Cardinality(At("countFail")) = 0
  BY <1>4, <1>5, <1>6, CountedFinite DEF CountersMatchStatuses, Inv, TypeInv, TypeOK
<1>8. At("countOk") = {} /\ At("countFail") = {}
  BY <1>7, CountedFinite, FS_EmptySet
<1>9. accepted = settled
  BY <1>5, <1>7
<1> QED BY <1>8, <1>9 DEF settled, With, Terminal

LEMMA CountedIsIdle == Inv /\ CountersMatchStatuses => AllCountedMeansIdle
<1> SUFFICES ASSUME Inv, CountersMatchStatuses, completed + failed >= Cardinality(accepted)
             PROVE  /\ queue = <<>> /\ retriers = {}
                    /\ \A w \in Workers :
                         pc[w] \notin {"taken", "running", "retry", "countOk", "countFail"}
                    /\ \A j \in accepted : status[j] \in Terminal
  BY DEF AllCountedMeansIdle
<1>1. queue = <<>>
  <2>1. \A i \in QueuePositions : FALSE
    BY AllCounted DEF Inv, PlacesConsistent, Terminal
  <2>2. queue \in Seq(Jobs) /\ Len(queue) = 0
    BY <2>1 DEF QueuePositions, Inv, TypeInv, TypeOK
  <2> QED BY <2>2
<1>2. retriers = {}
  BY AllCounted DEF Inv, PlacesConsistent, RetrierConsistent, Terminal
<1>3. ASSUME NEW w \in Workers, pc[w] \in {"taken", "running", "retry"} PROVE FALSE
  BY <1>3, AllCounted, HandIsJob DEF StatusInHand, Terminal
<1>4. \A w \in Workers : pc[w] \notin {"countOk", "countFail"}
  BY AllCounted DEF At
<1> QED BY <1>1, <1>2, <1>3, <1>4, AllCounted

\* When the counters add up to the accepted jobs, nothing is left to do and every accepted
\* job has its final status: what waitForCompletion concludes is so.
THEOREM AllCountedIsIdle == Spec => []AllCountedMeansIdle
BY InitInv, StepInv, InitCounts, StepCounts, CountedIsIdle, PTL DEF Spec
-----------------------------------------------------------------------------
(***************************************************************************)
(* How a job is lost.                                                      *)
(***************************************************************************)
Held(j) == \/ \E i \in QueuePositions : queue[i] = j
           \/ \E w \in Workers : hand[w] = j
           \/ \E r \in retriers : r.job = j

LEMMA LostIsNotHeld ==
  ASSUME NEW j \in Jobs
  PROVE  /\ Lost(j)  <=> j \in accepted /\ status[j] \notin Terminal /\ ~Held(j)
         /\ Lost(j)' <=> j \in accepted' /\ status'[j] \notin Terminal /\ ~Held(j)'
BY DEF Lost, Held

\* A worker lets go of a job only when it is settled or handed to a retry goroutine.
LEMMA WorkerKeepsHold ==
  ASSUME Inv, NEW w \in Workers, Worker(w), NEW j \in Jobs, Held(j)
  PROVE  Held(j)' \/ status'[j] \in Terminal
<1>0. hand \in [Workers -> Jobs \cup {NoJob}] /\ queue \in Seq(Jobs)
  BY DEF Inv, TypeInv, TypeOK
<1>1. CASE WorkerTakes(w)
  <2>1. /\ hand'[w] = queue[1] /\ \A v \in Workers \ {w} : hand'[v] = hand[v]
        /\ \A i \in QueuePositions \ {1} : i - 1 \in QueuePositions' /\ queue'[i - 1] = queue[i]
        /\ retriers' = retriers
    BY <1>0, <1>1 DEF WorkerTakes, QueuePositions
  <2>2. hand[w] = NoJob
    BY <1>1 DEF WorkerTakes, Inv, PlacesConsistent, HandConsistent
  <2>3. j # NoJob
    BY JobsAssumption
  <2> QED BY <2>1, <2>2, <2>3 DEF Held
<1>2. CASE ScheduleRetry(w)
  <2> DEFINE new == [job |-> hand[w], attempt |-> attempts[hand[w]], at |-> "sleep"]
  <2>1. /\ \A v \in Workers \ {w} : hand'[v] = hand[v]
        /\ UNCHANGED queue /\ retriers' = retriers \cup {new}
    BY <1>0, <1>2 DEF ScheduleRetry, SpawnRetrier, HandOver
  <2>2. new.job = hand[w]
    OBVIOUS
  <2> HIDE DEF new
  <2>3. \E r \in retriers' : r.job = hand[w]
    BY <2>1, <2>2
  <2> QED BY <2>1, <2>3 DEF Held, QueuePositions
<1>3. CASE SendResult(w)
  <2>1. /\ \A v \in Workers \ {w} : hand'[v] = hand[v]
        /\ UNCHANGED <<queue, retriers, status>>
    BY <1>0, <1>3 DEF SendResult, HandOver
  <2>2. status[hand[w]] \in Terminal
    BY <1>3, HandIsJob DEF SendResult, StatusInHand
  <2> QED BY <2>1, <2>2 DEF Held, QueuePositions
<1>4. CASE UNCHANGED <<queue, hand, retriers>>
  BY <1>4 DEF Held, QueuePositions
<1> QED BY <1>1, <1>2, <1>3, <1>4
        DEF Worker, WorkInBody, WorkerExits, BeginJob, ExecuteSucceeds, ExecuteFails, Executed,
            CountResult, CountWhen, LeaveJob

LEMMA RetrierKeepsHold ==
  ASSUME Inv, life = "open", NEW r \in retriers, Retrier(r), NEW j \in Jobs, Held(j), ~Held(j)'
  PROVE  Len(queue) = QueueSize /\ r.job = j /\ r.at = "send"
<1>0. queue \in Seq(Jobs) /\ r \in Retriers /\ UNCHANGED hand
  BY DEF Inv, TypeInv, TypeOK, Retrier, TimerFires, RetryCancelled, ReadStopped, ResetStatus,
         RetryQueued, RetryDropped, RetryPanics, RetryUnchanged
<1>1. ~RetryCancelled(r) /\ ~RetryPanics(r) /\ ~(ReadStopped(r) /\ Stopped)
  BY DEF RetryCancelled, RetryPanics, Stopped, CtxDone, JobsClosed
<1>2. ASSUME NEW place, MoveRetrier(r, place), UNCHANGED queue PROVE FALSE
  <2>1. [r EXCEPT !.at = place].job = r.job /\ [r EXCEPT !.at = place] \in retriers'
    BY <1>0, <1>2 DEF MoveRetrier, Retriers
  <2>2. \A s \in retriers : \E t \in retriers' : t.job = s.job
    BY <1>2, <2>1 DEF MoveRetrier
  <2> QED BY <1>0, <1>2, <2>2 DEF Held, QueuePositions
<1>3. CASE RetryQueued(r)
  <2>1. /\ \A i \in QueuePositions : i \in QueuePositions' /\ queue'[i] = queue[i]
        /\ Len(queue) + 1 \in QueuePositions' /\ queue'[Len(queue) + 1] = r.job
        /\ retriers' = retriers \ {r}
    BY <1>0, <1>3 DEF RetryQueued, Enqueue, EndRetrier, QueuePositions, Retriers
  <2> QED BY <1>0, <2>1 DEF Held
<1>4. CASE RetryDropped(r)
  <2>1. Len(queue) = QueueSize /\ r.at = "send"
    BY <1>4 DEF RetryDropped, CtxDone
  <2>2. UNCHANGED queue /\ retriers' = retriers \ {r}
    BY <1>4 DEF RetryDropped, EndRetrier
  <2> QED BY <1>0, <2>1, <2>2 DEF Held, QueuePositions
<1> QED BY <1>1, <1>2, <1>3, <1>4 DEF Retrier, TimerFires, ReadStopped, ResetStatus

LEMMA LostStep ==
  ASSUME Inv, [Next]_vars, NEW j \in Jobs, life = "open", ~Lost(j), Lost(j)'
  PROVE  Len(queue) = QueueSize /\ \E r \in retriers : r.job = j /\ r.at = "send"
<1>0. j \in accepted' /\ status'[j] \notin Terminal /\ ~Held(j)'
      /\ (j \in accepted /\ status[j] \notin Terminal => Held(j))
  BY LostIsNotHeld
<1>1. status[j] \notin Terminal
  BY <1>0, FinalStatusStep
<1>2. CASE UNCHANGED <<accepted, queue, hand, retriers>>
  BY <1>0, <1>1, <1>2 DEF Held, QueuePositions
<1>3. ASSUME NEW k \in Jobs, Submit(k) PROVE FALSE
  <2>1. UNCHANGED <<hand, retriers>>
    BY <1>3 DEF Submit, SubmitAccepted, SubmitRefused, SubmitPanics, SubmitCounts
  <2>2. CASE SubmitAccepted(k)
    <3>1. queue \in Seq(Jobs) /\ queue' = Append(queue, k) /\ accepted' = accepted \cup {k}
      BY <2>2 DEF SubmitAccepted, Enqueue, Accept, Inv, TypeInv, TypeOK
    <3>2. /\ \A i \in QueuePositions : i \in QueuePositions' /\ queue'[i] = queue[i]
          /\ Len(queue) + 1 \in QueuePositions' /\ queue'[Len(queue) + 1] = k
      BY <3>1 DEF QueuePositions
    <3> QED BY <1>0, <1>1, <2>1, <3>1, <3>2 DEF Held
  <2>3. CASE UNCHANGED <<accepted, queue>>
    BY <1>2, <2>1, <2>3, <1>0, <1>1 DEF Held, QueuePositions
  <2> QED BY <1>3, <2>2, <2>3 DEF Submit, SubmitRefused, SubmitPanics
<1>4. ASSUME NEW w \in Workers, Worker(w) PROVE FALSE
  <2>1. accepted' = accepted
    BY <1>4 DEF Worker, WorkInBody, WorkerTakes, WorkerExits, BeginJob, ExecuteSucceeds,
                ExecuteFails, Executed, ScheduleRetry, SpawnRetrier, CountResult, CountWhen,
                SendResult, LeaveJob, shared, client
  <2> QED BY <1>0, <1>1, <1>4, <2>1, WorkerKeepsHold
<1>5. ASSUME NEW r \in retriers, Retrier(r)
      PROVE  Len(queue) = QueueSize /\ r.job = j /\ r.at = "send"
  <2>1. accepted' = accepted
    BY <1>5 DEF Retrier, TimerFires, RetryCancelled, ReadStopped, ResetStatus, RetryQueued,
                RetryDropped, RetryPanics, RetryUnchanged, shared, client
  <2> QED BY <1>0, <1>1, <1>5, <2>1, RetrierKeepsHold
<1> QED BY <1>2, <1>3, <1>4, <1>5
        DEF Next, Step, Terminated, Start, StopCancel, StopClose, StopFinish, StopUnchanged,
            ProcessResult, ProcessorExits, vars, shared, client

\* While the pool is open an accepted job that is not settled stays in some place, unless
\* its retry goroutine finds p.jobs full.
THEOREM LostWhenFull == Spec => LostOnlyWhenFull
<1>1. Inv /\ [Next]_vars =>
        [\A j \in Jobs : life = "open" /\ ~Lost(j) /\ Lost(j)' =>
           Len(queue) = QueueSize /\ \E r \in retriers : r.job = j /\ r.at = "send"]_vars
  BY LostStep
<1> QED BY <1>1, InitInv, StepInv, PTL DEF Spec, LostOnlyWhenFull
-----------------------------------------------------------------------------
(***************************************************************************)
(* The attempts of a job, and the refinement of the ledger.                *)
(***************************************************************************)

\* How many attempts a job has had at each status: a job is failed only when it has had all
\* of them, and one that waits for another has one left.
AttemptsFit(j) ==
  /\ attempts[j] <= AttemptLimit(j)
  /\ j \notin accepted => attempts[j] = 0
  /\ status[j] = "pending" => attempts[j] = 0 \/ attempts[j] < MaxRetries(j)
  /\ status[j] = "retrying" => attempts[j] < MaxRetries(j)
  /\ status[j] \in {"running", "completed", "failed"} => attempts[j] > 0
  /\ status[j] = "failed" => attempts[j] = AttemptLimit(j)

AttemptInv == \A j \in Jobs : AttemptsFit(j)

LEMMA LimitType ==
  ASSUME NEW j \in Jobs
  PROVE  /\ MaxRetries(j) \in Nat /\ AttemptLimit(j) \in Nat /\ AttemptLimit(j) > 0
         /\ MaxRetries(j) > 0 => AttemptLimit(j) = MaxRetries(j)
         /\ MaxRetries(j) <= AttemptLimit(j)
BY RetriesAssumption DEF MaxRetries, AttemptLimit

LEMMA InitAttempts == Init => AttemptInv
<1> SUFFICES ASSUME Init, NEW j \in Jobs PROVE AttemptsFit(j)
  BY DEF AttemptInv
<1>1. status[j] = "new" /\ attempts[j] = 0
  BY DEF Init
<1> QED BY <1>1, LimitType DEF AttemptsFit

\* A step that leaves the job alone, or only accepts it.
LEMMA AttemptsSame ==
  ASSUME NEW j \in Jobs, AttemptsFit(j), attempts'[j] = attempts[j],
         j \in accepted => j \in accepted',
         \/ status'[j] = status[j]
         \/ status[j] = "retrying" /\ status'[j] = "pending"
         \/ attempts[j] = 0 /\ status'[j] = "pending"
  PROVE  AttemptsFit(j)'
BY DEF AttemptsFit, AttemptLimit, MaxRetries

LEMMA StepAttempts == Inv /\ AttemptInv /\ [Next]_vars => AttemptInv'
<1> SUFFICES ASSUME Inv, AttemptInv, [Next]_vars, NEW j \in Jobs PROVE AttemptsFit(j)'
  BY DEF AttemptInv
<1>0. /\ AttemptsFit(j) /\ attempts[j] \in Nat
      /\ status \in [Jobs -> Statuses] /\ attempts \in [Jobs -> Nat]
  BY DEF AttemptInv, Inv, TypeInv, TypeOK
<1>1. CASE UNCHANGED <<status, attempts, accepted>>
  BY <1>0, <1>1, AttemptsSame
<1>2. ASSUME NEW k \in Jobs, Submit(k) PROVE AttemptsFit(j)'
  <2>1. /\ k \notin accepted /\ status' = [status EXCEPT ![k] = "pending"]
        /\ attempts' = attempts /\ accepted \subseteq accepted'
    BY <1>2 DEF Submit, SubmitAccepted, SubmitRefused, SubmitPanics, SubmitCounts, Accept
  <2>2. attempts[k] = 0
    BY <2>1 DEF AttemptInv, AttemptsFit
  <2> QED BY <1>0, <2>1, <2>2, AttemptsSame
<1>3. ASSUME NEW w \in Workers, Worker(w) PROVE AttemptsFit(j)'
  <2>0. accepted' = accepted
    BY <1>3 DEF Worker, WorkInBody, WorkerTakes, WorkerExits, BeginJob, ExecuteSucceeds,
                ExecuteFails, Executed, ScheduleRetry, SpawnRetrier, CountResult, CountWhen,
                SendResult, LeaveJob, shared, client
  <2>1. CASE UNCHANGED <<status, attempts>>
    BY <1>1, <2>0, <2>1
  <2>2. CASE BeginJob(w)
    <3>1. /\ hand[w] \in accepted /\ status[hand[w]] = "pending"
          /\ status' = [status EXCEPT ![hand[w]] = "running"]
          /\ attempts' = [attempts EXCEPT ![hand[w]] = @ + 1]
      BY <2>2, HandIsJob DEF BeginJob, StatusInHand
    <3>2. CASE j = hand[w]
      <4>1. status'[j] = "running" /\ attempts'[j] = attempts[j] + 1 /\ j \in accepted'
        BY <1>0, <2>0, <3>1, <3>2
      <4>2. attempts[j] = 0 \/ attempts[j] < MaxRetries(j)
        BY <1>0, <3>1, <3>2 DEF AttemptsFit
      <4>3. attempts'[j] <= AttemptLimit(j) /\ attempts'[j] > 0
        BY <1>0, <4>1, <4>2, LimitType
      <4>4. AttemptLimit(j)' = AttemptLimit(j)
        BY DEF AttemptLimit, MaxRetries
      <4> QED BY <4>1, <4>3, <4>4 DEF AttemptsFit
    <3>3. CASE j # hand[w]
      BY <1>0, <2>0, <3>1, <3>3, AttemptsSame
    <3> QED BY <3>2, <3>3
  <2>3. ASSUME NEW st, NEW place, Executed(w, st, place),
               \/ st = "completed"
               \/ st = "retrying" /\ MayRetry(hand[w])
               \/ st = "failed" /\ ~MayRetry(hand[w])
        PROVE  AttemptsFit(j)'
    <3>1. /\ hand[w] \in accepted /\ status[hand[w]] = "running"
          /\ status' = [status EXCEPT ![hand[w]] = st] /\ attempts' = attempts
      BY <2>3, HandIsJob DEF Executed, StatusInHand
    <3>2. CASE j = hand[w]
      <4>1. status'[j] = st /\ attempts'[j] = attempts[j] /\ j \in accepted'
        BY <1>0, <2>0, <3>1, <3>2
      <4>2. attempts[j] > 0 /\ attempts[j] <= AttemptLimit(j)
        BY <1>0, <3>1, <3>2 DEF AttemptsFit
      <4>3. st = "retrying" => attempts[j] < MaxRetries(j)
        BY <2>3, <3>2 DEF MayRetry
      <4>4. st = "failed" => attempts[j] = AttemptLimit(j)
        <5>1. st = "failed" => ~(attempts[j] < MaxRetries(j))
          BY <2>3, <3>2 DEF MayRetry
        <5> QED BY <1>0, <4>2, <5>1, LimitType DEF AttemptLimit
      <4>5. AttemptLimit(j)' = AttemptLimit(j) /\ MaxRetries(j)' = MaxRetries(j)
        BY DEF AttemptLimit, MaxRetries
      <4> QED BY <2>3, <4>1, <4>2, <4>3, <4>4, <4>5 DEF AttemptsFit
    <3>3. CASE j # hand[w]
      BY <1>0, <2>0, <3>1, <3>3, AttemptsSame
    <3> QED BY <3>2, <3>3
  <2> QED BY <1>3, <2>1, <2>2, <2>3
          DEF Worker, WorkInBody, WorkerTakes, WorkerExits, ExecuteSucceeds, ExecuteFails,
              ScheduleRetry, SpawnRetrier, CountResult, CountWhen, SendResult, LeaveJob
<1>4. ASSUME NEW r \in retriers, Retrier(r) PROVE AttemptsFit(j)'
  <2>1. UNCHANGED <<attempts, accepted>>
    BY <1>4 DEF Retrier, TimerFires, RetryCancelled, ReadStopped, ResetStatus, RetryQueued,
                RetryDropped, RetryPanics, RetryUnchanged, shared, client
  <2>2. CASE ResetStatus(r)
    <3>1. status[r.job] = "retrying" /\ status' = [status EXCEPT ![r.job] = "pending"]
      BY <2>2 DEF ResetStatus, Inv, PlacesConsistent, RetrierConsistent
    <3> QED BY <1>0, <2>1, <3>1, AttemptsSame
  <2>3. CASE UNCHANGED status
    BY <1>1, <2>1, <2>3
  <2> QED BY <1>4, <2>2, <2>3 DEF Retrier, TimerFires, RetryCancelled, ReadStopped, RetryQueued,
                                  RetryDropped, RetryPanics
<1> QED BY <1>1, <1>2, <1>3, <1>4
        DEF Next, Step, Terminated, Start, StopCancel, StopClose, StopFinish, StopUnchanged,
            ProcessResult, ProcessorExits, vars, shared, client
-----------------------------------------------------------------------------
Outcomes == [j \in Jobs |-> LedgerOutcome(j)]

\* A job whose count is due is one that has just got its final status, and nobody else
\* holds it.
LEMMA UncountedIsOne ==
  ASSUME Inv, NEW w \in Workers, pc[w] \in {"countOk", "countFail"}
  PROVE  \A v \in Workers : hand[v] = hand[w] => v = w
BY HandIsJob, JobsAssumption DEF Inv, SingleOwner

\* What the ledger does not see: a step that leaves the attempts, the counters and the
\* outcome of every job alone.
LEMMA LedgerStutters ==
  ASSUME UNCHANGED <<attempts, completed, failed>>,
         \A j \in Jobs : LedgerOutcome(j)' = LedgerOutcome(j)
  PROVE  UNCHANGED Ledger!ledger
BY DEF Ledger!ledger

LEMMA OutcomeSame ==
  ASSUME NEW j \in Jobs, j \in accepted' <=> j \in accepted,
         \/ status'[j] = status[j]
         \/ status[j] \notin Terminal /\ status'[j] \notin Terminal,
         Uncounted(j)' <=> Uncounted(j)
  PROVE  LedgerOutcome(j)' = LedgerOutcome(j)
BY DEF LedgerOutcome

\* A step of one worker that does not count: it keeps every count that is due.
LEMMA UncountedSame ==
  ASSUME NEW w \in Workers, NEW j \in Jobs,
         pc[w] \notin {"countOk", "countFail"}, pc'[w] \notin {"countOk", "countFail"},
         \A v \in Workers \ {w} : pc'[v] = pc[v] /\ hand'[v] = hand[v]
  PROVE  Uncounted(j)' <=> Uncounted(j)
BY DEF Uncounted

LEMMA InitLedger == Init => Ledger!Init
BY DEF Init, Ledger!Init, LedgerOutcome, Terminal

LEMMA AcceptLedger ==
  ASSUME Inv, NEW k \in Jobs, SubmitAccepted(k)
  PROVE  Ledger!Accept(k)
<1>1. /\ k \notin accepted /\ accepted' = accepted \cup {k}
      /\ status' = [status EXCEPT ![k] = "pending"]
      /\ UNCHANGED <<attempts, completed, failed, pc, hand>>
  BY DEF SubmitAccepted, SubmitCounts, Accept, tally
<1>2. status[k] \notin Terminal /\ status'[k] \notin Terminal
  BY <1>1 DEF Inv, PlacesConsistent, TypeInv, TypeOK, Terminal
<1>3. LedgerOutcome(k) = "new" /\ LedgerOutcome(k)' = "open"
  BY <1>1, <1>2 DEF LedgerOutcome
<1>4. ASSUME NEW j \in Jobs \ {k} PROVE LedgerOutcome(j)' = LedgerOutcome(j)
  BY <1>1, OutcomeSame DEF Uncounted, Inv, TypeInv, TypeOK
<1>5. Outcomes' = [Outcomes EXCEPT ![k] = "open"]
  BY <1>3, <1>4 DEF Outcomes
<1> QED BY <1>1, <1>3, <1>5 DEF Ledger!Accept, Ledger!Record, Outcomes

LEMMA AttemptLedger ==
  ASSUME Inv, AttemptInv, NEW w \in Workers, BeginJob(w)
  PROVE  Ledger!Attempt(hand[w])
<1>1. /\ hand[w] \in Jobs /\ hand[w] \in accepted /\ status[hand[w]] = "pending"
      /\ status' = [status EXCEPT ![hand[w]] = "running"]
      /\ attempts' = [attempts EXCEPT ![hand[w]] = @ + 1]
      /\ UNCHANGED <<accepted, completed, failed, hand>>
  BY HandIsJob DEF BeginJob, StatusInHand, shared, client
<1>2. /\ pc[w] = "taken" /\ pc'[w] = "running"
      /\ \A v \in Workers \ {w} : pc'[v] = pc[v] /\ hand'[v] = hand[v]
  BY <1>1 DEF BeginJob, Goto, Inv, TypeInv, TypeOK
<1>3. ASSUME NEW j \in Jobs PROVE LedgerOutcome(j)' = LedgerOutcome(j)
  <2>1. Uncounted(j)' <=> Uncounted(j)
    BY <1>2, UncountedSame
  <2> QED BY <1>1, <2>1, OutcomeSame DEF Inv, TypeInv, TypeOK, Terminal
<1>4. Outcomes' = Outcomes
  BY <1>3 DEF Outcomes
<1>5. LedgerOutcome(hand[w]) = "open"
  BY <1>1 DEF LedgerOutcome, Terminal
<1>6. attempts[hand[w]] < AttemptLimit(hand[w])
  <2>1. attempts[hand[w]] \in Nat /\ (attempts[hand[w]] = 0 \/ attempts[hand[w]] < MaxRetries(hand[w]))
    BY <1>1 DEF AttemptInv, AttemptsFit, Inv, TypeInv, TypeOK
  <2> QED BY <1>1, <2>1, LimitType
<1> QED BY <1>1, <1>4, <1>5, <1>6 DEF Ledger!Attempt, Outcomes

\* The final status is set and its count is due: nothing happens in the ledger yet.
LEMMA ExecutedLedger ==
  ASSUME Inv, NEW w \in Workers, NEW st, NEW place, Executed(w, st, place),
         <<st, place>> \in {<<"completed", "countOk">>, <<"failed", "countFail">>,
                            <<"retrying", "retry">>}
  PROVE  UNCHANGED Ledger!ledger
<1>1. /\ hand[w] \in Jobs /\ hand[w] \in accepted /\ status[hand[w]] = "running"
      /\ status' = [status EXCEPT ![hand[w]] = st]
      /\ UNCHANGED <<attempts, accepted, completed, failed, hand>>
  BY HandIsJob DEF Executed, StatusInHand, shared, client, tally
<1>2. /\ pc[w] = "running" /\ pc'[w] = place
      /\ \A v \in Workers \ {w} : pc'[v] = pc[v]
  BY DEF Executed, Goto, Inv, TypeInv, TypeOK
<1>3. ASSUME NEW j \in Jobs PROVE LedgerOutcome(j)' = LedgerOutcome(j)
  <2>1. CASE j = hand[w]
    <3>1. LedgerOutcome(j) = "open"
      BY <1>1, <2>1 DEF LedgerOutcome, Terminal
    <3>2. status'[j] \notin Terminal \/ Uncounted(j)'
      BY <1>1, <1>2, <2>1 DEF Uncounted, Terminal, Inv, TypeInv, TypeOK
    <3> QED BY <1>1, <2>1, <3>1, <3>2 DEF LedgerOutcome
  <2>2. CASE j # hand[w]
    <3>1. Uncounted(j)' <=> Uncounted(j)
      BY <1>1, <1>2, <2>2 DEF Uncounted
    <3> QED BY <1>1, <2>2, <3>1, OutcomeSame DEF Inv, TypeInv, TypeOK
  <2> QED BY <2>1, <2>2
<1> QED BY <1>1, <1>3, LedgerStutters

LEMMA CountLedger ==
  ASSUME Inv, AttemptInv, NEW w \in Workers, CountResult(w)
  PROVE  Ledger!Complete(hand[w]) \/ Ledger!Fail(hand[w])
<1>1. /\ pc[w] \in {"countOk", "countFail"} /\ pc'[w] = "send"
      /\ \A v \in Workers \ {w} : pc'[v] = pc[v]
      /\ UNCHANGED <<status, attempts, accepted, hand>>
  BY DEF CountResult, CountWhen, Goto, Inv, TypeInv, TypeOK, shared, client
<1>2. hand[w] \in Jobs /\ hand[w] \in accepted
      /\ status[hand[w]] = IF pc[w] = "countOk" THEN "completed" ELSE "failed"
  BY <1>1, HandIsJob DEF StatusInHand
<1>3. ASSUME NEW j \in Jobs, j = hand[w]
      PROVE  LedgerOutcome(j) = "open" /\ LedgerOutcome(j)' = status[j]
  <2>1. Uncounted(j) /\ ~Uncounted(j)'
    BY <1>1, <1>3, UncountedIsOne DEF Uncounted
  <2> QED BY <1>1, <1>2, <1>3, <2>1 DEF LedgerOutcome, Terminal
<1>4. ASSUME NEW j \in Jobs, j # hand[w] PROVE LedgerOutcome(j)' = LedgerOutcome(j)
  <2>1. Uncounted(j)' <=> Uncounted(j)
    BY <1>1, <1>4 DEF Uncounted
  <2> QED BY <1>1, <2>1, OutcomeSame
<1>5. LedgerOutcome(hand[w]) = "open"
  BY <1>2, <1>3
<1>6. Outcomes' = [Outcomes EXCEPT ![hand[w]] = status[hand[w]]]
  BY <1>2, <1>3, <1>4 DEF Outcomes
<1>7. attempts[hand[w]] > 0 /\ (status[hand[w]] = "failed" => attempts[hand[w]] = AttemptLimit(hand[w]))
  BY <1>2 DEF AttemptInv, AttemptsFit
<1>8. CASE pc[w] = "countOk"
  <2>1. completed' = completed + 1 /\ failed' = failed /\ status[hand[w]] = "completed"
    BY <1>2, <1>8 DEF CountResult, CountWhen
  <2> QED BY <1>1, <1>2, <1>5, <1>6, <1>7, <2>1 DEF Ledger!Complete, Ledger!Record, Outcomes
<1>9. CASE pc[w] = "countFail"
  <2>1. failed' = failed + 1 /\ completed' = completed /\ status[hand[w]] = "failed"
    BY <1>2, <1>9 DEF CountResult, CountWhen
  <2> QED BY <1>1, <1>2, <1>5, <1>6, <1>7, <2>1 DEF Ledger!Fail, Ledger!Record, Outcomes
<1> QED BY <1>1, <1>8, <1>9

LEMMA StepLedger == Inv /\ AttemptInv /\ [Next]_vars => [Ledger!Next]_(Ledger!ledger)
<1> SUFFICES ASSUME Inv, AttemptInv, [Next]_vars PROVE Ledger!Next \/ UNCHANGED Ledger!ledger
  OBVIOUS
<1>0. status \in [Jobs -> Statuses] /\ pc \in [Workers -> WorkerPCs]
      /\ hand \in [Workers -> Jobs \cup {NoJob}]
  BY DEF Inv, TypeInv, TypeOK
<1>1. CASE UNCHANGED <<status, attempts, accepted, completed, failed, pc, hand>>
  BY <1>1, OutcomeSame, LedgerStutters DEF Uncounted
<1>2. CASE Start
  <2>1. \A j \in Jobs : ~Uncounted(j) /\ ~Uncounted(j)'
    BY <1>2 DEF Start, Uncounted, WaitGroupZero, Exited
  <2>2. UNCHANGED <<status, attempts, accepted, completed, failed>>
    BY <1>2 DEF Start, tally
  <2> QED BY <2>1, <2>2, OutcomeSame, LedgerStutters
<1>3. ASSUME NEW k \in Jobs, Submit(k) PROVE Ledger!Next \/ UNCHANGED Ledger!ledger
  <2>1. CASE SubmitAccepted(k)
    BY <2>1, AcceptLedger DEF Ledger!Next
  <2>2. CASE SubmitRefused(k) \/ SubmitPanics(k)
    <3>1. /\ k \notin accepted /\ status' = [status EXCEPT ![k] = "pending"]
          /\ UNCHANGED <<attempts, accepted, completed, failed, pc, hand>>
      BY <2>2 DEF SubmitRefused, SubmitPanics, SubmitCounts, tally
    <3>2. status[k] \notin Terminal /\ status'[k] \notin Terminal
      BY <1>0, <3>1 DEF Inv, PlacesConsistent, Terminal
    <3>3. \A j \in Jobs \ {k} : status'[j] = status[j]
      BY <1>0, <3>1
    <3> QED BY <3>1, <3>2, <3>3, OutcomeSame, LedgerStutters DEF Uncounted
  <2> QED BY <1>3, <2>1, <2>2 DEF Submit
<1>4. ASSUME NEW w \in Workers, Worker(w) PROVE Ledger!Next \/ UNCHANGED Ledger!ledger
  <2>1. CASE BeginJob(w)
    BY <2>1, AttemptLedger, HandIsJob DEF Ledger!Next, BeginJob
  <2>2. CASE CountResult(w)
    BY <2>2, CountLedger, HandIsJob DEF Ledger!Next, CountResult, CountWhen
  <2>3. CASE ExecuteSucceeds(w) \/ ExecuteFails(w)
    BY <2>3, ExecutedLedger DEF ExecuteSucceeds, ExecuteFails
  <2>4. CASE WorkerTakes(w) \/ WorkerExits(w) \/ ScheduleRetry(w) \/ SendResult(w) \/ LeaveJob(w)
    <3>1. UNCHANGED <<status, attempts, accepted, completed, failed>>
      BY <2>4 DEF WorkerTakes, WorkerExits, ScheduleRetry, SpawnRetrier, SendResult, LeaveJob,
                  tally, shared, client
    <3>2. pc[w] \in {"select", "retry", "send", "leave"}
          /\ \E place \in {"taken", "done", "leave", "select"} : Goto(w, place)
      BY <2>4 DEF WorkerTakes, WorkerExits, ScheduleRetry, SpawnRetrier, SendResult, LeaveJob
    <3>3. \A v \in Workers \ {w} : hand'[v] = hand[v]
      BY <1>0, <2>4 DEF WorkerTakes, WorkerExits, ScheduleRetry, SpawnRetrier, SendResult,
                        LeaveJob, HandOver
    <3>4. \A j \in Jobs : Uncounted(j)' <=> Uncounted(j)
      BY <1>0, <3>2, <3>3, UncountedSame DEF Goto
    <3> QED BY <3>1, <3>4, OutcomeSame, LedgerStutters
  <2> QED BY <1>4, <2>1, <2>2, <2>3, <2>4 DEF Worker, WorkInBody
<1>5. ASSUME NEW r \in retriers, Retrier(r) PROVE UNCHANGED Ledger!ledger
  <2>1. UNCHANGED <<attempts, accepted, completed, failed, pc, hand>>
    BY <1>5 DEF Retrier, TimerFires, RetryCancelled, ReadStopped, ResetStatus, RetryQueued,
                RetryDropped, RetryPanics, RetryUnchanged, shared, client, tally
  <2>2. status' = status \/ status' = [status EXCEPT ![r.job] = "pending"]
    BY <1>5 DEF Retrier, TimerFires, RetryCancelled, ReadStopped, ResetStatus, RetryQueued,
                RetryDropped, RetryPanics
  <2>3. status[r.job] \notin Terminal /\ r.job \in Jobs
    BY RetrierOwns DEF Inv, PlacesConsistent, RetrierConsistent, Terminal
  <2>4. \A j \in Jobs : \/ status'[j] = status[j]
                        \/ status[j] \notin Terminal /\ status'[j] \notin Terminal
    BY <1>0, <2>2, <2>3 DEF Terminal
  <2> QED BY <2>1, <2>4, OutcomeSame, LedgerStutters DEF Uncounted
<1> QED BY <1>1, <1>2, <1>3, <1>4, <1>5
        DEF Next, Step, Terminated, StopCancel, StopClose, StopFinish, StopUnchanged,
            ProcessResult, ProcessorExits, vars, shared, client, tally

\* Every behaviour of the pool is one of the ledger: each accepted job is attempted within
\* its limit, settled at most once, counted when it is settled, and failed only when its
\* attempts are used up, whatever Stop, restarts and panics do.
THEOREM PoolImplementsLedger == Spec => ImplementsLedger
BY InitInv, StepInv, InitAttempts, StepAttempts, InitLedger, StepLedger, PTL
DEF Spec, ImplementsLedger, Ledger!Spec
===============================================================================
