------------------------------ MODULE WorkerPool ------------------------------
(***************************************************************************)
(* The goroutine pool of internal/worker/pool.go: Submit, the workers, the *)
(* retry goroutines that processJob starts, the result processor, and Stop.*)
(* One action stands for the code between two points where another         *)
(* goroutine can observe or disturb this one: a channel operation, the     *)
(* stop mutex, an atomic counter, a status written under the job's lock.   *)
(*                                                                         *)
(* Time is left out: a retry timer fires whenever it likes.  The bodies of *)
(* jobs are left out: Execute returns nil or an error, at any time.        *)
(*                                                                         *)
(* A definition A_Slip beside an action A is A with a plausible slip in it;*)
(* nothing uses it but the experiments that show a property notices.       *)
(***************************************************************************)
EXTENDS Naturals, Sequences, FiniteSets

CONSTANTS
  Jobs,              \* the *Job values a client submits
  Workers,           \* the WorkerCount goroutines a Start launches
  QueueSize,         \* capacity of both p.jobs and p.results
  ConfigMaxRetries,  \* Config.MaxRetries
  JobMaxRetries,     \* job -> Job.MaxRetries before Submit, 0 when not set
  MaxStarts,         \* bound: how often the client calls Start
  MaxSubmits,        \* bound: how often the client calls Submit
  NoJob              \* a worker's hand between two jobs

ASSUME JobsAssumption    == IsFiniteSet(Jobs) /\ NoJob \notin Jobs
ASSUME WorkersAssumption == IsFiniteSet(Workers)
ASSUME QueueAssumption   == QueueSize \in Nat \ {0}
ASSUME RetriesAssumption == /\ ConfigMaxRetries \in Nat
                            /\ JobMaxRetries \in [Jobs -> Nat]
ASSUME BoundsAssumption  == MaxStarts \in Nat /\ MaxSubmits \in Nat

VARIABLES
  status,        \* job -> Job.Status
  attempts,      \* job -> Job.Attempts
  accepted,      \* the jobs for which Submit has returned nil
  queue,         \* p.jobs, the buffered channel
  resultCount,   \* how many jobs p.results buffers (their receiver only logs)
  life,          \* how far Stop has come, see below
  starts,        \* how often Start has run
  pc,            \* worker -> where its goroutine is
  hand,          \* worker -> the job it may still write to, or NoJob
  processor,     \* where resultProcessor is
  retriers,      \* the live goroutines of scheduleRetry
  total, completed, failed, retried, active,   \* the counters of Stats
  crashed        \* which send on a closed channel has killed the program

vars == <<status, attempts, accepted, queue, resultCount, life, starts, pc,
          hand, processor, retriers, total, completed, failed, retried,
          active, crashed>>

client == <<accepted, total, starts>>
tally  == <<completed, failed, retried, active>>
shared == <<life, processor, client>>    \* what neither a worker nor a retry writes
-----------------------------------------------------------------------------
(***************************************************************************)
(* Stop runs cancel, close(p.jobs), wg.Wait, close(p.results), stopped =   *)
(* true, all under stopMutex.  `life' is the last of these it has done.    *)
(***************************************************************************)
Phases == {"open", "cancelled", "closed", "stopped"}

CtxDone       == life # "open"
JobsClosed    == life \in {"closed", "stopped"}
ResultsClosed == life = "stopped"
Stopped       == life = "stopped"
MutexHeld     == life \in {"cancelled", "closed"}

Statuses == {"new", "pending", "running", "retrying", "completed", "failed"}
Terminal == {"completed", "failed"}

WorkerPCs == {"unborn", "select", "taken", "running", "retry", "countOk",
              "countFail", "send", "leave", "done"}

\* A retry goroutine: the job, the attempt whose failure started it, its place.
Retriers == [job : Jobs, attempt : Nat, at : {"sleep", "lock", "reset", "send"}]

\* processJob retries while Attempts < MaxRetries; Submit replaces 0 by the default.
MaxRetries(j) == IF JobMaxRetries[j] = 0 THEN ConfigMaxRetries ELSE JobMaxRetries[j]
MayRetry_Inclusive(j) == attempts[j] <= MaxRetries(j)
MayRetry(j) == attempts[j] < MaxRetries(j)

InBody(w) == pc[w] \in {"running", "retry", "countOk", "countFail", "send", "leave"}
Exited(w) == pc[w] \in {"unborn", "done"}
WaitGroupZero == (\A w \in Workers : Exited(w)) /\ processor # "select"

TypeOK ==
  /\ status \in [Jobs -> Statuses]
  /\ attempts \in [Jobs -> Nat]
  /\ accepted \subseteq Jobs
  /\ queue \in Seq(Jobs) /\ Len(queue) <= QueueSize
  /\ resultCount \in 0..QueueSize
  /\ life \in Phases
  /\ starts \in Nat
  /\ pc \in [Workers -> WorkerPCs]
  /\ hand \in [Workers -> Jobs \cup {NoJob}]
  /\ processor \in {"unborn", "select", "done"}
  /\ retriers \subseteq Retriers
  /\ total \in Nat /\ completed \in Nat /\ failed \in Nat
  /\ retried \in Nat /\ active \in Nat
  /\ crashed \in {"no", "submit", "retry", "result"}

Init ==
  /\ status = [j \in Jobs |-> "new"]
  /\ attempts = [j \in Jobs |-> 0]
  /\ accepted = {}
  /\ queue = <<>>
  /\ resultCount = 0
  /\ life = "open"
  /\ starts = 0
  /\ pc = [w \in Workers |-> "unborn"]
  /\ hand = [w \in Workers |-> NoJob]
  /\ processor = "unborn"
  /\ retriers = {}
  /\ total = 0 /\ completed = 0 /\ failed = 0 /\ retried = 0 /\ active = 0
  /\ crashed = "no"
-----------------------------------------------------------------------------
(***************************************************************************)
(* The client: Start, Submit, Stop.  The clone manager calls Start and     *)
(* Stop from one goroutine: never during a Stop or while workers run, and  *)
(* the first time before any Stop.                                         *)
(***************************************************************************)
Start ==
  /\ starts < MaxStarts
  /\ starts = 0 => life = "open"
  /\ ~MutexHeld /\ WaitGroupZero
  /\ starts' = starts + 1
  /\ pc' = [w \in Workers |-> "select"]
  /\ processor' = "select"
  /\ UNCHANGED <<status, attempts, queue, resultCount, life, hand, retriers, crashed,
                 accepted, total, tally>>

\* A select that sends on p.jobs has a ready case on a closed channel, and it panics.
SubmitCounts(j) ==
  /\ j \notin accepted
  /\ total < MaxSubmits
  /\ status' = [status EXCEPT ![j] = "pending"]
  /\ total' = total + 1
  /\ UNCHANGED <<attempts, resultCount, life, pc, hand, processor, retriers, starts, tally>>

Enqueue(j) == queue' = Append(queue, j)
Accept(j)  == accepted' = accepted \cup {j}

SubmitAccepted_NoCapacity(j) ==
  SubmitCounts(j) /\ ~JobsClosed /\ Enqueue(j) /\ Accept(j) /\ UNCHANGED crashed

SubmitAccepted(j) ==
  /\ SubmitCounts(j)
  /\ ~JobsClosed /\ Len(queue) < QueueSize
  /\ Enqueue(j) /\ Accept(j) /\ UNCHANGED crashed

SubmitRefused_ReturnsNil(j) ==
  /\ SubmitCounts(j)
  /\ CtxDone \/ Len(queue) = QueueSize
  /\ Accept(j) /\ UNCHANGED <<queue, crashed>>

SubmitRefused(j) ==
  /\ SubmitCounts(j)
  /\ CtxDone \/ Len(queue) = QueueSize
  /\ UNCHANGED <<queue, crashed, accepted>>

SubmitPanics(j) ==
  /\ SubmitCounts(j)
  /\ JobsClosed /\ crashed' = "submit"
  /\ UNCHANGED <<queue, accepted>>

Submit(j) == SubmitAccepted(j) \/ SubmitRefused(j) \/ SubmitPanics(j)

StopUnchanged ==
  UNCHANGED <<status, attempts, queue, resultCount, pc, hand, processor, retriers, crashed,
              client, tally>>

StopCancel == life = "open" /\ life' = "cancelled" /\ StopUnchanged
StopClose  == life = "cancelled" /\ life' = "closed" /\ StopUnchanged
StopFinish_NoWait == life = "closed" /\ life' = "stopped" /\ StopUnchanged
StopFinish == life = "closed" /\ WaitGroupZero /\ life' = "stopped" /\ StopUnchanged
-----------------------------------------------------------------------------
(***************************************************************************)
(* A worker: the select of worker(), then processJob.                      *)
(***************************************************************************)
Goto(w, place) == pc' = [pc EXCEPT ![w] = place]

\* A closed channel still delivers what it buffers, and so does a cancelled context's.
WorkerTakes(w) ==
  /\ pc[w] = "select" /\ queue # <<>>
  /\ hand' = [hand EXCEPT ![w] = Head(queue)]
  /\ queue' = Tail(queue)
  /\ Goto(w, "taken")
  /\ UNCHANGED <<status, attempts, resultCount, retriers, crashed, tally, shared>>

WorkerExits(w) ==
  /\ pc[w] = "select" /\ CtxDone
  /\ Goto(w, "done")
  /\ UNCHANGED <<status, attempts, queue, resultCount, hand, retriers, crashed, tally,
                 shared>>

BeginJob(w) ==
  /\ pc[w] = "taken"
  /\ active' = active + 1
  /\ status' = [status EXCEPT ![hand[w]] = "running"]
  /\ attempts' = [attempts EXCEPT ![hand[w]] = @ + 1]
  /\ Goto(w, "running")
  /\ UNCHANGED <<queue, resultCount, hand, retriers, crashed, completed, failed, retried,
                 shared>>

\* Execute has returned and the status that follows from its error is set.
Executed(w, newStatus, place) ==
  /\ pc[w] = "running"
  /\ status' = [status EXCEPT ![hand[w]] = newStatus]
  /\ Goto(w, place)
  /\ UNCHANGED <<attempts, queue, resultCount, hand, retriers, crashed, tally, shared>>

ExecuteSucceeds(w) == Executed(w, "completed", "countOk")
ExecuteFails(w) ==
  /\ pc[w] = "running"
  /\ \/ MayRetry(hand[w])  /\ Executed(w, "retrying", "retry")
     \/ ~MayRetry(hand[w]) /\ Executed(w, "failed", "countFail")

\* RetryJobs++ and `go func()': the new goroutine is there before the worker moves on.
SpawnRetrier(w, place) ==
  /\ pc[w] = "retry"
  /\ retried' = retried + 1
  /\ retriers' = retriers \cup
       {[job |-> hand[w], attempt |-> attempts[hand[w]], at |-> "sleep"]}
  /\ Goto(w, place)
  /\ UNCHANGED <<attempts, queue, resultCount, crashed, completed, failed, active, shared>>

HandOver(w) == hand' = [hand EXCEPT ![w] = NoJob]

ScheduleRetry_MissingReturn(w) == /\ SpawnRetrier(w, "countFail") /\ UNCHANGED hand
                                  /\ status' = [status EXCEPT ![hand[w]] = "failed"]
ScheduleRetry_NoDecrement(w) == SpawnRetrier(w, "select") /\ HandOver(w) /\ UNCHANGED status

\* The `return' after it: from here on the job belongs to the new goroutine.
ScheduleRetry(w) == SpawnRetrier(w, "leave") /\ HandOver(w) /\ UNCHANGED status

CountWhen(w, ok, bad) ==
  /\ \/ pc[w] = ok  /\ completed' = completed + 1 /\ UNCHANGED failed
     \/ pc[w] = bad /\ failed' = failed + 1 /\ UNCHANGED completed
  /\ Goto(w, "send")
  /\ UNCHANGED <<status, attempts, queue, resultCount, hand, retriers, crashed,
                 retried, active, shared>>

CountResult_Swapped(w) == CountWhen(w, "countFail", "countOk")
CountResult(w) == CountWhen(w, "countOk", "countFail")

\* The select that offers the job to p.results: buffered, skipped, or a panic.
SendResult(w) ==
  /\ pc[w] = "send"
  /\ \/ ~ResultsClosed /\ resultCount < QueueSize
        /\ resultCount' = resultCount + 1 /\ UNCHANGED crashed
     \/ (CtxDone \/ resultCount = QueueSize) /\ UNCHANGED <<resultCount, crashed>>
     \/ ResultsClosed /\ crashed' = "result" /\ UNCHANGED resultCount
  /\ HandOver(w) /\ Goto(w, "leave")
  /\ UNCHANGED <<status, attempts, queue, retriers, tally, shared>>

LeaveJob_EndsLoop(w) ==
  /\ pc[w] = "leave"
  /\ active' = active - 1
  /\ Goto(w, "done")
  /\ UNCHANGED <<status, attempts, queue, resultCount, hand, retriers, crashed,
                 completed, failed, retried, shared>>

\* The deferred decrement; the worker is back at its select.
LeaveJob(w) ==
  /\ pc[w] = "leave"
  /\ active' = active - 1
  /\ Goto(w, "select")
  /\ UNCHANGED <<status, attempts, queue, resultCount, hand, retriers, crashed,
                 completed, failed, retried, shared>>

WorkInBody(w) == \/ BeginJob(w) \/ ExecuteSucceeds(w) \/ ExecuteFails(w)
                 \/ ScheduleRetry(w) \/ CountResult(w) \/ SendResult(w) \/ LeaveJob(w)
Worker(w) == WorkerTakes(w) \/ WorkerExits(w) \/ WorkInBody(w)
-----------------------------------------------------------------------------
(***************************************************************************)
(* The goroutine scheduleRetry starts.  It is not in the wait group.       *)
(***************************************************************************)
RetryUnchanged ==
  UNCHANGED <<attempts, resultCount, pc, hand, tally, shared>>

MoveRetrier(r, place) == retriers' = (retriers \ {r}) \cup {[r EXCEPT !.at = place]}
EndRetrier(r)         == retriers' = retriers \ {r}

TimerFires(r) ==
  /\ r.at = "sleep"
  /\ MoveRetrier(r, "lock")
  /\ RetryUnchanged /\ UNCHANGED <<status, queue, crashed>>

RetryCancelled(r) ==
  /\ r.at = "sleep" /\ CtxDone
  /\ EndRetrier(r)
  /\ RetryUnchanged /\ UNCHANGED <<status, queue, crashed>>

ReadStopped_Inverted(r) ==
  /\ r.at = "lock" /\ ~MutexHeld
  /\ IF Stopped THEN MoveRetrier(r, "reset") ELSE EndRetrier(r)
  /\ RetryUnchanged /\ UNCHANGED <<status, queue, crashed>>

\* Lock, read `stopped', unlock: what is read may be stale by the time it is used.
ReadStopped(r) ==
  /\ r.at = "lock" /\ ~MutexHeld
  /\ IF Stopped THEN EndRetrier(r) ELSE MoveRetrier(r, "reset")
  /\ RetryUnchanged /\ UNCHANGED <<status, queue, crashed>>

ResetStatus(r) ==
  /\ r.at = "reset"
  /\ status' = [status EXCEPT ![r.job] = "pending"]
  /\ MoveRetrier(r, "send")
  /\ RetryUnchanged /\ UNCHANGED <<queue, crashed>>

RetryQueued(r) ==
  /\ r.at = "send" /\ ~JobsClosed /\ Len(queue) < QueueSize
  /\ Enqueue(r.job)
  /\ EndRetrier(r)
  /\ RetryUnchanged /\ UNCHANGED <<status, crashed>>

\* The context's case, or the default of a full open channel: the retry is given up.
RetryDropped(r) ==
  /\ r.at = "send" /\ (CtxDone \/ Len(queue) = QueueSize)
  /\ EndRetrier(r)
  /\ RetryUnchanged /\ UNCHANGED <<status, queue, crashed>>

RetryPanics(r) ==
  /\ r.at = "send" /\ JobsClosed
  /\ crashed' = "retry"
  /\ EndRetrier(r)
  /\ RetryUnchanged /\ UNCHANGED <<status, queue>>

Retrier(r) == \/ TimerFires(r) \/ RetryCancelled(r) \/ ReadStopped(r)
              \/ ResetStatus(r) \/ RetryQueued(r) \/ RetryDropped(r) \/ RetryPanics(r)
-----------------------------------------------------------------------------
(***************************************************************************)
(* resultProcessor: handleResult only logs, so a receive frees a slot.     *)
(***************************************************************************)
ProcessResult ==
  /\ processor = "select" /\ resultCount > 0
  /\ resultCount' = resultCount - 1
  /\ UNCHANGED <<status, attempts, queue, pc, hand, retriers, crashed, tally, shared>>

ProcessorExits_OnClose ==
  /\ processor = "select" /\ ResultsClosed
  /\ processor' = "done"
  /\ UNCHANGED <<status, attempts, queue, resultCount, life, pc, hand, retriers, crashed,
                 client, tally>>

ProcessorExits ==
  /\ processor = "select" /\ CtxDone
  /\ processor' = "done"
  /\ UNCHANGED <<status, attempts, queue, resultCount, life, pc, hand, retriers, crashed,
                 client, tally>>

\* Nothing is left to run: Stop is over, or a panic has ended the program.
Terminated ==
  /\ crashed # "no" \/ (Stopped /\ WaitGroupZero /\ retriers = {})
  /\ UNCHANGED vars

Step ==
  \/ Start
  \/ \E j \in Jobs : Submit(j)
  \/ StopCancel \/ StopClose \/ StopFinish
  \/ \E w \in Workers : Worker(w)
  \/ \E r \in retriers : Retrier(r)
  \/ ProcessResult \/ ProcessorExits

Next == (crashed = "no" /\ Step) \/ Terminated

Spec == Init /\ [][Next]_vars

(***************************************************************************)
(* The Go scheduler runs every goroutine that can run, Execute returns     *)
(* (clone tasks have a timeout), timers fire, and a Stop once called goes  *)
(* on.  Whether a client ever submits or stops is its own business.        *)
(***************************************************************************)
Fairness ==
  /\ \A w \in Workers : WF_vars(crashed = "no" /\ Worker(w))
  /\ \A j \in Jobs : WF_vars(crashed = "no" /\ \E r \in retriers : r.job = j /\ Retrier(r))
  /\ WF_vars(crashed = "no" /\ (ProcessResult \/ ProcessorExits))
  /\ WF_vars(crashed = "no" /\ (StopClose \/ StopFinish))

FairSpec == Spec /\ Fairness
-----------------------------------------------------------------------------
(***************************************************************************)
(* Safety.                                                                 *)
(***************************************************************************)
QueuePositions == 1..Len(queue)

\* A job is never in two places at once: two queue slots, a slot and a worker's hand,
\* two hands, two retry goroutines, or a retry goroutine and any of the others.
\* processJob changes Attempts, and scheduleRetry resubmits, without taking job.mu:
\* nothing but this makes that safe.
SingleOwner ==
  /\ \A i, k \in QueuePositions : queue[i] = queue[k] => i = k
  /\ \A w, v \in Workers : hand[w] = hand[v] /\ hand[w] # NoJob => w = v
  /\ \A r, s \in retriers : r.job = s.job => r = s
  /\ \A i \in QueuePositions :
       /\ \A w \in Workers : hand[w] # queue[i]
       /\ \A r \in retriers : r.job # queue[i]
  /\ \A w \in Workers : \A r \in retriers : hand[w] # r.job

With(st) == {j \in Jobs : status[j] = st}
At(place) == {w \in Workers : pc[w] = place}

\* CompletedJobs and FailedJobs are the numbers of jobs with that status, less the
\* workers between SetStatus and the increment: no outcome is counted twice or lost.
CountersMatchStatuses ==
  /\ completed + Cardinality(At("countOk"))   = Cardinality(With("completed"))
  /\ failed    + Cardinality(At("countFail")) = Cardinality(With("failed"))

\* When the counters add up to the jobs accepted -- what waitForCompletion takes for
\* "all submitted jobs completed" -- no job is queued, in a worker's hands before its
\* outcome, or waiting for a retry, and every accepted job has a final status.
AllCountedMeansIdle ==
  completed + failed >= Cardinality(accepted) =>
    /\ queue = <<>> /\ retriers = {}
    /\ \A w \in Workers : pc[w] \notin {"taken", "running", "retry", "countOk", "countFail"}
    /\ \A j \in accepted : status[j] \in Terminal

\* ActiveJobs is the number of workers inside processJob: waitForQueueSpace computes
\* the free room from it.
ActiveIsWorkersInBody == active = Cardinality({w \in Workers : InBody(w)})

\* With one Start, once Stop has closed p.results no worker is left to send on it.
StoppedMeansNoWorker ==
  Stopped /\ starts <= 1 => \A w \in Workers : Exited(w) /\ hand[w] = NoJob

\* No step takes a job out of Completed or Failed, or gives it more attempts after.
FinalStatusIsFinal ==
  [][\A j \in Jobs : status[j] \in Terminal =>
        status'[j] = status[j] /\ attempts'[j] = attempts[j]]_vars

\* A job nobody holds any more, though its last status promises another attempt.
Lost(j) ==
  /\ j \in accepted /\ status[j] \notin Terminal
  /\ \A i \in QueuePositions : queue[i] # j
  /\ \A w \in Workers : hand[w] # j
  /\ \A r \in retriers : r.job # j

\* While the pool is open a job is lost in one way only: its retry goroutine finds
\* p.jobs full and takes the default case.
LostOnlyWhenFull ==
  [][\A j \in Jobs : life = "open" /\ ~Lost(j) /\ Lost(j)' =>
        Len(queue) = QueueSize /\ \E r \in retriers : r.job = j /\ r.at = "send"]_vars

(***************************************************************************)
(* Why SingleOwner holds: the status says which kind of place has the job. *)
(***************************************************************************)
StatusInHand(w) ==
  CASE pc[w] = "taken"     -> {"pending"}
    [] pc[w] = "running"   -> {"running"}
    [] pc[w] = "retry"     -> {"retrying"}
    [] pc[w] = "countOk"   -> {"completed"}
    [] pc[w] = "countFail" -> {"failed"}
    [] pc[w] = "send"      -> Terminal
    [] OTHER               -> {}

HandConsistent(w) ==
  IF pc[w] \in {"taken", "running", "retry", "countOk", "countFail", "send"}
  THEN hand[w] \in accepted /\ status[hand[w]] \in StatusInHand(w)
  ELSE hand[w] = NoJob

RetrierConsistent(r) ==
  /\ r.job \in accepted /\ r.attempt = attempts[r.job]
  /\ status[r.job] = IF r.at = "send" THEN "pending" ELSE "retrying"

PlacesConsistent ==
  /\ \A i \in QueuePositions : queue[i] \in accepted /\ status[queue[i]] = "pending"
  /\ \A w \in Workers : HandConsistent(w)
  /\ \A r \in retriers : RetrierConsistent(r)
  /\ \A j \in Jobs \ accepted : status[j] \in {"new", "pending"}

\* TestPoolRetryPanicFix: a retry that is due while Stop runs does not panic.
RetryNeverPanics == crashed # "retry"

-----------------------------------------------------------------------------
(***************************************************************************)
(* Liveness.                                                               *)
(***************************************************************************)

\* Stop returns: every worker reaches an exit although buffered jobs may still be taken
\* after the cancel, and no retry goroutine keeps it waiting.
StopReturns == (life = "cancelled") ~> (Stopped \/ crashed # "no")

\* A job accepted by a started pool is settled unless the pool is stopped, or the job's
\* retry finds the queue full and the job is lost: then it stays pending for ever, whatever
\* README.md says of an automatic retry.  Nothing else keeps a job from its end.
AcceptedJobsSettle ==
  \A j \in Jobs :
    (j \in accepted /\ starts > 0) ~> (status[j] \in Terminal \/ Lost(j) \/ life # "open")
=============================================================================
