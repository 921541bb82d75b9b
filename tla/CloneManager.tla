----------------------------- MODULE CloneManager -----------------------------
(***************************************************************************)
(* The bulk clone of internal/clone/manager.go over the worker pool:       *)
(* CloneRepositories submits its list in batches, waits, collects a result *)
(* for every repository and stops the pool; main.go calls it once more, on *)
(* the same manager, for the failures when the HTTPS fallback is allowed.  *)
(*                                                                         *)
(* A job is a repository and the number of the call that submits it.  What *)
(* a clone does to the disk is left out: a task records a result and then  *)
(* returns nil or an error.  ContinueOnFail is true, as main.go sets it,   *)
(* and no repository is archived.  The stall detection of                  *)
(* waitForCompletion is left out: it resets its clock before it can act.   *)
(***************************************************************************)
EXTENDS WorkerPool

CONSTANTS
  RepoList,      \* the repositories to clone, in order
  MinBatch,      \* the least batch size, 20 in the code
  SubmitTries,   \* submitCloneJobWithRetry's attempts, 10 in the code
  Calls          \* how many calls of CloneRepositories: 2 with the fallback

Repos == {RepoList[i] : i \in DOMAIN RepoList}

ASSUME CallsAssumption  == Calls \in Nat \ {0} /\ Calls <= MaxStarts
ASSUME BatchAssumption  == MinBatch \in Nat \ {0} /\ SubmitTries \in Nat \ {0}
ASSUME ReposAssumption  == RepoList \in Seq(Repos) /\ Jobs = Repos \X (1..Calls)
\* submitCloneJob gives every job the MaxRetries of the pool's own configuration.
ASSUME AlikeAssumption  == \A j \in Jobs : MaxRetries(j) = ConfigMaxRetries
ASSUME SubmitAssumption == MaxSubmits >= Cardinality(Jobs) * SubmitTries

VARIABLES
  at,          \* where the calling goroutine is
  call,        \* which call of CloneRepositories this is
  todo,        \* its filteredRepos
  next,        \* the loop variable over todo
  tries,       \* attempt in submitCloneJobWithRetry
  submitted,   \* *submittedCount, then m.submittedJobs
  deadline,    \* ctx, made with --timeout, is done
  channel,     \* m.results
  outcome,     \* worker -> the result its task has recorded and not returned yet
  collecting,  \* call -> what its resultCollector has received and not stored yet
  stored,      \* m.cloneResults: repository -> "none", "ok" or "failed"
  report       \* repository -> what the last call reported of it

pool    == <<vars>>
batch   == <<call, todo, next, tries, submitted>>
results == <<channel, outcome, collecting, stored>>
mvars   == <<vars, at, batch, deadline, results, report>>

Verdicts == {"none", "ok", "failed", "unprocessed"}
NoResult == [repo |-> "none", verdict |-> "none"]
Result(r, verdict) == [repo |-> r, verdict |-> verdict]

JobOf(r) == <<r, call>>
RepoOf(j) == j[1]

\* 90% of the queue, and MinBatch at least -- also when that is more than the queue.
BatchSize == LET most == (9 * QueueSize) \div 10
             IN  IF most < MinBatch THEN MinBatch ELSE most

ManagerTypeOK ==
  /\ at \in {"main", "batch", "submit", "space", "wait", "collect", "stop"}
  /\ call \in 0..Calls
  /\ todo \in Seq(Repos) /\ next \in 1..(Len(todo) + 1)
  /\ tries \in 0..SubmitTries /\ submitted \in 0..Len(todo)
  /\ deadline \in BOOLEAN
  /\ Len(channel) <= QueueSize
  /\ outcome \in [Workers -> {"none", "ok", "failed"}]
  /\ collecting \in [1..Calls -> {NoResult} \cup [repo : Repos, verdict : {"ok", "failed"}]]
  /\ stored \in [Repos -> {"none", "ok", "failed"}] /\ report \in [Repos -> Verdicts]

ManagerInit ==
  /\ Init
  /\ at = "main" /\ call = 0
  /\ todo = <<>> /\ next = 1 /\ tries = 0 /\ submitted = 0
  /\ deadline = FALSE
  /\ channel = <<>>
  /\ outcome = [w \in Workers |-> "none"]
  /\ collecting = [c \in 1..Calls |-> NoResult]
  /\ stored = [r \in Repos |-> "none"]
  /\ report = [r \in Repos |-> "none"]
-----------------------------------------------------------------------------
(***************************************************************************)
(* The calling goroutine.                                                  *)
(***************************************************************************)
Unreported(r) == report[r] \in {"failed", "unprocessed"}

\* The one way to number a set of positions in their order.
InOrder(S) == {f \in [1..Cardinality(S) -> S] : \A i, k \in DOMAIN f : i < k => f[i] < f[k]}

\* runRegularClone: all repositories first, then those whose result has an error, in order.
ToClone ==
  IF call = 0 THEN {RepoList}
  ELSE {[k \in DOMAIN f |-> RepoList[f[k]]] :
          f \in InOrder({i \in DOMAIN RepoList : Unreported(RepoList[i])})}

CallWith(firstSubmitted) ==
  /\ at = "main" /\ call < Calls
  /\ call > 0 => \E r \in Repos : Unreported(r)
  /\ Start
  /\ call' = call + 1
  /\ todo' \in ToClone
  /\ next' = 1 /\ tries' = 0 /\ submitted' = firstSubmitted
  /\ at' = "batch"
  /\ UNCHANGED <<deadline, results, report>>

CallCloneRepositories_KeepsCount == CallWith(submitted)
CallCloneRepositories == CallWith(0)

\* The loop head of submitJobsInBatches, and its exit; a done context ends the call.
StartBatch ==
  /\ at = "batch"
  /\ at' = IF next > Len(todo) THEN "wait" ELSE IF deadline THEN "stop" ELSE "submit"
  /\ UNCHANGED <<pool, batch, deadline, results, report>>

\* The repository is dealt with: the batch goes on, or is complete.
NextRepo ==
  /\ next' = next + 1 /\ tries' = 0
  /\ at' = IF next = Len(todo) \/ next % BatchSize = 0 THEN "space" ELSE "submit"
  /\ UNCHANGED <<call, todo, deadline, results, report>>

SubmitNext ==
  /\ at = "submit"
  /\ SubmitAccepted(JobOf(todo[next])) /\ submitted' = submitted + 1
  /\ NextRepo

SubmitFails ==
  /\ at = "submit"
  /\ SubmitRefused(JobOf(todo[next]))
  /\ CtxDone \/ tries + 1 = SubmitTries \/ deadline
  /\ NextRepo

GiveUpRepo_Counted == SubmitFails /\ submitted' = submitted + 1
GiveUpRepo == SubmitFails /\ UNCHANGED submitted

SubmitAgain ==
  /\ at = "submit"
  /\ SubmitRefused(JobOf(todo[next]))
  /\ ~CtxDone /\ tries + 1 < SubmitTries
  /\ tries' = tries + 1
  /\ UNCHANGED <<at, call, todo, next, submitted, deadline, results, report>>

SubmitCrashes ==
  /\ at = "submit"
  /\ SubmitPanics(JobOf(todo[next]))
  /\ UNCHANGED <<at, batch, deadline, results, report>>

\* waitForQueueSpace takes the active jobs for the queued ones.
QueueHasSpace == QueueSize - active >= BatchSize

LeaveSpace ==
  /\ at = "space" /\ (QueueHasSpace \/ deadline)
  /\ at' = "batch"
  /\ UNCHANGED <<pool, batch, deadline, results, report>>

AllCompleted_Attempts ==
  active = 0 /\ submitted > 0 /\ completed + failed + retried >= submitted
AllCompleted == active = 0 /\ submitted > 0 /\ completed + failed >= submitted
NoneSubmitted_Idle == active = 0
NoneSubmitted == active = 0 /\ submitted = 0

LeaveWait ==
  /\ at = "wait" /\ (AllCompleted \/ NoneSubmitted \/ deadline)
  /\ at' = "collect" /\ next' = 1
  /\ UNCHANGED <<pool, call, todo, tries, submitted, deadline, results, report>>

\* One turn of the loop that gathers the results to return.
CollectAs(missing) ==
  /\ at = "collect" /\ next <= Len(todo)
  /\ LET r == todo[next] IN
       report' = [report EXCEPT ![r] = IF stored[r] = "none" THEN missing ELSE stored[r]]
  /\ next' = next + 1
  /\ UNCHANGED <<pool, at, call, todo, tries, submitted, deadline, results>>

CollectResult_NilIsNoError == CollectAs("ok")
CollectResult == CollectAs("unprocessed")

CollectDone ==
  /\ at = "collect" /\ next > Len(todo)
  /\ at' = "stop"
  /\ UNCHANGED <<pool, batch, deadline, results, report>>

\* The deferred pool.Stop, which on a stopped pool returns at once.
StopPool ==
  /\ at = "stop"
  /\ \/ (StopCancel \/ StopClose \/ StopFinish) /\ UNCHANGED at
     \/ Stopped /\ at' = "main" /\ UNCHANGED pool
  /\ UNCHANGED <<batch, deadline, results, report>>

Caller == \/ CallCloneRepositories \/ StartBatch
          \/ SubmitNext \/ GiveUpRepo \/ SubmitAgain \/ SubmitCrashes
          \/ LeaveSpace \/ LeaveWait \/ CollectResult \/ CollectDone \/ StopPool
-----------------------------------------------------------------------------
(***************************************************************************)
(* The clone tasks and the collectors.                                     *)
(***************************************************************************)

\* recordResult, deferred by the task: into the channel, or, when that is full, straight
\* into the map.
RecordResult(res) ==
  IF Len(channel) < QueueSize
  THEN channel' = Append(channel, res) /\ UNCHANGED stored
  ELSE stored' = [stored EXCEPT ![res.repo] = res.verdict] /\ UNCHANGED channel

TaskRecords(w, verdict) ==
  /\ pc[w] = "running" /\ outcome[w] = "none"
  /\ outcome' = [outcome EXCEPT ![w] = verdict]
  /\ RecordResult(Result(RepoOf(hand[w]), verdict))
  /\ UNCHANGED <<pool, at, batch, deadline, collecting, report>>

TaskReturns(w) ==
  /\ \/ outcome[w] = "ok"     /\ ExecuteSucceeds(w)
     \/ outcome[w] = "failed" /\ ExecuteFails(w)
  /\ outcome' = [outcome EXCEPT ![w] = "none"]
  /\ UNCHANGED <<at, batch, deadline, channel, collecting, stored, report>>

Task(w) == TaskRecords(w, "ok") \/ TaskRecords(w, "failed") \/ TaskReturns(w)

\* Every call starts a collector, and none of them ends before the program.
CollectorReceives(c) ==
  /\ c <= call /\ collecting[c] = NoResult /\ channel # <<>>
  /\ collecting' = [collecting EXCEPT ![c] = Head(channel)]
  /\ channel' = Tail(channel)
  /\ UNCHANGED <<pool, at, batch, deadline, outcome, stored, report>>

StoreAs(c, verdict) ==
  /\ collecting[c] # NoResult
  /\ stored' = [stored EXCEPT ![collecting[c].repo] = verdict]
  /\ collecting' = [collecting EXCEPT ![c] = NoResult]
  /\ UNCHANGED <<pool, at, batch, deadline, outcome, channel, report>>

CollectorStores(c) == StoreAs(c, collecting[c].verdict)

Collector(c) == CollectorReceives(c) \/ CollectorStores(c)

DeadlineExpires ==
  /\ ~deadline /\ call > 0
  /\ deadline' = TRUE
  /\ UNCHANGED <<pool, at, batch, results, report>>

PoolRuns ==
  /\ \/ \E w \in Workers : \/ WorkerTakes(w) \/ WorkerExits(w) \/ BeginJob(w) \/ ScheduleRetry(w)
                           \/ CountResult(w) \/ SendResult(w) \/ LeaveJob(w)
     \/ \E r \in retriers : Retrier(r)
     \/ ProcessResult \/ ProcessorExits
  /\ UNCHANGED <<at, batch, deadline, results, report>>

ManagerTerminated ==
  /\ \/ crashed # "no"
     \/ at = "main" /\ call > 0 /\ (call = Calls \/ \A r \in Repos : ~Unreported(r))
  /\ UNCHANGED mvars

ManagerStep ==
  \/ Caller
  \/ \E w \in Workers : Task(w)
  \/ \E c \in 1..Calls : Collector(c)
  \/ DeadlineExpires \/ PoolRuns

ManagerNext == (crashed = "no" /\ ManagerStep) \/ ManagerTerminated

ManagerSpec == ManagerInit /\ [][ManagerNext]_mvars

\* While a goroutine can go on, one of them does: Execute returns, for a clone has a timeout.
\* None can take steps for ever, so that each gets its turn.
GoroutineFairness ==
  WF_mvars(crashed = "no" /\ (Caller \/ (\E w \in Workers : Task(w)) \/ PoolRuns))

ManagerFairSpec == ManagerSpec /\ GoroutineFairness
-----------------------------------------------------------------------------
(***************************************************************************)
(* Properties.                                                             *)
(***************************************************************************)
InTransit(r) == \/ \E i \in 1..Len(channel) : channel[i].repo = r
                \/ \E c \in 1..Calls : collecting[c].repo = r

\* A repository reported as cloned was cloned: a job of it has completed, or is about to
\* in the hands of a worker.
ReportedSuccessIsReal ==
  \A r \in Repos : report[r] = "ok" =>
    \E c \in 1..Calls :
      \/ status[<<r, c>>] = "completed"
      \/ \E w \in Workers : hand[w] = <<r, c>> /\ outcome[w] = "ok"

\* A result that is neither in the channel nor with the collector is the job's last one, as
\* long as the channel has room for all of them: no result is lost or overwritten by an
\* older.  The second call's collector reads the same channel and may overtake the first's,
\* so this is said of the first call.
StoredIsLatest ==
  call <= 1 /\ QueueSize >= Cardinality(Repos) * ConfigMaxRetries =>
    \A j \in Jobs : status[j] \in Terminal /\ ~InTransit(RepoOf(j)) /\ j[2] = 1 =>
      stored[RepoOf(j)] = IF status[j] = "completed" THEN "ok" ELSE "failed"

\* submittedJobs is the number of jobs the pool accepted in this call.
SubmittedIsAccepted ==
  at \notin {"main"} => submitted = Cardinality({j \in accepted : j[2] = call})

\* When waitForCompletion says that all jobs are completed, it is so: every job accepted
\* in this call has its final status, and none is queued, running or to be retried.
\* The counters it reads are of the pool, which keeps them over the calls.
CompletionIsReal ==
  [][LeaveWait /\ AllCompleted =>
       /\ \A j \in accepted : j[2] = call => status[j] \in Terminal
       /\ queue = <<>> /\ retriers = {}]_mvars

\* A repository is reported as not processed only when its job was not accepted, when the
\* time was up, or when the collector has not stored its result yet.
UnprocessedHasAReason ==
  [][\A r \in Repos : report'[r] = "unprocessed" /\ report[r] # "unprocessed" =>
       JobOf(r) \notin accepted \/ deadline \/ InTransit(r)]_mvars

\* CloneRepositories returns without the help of the deadline -- every accepted job is
\* counted, the wait for the counters ends, and so does Stop -- unless a batch is larger
\* than the queue, or one of the call's jobs is lost at its retry.
NeedsDeadline == BatchSize > QueueSize \/ \E r \in Repos : Lost(JobOf(r))
CallReturns == (at # "main") ~> (at = "main" \/ crashed # "no" \/ NeedsDeadline)

\* waitForQueueSpace "waits until there's sufficient queue space for the next batch", and
\* that "prevents queue overflow and ensures steady progress": the wait ends, whether or
\* not there is a deadline.
QueueSpaceIsFound == (at = "space") ~> (at # "space" \/ crashed # "no")

\* The fallback the README describes clones the failures again: it cannot bring the
\* program down.
FallbackDoesNotPanic == crashed # "submit"
=============================================================================
