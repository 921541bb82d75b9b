--------------------------- MODULE CompletionMonitor ---------------------------
(***************************************************************************)
(* Time in a bulk clone: waitForQueueSpace after the last batch, then      *)
(* waitForCompletion, which looks at the pool every two seconds, reports   *)
(* progress and is to give up on a pool that is stuck; the delays of the   *)
(* pool's retries and the rate limit flag that lengthens them;             *)
(* GetStuckJobs and ForceKillStuckJobs.                                    *)
(*                                                                         *)
(* The unit of time is the ticker's period.  The thresholds are constants, *)
(* small ones in the same order as the code's 10 seconds, 30 seconds, 5    *)
(* and 10 minutes.  Clocks stop at MaxStuck + 1: nothing tells later       *)
(* readings apart.  WorkerPool has the channels and the workers; here a job *)
(* is in the queue, in its worker's hands, waiting for its retry, or, when *)
(* its retry has found the queue full, nowhere any more.                   *)
(*                                                                         *)
(* A definition A_Slip beside a definition A is A with a plausible slip in *)
(* it; nothing uses it but the experiments that show a property notices.   *)
(***************************************************************************)
EXTENDS Naturals, FiniteSets

CONSTANTS
  MaxJobs,         \* bound: how many jobs there can be
  Workers,         \* how many jobs can be executed at once
  QueueSize,       \* how many jobs p.jobs holds
  BatchSize,       \* of submitJobsInBatches: 20 at least, also when the queue is smaller
  MaxRetries,      \* attempts of a job
  RetryDelay, MaxRetryDelay, RateLimitDelay,  \* of the pool's configuration
  MaxDuration,     \* the longest time.Duration
  Report, Idle, Stuck, MaxStuck,              \* the thresholds of waitForCompletion
  Pauses           \* bound: how often the whole program is stopped for a while

ASSUME RetriesAssumption == /\ MaxJobs \in Nat /\ Workers \in Nat /\ MaxRetries \in Nat
                            /\ RetryDelay \in Nat /\ MaxRetryDelay \in Nat
                            /\ RateLimitDelay \in Nat /\ MaxDuration \in Nat
                            /\ Pauses \in Nat
ASSUME QueueAssumption == QueueSize \in Nat /\ BatchSize \in Nat
\* A report comes at least a tick before the monitor would give up.
ASSUME ThresholdAssumption ==
  /\ Report \in Nat \ {0} /\ Idle \in Nat /\ Stuck \in Nat /\ MaxStuck \in Nat
  /\ Report < Idle /\ Idle < Stuck /\ Stuck < MaxStuck

VARIABLES
  submitted,  \* the jobs the pool accepts, once the submission is over
  jobAt,      \* job -> one of Places
  status,     \* job -> Job.status
  attempts,   \* job -> Job.Attempts
  delay,      \* job -> the delay of its last retry
  timer,      \* job -> what is left of it
  limited,    \* Pool.rateLimited
  hit,        \* history: jobs that met a rate limit, and no clone has succeeded since
  completed, failed,  \* Stats.CompletedJobs, Stats.FailedJobs
  age,        \* the time since the jobs' CreatedAt
  idle,       \* the time since lastProgress
  seen,       \* lastCompletedCount
  ticked,     \* the ticker's channel holds a tick
  pauses,     \* how often the program has been stopped
  slept,      \* history: it has been stopped since the monitor last looked
  monitor,    \* "off", "submitting", "waiting", "killing", or why waitForCompletion returned
  victims     \* what GetStuckJobs has returned and the loop has not come to

Jobs == 1..MaxJobs

jobVars   == <<jobAt, status, attempts, delay, timer>>
flagVars  == <<limited, hit>>
countVars == <<completed, failed>>
clockVars == <<age, idle, ticked, pauses, slept>>
watchVars == <<submitted, seen, monitor, victims>>
cvars == <<jobVars, flagVars, countVars, clockVars, watchVars>>
-----------------------------------------------------------------------------
Latest == MaxStuck + 1
Clock  == 0..Latest
Returned == {"all completed", "none submitted", "no active jobs", "deadlock", "cancelled"}
Delays == 0..(MaxRetryDelay + RateLimitDelay)
Places == {"none", "queue", "body", "error", "timer", "done", "dropped"}

\* MaxRetries is compared after Attempts++: zero still gives one attempt.
AttemptLimit == IF MaxRetries = 0 THEN 1 ELSE MaxRetries

Active == {j \in Jobs : jobAt[j] \in {"body", "error"}}
Done == completed + failed
Watched == monitor \in {"submitting", "waiting", "killing"}
QueueHasRoom == Cardinality({j \in Jobs : jobAt[j] = "queue"}) < QueueSize

ClockTypeOK ==
  /\ submitted \subseteq Jobs
  /\ jobAt \in [Jobs -> Places]
  /\ status \in [Jobs -> {"pending", "running", "retrying", "completed", "failed"}]
  /\ attempts \in [Jobs -> 0..AttemptLimit]
  /\ delay \in [Jobs -> Delays] /\ timer \in [Jobs -> Delays]
  /\ limited \in BOOLEAN /\ hit \subseteq submitted
  /\ completed \in 0..MaxJobs /\ failed \in 0..MaxJobs
  /\ age \in Clock /\ idle \in Clock /\ ticked \in BOOLEAN
  /\ pauses \in 0..Pauses /\ slept \in BOOLEAN
  /\ seen \in 0..MaxJobs
  /\ monitor \in {"off", "submitting", "waiting", "killing"} \cup Returned
  /\ victims \subseteq submitted
  /\ \A j \in Jobs : timer[j] <= delay[j] /\ (j \notin submitted => jobAt[j] = "none")
  /\ Cardinality(Active) <= Workers
  /\ Cardinality({j \in Jobs : jobAt[j] = "queue"}) <= QueueSize

ClockInit ==
  /\ submitted = {} /\ jobAt = [j \in Jobs |-> "none"]
  /\ status = [j \in Jobs |-> "pending"] /\ attempts = [j \in Jobs |-> 0]
  /\ delay = [j \in Jobs |-> 0] /\ timer = [j \in Jobs |-> 0]
  /\ limited = FALSE /\ hit = {} /\ completed = 0 /\ failed = 0
  /\ age = 0 /\ idle = 0 /\ ticked = FALSE /\ pauses = 0 /\ slept = FALSE
  /\ seen = 0 /\ monitor = "off" /\ victims = {}

\* The submission begins, of jobs that were perhaps made long ago.  An empty list has no batch
\* after which to wait for space; one whose jobs are all refused has.
BeginSubmission(jobs) ==
  /\ monitor = "off"
  /\ monitor' = "submitting" \/ (jobs = {} /\ monitor' = "waiting")
  /\ submitted' = jobs /\ age' \in {0, Latest} /\ idle' = 0 /\ seen' = 0
  /\ UNCHANGED <<jobVars, flagVars, countVars, ticked, pauses, slept, victims>>
-----------------------------------------------------------------------------
(***************************************************************************)
(* The jobs.                                                               *)
(***************************************************************************)
At(j, place) == Watched /\ jobAt[j] = place
Move(j, place) == jobAt' = [jobAt EXCEPT ![j] = place]
SetStatus(j, s) == status' = [status EXCEPT ![j] = s]

\* In the order of the list; how often a full queue refuses a job is CloneManager's.
SubmitJob(j) ==
  /\ monitor = "submitting" /\ j \in submitted /\ jobAt[j] = "none"
  /\ \A i \in 1..(j - 1) : jobAt[i] # "none"
  /\ QueueHasRoom /\ Move(j, "queue")
  /\ UNCHANGED <<status, attempts, delay, timer, flagVars, countVars, clockVars, watchVars>>

Execute(j) ==
  /\ At(j, "queue") /\ Cardinality(Active) < Workers
  /\ Move(j, "body") /\ SetStatus(j, "running")
  /\ attempts' = [attempts EXCEPT ![j] = @ + 1]
  /\ UNCHANGED <<delay, timer, flagVars, countVars, clockVars, watchVars>>

\* A finished clone clears the rate limit for all.
ClearLimit == limited' = FALSE /\ hit' = {}

\* A repository that is there already is a success without a clone.
Succeeds(j) ==
  /\ At(j, "body")
  /\ ClearLimit \/ UNCHANGED flagVars
  /\ Move(j, "done") /\ SetStatus(j, "completed") /\ completed' = completed + 1
  /\ UNCHANGED <<attempts, delay, timer, failed, clockVars, watchVars>>

\* git's output may speak of a rate limit; a finished clone may fail its validation.
Fails(j) ==
  /\ At(j, "body") /\ Move(j, "error")
  /\ \/ UNCHANGED flagVars
     \/ limited' = TRUE /\ hit' = hit \cup {j}
     \/ ClearLimit
  /\ UNCHANGED <<status, attempts, delay, timer, countVars, clockVars, watchVars>>

AtMost(a, b) == IF a > b THEN b ELSE a

\* time.Duration(delay), before the comparison with the cap: of a float64 out of range some
\* machines make the least Duration, and a negative delay is none at all, others the longest.
ToDuration(x) == IF x <= MaxDuration THEN {x} ELSE {0, MaxDuration}

\* calculateRetryDelay, with main.go's BackoffFactor of 2: the delay after i passes of its
\* loop, and what becomes of it after n attempts.
Backoff[i \in 0..MaxRetries] == IF i = 0 THEN RetryDelay ELSE 2 * Backoff[i - 1]

RetryDelays_Constant(n) == {AtMost(RetryDelay, MaxRetryDelay)}
RetryDelays(n) == {AtMost(d, MaxRetryDelay) : d \in ToDuration(Backoff[n - 1])}
ScheduledDelays_NoFlag(j) == RetryDelays(attempts[j])
ScheduledDelays(j) == IF limited THEN {RateLimitDelay} ELSE RetryDelays(attempts[j])

MayRetry_Inclusive(j) == attempts[j] <= MaxRetries
MayRetry(j) == attempts[j] < MaxRetries

ScheduleRetry(j) ==
  /\ At(j, "error") /\ MayRetry(j)
  /\ Move(j, "timer") /\ SetStatus(j, "retrying")
  /\ \E d \in ScheduledDelays(j) :
       delay' = [delay EXCEPT ![j] = d] /\ timer' = [timer EXCEPT ![j] = d]
  /\ hit' = hit \ {j}
  /\ UNCHANGED <<attempts, limited, countVars, clockVars, watchVars>>

FailsFinally(j) ==
  /\ At(j, "error") /\ ~MayRetry(j)
  /\ Move(j, "done") /\ SetStatus(j, "failed") /\ failed' = failed + 1
  /\ hit' = hit \ {j}
  /\ UNCHANGED <<attempts, delay, timer, limited, completed, clockVars, watchVars>>

\* The retry goroutine sends the job, or drops it when the queue is full.
RetryAs(j, place) ==
  /\ At(j, "timer") /\ timer[j] = 0
  /\ Move(j, place) /\ SetStatus(j, "pending")
  /\ UNCHANGED <<attempts, delay, timer, flagVars, countVars, clockVars, watchVars>>

Resubmit(j)  == QueueHasRoom /\ RetryAs(j, "queue")
DropRetry(j) == ~QueueHasRoom /\ RetryAs(j, "dropped")

JobStep(j) == SubmitJob(j) \/ Execute(j) \/ Succeeds(j) \/ Fails(j) \/ ScheduleRetry(j)
              \/ FailsFinally(j) \/ Resubmit(j) \/ DropRetry(j)
-----------------------------------------------------------------------------
(***************************************************************************)
(* Time.                                                                   *)
(***************************************************************************)
Later(clock, d) == AtMost(clock + d, Latest)
Left(d) == [j \in Jobs |-> IF timer[j] > d THEN timer[j] - d ELSE 0]

\* The monitor's goroutine gets to every tick before the next one.
Elapse ==
  /\ Watched /\ ~ticked
  /\ age' = Later(age, 1) /\ idle' = Later(idle, 1) /\ timer' = Left(1)
  /\ ticked' = TRUE
  /\ UNCHANGED <<jobAt, status, attempts, delay, flagVars, countVars, pauses, slept, watchVars>>

\* Unless the whole program stands still, stopped from its terminal or with its machine.
Paused ==
  /\ Watched /\ pauses < Pauses
  /\ \E d \in {Idle, Stuck, MaxStuck} :
       age' = Later(age, d) /\ idle' = Later(idle, d) /\ timer' = Left(d)
  /\ ticked' = TRUE /\ pauses' = pauses + 1 /\ slept' = TRUE
  /\ UNCHANGED <<jobAt, status, attempts, delay, flagVars, countVars, watchVars>>
-----------------------------------------------------------------------------
(***************************************************************************)
(* waitForQueueSpace and waitForCompletion.                                *)
(***************************************************************************)

\* The active jobs are taken for the queued ones.  lastProgress is set when the space is there.
LookForSpace ==
  /\ monitor = "submitting" /\ ticked
  /\ monitor' = IF /\ \A j \in submitted : jobAt[j] # "none"
                   /\ Cardinality(Active) + BatchSize <= QueueSize
                THEN "waiting" ELSE "submitting"
  /\ idle' = 0 /\ ticked' = FALSE /\ slept' = FALSE
  /\ UNCHANGED <<submitted, seen, victims, jobVars, flagVars, countVars, age, pauses>>

GetStuckJobs(threshold) ==
  {j \in submitted : status[j] = "running" /\ age > threshold}

AllDone     == Active = {} /\ submitted # {} /\ Done >= Cardinality(submitted)
NoneAtAll   == Active = {} /\ submitted = {}
Stalled     == Done = seen
StuckTooLong == Stalled /\ Active # {} /\ idle >= MaxStuck
NothingActive == Stalled /\ Active = {} /\ Done < Cardinality(submitted) /\ idle >= Idle

\* Progress starts the clock again; so does every progress report.
ProgressReset_NoReport == Done > seen
ProgressReset == Done > seen \/ idle >= Report

Outcome == CASE AllDone       -> "all completed"
             [] NoneAtAll     -> "none submitted"
             [] NothingActive -> "no active jobs"
             [] StuckTooLong  -> "killing"
             [] OTHER         -> "waiting"

Look ==
  /\ monitor = "waiting" /\ ticked
  /\ ticked' = FALSE /\ slept' = FALSE
  /\ monitor' = Outcome
  /\ victims' = IF Outcome = "killing" THEN GetStuckJobs(MaxStuck) ELSE {}
  /\ idle' = IF ProgressReset THEN 0 ELSE idle
  /\ seen' = IF Done > seen THEN Done ELSE seen
  /\ UNCHANGED <<submitted, jobVars, flagVars, countVars, age, pauses>>

\* ForceKillStuckJobs: the statuses of a list made before, one at a time.  The counters are
\* left alone, the worker that runs the job is not told, and the results are only logged.
Kill(j, counted) ==
  /\ monitor = "killing" /\ j \in victims
  /\ SetStatus(j, "failed") /\ victims' = victims \ {j}
  /\ failed' = failed + counted
  /\ UNCHANGED <<jobAt, attempts, delay, timer, flagVars, completed, clockVars, submitted, seen,
                 monitor>>

ForceKill_Counts(j) == Kill(j, 1)
ForceKill(j) == Kill(j, 0)

KillsDone ==
  /\ monitor = "killing" /\ victims = {}
  /\ monitor' = "deadlock"
  /\ UNCHANGED <<submitted, seen, victims, jobVars, flagVars, countVars, clockVars>>

DeadlineEnds ==
  /\ monitor \in {"submitting", "waiting"} /\ monitor' = "cancelled"
  /\ UNCHANGED <<submitted, seen, victims, jobVars, flagVars, countVars, clockVars>>

Monitor == LookForSpace \/ Look \/ (\E j \in Jobs : ForceKill(j)) \/ KillsDone

ClockNext ==
  \/ \E jobs \in {1..n : n \in 0..MaxJobs} : BeginSubmission(jobs)
  \/ \E j \in Jobs : JobStep(j)
  \/ Elapse \/ Paused \/ Monitor \/ DeadlineEnds

\* Git commands end, timers fire, ticks come, and --timeout is over some time.
ClockFairness ==
  /\ \A j \in Jobs : WF_cvars(JobStep(j))
  /\ WF_cvars(Elapse) /\ WF_cvars(Monitor)

ClockSpec == ClockInit /\ [][ClockNext]_cvars /\ ClockFairness
-----------------------------------------------------------------------------
(***************************************************************************)
(* Properties.                                                             *)
(***************************************************************************)

\* waitForCompletion leaves unfinished jobs only to the deadline, or when the program has
\* stood still since its last look.  A pool that works for long, or waits for its retries,
\* is not taken for stuck; but one that is stuck is not noticed either, with jobs that never
\* end or with none left to run, against the comments that promise it ("Consider stuck after
\* 5 minutes without progress", "Force timeout after 10 minutes of being stuck"): the
\* progress report starts the clock of the stall detection again before its thresholds.
KeepsWaiting ==
  [][monitor = "waiting" /\ monitor' \in {"no active jobs", "killing"} => slept]_cvars

\* When the counters say that all is done, it is: a job is counted once, also one that was
\* taken for stuck, marked as failed behind its worker's back, and finished after all.
CountedOnce ==
  /\ Done = Cardinality({j \in Jobs : jobAt[j] = "done"})
  /\ monitor = "all completed" => \A j \in submitted : jobAt[j] = "done"

\* A job that has met a rate limit waits as long as the configuration says, unless another
\* clone has succeeded meanwhile: handleCloneResult and scheduleRetry agree over a flag all
\* jobs share.
RateLimitIsHeeded ==
  [][\A j \in Jobs : j \in hit /\ jobAt[j] = "error" /\ jobAt'[j] = "timer" =>
        delay'[j] = RateLimitDelay]_cvars

\* "Automatic retry with exponential backoff for failed operations": a retry waits, and
\* longer than the one before it, until the limits of the configuration.
RetriesBackOff ==
  [][\A j \in Jobs : jobAt[j] = "error" /\ jobAt'[j] = "timer" =>
        /\ delay'[j] >= AtMost(RetryDelay, RateLimitDelay) /\ delay'[j] > 0
        /\ \/ delay'[j] > delay[j] \/ delay'[j] = MaxRetryDelay
           \/ RateLimitDelay \in {delay[j], delay'[j]}]_cvars
===============================================================================
