# git-bulk in TLA+

This directory models [git-bulk](../src/README.md), a command line tool that clones or
forks all repositories of an organisation through a pool of goroutines. It holds TLA+
modules translated from the Go source, the TLC runs that check them on small instances,
and proofs, checked by TLAPS, of what holds for every instance.

`PROJECT.json` lists the runs, the source lines behind every definition, the hazards of the
code with the properties that watch them, and the theorems.

## The system

| Component | State it keeps | Operations | What is hard | What makes it correct | Model |
|---|---|---|---|---|---|
| Worker pool, `internal/worker/pool.go` | two bounded channels, a context, a stop flag under a mutex, five atomic counters, per job a status and a number of attempts | `Start`, `Submit`, `Stop`, the workers, retry goroutines, the result processor | everything runs concurrently; retries run outside the wait group; `Stop` closes channels others send on | one owner per job, counters that agree with the outcomes, final statuses, `Stop` returns, no job is forgotten | `WorkerPool`, `JobLedger`, `WorkerPoolLedger` |
| Retry delay and rate limit, same file and `handleCloneResult` | a flag all jobs share, each retry's timer | `calculateRetryDelay`, `scheduleRetry`, `SetRateLimited` | a cap of zero, a flag set and cleared by different jobs | retries back off; a rate limit is heeded | `CompletionMonitor` |
| Clone manager, `internal/clone/manager.go` | result channel and map, the number of submitted jobs | `CloneAll`, `CloneRepositories`, batches, waits, `recordResult`, `resultCollector` | polls counters of a pool that moves; results travel on their own path; one deadline over all | what it reports of a repository is what happened to it; it returns | `CloneManager` |
| Completion monitor, `waitForCompletion` with `GetStuckJobs`, `ForceKillStuckJobs` | last progress, last count | one turn per tick | four readings of one clock; jobs settled behind the workers' back | does not give up on jobs that work; counts each once | `CompletionMonitor` |
| Clone task, `createCloneTask` | the directory tree | exists?, clean up, `git clone`, validate | several tasks on one tree, timeouts, leftovers | never destroys a finished clone; what is reported is on the disk | `CloneTask` |
| Clone command, `cmd/git-bulk/main.go` `runRegularClone` | flags, results | load, resolve, list, clone, HTTPS fallback | long chain of fallbacks; the fallback reuses the manager | it ends, with the right input for each step | `CloneCommand`, the two calls in `CloneManager` |
| Fork mode, `main.go` `runForkMode` | the target organisation, a temporary mirror, local clones, results | check, fork, create, copy, sync, clone, set remotes | half-done work, reruns, other users | what is reported as created is there; nobody's work is overwritten | `ForkPipeline` |
| Provider selection, `internal/provider` | a map of providers | `GetProviderForSource`, five parsers | order of a map iteration | a source that names its service gets it | `SourceResolution` |
| Repository listing, `internal/provider` | what has been got so far | `ListRepositories` of three providers, `CloneAll`'s retry | pages under a changing list, fallback chains, rate limits | the listing is complete or an error | `ProviderListing` |
| Credentials, `internal/config` | file and environment values | find, load, look up | precedence, broken lines | the documented order | `Credentials` |
| SSH, `internal/ssh`; cobra wiring; output; demos | - | - | sequential I/O and formatting | - | not modelled |

`main.go` makes a manager, which makes a pool. The manager starts the pool, submits one job
per repository and polls the pool's counters. A worker runs the job, whose body is the
manager's clone task; the task puts its result into the manager's channel, a collector
goroutine stores it, and the worker then tells the pool how it ended. After the wait the
manager reads what has been stored and stops the pool. With the HTTPS fallback `main.go`
calls the same manager again for the failures. Before all that, `main.go` has loaded
credentials, found a provider for the source and listed its repositories. In fork mode it
goes through the list itself, without a pool, and talks to the target's server and to git.

## The modules

**`WorkerPool`** is `pool.go`, one action for the code between two points where another
goroutine can see or disturb this one: a channel operation, the stop mutex, an atomic
counter, a status written under the job's lock.

- A job has `status`, `attempts` and membership in `accepted` (Submit returned nil).
  `p.jobs` is the sequence `queue`. Of `p.results` only the number of jobs matters,
  `resultCount`, since its receiver only logs.
- `Stop` is `StopCancel`, `StopClose`, `StopFinish`; `life` is the last of these done, and
  the context, the state of both channels, the flag and the mutex follow from it.
- A worker has a place `pc[w]` and a `hand[w]`: the job it may still write to. It is empty
  once the worker has handed the job to a retry goroutine or offered it as a result.
- A retry goroutine is a record in `retriers`. It sleeps, reads `stopped` under the mutex,
  resets the status and sends; the value it read may be stale by then.
- A `select` is a disjunction of its ready cases. A send on a closed channel counts as
  ready and sets `crashed`, which ends the program.

The bodies of jobs are left out: `Execute` returns nil or an error at any time. So is
time: a timer fires when it likes, which includes every order the real delays allow.

**`JobLedger`** is what the pool promises, without channels and goroutines: each accepted
job is attempted one to `Limit` times, settled at most once and counted when it is, and
fails only when its attempts are used up. **`WorkerPoolLedger`** gives the refinement
mapping: a job is settled in the ledger when its counter moves, a step after its status.

**`CloneManager`** extends `WorkerPool` with the goroutine that calls `CloneRepositories`,
the tasks that record results and the collectors. The pool's client actions are conjoined
with the manager's (`SubmitNext` is the pool's `SubmitAccepted`; `TaskReturns` its
`ExecuteSucceeds` or `ExecuteFails`), and all other pool actions interleave (`PoolRuns`).
A job is a repository and the number of the call, because each call makes new `Job`
values. The stall detection of `waitForCompletion` is `CompletionMonitor`'s; `KeepsWaiting`
there says why leaving it out here loses nothing of a program that runs on; the exit after
the program has been stopped for a while, `waitForCompletion`'s "no active jobs" or its
deadlock, is in `CompletionMonitor` alone. `GetStats` loads the counters one by one and the
model reads them at once. What `CompletionIsReal` concludes needs no more: `completed` and
`failed` only grow, so a sum read in two parts is at most the sum at the end of the reading.

**`CloneTask`** is what the tasks do to the output directory, one action per step of
`createCloneTask`: look for `.git`, clear what is in the way, make the parents, start git,
git's end, the timeout, validation, cleanup.

- `tree[p]` is what is at the path of project `p`; `Inside[p]` are the projects below it, as
  Gerrit's `a/b` below `a`. `RemoveAll` and `MkdirAll` act on the whole tree.
- `at[p]` is where the task is, `outcome[p]` what `recordResult` last got, `tries[p]` how
  often the pool has run it. Any tasks may run together, a superset of what the workers
  allow. A timeout can find git already done (`FinishesLate`).
- `RunAgain` ends the program anywhere and starts it on the same directory.

`CleanupOnFailure` and `ValidateClone` are constants: `main.go` leaves both false,
`DefaultConfig` has both true. A success in this module says more than `ReportedSuccessIsReal`
in `CloneManager`, where a task that returned nil counts as a clone. The two modules are not
composed: they share only the result of a task.

**`ForkPipeline`** is fork mode: one repository after the other goes through `place`, from
the check of the target to its line in the summary, one action per request or git command.

- `remote[p][n]` is the target organisation at provider `p`: a repository may be empty,
  partly pushed, a fork still being imported, complete, or somebody else's. `tmp`, `local`
  and `cwd` are the disk and the working directory. They outlive a run; `results` do not.
- Every request and git command can fail, and a lost answer leaves what it has done
  (`CreateLost`, `ForkAccepted`). `DeadlineExpires` makes the context's commands fail from
  then on, `Killed` ends the run at once. `OthersCreate`, `ForkImported` and
  `SourceAdvances` are the world.
- `BeginRun` resolves both providers anew, since an ambiguous name may resolve either way.
- `broken` is history: where a creation or a copy has gone wrong.

**`CompletionMonitor`** is the time of a bulk clone. Its unit is the ticker's two seconds.
The thresholds of 10 s, 30 s and 10 min are constants `Report < Idle < Stuck < MaxStuck`
(`Stuck` only leads to a warning). The monitor looks once per tick (`Look`), except when the
whole program stands still (`Paused`: a stopped terminal, a sleeping machine), which moves
all clocks at once. The jobs are those of `WorkerPool` with the channels replaced by a bound,
`QueueSize`, and the delays put in; `limited` is the flag they share. Before the wait comes
the submission with `waitForQueueSpace`. A retry that finds the queue full is dropped
(`DropRetry`), and `ToDuration` is the conversion of the backoff from float64, which is
another number only above `MaxDuration`.

**`Credentials`** and **`SourceResolution`** are pure operators. A credentials file is a
sequence of lines by kind; a source is a form and its parts, of which only the dots and the
service names in them matter. A parser returns a set, empty for an error; `Resolutions` is
the set over the random order of the providers.

**`ProviderListing`** is `ListRepositories`. The server keeps a sequence, answers each
request from what it holds then, and others make and delete repositories meanwhile. GitHub
and GitLab are pages of an organisation, else of a user; Gerrit is two endpoints with
credentials, two without and SSH. `err = "wrapped"` is a rate limit inside another error.

**`CloneCommand`** puts the last four together into one run of the program: `Load`,
`ResolveSource`, `StartListing`, the listing's steps, `SubmitJobs`, the steps of the wait.
`mode` says whose run it is: `runRegularClone`, the beginning of `runForkMode`, or
`CloneAll`, which is given its provider and waits for a rate limit. What no later step
reads is forgotten at the step's end, which keeps the state space a sum rather than a
product of the parts'.

`MCWorkerPool`, `MCCloneManager`, `MCCloneTask`, `MCForkPipeline`, `MCCloneCommand` and
`MCCompletionMonitor` hold the values the `.cfg` files need; the eight modules whose names
end in `Proofs` hold the theorems and their lemmas. A definition `A_Slip`
beside a definition `A` is `A` with a plausible mistake; no specification uses it. With `A`
replaced by `A_Slip` the property listed with it in `PROJECT.json` fails, which shows the
property notices.

## The runs

| Run | Instance | Shows |
|---|---|---|
| `PoolSafety` | 3 jobs, 2 workers, queue of 1, 2 attempts (one job only 1), 2 starts | ownership, counters, final statuses, quiet after Stop, how jobs are lost, refinement of the ledger; `Stop` returns, and a job that is not lost is settled |
| `ManagerSafety` | 2 repositories, 1 worker, queue and batch of 1, 2 calls | reports, submission counts and the completion test agree with the pool; a call returns without its deadline unless a job is lost |
| `TaskTree` | 3 projects, one inside another, one empty; 2 attempts, 2 runs, any output directory, cleanup and validation on | finished clones stay, half-made ones are cleaned up, an outermost success is on the disk |
| `ForkRuns` | GitHub with one repository, GitLab with two, all of one name; 2 runs between any two providers | what is created is copied, hollow targets have a reason, existing ones are kept, the temporary mirror goes, the summary is complete, every run ends |
| `CommandRuns` | 2 keys and 56 settings, 95 sources, 3 repositories in pages of 1, 2 jobs with 3 attempts and a queue of 1, one pause | credentials, provider, listing and wait, each against its reference; the run ends, without its deadline unless a retry was dropped |
| `PoolRetryPanic` | 1 job, 1 worker | **violated**: a retry panics during `Stop` |
| `ManagerSmallQueue` | 2 repositories, batch of 2, queue of 1 | **violated**: the wait for queue space ends with the deadline only |
| `ManagerFallback` | 2 calls | **violated**: the fallback's submission panics |
| `TaskPartial` | 1 project, `main.go`'s options | **violated**: a half-made clone is reported as an existing repository |
| `TaskNested` | 2 projects, one inside the other | **violated**: the outer project's task removes the inner's clone |
| `ForkSync` | 1 GitLab project that is a fork itself | **violated**: reported as synced with nothing done to the target |
| `NoBackoff` | 1 job, `main.go`'s pool configuration | **violated**: a retry waits for no time |

The violated runs are disagreements of the code with its comments, tests or README; each is
quoted under `findings`. `ManagerFallback` needs no rare timing: after the first call the
pool is stopped, and every submission of the second panics or is refused. `TaskNested` needs
only that the inner project is cloned first. `ManagerSmallQueue` needs only `--queue-size`
below 20: all jobs are done, and the program waits for its `--timeout`.

Some disagreements are stated inside properties that hold, because the property says what
the code does and the text says otherwise. They are under `findings` too:

- A retry that finds the queue full loses its job (`LostOnlyWhenFull`). The comment there
  takes the channel to be closed, and README.md promises the retry. The job stays pending,
  and the call waits for it until the deadline: `AcceptedJobsSettle`, `CallReturns` and
  `RunComesToAnEnd` name this as the exception, and the queues of one in `PoolSafety`,
  `ManagerSafety` and `CommandRuns` make it happen.
- The stall detection never acts in a program that runs, though comments promise to consider
  a pool stuck after 5 minutes and to force a timeout after 10: every progress report starts
  its clock again (`KeepsWaiting`). It gives up on no job that works, and notices none that
  is stuck, unless the program has been stopped for a while.
- Only GitHub's rate limits are waited for (`OnlyGitHubIsWaitedFor`), though README.md says
  that the tool detects and handles rate limits: GitLab and Gerrit put the limit into
  another error, and `IsRateLimitError` does not look inside.
- The environment goes before the credentials file (`CredentialPrecedence`), as README.md
  says and the comment in `runRegularClone` does not.

A repository that was cloned may be reported as not processed when the collector is slower
than a tick (`UnprocessedHasAReason`).

What the passing runs say of code that looks suspicious:

- A rate limit met by one job is forgotten for it as soon as another clone finishes;
  `RateLimitIsHeeded` holds in just that form.
- `ListingIsComplete` excepts three lists that are short: GitHub's and GitLab's after a
  deletion between two pages, GitLab's at its fiftieth page, and Gerrit's, which has what an
  anonymous request sees when the one with credentials was denied, and only what begins with
  the organisation's name.
- `SourceIsUnderstood` speaks of sources that name github.com, gitlab.com or a Gerrit host.
  Left out on purpose are self-hosted GitLab and GitHub Enterprise, whose host is parsed but
  never used, and `host/org` with an unknown host, which GitHub's parser takes for
  `org/repo`.
- A later run never completes a target that was left empty (`HollowHasAReason` names the
  run that broke it), but never overwrites it either (`ExistingTargetsKept`).

`StoredIsLatest` is checked by no run, and proved of a first call whose result channel has
room for every attempt. Beyond that it is false: a result that finds the channel full passes
those before it, and in a second call two collectors on one channel, of which none ends, may
store what they received in the other order.

**Bounds.** `MaxStarts` and `MaxSubmits` limit what the client does. A queue of one and
three jobs make the queue full while one job runs and another waits to be retried; two
workers race on jobs, counters and `Stop`; two attempts give both outcomes of a failure;
two starts cover the reuse of a stopped pool. In `CloneManager`, `MinBatch` stands for 20
and `SubmitTries` for 10. The batch size only matters relative to the queue: it fits in
`ManagerSafety` and `ManagerFallback`, and is larger in `ManagerSmallQueue`. In `CloneTask`, two attempts give a retry after each failure, two
runs a start on whatever the first left, and two nested projects every way in which one
task meets another in the tree; a third project beside them shows that they leave it alone.
In `ForkPipeline`, two runs are a run and a rerun on what it left, and one name for all
repositories makes them collide wherever they can. In `CloneCommand`, pages of one and at
most two pages for GitLab put the page limit, a second page and a page that fails within
three repositories; one change by others shifts every page boundary; three attempts give
two delays to compare, with `MaxRetryDelay` met by the second doubling; one pause reaches each
threshold. Two jobs and a queue of one make a retry find it full; a batch of one fits.
`MaxDuration` is the second of the two delays, so that both fit, as they do in the code with
fewer than some thirty attempts. Clocks stop one past the largest threshold.

`CommandRuns` gives the pool a cap and a rate limit delay, as `DefaultConfig` does.
`main.go` sets neither, which is `NoBackoff`.

**Fairness.** Each worker, each job's retry goroutine, the result processor and `Stop` once
it has begun are weakly fair: Go runs every goroutine that can run, timers fire, and
`Execute` returns because a clone has a timeout. The client is not assumed to submit,
start or stop. `ManagerFairSpec` assumes less: that while the caller, a worker or a goroutine
of the pool can go on, one of them does. That is enough, since none of them goes on for ever
-- what is polled stutters, and attempts are bounded -- and so each gets its turn. Nothing is
assumed of the deadline or of the collectors. `ForkFairSpec` lets the program take its next
step, since every request and git command ends; `CommandFairness` the same for each part of
a run, each job and the ticker. Failures, deadlines, other users and pauses are never fair.

## The proofs

`WorkerPoolProofs` proves, for all finite sets of jobs and workers, every queue size of at
least one and all retry limits (the named assumptions of `WorkerPool`):

- `TypeCorrect`: `TypeOK` always holds,
- `OneOwner`: `SingleOwner` always holds,
- `ActiveCount`: `active` is the number of workers inside `processJob`,
- `FinalStatusStays`: a final status and its attempts never change,
- `StoppedIsQuiet`: no worker is left when a pool started once is stopped,
- `ResultsNeverPanic`: so such a pool never sends on the closed result channel.

None is inductive alone. `active` could fall below zero unless it is known to count the
workers in the body, so `TypeInv` is `TypeOK /\ ActiveIsWorkersInBody`. `SingleOwner` is
not preserved by a worker that starts a retry goroutine unless no other one has the job,
and that follows only from the statuses: `PlacesConsistent` says which statuses a queued
job, a job in hand and a job to be retried have. A queued job is pending, one about to be
retried is retrying, so the two places cannot hold the same job. The one case the status
does not separate, a queued job and one a retry goroutine is about to send, is kept apart
by `SingleOwner` itself. `Inv` is the conjunction of the three. The proof goes action by
action: one lemma per goroutine for types, one
for places, then `StepInv`. `FinalStatusStays` follows from `Inv`: only the holder of a job
writes to it, and no holder has a job with a final status at a place where it writes.

`WorkerPoolLedgerProofs` builds on that invariant:

- `CountersMatch`: `CountersMatchStatuses`, by cardinalities: a step adds one element to the
  jobs with a final status or to the workers that are about to count one, or moves a worker
  from there to the counter.
- `AllCountedIsIdle`: `AllCountedMeansIdle`. The settled jobs are among the accepted ones, so
  with equal numbers the sets are equal; and a job in any place is not settled.
- `LostWhenFull`: `LostOnlyWhenFull`, by the places that can let go of a job.
- `PoolImplementsLedger`: `Spec => ImplementsLedger`. Besides `Inv` the step simulation needs
  `AttemptInv`: attempts stay within the limit, and a failed job has used all of them. Taking
  a job, sleeping, sending and stopping are stutters; so is setting a final status, since the
  outcome changes in the ledger with the counter; the ledger's `Accept`, `Attempt`,
  `Complete` and `Fail` are the pool's accepted submission, `BeginJob` and the two counts.

`CloneManagerProofs` first proves `ManagerRunsPool`: a step of the manager is a step of
`WorkerPool` or leaves its variables alone. So everything above holds under a bulk clone,
for any list, batch size, queue size and number of calls. `ManagerInv` adds to the pool's
invariant:

- `LoopInv` and `FirstCallOnly`: where the loop is, and that `Stop` has returned before a
  second call, so that only the first has its jobs accepted;
- `SuccessInv` and `ResultInv` over the sets `Cloned` and `Recorded`: a result that says "ok"
  in the channel, with a collector, in the map or in the report is of a repository in
  `Cloned`, which never loses a member; a task that has recorded, and a final status, mean
  that the repository is in `Recorded`, which never loses one either;
- `WaitInv`: after a wait that no deadline ended, all jobs of the call are settled.

From `ManagerRunsPool` follows `ManagerKeepsLedger`: one owner, final statuses and the ledger.
From `ManagerInv` follow `ManagerTypeCorrect`, `SuccessIsReal`, `SubmittedCount`,
`WaitEndsWhenDone` and `UnprocessedIsExplained`. `WaitEndsWhenDone` is where the two sides meet: the loop's count of
its own submissions, and counters of the pool that survive a call.

`FirstCallCannotPanic` is what holds beside the findings of `ManagerFallback` and
`PoolRetryPanic`. In a first call `Submit` and the workers never meet a closed channel, and
while its time is not up nothing panics at all, retry goroutines included. `OpenInv` is why:
in that call the pool is open until everything is collected, and by then, unless the deadline
has cut the wait short, `WaitInv` has all accepted jobs settled; a job with a final status
has no retry goroutine. `FallbackAcceptsNone` is the other half of the first finding: where
the fallback does not panic, it clones nothing, since no job of a second call is accepted.

`StoredLatest` is `StoredIsLatest`, for any number of workers, repositories and retries. A
job records a result at every attempt, so several of one repository may be under way. The
invariant `OrderInv` says two things more. `LatestInv`: what a task has just recorded, or what
a settled job's status says, is the verdict of the last result of that repository in the
channel, or, when there is none, of the one the collector has, or else of the stored one.
`StampInv` is why a full channel, which would let a result pass those before it, does not
meet one: each result in the channel comes from an attempt of its own (its stamp), and the
attempt that is about to record has none there. So the channel holds fewer results than the
jobs may have attempts, by the pigeonhole principle; and with `MaxRetries` 0, when the
property asks for no room, there is nothing under way to be passed. The invariant
`AttemptInv` of the ledger bounds the stamps, and `AlikeAssumption` says that all jobs of a
bulk clone have the pool's number of retries, as `submitCloneJob` sets it.

`CloneTaskProofs` proves, for all repositories, every nesting that is transitive and without
cycles, all options and any number of runs and attempts:

- `TaskTypeCorrect`: the output directory stays a tree (`TaskTypeOK`),
- `OutermostSuccess`: `OutermostSuccessIsReal` always holds,
- `FinishedClone`: only a project above, or its own cleanup, removes a finished clone.
- `PartialCleanedUp`: with `CleanupOnFailure`, `PartialIsCleanedUp`. A half-made `.git` is made
  by git only, whose task is then at a place before its cleanup, and stays there until the
  cleanup or another task's removal.
- `FirstRunFindsNone`: with `CleanupOnFailure` no repository of a first run is reported as
  existing. So the finding of `TaskPartial` needs the cleanup to be off, as `main.go` has it:
  with it, neither a half-made clone nor one that git finished after its time is left for
  the next attempt. `FreshInv` says that a finished clone whose task is not at work has been
  reported as cloned.

Its invariant `TaskInv` adds two parts to the type. `FinishedPlace` says where the task of a
finished clone can be: never between the removal of an invalid directory and git, so its own
`RemoveAll` and `GitFails` do not meet it. `OutermostKept` keeps the clone of an outermost
project from git's end to its result and after it, since nobody else may remove it.

`CompletionMonitorProofs` proves, for any number of jobs, workers, attempts and pauses, any
delays, and any thresholds with `Report < Idle < Stuck < MaxStuck` (`ThresholdAssumption`):

- `NoneCountedTwice`: `CountedOnce` always holds. `CountInv` adds where jobs can be before
  they are submitted. The wait concludes "all completed" from two counters; that no
  submitted job is left then follows because the settled jobs are a subset of the submitted
  ones with as many members.
- `NeverGivesUp`: `KeepsWaiting`, and so that the stall detection is dead code. `StallClock` is what the progress report keeps up: unless
  the program has stood still, the clock is below `Report`, or at it with the tick there at
  which it starts again, so it never reaches `Idle`.
- `RateLimitHeeded`: `RateLimitIsHeeded`. `FlagInv` ties the jobs that have met a limit to
  the flag all jobs share: every step that clears the flag is one of a success, after which
  there are none.
- `BacksOff`: `RetriesBackOff`, for delays as `DelaysConfigured` has them: both positive, and
  the cap not below the smaller. `DefaultConfig`'s are such, and those of `CommandRuns`.
  `JobInv` says for each job how many attempts it has had at each place, and that its last
  delay is the backoff of its last attempt or the rate limit's. That the backoff of one more
  attempt is longer, or the cap, is `RetryDelayGrows`, by induction over the doublings. It
  holds for as many attempts as `DelaysFit` has them: the last delay is a `time.Duration`.
- `NeverWaits`: with the cap and the rate limit's delay at zero no retry ever waits. That is the
  configuration of `main.go`, and the finding of `NoBackoff` for every `RetryDelay`.
- `ClockTypeCorrect`: `ClockTypeOK`, with `ClockInv`. A timer is never longer than the job's delay, and
  that is zero, a backoff or the rate limit's; the counters are bounded because they count
  distinct jobs. With `--max-retries 0` a job is still tried once, hence `AttemptLimit`.

The library's induction theorems take a predicate, which no prover at hand can instantiate.
`LeastNatural` gets by without: a set of naturals that is not empty has a least member, by
`WFMin` and `NatLessThanWellFounded`, which speak of sets and relations. `Induction` and
`Recursion` follow: a set with 0 that is closed under successors has all naturals, and a
recursively defined function satisfies its definition. The backoff and the reading of a
file are written as such functions.

`ForkPipelineProofs` proves all safety properties of `ForkRuns`, for any providers, listings,
names and number of runs, under one invariant `ForkInv`. `CopyInv` says what each place of
the pipeline knows of the target: it is empty and this run's own between creation and push,
and copied from then on. The world only adds: `GrowsOnly` says that every step, of the
program or of others, keeps what is copied, and each of the lemmas about a step proves it
together with the invariant. `CreatedIsCopied` for the repositories already done then
follows from `GrowsOnly`, and for the current one from `CopyInv`; `TargetsKept` is the same
argument read as an action property.

`ProviderListingProofs` holds the invariant of a listing, `ListInv`, for any repositories,
page size, page limit and number of changes by others. `PagingInv` compares what has been got
with `Unread`, what the server would put on the pages to come: unless others have made
repositories the two have nothing in common, and unless others have deleted some they
contain all there was at the beginning. A repository made meanwhile moves all others up by
one, so `Unread` only grows; a deleted one moves some down, so it only shrinks; a page moves
a part of it over. `ErrorInv` says what a stage of Gerrit's chain and a wrapped error tell
of what was tried before, and that only GitHub's limits come unwrapped.

`CloneCommandProofs` proves, of whole runs:

- `RunsAreWaits`: every step of a run of the program is a step of `CompletionMonitor` or
  leaves its variables alone. So the three results hold of `CommandSpec` too
  (`RunCountsOnce`, `RunKeepsWaiting`, `RunHeedsRateLimit`), which is what `CommandRuns` checks.
- `RunListsAll`, `RunListsOnce`, `OnlyGitHubWaits`: the same with `ListInv`, which the run's
  other steps leave alone or begin anew. `RunListsAll` is `ListingIsComplete` with its three
  exceptions; `OnlyGitHubWaits` says for which providers the wait of `CloneAll` is dead code.
- `SourceUnderstood`: `SourceIsUnderstood`. It is a fact about the parsers (`NamedService`):
  for any words and any source of the three forms, such a source has exactly one resolution,
  so the order of the map does not matter. It rests on `WordsAssumption`, what the words
  "github.com" and "gitlab.com" contain, and on `SourcesAssumption`, what a source is.
- `RunNeverWaits`: with the cap and the delay for rate limits at zero, which is what `main.go`
  makes of every configuration, no retry of a run waits. There is no theorem that retries of
  `main.go`'s runs back off, for they do not.
- `CredentialsInOrder`: `CredentialPrecedence`, for files of any length. `ReadSoFar` says what
  has been read after n lines: of each key the last value set so far, unless a line has
  ended the reading; `ReadNext` is the step from one line to the next. `SettingsAssumption` says
  that files are sequences of lines.
- `CommandTypeCorrect`: `CommandTypeOK`. `StateInv` adds what each step of a run leaves to the
  next: the credentials are those of the setting once loaded, no wait runs before its step,
  and the outcome is there at the end only.

Every invariant and action property that a passing run checks is proved, `RetriesBackOff` of
the wait alone. Only model-checked:

- Liveness under fairness, which is beyond the prover: `StopReturns`, `AcceptedJobsSettle`,
  `CallReturns`, `RunEnds`, `RunComesToAnEnd`.
- The seven violated runs are counterexamples, and need no proof.

## Not modelled

- `internal/ssh/auth.go`: reads keys and the agent and writes a wrapper script once.
- HTTP, JSON and the client libraries; `GetOrganization`; `GerritProvider.ParseSource`, which
  the program never registers; `SetEnvironmentFromFile`, which it never calls.
- Flags, prompts, output, the demos.
- In URLs: ports, users, queries and upper case.
- Disk errors other than git's; the choice between SSH and HTTPS for one git command.

## The plan

All that was planned is modelled, checked and proved. What could come next:

1. The choice between SSH and HTTPS for one git command, with `internal/ssh/auth.go` behind it.
2. Proofs of the liveness properties, with a prover that knows ENABLED.
