-------------------------- MODULE CloneManagerProofs --------------------------
(***************************************************************************)
(* Theorems about CloneManager, for any list of repositories, any batch    *)
(* and queue size and any number of calls.  A step of the manager is a     *)
(* step of the pool or leaves the pool alone, so what is proved of the     *)
(* pool holds here.  Beyond that: reports, results, the wait, and which    *)
(* calls no panic can end.                                                 *)
(***************************************************************************)
EXTENDS CloneManager, WorkerPoolLedgerProofs

\* The positions of a list, and a list as a function from them.
LEMMA FirstFinite ==
  ASSUME NEW n \in Nat PROVE IsFiniteSet(1..n) /\ Cardinality(1..n) = n
<1>1. 1 \in Int /\ n \in Int
  OBVIOUS
<1>2. /\ IsFiniteSet(1..n)
      /\ Cardinality(1..n) = IF 1 > n THEN 0 ELSE n - 1 + 1
  BY <1>1, FS_Interval, Zenon
<1>3. (IF 1 > n THEN 0 ELSE n - 1 + 1) = n
  OBVIOUS
<1> QED BY <1>2, <1>3

LEMMA ListOf ==
  ASSUME NEW S, NEW n \in Nat, NEW s \in [1..n -> S] PROVE s \in Seq(S)
OBVIOUS

USE CallsAssumption, BatchAssumption, ReposAssumption, SubmitAssumption,
    JobsAssumption, WorkersAssumption, QueueAssumption, RetriesAssumption, BoundsAssumption

Outgoing == [repo : Repos, verdict : {"ok", "failed"}]

\* The types, and where the loop over todo is.
LoopInv ==
  /\ ManagerTypeOK
  /\ channel \in Seq(Outgoing)
  /\ at # "main" => call >= 1
  /\ at = "submit" => next <= Len(todo)
  /\ at \in {"batch", "submit", "space"} => submitted <= next - 1

\* Stop has returned before the next call begins, so only the first call has its jobs
\* accepted.
FirstCallOnly ==
  /\ at = "main" => call = 0 \/ Stopped
  /\ call > 1 => Stopped
  /\ \A j \in accepted : j[2] = 1 /\ call >= 1

\* A task that has recorded its result has not returned.
RecordedInBody == \A w \in Workers : outcome[w] # "none" => pc[w] = "running"

\* The repositories of which a job has completed, or is about to: its task returns nil.
Real(r) == \E c \in 1..Calls : \/ status[<<r, c>>] = "completed"
                               \/ \E w \in Workers : hand[w] = <<r, c>> /\ outcome[w] = "ok"
Cloned == {r \in Repos : Real(r)}

\* Wherever a result says that a repository was cloned, it was.
SuccessInv ==
  /\ \A k \in 1..Len(channel) : channel[k].verdict = "ok" => channel[k].repo \in Cloned
  /\ \A c \in 1..Calls : collecting[c].verdict = "ok" => collecting[c].repo \in Cloned
  /\ \A r \in Repos : stored[r] = "ok" \/ report[r] = "ok" => r \in Cloned

\* The repositories with a result in the channel, with a collector or in the map.
Recorded == {r \in Repos : \/ \E k \in 1..Len(channel) : channel[k].repo = r
                           \/ \E c \in 1..Calls : collecting[c].repo = r /\ collecting[c] # NoResult
                           \/ stored[r] # "none"}

ResultInv ==
  /\ \A w \in Workers : outcome[w] # "none" => RepoOf(hand[w]) \in Recorded
  /\ \A j \in Jobs : status[j] \in Terminal => RepoOf(j) \in Recorded

\* Once the wait has ended without the deadline, every job of the call is settled.
WaitInv == at = "collect" /\ ~deadline => \A j \in accepted : j[2] = call => status[j] \in Terminal

ManagerInv ==
  /\ Inv /\ CountersMatchStatuses
  /\ LoopInv /\ FirstCallOnly /\ SubmittedIsAccepted
  /\ RecordedInBody /\ SuccessInv /\ ResultInv /\ WaitInv
-----------------------------------------------------------------------------
(***************************************************************************)
(* The manager runs the pool.                                              *)
(***************************************************************************)
LEMMA JobToSubmit ==
  ASSUME LoopInv, at = "submit"
  PROVE  /\ todo[next] \in Repos /\ call \in 1..Calls
         /\ JobOf(todo[next]) \in Jobs /\ JobOf(todo[next])[2] = call
<1>1. next \in 1..Len(todo) /\ todo \in Seq(Repos) /\ call \in 1..Calls
  BY DEF LoopInv, ManagerTypeOK
<1>2. todo[next] \in Repos
  BY <1>1
<1> QED BY <1>1, <1>2 DEF JobOf

\* A step of the manager is a step of the pool, or leaves it alone.
LEMMA PoolStep == LoopInv /\ [ManagerNext]_mvars => [Next]_vars
<1> SUFFICES ASSUME LoopInv, [ManagerNext]_mvars PROVE [Next]_vars
  OBVIOUS
<1>1. CASE UNCHANGED vars
  BY <1>1
<1>2. ASSUME crashed = "no", Caller PROVE [Next]_vars
  <2>1. CASE CallCloneRepositories
    BY <1>2, <2>1 DEF CallCloneRepositories, CallWith, Next, Step
  <2>2. CASE SubmitNext \/ GiveUpRepo \/ SubmitAgain \/ SubmitCrashes
    <3>1. Submit(JobOf(todo[next])) /\ at = "submit"
      BY <2>2 DEF SubmitNext, GiveUpRepo, SubmitFails, SubmitAgain, SubmitCrashes, Submit
    <3> QED BY <1>2, <3>1, JobToSubmit DEF Next, Step
  <2>3. CASE StopPool
    BY <1>2, <2>3 DEF StopPool, pool, Next, Step
  <2>4. CASE StartBatch \/ LeaveSpace \/ LeaveWait \/ CollectResult \/ CollectDone
    BY <1>1, <2>4 DEF StartBatch, LeaveSpace, LeaveWait, CollectResult, CollectAs, CollectDone, pool
  <2> QED BY <1>2, <2>1, <2>2, <2>3, <2>4 DEF Caller
<1>3. ASSUME crashed = "no", NEW w \in Workers, Task(w) PROVE [Next]_vars
  BY <1>1, <1>3 DEF Task, TaskRecords, TaskReturns, pool, Next, Step, Worker, WorkInBody
<1>4. ASSUME NEW c \in 1..Calls, Collector(c) PROVE [Next]_vars
  BY <1>1, <1>4 DEF Collector, CollectorReceives, CollectorStores, StoreAs, pool
<1>5. CASE DeadlineExpires
  BY <1>1, <1>5 DEF DeadlineExpires, pool
<1>6. ASSUME crashed = "no", PoolRuns PROVE [Next]_vars
  BY <1>6 DEF PoolRuns, Next, Step, Worker, WorkInBody
<1>7. CASE UNCHANGED mvars
  BY <1>1, <1>7 DEF mvars, vars
<1> QED BY <1>2, <1>3, <1>4, <1>5, <1>6, <1>7 DEF ManagerNext, ManagerStep, ManagerTerminated
-----------------------------------------------------------------------------
(***************************************************************************)
(* What each kind of step leaves alone.                                    *)
(***************************************************************************)
LEMMA CallerFacts ==
  ASSUME Caller
  PROVE  /\ UNCHANGED <<deadline, hand, attempts, channel, outcome, collecting, stored>>
         /\ UNCHANGED pc \/ Start
         /\ report' = report \/ CollectResult
         /\ accepted' = accepted \/ SubmitNext
         /\ life' = life \/ at = "stop"
         /\ UNCHANGED <<completed, failed>>
<1> USE DEF results, pool, vars, tally, client
<1>1. CASE CallCloneRepositories
  BY <1>1 DEF CallCloneRepositories, CallWith, Start
<1>2. CASE SubmitNext
  BY <1>2 DEF SubmitNext, NextRepo, SubmitAccepted, SubmitCounts
<1>3. CASE GiveUpRepo \/ SubmitAgain \/ SubmitCrashes
  BY <1>3 DEF GiveUpRepo, SubmitFails, SubmitAgain, SubmitCrashes, NextRepo, SubmitRefused,
              SubmitPanics, SubmitCounts
<1>4. CASE StopPool
  BY <1>4 DEF StopPool, StopCancel, StopClose, StopFinish, StopUnchanged
<1>5. CASE StartBatch \/ LeaveSpace \/ LeaveWait \/ CollectResult \/ CollectDone
  BY <1>5 DEF StartBatch, LeaveSpace, LeaveWait, CollectResult, CollectAs, CollectDone
<1> QED BY <1>1, <1>2, <1>3, <1>4, <1>5 DEF Caller

\* The pool goes on by itself: no task returns, so no worker leaves its running task.
LEMMA PoolRunsFacts ==
  ASSUME Inv, PoolRuns
  PROVE  /\ UNCHANGED <<at, batch, deadline, results, report, accepted, life>>
         /\ \A w \in Workers : pc[w] = "running" => pc'[w] = "running" /\ hand'[w] = hand[w]
         /\ \A j \in Jobs : status'[j] \in Terminal => status[j] \in Terminal
<1>0. /\ status \in [Jobs -> Statuses] /\ pc \in [Workers -> WorkerPCs]
      /\ hand \in [Workers -> Jobs \cup {NoJob}]
  BY DEF Inv, TypeInv, TypeOK
<1>1. UNCHANGED <<at, batch, deadline, results, report>>
  BY DEF PoolRuns
<1>2. ASSUME NEW w \in Workers,
             \/ WorkerTakes(w) \/ WorkerExits(w) \/ BeginJob(w) \/ ScheduleRetry(w)
             \/ CountResult(w) \/ SendResult(w) \/ LeaveJob(w)
      PROVE  /\ UNCHANGED <<accepted, life>>
             /\ \A v \in Workers : pc[v] = "running" => pc'[v] = "running" /\ hand'[v] = hand[v]
             /\ \A j \in Jobs : status'[j] \in Terminal => status[j] \in Terminal
  <2>1. UNCHANGED <<accepted, life>> /\ pc[w] # "running"
    BY <1>2 DEF WorkerTakes, WorkerExits, BeginJob, ScheduleRetry, SpawnRetrier, CountResult,
                CountWhen, SendResult, LeaveJob, shared, client
  <2>2. \A v \in Workers \ {w} : pc'[v] = pc[v] /\ hand'[v] = hand[v]
    BY <1>0, <1>2 DEF WorkerTakes, WorkerExits, BeginJob, ScheduleRetry, SpawnRetrier, CountResult,
                CountWhen, SendResult, LeaveJob, HandOver, Goto
  <2>3. status' = status \/ status' = [status EXCEPT ![hand[w]] = "running"]
    BY <1>2 DEF WorkerTakes, WorkerExits, BeginJob, ScheduleRetry, SpawnRetrier, CountResult,
                CountWhen, SendResult, LeaveJob
  <2>4. \A j \in Jobs : status'[j] \in Terminal => status[j] \in Terminal
    BY <1>0, <2>3 DEF Terminal
  <2> QED BY <2>1, <2>2, <2>4
<1>3. ASSUME NEW r \in retriers, Retrier(r)
      PROVE  /\ UNCHANGED <<accepted, life, pc, hand>>
             /\ \A j \in Jobs : status'[j] \in Terminal => status[j] \in Terminal
  <2>1. UNCHANGED <<accepted, life, pc, hand>>
    BY <1>3 DEF Retrier, TimerFires, RetryCancelled, ReadStopped, ResetStatus, RetryQueued,
                RetryDropped, RetryPanics, RetryUnchanged, shared, client
  <2>2. status' = status \/ status' = [status EXCEPT ![r.job] = "pending"]
    BY <1>3 DEF Retrier, TimerFires, RetryCancelled, ReadStopped, ResetStatus, RetryQueued,
                RetryDropped, RetryPanics
  <2> QED BY <1>0, <2>1, <2>2 DEF Terminal
<1>4. ASSUME ProcessResult \/ ProcessorExits PROVE UNCHANGED <<accepted, life, pc, hand, status>>
  BY <1>4 DEF ProcessResult, ProcessorExits, shared, client
<1> QED BY <1>1, <1>2, <1>3, <1>4 DEF PoolRuns

\* A task returns: the job in the worker's hand gets the status its result promises.
LEMMA TaskReturnsFacts ==
  ASSUME Inv, NEW w \in Workers, TaskReturns(w)
  PROVE  /\ UNCHANGED <<at, batch, deadline, channel, collecting, stored, report, accepted, life,
                        hand>>
         /\ hand[w] \in Jobs /\ pc[w] = "running" /\ outcome[w] # "none"
         /\ \A v \in Workers \ {w} : pc'[v] = pc[v]
         /\ \A j \in Jobs \ {hand[w]} : status'[j] = status[j]
         /\ outcome[w] = "ok" => status'[hand[w]] = "completed"
<1>0. status \in [Jobs -> Statuses] /\ pc \in [Workers -> WorkerPCs]
  BY DEF Inv, TypeInv, TypeOK
<1>1. PICK st, place : Executed(w, st, place) /\ (outcome[w] = "ok" => st = "completed")
  BY DEF TaskReturns, ExecuteSucceeds, ExecuteFails
<1>2. hand[w] \in Jobs /\ pc[w] = "running"
  BY <1>1, HandIsJob DEF Executed
<1>3. UNCHANGED <<at, batch, deadline, channel, collecting, stored, report>> /\ outcome[w] # "none"
  BY DEF TaskReturns
<1> QED BY <1>0, <1>1, <1>2, <1>3 DEF Executed, Goto, shared, client
-----------------------------------------------------------------------------
(***************************************************************************)
(* The types and the loop.                                                 *)
(***************************************************************************)
LEMMA ListToClone == \A s \in ToClone : s \in Seq(Repos)
<1> SUFFICES ASSUME NEW s \in ToClone PROVE s \in Seq(Repos)
  OBVIOUS
<1>1. CASE call = 0
  BY <1>1 DEF ToClone
<1>2. CASE call # 0
  <2> DEFINE marked == {k \in DOMAIN RepoList : Unreported(RepoList[k])}
  <2>1. marked \subseteq 1..Len(RepoList) /\ Cardinality(marked) \in Nat
    <3>1. marked \subseteq 1..Len(RepoList)
      <4>1. DOMAIN RepoList = 1..Len(RepoList)
        OBVIOUS
      <4>2. marked \subseteq DOMAIN RepoList
        OBVIOUS
      <4> HIDE DEF marked
      <4> QED BY <4>1, <4>2
    <3>2. IsFiniteSet(1..Len(RepoList))
      <4>1. Len(RepoList) \in Nat
        OBVIOUS
      <4> HIDE DEF marked
      <4> QED BY <4>1, FirstFinite
    <3>3. IsFiniteSet(marked)
      BY <3>1, <3>2, FS_Subset
    <3> QED BY <3>1, <3>3, FS_CardinalityType
  <2>2. PICK f \in InOrder(marked) : s = [k \in DOMAIN f |-> RepoList[f[k]]]
    BY <1>2 DEF ToClone
  <2>3. f \in [1..Cardinality(marked) -> marked]
    BY <2>2 DEF InOrder
  <2> HIDE DEF marked
  <2>4. s \in [1..Cardinality(marked) -> Repos]
    BY <2>1, <2>2, <2>3
  <2> QED BY <2>1, <2>4, ListOf
<1> QED BY <1>1, <1>2

LEMMA NextRepoLoop ==
  ASSUME LoopInv, at = "submit", NextRepo, submitted' \in {submitted, submitted + 1}
  PROVE  LoopInv'
<1>1. /\ next \in 1..Len(todo) /\ submitted \in 0..(next - 1) /\ todo \in Seq(Repos)
      /\ call \in 1..Calls
  BY DEF LoopInv, ManagerTypeOK
<1>2. /\ at' \in {"space", "submit"} /\ (at' = "submit" => next' <= Len(todo))
      /\ next' = next + 1 /\ tries' = 0
      /\ UNCHANGED <<call, todo, deadline, channel, outcome, collecting, stored, report>>
  BY <1>1 DEF NextRepo, results
<1>3. submitted' \in 0..(next' - 1) /\ submitted' \in 0..Len(todo) /\ next' \in 1..(Len(todo) + 1)
  BY <1>1, <1>2
<1> QED BY <1>1, <1>2, <1>3 DEF LoopInv, ManagerTypeOK

LEMMA CallerLoop == ASSUME LoopInv, Caller PROVE LoopInv'
<1>0. /\ next \in 1..(Len(todo) + 1) /\ submitted \in 0..Len(todo) /\ todo \in Seq(Repos)
      /\ call \in 0..Calls /\ Calls \in Nat /\ tries \in 0..SubmitTries
      /\ deadline \in BOOLEAN
  BY DEF LoopInv, ManagerTypeOK
<1>1. CASE CallCloneRepositories
  <2>1. todo' \in Seq(Repos) /\ call' \in 1..Calls
    BY <1>0, <1>1, ListToClone DEF CallCloneRepositories, CallWith
  <2>2. /\ at' = "batch" /\ next' = 1 /\ submitted' = 0 /\ tries' = 0
        /\ UNCHANGED <<deadline, channel, outcome, collecting, stored, report>>
    BY <1>1 DEF CallCloneRepositories, CallWith, results
  <2>3. Len(todo') \in Nat
    BY <2>1
  <2> QED BY <1>0, <2>1, <2>2, <2>3 DEF LoopInv, ManagerTypeOK
<1>2. CASE SubmitNext \/ GiveUpRepo
  BY <1>0, <1>2, NextRepoLoop DEF SubmitNext, GiveUpRepo, SubmitFails
<1>3. CASE SubmitAgain
  <2>1. tries' \in 0..SubmitTries
    BY <1>0, <1>3 DEF SubmitAgain
  <2> QED BY <1>3, <2>1 DEF LoopInv, ManagerTypeOK, SubmitAgain, results
<1>4. CASE StartBatch
  <2>1. UNCHANGED <<batch, deadline, results, report>>
        /\ (at' = "submit" => next <= Len(todo)) /\ at' \in {"wait", "stop", "submit"}
        /\ call >= 1 /\ submitted <= next - 1
    BY <1>0, <1>4 DEF StartBatch, LoopInv
  <2> QED BY <2>1 DEF LoopInv, ManagerTypeOK, batch, results
<1>5. CASE LeaveWait
  <2>1. next' = 1 /\ at' = "collect" /\ UNCHANGED <<call, todo, tries, submitted, deadline, results, report>>
        /\ call >= 1
    BY <1>5 DEF LeaveWait, LoopInv
  <2> QED BY <1>0, <2>1 DEF LoopInv, ManagerTypeOK, results
<1>6. CASE CollectResult
  <2>1. todo[next] \in Repos /\ next' \in 1..(Len(todo) + 1)
    BY <1>0, <1>6 DEF CollectResult, CollectAs
  <2>2. stored[todo[next]] \in Verdicts
    BY <2>1 DEF LoopInv, ManagerTypeOK, Verdicts
  <2>3. report' \in [Repos -> Verdicts]
    BY <1>6, <2>1, <2>2 DEF CollectResult, CollectAs, Verdicts, LoopInv, ManagerTypeOK
  <2> QED BY <1>6, <2>1, <2>3 DEF CollectResult, CollectAs, LoopInv, ManagerTypeOK, results
<1>7. CASE SubmitCrashes
  BY <1>7 DEF SubmitCrashes, LoopInv, ManagerTypeOK, batch, results
<1>8. CASE LeaveSpace \/ CollectDone
  BY <1>8 DEF LeaveSpace, CollectDone, LoopInv, ManagerTypeOK, batch, results
<1>9. CASE StopPool
  BY <1>9 DEF StopPool, LoopInv, ManagerTypeOK, batch, results
<1> QED BY <1>1, <1>2, <1>3, <1>4, <1>5, <1>6, <1>7, <1>8, <1>9 DEF Caller

LEMMA RepoOfHand ==
  ASSUME Inv, NEW w \in Workers, pc[w] = "running"
  PROVE  hand[w] \in Jobs /\ RepoOf(hand[w]) \in Repos
BY HandIsJob DEF RepoOf

\* A recorded result goes to the end of the channel, or into the map when that is full.
LEMMA Records ==
  ASSUME LoopInv, NEW res \in Outgoing, RecordResult(res)
  PROVE  /\ channel' \in Seq(Outgoing) /\ Len(channel') <= QueueSize
         /\ stored' \in [Repos -> {"none", "ok", "failed"}]
         /\ \/ /\ stored' = stored /\ Len(channel') = Len(channel) + 1
               /\ channel'[Len(channel) + 1] = res
               /\ \A k \in 1..Len(channel) : channel'[k] = channel[k]
            \/ /\ channel' = channel /\ stored'[res.repo] = res.verdict
               /\ \A r \in Repos : r # res.repo => stored'[r] = stored[r]
<1>0. channel \in Seq(Outgoing) /\ Len(channel) <= QueueSize /\ stored \in [Repos -> {"none", "ok", "failed"}]
      /\ res.repo \in Repos /\ res.verdict \in {"ok", "failed"}
  BY DEF LoopInv, ManagerTypeOK, Outgoing
<1>1. CASE Len(channel) < QueueSize
  <2>1. channel' = Append(channel, res) /\ stored' = stored
    BY <1>1 DEF RecordResult
  <2> QED BY <1>0, <1>1, <2>1
<1>2. CASE ~(Len(channel) < QueueSize)
  <2>1. channel' = channel /\ stored' = [stored EXCEPT ![res.repo] = res.verdict]
    BY <1>2 DEF RecordResult
  <2> QED BY <1>0, <2>1
<1> QED BY <1>1, <1>2

LEMMA StepLoop == ASSUME Inv, LoopInv, [ManagerNext]_mvars PROVE LoopInv'
<1>1. CASE Caller
  BY <1>1, CallerLoop
<1>2. ASSUME NEW w \in Workers, Task(w) PROVE LoopInv'
  <2>1. ASSUME NEW verdict \in {"ok", "failed"}, TaskRecords(w, verdict) PROVE LoopInv'
    <3>1. Result(RepoOf(hand[w]), verdict) \in Outgoing
      BY <2>1, RepoOfHand DEF TaskRecords, Result, Outgoing
    <3>2. /\ channel' \in Seq(Outgoing) /\ Len(channel') <= QueueSize
          /\ stored' \in [Repos -> {"none", "ok", "failed"}]
      BY <2>1, <3>1, Records DEF TaskRecords
    <3>3. outcome' \in [Workers -> {"none", "ok", "failed"}]
      BY <2>1 DEF TaskRecords, LoopInv, ManagerTypeOK
    <3> QED BY <2>1, <3>2, <3>3 DEF TaskRecords, LoopInv, ManagerTypeOK, batch
  <2>2. CASE TaskReturns(w)
    <3>1. outcome' \in [Workers -> {"none", "ok", "failed"}]
      BY <2>2 DEF TaskReturns, LoopInv, ManagerTypeOK
    <3> QED BY <2>2, <3>1 DEF TaskReturns, LoopInv, ManagerTypeOK, batch
  <2> QED BY <1>2, <2>1, <2>2 DEF Task
<1>3. ASSUME NEW c \in 1..Calls, Collector(c) PROVE LoopInv'
  <2>0. channel \in Seq(Outgoing) /\ collecting \in [1..Calls -> {NoResult} \cup Outgoing]
        /\ Len(channel) <= QueueSize /\ stored \in [Repos -> {"none", "ok", "failed"}]
    BY DEF LoopInv, ManagerTypeOK, Outgoing
  <2>1. CASE CollectorReceives(c)
    <3>1. /\ Head(channel) \in Outgoing /\ channel' \in Seq(Outgoing)
          /\ Len(channel') <= QueueSize
      BY <2>0, <2>1 DEF CollectorReceives
    <3>2. collecting' \in [1..Calls -> {NoResult} \cup Outgoing]
      BY <2>0, <2>1, <3>1 DEF CollectorReceives
    <3> QED BY <2>1, <3>1, <3>2 DEF CollectorReceives, LoopInv, ManagerTypeOK, batch, Outgoing
  <2>2. CASE CollectorStores(c)
    <3>1. collecting[c].repo \in Repos /\ collecting[c].verdict \in {"ok", "failed"}
      BY <2>0, <2>2 DEF CollectorStores, StoreAs, Outgoing
    <3>2. /\ stored' \in [Repos -> {"none", "ok", "failed"}]
          /\ collecting' \in [1..Calls -> {NoResult} \cup Outgoing]
      BY <2>0, <2>2, <3>1 DEF CollectorStores, StoreAs
    <3> QED BY <2>2, <3>2 DEF CollectorStores, StoreAs, LoopInv, ManagerTypeOK, batch, Outgoing
  <2> QED BY <1>3, <2>1, <2>2 DEF Collector
<1>4. CASE DeadlineExpires
  BY <1>4 DEF DeadlineExpires, LoopInv, ManagerTypeOK, batch, results
<1>5. CASE PoolRuns
  BY <1>5 DEF PoolRuns, LoopInv, ManagerTypeOK, batch, results
<1>6. CASE UNCHANGED mvars
  BY <1>6 DEF mvars, LoopInv, ManagerTypeOK, batch, results
<1> QED BY <1>1, <1>2, <1>3, <1>4, <1>5, <1>6 DEF ManagerNext, ManagerStep, ManagerTerminated
-----------------------------------------------------------------------------
(***************************************************************************)
(* Which jobs are accepted, and when.                                      *)
(***************************************************************************)
LEMMA InitManager == ManagerInit => ManagerInv
<1> SUFFICES ASSUME ManagerInit PROVE ManagerInv
  OBVIOUS
<1>0. Init
  BY DEF ManagerInit
<1>1. Inv /\ CountersMatchStatuses
  BY <1>0, InitInv, InitCounts
<1>2. LoopInv
  <2>1. /\ todo = <<>> /\ todo \in Seq(Repos) /\ Len(todo) = 0
        /\ channel = <<>> /\ channel \in Seq(Outgoing) /\ Len(channel) = 0
    BY DEF ManagerInit
  <2>2. /\ outcome \in [Workers -> {"none", "ok", "failed"}]
        /\ collecting \in [1..Calls -> {NoResult} \cup [repo : Repos, verdict : {"ok", "failed"}]]
        /\ stored \in [Repos -> {"none", "ok", "failed"}] /\ report \in [Repos -> Verdicts]
    BY DEF ManagerInit, Verdicts
  <2>3. /\ at = "main" /\ call \in 0..Calls /\ tries \in 0..SubmitTries /\ deadline \in BOOLEAN
        /\ next \in 1..(0 + 1) /\ submitted \in 0..0
    <3>1. 0 \in 0..Calls /\ 0 \in 0..SubmitTries /\ 1 \in 1..(0 + 1) /\ 0 \in 0..0
      OBVIOUS
    <3> QED BY <3>1 DEF ManagerInit
  <2> QED BY <2>1, <2>2, <2>3 DEF LoopInv, ManagerTypeOK
<1>3. FirstCallOnly /\ SubmittedIsAccepted
  BY <1>0 DEF ManagerInit, Init, FirstCallOnly, SubmittedIsAccepted
<1>4. RecordedInBody /\ ResultInv /\ WaitInv
  BY <1>0 DEF ManagerInit, Init, RecordedInBody, ResultInv, WaitInv, Terminal
<1>5. SuccessInv
  BY DEF ManagerInit, SuccessInv, NoResult
<1> QED BY <1>1, <1>2, <1>3, <1>4, <1>5 DEF ManagerInv

LEMMA OnlyTheCaller ==
  ASSUME Inv, [ManagerNext]_mvars, ~Caller
  PROVE  UNCHANGED <<at, batch, report, accepted, life>>
<1>1. ASSUME NEW w \in Workers, Task(w) PROVE UNCHANGED <<at, batch, report, accepted, life>>
  BY <1>1, TaskReturnsFacts DEF Task, TaskRecords, pool, vars
<1>2. ASSUME NEW c \in 1..Calls, Collector(c) PROVE UNCHANGED <<at, batch, report, accepted, life>>
  BY <1>2 DEF Collector, CollectorReceives, CollectorStores, StoreAs, pool, vars
<1>3. CASE DeadlineExpires
  BY <1>3 DEF DeadlineExpires, pool, vars
<1>4. CASE PoolRuns
  BY <1>4, PoolRunsFacts
<1>5. CASE UNCHANGED mvars
  BY <1>5 DEF mvars, vars
<1> QED BY <1>1, <1>2, <1>3, <1>4, <1>5 DEF ManagerNext, ManagerStep, ManagerTerminated

\* Submit accepts nothing after a Stop, and only a Stop ends a call.
LEMMA StepFirstCall ==
  ASSUME Inv, LoopInv, FirstCallOnly, [ManagerNext]_mvars PROVE FirstCallOnly'
<1>0. call \in Nat
  BY DEF LoopInv, ManagerTypeOK
<1>1. CASE CallCloneRepositories
  BY <1>0, <1>1 DEF CallCloneRepositories, CallWith, Start, FirstCallOnly, Stopped
<1>2. CASE SubmitNext
  <2>1. call = 1
    BY <1>0, <1>2 DEF SubmitNext, SubmitAccepted, JobsClosed, Stopped, FirstCallOnly, LoopInv
  <2>2. /\ accepted' = accepted \cup {JobOf(todo[next])} /\ JobOf(todo[next])[2] = call
        /\ call' = call /\ at' # "main" /\ life' = life
    BY <1>2, JobToSubmit DEF SubmitNext, NextRepo, SubmitAccepted, Accept, SubmitCounts
  <2> QED BY <2>1, <2>2 DEF FirstCallOnly
<1>3. CASE StopPool
  <2>1. UNCHANGED <<call, accepted>> /\ (at' = "main" => Stopped') /\ (Stopped => Stopped')
    BY <1>3 DEF StopPool, StopCancel, StopClose, StopFinish, StopUnchanged, client, batch, pool,
                vars, Stopped
  <2> QED BY <2>1 DEF FirstCallOnly
<1>4. CASE /\ GiveUpRepo \/ SubmitAgain \/ SubmitCrashes \/ StartBatch \/ LeaveSpace \/ LeaveWait
              \/ CollectResult \/ CollectDone
           /\ Caller
  <2>1. call' = call /\ at # "main" /\ at' # "main"
    BY <1>4 DEF GiveUpRepo, SubmitFails, SubmitAgain, SubmitCrashes, StartBatch, LeaveSpace, LeaveWait,
                CollectResult, CollectAs, CollectDone, NextRepo, batch
  <2>2. UNCHANGED <<accepted, life>>
    BY <1>4, CallerFacts DEF GiveUpRepo, SubmitFails, SubmitAgain, SubmitCrashes, StartBatch,
             LeaveSpace, LeaveWait, CollectResult, CollectAs, CollectDone, NextRepo, pool, vars,
             SubmitRefused, SubmitPanics, SubmitCounts
  <2> QED BY <2>1, <2>2 DEF FirstCallOnly, Stopped
<1>5. CASE ~Caller
  BY <1>5, OnlyTheCaller DEF FirstCallOnly, batch, Stopped
<1> QED BY <1>1, <1>2, <1>3, <1>4, <1>5 DEF Caller

OfCall == {j \in accepted : j[2] = call}

LEMMA OfCallFinite == ASSUME Inv PROVE IsFiniteSet(OfCall)
<1>1. OfCall \subseteq Jobs
  BY DEF OfCall, Inv, TypeInv, TypeOK
<1> QED BY <1>1, JobsAssumption, FS_Subset

LEMMA StepSubmitted ==
  ASSUME Inv, LoopInv, FirstCallOnly, SubmittedIsAccepted, [ManagerNext]_mvars
  PROVE  SubmittedIsAccepted'
<1> SUFFICES ASSUME at' # "main" PROVE submitted' = Cardinality(OfCall')
  BY DEF SubmittedIsAccepted, OfCall
<1>0. call \in Nat /\ submitted \in Nat
  BY DEF LoopInv, ManagerTypeOK
<1>1. CASE CallCloneRepositories
  <2>1. call' = call + 1 /\ accepted' = accepted /\ submitted' = 0
    BY <1>1 DEF CallCloneRepositories, CallWith, Start
  <2>2. OfCall' = {}
    BY <1>0, <2>1 DEF FirstCallOnly, OfCall
  <2> QED BY <2>1, <2>2, FS_EmptySet
<1>2. CASE SubmitNext
  <2>1. /\ JobOf(todo[next]) \notin accepted /\ accepted' = accepted \cup {JobOf(todo[next])}
        /\ JobOf(todo[next])[2] = call /\ call' = call /\ submitted' = submitted + 1
        /\ at # "main"
    BY <1>2, JobToSubmit DEF SubmitNext, NextRepo, SubmitAccepted, Accept, SubmitCounts
  <2>2. JobOf(todo[next]) \notin OfCall /\ OfCall' = OfCall \cup {JobOf(todo[next])}
    BY <2>1 DEF OfCall
  <2>3. Cardinality(OfCall') = Cardinality(OfCall) + 1
    BY <2>2, OfCallFinite, FS_AddElement
  <2> QED BY <2>1, <2>3 DEF SubmittedIsAccepted, OfCall
<1>3. CASE at # "main" /\ UNCHANGED <<submitted, call, accepted>>
  BY <1>3 DEF SubmittedIsAccepted, OfCall
<1>4. CASE /\ GiveUpRepo \/ SubmitAgain \/ SubmitCrashes \/ StartBatch \/ LeaveSpace \/ LeaveWait
              \/ CollectResult \/ CollectDone \/ StopPool
  <2>1. at # "main" /\ UNCHANGED <<submitted, call>>
    BY <1>4 DEF GiveUpRepo, SubmitFails, SubmitAgain, SubmitCrashes, StartBatch, LeaveSpace, LeaveWait,
                CollectResult, CollectAs, CollectDone, NextRepo, StopPool, batch
  <2>2. accepted' = accepted
    BY <1>4 DEF GiveUpRepo, SubmitFails, SubmitAgain, SubmitCrashes, StartBatch,
             LeaveSpace, LeaveWait, CollectResult, CollectAs, CollectDone, NextRepo, pool, vars,
             SubmitRefused, SubmitPanics, SubmitCounts, StopPool, StopCancel, StopClose, StopFinish,
             StopUnchanged, client
  <2> QED BY <1>3, <2>1, <2>2
<1>5. CASE ~Caller
  BY <1>3, <1>5, OnlyTheCaller DEF batch
<1> QED BY <1>1, <1>2, <1>4, <1>5 DEF Caller
-----------------------------------------------------------------------------
(***************************************************************************)
(* What a result says is so.                                               *)
(***************************************************************************)
LEMMA StepInBody ==
  ASSUME Inv, LoopInv, RecordedInBody, [ManagerNext]_mvars PROVE RecordedInBody'
<1> SUFFICES ASSUME NEW w \in Workers, outcome'[w] # "none" PROVE pc'[w] = "running"
  BY DEF RecordedInBody
<1>0. (outcome[w] # "none" => pc[w] = "running") /\ outcome \in [Workers -> {"none", "ok", "failed"}]
  BY DEF RecordedInBody, LoopInv, ManagerTypeOK
<1>1. CASE Caller
  <2>1. outcome[w] # "none" /\ pc[w] = "running"
    BY <1>0, <1>1, CallerFacts
  <2>2. ~Start
    BY <2>1 DEF Start, WaitGroupZero, Exited
  <2> QED BY <1>1, <2>1, <2>2, CallerFacts
<1>2. ASSUME NEW v \in Workers, Task(v) PROVE pc'[w] = "running"
  <2>1. ASSUME NEW verdict, TaskRecords(v, verdict) PROVE pc'[w] = "running"
    BY <1>0, <2>1 DEF TaskRecords, pool, vars
  <2>2. CASE TaskReturns(v)
    <3>1. w # v
      BY <1>0, <2>2 DEF TaskReturns
    <3>2. outcome'[w] = outcome[w] /\ pc'[w] = pc[w]
      BY <1>0, <2>2, <3>1, TaskReturnsFacts DEF TaskReturns
    <3> QED BY <1>0, <3>2
  <2> QED BY <1>2, <2>1, <2>2 DEF Task
<1>3. CASE UNCHANGED <<pc, outcome>>
  BY <1>0, <1>3
<1>4. ASSUME NEW c \in 1..Calls, Collector(c) PROVE pc'[w] = "running"
  BY <1>3, <1>4 DEF Collector, CollectorReceives, CollectorStores, StoreAs, pool, vars
<1>5. CASE DeadlineExpires
  BY <1>3, <1>5 DEF DeadlineExpires, results, pool, vars
<1>6. CASE PoolRuns
  BY <1>0, <1>6, PoolRunsFacts DEF results
<1>7. CASE UNCHANGED mvars
  BY <1>3, <1>7 DEF mvars, vars, results
<1> QED BY <1>1, <1>2, <1>4, <1>5, <1>6, <1>7 DEF ManagerNext, ManagerStep, ManagerTerminated

LEMMA TerminalStays ==
  ASSUME Inv, LoopInv, [ManagerNext]_mvars, NEW j \in Jobs, status[j] \in Terminal
  PROVE  status'[j] = status[j]
BY PoolStep, FinalStatusStep

LEMMA RealStays ==
  ASSUME Inv, LoopInv, RecordedInBody, [ManagerNext]_mvars, NEW r \in Repos, Real(r)
  PROVE  Real(r)'
<1>1. PICK c \in 1..Calls : \/ status[<<r, c>>] = "completed"
                            \/ \E w \in Workers : hand[w] = <<r, c>> /\ outcome[w] = "ok"
  BY DEF Real
<1>2. CASE status[<<r, c>>] = "completed"
  <2>1. <<r, c>> \in Jobs
    OBVIOUS
  <2>2. status'[<<r, c>>] = "completed"
    BY <1>2, <2>1, TerminalStays DEF Terminal
  <2> QED BY <2>2 DEF Real
<1>3. ASSUME NEW w \in Workers, hand[w] = <<r, c>>, outcome[w] = "ok" PROVE Real(r)'
  <2>0. pc[w] = "running"
    BY <1>3 DEF RecordedInBody
  <2>1. CASE hand'[w] = hand[w] /\ outcome'[w] = outcome[w]
    BY <1>3, <2>1 DEF Real
  <2>2. CASE Caller
    BY <2>1, <2>2, CallerFacts
  <2>3. ASSUME NEW v \in Workers, Task(v) PROVE Real(r)'
    <3>1. ASSUME NEW verdict, TaskRecords(v, verdict) PROVE Real(r)'
      <4>1. v # w
        BY <1>3, <3>1 DEF TaskRecords
      <4> QED BY <2>1, <3>1, <4>1 DEF TaskRecords, pool, vars
    <3>2. CASE TaskReturns(v) /\ v # w
      <4>1. outcome'[w] = outcome[w]
        BY <3>2 DEF TaskReturns
      <4> QED BY <2>1, <3>2, <4>1, TaskReturnsFacts
    <3>3. CASE TaskReturns(v) /\ v = w
      <4>1. status'[hand[w]] = "completed"
        BY <1>3, <3>3, TaskReturnsFacts
      <4> QED BY <1>3, <4>1 DEF Real
    <3> QED BY <2>3, <3>1, <3>2, <3>3 DEF Task
  <2>4. ASSUME NEW d \in 1..Calls, Collector(d) PROVE Real(r)'
    BY <2>1, <2>4 DEF Collector, CollectorReceives, CollectorStores, StoreAs, pool, vars
  <2>5. CASE DeadlineExpires
    BY <2>1, <2>5 DEF DeadlineExpires, results, pool, vars
  <2>6. CASE PoolRuns
    BY <2>0, <2>1, <2>6, PoolRunsFacts DEF results
  <2>7. CASE UNCHANGED mvars
    BY <2>1, <2>7 DEF mvars, vars, results
  <2> QED BY <2>2, <2>3, <2>4, <2>5, <2>6, <2>7 DEF ManagerNext, ManagerStep, ManagerTerminated
<1> QED BY <1>1, <1>2, <1>3

\* Where the results are: only the tasks and the collectors move them, and only the caller
\* reports them.
LEMMA ResultsMove ==
  ASSUME Inv, [ManagerNext]_mvars
  PROVE  \/ UNCHANGED <<channel, collecting, stored, outcome>>
         \/ \E w \in Workers : Task(w)
         \/ \E c \in 1..Calls : Collector(c)
<1>1. CASE Caller
  BY <1>1, CallerFacts
<1>2. CASE DeadlineExpires \/ PoolRuns
  BY <1>2 DEF DeadlineExpires, PoolRuns, results
<1>3. CASE UNCHANGED mvars
  BY <1>3 DEF mvars, results
<1> QED BY <1>1, <1>2, <1>3 DEF ManagerNext, ManagerStep, ManagerTerminated

LEMMA ClonedStays ==
  ASSUME Inv, LoopInv, RecordedInBody, [ManagerNext]_mvars PROVE Cloned \subseteq Cloned'
BY RealStays DEF Cloned

LEMMA StepSuccess ==
  ASSUME Inv, LoopInv, RecordedInBody, SuccessInv, [ManagerNext]_mvars
  PROVE  SuccessInv'
<1>0. /\ channel \in Seq(Outgoing) /\ collecting \in [1..Calls -> {NoResult} \cup Outgoing]
      /\ stored \in [Repos -> {"none", "ok", "failed"}] /\ report \in [Repos -> Verdicts]
  BY DEF LoopInv, ManagerTypeOK, Outgoing
<1>1. /\ \A k \in 1..Len(channel) : channel[k].verdict = "ok" => channel[k].repo \in Cloned'
      /\ \A c \in 1..Calls : collecting[c].verdict = "ok" => collecting[c].repo \in Cloned'
      /\ \A r \in Repos : stored[r] = "ok" \/ report[r] = "ok" => r \in Cloned'
  BY ClonedStays DEF SuccessInv
<1>2. (\A r \in Repos : report'[r] = "ok" => r \in Cloned')
  <2>1. CASE CollectResult
    <3>1. \A r \in Repos : report'[r] = "ok" => report[r] = "ok" \/ stored[r] = "ok"
      BY <1>0, <2>1 DEF CollectResult, CollectAs
    <3> QED BY <1>1, <3>1
  <2>2. CASE report' = report
    BY <1>1, <2>2
  <2> QED BY <2>1, <2>2, CallerFacts, OnlyTheCaller
<1>3. CASE UNCHANGED <<channel, collecting, stored>>
  <2>1. /\ \A k \in 1..Len(channel') : channel'[k].verdict = "ok" => channel'[k].repo \in Cloned'
        /\ \A c \in 1..Calls : collecting'[c].verdict = "ok" => collecting'[c].repo \in Cloned'
        /\ \A r \in Repos : stored'[r] = "ok" => r \in Cloned'
    BY <1>1, <1>3
  <2> QED BY <1>2, <2>1 DEF SuccessInv
<1>4. ASSUME NEW w \in Workers, Task(w) PROVE SuccessInv'
  <2>1. CASE TaskReturns(w)
    BY <1>3, <2>1 DEF TaskReturns
  <2>2. ASSUME NEW verdict \in {"ok", "failed"}, TaskRecords(w, verdict) PROVE SuccessInv'
    <3> DEFINE r == RepoOf(hand[w])
               res == Result(r, verdict)
    <3>1. res \in Outgoing /\ res.repo = r /\ res.verdict = verdict /\ r \in Repos
      BY <2>2, RepoOfHand DEF TaskRecords, Result, Outgoing
    <3>2. RecordResult(res) /\ collecting' = collecting
      BY <2>2 DEF TaskRecords
    <3>3. verdict = "ok" => r \in Cloned'
      <4> SUFFICES ASSUME verdict = "ok" PROVE r \in Cloned'
        OBVIOUS
      <4>1. hand[w] \in Repos \X (1..Calls)
        BY <2>2, RepoOfHand DEF TaskRecords
      <4>2. PICK s \in Repos, c \in 1..Calls : hand[w] = <<s, c>>
        BY <4>1
      <4>3. outcome'[w] = "ok" /\ hand'[w] = hand[w]
        BY <2>2 DEF TaskRecords, pool, vars, LoopInv, ManagerTypeOK
      <4>4. r = s
        BY <4>2 DEF RepoOf
      <4> HIDE DEF r
      <4> QED BY <4>2, <4>3, <4>4 DEF Real, Cloned
    <3> HIDE DEF r, res
    <3>4. CASE /\ stored' = stored /\ Len(channel') = Len(channel) + 1
               /\ channel'[Len(channel) + 1] = res
               /\ \A k \in 1..Len(channel) : channel'[k] = channel[k]
      <4>1. Len(channel) \in Nat
        BY <1>0
      <4>2. \A k \in 1..Len(channel') : channel'[k].verdict = "ok" => channel'[k].repo \in Cloned'
        <5> SUFFICES ASSUME NEW k \in 1..Len(channel'), channel'[k].verdict = "ok"
                     PROVE  channel'[k].repo \in Cloned'
          OBVIOUS
        <5>1. CASE k = Len(channel) + 1
          BY <3>1, <3>3, <3>4, <5>1
        <5>2. CASE k # Len(channel) + 1
          <6>1. k \in 1..Len(channel) /\ channel'[k] = channel[k]
            BY <3>4, <4>1, <5>2
          <6> QED BY <1>1, <6>1
        <5> QED BY <5>1, <5>2
      <4>3. /\ \A c \in 1..Calls : collecting'[c].verdict = "ok" => collecting'[c].repo \in Cloned'
            /\ \A s \in Repos : stored'[s] = "ok" => s \in Cloned'
        BY <1>1, <3>2, <3>4
      <4> QED BY <1>2, <4>2, <4>3 DEF SuccessInv
    <3>5. CASE /\ channel' = channel /\ stored'[r] = verdict
               /\ \A s \in Repos : s # r => stored'[s] = stored[s]
      <4>1. /\ \A c \in 1..Calls : collecting'[c].verdict = "ok" => collecting'[c].repo \in Cloned'
            /\ \A k \in 1..Len(channel') : channel'[k].verdict = "ok" => channel'[k].repo \in Cloned'
        BY <1>1, <3>2, <3>5
      <4>2. \A s \in Repos : stored'[s] = "ok" => s \in Cloned'
        BY <1>1, <3>3, <3>5
      <4> QED BY <1>2, <4>1, <4>2 DEF SuccessInv
    <3> QED BY <3>1, <3>2, <3>4, <3>5, Records
  <2> QED BY <1>4, <2>1, <2>2 DEF Task
<1>5. ASSUME NEW c \in 1..Calls, Collector(c) PROVE SuccessInv'
  <2>1. CASE CollectorReceives(c)
    <3>1. /\ stored' = stored
          /\ Len(channel) >= 1 /\ channel' \in Seq(Outgoing) /\ Len(channel') = Len(channel) - 1
          /\ \A k \in 1..Len(channel') : channel'[k] = channel[k + 1]
          /\ collecting' = [collecting EXCEPT ![c] = channel[1]]
      BY <1>0, <2>1 DEF CollectorReceives
    <3>2. \A k \in 1..Len(channel') : channel'[k].verdict = "ok" => channel'[k].repo \in Cloned'
      <4> SUFFICES ASSUME NEW k \in 1..Len(channel'), channel'[k].verdict = "ok"
                   PROVE  channel'[k].repo \in Cloned'
        OBVIOUS
      <4>1. k + 1 \in 1..Len(channel) /\ channel'[k] = channel[k + 1]
        BY <1>0, <3>1
      <4> QED BY <1>1, <4>1
    <3>3. \A d \in 1..Calls : collecting'[d].verdict = "ok" => collecting'[d].repo \in Cloned'
      <4> SUFFICES ASSUME NEW d \in 1..Calls, collecting'[d].verdict = "ok"
                   PROVE  collecting'[d].repo \in Cloned'
        OBVIOUS
      <4>1. CASE d = c
        <5>1. collecting'[d] = channel[1] /\ 1 \in 1..Len(channel)
          BY <1>0, <3>1, <4>1
        <5> QED BY <1>1, <5>1
      <4>2. CASE d # c
        <5>1. collecting'[d] = collecting[d]
          BY <1>0, <3>1, <4>2
        <5> QED BY <1>1, <5>1
      <4> QED BY <4>1, <4>2
    <3>4. \A r \in Repos : stored'[r] = "ok" => r \in Cloned'
      BY <1>1, <3>1
    <3> QED BY <1>2, <3>2, <3>3, <3>4 DEF SuccessInv
  <2>2. CASE CollectorStores(c)
    <3>1. /\ channel' = channel
          /\ stored' = [stored EXCEPT ![collecting[c].repo] = collecting[c].verdict]
          /\ collecting' = [collecting EXCEPT ![c] = NoResult]
      BY <2>2 DEF CollectorStores, StoreAs
    <3>2. \A k \in 1..Len(channel') : channel'[k].verdict = "ok" => channel'[k].repo \in Cloned'
      BY <1>1, <3>1
    <3>3. \A d \in 1..Calls : collecting'[d].verdict = "ok" => collecting'[d].repo \in Cloned'
      <4> SUFFICES ASSUME NEW d \in 1..Calls, collecting'[d].verdict = "ok"
                   PROVE  collecting'[d].repo \in Cloned'
        OBVIOUS
      <4>1. d # c
        BY <1>0, <3>1 DEF NoResult
      <4>2. collecting'[d] = collecting[d]
        BY <1>0, <3>1, <4>1
      <4> QED BY <1>1, <4>2
    <3>4. \A r \in Repos : stored'[r] = "ok" => r \in Cloned'
      <4> SUFFICES ASSUME NEW r \in Repos, stored'[r] = "ok" PROVE r \in Cloned'
        OBVIOUS
      <4>1. CASE r = collecting[c].repo
        <5>1. collecting[c].verdict = "ok"
          BY <1>0, <3>1, <4>1
        <5> QED BY <1>1, <4>1, <5>1
      <4>2. CASE r # collecting[c].repo
        <5>1. stored'[r] = stored[r]
          BY <1>0, <3>1, <4>2
        <5> QED BY <1>1, <5>1
      <4> QED BY <4>1, <4>2
    <3> QED BY <1>2, <3>2, <3>3, <3>4 DEF SuccessInv
  <2> QED BY <1>5, <2>1, <2>2 DEF Collector
<1> QED BY <1>3, <1>4, <1>5, ResultsMove

\* No result disappears: a collector receives one only when it has stored the last.
LEMMA RecordedStays ==
  ASSUME Inv, LoopInv, [ManagerNext]_mvars PROVE Recorded \subseteq Recorded'
<1>0. /\ channel \in Seq(Outgoing) /\ collecting \in [1..Calls -> {NoResult} \cup Outgoing]
      /\ stored \in [Repos -> {"none", "ok", "failed"}]
  BY DEF LoopInv, ManagerTypeOK, Outgoing
<1>1. CASE UNCHANGED <<channel, collecting, stored>>
  BY <1>1 DEF Recorded
<1>2. ASSUME NEW w \in Workers, Task(w) PROVE Recorded \subseteq Recorded'
  <2>1. CASE TaskReturns(w)
    BY <1>1, <2>1 DEF TaskReturns
  <2>2. ASSUME NEW verdict \in {"ok", "failed"}, TaskRecords(w, verdict)
        PROVE  Recorded \subseteq Recorded'
    <3> DEFINE res == Result(RepoOf(hand[w]), verdict)
    <3>1. res \in Outgoing /\ res.verdict # "none" /\ RecordResult(res)
      BY <2>2, RepoOfHand DEF TaskRecords, Result, Outgoing
    <3>2. collecting' = collecting
      BY <2>2 DEF TaskRecords
    <3> HIDE DEF res
    <3>3. (\A k \in 1..Len(channel) : k \in 1..Len(channel') /\ channel'[k] = channel[k])
          /\ (\A r \in Repos : stored[r] # "none" => stored'[r] # "none")
      <4>1. \/ /\ stored' = stored /\ Len(channel') = Len(channel) + 1
               /\ \A k \in 1..Len(channel) : channel'[k] = channel[k]
            \/ /\ channel' = channel /\ stored'[res.repo] = res.verdict
               /\ \A r \in Repos : r # res.repo => stored'[r] = stored[r]
        BY <3>1, Records
      <4>2. Len(channel) \in Nat
        BY <1>0
      <4>3. CASE /\ stored' = stored /\ Len(channel') = Len(channel) + 1
                 /\ \A k \in 1..Len(channel) : channel'[k] = channel[k]
        BY <4>2, <4>3
      <4>4. CASE /\ channel' = channel /\ stored'[res.repo] = res.verdict
                 /\ \A r \in Repos : r # res.repo => stored'[r] = stored[r]
        BY <3>1, <4>4
      <4> QED BY <4>1, <4>3, <4>4
    <3> QED BY <3>2, <3>3 DEF Recorded
  <2> QED BY <1>2, <2>1, <2>2 DEF Task
<1>3. ASSUME NEW c \in 1..Calls, Collector(c) PROVE Recorded \subseteq Recorded'
  <2>1. CASE CollectorReceives(c)
    <3>1. /\ stored' = stored
          /\ channel' \in Seq(Outgoing) /\ Len(channel') = Len(channel) - 1
          /\ \A k \in 1..Len(channel') : channel'[k] = channel[k + 1]
          /\ collecting[c] = NoResult /\ collecting' = [collecting EXCEPT ![c] = channel[1]]
          /\ channel[1] \in Outgoing
      BY <1>0, <2>1 DEF CollectorReceives
    <3>2. collecting'[c] = channel[1] /\ collecting'[c] # NoResult
      BY <1>0, <3>1 DEF Outgoing, NoResult
    <3>3. \A d \in 1..Calls : collecting[d] # NoResult => collecting'[d] = collecting[d]
      BY <1>0, <3>1
    <3>4. ASSUME NEW k \in 1..Len(channel)
          PROVE  \/ \E i \in 1..Len(channel') : channel'[i] = channel[k]
                 \/ collecting'[c] = channel[k]
      <4>1. CASE k = 1
        BY <3>2, <4>1
      <4>2. CASE k # 1
        <5>1. k - 1 \in 1..Len(channel') /\ channel'[k - 1] = channel[k]
          BY <1>0, <3>1, <4>2
        <5> QED BY <5>1
      <4> QED BY <4>1, <4>2
    <3>5. ASSUME NEW r \in Repos, NEW k \in 1..Len(channel), channel[k].repo = r
          PROVE  \/ \E i \in 1..Len(channel') : channel'[i].repo = r
                 \/ collecting'[c].repo = r /\ collecting'[c] # NoResult
      BY <3>2, <3>4, <3>5
    <3>6. ASSUME NEW r \in Repos, NEW d \in 1..Calls, collecting[d].repo = r, collecting[d] # NoResult
          PROVE  collecting'[d].repo = r /\ collecting'[d] # NoResult
      BY <3>3, <3>6
    <3>7. \A r \in Repos : stored[r] # "none" => stored'[r] # "none"
      BY <3>1
    <3> QED BY <3>5, <3>6, <3>7 DEF Recorded
  <2>2. CASE CollectorStores(c)
    <3>1. /\ channel' = channel /\ collecting[c] # NoResult
          /\ stored' = [stored EXCEPT ![collecting[c].repo] = collecting[c].verdict]
          /\ collecting' = [collecting EXCEPT ![c] = NoResult]
      BY <2>2 DEF CollectorStores, StoreAs
    <3>2. collecting[c].verdict # "none"
      BY <1>0, <3>1 DEF Outgoing
    <3>3. \A r \in Repos : stored[r] # "none" \/ r = collecting[c].repo => stored'[r] # "none"
      BY <1>0, <3>1, <3>2
    <3>4. \A d \in 1..Calls : d # c => collecting'[d] = collecting[d]
      BY <1>0, <3>1
    <3> QED BY <3>1, <3>3, <3>4 DEF Recorded
  <2> QED BY <1>3, <2>1, <2>2 DEF Collector
<1> QED BY <1>1, <1>2, <1>3, ResultsMove

\* Only a task that returns settles a job.
LEMMA SettledByTask ==
  ASSUME Inv, LoopInv, [ManagerNext]_mvars, NEW j \in Jobs, status'[j] \in Terminal, status[j] \notin Terminal
  PROVE  \E w \in Workers : TaskReturns(w) /\ j = hand[w]
<1>0. status \in [Jobs -> Statuses] /\ Jobs = Repos \X (1..Calls)
  BY DEF Inv, TypeInv, TypeOK
<1>1. status' # status
  OBVIOUS
<1>2. CASE Caller
  <2>1. status' = status \/ \E k \in Jobs : status' = [status EXCEPT ![k] = "pending"]
    <3>1. CASE CallCloneRepositories
      BY <3>1 DEF CallCloneRepositories, CallWith, Start
    <3>2. CASE SubmitNext \/ GiveUpRepo \/ SubmitAgain \/ SubmitCrashes
      <4>1. at = "submit" /\ SubmitCounts(JobOf(todo[next]))
        BY <3>2 DEF SubmitNext, SubmitAccepted, GiveUpRepo, SubmitFails, SubmitAgain, SubmitCrashes,
                    SubmitRefused, SubmitPanics
      <4> QED BY <4>1, JobToSubmit DEF SubmitCounts
    <3>3. CASE StopPool \/ StartBatch \/ LeaveSpace \/ LeaveWait \/ CollectResult \/ CollectDone
      BY <3>3 DEF StopPool, StopCancel, StopClose, StopFinish, StopUnchanged, StartBatch, LeaveSpace,
                  LeaveWait, CollectResult, CollectAs, CollectDone, pool, vars
    <3> QED BY <1>2, <3>1, <3>2, <3>3 DEF Caller
  <2> QED BY <1>0, <1>1, <2>1 DEF Terminal
<1>3. ASSUME NEW v \in Workers, Task(v) PROVE TaskReturns(v) /\ j = hand[v]
  <2>1. TaskReturns(v)
    BY <1>1, <1>3 DEF Task, TaskRecords, pool, vars
  <2>2. j = hand[v]
    BY <2>1, TaskReturnsFacts
  <2> QED BY <2>1, <2>2
<1>4. ASSUME NEW d \in 1..Calls, Collector(d) PROVE FALSE
  BY <1>1, <1>4 DEF Collector, CollectorReceives, CollectorStores, StoreAs, pool, vars
<1>5. ~DeadlineExpires /\ ~UNCHANGED mvars
  BY <1>1 DEF DeadlineExpires, pool, mvars, vars
<1>6. ~PoolRuns
  BY PoolRunsFacts
<1> QED BY <1>2, <1>3, <1>4, <1>5, <1>6 DEF ManagerNext, ManagerStep, ManagerTerminated

LEMMA StepResult ==
  ASSUME Inv, LoopInv, RecordedInBody, ResultInv, [ManagerNext]_mvars PROVE ResultInv'
<1>0. status \in [Jobs -> Statuses] /\ outcome \in [Workers -> {"none", "ok", "failed"}]
      /\ channel \in Seq(Outgoing) /\ Jobs = Repos \X (1..Calls)
  BY DEF Inv, TypeInv, TypeOK, LoopInv, ManagerTypeOK
<1>1. /\ \A w \in Workers : outcome[w] # "none" => RepoOf(hand[w]) \in Recorded'
      /\ \A j \in Jobs : status[j] \in Terminal => RepoOf(j) \in Recorded'
  BY RecordedStays DEF ResultInv
<1>2. \A w \in Workers : outcome'[w] # "none" => RepoOf(hand'[w]) \in Recorded'
  <2> SUFFICES ASSUME NEW w \in Workers, outcome'[w] # "none" PROVE RepoOf(hand'[w]) \in Recorded'
    OBVIOUS
  <2>1. CASE outcome[w] # "none" /\ hand'[w] = hand[w]
    <3>1. RepoOf(hand'[w]) = RepoOf(hand[w])
      BY <2>1 DEF RepoOf
    <3> QED BY <1>1, <2>1, <3>1
  <2>2. CASE Caller
    BY <2>1, <2>2, CallerFacts
  <2>3. ASSUME NEW v \in Workers, Task(v) PROVE RepoOf(hand'[w]) \in Recorded'
    <3>1. hand' = hand
      BY <2>3, TaskReturnsFacts DEF Task, TaskRecords, pool, vars
    <3>2. CASE outcome'[w] = outcome[w]
      BY <2>1, <3>1, <3>2
    <3>3. CASE outcome'[w] # outcome[w]
      <4>1. w = v /\ (TaskRecords(w, "ok") \/ TaskRecords(w, "failed"))
        BY <1>0, <2>3, <3>3 DEF Task, TaskRecords, TaskReturns
      <4>2. ASSUME NEW verdict \in {"ok", "failed"}, TaskRecords(w, verdict)
            PROVE  RepoOf(hand[w]) \in Recorded'
        <5> DEFINE r == RepoOf(hand[w])
                   res == Result(r, verdict)
        <5>1. res \in Outgoing /\ res.repo = r /\ res.verdict # "none" /\ r \in Repos
              /\ RecordResult(res) /\ res.verdict = verdict
          BY <4>2, RepoOfHand DEF TaskRecords, Result, Outgoing
        <5> HIDE DEF r, res
        <5>2. \/ /\ Len(channel) + 1 \in 1..Len(channel') /\ channel'[Len(channel) + 1].repo = r
              \/ stored'[r] # "none"
          BY <1>0, <5>1, Records
        <5>3. r \in Recorded'
          BY <5>1, <5>2 DEF Recorded
        <5> QED BY <5>3 DEF r
      <4> QED BY <3>1, <4>1, <4>2
    <3> QED BY <3>2, <3>3
  <2>4. ASSUME NEW d \in 1..Calls, Collector(d) PROVE RepoOf(hand'[w]) \in Recorded'
    BY <2>1, <2>4 DEF Collector, CollectorReceives, CollectorStores, StoreAs, pool, vars
  <2>5. CASE DeadlineExpires
    BY <2>1, <2>5 DEF DeadlineExpires, results, pool, vars
  <2>6. CASE PoolRuns
    <3>1. outcome'[w] = outcome[w]
      BY <2>6 DEF PoolRuns, results
    <3>2. pc[w] = "running"
      BY <3>1 DEF RecordedInBody
    <3> QED BY <2>1, <2>6, <3>1, <3>2, PoolRunsFacts
  <2>7. CASE UNCHANGED mvars
    BY <2>1, <2>7 DEF mvars, vars, results
  <2> QED BY <2>2, <2>3, <2>4, <2>5, <2>6, <2>7 DEF ManagerNext, ManagerStep, ManagerTerminated
<1>3. \A j \in Jobs : status'[j] \in Terminal => RepoOf(j) \in Recorded'
  <2> SUFFICES ASSUME NEW j \in Jobs, status'[j] \in Terminal PROVE RepoOf(j) \in Recorded'
    OBVIOUS
  <2>1. CASE status[j] \in Terminal
    BY <1>1, <2>1
  <2>2. CASE status[j] \notin Terminal
    <3>1. PICK w \in Workers : TaskReturns(w) /\ j = hand[w]
      BY <2>2, SettledByTask
    <3> QED BY <1>1, <3>1, TaskReturnsFacts
  <2> QED BY <2>1, <2>2
<1> QED BY <1>2, <1>3 DEF ResultInv
-----------------------------------------------------------------------------
(***************************************************************************)
(* What the end of the wait means.                                         *)
(***************************************************************************)

\* The counters are the pool's and go on from call to call, but a second call has no jobs
\* accepted: whenever submitted is positive, the jobs of this call are all there are.
LEMMA AllCompletedIsReal ==
  ASSUME ManagerInv, at # "main", AllCompleted
  PROVE  queue = <<>> /\ retriers = {} /\ \A j \in accepted : status[j] \in Terminal
<1>0. submitted = Cardinality(OfCall) /\ submitted > 0 /\ completed + failed >= submitted
      /\ (\A j \in accepted : j[2] = 1)
  BY DEF ManagerInv, SubmittedIsAccepted, OfCall, AllCompleted, FirstCallOnly
<1>1. OfCall # {}
  <2>1. Cardinality({}) = 0
    BY FS_EmptySet
  <2>2. Cardinality(OfCall) # 0
    BY <1>0
  <2> QED BY <2>1, <2>2
<1>2. OfCall = accepted
  BY <1>0, <1>1 DEF OfCall
<1>3. AllCountedMeansIdle
  BY CountedIsIdle DEF ManagerInv
<1> QED BY <1>0, <1>2, <1>3 DEF AllCountedMeansIdle

\* A deadline that has passed stays passed.
LEMMA DeadlineStays == [ManagerNext]_mvars => (deadline => deadline')
<1> SUFFICES ASSUME [ManagerNext]_mvars PROVE deadline => deadline'
  OBVIOUS
<1>1. CASE Caller
  BY <1>1, CallerFacts
<1>2. ASSUME NEW w \in Workers, Task(w) PROVE deadline' = deadline
  BY <1>2 DEF Task, TaskRecords, TaskReturns
<1>3. ASSUME NEW c \in 1..Calls, Collector(c) PROVE deadline' = deadline
  BY <1>3 DEF Collector, CollectorReceives, CollectorStores, StoreAs
<1>4. CASE DeadlineExpires \/ PoolRuns \/ UNCHANGED mvars
  BY <1>4 DEF DeadlineExpires, PoolRuns, mvars
<1> QED BY <1>1, <1>2, <1>3, <1>4 DEF ManagerNext, ManagerStep, ManagerTerminated

LEMMA StepWait == ASSUME ManagerInv, [ManagerNext]_mvars PROVE WaitInv'
<1>0. Inv /\ LoopInv /\ WaitInv
  BY DEF ManagerInv
<1> SUFFICES ASSUME at' = "collect", ~deadline', NEW j \in accepted', j[2] = call'
             PROVE  status'[j] \in Terminal
  BY DEF WaitInv
<1>1. CASE LeaveWait
  <2>1. UNCHANGED <<accepted, status, call, deadline>> /\ at = "wait"
    BY <1>1 DEF LeaveWait, pool, vars
  <2>2. CASE AllCompleted
    BY <2>1, <2>2, AllCompletedIsReal
  <2>3. CASE NoneSubmitted
    <3>1. Cardinality(OfCall) = 0
      BY <2>1, <2>3 DEF NoneSubmitted, ManagerInv, SubmittedIsAccepted, OfCall
    <3>2. OfCall = {}
      BY <1>0, <3>1, OfCallFinite, FS_EmptySet
    <3> QED BY <2>1, <3>2 DEF OfCall
  <2> QED BY <1>1, <2>1, <2>2, <2>3 DEF LeaveWait
<1>2. CASE at = "collect" /\ UNCHANGED <<accepted, call>> /\ ~deadline
  <2>1. j \in Jobs /\ status[j] \in Terminal
    BY <1>0, <1>2 DEF WaitInv, Inv, TypeInv, TypeOK
  <2> QED BY <1>0, <2>1, TerminalStays
<1>3. deadline => deadline'
  BY DeadlineStays
<1>4. CASE ~Caller
  BY <1>0, <1>2, <1>3, <1>4, OnlyTheCaller DEF batch
<1>5. CASE CollectResult
  BY <1>2, <1>3, <1>5 DEF CollectResult, CollectAs, pool, vars
<1>6. ASSUME Caller, ~LeaveWait, ~CollectResult PROVE FALSE
  BY <1>6 DEF Caller, CallCloneRepositories, CallWith, SubmitNext, GiveUpRepo, SubmitFails, SubmitAgain,
     SubmitCrashes, StartBatch, LeaveSpace, CollectDone, NextRepo, StopPool
<1> QED BY <1>1, <1>4, <1>5, <1>6

LEMMA StepManager == ManagerInv /\ [ManagerNext]_mvars => ManagerInv'
<1> SUFFICES ASSUME ManagerInv, [ManagerNext]_mvars PROVE ManagerInv'
  OBVIOUS
<1>0. /\ Inv /\ CountersMatchStatuses /\ LoopInv /\ FirstCallOnly /\ SubmittedIsAccepted
      /\ RecordedInBody /\ SuccessInv /\ ResultInv
  BY DEF ManagerInv
<1>1. Inv' /\ CountersMatchStatuses'
  BY <1>0, PoolStep, StepInv, StepCounts
<1>2. LoopInv' /\ FirstCallOnly' /\ SubmittedIsAccepted'
  BY <1>0, StepLoop, StepFirstCall, StepSubmitted
<1>3. RecordedInBody' /\ SuccessInv' /\ ResultInv' /\ WaitInv'
  BY <1>0, StepInBody, StepSuccess, StepResult, StepWait
<1> QED BY <1>1, <1>2, <1>3 DEF ManagerInv

\* Every behaviour of the manager is one of the pool: what is proved of Spec -- one owner,
\* exact counters, final statuses, no silent loss -- holds under a bulk clone.
THEOREM ManagerRunsPool == ManagerSpec => Spec
<1>1. ManagerInit => Init
  BY DEF ManagerInit
<1>2. ManagerInv => LoopInv
  BY DEF ManagerInv
<1> QED BY <1>1, <1>2, InitManager, StepManager, PoolStep, PTL DEF ManagerSpec, Spec

\* So in a bulk clone, too, no job is in two places, its final status is final, and accepted
\* jobs are tried, completed and failed the way the ledger says.
THEOREM ManagerKeepsLedger ==
  ManagerSpec => []SingleOwner /\ FinalStatusIsFinal /\ ImplementsLedger
BY ManagerRunsPool, OneOwner, FinalStatusStays, PoolImplementsLedger, PTL

\* The loop variable stays within the list, submittedJobs never exceeds it, and m.results
\* keeps to its capacity.
THEOREM ManagerTypeCorrect == ManagerSpec => []ManagerTypeOK
<1>1. ManagerInv => ManagerTypeOK
  BY DEF ManagerInv, LoopInv
<1> QED BY <1>1, InitManager, StepManager, PTL DEF ManagerSpec

\* No repository is reported as cloned unless one of its jobs has completed, or its task is
\* about to return nil: neither the channel, its overflow into the map, a collector nor a
\* second call makes a success up.
THEOREM SuccessIsReal == ManagerSpec => []ReportedSuccessIsReal
<1>1. ManagerInv => ReportedSuccessIsReal
  BY DEF ManagerInv, SuccessInv, Cloned, Real, ReportedSuccessIsReal
<1> QED BY <1>1, InitManager, StepManager, PTL DEF ManagerSpec

\* The number the wait compares the counters with is that of the jobs the pool took.
THEOREM SubmittedCount == ManagerSpec => []SubmittedIsAccepted
<1>1. ManagerInv => SubmittedIsAccepted
  BY DEF ManagerInv
<1> QED BY <1>1, InitManager, StepManager, PTL DEF ManagerSpec

\* When waitForCompletion finds all jobs completed, none is queued, running or to be retried,
\* in the first call as in the later ones.
THEOREM WaitEndsWhenDone == ManagerSpec => CompletionIsReal
<1>1. ManagerInv =>
        [LeaveWait /\ AllCompleted =>
           /\ \A j \in accepted : j[2] = call => status[j] \in Terminal
           /\ queue = <<>> /\ retriers = {}]_mvars
  BY AllCompletedIsReal DEF LeaveWait
<1> QED BY <1>1, InitManager, StepManager, PTL DEF ManagerSpec, CompletionIsReal

\* A repository is reported as not processed only if the pool refused it, the time was up,
\* or its result is still on the way into the map.
THEOREM UnprocessedIsExplained == ManagerSpec => UnprocessedHasAReason
<1>1. ManagerInv /\ [ManagerNext]_mvars =>
        [\A r \in Repos : report'[r] = "unprocessed" /\ report[r] # "unprocessed" =>
           JobOf(r) \notin accepted \/ deadline \/ InTransit(r)]_mvars
  <2> SUFFICES ASSUME ManagerInv, [ManagerNext]_mvars, NEW r \in Repos,
                      report'[r] = "unprocessed", report[r] # "unprocessed",
                      JobOf(r) \in accepted, ~deadline
               PROVE  InTransit(r)
    OBVIOUS
  <2>0. Inv /\ LoopInv /\ WaitInv /\ ResultInv
    BY DEF ManagerInv
  <2>1. CollectResult
    BY <2>0, CallerFacts, OnlyTheCaller
  <2>2. at = "collect" /\ stored[r] \in {"none", "unprocessed"}
    BY <2>0, <2>1 DEF CollectResult, CollectAs, LoopInv, ManagerTypeOK
  <2>3. stored[r] = "none"
    BY <2>0, <2>2 DEF LoopInv, ManagerTypeOK
  <2>4. JobOf(r) \in Jobs /\ JobOf(r)[2] = call /\ RepoOf(JobOf(r)) = r
    BY <2>0 DEF JobOf, RepoOf, Inv, TypeInv, TypeOK
  <2>5. r \in Recorded
    BY <2>0, <2>2, <2>4 DEF WaitInv, ResultInv
  <2> QED BY <2>3, <2>5 DEF Recorded, InTransit
<1> QED BY <1>1, InitManager, StepManager, PTL DEF ManagerSpec, UnprocessedHasAReason
-----------------------------------------------------------------------------
(***************************************************************************)
(* The results of a repository stay in order.  A job that fails and is     *)
(* retried records a result at every attempt, so several of one repository *)
(* may be under way: the latest is the last of them in the channel, or     *)
(* else the one the collector has, or else the stored one.                 *)
(***************************************************************************)
LatestIs(r, verdict) ==
  \/ \E k \in 1..Len(channel) :
       /\ channel[k] = Result(r, verdict)
       /\ \A l \in 1..Len(channel) : channel[l].repo = r => l <= k
  \/ /\ \A k \in 1..Len(channel) : channel[k].repo # r
     /\ \/ collecting[1] = Result(r, verdict)
        \/ collecting[1].repo # r /\ stored[r] = verdict
        \/ collecting[1] = NoResult /\ stored[r] = verdict

\* The job runs an attempt that has not recorded its result yet.
Unrecorded(j) == \E w \in Workers : hand[w] = j /\ pc[w] = "running" /\ outcome[w] = "none"

\* The pairs of r and n such that the n-th attempt at r has had its time to record a result.
Past ==
  {p \in Repos \X (Nat \ {0}) :
     /\ p[2] <= attempts[<<p[1], 1>>]
     /\ Unrecorded(<<p[1], 1>>) => p[2] < attempts[<<p[1], 1>>]}

\* The number of the attempt each result in the channel comes from: no two of a repository
\* come from the same, so the limit of attempts bounds how many there are.
Stamped(stamp) ==
  /\ \A k \in 1..Len(channel) : <<channel[k].repo, stamp[k]>> \in Past
  /\ \A k, l \in 1..Len(channel) :
       channel[k].repo = channel[l].repo /\ stamp[k] = stamp[l] => k = l

StampInv ==
  /\ \E stamp \in [1..Len(channel) -> Nat] : Stamped(stamp)
  /\ \A c \in 1..Calls : collecting[c] # NoResult => <<collecting[c].repo, 1>> \in Past /\ c <= call

Roomy == QueueSize >= Cardinality(Repos) * ConfigMaxRetries

FinalVerdict(j) == IF status[j] = "completed" THEN "ok" ELSE "failed"

LatestInv ==
  call <= 1 =>
    /\ \A w \in Workers : outcome[w] # "none" => LatestIs(RepoOf(hand[w]), outcome[w])
    /\ \A j \in Jobs : status[j] \in Terminal /\ j[2] = 1 => LatestIs(RepoOf(j), FinalVerdict(j))

OrderInv == ManagerInv /\ AttemptInv /\ StampInv /\ (Roomy => LatestInv)

LEMMA ReposFinite == IsFiniteSet(Repos) /\ Cardinality(Repos) \in Nat
<1> DEFINE f == [r \in Repos |-> <<r, 1>>]
<1>1. f \in Injection(Repos, Jobs)
  BY DEF Injection, IsInjective
<1> HIDE DEF f
<1>2. IsFiniteSet(Repos)
  BY <1>1, JobsAssumption, FS_Injection
<1> QED BY <1>2, FS_CardinalityType

\* A job begins an attempt, or has as many as before, none of them newly at work.
LEMMA AttemptsMove ==
  ASSUME ManagerInv, [ManagerNext]_mvars, NEW j \in Jobs
  PROVE  \/ attempts'[j] = attempts[j] + 1
         \/ attempts'[j] = attempts[j] /\ (Unrecorded(j)' => Unrecorded(j))
<1>0. /\ pc \in [Workers -> WorkerPCs] /\ hand \in [Workers -> Jobs \cup {NoJob}]
      /\ attempts \in [Jobs -> Nat] /\ outcome \in [Workers -> {"none", "ok", "failed"}]
      /\ Inv /\ LoopInv /\ RecordedInBody
  BY DEF ManagerInv, Inv, TypeInv, TypeOK, LoopInv, ManagerTypeOK
<1> DEFINE Working(w) == hand[w] = j /\ pc[w] = "running" /\ outcome[w] = "none"
<1>1. ASSUME attempts'[j] = attempts[j], \A w \in Workers : Working(w)' => Working(w)
      PROVE  attempts'[j] = attempts[j] /\ (Unrecorded(j)' => Unrecorded(j))
  BY <1>1 DEF Unrecorded
<1>2. CASE Caller
  <2>1. UNCHANGED <<attempts, hand, outcome>> /\ (UNCHANGED pc \/ Start)
    BY <1>2, CallerFacts
  <2>2. Start => \A w \in Workers : pc'[w] # "running"
    BY DEF Start
  <2> QED BY <1>1, <2>1, <2>2
<1>3. ASSUME NEW v \in Workers, NEW verdict \in {"ok", "failed"}, TaskRecords(v, verdict)
      PROVE  attempts'[j] = attempts[j] /\ (Unrecorded(j)' => Unrecorded(j))
  <2>1. UNCHANGED <<attempts, hand, pc>> /\ outcome' = [outcome EXCEPT ![v] = verdict]
    BY <1>3 DEF TaskRecords, pool, vars
  <2>2. \A w \in Workers : outcome'[w] = "none" => outcome[w] = "none"
    BY <1>0, <2>1
  <2> QED BY <1>1, <2>1, <2>2
<1>4. ASSUME NEW v \in Workers, TaskReturns(v)
      PROVE  attempts'[j] = attempts[j] /\ (Unrecorded(j)' => Unrecorded(j))
  <2>1. PICK st, place : Executed(v, st, place) /\ place \in {"countOk", "retry", "countFail"}
    BY <1>4 DEF TaskReturns, ExecuteSucceeds, ExecuteFails
  <2>2. UNCHANGED <<attempts, hand>> /\ pc'[v] # "running" /\ outcome' = [outcome EXCEPT ![v] = "none"]
        /\ \A w \in Workers \ {v} : pc'[w] = pc[w]
    BY <1>0, <1>4, <2>1 DEF Executed, Goto, TaskReturns
  <2>3. \A w \in Workers \ {v} : outcome'[w] = outcome[w]
    BY <1>0, <2>2
  <2> QED BY <1>1, <2>2, <2>3
<1>5. CASE UNCHANGED <<attempts, hand, pc, outcome>>
  BY <1>1, <1>5
<1>6. ASSUME NEW w \in Workers, BeginJob(w), outcome' = outcome
      PROVE  \/ attempts'[j] = attempts[j] + 1
             \/ attempts'[j] = attempts[j] /\ (Unrecorded(j)' => Unrecorded(j))
  <2>1. /\ attempts' = [attempts EXCEPT ![hand[w]] = @ + 1] /\ hand' = hand
        /\ \A v \in Workers \ {w} : pc'[v] = pc[v]
    BY <1>0, <1>6 DEF BeginJob, Goto
  <2>2. CASE hand[w] = j
    BY <1>0, <2>1, <2>2
  <2>3. CASE hand[w] # j
    BY <1>0, <1>1, <1>6, <2>1, <2>3
  <2> QED BY <2>2, <2>3
<1>7. ASSUME NEW w \in Workers, outcome' = outcome,
             \/ WorkerTakes(w) \/ WorkerExits(w) \/ ScheduleRetry(w)
             \/ CountResult(w) \/ SendResult(w) \/ LeaveJob(w)
      PROVE  attempts'[j] = attempts[j] /\ (Unrecorded(j)' => Unrecorded(j))
  <2>1. /\ attempts' = attempts /\ pc'[w] # "running"
        /\ \A v \in Workers \ {w} : pc'[v] = pc[v] /\ hand'[v] = hand[v]
    BY <1>0, <1>7 DEF WorkerTakes, WorkerExits, ScheduleRetry, SpawnRetrier, CountResult,
                CountWhen, SendResult, LeaveJob, HandOver, Goto
  <2> QED BY <1>1, <1>7, <2>1
<1>8. ASSUME NEW r \in retriers, Retrier(r) PROVE UNCHANGED <<attempts, hand, pc>>
  BY <1>8 DEF Retrier, TimerFires, RetryCancelled, ReadStopped, ResetStatus, RetryQueued,
              RetryDropped, RetryPanics, RetryUnchanged
<1>9. ASSUME ProcessResult \/ ProcessorExits PROVE UNCHANGED <<attempts, hand, pc>>
  BY <1>9 DEF ProcessResult, ProcessorExits
<1>10. CASE PoolRuns
  <2>1. outcome' = outcome
    BY <1>10 DEF PoolRuns, results
  <2> QED BY <1>5, <1>6, <1>7, <1>8, <1>9, <1>10, <2>1 DEF PoolRuns
<1>11. ASSUME NEW c \in 1..Calls, Collector(c) PROVE UNCHANGED <<attempts, hand, pc, outcome>>
  BY <1>11 DEF Collector, CollectorReceives, CollectorStores, StoreAs, pool, vars
<1>12. CASE DeadlineExpires \/ UNCHANGED mvars
  BY <1>5, <1>12 DEF DeadlineExpires, results, pool, mvars, vars
<1> QED BY <1>2, <1>3, <1>4, <1>5, <1>10, <1>11, <1>12
        DEF ManagerNext, ManagerStep, ManagerTerminated, Task

LEMMA FirstIsPast ==
  ASSUME Inv, NEW r, NEW n, <<r, n>> \in Past
  PROVE  r \in Repos /\ <<r, 1>> \in Past
<1>1. r \in Repos /\ n \in Nat \ {0} /\ <<r, 1>> \in Jobs
  BY DEF Past
<1>2. attempts[<<r, 1>>] \in Nat
  BY <1>1 DEF Inv, TypeInv, TypeOK
<1>3. n <= attempts[<<r, 1>>] /\ (Unrecorded(<<r, 1>>) => n < attempts[<<r, 1>>])
  BY DEF Past
<1>4. 1 <= attempts[<<r, 1>>] /\ (Unrecorded(<<r, 1>>) => 1 < attempts[<<r, 1>>])
  BY <1>1, <1>2, <1>3
<1>5. PICK m : m = 1
  OBVIOUS
<1>6. m \in Nat \ {0} /\ m <= attempts[<<r, 1>>] /\ (Unrecorded(<<r, 1>>) => m < attempts[<<r, 1>>])
  BY <1>4, <1>5
<1>7. <<r, m>> \in Past
  BY <1>1, <1>6 DEF Past
<1> QED BY <1>1, <1>5, <1>7

LEMMA PastStays == ManagerInv /\ [ManagerNext]_mvars => Past \subseteq Past'
<1> SUFFICES ASSUME ManagerInv, [ManagerNext]_mvars, NEW r \in Repos, NEW n \in Nat \ {0},
                    <<r, n>> \in Past
             PROVE  <<r, n>> \in Past'
  BY DEF Past
<1> DEFINE j == <<r, 1>>
<1>1. j \in Jobs
  OBVIOUS
<1>2. attempts[j] \in Nat
  BY <1>1 DEF ManagerInv, Inv, TypeInv, TypeOK
<1>3. \/ attempts'[j] = attempts[j] + 1
      \/ attempts'[j] = attempts[j] /\ (Unrecorded(j)' => Unrecorded(j))
  BY <1>1, AttemptsMove
<1>4. n <= attempts[j] /\ (Unrecorded(j) => n < attempts[j])
  BY DEF Past
<1>5. n <= attempts'[j] /\ (Unrecorded(j)' => n < attempts'[j])
  BY <1>2, <1>3, <1>4
<1> QED BY <1>5 DEF Past

\* The job a running worker has is its repository's job of the first call, and no other
\* worker runs it.
LEMMA RunsFirst ==
  ASSUME ManagerInv, AttemptInv, NEW w \in Workers, pc[w] = "running",
         NEW r, r = RepoOf(hand[w])
  PROVE  /\ r \in Repos /\ hand[w] = <<r, 1>> /\ <<r, 1>> \in Jobs
         /\ status[<<r, 1>>] = "running" /\ attempts[<<r, 1>>] \in Nat \ {0}
         /\ \A v \in Workers : hand[v] = <<r, 1>> => v = w
<1>0. Inv
  BY DEF ManagerInv
<1>1. hand[w] \in Jobs /\ hand[w] \in accepted /\ status[hand[w]] = "running"
  BY <1>0, HandIsJob DEF StatusInHand
<1>2. hand[w][2] = 1
  BY <1>1 DEF ManagerInv, FirstCallOnly
<1>3. r \in Repos /\ hand[w] = <<r, 1>>
  BY <1>1, <1>2 DEF RepoOf
<1>4. attempts[hand[w]] \in Nat \ {0}
  BY <1>0, <1>1 DEF AttemptInv, AttemptsFit, Inv, TypeInv, TypeOK
<1>5. \A v \in Workers : hand[v] = hand[w] => v = w
  BY <1>0, <1>1, JobsAssumption DEF Inv, SingleOwner
<1> QED BY <1>1, <1>3, <1>4, <1>5

\* A result recorded now comes from the attempt that is past from now on.
LEMMA RecordedIsPast ==
  ASSUME ManagerInv, AttemptInv, NEW w \in Workers, NEW verdict \in {"ok", "failed"},
         TaskRecords(w, verdict), NEW r, r = RepoOf(hand[w]), NEW n, n = attempts[<<r, 1>>]
  PROVE  /\ n \in Nat /\ <<r, n>> \in Past'
         /\ \A i \in Nat : <<r, i>> \in Past => i < n
<1>1. pc[w] = "running" /\ outcome[w] = "none" /\ UNCHANGED <<pc, hand, attempts>>
      /\ outcome' = [outcome EXCEPT ![w] = verdict]
  BY DEF TaskRecords, pool, vars
<1>2. /\ r \in Repos /\ hand[w] = <<r, 1>> /\ n \in Nat \ {0}
      /\ \A v \in Workers : hand[v] = <<r, 1>> => v = w
  BY <1>1, RunsFirst
<1>3. outcome'[w] # "none"
  BY <1>1 DEF ManagerInv, LoopInv, ManagerTypeOK
<1>4. \A j : j = <<r, 1>> => Unrecorded(j) /\ ~Unrecorded(j)'
  BY <1>1, <1>2, <1>3 DEF Unrecorded
<1>5. \A i \in Nat : <<r, i>> \in Past => i < n
  BY <1>4 DEF Past
<1>6. ~Unrecorded(<<r, 1>>)'
  BY <1>4
<1>7. attempts'[<<r, 1>>] = n
  BY <1>1
<1>8. <<r, n>> \in Past'
  <2>1. n <= attempts'[<<r, 1>>] /\ (Unrecorded(<<r, 1>>)' => n < attempts'[<<r, 1>>])
    BY <1>2, <1>6, <1>7
  <2> QED BY <1>2, <2>1 DEF Past
<1> QED BY <1>2, <1>5, <1>8

\* A channel whose results carry stamps still has stamps when its head is received, and when
\* a result with a new stamp is appended.
LEMMA StampsReceived ==
  ASSUME channel \in Seq(Outgoing), channel # <<>>, channel' = Tail(channel),
         NEW stamp \in [1..Len(channel) -> Nat], Stamped(stamp), Past \subseteq Past'
  PROVE  \E s \in [1..Len(channel') -> Nat] : Stamped(s)'
<1>1. PICK s : s = [k \in 1..Len(channel') |-> stamp[k + 1]]
  OBVIOUS
<1>2. /\ Len(channel) \in Nat /\ Len(channel') = Len(channel) - 1
      /\ \A k \in 1..Len(channel') : channel'[k] = channel[k + 1]
  OBVIOUS
<1>3. \A k \in 1..Len(channel') : k \in Nat /\ k + 1 \in 1..Len(channel)
  BY <1>2
<1>4. s \in [1..Len(channel') -> Nat] /\ \A k \in 1..Len(channel') : s[k] = stamp[k + 1]
  BY <1>1, <1>3
<1>5. \A k \in 1..Len(channel') : <<channel'[k].repo, s[k]>> \in Past'
  BY <1>2, <1>3, <1>4 DEF Stamped
<1>6. ASSUME NEW k \in 1..Len(channel'), NEW l \in 1..Len(channel'),
             channel'[k].repo = channel'[l].repo, s[k] = s[l]
      PROVE  k = l
  <2>1. k + 1 = l + 1
    BY <1>2, <1>3, <1>4, <1>6 DEF Stamped
  <2> QED BY <1>3, <2>1
<1>7. Stamped(s)'
  BY <1>5, <1>6 DEF Stamped
<1> QED BY <1>4, <1>7

LEMMA StampsAppended ==
  ASSUME NEW len \in Nat, Len(channel) = len, Len(channel') = len + 1, NEW n \in Nat, NEW r,
         \A k \in 1..len : channel'[k] = channel[k], channel'[len + 1].repo = r,
         NEW stamp \in [1..len -> Nat], Stamped(stamp), Past \subseteq Past',
         <<r, n>> \in Past', \A i \in Nat : <<r, i>> \in Past => i < n
  PROVE  \E s \in [1..Len(channel') -> Nat] : Stamped(s)'
<1>1. PICK s : s = [k \in 1..len + 1 |-> IF k <= len THEN stamp[k] ELSE n]
  OBVIOUS
<1>2. /\ len + 1 \in 1..len + 1 /\ \A k \in 1..len : k \in 1..len + 1 /\ k <= len /\ k # len + 1
      /\ \A k \in 1..len + 1 : k = len + 1 \/ k \in 1..len
  OBVIOUS
<1>3. s \in [1..len + 1 -> Nat] /\ s[len + 1] = n /\ \A k \in 1..len : s[k] = stamp[k]
  BY <1>1, <1>2
<1>4. \A k \in 1..len : <<channel[k].repo, stamp[k]>> \in Past
  BY DEF Stamped
<1>5. \A k \in 1..len : channel[k].repo = r => s[k] < n
  BY <1>3, <1>4
<1>6. \A k \in 1..len + 1 : <<channel'[k].repo, s[k]>> \in Past'
  BY <1>2, <1>3, <1>4
<1>7. ASSUME NEW k \in 1..len + 1, NEW l \in 1..len + 1,
             channel'[k].repo = channel'[l].repo, s[k] = s[l]
      PROVE  k = l
  <2>1. CASE k \in 1..len /\ l \in 1..len
    BY <1>3, <1>7, <2>1 DEF Stamped
  <2>2. CASE k = len + 1 /\ l \in 1..len
    <3>1. channel[l].repo = r /\ s[l] = n
      BY <1>3, <1>7, <2>2
    <3> QED BY <1>5, <2>2, <3>1
  <2>3. CASE k \in 1..len /\ l = len + 1
    <3>1. channel[k].repo = r /\ s[k] = n
      BY <1>3, <1>7, <2>3
    <3> QED BY <1>5, <2>3, <3>1
  <2> QED BY <1>2, <2>1, <2>2, <2>3
<1>8. Stamped(s)'
  BY <1>6, <1>7 DEF Stamped
<1> QED BY <1>3, <1>8

LEMMA CallGrows == ManagerInv /\ [ManagerNext]_mvars => call' \in Nat /\ call <= call'
<1> SUFFICES ASSUME ManagerInv, [ManagerNext]_mvars PROVE call' \in Nat /\ call <= call'
  OBVIOUS
<1>0. Inv /\ call \in Nat
  BY DEF ManagerInv, LoopInv, ManagerTypeOK
<1>1. CASE CallCloneRepositories
  BY <1>0, <1>1 DEF CallCloneRepositories, CallWith
<1>2. CASE Caller /\ ~CallCloneRepositories
  BY <1>0, <1>2 DEF Caller, GiveUpRepo, SubmitFails, SubmitNext, SubmitAgain, SubmitCrashes,
     StartBatch, LeaveSpace, LeaveWait, CollectResult, CollectAs, CollectDone, NextRepo, StopPool,
     batch
<1> QED BY <1>0, <1>1, <1>2, OnlyTheCaller DEF batch

LEMMA StepStamp == ManagerInv /\ AttemptInv /\ StampInv /\ [ManagerNext]_mvars => StampInv'
<1> SUFFICES ASSUME ManagerInv, AttemptInv, StampInv, [ManagerNext]_mvars PROVE StampInv'
  OBVIOUS
<1>0. /\ channel \in Seq(Outgoing) /\ collecting \in [1..Calls -> {NoResult} \cup Outgoing]
      /\ Inv /\ LoopInv /\ call \in Nat
  BY DEF ManagerInv, LoopInv, ManagerTypeOK, Outgoing
<1>1. PICK stamp \in [1..Len(channel) -> Nat] : Stamped(stamp)
  BY DEF StampInv
<1>2. Past \subseteq Past' /\ call' \in Nat /\ call <= call'
  BY PastStays, CallGrows
<1>3. \A c \in 1..Calls : collecting[c] # NoResult => <<collecting[c].repo, 1>> \in Past' /\ c <= call'
  BY <1>0, <1>2 DEF StampInv
<1>4. CASE UNCHANGED <<channel, collecting>>
  <2>1. Stamped(stamp)'
    BY <1>1, <1>2, <1>4 DEF Stamped
  <2> QED BY <1>1, <1>3, <1>4, <2>1 DEF StampInv
<1>5. ASSUME NEW w \in Workers, Task(w) PROVE StampInv'
  <2>1. collecting' = collecting
    BY <1>5 DEF Task, TaskRecords, TaskReturns
  <2>2. CASE TaskReturns(w)
    BY <1>4, <2>1, <2>2 DEF TaskReturns
  <2>3. ASSUME NEW verdict \in {"ok", "failed"}, TaskRecords(w, verdict) PROVE StampInv'
    <3>1. PICK r : r = RepoOf(hand[w])
      OBVIOUS
    <3>2. PICK n : n = attempts[<<r, 1>>]
      OBVIOUS
    <3>3. PICK res : res = Result(r, verdict)
      OBVIOUS
    <3>4. PICK len \in Nat : len = Len(channel)
      BY <1>0
    <3>5. n \in Nat /\ <<r, n>> \in Past' /\ \A i \in Nat : <<r, i>> \in Past => i < n
      BY <2>3, <3>1, <3>2, RecordedIsPast
    <3>6. pc[w] = "running" /\ RecordResult(res)
      BY <2>3, <3>1, <3>3 DEF TaskRecords
    <3>7. res \in Outgoing /\ res.repo = r
      BY <1>0, <3>1, <3>3, <3>6, RepoOfHand DEF Result, Outgoing
    <3>8. \/ /\ Len(channel') = len + 1 /\ channel'[len + 1] = res
             /\ \A k \in 1..len : channel'[k] = channel[k]
          \/ channel' = channel
      BY <1>0, <3>4, <3>6, <3>7, Records
    <3>9. CASE channel' = channel
      BY <1>4, <2>1, <3>9
    <3>10. CASE /\ Len(channel') = len + 1 /\ channel'[len + 1] = res
                /\ \A k \in 1..len : channel'[k] = channel[k]
      <4>1. \E s \in [1..Len(channel') -> Nat] : Stamped(s)'
        BY <1>1, <1>2, <3>4, <3>5, <3>7, <3>10, StampsAppended
      <4> QED BY <1>3, <2>1, <4>1 DEF StampInv
    <3> QED BY <3>8, <3>9, <3>10
  <2> QED BY <1>5, <2>2, <2>3 DEF Task
<1>6. ASSUME NEW d \in 1..Calls, CollectorReceives(d) PROVE StampInv'
  <2>1. /\ channel # <<>> /\ channel' = Tail(channel) /\ channel[1] = Head(channel)
        /\ collecting' = [collecting EXCEPT ![d] = channel[1]] /\ d <= call /\ 1 \in 1..Len(channel)
    BY <1>0, <1>6 DEF CollectorReceives
  <2>2. \E s \in [1..Len(channel') -> Nat] : Stamped(s)'
    BY <1>0, <1>1, <1>2, <2>1, StampsReceived
  <2>3. <<channel[1].repo, 1>> \in Past
    <3>1. <<channel[1].repo, stamp[1]>> \in Past
      BY <1>1, <2>1 DEF Stamped
    <3> QED BY <1>0, <3>1, FirstIsPast
  <2>4. \A c \in 1..Calls : c # d => collecting'[c] = collecting[c]
    BY <1>0, <2>1
  <2>5. collecting'[d] = channel[1] /\ d <= call'
    BY <1>0, <1>2, <2>1
  <2>6. \A c \in 1..Calls :
          collecting'[c] # NoResult => <<collecting'[c].repo, 1>> \in Past' /\ c <= call'
    BY <1>2, <1>3, <2>3, <2>4, <2>5
  <2> QED BY <2>2, <2>6 DEF StampInv
<1>7. ASSUME NEW d \in 1..Calls, CollectorStores(d) PROVE StampInv'
  <2>1. collecting' = [collecting EXCEPT ![d] = NoResult] /\ channel' = channel
    BY <1>7 DEF CollectorStores, StoreAs
  <2>2. \A c \in 1..Calls : collecting'[c] # NoResult => collecting'[c] = collecting[c]
    BY <1>0, <2>1
  <2>3. \A c \in 1..Calls :
          collecting'[c] # NoResult => <<collecting'[c].repo, 1>> \in Past' /\ c <= call'
    BY <1>3, <2>2
  <2>4. Stamped(stamp)'
    BY <1>1, <1>2, <2>1 DEF Stamped
  <2> QED BY <1>1, <2>1, <2>3, <2>4 DEF StampInv
<1> QED BY <1>0, <1>4, <1>5, <1>6, <1>7, ResultsMove DEF Collector

\* The stamps are at most the limit of attempts, and the attempt at work has none yet: so the
\* channel has room for its result -- or, when a job has one attempt only, nothing of it is
\* under way.
LEMMA RoomForResult ==
  ASSUME ManagerInv, AttemptInv, StampInv, Roomy,
         NEW w \in Workers, NEW verdict \in {"ok", "failed"}, TaskRecords(w, verdict),
         NEW r, r = RepoOf(hand[w]), ~(Len(channel) < QueueSize)
  PROVE  /\ \A k \in 1..Len(channel) : channel[k].repo # r
         /\ \A c \in 1..Calls : collecting[c].repo = r => collecting[c] = NoResult
<1>0. /\ Inv /\ channel \in Seq(Outgoing) /\ Len(channel) \in Nat
      /\ ConfigMaxRetries \in Nat /\ QueueSize \in Nat
  BY DEF ManagerInv, LoopInv
<1>1. PICK stamp \in [1..Len(channel) -> Nat] : Stamped(stamp)
  BY DEF StampInv
<1>2. ASSUME NEW p \in Past
      PROVE  /\ p[2] \in Nat \ {0}
             /\ p[2] <= IF ConfigMaxRetries = 0 THEN 1 ELSE ConfigMaxRetries
  <2>1. /\ p[1] \in Repos /\ p[2] \in Nat \ {0} /\ p[2] <= attempts[<<p[1], 1>>]
        /\ <<p[1], 1>> \in Jobs
    BY DEF Past
  <2>2. attempts[<<p[1], 1>>] <= AttemptLimit(<<p[1], 1>>)
    BY <2>1 DEF AttemptInv, AttemptsFit
  <2>3. MaxRetries(<<p[1], 1>>) = ConfigMaxRetries
    BY <2>1, AlikeAssumption
  <2>4. attempts[<<p[1], 1>>] \in Nat
    BY <1>0, <2>1 DEF Inv, TypeInv, TypeOK
  <2> QED BY <1>0, <2>1, <2>2, <2>3, <2>4 DEF AttemptLimit
<1>3. PICK n : n = attempts[<<r, 1>>]
  OBVIOUS
<1>4. n \in Nat /\ \A i \in Nat : <<r, i>> \in Past => i < n
  BY <1>3, RecordedIsPast
<1>5. pc[w] = "running"
  BY DEF TaskRecords
<1>6. r \in Repos /\ n <= IF ConfigMaxRetries = 0 THEN 1 ELSE ConfigMaxRetries
  <2>1. r \in Repos /\ <<r, 1>> \in Jobs
    BY <1>5, RunsFirst
  <2>2. n <= AttemptLimit(<<r, 1>>) /\ MaxRetries(<<r, 1>>) = ConfigMaxRetries
    BY <1>3, <2>1, AlikeAssumption DEF AttemptInv, AttemptsFit
  <2> QED BY <1>0, <2>1, <2>2 DEF AttemptLimit
<1>7. CASE ConfigMaxRetries = 0
  <2>1. \A i \in Nat \ {0} : <<r, i>> \notin Past
    BY <1>4, <1>6, <1>7
  <2>2. ASSUME NEW k \in 1..Len(channel) PROVE channel[k].repo # r
    <3>1. <<channel[k].repo, stamp[k]>> \in Past
      BY <1>1 DEF Stamped
    <3>2. stamp[k] \in Nat \ {0}
      BY <3>1 DEF Past
    <3> QED BY <2>1, <3>1, <3>2
  <2>3. ASSUME NEW c \in 1..Calls, collecting[c] # NoResult PROVE collecting[c].repo # r
    <3>1. <<collecting[c].repo, 1>> \in Past
      BY <2>3 DEF StampInv
    <3> QED BY <2>1, <3>1
  <2> QED BY <2>2, <2>3
<1>8. CASE ConfigMaxRetries # 0
  <2> DEFINE all == Repos \X (1..ConfigMaxRetries)
             last == <<r, ConfigMaxRetries>>
             f == [k \in 1..Len(channel) |-> <<channel[k].repo, stamp[k]>>]
  <2>1. f \in [1..Len(channel) -> all \ {last}]
    <3> SUFFICES ASSUME NEW k \in 1..Len(channel)
                 PROVE  <<channel[k].repo, stamp[k]>> \in all \ {last}
      OBVIOUS
    <3>1. <<channel[k].repo, stamp[k]>> \in Past
      BY <1>1 DEF Stamped
    <3>2. stamp[k] \in Nat /\ 1 <= stamp[k] /\ stamp[k] <= ConfigMaxRetries
      <4>1. PICK p : p = <<channel[k].repo, stamp[k]>>
        OBVIOUS
      <4>2. p \in Past /\ p[2] = stamp[k]
        BY <3>1, <4>1
      <4> QED BY <1>0, <1>2, <1>8, <4>2
    <3>3. channel[k].repo \in Repos
      BY <3>1 DEF Past
    <3>4. channel[k].repo = r => stamp[k] < ConfigMaxRetries
      BY <1>0, <1>4, <1>6, <1>8, <3>1, <3>2
    <3> QED BY <1>0, <3>2, <3>3, <3>4
  <2>2. last \in all
    BY <1>0, <1>6, <1>8
  <2>3. /\ IsFiniteSet(1..ConfigMaxRetries) /\ Cardinality(1..ConfigMaxRetries) = ConfigMaxRetries
        /\ IsFiniteSet(1..Len(channel)) /\ Cardinality(1..Len(channel)) = Len(channel)
    BY <1>0, FirstFinite
  <2>4. IsFiniteSet(all) /\ Cardinality(all) = Cardinality(Repos) * ConfigMaxRetries
    BY <2>3, ReposFinite, FS_Product
  <2> HIDE DEF all, last, f
  <2>5. IsFiniteSet(all \ {last}) /\ Cardinality(all \ {last}) = Cardinality(all) - 1
    BY <2>2, <2>4, FS_RemoveElement
  <2>6. Cardinality(all \ {last}) < Cardinality(1..Len(channel))
    <3>1. Cardinality(all) \in Nat
      BY <2>4, FS_CardinalityType
    <3>2. Cardinality(all) <= QueueSize
      BY <2>4 DEF Roomy
    <3> QED BY <1>0, <2>3, <2>5, <3>1, <3>2
  <2>7. \E k, l \in 1..Len(channel) : k # l /\ f[k] = f[l]
    BY <2>1, <2>3, <2>5, <2>6, FS_PigeonHole
  <2>8. PICK k \in 1..Len(channel), l \in 1..Len(channel) : k # l /\ f[k] = f[l]
    BY <2>7
  <2>9. channel[k].repo = channel[l].repo /\ stamp[k] = stamp[l]
    BY <2>8 DEF f
  <2> QED BY <1>1, <2>8, <2>9 DEF Stamped
<1> QED BY <1>7, <1>8

\* The collector takes the head of the channel: what is the latest stays the latest.
LEMMA LatestReceived ==
  ASSUME channel \in Seq(Outgoing), channel # <<>>, channel' = Tail(channel),
         collecting[1] = NoResult, collecting'[1] = Head(channel), stored' = stored,
         NEW r, NEW v \in {"ok", "failed"}, LatestIs(r, v)
  PROVE  LatestIs(r, v)'
<1>0. /\ Len(channel) \in Nat \ {0} /\ Len(channel') = Len(channel) - 1 /\ Head(channel) = channel[1]
      /\ \A k \in 1..Len(channel') : k \in Nat /\ k + 1 \in 1..Len(channel) /\ channel'[k] = channel[k + 1]
      /\ \A k \in 1..Len(channel) : k \in Nat
                                    /\ (k = 1 \/ (k - 1 \in 1..Len(channel') /\ channel'[k - 1] = channel[k]))
      /\ channel[1] \in Outgoing
  <2>1. /\ Len(channel) \in Nat \ {0} /\ Len(channel') = Len(channel) - 1 /\ Head(channel) = channel[1]
        /\ channel[1] \in Outgoing
    OBVIOUS
  <2>2. \A k \in 1..Len(channel') : channel'[k] = channel[k + 1]
    OBVIOUS
  <2>3. PICK n \in Nat : n = Len(channel) /\ n - 1 = Len(channel')
    BY <2>1
  <2>4. \A k \in 1..(n - 1) : k \in Nat /\ k + 1 \in 1..n
    OBVIOUS
  <2>5. \A k \in 1..n : k \in Nat /\ (k = 1 \/ (k - 1 \in 1..(n - 1) /\ (k - 1) + 1 = k))
    OBVIOUS
  <2>6. \A k \in 1..n : k = 1 \/ channel'[k - 1] = channel[k]
    <3> SUFFICES ASSUME NEW k \in 1..n, k # 1 PROVE channel'[k - 1] = channel[k]
      OBVIOUS
    <3>1. k - 1 \in 1..(n - 1) /\ (k - 1) + 1 = k
      BY <2>5
    <3>2. channel'[k - 1] = channel[(k - 1) + 1]
      BY <2>2, <2>3, <3>1
    <3> QED BY <3>1, <3>2
  <2>7. \A k \in 1..Len(channel) :
          k \in Nat /\ (k = 1 \/ (k - 1 \in 1..Len(channel') /\ channel'[k - 1] = channel[k]))
    BY <2>3, <2>5, <2>6
  <2>8. \A k \in 1..Len(channel') : k \in Nat /\ k + 1 \in 1..Len(channel)
    BY <2>3, <2>4
  <2> QED BY <2>1, <2>2, <2>7, <2>8
<1>1. ASSUME NEW k \in 1..Len(channel), channel[k] = Result(r, v),
             \A l \in 1..Len(channel) : channel[l].repo = r => l <= k
      PROVE  LatestIs(r, v)'
  <2>1. CASE k = 1
    <3>1. \A l \in 1..Len(channel') : channel'[l].repo # r
      BY <1>0, <1>1, <2>1
    <3> QED BY <1>0, <1>1, <2>1, <3>1 DEF LatestIs
  <2>2. CASE k # 1
    <3>1. k - 1 \in 1..Len(channel') /\ channel'[k - 1] = Result(r, v)
      BY <1>0, <1>1, <2>2
    <3>2. ASSUME NEW l \in 1..Len(channel'), channel'[l].repo = r PROVE l <= k - 1
      <4>1. l + 1 <= k
        BY <1>0, <1>1, <3>2
      <4> QED BY <1>0, <4>1
    <3> QED BY <3>1, <3>2 DEF LatestIs
  <2> QED BY <2>1, <2>2
<1>2. ASSUME \A k \in 1..Len(channel) : channel[k].repo # r, stored[r] = v
      PROVE  LatestIs(r, v)'
  <2>1. channel[1].repo # r /\ \A k \in 1..Len(channel') : channel'[k].repo # r
    BY <1>0, <1>2
  <2> QED BY <1>0, <1>2, <2>1 DEF LatestIs
<1>3. NoResult # Result(r, v)
  BY DEF NoResult, Result
<1> QED BY <1>1, <1>2, <1>3 DEF LatestIs

\* It stores what it has taken.
LEMMA LatestStored ==
  ASSUME stored \in [Repos -> {"none", "ok", "failed"}], collecting[1] \in Outgoing,
         channel' = channel, collecting'[1] = NoResult,
         stored' = [stored EXCEPT ![collecting[1].repo] = collecting[1].verdict],
         NEW r \in Repos, NEW v, LatestIs(r, v)
  PROVE  LatestIs(r, v)'
<1>1. collecting[1].repo \in Repos /\ collecting[1] # NoResult
  BY DEF Outgoing, NoResult
<1>2. CASE \E k \in 1..Len(channel) :
             /\ channel[k] = Result(r, v)
             /\ \A l \in 1..Len(channel) : channel[l].repo = r => l <= k
  BY <1>2 DEF LatestIs
<1>3. ASSUME \A k \in 1..Len(channel) : channel[k].repo # r, stored'[r] = v
      PROVE  LatestIs(r, v)'
  BY <1>3 DEF LatestIs
<1>4. CASE collecting[1] = Result(r, v)
  BY <1>2, <1>3, <1>4 DEF LatestIs, Result
<1>5. CASE collecting[1].repo # r /\ stored[r] = v
  BY <1>1, <1>2, <1>3, <1>5 DEF LatestIs
<1> QED BY <1>1, <1>2, <1>4, <1>5 DEF LatestIs

\* A task records a result: it is its repository's latest, and that of no other changes.
LEMMA LatestRecorded ==
  ASSUME LoopInv, NEW r \in Repos, NEW verdict \in {"ok", "failed"},
         RecordResult(Result(r, verdict)), collecting' = collecting,
         Len(channel) < QueueSize \/ (/\ \A k \in 1..Len(channel) : channel[k].repo # r
                                      /\ collecting[1].repo = r => collecting[1] = NoResult)
  PROVE  /\ LatestIs(r, verdict)'
         /\ \A q \in Repos : \A v : q # r /\ LatestIs(q, v) => LatestIs(q, v)'
<1>0. channel \in Seq(Outgoing) /\ Len(channel) \in Nat /\ stored \in [Repos -> {"none", "ok", "failed"}]
  BY DEF LoopInv, ManagerTypeOK
<1>1. PICK res : res = Result(r, verdict) /\ res \in Outgoing /\ res.repo = r /\ res.verdict = verdict
  BY DEF Result, Outgoing
<1>2. CASE Len(channel) < QueueSize
  <2>1. PICK len \in Nat : len = Len(channel)
    BY <1>0
  <2>2. /\ stored' = stored /\ Len(channel') = len + 1 /\ channel'[len + 1] = res
        /\ \A k \in 1..len : channel'[k] = channel[k]
    <3>1. channel' = Append(channel, res) /\ stored' = stored
      BY <1>1, <1>2 DEF RecordResult
    <3> QED BY <1>0, <1>1, <2>1, <3>1
  <2>3. /\ len + 1 \in 1..len + 1 /\ \A k \in 1..len : k \in 1..len + 1 /\ k # len + 1
        /\ \A k \in 1..len + 1 : k <= len + 1 /\ (k = len + 1 \/ k \in 1..len)
    OBVIOUS
  <2>4. LatestIs(r, verdict)'
    <3>1. \A l \in 1..Len(channel') : channel'[l].repo = r => l <= len + 1
      BY <2>2, <2>3
    <3> QED BY <1>1, <2>2, <2>3, <3>1 DEF LatestIs
  <2>5. ASSUME NEW q \in Repos, NEW v, q # r, LatestIs(q, v) PROVE LatestIs(q, v)'
    <3>1. CASE \E k \in 1..len : /\ channel[k] = Result(q, v)
                                 /\ \A l \in 1..len : channel[l].repo = q => l <= k
      <4>1. PICK k \in 1..len : /\ channel[k] = Result(q, v)
                                /\ \A l \in 1..len : channel[l].repo = q => l <= k
        BY <3>1
      <4>2. channel'[k] = Result(q, v) /\ k \in 1..Len(channel')
        BY <2>2, <2>3, <4>1
      <4>3. \A l \in 1..Len(channel') : channel'[l].repo = q => l <= k
        BY <1>1, <2>2, <2>3, <2>5, <4>1
      <4> QED BY <4>2, <4>3 DEF LatestIs
    <3>2. CASE \A k \in 1..len : channel[k].repo # q
      <4>1. \A k \in 1..Len(channel') : channel'[k].repo # q
        BY <1>1, <2>2, <2>3, <2>5, <3>2
      <4>2. \A k \in 1..len : channel[k] # Result(q, v)
        BY <3>2 DEF Result
      <4> QED BY <2>1, <2>2, <2>5, <4>1, <4>2 DEF LatestIs
    <3> QED BY <2>1, <2>5, <3>1, <3>2 DEF LatestIs
  <2> QED BY <2>4, <2>5
<1>3. CASE ~(Len(channel) < QueueSize)
  <2>1. channel' = channel /\ stored' = [stored EXCEPT ![r] = verdict]
    BY <1>1, <1>3 DEF RecordResult
  <2>2. stored'[r] = verdict /\ \A q \in Repos : q # r => stored'[q] = stored[q]
    BY <1>0, <2>1
  <2>3. LatestIs(r, verdict)'
    BY <1>3, <2>1, <2>2 DEF LatestIs
  <2>4. ASSUME NEW q \in Repos, NEW v, q # r, LatestIs(q, v) PROVE LatestIs(q, v)'
    <3>1. stored'[q] = stored[q]
      BY <2>2, <2>4
    <3> QED BY <2>1, <2>4, <3>1 DEF LatestIs
  <2> QED BY <2>3, <2>4
<1> QED BY <1>2, <1>3

\* A step that records a result makes it the latest of its repository, and no step changes
\* what is the latest of another.
LEMMA LatestMoves ==
  ASSUME OrderInv, Roomy, [ManagerNext]_mvars, call' <= 1
  PROVE  /\ \A w \in Workers, verdict \in {"ok", "failed"} :
              TaskRecords(w, verdict) =>
                /\ LatestIs(RepoOf(hand[w]), verdict)'
                /\ \A r \in Repos, v \in {"ok", "failed"} :
                     r # RepoOf(hand[w]) /\ LatestIs(r, v) => LatestIs(r, v)'
         /\ \/ \E w \in Workers, verdict \in {"ok", "failed"} : TaskRecords(w, verdict)
            \/ \A r \in Repos, v \in {"ok", "failed"} : LatestIs(r, v) => LatestIs(r, v)'
<1>0. /\ ManagerInv /\ AttemptInv /\ StampInv /\ Inv /\ LoopInv /\ call \in Nat
      /\ channel \in Seq(Outgoing) /\ collecting \in [1..Calls -> {NoResult} \cup Outgoing]
      /\ stored \in [Repos -> {"none", "ok", "failed"}]
      /\ \A c \in 1..Calls : collecting[c] # NoResult => c <= call
  <2>1. ManagerInv /\ AttemptInv /\ StampInv
    BY DEF OrderInv
  <2>2. LoopInv /\ Inv
    BY <2>1 DEF ManagerInv
  <2>3. \A c \in 1..Calls : collecting[c] # NoResult => c <= call
    BY <2>1 DEF StampInv
  <2>4. /\ call \in Nat /\ collecting \in [1..Calls -> {NoResult} \cup Outgoing]
        /\ stored \in [Repos -> {"none", "ok", "failed"}] /\ channel \in Seq(Outgoing)
    BY <2>2 DEF LoopInv, ManagerTypeOK, Outgoing
  <2> QED BY <2>1, <2>2, <2>3, <2>4
<1>1. UNCHANGED <<channel, collecting, stored>> => \A r, v : LatestIs(r, v) => LatestIs(r, v)'
  BY DEF LatestIs
<1>2. ASSUME NEW w \in Workers, NEW verdict \in {"ok", "failed"}, TaskRecords(w, verdict)
      PROVE  /\ LatestIs(RepoOf(hand[w]), verdict)'
             /\ \A r \in Repos, v \in {"ok", "failed"} :
                  r # RepoOf(hand[w]) /\ LatestIs(r, v) => LatestIs(r, v)'
  <2>1. PICK q : q = RepoOf(hand[w])
    OBVIOUS
  <2>2. /\ pc[w] = "running" /\ collecting' = collecting /\ RecordResult(Result(q, verdict))
        /\ hand' = hand
    BY <1>2, <2>1 DEF TaskRecords, pool, vars
  <2>3. q \in Repos
    BY <1>0, <2>1, <2>2, RepoOfHand
  <2>4. 1 \in 1..Calls
    OBVIOUS
  <2>5. Len(channel) < QueueSize \/ (/\ \A k \in 1..Len(channel) : channel[k].repo # q
                                     /\ collecting[1].repo = q => collecting[1] = NoResult)
    BY <1>0, <1>2, <2>1, <2>4, RoomForResult
  <2>6. /\ LatestIs(q, verdict)'
        /\ \A r \in Repos : \A v : r # q /\ LatestIs(r, v) => LatestIs(r, v)'
    BY <1>0, <2>2, <2>3, <2>5, LatestRecorded
  <2>7. RepoOf(hand'[w]) = q
    BY <2>1, <2>2
  <2>8. LatestIs(RepoOf(hand[w]), verdict)' <=> LatestIs(q, verdict)'
    BY <2>7 DEF LatestIs
  <2> QED BY <2>1, <2>6, <2>8
<1>3. ASSUME NEW c \in 1..Calls, Collector(c)
      PROVE  outcome' = outcome /\ \A r \in Repos, v \in {"ok", "failed"} : LatestIs(r, v) => LatestIs(r, v)'
  <2>1. call <= 1 /\ outcome' = outcome
    BY <1>3 DEF Collector, CollectorReceives, CollectorStores, StoreAs, batch
  <2>2. c = 1
    <3>1. c <= call
      BY <1>0, <1>3 DEF Collector, CollectorReceives, CollectorStores, StoreAs
    <3> QED BY <1>0, <2>1, <3>1
  <2>3. CASE CollectorReceives(1)
    <3>1. /\ channel # <<>> /\ channel' = Tail(channel) /\ collecting[1] = NoResult
          /\ collecting'[1] = Head(channel) /\ stored' = stored
      BY <1>0, <2>2, <2>3 DEF CollectorReceives
    <3> QED BY <1>0, <2>1, <3>1, LatestReceived
  <2>4. CASE CollectorStores(1)
    <3>1. /\ collecting[1] \in Outgoing /\ channel' = channel /\ collecting'[1] = NoResult
          /\ stored' = [stored EXCEPT ![collecting[1].repo] = collecting[1].verdict]
      BY <1>0, <2>2, <2>4 DEF CollectorStores, StoreAs
    <3> QED BY <1>0, <2>1, <3>1, LatestStored
  <2> QED BY <1>3, <2>2, <2>3, <2>4 DEF Collector
<1>4. ASSUME NEW w \in Workers, TaskReturns(w) PROVE UNCHANGED <<channel, collecting, stored>>
  BY <1>4 DEF TaskReturns
<1>5. \/ \E w \in Workers, verdict \in {"ok", "failed"} : TaskRecords(w, verdict)
      \/ \A r \in Repos, v \in {"ok", "failed"} : LatestIs(r, v) => LatestIs(r, v)'
  BY <1>0, <1>1, <1>3, <1>4, ResultsMove DEF Task
<1> QED BY <1>2, <1>5

\* A worker that has recorded a result did so in this step, or has the job it had.
LEMMA OutcomeMoves ==
  ASSUME Inv, LoopInv, RecordedInBody, [ManagerNext]_mvars, NEW w \in Workers, outcome'[w] # "none"
  PROVE  \/ outcome'[w] = outcome[w] /\ hand'[w] = hand[w]
         \/ outcome'[w] \in {"ok", "failed"} /\ TaskRecords(w, outcome'[w])
<1>0. outcome \in [Workers -> {"none", "ok", "failed"}]
      /\ (outcome[w] # "none" => pc[w] = "running")
  BY DEF LoopInv, ManagerTypeOK, RecordedInBody
<1>1. CASE Caller
  BY <1>1, CallerFacts
<1>2. ASSUME NEW v \in Workers, NEW verdict \in {"ok", "failed"}, TaskRecords(v, verdict)
      PROVE  \/ outcome'[w] = outcome[w] /\ hand'[w] = hand[w]
             \/ outcome'[w] \in {"ok", "failed"} /\ TaskRecords(w, outcome'[w])
  <2>1. hand' = hand /\ outcome' = [outcome EXCEPT ![v] = verdict]
    BY <1>2 DEF TaskRecords, pool, vars
  <2>2. CASE v = w
    <3>1. outcome'[w] = verdict
      BY <1>0, <2>1, <2>2
    <3> QED BY <1>2, <2>2, <3>1
  <2>3. CASE v # w
    BY <1>0, <2>1, <2>3
  <2> QED BY <2>2, <2>3
<1>3. ASSUME NEW v \in Workers, TaskReturns(v) PROVE outcome'[w] = outcome[w] /\ hand'[w] = hand[w]
  <2>1. hand' = hand /\ outcome' = [outcome EXCEPT ![v] = "none"]
    BY <1>3, TaskReturnsFacts DEF TaskReturns
  <2> QED BY <1>0, <2>1
<1>4. CASE UNCHANGED <<hand, outcome>>
  BY <1>4
<1>5. ASSUME NEW c \in 1..Calls, Collector(c) PROVE UNCHANGED <<hand, outcome>>
  BY <1>5 DEF Collector, CollectorReceives, CollectorStores, StoreAs, pool, vars
<1>6. CASE PoolRuns
  <2>1. outcome' = outcome
    BY <1>6 DEF PoolRuns, results
  <2> QED BY <1>0, <1>6, <2>1, PoolRunsFacts
<1>7. CASE DeadlineExpires \/ UNCHANGED mvars
  BY <1>4, <1>7 DEF DeadlineExpires, results, pool, mvars, vars
<1> QED BY <1>1, <1>2, <1>3, <1>4, <1>5, <1>6, <1>7
        DEF ManagerNext, ManagerStep, ManagerTerminated, Task

LEMMA StepLatest == OrderInv /\ Roomy /\ [ManagerNext]_mvars => LatestInv'
<1> SUFFICES ASSUME OrderInv, Roomy, [ManagerNext]_mvars, call' <= 1
             PROVE  /\ \A w \in Workers : outcome'[w] # "none" => LatestIs(RepoOf(hand[w]), outcome[w])'
                    /\ \A j \in Jobs : status'[j] \in Terminal /\ j[2] = 1 =>
                                          LatestIs(RepoOf(j), FinalVerdict(j))'
  BY DEF LatestInv
<1>0. /\ ManagerInv /\ AttemptInv /\ Inv /\ LoopInv /\ RecordedInBody
      /\ outcome \in [Workers -> {"none", "ok", "failed"}] /\ status \in [Jobs -> Statuses]
      /\ Jobs = Repos \X (1..Calls) /\ call \in Nat
  BY DEF OrderInv, ManagerInv, LoopInv, ManagerTypeOK, Inv, TypeInv, TypeOK
<1>1. /\ \A w \in Workers : outcome[w] # "none" => LatestIs(RepoOf(hand[w]), outcome[w])
      /\ \A j \in Jobs : status[j] \in Terminal /\ j[2] = 1 => LatestIs(RepoOf(j), FinalVerdict(j))
  <2>1. call <= 1
    BY <1>0, CallGrows
  <2> QED BY <2>1 DEF OrderInv, LatestInv
\* Unless this step records a result of the repository itself, its latest stays.
<1>2. ASSUME NEW r \in Repos, NEW v \in {"ok", "failed"}, LatestIs(r, v),
             \A u \in Workers, verdict \in {"ok", "failed"} : TaskRecords(u, verdict) => RepoOf(hand[u]) # r
      PROVE  LatestIs(r, v)'
  BY <1>2, LatestMoves
<1>3. ASSUME NEW w \in Workers, outcome'[w] # "none" PROVE LatestIs(RepoOf(hand[w]), outcome[w])'
  <2>1. PICK r : r = RepoOf(hand[w])
    OBVIOUS
  <2>2. PICK v : v = outcome'[w]
    OBVIOUS
  <2>3. CASE v = outcome[w] /\ hand'[w] = hand[w]
    <3>1. pc[w] = "running" /\ v \in {"ok", "failed"} /\ LatestIs(r, v)
      <4>1. v \in {"none", "ok", "failed"} /\ v # "none" /\ outcome[w] = v
        BY <1>0, <1>3, <2>2, <2>3
      <4>2. pc[w] = "running"
        BY <1>0, <4>1 DEF RecordedInBody
      <4>3. LatestIs(r, v)
        BY <1>1, <2>1, <4>1
      <4> QED BY <4>1, <4>2, <4>3
    <3>2. r \in Repos /\ hand[w] = <<r, 1>> /\ \A u \in Workers : hand[u] = <<r, 1>> => u = w
      <4>1. ManagerInv /\ AttemptInv /\ pc[w] = "running" /\ r = RepoOf(hand[w])
        BY <1>0, <2>1, <3>1
      <4> QED BY <4>1, RunsFirst
    <3>3. ASSUME NEW u \in Workers, NEW verdict \in {"ok", "failed"}, TaskRecords(u, verdict)
          PROVE  RepoOf(hand[u]) # r
      <4>1. pc[u] = "running" /\ outcome[u] = "none"
        BY <3>3 DEF TaskRecords
      <4>2. PICK q : q = RepoOf(hand[u])
        OBVIOUS
      <4>3. hand[u] = <<q, 1>>
        BY <1>0, <4>1, <4>2, RunsFirst
      <4> QED BY <2>3, <3>1, <3>2, <4>1, <4>2, <4>3
    <3>4. LatestIs(r, v)'
      BY <1>2, <3>1, <3>2, <3>3
    <3>5. r = RepoOf(hand'[w])
      BY <2>1, <2>3
    <3> QED BY <2>2, <3>4, <3>5 DEF LatestIs
  <2>4. CASE v \in {"ok", "failed"} /\ TaskRecords(w, v)
    <3>1. hand' = hand
      BY <2>4 DEF TaskRecords, pool, vars
    <3>2. LatestIs(RepoOf(hand[w]), v)'
      BY <2>4, LatestMoves
    <3> QED BY <2>2, <3>2 DEF LatestIs
  <2> QED BY <1>0, <1>3, <2>2, <2>3, <2>4, OutcomeMoves
<1>4. ASSUME NEW j \in Jobs, status'[j] \in Terminal, j[2] = 1
      PROVE  LatestIs(RepoOf(j), FinalVerdict(j))'
  <2>1. PICK r \in Repos : r = RepoOf(j) /\ j = <<r, 1>>
    BY <1>0, <1>4 DEF RepoOf
  <2>2. PICK v \in {"ok", "failed"} : v = IF status'[j] = "completed" THEN "ok" ELSE "failed"
    OBVIOUS
  <2>3. CASE status[j] \in Terminal
    <3>1. status'[j] = status[j]
      BY <1>0, <2>3, TerminalStays
    <3>2. LatestIs(r, v)
      BY <1>1, <1>4, <2>1, <2>2, <2>3, <3>1 DEF FinalVerdict
    <3>3. ASSUME NEW u \in Workers, NEW verdict \in {"ok", "failed"}, TaskRecords(u, verdict)
          PROVE  RepoOf(hand[u]) # r
      <4>1. pc[u] = "running"
        BY <3>3 DEF TaskRecords
      <4>2. PICK q : q = RepoOf(hand[u])
        OBVIOUS
      <4>3. status[<<q, 1>>] = "running"
        BY <1>0, <4>1, <4>2, RunsFirst
      <4> QED BY <2>1, <2>3, <4>2, <4>3 DEF Terminal
    <3>4. LatestIs(r, v)'
      BY <1>2, <3>2, <3>3
    <3> QED BY <2>1, <2>2, <3>4 DEF LatestIs, FinalVerdict, RepoOf
  <2>4. CASE status[j] \notin Terminal
    <3>1. PICK u \in Workers : TaskReturns(u) /\ j = hand[u]
      BY <1>0, <1>4, <2>4, SettledByTask
    <3>2. UNCHANGED <<channel, collecting, stored>> /\ outcome[u] \in {"ok", "failed"}
      BY <3>1 DEF TaskReturns
    <3>3. v = outcome[u]
      <4>1. CASE outcome[u] = "ok"
        BY <1>0, <2>2, <3>1, <4>1, TaskReturnsFacts
      <4>2. CASE outcome[u] = "failed"
        <5>1. status'[j] # "completed"
          BY <1>0, <3>1, <4>2 DEF TaskReturns, ExecuteFails, Executed
        <5> QED BY <2>2, <4>2, <5>1
      <4> QED BY <3>2, <4>1, <4>2
    <3>4. LatestIs(r, v)
      BY <1>1, <2>1, <3>1, <3>2, <3>3
    <3>5. LatestIs(r, v)'
      BY <3>2, <3>4 DEF LatestIs
    <3> QED BY <2>1, <2>2, <3>5 DEF LatestIs, FinalVerdict, RepoOf
  <2> QED BY <2>3, <2>4
<1> QED BY <1>3, <1>4

LEMMA InitOrder == ManagerInit => OrderInv
<1> SUFFICES ASSUME ManagerInit PROVE OrderInv
  OBVIOUS
<1>0. Init /\ ManagerInv
  BY InitManager DEF ManagerInit
<1>1. AttemptInv
  BY <1>0, InitAttempts
<1>2. StampInv
  <2>1. channel = <<>> /\ \A c \in 1..Calls : collecting[c] = NoResult
    BY DEF ManagerInit
  <2>2. PICK stamp : stamp \in [1..Len(channel) -> Nat]
    <3>1. [k \in 1..Len(channel) |-> 0] \in [1..Len(channel) -> Nat]
      OBVIOUS
    <3> QED BY <3>1
  <2>3. Stamped(stamp)
    BY <2>1 DEF Stamped
  <2> QED BY <2>1, <2>2, <2>3 DEF StampInv
<1>3. LatestInv
  BY <1>0 DEF ManagerInit, Init, LatestInv, Terminal
<1> QED BY <1>0, <1>1, <1>2, <1>3 DEF OrderInv

LEMMA StepOrder == OrderInv /\ [ManagerNext]_mvars => OrderInv'
<1> SUFFICES ASSUME OrderInv, [ManagerNext]_mvars PROVE OrderInv'
  OBVIOUS
<1>0. ManagerInv /\ AttemptInv /\ StampInv /\ Inv /\ LoopInv
  BY DEF OrderInv, ManagerInv
<1>1. ManagerInv' /\ StampInv'
  BY <1>0, StepManager, StepStamp
<1>2. AttemptInv'
  BY <1>0, PoolStep, StepAttempts
<1>3. Roomy => LatestInv'
  BY StepLatest
<1> QED BY <1>1, <1>2, <1>3 DEF OrderInv, Roomy

\* When m.results has room for every attempt, the result kept of a settled job of the first
\* call is that of its last attempt, once none is under way: the collector, the channel and
\* the direct write of a full channel never let an older result overwrite a newer one.
THEOREM StoredLatest == ManagerSpec => []StoredIsLatest
<1>1. OrderInv => StoredIsLatest
  <2> SUFFICES ASSUME OrderInv, call <= 1, Roomy, NEW j \in Jobs, status[j] \in Terminal,
                      ~InTransit(RepoOf(j)), j[2] = 1
               PROVE  stored[RepoOf(j)] = FinalVerdict(j)
    BY DEF StoredIsLatest, Roomy, FinalVerdict
  <2>1. LatestIs(RepoOf(j), FinalVerdict(j))
    BY DEF OrderInv, LatestInv
  <2>2. 1 \in 1..Calls
    OBVIOUS
  <2>3. (\A k \in 1..Len(channel) : channel[k].repo # RepoOf(j)) /\ collecting[1].repo # RepoOf(j)
    BY <2>2 DEF InTransit
  <2> QED BY <2>1, <2>3 DEF LatestIs, Result
<1> QED BY <1>1, InitOrder, StepOrder, PTL DEF ManagerSpec
-----------------------------------------------------------------------------
(***************************************************************************)
(* What can bring the program down: nothing in a first call whose time is  *)
(* not up.  FallbackDoesNotPanic and RetryNeverPanics fail beyond that.    *)
(***************************************************************************)
\* Every call starts the pool once.
LEMMA StartsAreCalls ==
  ASSUME Inv, LoopInv, [ManagerNext]_mvars
  PROVE  \/ UNCHANGED <<starts, call>>
         \/ CallCloneRepositories /\ starts' = starts + 1 /\ call' = call + 1
<1>1. CASE CallCloneRepositories
  BY <1>1 DEF CallCloneRepositories, CallWith, Start
<1>2. CASE SubmitNext \/ GiveUpRepo \/ SubmitAgain \/ SubmitCrashes
  BY <1>2 DEF SubmitNext, GiveUpRepo, SubmitFails, SubmitAgain, SubmitCrashes, NextRepo,
     SubmitAccepted, SubmitRefused, SubmitPanics, SubmitCounts, batch
<1>3. CASE StopPool \/ StartBatch \/ LeaveSpace \/ LeaveWait \/ CollectResult \/ CollectDone
  BY <1>3 DEF StopPool, StopCancel, StopClose, StopFinish, StopUnchanged, StartBatch, LeaveSpace,
     LeaveWait, CollectResult, CollectAs, CollectDone, client, batch, pool, vars
<1>4. CASE ~Caller
  <2>1. call' = call
    BY <1>4, OnlyTheCaller DEF batch
  <2>2. ASSUME NEW w \in Workers, Worker(w) PROVE starts' = starts
    BY <2>2 DEF Worker, WorkInBody, WorkerTakes, WorkerExits, BeginJob, ExecuteSucceeds,
       ExecuteFails, Executed, ScheduleRetry, SpawnRetrier, CountResult, CountWhen,
       SendResult, LeaveJob, shared, client
  <2>3. ASSUME NEW r \in retriers, Retrier(r) PROVE starts' = starts
    BY <2>3 DEF Retrier, TimerFires, RetryCancelled, ReadStopped, ResetStatus, RetryQueued,
       RetryDropped, RetryPanics, RetryUnchanged, shared, client
  <2>4. CASE PoolRuns
    BY <2>1, <2>2, <2>3, <2>4
    DEF PoolRuns, Worker, WorkInBody, ProcessResult, ProcessorExits, shared, client
  <2>5. ASSUME NEW w \in Workers, Task(w) PROVE starts' = starts
    BY <2>2, <2>5 DEF Task, TaskRecords, TaskReturns, Worker, WorkInBody, pool, vars
  <2>6. ASSUME NEW c \in 1..Calls, Collector(c) PROVE starts' = starts
    BY <2>6 DEF Collector, CollectorReceives, CollectorStores, StoreAs, pool, vars
  <2>7. CASE DeadlineExpires \/ UNCHANGED mvars
    BY <2>1, <2>7 DEF DeadlineExpires, mvars, pool, vars
  <2> QED BY <1>4, <2>1, <2>4, <2>5, <2>6, <2>7 DEF ManagerNext, ManagerStep, ManagerTerminated
<1> QED BY <1>1, <1>2, <1>3, <1>4 DEF Caller

\* The calling goroutine panics in its Submit only, the other goroutines elsewhere.
LEMMA SubmitPanicsHere ==
  ASSUME LoopInv, [ManagerNext]_mvars, crashed' # crashed, crashed' = "submit"
  PROVE  at = "submit"
<1>1. CASE CallCloneRepositories \/ StopPool
  BY <1>1 DEF CallCloneRepositories, CallWith, Start, StopPool, StopCancel, StopClose, StopFinish,
     StopUnchanged, pool, vars
<1>2. CASE StartBatch \/ LeaveSpace \/ LeaveWait \/ CollectResult \/ CollectDone
  BY <1>2 DEF StartBatch, LeaveSpace, LeaveWait, CollectResult, CollectAs, CollectDone, pool, vars
<1>3. CASE SubmitNext \/ GiveUpRepo \/ SubmitAgain \/ SubmitCrashes
  BY <1>3 DEF SubmitNext, GiveUpRepo, SubmitFails, SubmitAgain, SubmitCrashes
<1>4. ASSUME NEW w \in Workers, Worker(w) PROVE FALSE
  BY <1>4 DEF Worker, WorkInBody, WorkerTakes, WorkerExits, BeginJob, ExecuteSucceeds,
     ExecuteFails, Executed, ScheduleRetry, SpawnRetrier, CountResult, CountWhen,
     SendResult, LeaveJob
<1>5. ASSUME NEW r \in retriers, Retrier(r) PROVE FALSE
  BY <1>5 DEF Retrier, TimerFires, RetryCancelled, ReadStopped, ResetStatus, RetryQueued,
     RetryDropped, RetryPanics, RetryUnchanged
<1>6. CASE PoolRuns
  BY <1>4, <1>5, <1>6 DEF PoolRuns, Worker, WorkInBody, ProcessResult, ProcessorExits
<1>7. ASSUME NEW w \in Workers, Task(w) PROVE FALSE
  BY <1>4, <1>7 DEF Task, TaskRecords, TaskReturns, Worker, WorkInBody, pool, vars
<1>8. ASSUME NEW c \in 1..Calls, Collector(c) PROVE FALSE
  BY <1>8 DEF Collector, CollectorReceives, CollectorStores, StoreAs, pool, vars
<1>9. CASE DeadlineExpires \/ UNCHANGED mvars
  BY <1>9 DEF DeadlineExpires, mvars, pool, vars
<1> QED BY <1>1, <1>2, <1>3, <1>6, <1>7, <1>8, <1>9 DEF Caller, ManagerNext, ManagerStep, ManagerTerminated

\* In the first call the pool is open until all is collected, and when the deadline has not
\* cut it short, all accepted jobs are settled by then: no retry goroutine is left.
OpenInv ==
  /\ starts = call
  /\ call <= 1 /\ life # "open" => call = 1 /\ at \in {"stop", "main"}
  /\ call = 1 /\ at \in {"stop", "main"} /\ ~deadline => \A j \in accepted : status[j] \in Terminal

LEMMA StepOpen == ManagerInv /\ OpenInv /\ [ManagerNext]_mvars => OpenInv'
<1> SUFFICES ASSUME ManagerInv, OpenInv, [ManagerNext]_mvars PROVE OpenInv'
  OBVIOUS
<1>0. Inv /\ LoopInv /\ FirstCallOnly /\ WaitInv /\ call \in Nat /\ accepted \subseteq Jobs
  <2>1. Inv /\ LoopInv /\ FirstCallOnly /\ WaitInv
    BY DEF ManagerInv
  <2>2. call \in Nat
    BY <2>1 DEF LoopInv, ManagerTypeOK
  <2>3. accepted \subseteq Jobs
    BY <2>1 DEF Inv, TypeInv, TypeOK
  <2> QED BY <2>1, <2>2, <2>3
<1>1. starts' = call'
  BY <1>0, StartsAreCalls DEF OpenInv
<1>2. call' <= 1 /\ life' # "open" => call' = 1 /\ at' \in {"stop", "main"}
  <2>1. CASE CallCloneRepositories
    <3>1. life' = life /\ call' = call + 1
      BY <2>1 DEF CallCloneRepositories, CallWith, Start
    <3>2. call' <= 1 => life = "open"
      BY <1>0, <3>1 DEF OpenInv
    <3> QED BY <3>1, <3>2
  <2>2. CASE StopPool
    <3>1. call' = call /\ at' \in {"stop", "main"} /\ call >= 1
      BY <1>0, <2>2 DEF StopPool, batch, LoopInv
    <3> QED BY <1>0, <3>1
  <2>3. CASE ~Caller
    BY <2>3, <1>0, OnlyTheCaller DEF OpenInv, batch
  <2>4. CASE /\ SubmitNext \/ GiveUpRepo \/ SubmitAgain \/ SubmitCrashes \/ StartBatch \/ LeaveSpace
                \/ LeaveWait \/ CollectResult \/ CollectDone
             /\ Caller
    <3>1. call' = call /\ at \notin {"stop", "main"}
      BY <2>4 DEF SubmitNext, GiveUpRepo, SubmitFails, SubmitAgain, SubmitCrashes, StartBatch, LeaveSpace,
         LeaveWait, CollectResult, CollectAs, CollectDone, NextRepo, batch
    <3>2. life' = life
      BY <2>4, <3>1, CallerFacts
    <3> QED BY <3>1, <3>2 DEF OpenInv
  <2> QED BY <2>1, <2>2, <2>3, <2>4 DEF Caller
<1>3. ASSUME call' = 1, at' \in {"stop", "main"}, ~deadline', NEW j \in accepted'
      PROVE  status'[j] \in Terminal
  <2>0. ~deadline
    BY <1>3, DeadlineStays
  <2>1. CASE at \in {"stop", "main"} /\ UNCHANGED <<accepted, call>>
    <3>1. status[j] \in Terminal /\ j \in Jobs
      BY <1>0, <1>3, <2>0, <2>1 DEF OpenInv
    <3> QED BY <1>0, <3>1, TerminalStays
  <2>2. CASE StopPool
    <3>1. at = "stop" /\ UNCHANGED <<accepted, call>>
      BY <2>2 DEF StopPool, StopCancel, StopClose, StopFinish, StopUnchanged, client, batch, pool, vars
    <3> QED BY <2>1, <3>1
  <2>3. CASE CollectDone
    <3>1. at = "collect" /\ UNCHANGED <<accepted, call, status>>
      BY <2>3 DEF CollectDone, batch, pool, vars
    <3>2. j[2] = call
      BY <1>0, <1>3, <3>1 DEF FirstCallOnly
    <3> QED BY <1>0, <1>3, <2>0, <3>1, <3>2 DEF WaitInv
  <2>4. CASE StartBatch
    BY <1>3, <2>0, <2>4 DEF StartBatch
  <2>5. CASE ~Caller
    BY <1>3, <2>1, <2>5, <1>0, OnlyTheCaller DEF batch
  <2>6. ASSUME CallCloneRepositories \/ SubmitNext \/ GiveUpRepo \/ SubmitAgain \/ LeaveSpace
               \/ LeaveWait
        PROVE  FALSE
    BY <1>3, <2>6 DEF CallCloneRepositories, CallWith, SubmitNext, GiveUpRepo, SubmitFails,
       SubmitAgain, LeaveSpace, LeaveWait, NextRepo
  <2>7. ASSUME SubmitCrashes \/ CollectResult PROVE FALSE
    BY <1>3, <2>7 DEF SubmitCrashes, CollectResult, CollectAs
  <2> QED BY <2>2, <2>3, <2>4, <2>5, <2>6, <2>7 DEF Caller
<1> QED BY <1>1, <1>2, <1>3 DEF OpenInv

\* In a first call no Submit meets a closed queue and no worker a closed p.results; a retry
\* goroutine can, once the deadline has let Stop come before the last retry.
FirstCallSafe == call <= 1 => /\ FallbackDoesNotPanic /\ crashed # "result"
                              /\ ~deadline => crashed = "no"

LEMMA StepSafe ==
  ManagerInv /\ OpenInv /\ StoppedMeansNoWorker /\ FirstCallSafe /\ [ManagerNext]_mvars
  => FirstCallSafe'
<1> SUFFICES ASSUME ManagerInv, OpenInv, StoppedMeansNoWorker, FirstCallSafe, [ManagerNext]_mvars,
                    call' <= 1
             PROVE  crashed' \notin {"submit", "result"} /\ (~deadline' => crashed' = "no")
  BY DEF FirstCallSafe, FallbackDoesNotPanic
<1>0. Inv /\ LoopInv /\ call \in Nat /\ starts = call
  <2>1. Inv /\ LoopInv
    BY DEF ManagerInv
  <2> QED BY <2>1 DEF LoopInv, ManagerTypeOK, OpenInv
<1>1. call <= 1 /\ (deadline => deadline')
  BY <1>0, StartsAreCalls, DeadlineStays
<1>2. CASE crashed' = crashed
  BY <1>1, <1>2 DEF FirstCallSafe, FallbackDoesNotPanic
<1>3. CASE crashed' # crashed
  <2>1. /\ \/ crashed' = "submit" /\ JobsClosed
           \/ crashed' = "retry" /\ JobsClosed /\ \E r \in retriers : r.at = "send"
           \/ crashed' = "result" /\ ResultsClosed /\ \E w \in Workers : pc[w] = "send"
    BY <1>0, <1>3, PoolStep, Crashes
  <2>2. crashed' # "submit"
    <3> SUFFICES ASSUME crashed' = "submit" PROVE FALSE
      OBVIOUS
    <3>1. at = "submit" /\ life # "open"
      BY <1>0, <1>3, <2>1, SubmitPanicsHere DEF JobsClosed
    <3> QED BY <1>1, <3>1 DEF OpenInv
  <2>3. crashed' # "result"
    BY <1>0, <1>1, <2>1 DEF StoppedMeansNoWorker, Stopped, ResultsClosed, Exited
  <2>4. ASSUME ~deadline', crashed' = "retry" PROVE FALSE
    <3>1. PICK r \in retriers : r.at = "send"
      BY <2>1, <2>4
    <3>2. r.job \in accepted /\ status[r.job] = "pending"
      BY <1>0, <3>1 DEF Inv, PlacesConsistent, RetrierConsistent
    <3>3. call = 1 /\ at \in {"stop", "main"} /\ ~deadline
      BY <1>1, <2>1, <2>4 DEF OpenInv, JobsClosed
    <3> QED BY <3>2, <3>3 DEF OpenInv, Terminal
  <2> QED BY <2>1, <2>2, <2>3, <2>4
<1> QED BY <1>2, <1>3

\* A bulk clone cannot bring the program down: in the first call neither Submit nor a worker
\* ever sends on a closed channel, and as long as the time is not up no goroutine does.
THEOREM FirstCallCannotPanic ==
  ManagerSpec => []FirstCallSafe
<1>1. ManagerInit => OpenInv /\ FirstCallSafe
  BY DEF ManagerInit, Init, OpenInv, FirstCallSafe, FallbackDoesNotPanic
<1> QED BY <1>1, InitManager, StepManager, StepOpen, StepSafe, ManagerRunsPool, StoppedIsQuiet, PTL
        DEF ManagerSpec

\* The HTTPS fallback clones nothing: whatever it submits, the pool never accepts a job of a
\* second call.
THEOREM FallbackAcceptsNone == ManagerSpec => [](\A j \in accepted : j[2] = 1)
<1>1. ManagerInv => \A j \in accepted : j[2] = 1
  BY DEF ManagerInv, FirstCallOnly
<1> QED BY <1>1, InitManager, StepManager, PTL DEF ManagerSpec
===============================================================================
