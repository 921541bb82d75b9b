------------------------ MODULE CompletionMonitorProofs ------------------------
(***************************************************************************)
(* Theorems about CompletionMonitor, for any number of jobs and workers,   *)
(* any delays, any thresholds in the code's order and any pauses.          *)
(*                                                                         *)
(* The first section proves induction over the naturals, and that a        *)
(* function defined by recursion exists, for sets and functions in place   *)
(* of the library's predicates: a predicate P is the set {n \in Nat :      *)
(* P(n)}.                                                                  *)
(***************************************************************************)
EXTENDS CompletionMonitor, FiniteSetTheorems, WellFoundedInduction, TLAPS

\* A set of naturals that is not empty has a least member.
LEMMA LeastNatural ==
  ASSUME NEW S \in SUBSET Nat, S # {}
  PROVE  \E n \in S : \A m \in S : n <= m
<1>1. \E n \in S : \A m \in S : ~(<<m, n>> \in OpToRel(<, Nat))
  BY NatLessThanWellFounded, WFMin, Zenon
<1>2. PICK n \in S : \A m \in S : ~(<<m, n>> \in OpToRel(<, Nat))
  BY <1>1, Zenon
<1>3. ASSUME NEW m \in S PROVE n <= m
  <2>1. ~(m < n)
    BY <1>2, Zenon DEF OpToRel
  <2> QED BY <2>1
<1> QED BY <1>3

\* Induction, over the set of the naturals of which something holds.
LEMMA Induction ==
  ASSUME NEW T \in SUBSET Nat, 0 \in T, \A n \in T : n + 1 \in T
  PROVE  T = Nat
<1> SUFFICES ASSUME Nat \ T # {} PROVE FALSE
  OBVIOUS
<1>1. PICK n \in Nat \ T : \A m \in Nat \ T : n <= m
  BY LeastNatural
<1>2. n # 0 /\ n - 1 \in Nat
  BY <1>1
<1>3. n - 1 \in T
  BY <1>1, <1>2
<1>4. (n - 1) + 1 \in T
  BY <1>3
<1> QED BY <1>2, <1>4, <1>1

\* g is the function defined by recursion: base, and F[n] applied to what came before.
Repeated(N, base, F, g) == g = [n \in 0..N |-> IF n = 0 THEN base ELSE F[n][g[n - 1]]]

\* There is one, with its values where base and F keep them.
LEMMA Recursion ==
  ASSUME NEW X, NEW base \in X, NEW N \in Nat, NEW F \in [1..N -> [X -> X]]
  PROVE  \E g \in [0..N -> X] : Repeated(N, base, F, g)
<1> DEFINE T == {m \in Nat : m <= N => \E g \in [0..m -> X] : Repeated(m, base, F, g)}
<1>1. 0 \in T
  <2> DEFINE g == [n \in 0..0 |-> base]
  <2>1. g \in [0..0 -> X]
    OBVIOUS
  <2>2. Repeated(0, base, F, g)
    BY DEF Repeated
  <2> QED BY <2>1, <2>2
<1>2. ASSUME NEW m \in T PROVE m + 1 \in T
  <2> SUFFICES ASSUME m + 1 <= N PROVE \E g \in [0..(m + 1) -> X] : Repeated(m + 1, base, F, g)
    OBVIOUS
  <2>1. PICK g \in [0..m -> X] : Repeated(m, base, F, g)
    OBVIOUS
  <2>2. PICK h : h = [n \in 0..(m + 1) |-> IF n <= m THEN g[n] ELSE F[m + 1][g[m]]]
    OBVIOUS
  <2>3. F[m + 1][g[m]] \in X
    <3>1. m + 1 \in 1..N /\ m \in 0..m
      OBVIOUS
    <3>2. F[m + 1] \in [X -> X] /\ g[m] \in X
      BY <3>1
    <3> QED BY <3>2
  <2>4. h \in [0..(m + 1) -> X]
    BY <2>2, <2>3
  <2>5. ASSUME NEW n \in 0..(m + 1) PROVE h[n] = IF n = 0 THEN base ELSE F[n][h[n - 1]]
    <3>1. CASE n <= m
      <4>1. h[n] = g[n] /\ n \in 0..m
        BY <2>2, <3>1
      <4>2. g[n] = IF n = 0 THEN base ELSE F[n][g[n - 1]]
        BY <2>1, <4>1 DEF Repeated
      <4>3. n # 0 => h[n - 1] = g[n - 1]
        BY <2>2, <3>1
      <4> QED BY <4>1, <4>2, <4>3
    <3>2. CASE n = m + 1
      <4>1. h[n] = F[m + 1][g[m]] /\ h[n - 1] = g[m] /\ n # 0
        BY <2>2, <3>2
      <4> QED BY <4>1, <3>2
    <3> QED BY <3>1, <3>2
  <2>6. Repeated(m + 1, base, F, h)
    BY <2>4, <2>5 DEF Repeated
  <2> QED BY <2>4, <2>6
<1>3. T = Nat
  <2> HIDE DEF T
  <2>1. T \in SUBSET Nat
    BY DEF T
  <2> QED BY <1>1, <1>2, <2>1, Induction
<1> QED BY <1>3

-----------------------------------------------------------------------------
USE RetriesAssumption, QueueAssumption, ThresholdAssumption

Settled == {j \in Jobs : jobAt[j] = "done"}

\* What the count rests on: nobody is counted before the wait, and only submitted jobs are
\* anywhere at all.
CountInv ==
  /\ submitted \subseteq Jobs
  /\ jobAt \in [Jobs -> Places]
  /\ completed \in Nat /\ failed \in Nat
  /\ monitor = "off" => completed = 0 /\ failed = 0
  /\ \A j \in Jobs : j \notin submitted => jobAt[j] = "none"
  /\ CountedOnce

LEMMA SettledFinite == ASSUME NEW S \in SUBSET Jobs PROVE IsFiniteSet(S)
<1>1. 1 \in Int /\ MaxJobs \in Int
  BY RetriesAssumption
<1>2. IsFiniteSet(Jobs)
  BY <1>1, FS_Interval DEF Jobs
<1> QED BY <1>2, FS_Subset

LEMMA InitCounts == ClockInit => CountInv
<1> SUFFICES ASSUME ClockInit PROVE CountInv
  OBVIOUS
<1>1. Settled = {}
  BY DEF Settled, ClockInit
<1>2. Cardinality(Settled) = 0
  BY <1>1, FS_EmptySet
<1> QED BY <1>2 DEF CountInv, CountedOnce, Settled, ClockInit, Done, Places

\* A step that settles no job, leaves the counters alone and does not end the wait.
LEMMA NotSettling ==
  ASSUME CountInv, submitted' = submitted, UNCHANGED countVars,
         jobAt' \in [Jobs -> Places],
         \A j \in Jobs : /\ jobAt[j] = "done" <=> jobAt'[j] = "done"
                         /\ j \notin submitted => jobAt'[j] = "none",
         monitor' = "off" => monitor = "off",
         monitor' = "all completed" => monitor = "all completed"
  PROVE  CountInv'
<1>1. Settled' = Settled
  BY DEF Settled
<1>2. Done' = Done
  BY DEF Done, countVars
<1>3. Done' = Cardinality(Settled')
  BY <1>1, <1>2 DEF CountInv, CountedOnce, Settled
<1>4. \A j \in Jobs : j \notin submitted' => jobAt'[j] = "none"
  BY DEF CountInv
<1>5. monitor' = "all completed" => \A j \in submitted' : jobAt'[j] = "done"
  BY DEF CountInv, CountedOnce
<1> QED BY <1>3, <1>4, <1>5 DEF CountInv, CountedOnce, Settled, countVars

\* A step that settles one job and counts it.
LEMMA Settling ==
  ASSUME CountInv, NEW j \in Jobs, Watched, jobAt[j] # "done", jobAt[j] # "none",
         Move(j, "done"), UNCHANGED watchVars,
         \/ completed' = completed + 1 /\ failed' = failed
         \/ failed' = failed + 1 /\ completed' = completed
  PROVE  CountInv'
<1>1. Settled' = Settled \cup {j} /\ j \notin Settled
  BY DEF Settled, Move, CountInv
<1>2. Cardinality(Settled') = Cardinality(Settled) + 1
  BY <1>1, SettledFinite, FS_AddElement DEF Settled
<1>3. Done' = Done + 1 /\ Done = Cardinality(Settled)
  <2>1. completed \in Nat /\ failed \in Nat
    BY DEF CountInv
  <2>2. Done' = Done + 1
    BY <2>1 DEF Done
  <2> QED BY <2>2 DEF CountInv, CountedOnce, Settled
<1>4. Done' = Cardinality(Settled')
  BY <1>2, <1>3
<1>5. jobAt' \in [Jobs -> Places]
  BY DEF Move, CountInv, Places
<1>6. \A k \in Jobs : k \notin submitted' => jobAt'[k] = "none"
  BY DEF Move, CountInv, watchVars
<1>7. monitor' # "off" /\ monitor' # "all completed"
  BY DEF Watched, watchVars
<1>8. completed' \in Nat /\ failed' \in Nat /\ submitted' \subseteq Jobs
  BY DEF CountInv, watchVars
<1> QED BY <1>4, <1>5, <1>6, <1>7, <1>8 DEF CountInv, CountedOnce, Settled

\* Before the submission there is no job anywhere.
LEMMA BeginCounts ==
  ASSUME CountInv, monitor = "off" => submitted = {}, NEW n \in 0..MaxJobs, BeginSubmission(1..n)
  PROVE  CountInv'
<1>1. 1..n \subseteq Jobs /\ submitted' = 1..n /\ monitor' \in {"submitting", "waiting"}
  BY DEF Jobs, BeginSubmission
<1>2. jobAt' = jobAt /\ completed' = completed /\ failed' = failed
  BY DEF BeginSubmission, jobVars, countVars
<1>3. \A j \in Jobs : jobAt[j] = "none"
  BY DEF BeginSubmission, CountInv
<1>4. Settled' = Settled /\ Done' = Done
  BY <1>2 DEF Settled, Done
<1> QED BY <1>1, <1>2, <1>3, <1>4 DEF CountInv, CountedOnce, Settled

LEMMA JobCounts ==
  ASSUME CountInv, NEW j \in Jobs, JobStep(j)
  PROVE  CountInv'
<1>0. CASE SubmitJob(j)
  <2>1. jobAt' = [jobAt EXCEPT ![j] = "queue"] /\ jobAt[j] = "none" /\ j \in submitted
    BY <1>0 DEF SubmitJob, Move
  <2>2. UNCHANGED watchVars /\ UNCHANGED countVars
    BY <1>0 DEF SubmitJob
  <2>3. jobAt' \in [Jobs -> Places]
    BY <2>1 DEF CountInv, Places
  <2> QED BY <2>1, <2>2, <2>3, NotSettling DEF CountInv, watchVars
<1>1. CASE Execute(j)
  BY <1>1, NotSettling DEF Execute, At, Move, Watched, CountInv, watchVars, Places
<1>2. CASE Succeeds(j)
  BY <1>2, Settling DEF Succeeds, At
<1>3. CASE Fails(j)
  BY <1>3, NotSettling DEF Fails, At, Move, Watched, CountInv, watchVars, Places
<1>4. CASE ScheduleRetry(j)
  BY <1>4, NotSettling DEF ScheduleRetry, At, Move, Watched, CountInv, watchVars, Places
<1>5. CASE FailsFinally(j)
  BY <1>5, Settling DEF FailsFinally, At
<1>6. CASE Resubmit(j) \/ DropRetry(j)
  BY <1>6, NotSettling DEF Resubmit, DropRetry, RetryAs, At, Move, Watched, CountInv, watchVars,
                          Places
<1> QED BY <1>0, <1>1, <1>2, <1>3, <1>4, <1>5, <1>6 DEF JobStep

\* "All completed" is concluded from the counters; that it is true needs the count.
LEMMA LookCounts ==
  ASSUME CountInv, Look
  PROVE  CountInv'
<1>1. CASE AllDone
  <2>1. Settled \subseteq submitted
    BY DEF Settled, CountInv
  <2>2. Cardinality(Settled) = Done /\ Done >= Cardinality(submitted)
    BY <1>1 DEF AllDone, CountInv, CountedOnce, Settled
  <2>3. IsFiniteSet(submitted) /\ Cardinality(submitted) \in Nat /\ Cardinality(Settled) \in Nat
    BY SettledFinite, FS_CardinalityType DEF CountInv, Settled
  <2>4. Cardinality(Settled) <= Cardinality(submitted)
        /\ (Cardinality(submitted) = Cardinality(Settled) => submitted = Settled)
    BY <2>1, <2>3, FS_Subset
  <2>5. submitted = Settled
    BY <2>2, <2>3, <2>4
  <2>6. Settled' = Settled /\ Done' = Done /\ submitted' = submitted /\ jobAt' = jobAt
    BY DEF Look, jobVars, countVars, Settled, Done
  <2>7. \A j \in submitted' : jobAt'[j] = "done"
    BY <2>5, <2>6 DEF Settled
  <2>8. Done' = Cardinality(Settled')
    BY <2>2, <2>6
  <2>9. monitor' # "off"
    BY DEF Look, Outcome
  <2> QED BY <2>6, <2>7, <2>8, <2>9 DEF CountInv, CountedOnce, Settled, Look, countVars
<1>2. CASE ~AllDone
  <2>1. Outcome \notin {"off", "all completed"}
    BY <1>2 DEF Outcome
  <2>2. monitor' \notin {"off", "all completed"}
    BY <2>1 DEF Look
  <2> QED BY <2>2, NotSettling DEF Look, jobVars, CountInv
<1> QED BY <1>1, <1>2

\* Nothing is submitted before the submission.
NoneBefore == monitor = "off" => submitted = {}

LEMMA InitNone == ClockInit => NoneBefore
BY DEF ClockInit, NoneBefore

LEMMA StepNone == NoneBefore /\ [ClockNext]_cvars => NoneBefore'
<1> SUFFICES ASSUME NoneBefore, [ClockNext]_cvars PROVE NoneBefore'
  OBVIOUS
<1>1. ASSUME NEW j \in Jobs, JobStep(j) PROVE UNCHANGED watchVars
  BY <1>1 DEF JobStep, SubmitJob, Execute, Succeeds, Fails, ScheduleRetry, FailsFinally, Resubmit,
              DropRetry, RetryAs
<1>2. ASSUME submitted' = submitted, monitor' = "off" => monitor = "off" PROVE NoneBefore'
  BY <1>2 DEF NoneBefore
<1>3. CASE \E jobs \in {1..n : n \in 0..MaxJobs} : BeginSubmission(jobs)
  BY <1>3 DEF BeginSubmission, NoneBefore
<1>4. CASE \E j \in Jobs : JobStep(j)
  BY <1>1, <1>2, <1>4 DEF watchVars
<1>5. CASE Elapse \/ Paused \/ UNCHANGED cvars
  BY <1>2, <1>5 DEF Elapse, Paused, cvars, watchVars
<1>6. CASE LookForSpace \/ KillsDone \/ DeadlineEnds
  BY <1>2, <1>6 DEF LookForSpace, KillsDone, DeadlineEnds
<1>7. CASE Look
  BY <1>2, <1>7 DEF Look, Outcome
<1>8. CASE \E j \in Jobs : ForceKill(j)
  BY <1>2, <1>8 DEF ForceKill, Kill
<1> QED BY <1>3, <1>4, <1>5, <1>6, <1>7, <1>8 DEF ClockNext, Monitor

LEMMA StepCounts == CountInv /\ NoneBefore /\ [ClockNext]_cvars => CountInv'
<1> SUFFICES ASSUME CountInv, NoneBefore, [ClockNext]_cvars PROVE CountInv'
  OBVIOUS
<1>1. CASE \E jobs \in {1..n : n \in 0..MaxJobs} : BeginSubmission(jobs)
  BY <1>1, BeginCounts DEF NoneBefore
<1>2. CASE \E j \in Jobs : JobStep(j)
  BY <1>2, JobCounts
<1>3. CASE Elapse
  BY <1>3, NotSettling DEF Elapse, watchVars, CountInv
<1>4. CASE Paused
  BY <1>4, NotSettling DEF Paused, watchVars, CountInv
<1>5. CASE Look
  BY <1>5, LookCounts
<1>6. ASSUME NEW j \in Jobs, ForceKill(j) PROVE CountInv'
  <2>1. UNCHANGED <<submitted, jobAt, completed, monitor>> /\ failed' = failed
    BY <1>6 DEF ForceKill, Kill, CountInv
  <2> QED BY <2>1, NotSettling DEF countVars, CountInv
<1>7. CASE KillsDone
  BY <1>7, NotSettling DEF KillsDone, jobVars, CountInv
<1>8. CASE DeadlineEnds
  BY <1>8, NotSettling DEF DeadlineEnds, jobVars, CountInv
<1>9. CASE UNCHANGED cvars
  BY <1>9, NotSettling DEF cvars, watchVars, jobVars, CountInv
<1>10. CASE LookForSpace
  BY <1>10, NotSettling DEF LookForSpace, jobVars, CountInv
<1> QED BY <1>1, <1>2, <1>3, <1>4, <1>5, <1>6, <1>7, <1>8, <1>9, <1>10 DEF ClockNext, Monitor

\* When the counters say that all is done, it is: retries, and jobs that are marked as
\* failed behind their workers' backs, are counted once.
THEOREM NoneCountedTwice == ClockSpec => []CountedOnce
<1>1. CountInv => CountedOnce
  BY DEF CountInv
<1> QED BY InitCounts, StepCounts, InitNone, StepNone, <1>1, PTL DEF ClockSpec
-----------------------------------------------------------------------------
\* The clock of the stall detection, unless the program has stood still: it has reached at
\* most the time of a report, and then the tick is there at which the report starts it again.
StallClock ==
  /\ idle \in Nat
  /\ monitor = "waiting" => slept \/ idle < Report \/ (ticked /\ idle <= Report)

LEMMA LaterType ==
  ASSUME NEW c \in Nat, NEW d \in Nat
  PROVE  Later(c, d) \in Nat /\ Later(c, d) <= c + d
BY DEF Later, AtMost, Latest

LEMMA InitStall == ClockInit => StallClock
<1> SUFFICES ASSUME ClockInit PROVE StallClock
  OBVIOUS
<1>1. idle = 0 /\ monitor = "off"
  BY DEF ClockInit
<1> QED BY <1>1 DEF StallClock

LEMMA StepStall == StallClock /\ [ClockNext]_cvars => StallClock'
<1> SUFFICES ASSUME StallClock, [ClockNext]_cvars PROVE StallClock'
  OBVIOUS
<1>0. idle \in Nat
  BY DEF StallClock
<1>1. ASSUME NEW jobs, BeginSubmission(jobs) PROVE StallClock'
  <2>1. idle' = 0
    BY <1>1 DEF BeginSubmission
  <2> QED BY <2>1 DEF StallClock
<1>2. ASSUME NEW j \in Jobs, JobStep(j) PROVE StallClock'
  <2>1. UNCHANGED clockVars /\ UNCHANGED watchVars
    BY <1>2 DEF JobStep, SubmitJob, Execute, Succeeds, Fails, ScheduleRetry, FailsFinally, Resubmit,
                DropRetry, RetryAs
  <2> QED BY <2>1 DEF clockVars, watchVars, StallClock
<1>3. CASE Elapse
  <2>1. idle' \in Nat /\ idle' <= idle + 1
    BY <1>0, <1>3, LaterType DEF Elapse
  <2>2. ~ticked /\ ticked' /\ slept' = slept /\ monitor' = monitor
    BY <1>3 DEF Elapse, watchVars
  <2>3. monitor = "waiting" => slept \/ idle < Report
    BY <2>2 DEF StallClock
  <2>4. idle < Report => idle' <= Report
    BY <1>0, <2>1
  <2> QED BY <2>1, <2>2, <2>3, <2>4 DEF StallClock
<1>4. CASE Paused
  <2>1. PICK d \in {Idle, Stuck, MaxStuck} : idle' = Later(idle, d)
    BY <1>4 DEF Paused
  <2>2. d \in Nat
    OBVIOUS
  <2>3. idle' \in Nat
    BY <1>0, <2>1, <2>2, LaterType
  <2>4. slept' = TRUE
    BY <1>4 DEF Paused
  <2> QED BY <2>3, <2>4 DEF StallClock
<1>5. CASE Look
  <2>1. idle' = (IF ProgressReset THEN 0 ELSE idle)
    BY <1>5 DEF Look
  <2>2. ~ProgressReset => idle < Report
    BY <1>0 DEF ProgressReset
  <2>3. idle' \in Nat /\ idle' < Report
    BY <1>0, <2>1, <2>2
  <2> QED BY <2>3 DEF StallClock
<1>6. ASSUME NEW j \in Jobs, ForceKill(j) PROVE StallClock'
  BY <1>6 DEF ForceKill, Kill, clockVars, StallClock
<1>7. CASE KillsDone
  BY <1>7 DEF KillsDone, clockVars, StallClock
<1>8. CASE DeadlineEnds
  BY <1>8 DEF DeadlineEnds, clockVars, StallClock
<1>9. CASE UNCHANGED cvars
  BY <1>9 DEF cvars, clockVars, watchVars, StallClock
<1>10. CASE LookForSpace
  <2>1. idle' = 0
    BY <1>10 DEF LookForSpace
  <2> QED BY <2>1 DEF StallClock
<1> QED BY <1>1, <1>2, <1>3, <1>4, <1>5, <1>6, <1>7, <1>8, <1>9, <1>10 DEF ClockNext, Monitor

LEMMA AfterReport ==
  ASSUME NEW time \in Nat, time >= Idle \/ time >= MaxStuck
  PROVE  ~(time < Report) /\ ~(time <= Report)
BY ThresholdAssumption

LEMMA StepWaits ==
  ASSUME StallClock, [ClockNext]_cvars,
         monitor = "waiting", monitor' \in {"no active jobs", "killing"}
  PROVE  slept
<1>1. Look
  <2>1. ASSUME NEW j \in Jobs, JobStep(j) PROVE monitor' = monitor
    BY <2>1 DEF JobStep, SubmitJob, Execute, Succeeds, Fails, ScheduleRetry, FailsFinally, Resubmit,
                DropRetry, RetryAs, watchVars
  <2>2. ASSUME NEW j \in Jobs, ForceKill(j) PROVE FALSE
    BY <2>2 DEF ForceKill, Kill
  <2>3. ~KillsDone /\ ~DeadlineEnds /\ ~LookForSpace
    BY DEF KillsDone, DeadlineEnds, LookForSpace
  <2>4. ASSUME NEW jobs, BeginSubmission(jobs) PROVE FALSE
    BY <2>4 DEF BeginSubmission
  <2>5. Elapse \/ Paused \/ UNCHANGED cvars => monitor' = monitor
    BY DEF Elapse, Paused, cvars, watchVars
  <2> QED BY <2>1, <2>2, <2>3, <2>4, <2>5 DEF ClockNext, Monitor
<1>2. NothingActive \/ StuckTooLong
  <2>1. Outcome \in {"no active jobs", "killing"}
    BY <1>1 DEF Look
  <2> QED BY <2>1 DEF Outcome
<1>3. idle \in Nat /\ (idle >= Idle \/ idle >= MaxStuck)
  BY <1>2, Zenon DEF NothingActive, StuckTooLong, StallClock
<1>4. ~(idle < Report) /\ ~(idle <= Report)
  BY <1>3, AfterReport
<1> QED BY <1>4 DEF StallClock

\* The wait gives up on unfinished jobs only when the program has stood still.
THEOREM NeverGivesUp == ClockSpec => KeepsWaiting
<1>1. StallClock /\ [ClockNext]_cvars =>
        [monitor = "waiting" /\ monitor' \in {"no active jobs", "killing"} => slept]_cvars
  BY StepWaits
<1> QED BY InitStall, StepStall, <1>1, PTL DEF ClockSpec, KeepsWaiting
-----------------------------------------------------------------------------
\* A job that has met a limit, and has seen no success since, finds the flag set.
FlagInv == hit # {} => limited

\* Every job has a delay: the update of one is an update.
DelayInv == DOMAIN delay = Jobs /\ delay = [j \in Jobs |-> delay[j]]

LEMMA InitFlag == ClockInit => FlagInv
BY DEF ClockInit, FlagInv

LEMMA InitDelay == ClockInit => DelayInv
BY DEF ClockInit, DelayInv

LEMMA StepDelay == DelayInv /\ [ClockNext]_cvars => DelayInv'
<1> SUFFICES ASSUME DelayInv, [ClockNext]_cvars PROVE DelayInv'
  OBVIOUS
<1>1. ASSUME NEW j \in Jobs, ScheduleRetry(j) PROVE DelayInv'
  <2>1. PICK d : delay' = [delay EXCEPT ![j] = d]
    BY <1>1 DEF ScheduleRetry
  <2> QED BY <2>1 DEF DelayInv
<1>2. ASSUME delay' = delay PROVE DelayInv'
  BY <1>2 DEF DelayInv
<1>3. ASSUME NEW j \in Jobs, JobStep(j) PROVE DelayInv'
  BY <1>1, <1>2, <1>3 DEF JobStep, SubmitJob, Execute, Succeeds, Fails, FailsFinally, Resubmit,
                          DropRetry, RetryAs
<1> QED BY <1>2, <1>3 DEF ClockNext, Monitor, BeginSubmission, Elapse, Paused, LookForSpace, Look, ForceKill, Kill,
                          KillsDone, DeadlineEnds, cvars, jobVars

LEMMA StepFlag == FlagInv /\ [ClockNext]_cvars => FlagInv'
<1> SUFFICES ASSUME FlagInv, [ClockNext]_cvars PROVE FlagInv'
  OBVIOUS
<1>1. ASSUME NEW j \in Jobs, JobStep(j) PROVE FlagInv'
  <2>1. CASE SubmitJob(j) \/ Execute(j) \/ Succeeds(j) \/ Resubmit(j) \/ DropRetry(j)
    BY <2>1 DEF SubmitJob, Execute, Succeeds, Resubmit, DropRetry, RetryAs, ClearLimit, flagVars,
                FlagInv
  <2>2. CASE Fails(j)
    BY <2>2 DEF Fails, ClearLimit, flagVars, FlagInv
  <2>3. CASE ScheduleRetry(j) \/ FailsFinally(j)
    <3>1. limited' = limited /\ hit' \subseteq hit
      BY <2>3 DEF ScheduleRetry, FailsFinally
    <3> QED BY <3>1 DEF FlagInv
  <2> QED BY <1>1, <2>1, <2>2, <2>3 DEF JobStep
<1>2. ASSUME UNCHANGED flagVars PROVE FlagInv'
  BY <1>2 DEF flagVars, FlagInv
<1> QED BY <1>1, <1>2 DEF ClockNext, Monitor, BeginSubmission, Elapse, Paused, LookForSpace, Look, ForceKill, Kill,
                          KillsDone, DeadlineEnds, cvars

\* Only scheduleRetry puts a failed job on its timer.
LEMMA OnlyRetry ==
  ASSUME CountInv, [ClockNext]_cvars,
         NEW j \in Jobs, jobAt[j] = "error", jobAt'[j] = "timer"
  PROVE  ScheduleRetry(j)
<1>1. ASSUME NEW k \in Jobs, JobStep(k) PROVE ScheduleRetry(j)
  <2>1. jobAt \in [Jobs -> Places]
    BY DEF CountInv
  <2>2. CASE \/ SubmitJob(k) \/ Execute(k) \/ Succeeds(k) \/ Fails(k) \/ FailsFinally(k)
             \/ Resubmit(k) \/ DropRetry(k)
    BY <2>1, <2>2 DEF SubmitJob, Execute, Succeeds, Fails, FailsFinally, Resubmit, DropRetry,
                      RetryAs, At, Move
  <2>3. CASE ScheduleRetry(k)
    <3>1. k = j
      BY <2>1, <2>3 DEF ScheduleRetry, Move
    <3> QED BY <2>3, <3>1
  <2> QED BY <1>1, <2>2, <2>3 DEF JobStep
<1>2. ASSUME NEW jobs, BeginSubmission(jobs) PROVE FALSE
  BY <1>2 DEF BeginSubmission, jobVars
<1>3. jobAt' # jobAt
  OBVIOUS
<1>4. ~Elapse /\ ~Paused /\ ~LookForSpace /\ ~Look /\ ~KillsDone /\ ~DeadlineEnds /\ ~UNCHANGED cvars
  BY <1>3 DEF Elapse, Paused, LookForSpace, Look, KillsDone, DeadlineEnds, cvars, jobVars
<1>5. ASSUME NEW k \in Jobs, ForceKill(k) PROVE FALSE
  BY <1>3, <1>5 DEF ForceKill, Kill
<1> QED BY <1>1, <1>2, <1>4, <1>5 DEF ClockNext, Monitor

\* It looks at the flag.
LEMMA StepHeeds ==
  ASSUME CountInv, FlagInv, DelayInv, [ClockNext]_cvars,
         NEW j \in Jobs, j \in hit, jobAt[j] = "error", jobAt'[j] = "timer"
  PROVE  delay'[j] = RateLimitDelay
<1>1. ScheduleRetry(j)
  BY OnlyRetry
<1>2. limited
  BY DEF FlagInv
<1>3. ScheduledDelays(j) = {RateLimitDelay}
  BY <1>2 DEF ScheduledDelays
<1>4. delay' = [delay EXCEPT ![j] = RateLimitDelay]
  BY <1>1, <1>3 DEF ScheduleRetry
<1> QED BY <1>4 DEF DelayInv

\* A job whose output has spoken of a rate limit is retried after the configured delay, unless
\* a success has cleared the flag of all jobs meanwhile.
THEOREM RateLimitHeeded == ClockSpec => RateLimitIsHeeded
<1>1. CountInv /\ FlagInv /\ DelayInv /\ [ClockNext]_cvars =>
        [\A j \in Jobs : j \in hit /\ jobAt[j] = "error" /\ jobAt'[j] = "timer" =>
            delay'[j] = RateLimitDelay]_cvars
  BY StepHeeds
<1> QED BY InitCounts, StepCounts, InitNone, StepNone, InitFlag, StepFlag, InitDelay, StepDelay, <1>1, PTL
        DEF ClockSpec, RateLimitIsHeeded
-----------------------------------------------------------------------------
(***************************************************************************)
(* The delays.                                                             *)
(***************************************************************************)
\* Backoff is what its definition says, and a natural number after every pass of the loop.
LEMMA BackoffDef ==
  /\ Backoff \in [0..MaxRetries -> Nat]
  /\ Backoff = [i \in 0..MaxRetries |-> IF i = 0 THEN RetryDelay ELSE 2 * Backoff[i - 1]]
<1>1. PICK F : F = [n \in 1..MaxRetries |-> [x \in Nat |-> 2 * x]]
  OBVIOUS
<1>2. F \in [1..MaxRetries -> [Nat -> Nat]]
  BY <1>1
<1>3. PICK g \in [0..MaxRetries -> Nat] : Repeated(MaxRetries, RetryDelay, F, g)
  BY <1>2, Recursion
<1>4. g = [i \in 0..MaxRetries |-> IF i = 0 THEN RetryDelay ELSE 2 * g[i - 1]]
  <2>1. ASSUME NEW i \in 0..MaxRetries, i # 0 PROVE F[i][g[i - 1]] = 2 * g[i - 1]
    BY <1>1, <2>1
  <2> QED BY <1>3, <2>1 DEF Repeated
<1>5. Backoff = [i \in 0..MaxRetries |-> IF i = 0 THEN RetryDelay ELSE 2 * Backoff[i - 1]]
  BY <1>4, Zenon DEF Backoff
<1>6. \A m \in Nat : m <= MaxRetries => Backoff[m] \in Nat
  <2> DEFINE T == {m \in Nat : m <= MaxRetries => Backoff[m] \in Nat}
  <2>1. 0 \in T
    BY <1>5
  <2>2. ASSUME NEW m \in T PROVE m + 1 \in T
    <3> SUFFICES ASSUME m + 1 <= MaxRetries PROVE Backoff[m + 1] \in Nat
      OBVIOUS
    <3>1. Backoff[m] \in Nat /\ m + 1 \in 0..MaxRetries /\ m + 1 # 0 /\ (m + 1) - 1 = m
      OBVIOUS
    <3>2. Backoff[m + 1] = 2 * Backoff[m]
      BY <1>5, <3>1
    <3> QED BY <3>1, <3>2
  <2>3. T = Nat
    <3> HIDE DEF T
    <3>1. T \in SUBSET Nat
      BY DEF T
    <3> QED BY <2>1, <2>2, <3>1, Induction
  <2> QED BY <2>3
<1>7. Backoff \in [0..MaxRetries -> Nat]
  BY <1>5, <1>6
<1> QED BY <1>5, <1>7

\* Each pass doubles the delay, and none makes it shorter than the configured one.
LEMMA BackoffGrows ==
  /\ \A i \in 1..MaxRetries : Backoff[i] = 2 * Backoff[i - 1]
  /\ \A i \in 0..MaxRetries : Backoff[i] >= RetryDelay
<1>1. ASSUME NEW i \in 1..MaxRetries PROVE Backoff[i] = 2 * Backoff[i - 1]
  BY BackoffDef
<1>2. \A m \in Nat : m <= MaxRetries => Backoff[m] >= RetryDelay
  <2> DEFINE T == {m \in Nat : m <= MaxRetries => Backoff[m] >= RetryDelay}
  <2>1. 0 \in T
    BY BackoffDef
  <2>2. ASSUME NEW m \in T PROVE m + 1 \in T
    <3> SUFFICES ASSUME m + 1 <= MaxRetries PROVE Backoff[m + 1] >= RetryDelay
      OBVIOUS
    <3>1. Backoff[m] >= RetryDelay /\ m + 1 \in 1..MaxRetries /\ (m + 1) - 1 = m
          /\ Backoff[m] \in Nat
      BY BackoffDef
    <3>2. Backoff[m + 1] = 2 * Backoff[m]
      BY <1>1, <3>1
    <3> QED BY <3>1, <3>2
  <2>3. T = Nat
    <3> HIDE DEF T
    <3>1. T \in SUBSET Nat
      BY DEF T
    <3> QED BY <2>1, <2>2, <3>1, Induction
  <2> QED BY <2>3
<1> QED BY <1>1, <1>2

\* Whatever the conversion makes of a delay, the cap holds.
LEMMA RetryDelaysCapped ==
  ASSUME NEW n \in 1..MaxRetries, NEW d \in RetryDelays(n)
  PROVE  d \in Nat /\ d <= MaxRetryDelay
<1>1. n - 1 \in 0..MaxRetries
  OBVIOUS
<1>2. Backoff[n - 1] \in Nat
  BY <1>1, BackoffDef
<1>3. PICK x \in ToDuration(Backoff[n - 1]) : d = AtMost(x, MaxRetryDelay)
  BY DEF RetryDelays
<1>4. x \in Nat
  BY <1>2, <1>3 DEF ToDuration
<1> QED BY <1>3, <1>4 DEF AtMost

\* The delay after n attempts, when a time.Duration holds it.
RetryDelayAfter(n) == AtMost(Backoff[n - 1], MaxRetryDelay)

\* No delay of the configuration is beyond a time.Duration, 292 years, before its last
\* attempt: with a RetryDelay of a second, at most 35 attempts.
DelaysFit == \A n \in 1..(MaxRetries - 1) : Backoff[n - 1] <= MaxDuration

LEMMA FittingDelay ==
  ASSUME DelaysFit, NEW n \in 1..MaxRetries, n < MaxRetries
  PROVE  RetryDelays(n) = {RetryDelayAfter(n)}
<1>1. Backoff[n - 1] <= MaxDuration
  BY DEF DelaysFit
<1>2. ToDuration(Backoff[n - 1]) = {Backoff[n - 1]}
  BY <1>1 DEF ToDuration
<1> QED BY <1>2 DEF RetryDelays, RetryDelayAfter

LEMMA RetryDelayType ==
  ASSUME NEW n \in 1..MaxRetries
  PROVE  /\ RetryDelayAfter(n) \in Nat /\ RetryDelayAfter(n) <= MaxRetryDelay
         /\ RetryDelayAfter(n) >= AtMost(RetryDelay, MaxRetryDelay)
<1>1. n - 1 \in 0..MaxRetries
  OBVIOUS
<1>2. Backoff[n - 1] \in Nat /\ Backoff[n - 1] >= RetryDelay
  BY <1>1, BackoffDef, BackoffGrows
<1> QED BY <1>2 DEF RetryDelayAfter, AtMost

\* Of two delays in a row the second is longer, unless it is the longest of all.
LEMMA RetryDelayGrows ==
  ASSUME NEW n \in 1..MaxRetries, n > 1, RetryDelay > 0
  PROVE  RetryDelayAfter(n) > RetryDelayAfter(n - 1) \/ RetryDelayAfter(n) = MaxRetryDelay
<1>1. n - 1 \in 1..MaxRetries /\ n - 2 \in 0..MaxRetries /\ (n - 1) - 1 = n - 2
  OBVIOUS
<1>2. Backoff[n - 1] = 2 * Backoff[n - 2] /\ Backoff[n - 2] >= RetryDelay /\ Backoff[n - 2] \in Nat
  BY <1>1, BackoffDef, BackoffGrows
<1>3. Backoff[n - 1] > Backoff[n - 2]
  BY <1>2
<1> QED BY <1>1, <1>2, <1>3 DEF RetryDelayAfter, AtMost

\* The last retry of a job that has begun n attempts: the current one is not over.
LastRetry(place, n) == IF place \in {"body", "error"} THEN n - 1 ELSE n

\* What a job's place says of its attempts, and they of the delay of its last retry.
AttemptOK(place, n) ==
  /\ n \in 0..AttemptLimit
  /\ place = "none" => n = 0
  /\ place = "queue" => n = 0 \/ n < MaxRetries
  /\ place \in {"body", "error"} => n > 0
  /\ place = "timer" => n > 0 /\ n < MaxRetries
WaitedOK(place, n, d) ==
  place # "done" =>
    \/ d = RateLimitDelay
    \/ LastRetry(place, n) = 0 /\ d = 0
    \/ LastRetry(place, n) > 0 /\ d \in RetryDelays(LastRetry(place, n))

JobInv ==
  /\ attempts \in [Jobs -> Nat] /\ delay \in [Jobs -> Nat]
  /\ \A j \in Jobs : AttemptOK(jobAt[j], attempts[j])
  /\ \A j \in Jobs : WaitedOK(jobAt[j], attempts[j], delay[j])

LEMMA InitJob == ClockInit => JobInv
<1> SUFFICES ASSUME ClockInit PROVE JobInv
  OBVIOUS
<1>1. \A j \in Jobs : jobAt[j] = "none" /\ attempts[j] = 0 /\ delay[j] = 0
  BY DEF ClockInit
<1>2. AttemptOK("none", 0) /\ WaitedOK("none", 0, 0)
  BY DEF AttemptOK, WaitedOK, LastRetry, AttemptLimit
<1> QED BY <1>1, <1>2 DEF JobInv, ClockInit

\* The delay a retry gets, which is the configured one while a rate limit is known.
LEMMA Scheduled ==
  ASSUME CountInv, JobInv, NEW j \in Jobs, ScheduleRetry(j)
  PROVE  /\ attempts[j] \in 1..MaxRetries /\ attempts[j] < MaxRetries
         /\ \E d \in {RateLimitDelay} \cup RetryDelays(attempts[j]) :
              /\ delay' = [delay EXCEPT ![j] = d] /\ timer' = [timer EXCEPT ![j] = d]
              /\ d \in Nat /\ d <= MaxRetryDelay + RateLimitDelay
<1>1. AttemptOK("error", attempts[j]) /\ attempts[j] \in Nat
  BY DEF JobInv, ScheduleRetry, At
<1>2. attempts[j] \in 1..MaxRetries /\ attempts[j] < MaxRetries
  BY <1>1 DEF AttemptOK, ScheduleRetry, MayRetry
<1>3. PICK d \in ScheduledDelays(j) :
        delay' = [delay EXCEPT ![j] = d] /\ timer' = [timer EXCEPT ![j] = d]
  BY DEF ScheduleRetry
<1>4. d \in {RateLimitDelay} \cup RetryDelays(attempts[j])
  BY <1>3 DEF ScheduledDelays
<1>5. d \in Nat /\ d <= MaxRetryDelay + RateLimitDelay
  <2>1. CASE d = RateLimitDelay
    BY <2>1
  <2>2. CASE d \in RetryDelays(attempts[j])
    <3>1. d \in Nat /\ d <= MaxRetryDelay
      BY <1>2, <2>2, RetryDelaysCapped
    <3> QED BY <3>1
  <2> QED BY <1>4, <2>1, <2>2
<1> QED BY <1>2, <1>3, <1>4, <1>5

LEMMA JobKeeps ==
  ASSUME CountInv, JobInv, NEW j \in Jobs, JobStep(j)
  PROVE  JobInv'
<1>0. /\ jobAt \in [Jobs -> Places]
      /\ attempts \in [Jobs -> Nat] /\ delay \in [Jobs -> Nat]
      /\ AttemptOK(jobAt[j], attempts[j]) /\ WaitedOK(jobAt[j], attempts[j], delay[j])
  BY DEF CountInv, JobInv
<1> SUFFICES
      /\ monitor' = monitor /\ submitted' = submitted
      /\ attempts' \in [Jobs -> Nat] /\ delay' \in [Jobs -> Nat]
      /\ AttemptOK(jobAt'[j], attempts'[j]) /\ WaitedOK(jobAt'[j], attempts'[j], delay'[j])
      /\ \A k \in Jobs \ {j} : /\ jobAt'[k] = jobAt[k]
                               /\ attempts'[k] = attempts[k] /\ delay'[k] = delay[k]
  BY DEF JobInv
<1>0a. CASE SubmitJob(j)
  <2>1. /\ jobAt[j] = "none" /\ jobAt' = [jobAt EXCEPT ![j] = "queue"]
        /\ attempts' = attempts /\ delay' = delay /\ UNCHANGED watchVars
    BY <1>0a DEF SubmitJob, Move
  <2>2. AttemptOK("queue", attempts[j]) /\ WaitedOK("queue", attempts[j], delay[j])
    BY <1>0, <2>1 DEF AttemptOK, WaitedOK, LastRetry
  <2> QED BY <1>0, <2>1, <2>2 DEF watchVars
<1>1. CASE Execute(j)
  <2>1. /\ jobAt[j] = "queue" /\ jobAt' = [jobAt EXCEPT ![j] = "body"]
        /\ attempts' = [attempts EXCEPT ![j] = @ + 1]
        /\ delay' = delay /\ UNCHANGED watchVars
    BY <1>1 DEF Execute, At, Move
  <2>2. AttemptOK("body", attempts[j] + 1)
    BY <1>0, <2>1 DEF AttemptOK, AttemptLimit
  <2>3. WaitedOK("body", attempts[j] + 1, delay[j])
    BY <1>0, <2>1 DEF WaitedOK, LastRetry
  <2> QED BY <1>0, <2>1, <2>2, <2>3 DEF watchVars
<1>2. CASE Succeeds(j) \/ FailsFinally(j)
  <2>1. /\ jobAt' = [jobAt EXCEPT ![j] = "done"]
        /\ attempts' = attempts /\ delay' = delay /\ UNCHANGED watchVars
    BY <1>2 DEF Succeeds, FailsFinally, Move
  <2>2. AttemptOK("done", attempts[j]) /\ WaitedOK("done", attempts[j], delay[j])
    BY <1>0 DEF AttemptOK, WaitedOK
  <2> QED BY <1>0, <2>1, <2>2 DEF watchVars
<1>3. CASE Fails(j)
  <2>1. /\ jobAt[j] = "body" /\ jobAt' = [jobAt EXCEPT ![j] = "error"]
        /\ attempts' = attempts /\ delay' = delay /\ UNCHANGED watchVars
    BY <1>3 DEF Fails, Move, At
  <2>2. AttemptOK("error", attempts[j]) /\ WaitedOK("error", attempts[j], delay[j])
    BY <1>0, <2>1 DEF AttemptOK, WaitedOK, LastRetry
  <2> QED BY <1>0, <2>1, <2>2 DEF watchVars
<1>4. CASE ScheduleRetry(j)
  <2>1. /\ jobAt[j] = "error" /\ jobAt' = [jobAt EXCEPT ![j] = "timer"]
        /\ attempts' = attempts /\ UNCHANGED watchVars
    BY <1>4 DEF ScheduleRetry, Move, At
  <2>2. attempts[j] \in 1..MaxRetries /\ attempts[j] < MaxRetries
    BY <1>4, Scheduled
  <2>3. PICK d \in {RateLimitDelay} \cup RetryDelays(attempts[j]) :
          delay' = [delay EXCEPT ![j] = d] /\ d \in Nat
    BY <1>4, Scheduled
  <2>4. AttemptOK("timer", attempts[j])
    BY <1>0, <2>1, <2>2 DEF AttemptOK
  <2>5. WaitedOK("timer", attempts[j], d)
    BY <2>2, <2>3 DEF WaitedOK, LastRetry
  <2> QED BY <1>0, <2>1, <2>2, <2>3, <2>4, <2>5 DEF watchVars
<1>5. CASE Resubmit(j) \/ DropRetry(j)
  <2>1. PICK place \in {"queue", "dropped"} : jobAt' = [jobAt EXCEPT ![j] = place]
    BY <1>5 DEF Resubmit, DropRetry, RetryAs, Move
  <2>2. /\ jobAt[j] = "timer"
        /\ attempts' = attempts /\ delay' = delay /\ UNCHANGED watchVars
    BY <1>5 DEF Resubmit, DropRetry, RetryAs, At
  <2>3. AttemptOK(place, attempts[j]) /\ WaitedOK(place, attempts[j], delay[j])
    BY <1>0, <2>1, <2>2 DEF AttemptOK, WaitedOK, LastRetry
  <2> QED BY <1>0, <2>1, <2>2, <2>3 DEF watchVars
<1> QED BY <1>0a, <1>1, <1>2, <1>3, <1>4, <1>5 DEF JobStep

LEMMA StepJob == CountInv /\ JobInv /\ [ClockNext]_cvars => JobInv'
<1> SUFFICES ASSUME CountInv, JobInv, [ClockNext]_cvars PROVE JobInv'
  OBVIOUS
<1>1. ASSUME NEW jobs, BeginSubmission(jobs) PROVE JobInv'
  BY <1>1 DEF BeginSubmission, jobVars, JobInv
<1>2. ASSUME NEW j \in Jobs, JobStep(j) PROVE JobInv'
  BY <1>2, JobKeeps
<1>3. ASSUME UNCHANGED <<jobAt, attempts, delay>> PROVE JobInv'
  BY <1>3 DEF JobInv
<1>4. CASE Elapse \/ Paused \/ LookForSpace \/ Look
  BY <1>3, <1>4 DEF Elapse, Paused, LookForSpace, Look, jobVars
<1>6. ASSUME NEW j \in Jobs, ForceKill(j) PROVE JobInv'
  BY <1>3, <1>6 DEF ForceKill, Kill
<1>7. CASE KillsDone \/ DeadlineEnds
  BY <1>3, <1>7 DEF KillsDone, DeadlineEnds, jobVars
<1>8. CASE UNCHANGED cvars
  BY <1>3, <1>8 DEF cvars, jobVars
<1> QED BY <1>1, <1>2, <1>4, <1>6, <1>7, <1>8 DEF ClockNext, Monitor

\* A configuration that has delays: the least of them is not cut off by MaxRetryDelay.  That
\* of DefaultConfig is one; runRegularClone's, which leaves two of the three at zero, is not.
DelaysConfigured ==
  /\ 0 < RetryDelay /\ 0 < RateLimitDelay
  /\ AtMost(RetryDelay, RateLimitDelay) <= MaxRetryDelay

LEMMA StepBacksOff ==
  ASSUME DelaysConfigured, DelaysFit, CountInv, JobInv, [ClockNext]_cvars,
         NEW j \in Jobs, jobAt[j] = "error", jobAt'[j] = "timer"
  PROVE  /\ delay'[j] >= AtMost(RetryDelay, RateLimitDelay) /\ delay'[j] > 0
         /\ \/ delay'[j] > delay[j] \/ delay'[j] = MaxRetryDelay
            \/ RateLimitDelay \in {delay[j], delay'[j]}
<1> DEFINE n == attempts[j]
<1>1. ScheduleRetry(j)
  BY OnlyRetry
<1>2. n \in 1..MaxRetries /\ n < MaxRetries
  BY <1>1, Scheduled
<1>3. delay'[j] \in {RateLimitDelay, RetryDelayAfter(n)}
  <2>1. PICK d \in {RateLimitDelay} \cup RetryDelays(n) : delay' = [delay EXCEPT ![j] = d]
    BY <1>1, Scheduled
  <2>2. delay'[j] = d
    BY <2>1 DEF JobInv
  <2>3. RetryDelays(n) = {RetryDelayAfter(n)}
    BY <1>2, FittingDelay
  <2> QED BY <2>1, <2>2, <2>3
<1>4. CASE delay'[j] = RateLimitDelay
  BY <1>4 DEF DelaysConfigured, AtMost
<1>5. CASE delay'[j] = RetryDelayAfter(n)
  <2>1. /\ RetryDelayAfter(n) \in Nat /\ RetryDelayAfter(n) <= MaxRetryDelay
        /\ RetryDelayAfter(n) >= AtMost(RetryDelay, MaxRetryDelay)
    BY <1>2, RetryDelayType
  <2>2. RetryDelayAfter(n) >= AtMost(RetryDelay, RateLimitDelay) /\ RetryDelayAfter(n) > 0
    BY <2>1 DEF DelaysConfigured, AtMost
  <2>3. /\ delay[j] \in Nat
        /\ delay[j] = RateLimitDelay \/ (n - 1 = 0 /\ delay[j] = 0)
           \/ (n - 1 > 0 /\ delay[j] \in RetryDelays(n - 1))
    <3>1. WaitedOK("error", n, delay[j]) /\ delay[j] \in Nat
      BY DEF JobInv
    <3> QED BY <3>1 DEF WaitedOK, LastRetry
  <2>4. CASE delay[j] = RateLimitDelay
    BY <1>5, <2>2, <2>4
  <2>5. CASE n - 1 = 0 /\ delay[j] = 0
    BY <1>5, <2>2, <2>5
  <2>6. CASE n - 1 > 0 /\ delay[j] \in RetryDelays(n - 1)
    <3>1. n > 1 /\ RetryDelay > 0 /\ n - 1 \in 1..MaxRetries /\ n - 1 < MaxRetries
      BY <1>2, <2>6 DEF DelaysConfigured
    <3>2. delay[j] = RetryDelayAfter(n - 1)
      BY <2>6, <3>1, FittingDelay
    <3>3. RetryDelayAfter(n) > RetryDelayAfter(n - 1) \/ RetryDelayAfter(n) = MaxRetryDelay
      BY <1>2, <3>1, RetryDelayGrows
    <3> QED BY <1>5, <2>2, <3>2, <3>3
  <2> QED BY <2>3, <2>4, <2>5, <2>6
<1> QED BY <1>3, <1>4, <1>5

\* With delays configured, and attempts so few that their delays fit into a time.Duration,
\* every retry waits, and longer than the one before it until the limits are reached.
THEOREM BacksOff == DelaysConfigured /\ DelaysFit => (ClockSpec => RetriesBackOff)
<1> SUFFICES ASSUME DelaysConfigured, DelaysFit PROVE ClockSpec => RetriesBackOff
  OBVIOUS
<1>1. CountInv /\ JobInv /\ [ClockNext]_cvars =>
        [\A j \in Jobs : jobAt[j] = "error" /\ jobAt'[j] = "timer" =>
            /\ delay'[j] >= AtMost(RetryDelay, RateLimitDelay) /\ delay'[j] > 0
            /\ \/ delay'[j] > delay[j] \/ delay'[j] = MaxRetryDelay
               \/ RateLimitDelay \in {delay[j], delay'[j]}]_cvars
  BY StepBacksOff
<1> QED BY InitCounts, StepCounts, InitNone, StepNone, InitJob, StepJob, <1>1, PTL DEF ClockSpec, RetriesBackOff
-----------------------------------------------------------------------------
(***************************************************************************)
(* The types.                                                              *)
(***************************************************************************)
TimerInv ==
  /\ delay \in [Jobs -> Delays] /\ timer \in [Jobs -> Delays]
  /\ \A j \in Jobs : timer[j] <= delay[j]

LEMMA InitTimer == ClockInit => TimerInv
BY DEF ClockInit, TimerInv, Delays

LEMMA RunDown == ASSUME TimerInv, delay' = delay, NEW d \in Nat, timer' = Left(d) PROVE TimerInv'
<1>1. ASSUME NEW j \in Jobs PROVE timer'[j] \in Delays /\ timer'[j] <= delay[j]
  <2>1. timer[j] \in Delays /\ timer[j] <= delay[j] /\ delay[j] \in Delays
    BY DEF TimerInv
  <2>2. timer'[j] = IF timer[j] > d THEN timer[j] - d ELSE 0
    BY DEF Left
  <2> QED BY <2>1, <2>2 DEF Delays
<1>2. timer' = [j \in Jobs |-> timer'[j]]
  BY DEF Left
<1> QED BY <1>1, <1>2 DEF TimerInv

LEMMA StepTimer == CountInv /\ JobInv /\ TimerInv /\ [ClockNext]_cvars => TimerInv'
<1> SUFFICES ASSUME CountInv, JobInv, TimerInv, [ClockNext]_cvars PROVE TimerInv'
  OBVIOUS
<1>1. ASSUME UNCHANGED <<delay, timer>> PROVE TimerInv'
  BY <1>1 DEF TimerInv
<1>2. ASSUME NEW j \in Jobs, ScheduleRetry(j) PROVE TimerInv'
  <2>1. PICK d : /\ delay' = [delay EXCEPT ![j] = d] /\ timer' = [timer EXCEPT ![j] = d]
                 /\ d \in Nat /\ d <= MaxRetryDelay + RateLimitDelay
    BY <1>2, Scheduled
  <2>2. d \in Delays /\ d <= d
    BY <2>1 DEF Delays
  <2> QED BY <2>1, <2>2 DEF TimerInv
<1>3. ASSUME NEW j \in Jobs, JobStep(j) PROVE TimerInv'
  BY <1>1, <1>2, <1>3 DEF JobStep, SubmitJob, Execute, Succeeds, Fails, FailsFinally, Resubmit,
                          DropRetry, RetryAs
<1>4. CASE Elapse
  BY <1>4, RunDown DEF Elapse
<1>5. CASE Paused
  <2>1. PICK d \in {Idle, Stuck, MaxStuck} : timer' = Left(d)
    BY <1>5 DEF Paused
  <2>2. d \in Nat
    OBVIOUS
  <2> QED BY <1>5, <2>1, <2>2, RunDown DEF Paused
<1> QED BY <1>1, <1>3, <1>4, <1>5 DEF ClockNext, Monitor, BeginSubmission, LookForSpace, Look, ForceKill, Kill,
                                      KillsDone, DeadlineEnds, cvars, jobVars

\* Whom the monitor kills, and who has met a limit, has been submitted.
LimitInv == limited \in BOOLEAN /\ hit \subseteq submitted /\ victims \subseteq submitted

LEMMA InitLimit == ClockInit => LimitInv
BY DEF ClockInit, LimitInv

LEMMA StepLimit == CountInv /\ NoneBefore /\ LimitInv /\ [ClockNext]_cvars => LimitInv'
<1> SUFFICES ASSUME CountInv, NoneBefore, LimitInv, [ClockNext]_cvars PROVE LimitInv'
  OBVIOUS
<1>1. ASSUME UNCHANGED <<submitted, limited, hit>>, victims' \subseteq submitted PROVE LimitInv'
  BY <1>1 DEF LimitInv
<1>2. ASSUME NEW jobs, BeginSubmission(jobs) PROVE LimitInv'
  <2>1. hit = {} /\ victims = {}
    BY <1>2 DEF BeginSubmission, NoneBefore, LimitInv
  <2> QED BY <1>2, <2>1 DEF BeginSubmission, flagVars, LimitInv
<1>3. ASSUME NEW j \in Jobs, JobStep(j) PROVE LimitInv'
  <2>1. j \in submitted /\ UNCHANGED watchVars
    BY <1>3 DEF JobStep, SubmitJob, Execute, Succeeds, Fails, ScheduleRetry, FailsFinally, Resubmit,
                DropRetry, RetryAs, At, CountInv
  <2>2. limited' \in BOOLEAN /\ hit' \subseteq submitted
    <3>1. CASE SubmitJob(j) \/ Execute(j) \/ Succeeds(j) \/ Resubmit(j) \/ DropRetry(j)
      BY <3>1 DEF SubmitJob, Execute, Succeeds, Resubmit, DropRetry, RetryAs, ClearLimit, flagVars,
                  LimitInv
    <3>2. CASE Fails(j)
      BY <2>1, <3>2 DEF Fails, ClearLimit, flagVars, LimitInv
    <3>3. CASE ScheduleRetry(j) \/ FailsFinally(j)
      BY <3>3 DEF ScheduleRetry, FailsFinally, LimitInv
    <3> QED BY <1>3, <3>1, <3>2, <3>3 DEF JobStep
  <2> QED BY <2>1, <2>2 DEF watchVars, LimitInv
<1>4. CASE Look
  <2>1. victims' \subseteq submitted
    BY <1>4 DEF Look, GetStuckJobs
  <2> QED BY <1>1, <1>4, <2>1 DEF Look, flagVars
<1>5. ASSUME NEW j \in Jobs, ForceKill(j) PROVE LimitInv'
  BY <1>1, <1>5 DEF ForceKill, Kill, flagVars, LimitInv
<1>6. CASE \/ Elapse \/ Paused \/ LookForSpace \/ KillsDone \/ DeadlineEnds
          \/ UNCHANGED cvars
  BY <1>1, <1>6 DEF Elapse, Paused, LookForSpace, KillsDone, DeadlineEnds, cvars, flagVars, watchVars, LimitInv
<1> QED BY <1>2, <1>3, <1>4, <1>5, <1>6 DEF ClockNext, Monitor

\* What the monitor keeps: the counters it last saw, the clocks, why it has returned.
WatchInv ==
  /\ status \in [Jobs -> {"pending", "running", "retrying", "completed", "failed"}]
  /\ age \in Clock /\ idle \in Clock /\ ticked \in BOOLEAN
  /\ pauses \in 0..Pauses /\ slept \in BOOLEAN /\ seen \in 0..MaxJobs
  /\ monitor \in {"off", "submitting", "waiting", "killing"} \cup Returned

\* Nobody is counted twice, so no counter passes the number of jobs.
LEMMA CountsBounded ==
  ASSUME CountInv
  PROVE  completed \in 0..MaxJobs /\ failed \in 0..MaxJobs /\ Done \in 0..MaxJobs
<1>1. Settled \subseteq Jobs /\ Done = Cardinality(Settled)
  BY DEF Settled, CountInv, CountedOnce
<1>2. IsFiniteSet(Jobs) /\ Cardinality(Jobs) = MaxJobs
  <2>1. 1 \in Int /\ MaxJobs \in Int
    OBVIOUS
  <2>2. IsFiniteSet(Jobs) /\ Cardinality(Jobs) = IF 1 > MaxJobs THEN 0 ELSE MaxJobs - 1 + 1
    BY <2>1, FS_Interval DEF Jobs
  <2> QED BY <2>2
<1>3. Cardinality(Settled) <= MaxJobs
  BY <1>1, <1>2, FS_Subset
<1>4. completed \in Nat /\ failed \in Nat
  BY DEF CountInv
<1> QED BY <1>1, <1>3, <1>4 DEF Done

LEMMA ClockType ==
  ASSUME NEW c \in Clock, NEW d \in Nat
  PROVE  Later(c, d) \in Clock /\ 0 \in Clock /\ Latest \in Clock
BY DEF Later, AtMost, Latest, Clock

LEMMA InitWatch == ClockInit => WatchInv
<1> SUFFICES ASSUME ClockInit PROVE WatchInv
  OBVIOUS
<1>1. 0 \in Clock /\ 0 \in 0..Pauses /\ 0 \in 0..MaxJobs
  BY DEF Clock, Latest
<1>2. status \in [Jobs -> {"pending", "running", "retrying", "completed", "failed"}]
  BY DEF ClockInit
<1> QED BY <1>1, <1>2 DEF ClockInit, WatchInv

LEMMA StepWatch == CountInv /\ WatchInv /\ [ClockNext]_cvars => WatchInv'
<1> SUFFICES ASSUME CountInv, WatchInv, [ClockNext]_cvars PROVE WatchInv'
  OBVIOUS
<1>1. ASSUME NEW jobs, BeginSubmission(jobs) PROVE WatchInv'
  <2>1. age' \in Clock /\ idle' \in Clock
    BY <1>1, 1 \in Nat, ClockType DEF BeginSubmission, WatchInv
  <2> QED BY <1>1, <2>1 DEF BeginSubmission, jobVars, WatchInv
<1>2. ASSUME NEW j \in Jobs, JobStep(j) PROVE WatchInv'
  <2>1. UNCHANGED clockVars /\ UNCHANGED watchVars
    BY <1>2 DEF JobStep, SubmitJob, Execute, Succeeds, Fails, ScheduleRetry, FailsFinally, Resubmit,
                DropRetry, RetryAs
  <2>2. status' \in [Jobs -> {"pending", "running", "retrying", "completed", "failed"}]
    BY <1>2 DEF JobStep, SubmitJob, Execute, Succeeds, Fails, ScheduleRetry, FailsFinally, Resubmit,
                DropRetry, RetryAs, SetStatus, WatchInv
  <2> QED BY <2>1, <2>2 DEF clockVars, watchVars, WatchInv
<1>3. CASE Elapse
  <2>1. age' \in Clock /\ idle' \in Clock
    BY <1>3, 1 \in Nat, ClockType DEF Elapse, WatchInv
  <2> QED BY <1>3, <2>1 DEF Elapse, watchVars, WatchInv
<1>4. CASE Paused
  <2>1. PICK d \in {Idle, Stuck, MaxStuck} : age' = Later(age, d) /\ idle' = Later(idle, d)
    BY <1>4 DEF Paused
  <2>2. d \in Nat
    OBVIOUS
  <2>3. age' \in Clock /\ idle' \in Clock
    BY <2>1, <2>2, ClockType DEF WatchInv
  <2>4. pauses' \in 0..Pauses
    BY <1>4 DEF Paused, WatchInv
  <2> QED BY <1>4, <2>3, <2>4 DEF Paused, watchVars, WatchInv
<1>5. CASE Look
  <2>1. idle' \in Clock /\ age' = age
    BY <1>5, 1 \in Nat, ClockType DEF Look, WatchInv
  <2>2. seen' \in 0..MaxJobs
    BY <1>5, CountsBounded DEF Look, WatchInv
  <2>3. monitor' \in {"off", "submitting", "waiting", "killing"} \cup Returned
    BY <1>5 DEF Look, Outcome, Returned
  <2> QED BY <1>5, <2>1, <2>2, <2>3 DEF Look, jobVars, WatchInv
<1>6. ASSUME NEW j \in Jobs, ForceKill(j) PROVE WatchInv'
  <2>1. status' \in [Jobs -> {"pending", "running", "retrying", "completed", "failed"}]
    BY <1>6 DEF ForceKill, Kill, SetStatus, WatchInv
  <2> QED BY <1>6, <2>1 DEF ForceKill, Kill, clockVars, WatchInv
<1>7. CASE KillsDone \/ DeadlineEnds
  BY <1>7 DEF KillsDone, DeadlineEnds, jobVars, clockVars, WatchInv, Returned
<1>8. CASE UNCHANGED cvars
  BY <1>8 DEF cvars, jobVars, clockVars, watchVars, WatchInv
<1>9. CASE LookForSpace
  <2>1. idle' \in Clock
    BY <1>9, 1 \in Nat, ClockType DEF LookForSpace, WatchInv
  <2> QED BY <1>9, <2>1 DEF LookForSpace, jobVars, WatchInv
<1> QED BY <1>1, <1>2, <1>3, <1>4, <1>5, <1>6, <1>7, <1>8, <1>9 DEF ClockNext, Monitor

\* No more jobs are executed at once than there are workers.
WorkersInv == Cardinality(Active) <= Workers

LEMMA InitWorkers == ClockInit => WorkersInv
<1> SUFFICES ASSUME ClockInit PROVE WorkersInv
  OBVIOUS
<1>1. Active = {}
  BY DEF ClockInit, Active
<1> QED BY <1>1, FS_EmptySet DEF WorkersInv

LEMMA FewerActive == ASSUME WorkersInv, Active' \subseteq Active PROVE WorkersInv'
<1>1. IsFiniteSet(Active) /\ Active' \in SUBSET Active
  BY SettledFinite DEF Active
<1>2. Cardinality(Active') <= Cardinality(Active)
  BY <1>1, FS_Subset
<1>3. IsFiniteSet(Active')
  BY <1>1, FS_Subset
<1>4. Cardinality(Active) \in Nat /\ Cardinality(Active') \in Nat
  BY <1>1, <1>3, FS_CardinalityType
<1> QED BY <1>2, <1>4 DEF WorkersInv

LEMMA StepWorkers == CountInv /\ WorkersInv /\ [ClockNext]_cvars => WorkersInv'
<1> SUFFICES ASSUME CountInv, WorkersInv, [ClockNext]_cvars PROVE WorkersInv'
  OBVIOUS
<1>0. jobAt \in [Jobs -> Places]
  BY DEF CountInv
<1>1. ASSUME NEW j \in Jobs, Execute(j) PROVE WorkersInv'
  <2>1. Active' = Active \cup {j} /\ Cardinality(Active) < Workers
    BY <1>0, <1>1 DEF Execute, Move, Active
  <2>2. IsFiniteSet(Active)
    BY SettledFinite DEF Active
  <2>3. Cardinality(Active') = IF j \in Active THEN Cardinality(Active)
                               ELSE Cardinality(Active) + 1
    BY <2>1, <2>2, FS_AddElement
  <2>4. Cardinality(Active) \in Nat
    BY <2>2, FS_CardinalityType
  <2> QED BY <2>1, <2>3, <2>4 DEF WorkersInv
<1>2. ASSUME NEW j \in Jobs, \/ SubmitJob(j) \/ Succeeds(j) \/ Fails(j) \/ ScheduleRetry(j)
                             \/ FailsFinally(j) \/ Resubmit(j) \/ DropRetry(j)
      PROVE  WorkersInv'
  <2>1. Active' \subseteq Active
    BY <1>0, <1>2 DEF SubmitJob, Succeeds, Fails, ScheduleRetry, FailsFinally, Resubmit, DropRetry,
                      RetryAs, At, Move, Active
  <2> QED BY <2>1, FewerActive
<1>3. ASSUME UNCHANGED jobAt PROVE WorkersInv'
  BY <1>3, FewerActive DEF Active
<1> QED BY <1>1, <1>2, <1>3 DEF ClockNext, JobStep, Monitor, BeginSubmission, Elapse, Paused,
              LookForSpace, Look, ForceKill, Kill, KillsDone, DeadlineEnds, cvars, jobVars

\* Nor are there more in the queue than it holds.
Queued == {j \in Jobs : jobAt[j] = "queue"}
QueueInv == Cardinality(Queued) <= QueueSize

LEMMA InitQueue == ClockInit => QueueInv
<1> SUFFICES ASSUME ClockInit PROVE QueueInv
  OBVIOUS
<1>1. Queued = {}
  BY DEF ClockInit, Queued
<1> QED BY <1>1, FS_EmptySet DEF QueueInv

LEMMA FewerQueued == ASSUME QueueInv, Queued' \subseteq Queued PROVE QueueInv'
<1>1. IsFiniteSet(Queued) /\ Queued' \in SUBSET Queued
  BY SettledFinite DEF Queued
<1>2. Cardinality(Queued') <= Cardinality(Queued)
  BY <1>1, FS_Subset
<1>3. IsFiniteSet(Queued')
  BY <1>1, FS_Subset
<1>4. Cardinality(Queued) \in Nat /\ Cardinality(Queued') \in Nat
  BY <1>1, <1>3, FS_CardinalityType
<1> QED BY <1>2, <1>4 DEF QueueInv

LEMMA StepQueue == CountInv /\ QueueInv /\ [ClockNext]_cvars => QueueInv'
<1> SUFFICES ASSUME CountInv, QueueInv, [ClockNext]_cvars PROVE QueueInv'
  OBVIOUS
<1>0. jobAt \in [Jobs -> Places]
  BY DEF CountInv
<1>1. ASSUME NEW j \in Jobs, SubmitJob(j) \/ Resubmit(j) PROVE QueueInv'
  <2>1. Queued' = Queued \cup {j}
    BY <1>0, <1>1 DEF SubmitJob, Resubmit, RetryAs, Move, Queued
  <2>2. Cardinality(Queued) < QueueSize
    BY <1>1 DEF SubmitJob, Resubmit, QueueHasRoom, Queued
  <2>3. IsFiniteSet(Queued)
    BY SettledFinite DEF Queued
  <2>4. Cardinality(Queued') = IF j \in Queued THEN Cardinality(Queued)
                               ELSE Cardinality(Queued) + 1
    BY <2>1, <2>3, FS_AddElement
  <2>5. Cardinality(Queued) \in Nat
    BY <2>3, FS_CardinalityType
  <2> QED BY <2>2, <2>4, <2>5 DEF QueueInv
<1>2. ASSUME NEW j \in Jobs, \/ Execute(j) \/ Succeeds(j) \/ Fails(j) \/ ScheduleRetry(j)
                             \/ FailsFinally(j) \/ DropRetry(j)
      PROVE  QueueInv'
  <2>1. Queued' \subseteq Queued
    BY <1>0, <1>2 DEF Execute, Succeeds, Fails, ScheduleRetry, FailsFinally, DropRetry, RetryAs,
                      At, Move, Queued
  <2> QED BY <2>1, FewerQueued
<1>3. ASSUME UNCHANGED jobAt PROVE QueueInv'
  BY <1>3, FewerQueued DEF Queued
<1> QED BY <1>1, <1>2, <1>3 DEF ClockNext, JobStep, Monitor, BeginSubmission, Elapse, Paused,
              LookForSpace, Look, ForceKill, Kill, KillsDone, DeadlineEnds, cvars, jobVars

ClockInv ==
  CountInv /\ NoneBefore /\ JobInv /\ TimerInv /\ LimitInv /\ WatchInv /\ WorkersInv /\ QueueInv

LEMMA InitClock == ClockInit => ClockInv
BY InitCounts, InitNone, InitJob, InitTimer, InitLimit, InitWatch, InitWorkers, InitQueue
   DEF ClockInv

LEMMA StepClock == ClockInv /\ [ClockNext]_cvars => ClockInv'
BY StepCounts, StepNone, StepJob, StepTimer, StepLimit, StepWatch, StepWorkers, StepQueue
   DEF ClockInv

LEMMA ClockTypes == ClockInv => ClockTypeOK
<1> SUFFICES ASSUME ClockInv PROVE ClockTypeOK
  OBVIOUS
<1>1. attempts \in [Jobs -> 0..AttemptLimit]
  BY DEF ClockInv, JobInv, AttemptOK
<1>2. completed \in 0..MaxJobs /\ failed \in 0..MaxJobs
  BY CountsBounded DEF ClockInv
<1> QED BY <1>1, <1>2 DEF ClockInv, CountInv, TimerInv, LimitInv, WatchInv, WorkersInv, QueueInv,
           Queued, ClockTypeOK

\* Attempts stay within their limit and timers within their delays, no more jobs are executed
\* than there are workers, and only submitted jobs are ever killed, limited or counted.
THEOREM ClockTypeCorrect == ClockSpec => []ClockTypeOK
BY InitClock, StepClock, ClockTypes, PTL DEF ClockSpec

\* With the two limits at zero, as runRegularClone leaves them, no retry ever waits, whatever
\* RetryDelay is: the other side of BacksOff.
THEOREM NeverWaits ==
  MaxRetryDelay = 0 /\ RateLimitDelay = 0 => (ClockSpec => [](\A j \in Jobs : delay[j] = 0))
<1> SUFFICES ASSUME MaxRetryDelay = 0, RateLimitDelay = 0
             PROVE  ClockSpec => [](\A j \in Jobs : delay[j] = 0)
  OBVIOUS
<1>1. ClockInv => \A j \in Jobs : delay[j] = 0
  BY DEF ClockInv, TimerInv, Delays
<1> QED BY InitClock, StepClock, <1>1, PTL DEF ClockSpec
===============================================================================
