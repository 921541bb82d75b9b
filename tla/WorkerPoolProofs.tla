--------------------------- MODULE WorkerPoolProofs ---------------------------
(***************************************************************************)
(* Theorems about WorkerPool, for any sets of jobs and workers, any queue  *)
(* size and retry limits, and any number of calls of Start and Submit.     *)
(***************************************************************************)
EXTENDS WorkerPool, FiniteSetTheorems, TLAPS

USE JobsAssumption, WorkersAssumption, QueueAssumption, RetriesAssumption, BoundsAssumption

\* The workers ActiveJobs counts.
Bodies == {w \in Workers : InBody(w)}

\* ActiveJobs is decremented by LeaveJob: that it stays a natural number needs the count.
TypeInv == TypeOK /\ ActiveIsWorkersInBody

LEMMA BodiesFinite == IsFiniteSet(Bodies)
BY FS_Subset DEF Bodies

LEMMA InitType == Init => TypeInv
<1> SUFFICES ASSUME Init PROVE TypeInv
  OBVIOUS
<1>1. TypeOK
  BY DEF Init, TypeOK, Statuses, Phases, WorkerPCs
<1>2. Bodies = {}
  BY DEF Init, Bodies, InBody
<1>3. ActiveIsWorkersInBody
  BY <1>2, FS_EmptySet DEF Init, ActiveIsWorkersInBody, Bodies
<1> QED BY <1>1, <1>3 DEF TypeInv

\* A step of one worker, seen from the count of the workers in processJob.
LEMMA OtherBodiesSame ==
  ASSUME TypeOK, NEW w \in Workers, NEW place, Goto(w, place)
  PROVE  \A v \in Workers \ {w} : InBody(v)' <=> InBody(v)
BY DEF TypeOK, Goto, InBody

LEMMA EntersBody ==
  ASSUME TypeInv, NEW w \in Workers, ~InBody(w), InBody(w)',
         \A v \in Workers \ {w} : InBody(v)' <=> InBody(v)
  PROVE  Cardinality(Bodies') = active + 1
<1>1. Bodies' = Bodies \cup {w} /\ w \notin Bodies
  BY DEF Bodies
<1> QED BY <1>1, BodiesFinite, FS_AddElement DEF TypeInv, ActiveIsWorkersInBody, Bodies

LEMMA LeavesBody ==
  ASSUME TypeInv, NEW w \in Workers, InBody(w), ~InBody(w)',
         \A v \in Workers \ {w} : InBody(v)' <=> InBody(v)
  PROVE  active > 0 /\ Cardinality(Bodies') = active - 1
<1>1. Bodies' = Bodies \ {w} /\ w \in Bodies
  BY DEF Bodies
<1>2. Cardinality(Bodies) = active /\ active \in Nat
  BY DEF TypeInv, TypeOK, ActiveIsWorkersInBody, Bodies
<1>3. Cardinality(Bodies') = active - 1 /\ Cardinality(Bodies') \in Nat
  BY <1>1, <1>2, BodiesFinite, FS_RemoveElement, FS_CardinalityType, FS_Subset
<1> QED BY <1>2, <1>3

LEMMA SameBodies ==
  ASSUME TypeInv, \A v \in Workers : InBody(v)' <=> InBody(v), active' = active
  PROVE  ActiveIsWorkersInBody'
<1>1. Bodies' = Bodies
  BY DEF Bodies
<1> QED BY <1>1 DEF TypeInv, ActiveIsWorkersInBody, Bodies
-----------------------------------------------------------------------------
(***************************************************************************)
(* Type correctness, one lemma per kind of actor.                          *)
(***************************************************************************)

LEMMA StartType == TypeInv /\ Start => TypeInv'
<1> SUFFICES ASSUME TypeInv, Start PROVE TypeInv'
  OBVIOUS
<1>1. TypeOK'
  BY DEF TypeInv, TypeOK, Start, WorkerPCs, Retriers, Statuses, Phases, tally
<1>2. \A v \in Workers : InBody(v)' <=> InBody(v)
  BY DEF TypeInv, TypeOK, Start, InBody, WaitGroupZero, Exited
<1>3. active' = active
  BY DEF Start, tally
<1> QED BY <1>1, <1>2, <1>3, SameBodies DEF TypeInv

LEMMA SubmitType == ASSUME NEW j \in Jobs PROVE TypeInv /\ Submit(j) => TypeInv'
<1> SUFFICES ASSUME TypeInv, Submit(j) PROVE TypeInv'
  OBVIOUS
<1> USE DEF SubmitCounts, tally
<1>1. CASE SubmitAccepted(j)
  <2>1. queue' \in Seq(Jobs) /\ Len(queue') <= QueueSize
    BY <1>1 DEF SubmitAccepted, Enqueue, TypeInv, TypeOK
  <2>2. TypeOK'
    BY <1>1, <2>1 DEF SubmitAccepted, Accept, TypeInv, TypeOK, Statuses, Retriers
  <2>3. (\A v \in Workers : InBody(v)' <=> InBody(v)) /\ active' = active
    BY <1>1 DEF SubmitAccepted, InBody
  <2> QED BY <2>2, <2>3, SameBodies DEF TypeInv
<1>2. CASE SubmitRefused(j) \/ SubmitPanics(j)
  <2>0. crashed' \in {"no", "submit", "retry", "result"}
    BY <1>2 DEF SubmitRefused, SubmitPanics, TypeInv, TypeOK
  <2> SubmitCounts(j)
    BY <1>2 DEF SubmitRefused, SubmitPanics
  <2>1. status' \in [Jobs -> Statuses] /\ total' \in Nat
    BY DEF TypeInv, TypeOK, Statuses
  <2>2. UNCHANGED <<queue, accepted>>
    BY <1>2 DEF SubmitRefused, SubmitPanics
  <2>3. TypeOK'
    BY <1>2, <2>0, <2>1, <2>2 DEF SubmitRefused, SubmitPanics, TypeInv, TypeOK
  <2>4. (\A v \in Workers : InBody(v)' <=> InBody(v)) /\ active' = active
    BY <1>2 DEF SubmitRefused, SubmitPanics, InBody
  <2> QED BY <2>3, <2>4, SameBodies DEF TypeInv
<1> QED BY <1>1, <1>2 DEF Submit

LEMMA StopType == TypeInv /\ (StopCancel \/ StopClose \/ StopFinish) => TypeInv'
<1> SUFFICES ASSUME TypeInv, StopCancel \/ StopClose \/ StopFinish PROVE TypeInv'
  OBVIOUS
<1> USE DEF StopCancel, StopClose, StopFinish, StopUnchanged, client, tally
<1>1. TypeOK'
  BY DEF TypeInv, TypeOK, Phases, Retriers
<1>2. (\A v \in Workers : InBody(v)' <=> InBody(v)) /\ active' = active
  BY DEF InBody
<1> QED BY <1>1, <1>2, SameBodies DEF TypeInv

LEMMA ProcessorType == TypeInv /\ (ProcessResult \/ ProcessorExits) => TypeInv'
<1> SUFFICES ASSUME TypeInv, ProcessResult \/ ProcessorExits PROVE TypeInv'
  OBVIOUS
<1> USE DEF ProcessResult, ProcessorExits, shared, client, tally
<1>1. TypeOK'
  <2>1. CASE ProcessResult
    <3>1. resultCount' \in 0..QueueSize
      BY <2>1 DEF TypeInv, TypeOK
    <3> QED BY <2>1, <3>1 DEF TypeInv, TypeOK
  <2>2. CASE ProcessorExits BY <2>2 DEF TypeInv, TypeOK
  <2> QED BY <2>1, <2>2
<1>2. (\A v \in Workers : InBody(v)' <=> InBody(v)) /\ active' = active
  BY DEF InBody
<1> QED BY <1>1, <1>2, SameBodies DEF TypeInv

LEMMA RetrierType == ASSUME NEW r \in retriers PROVE TypeInv /\ Retrier(r) => TypeInv'
<1> SUFFICES ASSUME TypeInv, Retrier(r) PROVE TypeInv'
  OBVIOUS
<1> USE DEF RetryUnchanged, shared, client, tally
<1>0. r \in Retriers
  BY DEF TypeInv, TypeOK
<1>1. /\ r.job \in Jobs
      /\ r \in Retriers
      /\ \A place \in {"sleep", "lock", "reset", "send"} : [r EXCEPT !.at = place] \in Retriers
  BY <1>0 DEF Retriers
<1>2. retriers' \subseteq Retriers
  BY <1>1 DEF TypeInv, TypeOK, Retrier, TimerFires, RetryCancelled, ReadStopped, ResetStatus,
     RetryQueued, RetryDropped, RetryPanics, MoveRetrier, EndRetrier
<1>3. status' \in [Jobs -> Statuses]
  <2>1. CASE ResetStatus(r)
    BY <1>1, <2>1 DEF TypeInv, TypeOK, ResetStatus, Statuses
  <2>2. CASE ~ResetStatus(r)
    BY <2>2 DEF TypeInv, TypeOK, Retrier, TimerFires, RetryCancelled, ReadStopped,
       RetryQueued, RetryDropped, RetryPanics
  <2> QED BY <2>1, <2>2
<1>4. queue' \in Seq(Jobs) /\ Len(queue') <= QueueSize
  <2>1. CASE RetryQueued(r)
    BY <1>1, <2>1 DEF TypeInv, TypeOK, RetryQueued, Enqueue
  <2>2. CASE ~RetryQueued(r)
    BY <2>2 DEF TypeInv, TypeOK, Retrier, TimerFires, RetryCancelled, ReadStopped,
       ResetStatus, RetryDropped, RetryPanics
  <2> QED BY <2>1, <2>2
<1>5. crashed' \in {"no", "submit", "retry", "result"}
  BY DEF TypeInv, TypeOK, Retrier, TimerFires, RetryCancelled, ReadStopped, ResetStatus,
     RetryQueued, RetryDropped, RetryPanics
<1>6. UNCHANGED <<attempts, resultCount, life, pc, hand, processor, client, tally>>
  BY DEF Retrier, TimerFires, RetryCancelled, ReadStopped, ResetStatus, RetryQueued,
     RetryDropped, RetryPanics
<1>7. TypeOK'
  BY <1>2, <1>3, <1>4, <1>5, <1>6 DEF TypeInv, TypeOK
<1>8. (\A v \in Workers : InBody(v)' <=> InBody(v)) /\ active' = active
  BY <1>6 DEF InBody
<1> QED BY <1>7, <1>8, SameBodies DEF TypeInv

\* The inductive invariant: what each place says of the job it holds, and that a job is
\* in one place.  SingleOwner alone is not inductive: that the job a worker hands to a
\* retry goroutine is not in another's hands follows from its status.
Inv == TypeInv /\ PlacesConsistent /\ SingleOwner

LEMMA HandIsJob ==
  ASSUME Inv, NEW w \in Workers,
         pc[w] \in {"taken", "running", "retry", "countOk", "countFail", "send"}
  PROVE  hand[w] \in Jobs /\ hand[w] \in accepted /\ status[hand[w]] \in StatusInHand(w)
BY DEF Inv, TypeInv, TypeOK, PlacesConsistent, HandConsistent

LEMMA WorkerType == ASSUME NEW w \in Workers PROVE Inv /\ Worker(w) => TypeInv'
<1> SUFFICES ASSUME Inv, Worker(w) PROVE TypeInv'
  OBVIOUS
<1>0. TypeInv
  BY DEF Inv
<1> USE DEF shared, client, tally
<1>1. CASE WorkerTakes(w)
  <2>1. Head(queue) \in Jobs /\ Tail(queue) \in Seq(Jobs) /\ Len(Tail(queue)) <= QueueSize
    BY <1>0, <1>1 DEF TypeInv, TypeOK, WorkerTakes
  <2>2. TypeOK'
    BY <1>0, <1>1, <2>1 DEF TypeInv, TypeOK, WorkerTakes, Goto, WorkerPCs
  <2>3. (\A v \in Workers : InBody(v)' <=> InBody(v)) /\ active' = active
    BY <1>0, <1>1 DEF TypeInv, TypeOK, WorkerTakes, Goto, InBody
  <2> QED BY <1>0, <2>2, <2>3, SameBodies DEF TypeInv
<1>2. CASE WorkerExits(w)
  <2>1. TypeOK'
    BY <1>0, <1>2 DEF TypeInv, TypeOK, WorkerExits, Goto, WorkerPCs
  <2>2. (\A v \in Workers : InBody(v)' <=> InBody(v)) /\ active' = active
    BY <1>0, <1>2 DEF TypeInv, TypeOK, WorkerExits, Goto, InBody
  <2> QED BY <1>0, <2>1, <2>2, SameBodies DEF TypeInv
<1>3. CASE BeginJob(w)
  <2>h. hand[w] \in Jobs
    BY <1>3, HandIsJob DEF BeginJob
  <2>s. status' \in [Jobs -> Statuses]
    BY <1>0, <1>3, <2>h DEF TypeInv, TypeOK, BeginJob, Statuses
  <2>1. status' \in [Jobs -> Statuses] /\ attempts' \in [Jobs -> Nat]
    BY <1>0, <1>3, <2>h, <2>s DEF TypeInv, TypeOK, BeginJob
  <2>2. TypeOK'
    BY <1>0, <1>3, <2>1 DEF TypeInv, TypeOK, BeginJob, Goto, WorkerPCs
  <2>3. Cardinality(Bodies') = active + 1
    BY <1>0, <1>3, EntersBody, OtherBodiesSame DEF TypeInv, TypeOK, BeginJob, Goto, InBody
  <2> QED BY <1>3, <2>2, <2>3 DEF TypeInv, ActiveIsWorkersInBody, Bodies, BeginJob
<1>4. ASSUME NEW st \in Statuses, NEW place \in {"countOk", "countFail", "retry"},
             Executed(w, st, place)
      PROVE  TypeInv'
  <2>1. status' \in [Jobs -> Statuses]
    BY <1>0, <1>4 DEF TypeInv, TypeOK, Executed
  <2>2. TypeOK'
    BY <1>0, <1>4, <2>1 DEF TypeInv, TypeOK, Executed, Goto, WorkerPCs
  <2>3. (\A v \in Workers : InBody(v)' <=> InBody(v)) /\ active' = active
    BY <1>0, <1>4 DEF TypeInv, TypeOK, Executed, Goto, InBody
  <2> QED BY <1>0, <2>2, <2>3, SameBodies DEF TypeInv
<1>5. CASE ScheduleRetry(w)
  <2>1. retriers' \subseteq Retriers
    BY <1>0, <1>5, HandIsJob DEF TypeInv, TypeOK, ScheduleRetry, SpawnRetrier, Retriers
  <2>2. TypeOK'
    BY <1>0, <1>5, <2>1
    DEF TypeInv, TypeOK, ScheduleRetry, SpawnRetrier, HandOver, Goto, WorkerPCs
  <2>3. (\A v \in Workers : InBody(v)' <=> InBody(v)) /\ active' = active
    BY <1>0, <1>5 DEF TypeInv, TypeOK, ScheduleRetry, SpawnRetrier, Goto, InBody
  <2> QED BY <1>0, <2>2, <2>3, SameBodies DEF TypeInv
<1>6. CASE CountResult(w)
  <2>1. TypeOK'
    BY <1>0, <1>6 DEF TypeInv, TypeOK, CountResult, CountWhen, Goto, WorkerPCs
  <2>2. (\A v \in Workers : InBody(v)' <=> InBody(v)) /\ active' = active
    BY <1>0, <1>6 DEF TypeInv, TypeOK, CountResult, CountWhen, Goto, InBody
  <2> QED BY <1>0, <2>1, <2>2, SameBodies DEF TypeInv
<1>7. CASE SendResult(w)
  <2>1. resultCount' \in 0..QueueSize /\ crashed' \in {"no", "submit", "retry", "result"}
    BY <1>0, <1>7 DEF TypeInv, TypeOK, SendResult
  <2>2. TypeOK'
    BY <1>0, <1>7, <2>1 DEF TypeInv, TypeOK, SendResult, HandOver, Goto, WorkerPCs
  <2>3. (\A v \in Workers : InBody(v)' <=> InBody(v)) /\ active' = active
    BY <1>0, <1>7 DEF TypeInv, TypeOK, SendResult, Goto, InBody
  <2> QED BY <1>0, <2>2, <2>3, SameBodies DEF TypeInv
<1>8. CASE LeaveJob(w)
  <2>1. active > 0 /\ Cardinality(Bodies') = active - 1
    BY <1>0, <1>8, LeavesBody, OtherBodiesSame DEF TypeInv, TypeOK, LeaveJob, Goto, InBody
  <2>2. TypeOK'
    BY <1>0, <1>8, <2>1 DEF TypeInv, TypeOK, LeaveJob, Goto, WorkerPCs
  <2> QED BY <1>8, <2>1, <2>2 DEF TypeInv, ActiveIsWorkersInBody, Bodies, LeaveJob
<1> QED BY <1>1, <1>2, <1>3, <1>4, <1>5, <1>6, <1>7, <1>8
     DEF Worker, WorkInBody, ExecuteSucceeds, ExecuteFails, Statuses
-----------------------------------------------------------------------------
(***************************************************************************)
(* The places of the jobs.                                                 *)
(***************************************************************************)
Places == PlacesConsistent /\ SingleOwner

LEMMA InitPlaces == Init => Places
BY DEF Init, Places, PlacesConsistent, SingleOwner, QueuePositions, HandConsistent

\* Start finds every worker's hand empty and puts the worker where it is to stay empty.
LEMMA StartPlaces == Inv /\ Start => Places'
<1> SUFFICES ASSUME Inv, Start PROVE Places'
  OBVIOUS
<1>1. \A w \in Workers : HandConsistent(w)'
  BY DEF Inv, TypeInv, TypeOK, PlacesConsistent, HandConsistent, Start, WaitGroupZero, Exited
<1> QED BY <1>1 DEF Inv, Places, PlacesConsistent, SingleOwner, QueuePositions,
           RetrierConsistent, Start

\* Steps that touch neither the jobs, the queue, the workers nor the retry goroutines.
LEMMA FramePlaces ==
  ASSUME Inv, UNCHANGED <<status, attempts, accepted, queue, pc, hand, retriers>>
  PROVE  Places'
BY DEF Inv, Places, PlacesConsistent, SingleOwner, QueuePositions, HandConsistent,
       StatusInHand, RetrierConsistent

\* A job Submit has not accepted is in no place.
LEMMA NewJobFree ==
  ASSUME Inv, NEW j \in Jobs, j \notin accepted
  PROVE  /\ \A i \in QueuePositions : queue[i] # j
         /\ \A w \in Workers : hand[w] # j
         /\ \A r \in retriers : r.job # j
BY DEF Inv, PlacesConsistent, HandConsistent, RetrierConsistent, TypeInv, TypeOK

LEMMA SubmitPlaces == ASSUME NEW j \in Jobs PROVE Inv /\ Submit(j) => Places'
<1> SUFFICES ASSUME Inv, Submit(j) PROVE Places'
  OBVIOUS
<1>f. /\ \A i \in QueuePositions : queue[i] # j
      /\ \A w \in Workers : hand[w] # j
      /\ \A r \in retriers : r.job # j
  BY NewJobFree DEF Submit, SubmitAccepted, SubmitRefused, SubmitPanics, SubmitCounts
<1>u. /\ UNCHANGED <<pc, hand, retriers, attempts>>
      /\ status' = [status EXCEPT ![j] = "pending"]
      /\ accepted \subseteq accepted'
  BY DEF Submit, SubmitAccepted, SubmitRefused, SubmitPanics, SubmitCounts, Accept
<1>w. \A w \in Workers : HandConsistent(w)'
  BY <1>f, <1>u DEF Inv, TypeInv, TypeOK, PlacesConsistent, HandConsistent, StatusInHand
<1>r. \A r \in retriers' : RetrierConsistent(r)'
  BY <1>f, <1>u DEF Inv, TypeInv, TypeOK, PlacesConsistent, RetrierConsistent, Retriers
<1>n. \A k \in Jobs \ accepted' : status'[k] \in {"new", "pending"}
  BY <1>u DEF Inv, TypeInv, TypeOK, PlacesConsistent
<1>1. CASE UNCHANGED queue
  BY <1>1, <1>f, <1>u, <1>w, <1>r, <1>n
  DEF Inv, TypeInv, TypeOK, Places, PlacesConsistent, SingleOwner, QueuePositions
<1>2. CASE SubmitAccepted(j)
  <2>1. queue' = Append(queue, j) /\ accepted' = accepted \cup {j}
    BY <1>2 DEF SubmitAccepted, Enqueue, Accept
  <2>2. /\ QueuePositions' = QueuePositions \cup {Len(queue) + 1}
        /\ \A i \in QueuePositions : queue'[i] = queue[i]
        /\ queue'[Len(queue) + 1] = j
    BY <2>1 DEF QueuePositions, Inv, TypeInv, TypeOK
  <2>h. \A i \in QueuePositions : queue[i] \in Jobs
    BY DEF QueuePositions, Inv, TypeInv, TypeOK
  <2>3. \A i \in QueuePositions' : queue'[i] \in accepted' /\ status'[queue'[i]] = "pending"
    <3>1. \A i \in QueuePositions : queue[i] \in accepted /\ status'[queue[i]] = "pending"
      BY <1>u, <2>h DEF Inv, TypeInv, TypeOK, PlacesConsistent
    <3>2. j \in accepted' /\ status'[j] = "pending"
      BY <1>u, <2>1 DEF Inv, TypeInv, TypeOK
    <3> QED BY <1>u, <2>2, <3>1, <3>2
  <2>4. SingleOwner'
    BY <1>u, <1>f, <2>2 DEF Inv, SingleOwner
  <2> QED BY <1>w, <1>r, <1>n, <2>3, <2>4 DEF Places, PlacesConsistent
<1> QED BY <1>1, <1>2 DEF Submit, SubmitRefused, SubmitPanics

\* Where a retry goroutine has a job, nothing else has.
LEMMA RetrierOwns ==
  ASSUME Inv, NEW r \in retriers
  PROVE  /\ r \in Retriers /\ r.job \in Jobs /\ r.job \in accepted
         /\ \A i \in QueuePositions : queue[i] # r.job
         /\ \A w \in Workers : hand[w] # r.job
         /\ \A s \in retriers \ {r} : s.job # r.job
BY DEF Inv, TypeInv, TypeOK, Retriers, SingleOwner, PlacesConsistent, RetrierConsistent

\* A retry goroutine ends: its job is in one place less.
LEMMA RetrierEnds ==
  ASSUME Inv, NEW r \in retriers, EndRetrier(r),
         UNCHANGED <<status, queue, attempts, accepted, pc, hand>>
  PROVE  Places'
BY DEF Inv, Places, PlacesConsistent, SingleOwner, QueuePositions, HandConsistent,
       StatusInHand, RetrierConsistent, EndRetrier

\* A retry goroutine moves on, and its last move resets the status of the job.
LEMMA RetrierMoves ==
  ASSUME Inv, NEW r \in retriers, NEW place \in {"lock", "reset", "send"},
         r.at # "send", MoveRetrier(r, place),
         UNCHANGED <<queue, attempts, accepted, pc, hand>>,
         status' = IF place = "send" THEN [status EXCEPT ![r.job] = "pending"] ELSE status
  PROVE  Places'
<1> DEFINE q == [r EXCEPT !.at = place]
<1>0. /\ q.job = r.job /\ q.attempt = r.attempt /\ q.at = place
      /\ retriers' = (retriers \ {r}) \cup {q}
  BY RetrierOwns DEF MoveRetrier, Retriers
<1> HIDE DEF q
<1>1. \A j \in Jobs : j # r.job => status'[j] = status[j]
  BY DEF Inv, TypeInv, TypeOK
<1>2. status'[r.job] = IF place = "send" THEN "pending" ELSE "retrying"
  BY RetrierOwns DEF Inv, TypeInv, TypeOK, PlacesConsistent, RetrierConsistent
<1>3. ASSUME NEW w \in Workers PROVE HandConsistent(w)'
  <2>1. HandConsistent(w)
    BY DEF Inv, PlacesConsistent
  <2>2. CASE pc[w] \in {"taken", "running", "retry", "countOk", "countFail", "send"}
    <3>1. status'[hand[w]] = status[hand[w]]
      BY <2>2, <1>1, HandIsJob, RetrierOwns
    <3> QED BY <2>1, <2>2, <3>1 DEF HandConsistent, StatusInHand
  <2>3. CASE pc[w] \notin {"taken", "running", "retry", "countOk", "countFail", "send"}
    BY <2>1, <2>3 DEF HandConsistent
  <2> QED BY <2>2, <2>3
<1>4. \A i \in QueuePositions' : queue'[i] \in accepted' /\ status'[queue'[i]] = "pending"
  BY RetrierOwns, <1>1 DEF Inv, TypeInv, TypeOK, PlacesConsistent, QueuePositions
<1>5. \A s \in retriers \ {r} : RetrierConsistent(s)'
  BY RetrierOwns, <1>1 DEF Inv, PlacesConsistent, RetrierConsistent
<1>6. RetrierConsistent(q)'
  BY RetrierOwns, <1>0, <1>2 DEF Inv, PlacesConsistent, RetrierConsistent
<1>7. \A j \in Jobs \ accepted' : status'[j] \in {"new", "pending"}
  BY RetrierOwns, <1>1 DEF Inv, PlacesConsistent
<1>8. SingleOwner'
  BY RetrierOwns, <1>0 DEF Inv, SingleOwner, QueuePositions
<1> QED BY <1>0, <1>3, <1>4, <1>5, <1>6, <1>7, <1>8 DEF Places, PlacesConsistent

\* The job of a retry goroutine in its last place, resubmitted.
LEMMA RetrierQueues ==
  ASSUME Inv, NEW r \in retriers, r.at = "send", EndRetrier(r), Enqueue(r.job),
         UNCHANGED <<status, attempts, accepted, pc, hand>>
  PROVE  Places'
<1>1. /\ QueuePositions' = QueuePositions \cup {Len(queue) + 1}
      /\ \A i \in QueuePositions : queue'[i] = queue[i]
      /\ queue'[Len(queue) + 1] = r.job
  BY RetrierOwns DEF QueuePositions, Inv, TypeInv, TypeOK, Enqueue
<1>2. \A i \in QueuePositions' : queue'[i] \in accepted' /\ status'[queue'[i]] = "pending"
  <2>1. status[r.job] = "pending"
    BY DEF Inv, PlacesConsistent, RetrierConsistent
  <2> QED BY RetrierOwns, <1>1, <2>1 DEF Inv, PlacesConsistent
<1>3. SingleOwner'
  BY RetrierOwns, <1>1 DEF Inv, SingleOwner, EndRetrier
<1>4. \A w \in Workers : HandConsistent(w)'
  BY DEF Inv, PlacesConsistent, HandConsistent, StatusInHand
<1>5. \A s \in retriers' : RetrierConsistent(s)'
  BY DEF Inv, PlacesConsistent, RetrierConsistent, EndRetrier
<1> QED BY <1>2, <1>3, <1>4, <1>5 DEF Inv, Places, PlacesConsistent

LEMMA RetrierPlaces == ASSUME NEW r \in retriers PROVE Inv /\ Retrier(r) => Places'
<1> SUFFICES ASSUME Inv, Retrier(r) PROVE Places'
  OBVIOUS
<1> USE DEF RetryUnchanged, shared, client, tally
<1>1. CASE TimerFires(r)
  BY <1>1, RetrierMoves DEF TimerFires
<1>2. CASE RetryCancelled(r)
  BY <1>2, RetrierEnds DEF RetryCancelled
<1>3. CASE ReadStopped(r)
  BY <1>3, RetrierMoves, RetrierEnds DEF ReadStopped
<1>4. CASE ResetStatus(r)
  BY <1>4, RetrierMoves DEF ResetStatus
<1>5. CASE RetryQueued(r)
  BY <1>5, RetrierQueues DEF RetryQueued
<1>6. CASE RetryDropped(r) \/ RetryPanics(r)
  BY <1>6, RetrierEnds DEF RetryDropped, RetryPanics
<1> QED BY <1>1, <1>2, <1>3, <1>4, <1>5, <1>6 DEF Retrier
Holds(w) == pc[w] \in {"taken", "running", "retry", "countOk", "countFail", "send"}

\* What a worker holds, nothing else has.
LEMMA WorkerOwns ==
  ASSUME Inv, NEW w \in Workers, Holds(w)
  PROVE  /\ hand[w] \in Jobs /\ hand[w] \in accepted /\ hand[w] # NoJob
         /\ \A i \in QueuePositions : queue[i] # hand[w]
         /\ \A v \in Workers \ {w} : hand[v] # hand[w]
         /\ \A r \in retriers : r.job # hand[w]
BY HandIsJob DEF Inv, SingleOwner, Holds

\* A step of a worker that writes to no job but the one it holds.
LEMMA WorkerWritesOwn ==
  ASSUME Inv, NEW w \in Workers, NEW place, Goto(w, place),
         UNCHANGED <<queue, accepted, retriers>>,
         \/ UNCHANGED hand
         \/ HandOver(w),
         \/ UNCHANGED <<status, attempts>>
         \/ /\ Holds(w)
            /\ \A j \in Jobs \ {hand[w]} : status'[j] = status[j] /\ attempts'[j] = attempts[j],
         HandConsistent(w)'
  PROVE  Places'
<1>1. \A v \in Workers \ {w} : pc'[v] = pc[v] /\ hand'[v] = hand[v]
  BY DEF Goto, HandOver, Inv, TypeInv, TypeOK
<1>2. \A j \in Jobs : (\A v \in Workers : Holds(v) /\ v = w => j # hand[v])
                      => status'[j] = status[j] /\ attempts'[j] = attempts[j]
  OBVIOUS
<1>3. \A v \in Workers : HandConsistent(v)'
  <2> SUFFICES ASSUME NEW v \in Workers \ {w} PROVE HandConsistent(v)'
    OBVIOUS
  <2>1. Holds(v) => hand[v] \in Jobs /\ hand[v] # NoJob /\ (Holds(w) => hand[v] # hand[w])
    BY WorkerOwns
  <2>2. Holds(v) => status'[hand[v]] = status[hand[v]]
    BY <2>1, <1>2
  <2> QED BY <1>1, <2>2
          DEF Inv, PlacesConsistent, HandConsistent, StatusInHand, Holds
<1>4. \A i \in QueuePositions' : queue'[i] \in accepted' /\ status'[queue'[i]] = "pending"
  <2>1. \A i \in QueuePositions : queue[i] \in Jobs
    BY DEF Inv, TypeInv, TypeOK, QueuePositions
  <2> QED BY <1>2, <2>1, WorkerOwns DEF Inv, PlacesConsistent, QueuePositions
<1>5. \A r \in retriers' : RetrierConsistent(r)'
  BY <1>2, WorkerOwns, RetrierOwns DEF Inv, PlacesConsistent, RetrierConsistent
<1>6. \A j \in Jobs \ accepted' : status'[j] \in {"new", "pending"}
  BY <1>2, WorkerOwns DEF Inv, PlacesConsistent
<1>7. SingleOwner'
  <2>1. hand'[w] = hand[w] \/ hand'[w] = NoJob
    BY DEF HandOver, Inv, TypeInv, TypeOK
  <2>2. \A i \in QueuePositions : queue[i] # NoJob
    BY DEF Inv, TypeInv, TypeOK, QueuePositions
  <2>3. \A r \in retriers : r.job # NoJob
    BY RetrierOwns
  <2> QED BY <1>1, <2>1, <2>2, <2>3 DEF Inv, SingleOwner, QueuePositions
<1> QED BY <1>3, <1>4, <1>5, <1>6, <1>7 DEF Places, PlacesConsistent

LEMMA WorkerTakesPlaces == ASSUME NEW w \in Workers PROVE Inv /\ WorkerTakes(w) => Places'
<1> SUFFICES ASSUME Inv, WorkerTakes(w) PROVE Places'
  OBVIOUS
<1> USE DEF WorkerTakes, shared, client, tally
<1>0. queue \in Seq(Jobs) /\ queue # <<>>
  BY DEF Inv, TypeInv, TypeOK
<1>1. /\ \A i \in QueuePositions' : i + 1 \in QueuePositions /\ queue'[i] = queue[i + 1]
      /\ 1 \in QueuePositions /\ Head(queue) = queue[1]
      /\ \A i \in QueuePositions' : i \in Nat \ {0}
  BY <1>0 DEF QueuePositions
<1>2. /\ hand'[w] = queue[1] /\ pc'[w] = "taken"
      /\ \A v \in Workers \ {w} : pc'[v] = pc[v] /\ hand'[v] = hand[v]
  BY <1>1 DEF Goto, Inv, TypeInv, TypeOK
<1>3. queue[1] \in accepted /\ status[queue[1]] = "pending"
  BY <1>1 DEF Inv, PlacesConsistent
<1>u. UNCHANGED <<status, attempts, accepted, retriers>>
  OBVIOUS
<1> HIDE DEF WorkerTakes, shared, client, tally
<1>4. \A v \in Workers : HandConsistent(v)'
  <2>1. HandConsistent(w)'
    BY <1>2, <1>3, <1>u DEF HandConsistent, StatusInHand
  <2>2. \A v \in Workers \ {w} : HandConsistent(v)'
    BY <1>2, <1>u DEF Inv, PlacesConsistent, HandConsistent, StatusInHand
  <2> QED BY <2>1, <2>2
<1>5. \A i \in QueuePositions' : queue'[i] \in accepted' /\ status'[queue'[i]] = "pending"
  <2>1. \A i \in QueuePositions : queue[i] \in accepted /\ status[queue[i]] = "pending"
    BY DEF Inv, PlacesConsistent
  <2> QED BY <1>1, <1>u, <2>1
<1>6. \A r \in retriers' : RetrierConsistent(r)'
  BY <1>u DEF Inv, PlacesConsistent, RetrierConsistent
<1>7. SingleOwner'
  <2>1. \A i, k \in QueuePositions' : queue'[i] = queue'[k] => i = k
    <3> SUFFICES ASSUME NEW i \in QueuePositions', NEW k \in QueuePositions',
                        queue'[i] = queue'[k]
                 PROVE  i = k
      OBVIOUS
    <3>1. i + 1 = k + 1
      BY <1>1 DEF Inv, SingleOwner
    <3> QED BY <1>1, <3>1
  <2>2. \A i \in QueuePositions' : queue'[i] # queue[1]
    <3> SUFFICES ASSUME NEW i \in QueuePositions', queue'[i] = queue[1] PROVE FALSE
      OBVIOUS
    <3>1. i + 1 = 1
      BY <1>1 DEF Inv, SingleOwner
    <3> QED BY <1>1, <3>1
  <2>3. \A v \in Workers \ {w} : hand'[v] # queue[1]
    BY <1>1, <1>2 DEF Inv, SingleOwner
  <2>4. \A v, u \in Workers : hand'[v] = hand'[u] /\ hand'[v] # NoJob => v = u
    BY <1>2, <2>3 DEF Inv, SingleOwner
  <2>5. \A i \in QueuePositions' : \A v \in Workers : hand'[v] # queue'[i]
    BY <1>1, <1>2, <2>2 DEF Inv, SingleOwner
  <2>6. \A i \in QueuePositions' : \A r \in retriers : r.job # queue'[i]
    BY <1>1 DEF Inv, SingleOwner
  <2>7. \A v \in Workers : \A r \in retriers : hand'[v] # r.job
    BY <1>1, <1>2 DEF Inv, SingleOwner
  <2>8. \A r, s \in retriers : r.job = s.job => r = s
    BY DEF Inv, SingleOwner
  <2> QED BY <1>u, <2>1, <2>4, <2>5, <2>6, <2>7, <2>8 DEF SingleOwner
<1>8. \A j \in Jobs \ accepted : status[j] \in {"new", "pending"}
  BY DEF Inv, PlacesConsistent
<1> QED BY <1>4, <1>5, <1>6, <1>7, <1>8, <1>u DEF Places, PlacesConsistent

\* The queue holds jobs.
LEMMA QueuedIsJob == Inv => \A i \in QueuePositions : queue[i] \in Jobs /\ queue[i] # NoJob
BY JobsAssumption DEF Inv, TypeInv, TypeOK, QueuePositions

LEMMA ScheduleRetryPlaces ==
  ASSUME NEW w \in Workers PROVE Inv /\ ScheduleRetry(w) => Places'
<1> SUFFICES ASSUME Inv, ScheduleRetry(w) PROVE Places'
  OBVIOUS
<1> USE DEF ScheduleRetry, SpawnRetrier, shared, client, tally
<1> DEFINE q == [job |-> hand[w], attempt |-> attempts[hand[w]], at |-> "sleep"]
<1>0. /\ q.job = hand[w] /\ q.attempt = attempts[hand[w]] /\ q.at = "sleep"
      /\ retriers' = retriers \cup {q}
  OBVIOUS
<1> HIDE DEF q
<1>1. Holds(w) /\ status[hand[w]] = "retrying"
  BY HandIsJob DEF Holds, StatusInHand
<1>2. /\ hand'[w] = NoJob /\ pc'[w] = "leave"
      /\ \A v \in Workers \ {w} : pc'[v] = pc[v] /\ hand'[v] = hand[v]
  BY DEF Goto, HandOver, Inv, TypeInv, TypeOK
<1>3. \A v \in Workers : HandConsistent(v)'
  BY <1>2 DEF Inv, PlacesConsistent, HandConsistent, StatusInHand
<1>4. \A r \in retriers' : RetrierConsistent(r)'
  BY <1>0, <1>1, WorkerOwns DEF Inv, PlacesConsistent, RetrierConsistent
<1>5. SingleOwner'
  <2>a. /\ UNCHANGED queue /\ QueuePositions' = QueuePositions
        /\ \A i \in QueuePositions : queue'[i] = queue[i]
    BY DEF QueuePositions
  <2>b. hand[w] # NoJob /\ \A r \in retriers : r.job # NoJob
    BY <1>1, WorkerOwns, RetrierOwns
  <2>c. \A i \in QueuePositions : queue[i] # NoJob
    BY QueuedIsJob
  <2>0. /\ \A i \in QueuePositions : queue[i] # NoJob /\ queue'[i] = queue[i]
        /\ QueuePositions' = QueuePositions /\ hand[w] # NoJob
        /\ \A r \in retriers : r.job # NoJob
    BY <2>a, <2>b, <2>c
  <2>1. \A v \in Workers : hand'[v] # hand[w] /\ \A r \in retriers : hand'[v] # r.job
    BY <1>1, <1>2, <2>0, WorkerOwns DEF Inv, SingleOwner
  <2> HIDE DEF ScheduleRetry, SpawnRetrier
  <2>2. \A v, u \in Workers : hand'[v] = hand'[u] /\ hand'[v] # NoJob => v = u
    BY <1>2 DEF Inv, SingleOwner
  <2>3. \A i \in QueuePositions' : \A v \in Workers : hand'[v] # queue'[i]
    BY <1>2, <2>0 DEF Inv, SingleOwner
  <2>4. \A r, s \in retriers' : r.job = s.job => r = s
    BY <1>0, <1>1, WorkerOwns DEF Inv, SingleOwner
  <2>5. \A i \in QueuePositions' : \A r \in retriers' : r.job # queue'[i]
    BY <1>0, <1>1, <2>0, WorkerOwns DEF Inv, SingleOwner
  <2>6. \A v \in Workers : \A r \in retriers' : hand'[v] # r.job
    BY <1>0, <2>1
  <2>7. \A i, k \in QueuePositions' : queue'[i] = queue'[k] => i = k
    BY <2>0 DEF Inv, SingleOwner
  <2> QED BY <2>2, <2>3, <2>4, <2>5, <2>6, <2>7 DEF SingleOwner
<1> QED BY <1>3, <1>4, <1>5 DEF Inv, Places, PlacesConsistent, QueuePositions

LEMMA WorkerPlaces == ASSUME NEW w \in Workers PROVE Inv /\ Worker(w) => Places'
<1> SUFFICES ASSUME Inv, Worker(w) PROVE Places'
  OBVIOUS
<1> USE DEF shared, client, tally
<1>0. HandConsistent(w) /\ pc[w] \in WorkerPCs
  BY DEF Inv, PlacesConsistent, TypeInv, TypeOK
<1>1. CASE WorkerTakes(w)
  BY <1>1, WorkerTakesPlaces
<1>2. CASE WorkerExits(w) \/ LeaveJob(w)
  <2>1. HandConsistent(w)'
    BY <1>0, <1>2 DEF WorkerExits, LeaveJob, HandConsistent, Goto, Inv, TypeInv, TypeOK
  <2> QED BY <1>2, <2>1, WorkerWritesOwn DEF WorkerExits, LeaveJob
<1>3. CASE BeginJob(w)
  <2>1. Holds(w)
    BY <1>3 DEF BeginJob, Holds
  <2>2. HandConsistent(w)'
    BY <1>3, <2>1, WorkerOwns
    DEF BeginJob, HandConsistent, StatusInHand, Goto, Inv, TypeInv, TypeOK
  <2>3. \A j \in Jobs \ {hand[w]} : status'[j] = status[j] /\ attempts'[j] = attempts[j]
    BY <1>3 DEF BeginJob, Inv, TypeInv, TypeOK
  <2> QED BY <1>3, <2>1, <2>2, <2>3, WorkerWritesOwn DEF BeginJob
<1>4. ASSUME NEW st, NEW place, Executed(w, st, place),
             <<st, place>> \in {<<"completed", "countOk">>, <<"failed", "countFail">>,
                                <<"retrying", "retry">>}
      PROVE  Places'
  <2>1. Holds(w)
    BY <1>4 DEF Executed, Holds
  <2>2. HandConsistent(w)'
    BY <1>4, <2>1, WorkerOwns
    DEF Executed, HandConsistent, StatusInHand, Goto, Inv, TypeInv, TypeOK
  <2>3. \A j \in Jobs \ {hand[w]} : status'[j] = status[j] /\ attempts'[j] = attempts[j]
    BY <1>4 DEF Executed, Inv, TypeInv, TypeOK
  <2> QED BY <1>4, <2>1, <2>2, <2>3, WorkerWritesOwn DEF Executed
<1>5. CASE ScheduleRetry(w)
  BY <1>5, ScheduleRetryPlaces
<1>6. CASE CountResult(w)
  <2>1. HandConsistent(w)'
    BY <1>0, <1>6 DEF CountResult, CountWhen, HandConsistent, StatusInHand, Terminal, Goto,
       Inv, TypeInv, TypeOK
  <2> QED BY <1>6, <2>1, WorkerWritesOwn DEF CountResult, CountWhen
<1>7. CASE SendResult(w)
  <2>1. HandConsistent(w)'
    BY <1>7 DEF SendResult, HandConsistent, HandOver, Goto, Inv, TypeInv, TypeOK
  <2> QED BY <1>7, <2>1, WorkerWritesOwn DEF SendResult
<1> QED BY <1>1, <1>2, <1>3, <1>4, <1>5, <1>6, <1>7
     DEF Worker, WorkInBody, ExecuteSucceeds, ExecuteFails
-----------------------------------------------------------------------------
(***************************************************************************)
(* The theorems.                                                           *)
(***************************************************************************)

LEMMA InitInv == Init => Inv
BY InitType, InitPlaces DEF Inv, Places

LEMMA StepInv == Inv /\ [Next]_vars => Inv'
<1> SUFFICES ASSUME Inv, [Next]_vars PROVE TypeInv' /\ Places'
  BY DEF Inv, Places
<1>0. TypeInv
  BY DEF Inv
<1>1. CASE Start
  BY <1>0, <1>1, StartType, StartPlaces
<1>2. ASSUME NEW j \in Jobs, Submit(j) PROVE TypeInv' /\ Places'
  BY <1>0, <1>2, SubmitType, SubmitPlaces
<1>3. CASE StopCancel \/ StopClose \/ StopFinish
  BY <1>0, <1>3, StopType, FramePlaces DEF StopCancel, StopClose, StopFinish, StopUnchanged, client
<1>4. ASSUME NEW w \in Workers, Worker(w) PROVE TypeInv' /\ Places'
  BY <1>4, WorkerType, WorkerPlaces
<1>5. ASSUME NEW r \in retriers, Retrier(r) PROVE TypeInv' /\ Places'
  BY <1>0, <1>5, RetrierType, RetrierPlaces
<1>6. CASE ProcessResult \/ ProcessorExits
  BY <1>0, <1>6, ProcessorType, FramePlaces DEF ProcessResult, ProcessorExits, shared, client
<1>7. CASE UNCHANGED vars
  <2>1. TypeOK'
    BY <1>0, <1>7 DEF TypeInv, TypeOK, vars
  <2>2. (\A v \in Workers : InBody(v)' <=> InBody(v)) /\ active' = active
    BY <1>7 DEF vars, InBody
  <2> QED BY <1>0, <1>7, <2>1, <2>2, SameBodies, FramePlaces DEF TypeInv, vars
<1> QED BY <1>1, <1>2, <1>3, <1>4, <1>5, <1>6, <1>7 DEF Next, Step, Terminated

\* The variables keep their types, the queue its capacity, and ActiveJobs never goes
\* below zero.
THEOREM TypeCorrect == Spec => []TypeOK
<1>1. Inv => TypeOK
  BY DEF Inv, TypeInv
<1> QED BY <1>1, InitInv, StepInv, PTL DEF Spec

\* No job is ever in two places: processJob and scheduleRetry may change a job without
\* its lock.
THEOREM OneOwner == Spec => []SingleOwner
<1>1. Inv => SingleOwner
  BY DEF Inv
<1> QED BY <1>1, InitInv, StepInv, PTL DEF Spec

\* ActiveJobs counts the workers inside processJob, exactly and at every moment.
THEOREM ActiveCount == Spec => []ActiveIsWorkersInBody
<1>1. Inv => ActiveIsWorkersInBody
  BY DEF Inv, TypeInv
<1> QED BY <1>1, InitInv, StepInv, PTL DEF Spec

\* Which jobs a step may write to: none that has its final status.
LEMMA FinalStatusStep ==
  Inv /\ [Next]_vars =>
    \A j \in Jobs : status[j] \in Terminal => status'[j] = status[j] /\ attempts'[j] = attempts[j]
<1> SUFFICES ASSUME Inv, [Next]_vars, NEW j \in Jobs, status[j] \in Terminal
             PROVE  status'[j] = status[j] /\ attempts'[j] = attempts[j]
  OBVIOUS
<1>0. status \in [Jobs -> Statuses] /\ attempts \in [Jobs -> Nat]
  BY DEF Inv, TypeInv, TypeOK
<1>1. CASE Start
  BY <1>1 DEF Start
<1>2. ASSUME NEW k \in Jobs, Submit(k) PROVE status'[j] = status[j] /\ attempts'[j] = attempts[j]
  <2>1. k \notin accepted /\ status' = [status EXCEPT ![k] = "pending"] /\ attempts' = attempts
    BY <1>2 DEF Submit, SubmitAccepted, SubmitRefused, SubmitPanics, SubmitCounts
  <2>2. status[k] \in {"new", "pending"}
    BY <2>1 DEF Inv, PlacesConsistent
  <2> QED BY <1>0, <2>1, <2>2 DEF Terminal
<1>3. CASE StopCancel \/ StopClose \/ StopFinish
  BY <1>3 DEF StopCancel, StopClose, StopFinish, StopUnchanged
<1>4. ASSUME NEW w \in Workers, Worker(w) PROVE status'[j] = status[j] /\ attempts'[j] = attempts[j]
  <2>1. CASE UNCHANGED <<status, attempts>>
    BY <2>1
  <2>2. CASE BeginJob(w)
    <3>1. status[hand[w]] = "pending"
      BY <2>2, HandIsJob DEF BeginJob, StatusInHand
    <3> QED BY <1>0, <2>2, <3>1 DEF BeginJob, Terminal
  <2>3. ASSUME NEW st, NEW place, Executed(w, st, place)
        PROVE  status'[j] = status[j] /\ attempts'[j] = attempts[j]
    <3>1. status[hand[w]] = "running"
      BY <2>3, HandIsJob DEF Executed, StatusInHand
    <3> QED BY <1>0, <2>3, <3>1 DEF Executed, Terminal
  <2> QED BY <1>4, <2>1, <2>2, <2>3
          DEF Worker, WorkInBody, WorkerTakes, WorkerExits, ExecuteSucceeds, ExecuteFails,
              ScheduleRetry, SpawnRetrier, CountResult, CountWhen, SendResult, LeaveJob
<1>5. ASSUME NEW r \in retriers, Retrier(r)
      PROVE  status'[j] = status[j] /\ attempts'[j] = attempts[j]
  <2>1. status[r.job] \in {"pending", "retrying"}
    BY DEF Inv, PlacesConsistent, RetrierConsistent
  <2>2. attempts' = attempts
    BY <1>5 DEF Retrier, TimerFires, RetryCancelled, ReadStopped, ResetStatus, RetryQueued,
       RetryDropped, RetryPanics, RetryUnchanged
  <2>3. status' = status \/ status' = [status EXCEPT ![r.job] = "pending"]
    BY <1>5 DEF Retrier, TimerFires, RetryCancelled, ReadStopped, ResetStatus, RetryQueued,
       RetryDropped, RetryPanics
  <2> QED BY <1>0, <2>1, <2>2, <2>3 DEF Terminal
<1>6. CASE ProcessResult \/ ProcessorExits
  BY <1>6 DEF ProcessResult, ProcessorExits
<1>7. CASE UNCHANGED vars
  BY <1>7 DEF vars
<1> QED BY <1>1, <1>2, <1>3, <1>4, <1>5, <1>6, <1>7 DEF Next, Step, Terminated

\* A job whose status is Completed or Failed keeps it, and is not attempted again.
THEOREM FinalStatusStays == Spec => FinalStatusIsFinal
<1>1. Inv /\ [Next]_vars =>
        [\A j \in Jobs : status[j] \in Terminal =>
           status'[j] = status[j] /\ attempts'[j] = attempts[j]]_vars
  BY FinalStatusStep
<1> QED BY <1>1, InitInv, StepInv, PTL DEF Spec, FinalStatusIsFinal

\* Once the only Stop of a pool started once has returned, every worker has exited with
\* an empty hand: close(p.results) cannot meet a sender.
THEOREM StoppedIsQuiet == Spec => []StoppedMeansNoWorker
<1>1. Init => StoppedMeansNoWorker
  BY DEF Init, StoppedMeansNoWorker, Stopped
<1>2. Inv /\ StoppedMeansNoWorker /\ [Next]_vars => StoppedMeansNoWorker'
  <2> SUFFICES ASSUME Inv, StoppedMeansNoWorker, [Next]_vars, life' = "stopped", starts' <= 1
               PROVE  \A w \in Workers : Exited(w)' /\ hand'[w] = NoJob
    BY DEF StoppedMeansNoWorker, Stopped
  <2>0. starts \in Nat /\ life \in Phases
    BY DEF Inv, TypeInv, TypeOK
  <2>1. CASE Start
    BY <2>0, <2>1 DEF Start
  <2>2. CASE StopFinish
    BY <2>2 DEF StopFinish, StopUnchanged, WaitGroupZero, Exited, Inv, PlacesConsistent,
       HandConsistent
  <2>3. ASSUME NEW w \in Workers, Worker(w), life = "stopped", starts <= 1 PROVE FALSE
    BY <2>3 DEF StoppedMeansNoWorker, Stopped, Exited, Worker, WorkInBody, WorkerTakes,
       WorkerExits, BeginJob, ExecuteSucceeds, ExecuteFails, Executed, ScheduleRetry,
       SpawnRetrier, CountResult, CountWhen, SendResult, LeaveJob
  <2>4. ASSUME NEW w \in Workers, Worker(w) PROVE UNCHANGED <<life, starts>>
    BY <2>4 DEF Worker, WorkInBody, WorkerTakes, WorkerExits, BeginJob, ExecuteSucceeds,
       ExecuteFails, Executed, ScheduleRetry, SpawnRetrier, CountResult, CountWhen,
       SendResult, LeaveJob, shared, client
  <2>5. ASSUME UNCHANGED <<life, starts, pc, hand>>
        PROVE  \A w \in Workers : Exited(w)' /\ hand'[w] = NoJob
    BY <2>5 DEF StoppedMeansNoWorker, Stopped, Exited
  <2>6. ASSUME NEW j \in Jobs, Submit(j) PROVE UNCHANGED <<life, starts, pc, hand>>
    BY <2>6 DEF Submit, SubmitAccepted, SubmitRefused, SubmitPanics, SubmitCounts
  <2>7. ASSUME NEW r \in retriers, Retrier(r) PROVE UNCHANGED <<life, starts, pc, hand>>
    BY <2>7 DEF Retrier, TimerFires, RetryCancelled, ReadStopped, ResetStatus, RetryQueued,
       RetryDropped, RetryPanics, RetryUnchanged, shared, client
  <2>8. ASSUME ProcessResult \/ ProcessorExits \/ UNCHANGED vars
        PROVE  UNCHANGED <<life, starts, pc, hand>>
    BY <2>8 DEF ProcessResult, ProcessorExits, shared, client, vars
  <2>9. ASSUME StopCancel \/ StopClose PROVE life' # "stopped"
    BY <2>9 DEF StopCancel, StopClose
  <2> QED BY <2>1, <2>2, <2>3, <2>4, <2>5, <2>6, <2>7, <2>8, <2>9 DEF Next, Step, Terminated
<1> QED BY <1>1, <1>2, InitInv, StepInv, PTL DEF Spec

\* What can end the program, and where it stands when it does.
LEMMA Crashes ==
  ASSUME [Next]_vars, crashed' # crashed
  PROVE  /\ crashed = "no" /\ UNCHANGED <<life, starts>>
         /\ \/ crashed' = "submit" /\ JobsClosed
            \/ crashed' = "retry" /\ JobsClosed /\ \E r \in retriers : r.at = "send"
            \/ crashed' = "result" /\ ResultsClosed /\ \E w \in Workers : pc[w] = "send"
<1>1. crashed = "no" /\ Step
  BY DEF Next, Terminated, vars
<1>2. CASE Start \/ StopCancel \/ StopClose \/ StopFinish \/ ProcessResult \/ ProcessorExits
  BY <1>2 DEF Start, StopCancel, StopClose, StopFinish, StopUnchanged, ProcessResult, ProcessorExits
<1>3. ASSUME NEW j \in Jobs, Submit(j)
      PROVE  crashed' = "submit" /\ JobsClosed /\ UNCHANGED <<life, starts>>
  BY <1>3 DEF Submit, SubmitAccepted, SubmitRefused, SubmitPanics, SubmitCounts
<1>4. ASSUME NEW w \in Workers, Worker(w)
      PROVE  crashed' = "result" /\ ResultsClosed /\ pc[w] = "send" /\ UNCHANGED <<life, starts>>
  BY <1>4 DEF Worker, WorkInBody, WorkerTakes, WorkerExits, BeginJob, ExecuteSucceeds,
     ExecuteFails, Executed, ScheduleRetry, SpawnRetrier, CountResult, CountWhen,
     SendResult, LeaveJob, shared, client
<1>5. ASSUME NEW r \in retriers, Retrier(r)
      PROVE  crashed' = "retry" /\ JobsClosed /\ r.at = "send" /\ UNCHANGED <<life, starts>>
  BY <1>5 DEF Retrier, TimerFires, RetryCancelled, ReadStopped, ResetStatus, RetryQueued,
     RetryDropped, RetryPanics, RetryUnchanged, shared, client
<1> QED BY <1>1, <1>2, <1>3, <1>4, <1>5 DEF Step

\* A pool started once never sends on the closed p.results: that takes a job left in the
\* queue by a Stop, and a second Start.
THEOREM ResultsNeverPanic == Spec => [](starts <= 1 => crashed # "result")
<1>1. Init => (starts <= 1 => crashed # "result")
  BY DEF Init
<1>2. /\ StoppedMeansNoWorker /\ (starts <= 1 => crashed # "result") /\ [Next]_vars
      => (starts <= 1 => crashed # "result")'
  <2> SUFFICES ASSUME StoppedMeansNoWorker, starts <= 1 => crashed # "result", [Next]_vars,
                      starts' <= 1, crashed' = "result"
               PROVE  FALSE
    OBVIOUS
  <2>1. CASE crashed = "result"
    BY <2>1 DEF Next, Terminated, vars
  <2>2. CASE crashed # "result"
    <3>1. starts <= 1 /\ ResultsClosed /\ \E w \in Workers : pc[w] = "send"
      BY <2>2, Crashes
    <3> QED BY <3>1 DEF StoppedMeansNoWorker, Stopped, ResultsClosed, Exited
  <2> QED BY <2>1, <2>2
<1> QED BY <1>1, <1>2, StoppedIsQuiet, PTL DEF Spec
=============================================================================
