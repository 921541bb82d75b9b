--------------------------- MODULE CloneTaskProofs ----------------------------
(***************************************************************************)
(* For all sets of repositories and every nesting of their paths: the      *)
(* output directory stays well formed, a finished clone is removed only    *)
(* from above, an outermost project's success is on the disk, and with the *)
(* cleanup no attempt takes what an earlier one left for a clone.          *)
(***************************************************************************)
EXTENDS CloneTask, TLAPS

(***************************************************************************)
(* The inductive invariant: where the task of a finished clone can be, and *)
(* that nothing takes away an outermost clone between git and its result.  *)
(***************************************************************************)
FinishedPlace(p) ==
  tree[p] = "repo" => \/ at[p] \in {"idle", "check", "expired"}
                      \/ at[p] = "cleanup" /\ ValidateClone /\ p \in Empty

OutermostKept(p) ==
  Above(p) = {} => /\ at[p] = "check" => tree[p] = "repo"
                   /\ outcome[p] = "ok" => tree[p] = "repo" /\ at[p] = "idle"

TaskInv == TaskTypeOK /\ \A p \in Repos : FinishedPlace(p) /\ OutermostKept(p)

LEMMA InitTask == TaskInit => TaskInv
BY AttemptsAssumption
DEF TaskInit, TaskInv, TaskTypeOK, Contents, Places, Outcomes, FinishedPlace, OutermostKept

-----------------------------------------------------------------------------
(***************************************************************************)
(* The operations on the tree.                                             *)
(***************************************************************************)

\* Removing a path and all below it leaves a tree.
LEMMA RemoveAllTree ==
  ASSUME TaskTypeOK, NEW p \in Repos
  PROVE  RemoveAll(p) \in [Repos -> Contents] /\ WellFormed(RemoveAll(p))
BY InsideAssumption DEF TaskTypeOK, RemoveAll, WellFormed, Contents

\* Making a path and its parents leaves a tree, unless a file is in the way.
LEMMA MkdirAllTree ==
  ASSUME TaskTypeOK, NEW p \in Repos, NEW c \in Contents,
         \A a \in Above(p) : tree[a] # "file",
         c \in {"absent", "file"} => c = tree[p]
  PROVE  MkdirAll(p, c) \in [Repos -> Contents] /\ WellFormed(MkdirAll(p, c))
<1>1. MkdirAll(p, c) \in [Repos -> Contents]
  BY DEF TaskTypeOK, MkdirAll, Contents
<1>2. ASSUME NEW q \in Repos, NEW s \in Inside[q], MkdirAll(p, c)[s] # "absent"
      PROVE  MkdirAll(p, c)[q] \notin {"absent", "file"}
  <2>0. s \in Repos /\ s # q
    BY InsideAssumption
  <2>1. CASE q \in Above(p)
    BY <2>1, InsideAssumption DEF TaskTypeOK, MkdirAll, Above
  <2>2. CASE q \notin Above(p)
    <3>1. s # p /\ s \notin Above(p)
      BY <2>0, <2>2, InsideAssumption DEF Above
    <3>2. tree[s] # "absent"
      BY <1>2, <2>0, <3>1 DEF MkdirAll
    <3>3. tree[q] \notin {"absent", "file"}
      BY <3>2 DEF TaskTypeOK, WellFormed
    <3> QED BY <2>2, <3>3 DEF MkdirAll
  <2> QED BY <2>1, <2>2
<1> QED BY <1>1, <1>2 DEF WellFormed

\* Replacing the contents of one path, which stays a directory, leaves a tree.
LEMMA ReplaceTree ==
  ASSUME TaskTypeOK, NEW p \in Repos, NEW c \in Contents \ {"absent", "file"},
         tree[p] # "absent"
  PROVE  [tree EXCEPT ![p] = c] \in [Repos -> Contents] /\ WellFormed([tree EXCEPT ![p] = c])
BY DEF TaskTypeOK, WellFormed

\* What a failing git leaves is a tree.
LEMMA GitFailsTree ==
  ASSUME TaskTypeOK, NEW p \in Repos, NEW left \in {"absent", "empty"},
         tree[p] = "absent" => left = "absent"
  PROVE  /\ [RemoveAll(p) EXCEPT ![p] = left] \in [Repos -> Contents]
         /\ WellFormed([RemoveAll(p) EXCEPT ![p] = left])
BY InsideAssumption DEF TaskTypeOK, RemoveAll, WellFormed, Contents
-----------------------------------------------------------------------------
(***************************************************************************)
(* Steps.                                                                  *)
(***************************************************************************)
TaskAction(p) == \/ CheckExists(p) \/ ValidateDirectory(p) \/ MakeParent(p)
                 \/ StartGit(p) \/ NoStart(p) \/ GitFinishes(p) \/ GitFails(p)
                 \/ TimesOut(p) \/ FinishesLate(p) \/ CheckClone(p) \/ Cleanup(p)

\* A task writes its own place and result only.
LEMMA TaskWritesOwn ==
  ASSUME TaskInv, NEW p \in Repos, TaskAction(p)
  PROVE  /\ \A q \in Repos \ {p} : at'[q] = at[q] /\ outcome'[q] = outcome[q]
         /\ at' \in [Repos -> Places] /\ outcome' \in [Repos -> Outcomes]
         /\ tries' \in [Repos -> 0..Attempts] /\ runs' = runs
<1> USE DEF TaskInv, TaskTypeOK, Places, Outcomes, Goto, Record
<1>1. CASE CheckExists(p)
  BY <1>1, AttemptsAssumption DEF CheckExists, TaskRuns
<1>2. CASE ValidateDirectory(p) \/ MakeParent(p)
  BY <1>2 DEF ValidateDirectory, MakeParent
<1>3. CASE StartGit(p) \/ NoStart(p) \/ GitFinishes(p) \/ GitFails(p)
  BY <1>3 DEF StartGit, NoStart, GitFinishes, GitFails
<1>4. CASE TimesOut(p) \/ FinishesLate(p) \/ CheckClone(p) \/ Cleanup(p)
  BY <1>4 DEF TimesOut, FinishesLate, CheckClone, Cleanup
<1> QED BY <1>1, <1>2, <1>3, <1>4 DEF TaskAction

LEMMA TaskTree ==
  ASSUME TaskInv, NEW p \in Repos, TaskAction(p)
  PROVE  tree' \in [Repos -> Contents] /\ WellFormed(tree')
<1>0. TaskTypeOK /\ tree \in [Repos -> Contents] /\ WellFormed(tree)
  BY DEF TaskInv, TaskTypeOK
<1>1. CASE UNCHANGED tree
  BY <1>0, <1>1
<1>2. CASE tree' = RemoveAll(p)
  BY <1>0, <1>2, RemoveAllTree
<1>3. CASE MakeParent(p)
  <2>1. tree[p] \in Contents
    BY <1>0
  <2> QED BY <1>0, <1>1, <1>3, <2>1, MkdirAllTree DEF MakeParent
<1>4. CASE StartGit(p)
  BY <1>0, <1>4, MkdirAllTree DEF StartGit, Contents
<1>5. CASE GitFinishes(p) \/ FinishesLate(p)
  BY <1>0, <1>5, ReplaceTree DEF GitFinishes, FinishesLate, Contents
<1>6. CASE GitFails(p)
  BY <1>0, <1>6, GitFailsTree DEF GitFails
<1> QED BY <1>1, <1>2, <1>3, <1>4, <1>5, <1>6
     DEF TaskAction, CheckExists, TaskRuns, ValidateDirectory, NoStart, TimesOut, CheckClone,
         Cleanup

\* A task makes no clone but its own, and removes one only from above, or an empty one.
LEMMA CloneRemoved ==
  ASSUME TaskInv, NEW p \in Repos, TaskAction(p), NEW q \in Repos,
         tree[q] = "repo", tree'[q] # "repo"
  PROVE  \/ q \in Inside[p] /\ at[p] \in {"validate", "clone", "expired", "cleanup"}
         \/ q = p /\ at[p] = "expired"
         \/ q = p /\ at[p] = "cleanup" /\ ValidateClone /\ p \in Empty
<1>0. FinishedPlace(q) /\ tree \in [Repos -> Contents]
  BY DEF TaskInv, TaskTypeOK
<1>1. CASE q = p
  <2>1. at[p] \in {"idle", "check"} => UNCHANGED tree
    BY DEF TaskAction, CheckExists, TaskRuns, ValidateDirectory, MakeParent, StartGit, NoStart,
       GitFinishes, GitFails, TimesOut, FinishesLate, CheckClone, Cleanup
  <2> QED BY <1>0, <1>1, <2>1 DEF FinishedPlace
<1>2. CASE q # p
  <2>1. CASE UNCHANGED tree
    BY <2>1
  <2>2. CASE ValidateDirectory(p) \/ GitFails(p) \/ Cleanup(p)
    BY <1>0, <1>2, <2>2 DEF ValidateDirectory, GitFails, Cleanup, RemoveAll
  <2>3. CASE MakeParent(p) \/ StartGit(p)
    BY <1>0, <1>2, <2>3 DEF MakeParent, StartGit, MkdirAll
  <2>4. CASE GitFinishes(p) \/ FinishesLate(p)
    BY <1>0, <1>2, <2>4 DEF GitFinishes, FinishesLate
  <2> QED BY <2>1, <2>2, <2>3, <2>4
       DEF TaskAction, CheckExists, TaskRuns, NoStart, TimesOut, CheckClone
<1> QED BY <1>1, <1>2

\* A clone appears only at its own task.
LEMMA CloneMade ==
  ASSUME TaskInv, NEW p \in Repos, TaskAction(p), NEW q \in Repos,
         tree[q] # "repo", tree'[q] = "repo"
  PROVE  q = p /\ (GitFinishes(p) \/ FinishesLate(p))
<1>0. tree \in [Repos -> Contents]
  BY DEF TaskInv, TaskTypeOK
<1>1. CASE ValidateDirectory(p) \/ GitFails(p) \/ Cleanup(p)
  BY <1>0, <1>1 DEF ValidateDirectory, GitFails, Cleanup, RemoveAll
<1>2. CASE MakeParent(p) \/ StartGit(p)
  BY <1>0, <1>2 DEF MakeParent, StartGit, MkdirAll
<1>3. CASE GitFinishes(p) \/ FinishesLate(p)
  BY <1>0, <1>3 DEF GitFinishes, FinishesLate
<1>4. CASE UNCHANGED tree
  BY <1>4
<1> QED BY <1>1, <1>2, <1>3, <1>4
     DEF TaskAction, CheckExists, TaskRuns, NoStart, TimesOut, CheckClone

LEMMA TaskStep ==
  ASSUME TaskInv, NEW p \in Repos, TaskAction(p)
  PROVE  TaskInv'
<1>1. TaskTypeOK'
  BY TaskWritesOwn, TaskTree DEF TaskInv, TaskTypeOK
<1>2. ASSUME NEW q \in Repos, q # p
      PROVE  FinishedPlace(q)' /\ OutermostKept(q)'
  <2>0. FinishedPlace(q) /\ OutermostKept(q) /\ at'[q] = at[q] /\ outcome'[q] = outcome[q]
    BY <1>2, TaskWritesOwn DEF TaskInv
  <2>1. FinishedPlace(q)'
    BY <1>2, <2>0, CloneMade DEF FinishedPlace
  <2>2. Above(q) = {} /\ tree[q] = "repo" => tree'[q] = "repo"
    BY <1>2, CloneRemoved DEF Above
  <2> QED BY <2>0, <2>1, <2>2 DEF OutermostKept, Above
<1>3. FinishedPlace(p)' /\ OutermostKept(p)'
  <2>0. /\ FinishedPlace(p) /\ OutermostKept(p) /\ TaskTypeOK
        /\ tree \in [Repos -> Contents] /\ at \in [Repos -> Places]
        /\ outcome \in [Repos -> Outcomes]
    BY DEF TaskInv, TaskTypeOK
  <2> USE DEF FinishedPlace, OutermostKept, Goto, Record, Above
  <2>1. CASE CheckExists(p)
    BY <2>0, <2>1 DEF CheckExists, TaskRuns, IsRepository, Places
  <2>2. CASE ValidateDirectory(p)
    BY <2>0, <2>2 DEF ValidateDirectory, RemoveAll
  <2>3. CASE MakeParent(p)
    BY <2>0, <2>3 DEF MakeParent, MkdirAll
  <2>4. CASE StartGit(p)
    BY <2>0, <2>4 DEF StartGit, MkdirAll
  <2>5. CASE NoStart(p)
    BY <2>0, <2>5 DEF NoStart
  <2>6. CASE GitFinishes(p)
    BY <2>0, <2>6 DEF GitFinishes
  <2>7. CASE GitFails(p)
    BY <2>0, <2>7 DEF GitFails, RemoveAll
  <2>8. CASE TimesOut(p)
    BY <2>0, <2>8 DEF TimesOut
  <2>9. CASE CheckClone(p)
    BY <2>0, <2>9 DEF CheckClone, ValidClone
  <2>10. CASE Cleanup(p)
    BY <2>0, <2>10 DEF Cleanup, RemoveAll
  <2>11. CASE FinishesLate(p)
    BY <2>0, <2>11 DEF FinishesLate
  <2> QED BY <2>1, <2>2, <2>3, <2>4, <2>5, <2>6, <2>7, <2>8, <2>9, <2>10, <2>11 DEF TaskAction
<1> QED BY <1>1, <1>2, <1>3 DEF TaskInv

LEMMA TaskInvStep == TaskInv /\ [TaskNext]_tvars => TaskInv'
<1> SUFFICES ASSUME TaskInv, [TaskNext]_tvars PROVE TaskInv'
  OBVIOUS
<1>1. ASSUME NEW p \in Repos, TaskAction(p) PROVE TaskInv'
  BY <1>1, TaskStep
<1>2. CASE RunAgain
  BY <1>2, AttemptsAssumption
  DEF RunAgain, TaskInv, TaskTypeOK, Places, Outcomes, FinishedPlace, OutermostKept, Above
<1>3. CASE UNCHANGED tvars
  BY <1>3 DEF tvars, TaskInv, TaskTypeOK, FinishedPlace, OutermostKept, Above
<1> QED BY <1>1, <1>2, <1>3 DEF TaskNext, TaskAction, AllSettled
-----------------------------------------------------------------------------
(***************************************************************************)
(* The theorems.                                                           *)
(***************************************************************************)

\* The output directory is always a tree, and every task in a place the code has.
THEOREM TaskTypeCorrect == TaskSpec => []TaskTypeOK
<1>1. TaskInv => TaskTypeOK
  BY DEF TaskInv
<1> QED BY <1>1, InitTask, TaskInvStep, PTL DEF TaskSpec

\* An outermost project whose task has recorded success has its clone on the disk, through
\* all failures, retries and removals of the other tasks.
THEOREM OutermostSuccess == TaskSpec => []OutermostSuccessIsReal
<1>1. TaskInv => OutermostSuccessIsReal
  BY DEF TaskInv, OutermostKept, OutermostSuccessIsReal
<1> QED BY <1>1, InitTask, TaskInvStep, PTL DEF TaskSpec

\* What no step of any task, nor a new run, does to a finished clone.
LEMMA FinishedCloneStep ==
  ASSUME TaskInv, [TaskNext]_tvars, NEW q \in Repos, tree[q] = "repo", tree'[q] # "repo"
  PROVE  \/ \E a \in Above(q) : at[a] \in {"validate", "clone", "expired", "cleanup"}
         \/ at[q] = "expired"
         \/ ValidateClone /\ q \in Empty
<1>1. PICK p \in Repos : TaskAction(p)
  BY DEF TaskNext, TaskAction, RunAgain, AllSettled, tvars
<1> QED BY <1>1, CloneRemoved DEF Above

\* A finished clone is removed only by the task or the failing git of a project above it,
\* or by its own task when its time was over or when it has no commit and is validated.
THEOREM FinishedClone == TaskSpec => FinishedCloneStays
<1>1. ASSUME TaskInv, [TaskNext]_tvars
      PROVE  \A p \in Repos : tree[p] = "repo" /\ tree'[p] # "repo" =>
               \/ \E a \in Above(p) : at[a] \in {"validate", "clone", "expired", "cleanup"}
               \/ at[p] = "expired"
               \/ ValidateClone /\ p \in Empty
  BY <1>1, FinishedCloneStep
<1> QED BY <1>1, InitTask, TaskInvStep, PTL DEF TaskSpec, FinishedCloneStays
-----------------------------------------------------------------------------
(***************************************************************************)
(* Half-made repositories.                                                 *)
(***************************************************************************)

\* A .git is half made only at the start of its own project's git.
LEMMA PartialMade ==
  ASSUME TaskInv, NEW p \in Repos, TaskAction(p), NEW q \in Repos,
         tree[q] # "partial", tree'[q] = "partial"
  PROVE  q = p /\ at'[p] = "clone"
<1>0. tree \in [Repos -> Contents] /\ at \in [Repos -> Places]
  BY DEF TaskInv, TaskTypeOK
<1>1. CASE ValidateDirectory(p) \/ GitFails(p) \/ Cleanup(p)
  BY <1>0, <1>1 DEF ValidateDirectory, GitFails, Cleanup, RemoveAll
<1>2. CASE MakeParent(p)
  BY <1>0, <1>2 DEF MakeParent, MkdirAll
<1>3. CASE StartGit(p)
  BY <1>0, <1>3 DEF StartGit, MkdirAll, Goto
<1>4. CASE GitFinishes(p) \/ FinishesLate(p)
  BY <1>0, <1>4 DEF GitFinishes, FinishesLate
<1>5. CASE UNCHANGED tree
  BY <1>5
<1> QED BY <1>1, <1>2, <1>3, <1>4, <1>5
     DEF TaskAction, CheckExists, TaskRuns, NoStart, TimesOut, CheckClone

\* Its task leaves the places of git at work only with the repository finished or removed.
LEMMA PartialLeft ==
  ASSUME TaskInv, CleanupOnFailure, NEW p \in Repos, TaskAction(p), tree'[p] = "partial",
         at[p] \in {"clone", "expired", "cleanup"}
  PROVE  at'[p] \in {"clone", "expired", "cleanup"}
<1>0. tree \in [Repos -> Contents] /\ at \in [Repos -> Places]
  BY DEF TaskInv, TaskTypeOK
<1>1. CASE GitFinishes(p) \/ FinishesLate(p)
  BY <1>0, <1>1 DEF GitFinishes, FinishesLate
<1>2. CASE GitFails(p)
  BY <1>0, <1>2 DEF GitFails, Goto
<1>3. CASE TimesOut(p)
  BY <1>0, <1>3 DEF TimesOut, Goto
<1>4. CASE Cleanup(p)
  BY <1>0, <1>4 DEF Cleanup, RemoveAll
<1> QED BY <1>1, <1>2, <1>3, <1>4
     DEF TaskAction, CheckExists, TaskRuns, ValidateDirectory, MakeParent, StartGit, NoStart, CheckClone

LEMMA PartialStep == TaskInv /\ PartialIsCleanedUp /\ [TaskNext]_tvars => PartialIsCleanedUp'
<1> SUFFICES ASSUME TaskInv, PartialIsCleanedUp, [TaskNext]_tvars, CleanupOnFailure, runs' = 1,
                    NEW q \in Repos, tree'[q] = "partial"
             PROVE  at'[q] \in {"clone", "expired", "cleanup"}
  BY DEF PartialIsCleanedUp
<1>1. ASSUME NEW p \in Repos, TaskAction(p) PROVE at'[q] \in {"clone", "expired", "cleanup"}
  <2>1. runs = 1 /\ (q # p => at'[q] = at[q])
    BY <1>1, TaskWritesOwn
  <2>2. CASE tree[q] # "partial"
    BY <1>1, <2>2, PartialMade
  <2>3. CASE tree[q] = "partial"
    <3>1. at[q] \in {"clone", "expired", "cleanup"}
      BY <2>1, <2>3 DEF PartialIsCleanedUp
    <3> QED BY <1>1, <2>1, <3>1, PartialLeft
  <2> QED BY <2>2, <2>3
<1>2. CASE RunAgain
  BY <1>2 DEF RunAgain, TaskInv, TaskTypeOK
<1>3. CASE UNCHANGED tvars
  BY <1>3 DEF tvars, PartialIsCleanedUp
<1> QED BY <1>1, <1>2, <1>3 DEF TaskNext, TaskAction, AllSettled

\* With CleanupOnFailure, no attempt of a first run leaves a half-made .git behind that the
\* next attempt would take for a repository.
THEOREM PartialCleanedUp == TaskSpec => []PartialIsCleanedUp
<1>1. TaskInit => PartialIsCleanedUp
  BY DEF TaskInit, PartialIsCleanedUp
<1> QED BY <1>1, InitTask, TaskInvStep, PartialStep, PTL DEF TaskSpec
-----------------------------------------------------------------------------
(***************************************************************************)
(* What a first run finds: the other side of ExistsIsComplete, which fails *)
(* without the cleanup.                                                    *)
(***************************************************************************)

\* A finished clone whose task is not at work has been reported, and nothing was taken for
\* an existing repository.
FreshInv ==
  runs = 1 => \A p \in Repos : /\ tree[p] = "repo" /\ at[p] = "idle" => outcome[p] = "ok"
                               /\ outcome[p] # "exists"

LEMMA FreshOwn ==
  ASSUME TaskInv, PartialIsCleanedUp, FreshInv, CleanupOnFailure, runs = 1,
         NEW p \in Repos, TaskAction(p)
  PROVE  /\ tree'[p] = "repo" /\ at'[p] = "idle" => outcome'[p] = "ok"
         /\ outcome'[p] # "exists"
<1>0. /\ tree \in [Repos -> Contents] /\ at \in [Repos -> Places]
      /\ outcome \in [Repos -> Outcomes] /\ FinishedPlace(p)
      /\ tree[p] = "repo" /\ at[p] = "idle" => outcome[p] = "ok"
      /\ outcome[p] # "exists"
  BY DEF TaskInv, TaskTypeOK, FreshInv
<1> USE DEF Goto, Record, FinishedPlace
<1>1. CASE CheckExists(p)
  <2>1. ~IsRepository(p)
    BY <1>0, <1>1 DEF CheckExists, TaskRuns, IsRepository, PartialIsCleanedUp
  <2> QED BY <1>0, <1>1, <2>1 DEF CheckExists, TaskRuns
<1>2. CASE ValidateDirectory(p)
  BY <1>0, <1>2 DEF ValidateDirectory
<1>3. CASE MakeParent(p)
  BY <1>0, <1>3 DEF MakeParent
<1>4. CASE StartGit(p) \/ NoStart(p) \/ GitFinishes(p)
  BY <1>0, <1>4 DEF StartGit, NoStart, GitFinishes
<1>5. CASE GitFails(p) \/ TimesOut(p) \/ FinishesLate(p)
  BY <1>0, <1>5 DEF GitFails, TimesOut, FinishesLate
<1>6. CASE CheckClone(p)
  BY <1>0, <1>6 DEF CheckClone
<1>7. CASE Cleanup(p)
  BY <1>0, <1>7 DEF Cleanup, RemoveAll
<1> QED BY <1>1, <1>2, <1>3, <1>4, <1>5, <1>6, <1>7 DEF TaskAction

LEMMA FreshStep ==
  CleanupOnFailure /\ TaskInv /\ PartialIsCleanedUp /\ FreshInv /\ [TaskNext]_tvars => FreshInv'
<1> SUFFICES ASSUME CleanupOnFailure, TaskInv, PartialIsCleanedUp, FreshInv, [TaskNext]_tvars,
                    runs' = 1, NEW q \in Repos
             PROVE  /\ tree'[q] = "repo" /\ at'[q] = "idle" => outcome'[q] = "ok"
                    /\ outcome'[q] # "exists"
  BY DEF FreshInv
<1>1. ASSUME NEW p \in Repos, TaskAction(p)
      PROVE  /\ tree'[q] = "repo" /\ at'[q] = "idle" => outcome'[q] = "ok"
             /\ outcome'[q] # "exists"
  <2>1. runs = 1 /\ (q # p => at'[q] = at[q] /\ outcome'[q] = outcome[q])
    BY <1>1, TaskWritesOwn
  <2>2. CASE q = p
    BY <1>1, <2>1, <2>2, FreshOwn
  <2>3. CASE q # p
    <3>1. tree'[q] = "repo" => tree[q] = "repo"
      BY <1>1, <2>3, CloneMade
    <3> QED BY <2>1, <2>3, <3>1 DEF FreshInv
  <2> QED BY <2>2, <2>3
<1>2. CASE RunAgain
  BY <1>2 DEF RunAgain, TaskInv, TaskTypeOK
<1>3. CASE UNCHANGED tvars
  BY <1>3 DEF tvars, FreshInv
<1> QED BY <1>1, <1>2, <1>3 DEF TaskNext, TaskAction, AllSettled

\* With CleanupOnFailure, and a directory that holds no repository to begin with, a first run
\* reports none as existing: no attempt takes what an earlier one has left for a clone, be it
\* half made or made too late.
THEOREM FirstRunFindsNone ==
  CleanupOnFailure => (TaskSpec => [](runs = 1 => \A p \in Repos : outcome[p] # "exists"))
<1> SUFFICES ASSUME CleanupOnFailure
             PROVE  TaskSpec => [](runs = 1 => \A p \in Repos : outcome[p] # "exists")
  OBVIOUS
<1>1. TaskInit => FreshInv /\ PartialIsCleanedUp
  BY DEF TaskInit, FreshInv, PartialIsCleanedUp
<1>2. TaskInv /\ PartialIsCleanedUp /\ FreshInv /\ [TaskNext]_tvars => FreshInv'
  BY FreshStep
<1>3. FreshInv => (runs = 1 => \A p \in Repos : outcome[p] # "exists")
  BY DEF FreshInv
<1> QED BY <1>1, <1>2, <1>3, InitTask, TaskInvStep, PartialStep, PTL DEF TaskSpec
=============================================================================
