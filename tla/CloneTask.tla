------------------------------ MODULE CloneTask ------------------------------
(***************************************************************************)
(* What the clone tasks of internal/clone/manager.go do to the output      *)
(* directory.  createCloneTask looks for a repository, clears what is in   *)
(* the way, makes the parent directory, runs git and checks the clone; the *)
(* pool runs it again when it fails.  No lock covers the tree: tasks of    *)
(* nested projects (Gerrit's a and a/b) meet in it, and so do the runs of  *)
(* the program, of which any may end in the middle.                        *)
(*                                                                         *)
(* The order of the pool is left out: any tasks may run together.  So are  *)
(* errors of os.RemoveAll, a repository without a clone URL, the dry run   *)
(* (main.go never asks the manager for one), and SkipExisting, which       *)
(* matters only to a repository made between a task's two looks at its own *)
(* path.  A git ends with the program that started it.  The project of a  *)
(* path is taken to hold every directory on the way to it from the project *)
(* above.                                                                  *)
(***************************************************************************)
EXTENDS Naturals

CONSTANTS
  Repos,             \* the repositories, which are also their paths
  Inside,            \* repository -> those whose paths are below its own
  Empty,             \* repositories without a commit
  Attempts,          \* how often the pool runs a task, at least once
  CleanupOnFailure,  \* main.go: FALSE, DefaultConfig: TRUE
  ValidateClone,     \* main.go: FALSE, DefaultConfig: TRUE
  MaxRuns            \* bound: how often the program is run

ASSUME InsideAssumption ==
  /\ Inside \in [Repos -> SUBSET Repos]
  /\ \A p \in Repos : p \notin Inside[p]
  /\ \A p \in Repos : \A q \in Inside[p] : Inside[q] \subseteq Inside[p]
ASSUME EmptyAssumption    == Empty \subseteq Repos
ASSUME OptionsAssumption  == CleanupOnFailure \in BOOLEAN /\ ValidateClone \in BOOLEAN
ASSUME AttemptsAssumption == Attempts \in Nat \ {0} /\ MaxRuns \in Nat \ {0}

VARIABLES
  tree,     \* path -> what is there
  at,       \* repository -> where its task is
  outcome,  \* repository -> the last result its task has recorded
  tries,    \* repository -> how often the task has been run
  runs      \* how often the program has been run

tvars == <<tree, at, outcome, tries, runs>>

\* "partial" is a .git directory that git has not finished; "junk" any other contents.
Contents == {"absent", "file", "empty", "junk", "partial", "repo"}
Outcomes == {"none", "ok", "exists", "failed"}
Places   == {"idle", "validate", "mkdir", "start", "clone", "check", "expired", "cleanup"}

Above(p) == {a \in Repos : p \in Inside[a]}

IsRepository(p) == tree[p] \in {"partial", "repo"}

HasEntries(p) == \/ tree[p] = "junk" \/ IsRepository(p)
                 \/ \E q \in Inside[p] : tree[q] # "absent"

RemoveAll_Parent(p) ==
  [q \in Repos |->
     IF Above(p) = {} \/ \E a \in Above(p) : q \in {a} \cup Inside[a] THEN "absent" ELSE tree[q]]
RemoveAll(p) == [q \in Repos |-> IF q \in {p} \cup Inside[p] THEN "absent" ELSE tree[q]]

MkdirAll_NoParents(p, content) == [tree EXCEPT ![p] = content]
MkdirAll(p, content) ==
  [q \in Repos |-> IF q = p THEN content
                   ELSE IF q \in Above(p) /\ tree[q] = "absent" THEN "empty" ELSE tree[q]]

WellFormed(t) == \A p \in Repos : \A q \in Inside[p] :
                   t[q] # "absent" => t[p] \notin {"absent", "file"}

TaskTypeOK ==
  /\ tree \in [Repos -> Contents] /\ WellFormed(tree)
  /\ at \in [Repos -> Places] /\ outcome \in [Repos -> Outcomes]
  /\ tries \in [Repos -> 0..Attempts] /\ runs \in 1..MaxRuns

\* The output directory may hold anything but repositories when the first run begins.
TaskInit ==
  /\ tree \in [Repos -> {"absent", "file", "empty", "junk"}] /\ WellFormed(tree)
  /\ at = [p \in Repos |-> "idle"]
  /\ outcome = [p \in Repos |-> "none"]
  /\ tries = [p \in Repos |-> 0]
  /\ runs = 1
-----------------------------------------------------------------------------
Goto(p, place) == at' = [at EXCEPT ![p] = place] /\ UNCHANGED <<outcome, tries, runs>>
Record(p, o)   == /\ outcome' = [outcome EXCEPT ![p] = o]
                  /\ at' = [at EXCEPT ![p] = "idle"]
                  /\ UNCHANGED <<tries, runs>>

\* The pool runs the task, at first or again: it looks for .git or HEAD.
TaskRuns(p, exists) ==
  /\ at[p] = "idle" /\ outcome[p] \in {"none", "failed"}
  /\ tries[p] < Attempts
  /\ tries' = [tries EXCEPT ![p] = @ + 1]
  /\ \/ exists  /\ outcome' = [outcome EXCEPT ![p] = "exists"] /\ UNCHANGED at
     \/ ~exists /\ at' = [at EXCEPT ![p] = "validate"] /\ UNCHANGED outcome
  /\ UNCHANGED <<tree, runs>>

CheckExists_Skipped(p) == TaskRuns(p, FALSE)
CheckExists(p) == TaskRuns(p, IsRepository(p))

\* A path that is not a directory is an error; a directory that is not a repository and
\* not empty is removed, whatever it holds.
ValidateDirectory(p) ==
  /\ at[p] = "validate"
  /\ \/ tree[p] = "file" /\ Record(p, "failed") /\ UNCHANGED tree
     \/ tree[p] # "file" /\ Goto(p, "mkdir")
        /\ tree' = IF HasEntries(p) /\ ~IsRepository(p) THEN RemoveAll(p) ELSE tree

MakeParent(p) ==
  /\ at[p] = "mkdir"
  /\ LET blocked == \E a \in Above(p) : tree[a] = "file"
     IN  \/ blocked  /\ Record(p, "failed") /\ UNCHANGED tree
         \/ ~blocked /\ Goto(p, "start") /\ tree' = MkdirAll(p, tree[p])

StartGit(p) ==
  /\ at[p] = "start"
  /\ tree[p] # "file" /\ ~HasEntries(p) /\ \A a \in Above(p) : tree[a] # "file"
  /\ tree' = MkdirAll(p, "partial")
  /\ Goto(p, "clone")

\* The pool's context is done, or git finds something in its way.
NoStart(p) == at[p] = "start" /\ Goto(p, "cleanup") /\ UNCHANGED tree

GitFinishes(p) ==
  /\ at[p] = "clone" /\ tree[p] = "partial"
  /\ tree' = [tree EXCEPT ![p] = "repo"]
  /\ Goto(p, "check")

\* git gives up and removes its directory, or empties one that it did not make.
GitFails(p) ==
  /\ at[p] = "clone"
  /\ \E left \in {"absent", "empty"} :
       /\ tree[p] = "absent" => left = "absent"
       /\ tree' = [RemoveAll(p) EXCEPT ![p] = left]
  /\ Goto(p, "cleanup")

\* CloneTimeout, or the end of the pool's context: whatever git has is left to the cleanup,
\* and git may be done before the select and the kill get to it.
TimesOut_Returns(p) == at[p] = "clone" /\ Record(p, "failed") /\ UNCHANGED tree
TimesOut(p) == at[p] = "clone" /\ Goto(p, "expired") /\ UNCHANGED tree

FinishesLate(p) ==
  /\ at[p] = "expired" /\ tree[p] = "partial"
  /\ tree' = [tree EXCEPT ![p] = "repo"]
  /\ UNCHANGED <<at, outcome, tries, runs>>

ValidClone(p) == tree[p] = "repo" /\ p \notin Empty

CheckClone(p) ==
  /\ at[p] = "check" /\ UNCHANGED tree
  /\ IF ValidateClone /\ ~ValidClone(p) THEN Goto(p, "cleanup") ELSE Record(p, "ok")

Cleanup(p) ==
  /\ at[p] \in {"cleanup", "expired"}
  /\ tree' = IF CleanupOnFailure THEN RemoveAll(p) ELSE tree
  /\ Record(p, "failed")

\* The program ends, by itself, by its timeout or by a signal, and is run again.
RunAgain ==
  /\ runs < MaxRuns /\ runs' = runs + 1
  /\ at' = [p \in Repos |-> "idle"]
  /\ outcome' = [p \in Repos |-> "none"]
  /\ tries' = [p \in Repos |-> 0]
  /\ UNCHANGED tree

Settled(p) == at[p] = "idle" /\ (outcome[p] \in {"ok", "exists"} \/ tries[p] = Attempts)
AllSettled == (\A p \in Repos : Settled(p)) /\ UNCHANGED tvars

TaskNext ==
  \/ \E p \in Repos : \/ CheckExists(p) \/ ValidateDirectory(p) \/ MakeParent(p)
                      \/ StartGit(p) \/ NoStart(p) \/ GitFinishes(p) \/ GitFails(p)
                      \/ TimesOut(p) \/ FinishesLate(p) \/ CheckClone(p) \/ Cleanup(p)
  \/ RunAgain \/ AllSettled

TaskSpec == TaskInit /\ [][TaskNext]_tvars
-----------------------------------------------------------------------------
(***************************************************************************)
(* Properties.                                                             *)
(***************************************************************************)

\* A finished clone disappears only by a task or a failing git of a project above it, or by
\* its own cleanup, because its time was over when git finished or because it has no commit
\* and is validated: never by a retry, a later run, or a project beside or below it.
FinishedCloneStays ==
  [][\A p \in Repos : tree[p] = "repo" /\ tree'[p] # "repo" =>
       \/ \E a \in Above(p) : at[a] \in {"validate", "clone", "expired", "cleanup"}
       \/ at[p] = "expired"
       \/ ValidateClone /\ p \in Empty]_tvars

\* Of a project with none above it, a recorded success is on the disk.
OutermostSuccessIsReal ==
  \A p \in Repos : outcome[p] = "ok" /\ Above(p) = {} => tree[p] = "repo"

\* With CleanupOnFailure a failed attempt leaves no half-made .git to be taken for a
\* repository by the next attempt: only a git at work, or its cleanup, has one.
PartialIsCleanedUp ==
  CleanupOnFailure /\ runs = 1 =>
    \A p \in Repos : tree[p] = "partial" => at[p] \in {"clone", "expired", "cleanup"}

\* "Preserve hierarchy for nested repositories": a recorded success is on the disk,
\* nested or not.
SuccessIsOnDisk == \A p \in Repos : outcome[p] = "ok" => tree[p] = "repo"

\* "Check if it's already a valid git repository": what is reported as existing is one.
ExistsIsComplete == \A p \in Repos : outcome[p] = "exists" => tree[p] = "repo"
=============================================================================
