-------------------------- MODULE ForkPipelineProofs --------------------------
(***************************************************************************)
(* Theorems about ForkPipeline, for any repositories, names and listings,  *)
(* any providers a source or target may resolve to, and any number of runs.*)
(***************************************************************************)
EXTENDS ForkPipeline, TLAPS

USE RepoAssumption, ProviderAssumption, RunAssumption

\* Where a repository of the listing is being worked on.
Working == Places \ {"idle", "list", "summary"}

\* The loop over the listing has recorded the repositories before the current one.
LoopInv ==
  /\ place = "list" => i = 1 /\ DOMAIN results = {}
  /\ place \notin {"idle", "list"} => DOMAIN results = {todo[k] : k \in 1..(i - 1)}
  /\ place = "summary" => i = Len(todo) + 1
  /\ place \in {"cleanup", "clone", "remotes", "record"} => status # "none"
  /\ place \in {"idle", "list"} \/ Len(todo) > 0
  /\ DOMAIN results # {} => target \in Targets

TypeInv == ForkTypeOK /\ LoopInv

\* What `created' promises of a repository.
CopiedTo(r) ==
  /\ remote[target][Name[r]].of = r
  /\ remote[target][Name[r]].what \in (IF Cross THEN {"full"} ELSE {"forking", "full"})

\* The copy runs only into the empty repository this run has made, and pushes what it has
\* just cloned.
CopyInv ==
  /\ place \in {"copy", "push"} => Cross /\ Here.what = "empty"
  /\ place = "push" => tmp[Name[Repo]].of = Repo
  /\ place \in {"cleanup", "clone", "remotes", "record"} /\ status = "created" => CopiedTo(Repo)
  /\ CreatedMeansCopied

ForkInv == TypeInv /\ CopyInv /\ HollowHasAReason /\ TempOnlyWhileCopying
-----------------------------------------------------------------------------
(***************************************************************************)
(* What the steps have in common.                                          *)
(***************************************************************************)
Current == <<target, Name[Repo]>>

LEMMA InWork ==
  ASSUME ForkTypeOK, place \in Working
  PROVE  /\ target \in Targets /\ source \in SourceProviders
         /\ i \in 1..Len(todo) /\ todo \in Seq(Repos)
         /\ Repo \in Repos /\ Repo \in Range(todo) /\ Name[Repo] \in Names
<1>1. i \in 1..Len(todo) /\ todo \in Seq(Repos)
  BY DEF ForkTypeOK, Working
<1>2. Repo \in Repos /\ Repo \in Range(todo)
  BY <1>1 DEF Repo, Range
<1> QED BY <1>1, <1>2 DEF ForkTypeOK, Working

LEMMA SetsHere ==
  ASSUME ForkTypeOK, place \in Working, NEW value \in Hosted, SetHere(value)
  PROVE  /\ remote' \in [Targets -> [Names -> Hosted]]
         /\ remote'[target][Name[Repo]] = value
         /\ \A p \in Targets, n \in Names :
              p # target \/ n # Name[Repo] => remote'[p][n] = remote[p][n]
BY InWork DEF ForkTypeOK, SetHere

LEMMA SetsTemp ==
  ASSUME ForkTypeOK, place \in Working, NEW value \in Temps, SetTemp(value)
  PROVE  /\ tmp' \in [Names -> Temps]
         /\ tmp'[Name[Repo]] = value
         /\ \A n \in Names : n # Name[Repo] => tmp'[n] = tmp[n]
BY InWork DEF ForkTypeOK, SetTemp

LEMMA SetsLocal ==
  ASSUME ForkTypeOK, place \in Working, NEW value \in Clones, SetLocal(value)
  PROVE  local' \in [Names -> Clones]
BY InWork DEF ForkTypeOK, SetLocal

\* How a step may change what is at the target: it comes into being, its import ends, or
\* this run pushes into the empty repository it has made.
Grows(p, n) ==
  \/ remote'[p][n] = remote[p][n]
  \/ remote[p][n].what = "absent"
  \/ /\ remote[p][n].what = "forking"
     /\ remote'[p][n].of = remote[p][n].of /\ remote'[p][n].what = "full"
  \/ CopyingTo(p, n) /\ remote[p][n].what = "empty"

GrowsOnly == \A p \in Targets, n \in Names : Grows(p, n)

\* What is copied stays copied.
LEMMA CopiedStays ==
  ASSUME GrowsOnly, UNCHANGED <<source, target>>, target \in Targets,
         NEW r \in Repos, CopiedTo(r)
  PROVE  CopiedTo(r)'
<1>1. Name[r] \in Names
  OBVIOUS
<1>2. Grows(target, Name[r])
  BY <1>1 DEF GrowsOnly
<1> QED BY <1>2 DEF Grows, CopiedTo, Cross

LEMMA ResultsStayCopied ==
  ASSUME ForkInv, GrowsOnly, UNCHANGED <<source, target, results>>
  PROVE  CreatedMeansCopied'
<1> SUFFICES ASSUME NEW r \in DOMAIN results, results[r] = "created" PROVE CopiedTo(r)'
  BY DEF CreatedMeansCopied, CopiedTo
<1>1. r \in Repos /\ target \in Targets
  <2>1. r \in Range(todo) /\ todo \in Seq(Repos) /\ target \in Targets
    BY DEF ForkInv, TypeInv, ForkTypeOK, LoopInv
  <2> QED BY <2>1 DEF Range
<1>2. CopiedTo(r)
  BY DEF ForkInv, CopyInv, CreatedMeansCopied, CopiedTo
<1> QED BY <1>1, <1>2, CopiedStays
-----------------------------------------------------------------------------
(***************************************************************************)
(* The invariant, one lemma for each way the program goes on.              *)
(***************************************************************************)
LEMMA InitFork == ForkInit => ForkInv
<1> SUFFICES ASSUME ForkInit PROVE ForkInv
  OBVIOUS
<1> USE DEF ForkInit
<1>1. ForkTypeOK
  <2>1. NoTemp \in Temps /\ NoClone \in Clones /\ Absent \in Hosted
    BY DEF NoTemp, Temps, NoClone, Clones, NoURL, Absent, Hosted
  <2>2. todo \in Seq(Repos) /\ i \in 1..(Len(todo) + 1)
    OBVIOUS
  <2>3. DOMAIN results \subseteq Range(todo) /\ Range(results) \subseteq Reports
    BY DEF Range
  <2>4. /\ tmp \in [Names -> Temps] /\ local \in [Names -> Clones]
        /\ remote \in [Targets -> [Names -> Hosted]]
    BY <2>1
  <2>5. runs \in 0..MaxRuns
    OBVIOUS
  <2> QED BY <2>2, <2>3, <2>4, <2>5 DEF ForkTypeOK, Places
<1>2. LoopInv /\ CopyInv /\ TempOnlyWhileCopying
  BY DEF LoopInv, CopyInv, CreatedMeansCopied, TempOnlyWhileCopying
<1>3. HollowHasAReason
  BY DEF HollowHasAReason, Absent
<1> QED BY <1>1, <1>2, <1>3 DEF ForkInv, TypeInv

\* Between the steps that copy, the program goes on in one of these ways.
Between == Working \ {"copy", "push", "cleanup"}

Moves ==
  \/ place' = place /\ status' = status
  \/ place \in {"list", "summary"} /\ place' = "idle" /\ status' = status
  \/ place \in Between /\ place' \in {"create", "exists"} /\ status' = status
  \/ place \in Between /\ place' \in {"clone", "remotes", "record"}
     /\ status' \in Reports \ {"created"}
  \/ place \in {"clone", "remotes"} /\ place' \in {"remotes", "record"} /\ status' = status

\* The program moves on and touches neither the target nor the temporary directory.
LEMMA MovesKeep ==
  ASSUME ForkInv, Moves, runs' \in 0..MaxRuns, deadline' \in BOOLEAN,
         local' \in [Names -> Clones], behind' \subseteq Targets \X Names,
         UNCHANGED <<source, target, sync, todo, i, results, cwd, tmp, remote, broken>>
  PROVE  ForkInv' /\ GrowsOnly
<1>0. ForkTypeOK /\ LoopInv
  BY DEF ForkInv, TypeInv
<1>1. ForkTypeOK'
  <2>1. place' \in Places /\ status' \in Reports \cup {"none"}
    BY <1>0 DEF ForkTypeOK, Moves, Places
  <2>2. /\ place' \notin {"idle", "list", "summary"} => i' <= Len(todo')
        /\ place' # "idle" => target' \in Targets /\ source' \in SourceProviders
    BY <1>0 DEF ForkTypeOK, Moves, Working, Between, Places
  <2> QED BY <1>0, <2>1, <2>2 DEF ForkTypeOK
<1>2. LoopInv'
  BY <1>0 DEF LoopInv, Moves, Working, Between, Reports
<1>3. CopyInv'
  BY DEF ForkInv, CopyInv, Moves, Between, Working, Places, Cross, Here, Repo, CopiedTo,
         CreatedMeansCopied
<1>4. HollowHasAReason'
  BY DEF ForkInv, HollowHasAReason, CopyingTo, Repo, Moves, Between, Working
<1>5. TempOnlyWhileCopying'
  BY DEF ForkInv, TempOnlyWhileCopying, Repo, Moves, Between, Working
<1>6. GrowsOnly
  BY DEF GrowsOnly, Grows
<1> QED BY <1>1, <1>2, <1>3, <1>4, <1>5, <1>6 DEF ForkInv, TypeInv

LEMMA BeginKeeps == ForkInv /\ BeginRun => ForkInv' /\ GrowsOnly
<1> SUFFICES ASSUME ForkInv, BeginRun PROVE ForkInv' /\ GrowsOnly
  OBVIOUS
<1> USE DEF BeginRun, disk, servers
<1>0. ForkTypeOK /\ LoopInv
  BY DEF ForkInv, TypeInv
<1>1. ForkTypeOK'
  <2>1. todo' \in Seq(Repos) /\ i' \in 1..(Len(todo') + 1)
    OBVIOUS
  <2>2. DOMAIN results' \subseteq Range(todo') /\ Range(results') \subseteq Reports
    BY DEF Range
  <2>3. runs' \in 0..MaxRuns
    BY <1>0 DEF ForkTypeOK
  <2>4. source' \in SourceProviders /\ target' \in Targets
    BY DEF Targets
  <2> QED BY <1>0, <2>1, <2>2, <2>3, <2>4 DEF ForkTypeOK, Places
<1>2. LoopInv'
  BY DEF LoopInv
<1>3. CopyInv'
  BY DEF CopyInv, CreatedMeansCopied
<1>4. HollowHasAReason'
  BY DEF ForkInv, HollowHasAReason, CopyingTo
<1>5. TempOnlyWhileCopying'
  BY DEF ForkInv, TempOnlyWhileCopying
<1>6. GrowsOnly
  BY DEF GrowsOnly, Grows
<1> QED BY <1>1, <1>2, <1>3, <1>4, <1>5, <1>6 DEF ForkInv, TypeInv

LEMMA ListKeeps == ForkInv /\ ListSource => ForkInv' /\ GrowsOnly
<1> SUFFICES ASSUME ForkInv, ListSource PROVE ForkInv' /\ GrowsOnly
  OBVIOUS
<1> USE DEF ListSource, ListFrom, disk, servers
<1>0. ForkTypeOK /\ LoopInv
  BY DEF ForkInv, TypeInv
<1>1. todo' \in Seq(Repos) /\ Len(todo') > 0
  <2>1. Listing[source] \in Seq(Repos)
    BY <1>0 DEF ForkTypeOK
  <2>2. PICK k \in 1..Len(Listing[source]) : todo' = SubSeq(Listing[source], 1, k)
    OBVIOUS
  <2>3. Len(todo') = k /\ \A x \in 1..k : todo'[x] = Listing[source][x]
    BY <2>1, <2>2
  <2> QED BY <2>1, <2>2, <2>3
<1>2. i' = 1 /\ DOMAIN results' = {}
  <2>1. DOMAIN results = {}
    BY <1>0 DEF LoopInv
  <2> QED BY <1>0, <2>1 DEF LoopInv
<1>3. ForkTypeOK'
  <2>1. DOMAIN results' \subseteq Range(todo') /\ Range(results') \subseteq Reports
    BY <1>2 DEF Range
  <2> QED BY <1>0, <1>1, <1>2, <2>1 DEF ForkTypeOK, Places
<1>4. LoopInv'
  BY <1>0, <1>1, <1>2 DEF LoopInv
<1>5. CopyInv'
  BY <1>2 DEF CopyInv, CreatedMeansCopied
<1>6. HollowHasAReason'
  BY DEF ForkInv, HollowHasAReason, CopyingTo
<1>7. TempOnlyWhileCopying'
  BY DEF ForkInv, TempOnlyWhileCopying
<1>8. GrowsOnly
  BY DEF GrowsOnly, Grows
<1> QED BY <1>3, <1>4, <1>5, <1>6, <1>7, <1>8 DEF ForkInv, TypeInv

\* A repository comes into being at the target: a fork, or an empty repository that is
\* copied into now or reported as a failure.
LEMMA NewHere ==
  ASSUME ForkInv, place = "create", Here.what = "absent", NEW value \in Hosted, SetHere(value),
         \/ value.what \in {"forking", "full"} /\ value.of = Repo /\ ~Cross
         \/ value.what = "empty",
         \/ ~Cross /\ place' = "clone" /\ status' = "created" /\ UNCHANGED broken
            /\ value.what \in {"forking", "full"}
         \/ ~Cross /\ Report("failed") /\ UNCHANGED broken /\ value.what \in {"forking", "full"}
         \/ Cross /\ place' = "copy" /\ status' = "none" /\ UNCHANGED broken
         \/ Cross /\ Report("failed") /\ WentWrong,
         UNCHANGED <<runs, source, target, sync, todo, i, results, deadline, cwd, tmp, local,
                     behind>>
  PROVE  ForkInv' /\ GrowsOnly
<1>0. ForkTypeOK /\ LoopInv /\ place \in Working
  BY DEF ForkInv, TypeInv, Working, Places
<1>1. /\ remote' \in [Targets -> [Names -> Hosted]]
      /\ remote'[target][Name[Repo]] = value
      /\ \A p \in Targets, n \in Names :
           p # target \/ n # Name[Repo] => remote'[p][n] = remote[p][n]
      /\ Repo \in Repos /\ target \in Targets /\ Name[Repo] \in Names
  BY <1>0, SetsHere, InWork
<1>2. Here' = value /\ Repo' = Repo
  BY <1>1 DEF Here, Repo
<1>3. GrowsOnly
  BY <1>1 DEF GrowsOnly, Grows, Here
<1>4. ForkTypeOK'
  <2>1. broken' \subseteq Targets \X Names
    BY <1>0, <1>1 DEF ForkTypeOK, WentWrong
  <2>2. place' \in {"clone", "record", "copy"} /\ status' \in Reports \cup {"none"}
    BY DEF Report, Reports
  <2> QED BY <1>0, <1>1, <2>1, <2>2 DEF ForkTypeOK, Places
<1>5. LoopInv'
  BY <1>0 DEF LoopInv, Report
<1>6. CopyInv'
  <2>1. CreatedMeansCopied'
    BY <1>3, ResultsStayCopied
  <2> QED BY <1>1, <1>2, <2>1 DEF CopyInv, CopiedTo, Cross, Report, Here
<1>7. HollowHasAReason'
  <2> SUFFICES ASSUME NEW p \in Targets, NEW n \in Names, remote'[p][n].what \in {"empty", "partial"}
               PROVE  CopyingTo(p, n)' \/ <<p, n>> \in broken'
    BY DEF HollowHasAReason
  <2>1. CASE p = target /\ n = Name[Repo]
    BY <1>1, <1>2, <2>1 DEF CopyingTo, WentWrong
  <2>2. CASE p # target \/ n # Name[Repo]
    BY <1>1, <2>2 DEF CopyingTo, WentWrong, ForkInv, HollowHasAReason
  <2> QED BY <2>1, <2>2
<1>8. TempOnlyWhileCopying'
  BY <1>1 DEF ForkInv, TempOnlyWhileCopying, WentWrong, Report
<1> QED BY <1>3, <1>4, <1>5, <1>6, <1>7, <1>8 DEF ForkInv, TypeInv

\* The copy goes on or gives up: the empty repository is as it was, pushed into in part, or
\* full.
LEMMA CopyGoesOn ==
  ASSUME ForkInv, place \in {"copy", "push"},
         \/ place = "copy" /\ UNCHANGED remote
         \/ place = "push" /\ UNCHANGED remote
         \/ place = "push" /\ SetHere([what |-> "partial", of |-> Repo])
         \/ place = "push" /\ SetHere([what |-> "full", of |-> Repo]),
         UNCHANGED <<runs, source, target, sync, todo, i, local, behind>>
  PROVE  /\ GrowsOnly
         /\ remote' \in [Targets -> [Names -> Hosted]]
         /\ Cross /\ Repo' = Repo
         /\ place = "push" /\ SetHere([what |-> "full", of |-> Repo]) => CopiedTo(Repo)'
         /\ \A p \in Targets, n \in Names :
              remote'[p][n].what \in {"empty", "partial"} =>
                <<p, n>> = Current \/ <<p, n>> \in broken
<1>0. ForkTypeOK /\ place \in Working
  BY DEF ForkInv, TypeInv, Working, Places
<1>1. Cross /\ Here.what = "empty" /\ Repo' = Repo
      /\ Repo \in Repos /\ target \in Targets /\ Name[Repo] \in Names
  BY <1>0, InWork DEF ForkInv, CopyInv, Repo
<1>2. [what |-> "partial", of |-> Repo] \in Hosted /\ [what |-> "full", of |-> Repo] \in Hosted
  BY <1>1 DEF Hosted
<1>3. /\ remote' \in [Targets -> [Names -> Hosted]]
      /\ \A p \in Targets, n \in Names :
           p # target \/ n # Name[Repo] => remote'[p][n] = remote[p][n]
  BY <1>0, <1>2, SetsHere DEF ForkTypeOK
<1>4. GrowsOnly
  BY <1>1, <1>3 DEF GrowsOnly, Grows, CopyingTo, Here
<1>5. ASSUME place = "push", SetHere([what |-> "full", of |-> Repo]) PROVE CopiedTo(Repo)'
  <2>1. remote'[target][Name[Repo]] = [what |-> "full", of |-> Repo]
    BY <1>0, <1>2, <1>5, SetsHere
  <2> QED BY <1>1, <2>1 DEF CopiedTo, Cross
<1>6. ASSUME NEW p \in Targets, NEW n \in Names, remote'[p][n].what \in {"empty", "partial"}
      PROVE  <<p, n>> = Current \/ <<p, n>> \in broken
  BY <1>3, <1>6 DEF ForkInv, HollowHasAReason, CopyingTo, Current
<1> QED BY <1>1, <1>3, <1>4, <1>5, <1>6

LEMMA BareCloneKeeps == ForkInv /\ BareClone => ForkInv' /\ GrowsOnly
<1> SUFFICES ASSUME ForkInv, BareClone PROVE ForkInv' /\ GrowsOnly
  OBVIOUS
<1> USE DEF BareClone, control, servers
<1>0. ForkTypeOK /\ LoopInv /\ place \in Working
  BY DEF ForkInv, TypeInv, Working, Places
<1>1. /\ GrowsOnly /\ Cross /\ Repo' = Repo
      /\ \A p \in Targets, n \in Names :
           remote[p][n].what \in {"empty", "partial"} => <<p, n>> = Current \/ <<p, n>> \in broken
  BY CopyGoesOn
<1>2. /\ tmp' \in [Names -> Temps] /\ Repo \in Repos /\ Name[Repo] \in Names
      /\ tmp'[Name[Repo]].of = Repo
      /\ \A n \in Names : n # Name[Repo] => tmp'[n] = tmp[n]
  <2>1. Repo \in Repos /\ Name[Repo] \in Names
    BY <1>0, InWork
  <2>2. [what |-> "full", of |-> Repo] \in Temps
    BY <2>1 DEF Temps
  <2> QED BY <1>0, <2>1, <2>2, SetsTemp
<1>3. ForkTypeOK'
  BY <1>0, <1>2 DEF ForkTypeOK, Places
<1>4. LoopInv'
  BY <1>0 DEF LoopInv
<1>5. CopyInv'
  <2>1. CreatedMeansCopied'
    BY <1>1, ResultsStayCopied
  <2> QED BY <1>1, <1>2, <2>1 DEF ForkInv, CopyInv, Cross, Here, Repo
<1>6. HollowHasAReason'
  BY <1>1 DEF HollowHasAReason, CopyingTo, Current
<1>7. TempOnlyWhileCopying'
  BY <1>1, <1>2 DEF ForkInv, TempOnlyWhileCopying
<1> QED BY <1>1, <1>3, <1>4, <1>5, <1>6, <1>7 DEF ForkInv, TypeInv

\* The copy fails, at the mirror clone or at the push: the repository stays hollow, and the
\* result says so.
LEMMA CopyFailsKeeps == ForkInv /\ (BareCloneFails \/ PushFails) => ForkInv' /\ GrowsOnly
<1> SUFFICES ASSUME ForkInv, BareCloneFails \/ PushFails PROVE ForkInv' /\ GrowsOnly
  OBVIOUS
<1>0. ForkTypeOK /\ LoopInv /\ place \in Working
  BY DEF ForkInv, TypeInv, Working, Places, BareCloneFails, PushFails, PushGivesUp
<1>1. /\ place \in {"copy", "push"} /\ place' = "cleanup" /\ status' = "content copy failed"
      /\ WentWrong
      /\ UNCHANGED <<runs, source, target, sync, todo, i, results, deadline, cwd, local, behind>>
  BY DEF BareCloneFails, PushFails, PushGivesUp, OnlyServers, control, disk
<1>2. /\ GrowsOnly /\ Repo' = Repo
      /\ remote' \in [Targets -> [Names -> Hosted]]
      /\ \A p \in Targets, n \in Names :
           remote'[p][n].what \in {"empty", "partial"} => <<p, n>> = Current \/ <<p, n>> \in broken
  <2>1. [Partial EXCEPT !.of = Repo] = [what |-> "partial", of |-> Repo]
    BY DEF Partial
  <2> QED BY <1>1, <2>1, CopyGoesOn DEF BareCloneFails, PushFails, PushGivesUp
<1>3. /\ tmp' \in [Names -> Temps]
      /\ \A n \in Names : n # Name[Repo] => tmp'[n] = tmp[n]
  <2>1. Partial \in Temps
    BY DEF Partial, Temps
  <2>2. UNCHANGED tmp \/ SetTemp(Partial)
    BY DEF BareCloneFails, PushFails, PushGivesUp, OnlyServers, disk
  <2> QED BY <1>0, <2>1, <2>2, SetsTemp DEF ForkTypeOK
<1>4. target \in Targets /\ Name[Repo] \in Names
  BY <1>0, InWork
<1>5. ForkTypeOK'
  <2>1. broken' \subseteq Targets \X Names
    <3>1. broken \subseteq Targets \X Names
      BY <1>0 DEF ForkTypeOK
    <3>2. Current \in Targets \X Names
      BY <1>4 DEF Current
    <3>3. broken' = broken \cup {Current}
      BY <1>1 DEF WentWrong, Current
    <3> QED BY <3>1, <3>2, <3>3
  <2>2. place' \in Places /\ status' \in Reports \cup {"none"}
    BY <1>1 DEF Places, Reports
  <2>3. place' # "idle" => target' \in Targets /\ source' \in SourceProviders
    BY <1>0, <1>1, InWork
  <2>4. i' <= Len(todo')
    BY <1>0, <1>1 DEF ForkTypeOK
  <2> QED BY <1>0, <1>1, <1>2, <1>3, <2>1, <2>2, <2>3, <2>4 DEF ForkTypeOK
<1>6. LoopInv'
  BY <1>0, <1>1 DEF LoopInv
<1>7. CopyInv'
  <2>1. CreatedMeansCopied'
    BY <1>1, <1>2, ResultsStayCopied
  <2> QED BY <1>1, <2>1 DEF CopyInv
<1>8. HollowHasAReason'
  BY <1>1, <1>2 DEF HollowHasAReason, Current, WentWrong
<1>9. TempOnlyWhileCopying'
  BY <1>1, <1>2, <1>3 DEF ForkInv, TempOnlyWhileCopying, WentWrong
<1> QED BY <1>2, <1>5, <1>6, <1>7, <1>8, <1>9 DEF ForkInv, TypeInv

LEMMA PushKeeps == ForkInv /\ PushMirror => ForkInv' /\ GrowsOnly
<1> SUFFICES ASSUME ForkInv, PushMirror PROVE ForkInv' /\ GrowsOnly
  OBVIOUS
<1> USE DEF PushMirror, OnlyServers, control, disk
<1>0. ForkTypeOK /\ LoopInv /\ place \in Working
  BY DEF ForkInv, TypeInv, Working, Places
<1>1. tmp[Name[Repo]].of = Repo
  BY DEF ForkInv, CopyInv
<1>2. SetHere([what |-> "full", of |-> Repo])
  BY <1>1
<1>3. /\ GrowsOnly /\ Repo' = Repo
      /\ remote' \in [Targets -> [Names -> Hosted]]
      /\ CopiedTo(Repo)'
  BY <1>2, CopyGoesOn
<1>4. ForkTypeOK'
  BY <1>0, <1>3 DEF ForkTypeOK, Places, Reports
<1>5. LoopInv'
  BY <1>0 DEF LoopInv
<1>6. CopyInv'
  <2>1. CreatedMeansCopied'
    BY <1>3, ResultsStayCopied
  <2> QED BY <1>3, <2>1 DEF CopyInv
<1>7. HollowHasAReason'
  <2>1. target \in Targets /\ Name[Repo] \in Names /\ Repo \in Repos
    BY <1>0, InWork
  <2>2. [what |-> "full", of |-> Repo] \in Hosted
    BY <2>1 DEF Hosted
  <2>3. /\ remote'[target][Name[Repo]].what = "full"
        /\ \A p \in Targets, n \in Names :
             p # target \/ n # Name[Repo] => remote'[p][n] = remote[p][n]
    BY <1>0, <1>2, <2>2, SetsHere
  <2> QED BY <1>3, <2>3 DEF ForkInv, HollowHasAReason, CopyingTo
<1>8. TempOnlyWhileCopying'
  BY <1>3 DEF ForkInv, TempOnlyWhileCopying
<1> QED BY <1>3, <1>4, <1>5, <1>6, <1>7, <1>8 DEF ForkInv, TypeInv

LEMMA CleanUpKeeps == ForkInv /\ CleanUp => ForkInv' /\ GrowsOnly
<1> SUFFICES ASSUME ForkInv, CleanUp PROVE ForkInv' /\ GrowsOnly
  OBVIOUS
<1> USE DEF CleanUp, CleanUpFrom, control, servers
<1>0. ForkTypeOK /\ LoopInv /\ place \in Working
  BY DEF ForkInv, TypeInv, Working, Places
<1>1. /\ tmp' \in [Names -> Temps] /\ tmp'[Name[Repo]] = NoTemp
      /\ \A n \in Names : n # Name[Repo] => tmp'[n] = tmp[n]
  <2>1. NoTemp \in Temps
    BY DEF NoTemp, Temps
  <2>2. SetTemp(NoTemp)
    OBVIOUS
  <2> QED BY <1>0, <2>1, <2>2, SetsTemp
<1>2. GrowsOnly
  BY DEF GrowsOnly, Grows
<1>3. ForkTypeOK'
  BY <1>0, <1>1 DEF ForkTypeOK, Places
<1>4. LoopInv'
  BY <1>0 DEF LoopInv
<1>5. CopyInv'
  <2>1. CreatedMeansCopied'
    BY <1>2, ResultsStayCopied
  <2>2. status = "created" => CopiedTo(Repo)
    BY DEF ForkInv, CopyInv
  <2> QED BY <2>1, <2>2 DEF CopyInv, CopiedTo, Cross, Repo
<1>6. HollowHasAReason'
  BY DEF ForkInv, HollowHasAReason, CopyingTo
<1>7. TempOnlyWhileCopying'
  BY <1>1 DEF ForkInv, TempOnlyWhileCopying
<1> QED BY <1>2, <1>3, <1>4, <1>5, <1>6, <1>7 DEF ForkInv, TypeInv

\* The result of a repository is recorded under its own name, and the loop goes on.
LEMMA RecordKeeps == ForkInv /\ RecordResult => ForkInv' /\ GrowsOnly
<1> SUFFICES ASSUME ForkInv, RecordResult PROVE ForkInv' /\ GrowsOnly
  OBVIOUS
<1> USE DEF RecordResult, ResultKey, control, disk, servers
<1>0. ForkTypeOK /\ LoopInv /\ place \in Working
  BY DEF ForkInv, TypeInv, Working, Places
<1>1. /\ Repo \in Repos /\ Repo \in Range(todo) /\ i \in 1..Len(todo) /\ todo \in Seq(Repos)
      /\ target \in Targets /\ status \in Reports
  BY <1>0, InWork DEF ForkTypeOK, LoopInv
<1>2. /\ DOMAIN results' = DOMAIN results \cup {Repo}
      /\ results'[Repo] = status
      /\ \A r \in DOMAIN results : r # Repo => results'[r] = results[r]
  OBVIOUS
<1>3. GrowsOnly
  BY DEF GrowsOnly, Grows
<1>4. i' \in 1..(Len(todo) + 1) /\ (place' # "summary" => i' <= Len(todo))
      /\ place' \in {"check", "summary"} /\ (place' = "summary" => i' = Len(todo) + 1)
  BY <1>1
<1>5. ForkTypeOK'
  <2>1. DOMAIN results' \subseteq Range(todo)
    BY <1>0, <1>1, <1>2 DEF ForkTypeOK
  <2>2. Range(results') \subseteq Reports
    BY <1>0, <1>1, <1>2 DEF ForkTypeOK, Range
  <2> QED BY <1>0, <1>4, <2>1, <2>2 DEF ForkTypeOK, Places
<1>6. LoopInv'
  <2>1. DOMAIN results' = {todo[k] : k \in 1..(i' - 1)}
    <3>1. DOMAIN results = {todo[k] : k \in 1..(i - 1)}
      BY <1>0 DEF LoopInv
    <3>2. 1..(i' - 1) = 1..(i - 1) \cup {i}
      BY <1>1
    <3>3. {todo[k] : k \in 1..(i - 1) \cup {i}} = {todo[k] : k \in 1..(i - 1)} \cup {todo[i]}
      OBVIOUS
    <3> QED BY <1>2, <3>1, <3>2, <3>3 DEF Repo
  <2> QED BY <1>0, <1>1, <1>4, <2>1 DEF LoopInv
<1>7. CopyInv'
  <2>1. \A r \in DOMAIN results' : results'[r] = "created" => CopiedTo(r)
    <3>1. \A r \in DOMAIN results : results[r] = "created" => CopiedTo(r)
      BY DEF ForkInv, CopyInv, CreatedMeansCopied, CopiedTo
    <3>2. status = "created" => CopiedTo(Repo)
      BY DEF ForkInv, CopyInv
    <3> QED BY <1>2, <3>1, <3>2
  <2>2. CreatedMeansCopied'
    BY <2>1 DEF CreatedMeansCopied, CopiedTo, Cross
  <2> QED BY <1>4, <2>2 DEF CopyInv
<1>8. HollowHasAReason'
  BY <1>4 DEF ForkInv, HollowHasAReason, CopyingTo
<1>9. TempOnlyWhileCopying'
  BY <1>4 DEF ForkInv, TempOnlyWhileCopying
<1> QED BY <1>3, <1>5, <1>6, <1>7, <1>8, <1>9 DEF ForkInv, TypeInv

\* The program is killed: what it was copying stays hollow, and it was the one to blame.
LEMMA KilledKeeps == ForkInv /\ Killed => ForkInv' /\ GrowsOnly
<1> SUFFICES ASSUME ForkInv, Killed PROVE ForkInv' /\ GrowsOnly
  OBVIOUS
<1>0. ForkTypeOK /\ LoopInv
  BY DEF ForkInv, TypeInv
<1>1. /\ place' = "idle" /\ cwd' = "base" /\ DOMAIN results' = {} /\ status' = "none"
      /\ results' = <<>>
      /\ IF place \in {"copy", "push", "cleanup"} THEN WentWrong ELSE UNCHANGED broken
      /\ UNCHANGED <<runs, source, target, sync, todo, i, deadline, behind>>
  BY DEF Killed, control
<1>2. [Partial EXCEPT !.of = Repo] = [what |-> "partial", of |-> Repo]
  BY DEF Partial
<1>3. /\ GrowsOnly /\ remote' \in [Targets -> [Names -> Hosted]]
      /\ \A p \in Targets, n \in Names :
           remote'[p][n].what \in {"empty", "partial"} =>
             \/ place \in {"copy", "push"} /\ <<p, n>> = Current
             \/ <<p, n>> \in broken
  <2>1. CASE place \in {"copy", "push"} /\ UNCHANGED local
    <3>1. \/ place = "copy" /\ UNCHANGED remote
          \/ place = "push" /\ UNCHANGED remote
          \/ place = "push" /\ SetHere([what |-> "partial", of |-> Repo])
      BY <1>2, <2>1 DEF Killed
    <3> QED BY <1>1, <2>1, <3>1, CopyGoesOn
  <2>2. CASE UNCHANGED remote
    BY <1>0, <2>2 DEF ForkTypeOK, GrowsOnly, Grows, ForkInv, HollowHasAReason, CopyingTo, Current
  <2> QED BY <2>1, <2>2 DEF Killed
<1>4. /\ tmp' \in [Names -> Temps]
      /\ \A n \in Names : tmp'[n] = tmp[n] \/ (place = "copy" /\ n = Name[Repo])
  <2>1. Partial \in Temps
    BY DEF Partial, Temps
  <2>2. CASE place = "copy" /\ SetTemp(Partial)
    BY <1>0, <2>1, <2>2, SetsTemp DEF Working, Places
  <2>3. CASE UNCHANGED tmp
    BY <1>0, <2>3 DEF ForkTypeOK
  <2> QED BY <2>2, <2>3 DEF Killed
<1>5. local' \in [Names -> Clones]
  <2>1. [NoClone EXCEPT !.what = "broken"] \in Clones
    BY DEF NoClone, Clones
  <2>2. CASE place = "clone" /\ SetLocal([NoClone EXCEPT !.what = "broken"])
    BY <1>0, <2>1, <2>2, SetsLocal DEF Working, Places
  <2>3. CASE UNCHANGED local
    BY <1>0, <2>3 DEF ForkTypeOK
  <2> QED BY <2>2, <2>3 DEF Killed
<1>6. broken' \subseteq Targets \X Names
      /\ broken \subseteq broken'
      /\ (place \in {"copy", "push", "cleanup"} => Current \in broken' /\ target \in Targets)
  <2>1. place \in {"copy", "push", "cleanup"} => target \in Targets /\ Name[Repo] \in Names
    BY <1>0, InWork DEF Working, Places
  <2> QED BY <1>0, <1>1, <2>1 DEF ForkTypeOK, WentWrong, Current
<1>7. ForkTypeOK'
  <2>1. DOMAIN results' \subseteq Range(todo') /\ Range(results') \subseteq Reports
    BY <1>1 DEF Range
  <2> QED BY <1>0, <1>1, <1>3, <1>4, <1>5, <1>6, <2>1 DEF ForkTypeOK, Places
<1>8. LoopInv' /\ CopyInv'
  BY <1>1 DEF LoopInv, CopyInv, CreatedMeansCopied
<1>9. HollowHasAReason'
  BY <1>3, <1>6 DEF HollowHasAReason
<1>10. TempOnlyWhileCopying'
  <2> SUFFICES ASSUME NEW n \in Names, tmp'[n] # NoTemp
               PROVE  \E p \in Targets : <<p, n>> \in broken'
    BY <1>1 DEF TempOnlyWhileCopying
  <2>1. \/ place \in {"copy", "push", "cleanup"} /\ Name[Repo] = n
        \/ \E p \in Targets : <<p, n>> \in broken
    BY <1>4 DEF ForkInv, TempOnlyWhileCopying
  <2> QED BY <1>6, <2>1 DEF Current
<1> QED BY <1>3, <1>7, <1>8, <1>9, <1>10 DEF ForkInv, TypeInv

\* A server ends an import, or somebody else makes a repository.
LEMMA ServersKeep == ForkInv /\ (ForkImported \/ OthersCreate) => ForkInv' /\ GrowsOnly
<1> SUFFICES ASSUME ForkInv, ForkImported \/ OthersCreate PROVE ForkInv' /\ GrowsOnly
  OBVIOUS
<1>0. ForkTypeOK /\ LoopInv
  BY DEF ForkInv, TypeInv
<1>1. UNCHANGED <<runs, source, target, sync, todo, place, i, status, results, deadline, cwd,
                  tmp, local, behind, broken>>
  BY DEF ForkImported, OthersCreate, control, disk
<1>2. PICK p \in Targets, n \in Names, new \in Hosted :
        /\ remote' = [remote EXCEPT ![p][n] = new]
        /\ \/ remote[p][n].what = "forking" /\ new.what = "full" /\ new.of = remote[p][n].of
           \/ remote[p][n].what = "absent" /\ new.what = "foreign"
  <2>1. CASE ForkImported
    <3>1. PICK p \in Targets, n \in Names :
            /\ remote[p][n].what = "forking"
            /\ remote' = [remote EXCEPT ![p][n].what = "full"]
      BY <2>1 DEF ForkImported
    <3> DEFINE new == [remote[p][n] EXCEPT !.what = "full"]
    <3>2. remote[p][n] \in Hosted
      BY <1>0 DEF ForkTypeOK
    <3>3. new \in Hosted /\ new.what = "full" /\ new.of = remote[p][n].of
      BY <3>2 DEF Hosted
    <3>4. remote' = [remote EXCEPT ![p][n] = new]
      BY <3>1
    <3> HIDE DEF new
    <3> QED BY <3>1, <3>3, <3>4
  <2>2. CASE OthersCreate
    <3>1. [what |-> "foreign", of |-> NoRepo] \in Hosted
      BY DEF Hosted
    <3>2. PICK p \in Targets, n \in Names :
            /\ remote[p][n] = Absent
            /\ remote' = [remote EXCEPT ![p][n] = [what |-> "foreign", of |-> NoRepo]]
      BY <2>2 DEF OthersCreate
    <3>3. remote[p][n].what = "absent"
      BY <3>2 DEF Absent
    <3> QED BY <3>1, <3>2, <3>3
  <2> QED BY <2>1, <2>2
<1>3. /\ remote' \in [Targets -> [Names -> Hosted]]
      /\ remote'[p][n] = new
      /\ \A q \in Targets, m \in Names : q # p \/ m # n => remote'[q][m] = remote[q][m]
  BY <1>0, <1>2 DEF ForkTypeOK
<1>4. GrowsOnly
  BY <1>2, <1>3 DEF GrowsOnly, Grows
<1>5. ForkTypeOK' /\ LoopInv'
  BY <1>0, <1>1, <1>3 DEF ForkTypeOK, LoopInv
<1>6. CopyInv'
  <2>1. CreatedMeansCopied'
    BY <1>1, <1>4, ResultsStayCopied
  <2>2. place \in Working => Repo \in Repos /\ Name[Repo] \in Names /\ target \in Targets
    BY <1>0, InWork
  <2>3. place \in {"copy", "push"} => Here' = Here
    <3>1. place \in {"copy", "push"} => Here.what = "empty"
      BY DEF ForkInv, CopyInv
    <3> QED BY <1>1, <1>2, <1>3, <2>2, <3>1 DEF Here, Repo, Working, Places
  <2>4. place \in {"cleanup", "clone", "remotes", "record"} /\ status = "created" => CopiedTo(Repo)'
    <3>1. Repo' = Repo
      BY <1>1 DEF Repo
    <3> QED BY <1>1, <1>4, <2>2, <3>1, CopiedStays DEF ForkInv, CopyInv, Working, Places
  <2> QED BY <1>1, <2>1, <2>3, <2>4 DEF ForkInv, CopyInv, Cross, Repo
<1>7. HollowHasAReason'
  BY <1>1, <1>2, <1>3 DEF ForkInv, HollowHasAReason, CopyingTo, Repo
<1>8. TempOnlyWhileCopying'
  BY <1>1 DEF ForkInv, TempOnlyWhileCopying, Repo
<1> QED BY <1>4, <1>5, <1>6, <1>7, <1>8 DEF ForkInv, TypeInv

LEMMA StepFork == ForkInv /\ [ForkNext]_fvars => ForkInv' /\ GrowsOnly
<1> SUFFICES ASSUME ForkInv, [ForkNext]_fvars PROVE ForkInv' /\ GrowsOnly
  OBVIOUS
<1>0. ForkTypeOK /\ LoopInv
  BY DEF ForkInv, TypeInv
<1>1. CASE BeginRun
  BY <1>1, BeginKeeps
<1>2. CASE RefuseTarget
  <2>1. runs' \in 0..MaxRuns
    BY <1>0, <1>2 DEF RefuseTarget, ForkTypeOK
  <2> QED BY <1>0, <1>2, <2>1, MovesKeep DEF RefuseTarget, disk, servers, Moves, ForkTypeOK
<1>3. CASE ListSource
  BY <1>3, ListKeeps
<1>4. CASE RecordResult
  BY <1>4, RecordKeeps
<1>5. ASSUME \/ NothingToFork \/ PrintSummary \/ CheckFails \/ CheckTarget \/ SkipExisting
             \/ SyncExisting \/ SyncFails \/ AlreadyExists \/ CreateFails
      PROVE  ForkInv' /\ GrowsOnly
  <2>1. UNCHANGED <<runs, source, target, sync, todo, i, results, deadline, cwd, tmp, local,
                    remote, broken>>
    BY <1>5 DEF NothingToFork, PrintSummary, CheckFails, CheckTarget, SkipExisting, SyncExisting,
                SyncFails, AlreadyExists, CreateFails, OnlyServers, control, disk, servers
  <2>2. behind' \subseteq behind
    BY <1>5 DEF NothingToFork, PrintSummary, CheckFails, CheckTarget, SkipExisting, SyncExisting,
                SyncFails, AlreadyExists, CreateFails, OnlyServers, control, disk, servers
  <2>3. Moves
    BY <1>5 DEF NothingToFork, PrintSummary, CheckFails, CheckTarget, SkipExisting, SyncExisting,
                SyncFails, AlreadyExists, CreateFails, OnlyServers, control, disk, servers,
                Report, Moves, Between, Working, Places, Reports
  <2> QED BY <1>0, <2>1, <2>2, <2>3, MovesKeep DEF ForkTypeOK
<1>6. CASE ForkCreated
  <2>1. PICK how \in {"forking", "full"} : SetHere([what |-> how, of |-> Repo])
    BY <1>6 DEF ForkCreated
  <2>2. Repo \in Repos
    BY <1>0, <1>6, InWork DEF ForkCreated, Working, Places
  <2>3. [what |-> how, of |-> Repo] \in Hosted
    BY <2>2 DEF Hosted
  <2> QED BY <1>6, <2>1, <2>3, NewHere DEF ForkCreated, OnlyServers, control, disk
<1>7. CASE ForkAccepted
  <2>1. Repo \in Repos
    BY <1>0, <1>7, InWork DEF ForkAccepted, Working, Places
  <2>2. [what |-> "forking", of |-> Repo] \in Hosted
    BY <2>1 DEF Hosted
  <2> QED BY <1>7, <2>2, NewHere DEF ForkAccepted, OnlyServers, control, disk
<1>8. CASE CreateEmpty \/ CreateLost
  <2>1. [what |-> "empty", of |-> NoRepo] \in Hosted
    BY DEF Hosted
  <2> QED BY <1>8, <2>1, NewHere
          DEF CreateEmpty, NewRepository, CreateLost, OnlyServers, control, disk
<1>9. CASE BareClone \/ BareCloneFails \/ PushMirror \/ PushFails \/ CleanUp
  BY <1>9, BareCloneKeeps, CopyFailsKeeps, PushKeeps, CleanUpKeeps
<1>10. ASSUME CloneTarget \/ SkipClone \/ CloneFails \/ SetupRemotes \/ RemotesFail
       PROVE  ForkInv' /\ GrowsOnly
  <2>1. UNCHANGED <<runs, source, target, sync, todo, i, results, deadline, cwd, tmp, remote,
                    broken, behind, status>>
    BY <1>10 DEF CloneTarget, SkipClone, CloneFails, SetupRemotes, RemotesFail, OnlyLocal,
                 control, servers
  <2>2. place \in {"clone", "remotes"} /\ place' \in {"remotes", "record"}
    BY <1>10 DEF CloneTarget, SkipClone, CloneFails, SetupRemotes, RemotesFail
  <2>3. local' \in [Names -> Clones]
    <3>1. /\ place \in Working /\ Repo \in Repos /\ Name[Repo] \in Names /\ target \in Targets
      BY <1>0, <2>2, InWork DEF Working, Places
    <3>2. OriginURL \in URLs
      BY <3>1 DEF OriginURL, URLs, Targets
    <3>3. CASE CloneTarget
      <4>1. Here \in Hosted
        BY <1>0, <3>1 DEF Here, ForkTypeOK
      <4>2. Cloned \in {"empty", "partial", "full", "foreign"} /\ Here.of \in Repos \cup {NoRepo}
        BY <3>3, <4>1 DEF Cloned, Hosted, CloneTarget
      <4>3. [NoClone EXCEPT !.what = Cloned, !.of = Here.of, !.origin = OriginURL] \in Clones
        BY <3>2, <4>2 DEF NoClone, Clones
      <4> QED BY <1>0, <3>1, <3>3, <4>3, SetsLocal DEF CloneTarget
    <3>4. CASE CloneFails
      <4>1. [NoClone EXCEPT !.what = "broken"] \in Clones
        BY DEF NoClone, Clones
      <4> QED BY <1>0, <3>1, <3>4, <4>1, SetsLocal DEF CloneFails, ForkTypeOK
    <3>5. CASE SetupRemotes
      <4>1. local[Name[Repo]] \in Clones
        BY <1>0, <3>1 DEF ForkTypeOK
      <4>2. [local[Name[Repo]] EXCEPT !.origin = OriginURL, !.upstream = Repo] \in Clones
        BY <3>1, <3>2, <4>1 DEF Clones
      <4> QED BY <1>0, <3>1, <3>5, <4>2, SetsLocal DEF SetupRemotes
    <3>6. CASE SkipClone \/ RemotesFail
      BY <1>0, <3>6 DEF SkipClone, RemotesFail, ForkTypeOK
    <3> QED BY <1>10, <3>3, <3>4, <3>5, <3>6
  <2> QED BY <1>0, <2>1, <2>2, <2>3, MovesKeep DEF ForkTypeOK, Moves
<1>11. CASE DeadlineExpires
  BY <1>0, <1>11, MovesKeep DEF DeadlineExpires, ForkTypeOK, Moves, control, disk, servers
<1>12. CASE Killed
  BY <1>12, KilledKeeps
<1>13. CASE ForkImported \/ OthersCreate
  BY <1>13, ServersKeep
<1>14. CASE SourceAdvances
  <2>1. behind' \subseteq Targets \X Names
    BY <1>0, <1>14 DEF SourceAdvances, ForkTypeOK
  <2> QED BY <1>0, <1>14, <2>1, MovesKeep DEF SourceAdvances, ForkTypeOK, Moves, control, disk
<1>15. CASE UNCHANGED fvars
  BY <1>0, <1>15, MovesKeep DEF fvars, ForkTypeOK, Moves, control, disk, servers
<1> QED BY <1>1, <1>2, <1>3, <1>4, <1>5, <1>6, <1>7, <1>8, <1>9, <1>10, <1>11, <1>12, <1>13,
           <1>14, <1>15
        DEF ForkNext, Program, World
-----------------------------------------------------------------------------
(***************************************************************************)
(* The theorems.                                                           *)
(***************************************************************************)

\* The variables keep their types: the loop never indexes past the listing, and a run that
\* is under way has resolved a source and a target that can be forked to.
THEOREM ForkTypeCorrect == ForkSpec => []ForkTypeOK
<1>1. ForkInv => ForkTypeOK
  BY DEF ForkInv, TypeInv
<1> QED BY <1>1, InitFork, StepFork, PTL DEF ForkSpec

\* A repository reported as created has its content at the target, or a fork of it that is
\* still being imported, whatever failed, was killed or was left by earlier runs.
THEOREM CreatedIsCopied == ForkSpec => []CreatedMeansCopied
<1>1. ForkInv => CreatedMeansCopied
  BY DEF ForkInv, CopyInv
<1> QED BY <1>1, InitFork, StepFork, PTL DEF ForkSpec

\* A repository at the target lacks its content only while it is copied, or after a copy or
\* creation that was reported as a failure or cut off.
THEOREM HollowIsReported == ForkSpec => []HollowHasAReason
<1>1. ForkInv => HollowHasAReason
  BY DEF ForkInv
<1> QED BY <1>1, InitFork, StepFork, PTL DEF ForkSpec

\* The temporary mirror and the changed working directory do not outlast the copy they
\* belong to, unless the program is killed.
THEOREM TempIsTemporary == ForkSpec => []TempOnlyWhileCopying
<1>1. ForkInv => TempOnlyWhileCopying
  BY DEF ForkInv
<1> QED BY <1>1, InitFork, StepFork, PTL DEF ForkSpec

\* The summary has a result for every repository of the listing, even when several have the
\* same name or the listing names one twice.
THEOREM SummaryIsComplete == ForkSpec => []SummaryCoversAll
<1>1. ForkInv => SummaryCoversAll
  <2> SUFFICES ASSUME ForkInv, place = "summary" PROVE DOMAIN results = Range(todo)
    BY DEF SummaryCoversAll
  <2>1. DOMAIN results = {todo[k] : k \in 1..(i - 1)} /\ i = Len(todo) + 1
    BY DEF ForkInv, TypeInv, LoopInv
  <2>2. todo \in Seq(Repos) /\ 1..(i - 1) = DOMAIN todo
    BY <2>1 DEF ForkInv, TypeInv, ForkTypeOK
  <2> QED BY <2>1, <2>2 DEF Range
<1> QED BY <1>1, InitFork, StepFork, PTL DEF ForkSpec

\* What exists at the target, this program never writes to, except into the empty
\* repository that the same run has made: push --mirror cannot delete anybody's work.
THEOREM TargetsKept == ForkSpec => ExistingTargetsKept
<1>1. ForkInv /\ [ForkNext]_fvars =>
        [\A p \in Targets, n \in Names :
           remote[p][n].what \notin {"absent", "forking"} =>
             \/ remote'[p][n] = remote[p][n]
             \/ CopyingTo(p, n) /\ remote[p][n].what = "empty"]_fvars
  BY StepFork DEF GrowsOnly, Grows
<1> QED BY <1>1, InitFork, StepFork, PTL DEF ForkSpec, ExistingTargetsKept
===============================================================================
