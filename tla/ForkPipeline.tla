----------------------------- MODULE ForkPipeline -----------------------------
(***************************************************************************)
(* Fork mode of cmd/git-bulk/main.go: for every repository of a source it  *)
(* forks it, or creates a repository at another provider and mirrors the   *)
(* content into it, or syncs what exists, and clones the result locally.   *)
(* The program is sequential; what makes it hard are the servers and the   *)
(* disk, which outlive a run that fails half way or is killed, and the     *)
(* next run, which meets what the last one left.                           *)
(*                                                                         *)
(* A provider is known by its name, a source repository by a value of      *)
(* Repos.  Disk errors other than git's are left out, and so is the choice *)
(* of SSH or HTTPS: a git command that is tried with one and then with the *)
(* other is one that succeeds or fails.                                    *)
(*                                                                         *)
(* A definition A_Slip beside a definition A is A with a plausible slip in *)
(* it; nothing uses it but the experiments that show a property notices.   *)
(***************************************************************************)
EXTENDS Naturals, Sequences, FiniteSets, Functions

CONSTANTS
  Repos,            \* the source repositories, wherever they are
  NoRepo,           \* the content of what has no source repository
  Names,            \* their names
  Name,             \* repository -> its Repository.Name
  Listing,          \* provider -> what ListRepositories returns for the source
  SourceProviders,  \* the providers the source may resolve to
  TargetProviders,  \* the providers the target may resolve to
  Nested,           \* the repositories in a subgroup: three parts in their FullName
  ForkedSources,    \* the source repositories that are forks themselves
  Moving,           \* the source repositories that get new commits
  MaxRuns           \* bound: how often the program is run

ASSUME RepoAssumption == /\ NoRepo \notin Repos /\ Name \in [Repos -> Names]
                         /\ Nested \subseteq Repos /\ ForkedSources \subseteq Repos
                         /\ Moving \subseteq Repos
ASSUME ProviderAssumption ==
  /\ SourceProviders \subseteq {"github", "gitlab", "gerrit"}
  /\ TargetProviders \subseteq {"github", "gitlab", "gerrit"}
  /\ Listing \in [SourceProviders -> Seq(Repos)]
ASSUME RunAssumption == MaxRuns \in Nat

VARIABLES
  runs,            \* how often the program has been started
  place,           \* where processForks is
  source, target,  \* the providers this run has resolved
  sync,            \* --sync
  todo, i,         \* repos, and the loop variable over it
  status,          \* what processSingleFork is going to return
  results,         \* forkResults
  deadline,        \* ctx, made with --timeout, is done
  cwd,             \* the working directory: "base" or the temporary one
  tmp,             \* name -> the directory .tmp-name in the output directory
  remote,          \* target provider -> name -> the repository of the target organisation
  local,           \* name -> the directory of that name in the output directory
  behind,          \* the <<provider, name>> whose source has got new commits since
  broken           \* history: the <<provider, name>> whose creation or copy went wrong

control == <<runs, source, target, sync, todo>>
disk    == <<cwd, tmp, local>>
servers == <<remote, behind, broken>>
fvars   == <<control, place, i, status, results, deadline, disk, servers>>
-----------------------------------------------------------------------------
Places == {"idle", "list", "check", "exists", "create", "copy", "push", "cleanup",
           "clone", "remotes", "record", "summary"}
Reports == {"created", "synced", "exists", "failed", "check failed", "sync failed",
            "sync not implemented", "content copy failed"}
Targets == TargetProviders \ {"gerrit"}

\* A repository at the target: "forking" while the server still imports it, "partial"
\* when a push was cut off, "foreign" when somebody else has made it.
Absent == [what |-> "absent", of |-> NoRepo]
Hosted == [what : {"absent", "empty", "partial", "forking", "full", "foreign"},
           of : Repos \cup {NoRepo}]

\* A URL of the target organisation; a nested one has the subgroup in its path.
URLs == [provider : TargetProviders, nested : BOOLEAN]
NoURL == [provider |-> "none", nested |-> FALSE]

\* A local directory: "broken" is what an interrupted git clone leaves.
NoClone == [what |-> "none", of |-> NoRepo, origin |-> NoURL, upstream |-> NoRepo]
Clones == [what : {"none", "broken", "empty", "partial", "full", "foreign"},
           of : Repos \cup {NoRepo}, origin : URLs \cup {NoURL},
           upstream : Repos \cup {NoRepo}]

NoTemp == [what |-> "none", of |-> NoRepo]
Temps  == [what : {"none", "partial", "full"}, of : Repos \cup {NoRepo}]

Repo == todo[i]
Here == remote[target][Name[Repo]]
Cross == source # target

\* Some server has this repository as a fork of one of its own.
IsFork(p, n) == /\ remote[p][n].what = "full"
                /\ p \in SourceProviders /\ remote[p][n].of \in Range(Listing[p])

ForkTypeOK ==
  /\ runs \in 0..MaxRuns /\ place \in Places
  /\ source \in SourceProviders \cup {"none"} /\ target \in Targets \cup {"none"}
  /\ sync \in BOOLEAN /\ deadline \in BOOLEAN
  /\ todo \in Seq(Repos) /\ i \in 1..(Len(todo) + 1)
  /\ status \in Reports \cup {"none"}
  /\ DOMAIN results \subseteq Range(todo) /\ Range(results) \subseteq Reports
  /\ cwd \in Names \cup {"base"}
  /\ tmp \in [Names -> Temps]
  /\ remote \in [Targets -> [Names -> Hosted]]
  /\ local \in [Names -> Clones]
  /\ behind \subseteq Targets \X Names /\ broken \subseteq Targets \X Names
  /\ place \notin {"idle", "list", "summary"} => i <= Len(todo)
  /\ place # "idle" => target \in Targets /\ source \in SourceProviders

ForkInit ==
  /\ runs = 0 /\ place = "idle" /\ source = "none" /\ target = "none"
  /\ sync = FALSE /\ deadline = FALSE
  /\ todo = <<>> /\ i = 1 /\ status = "none" /\ results = <<>>
  /\ cwd = "base" /\ tmp = [n \in Names |-> NoTemp] /\ local = [n \in Names |-> NoClone]
  /\ remote = [p \in Targets |-> [n \in Names |-> Absent]]
  /\ behind = {} /\ broken = {}
-----------------------------------------------------------------------------
(***************************************************************************)
(* The beginning and the end of a run.                                     *)
(***************************************************************************)

\* setupForkProviders: an ambiguous name resolves anew in every run.
BeginRun ==
  /\ place = "idle" /\ runs < MaxRuns
  /\ runs' = runs + 1
  /\ source' \in SourceProviders /\ target' \in TargetProviders \ {"gerrit"}
  /\ sync' \in BOOLEAN
  /\ place' = "list" /\ deadline' = FALSE
  /\ todo' = <<>> /\ i' = 1 /\ status' = "none" /\ results' = <<>>
  /\ UNCHANGED <<disk, servers>>

\* validateForkProviders: gerrit is no target.
RefuseTarget ==
  /\ place = "idle" /\ runs < MaxRuns /\ "gerrit" \in TargetProviders
  /\ runs' = runs + 1
  /\ UNCHANGED <<place, source, target, sync, todo, i, status, results, deadline, disk,
                 servers>>

\* getRepositoriesToFork, with any --max-repos.
ListFrom(fewest) ==
  /\ place = "list" /\ ~deadline
  /\ \E k \in fewest..Len(Listing[source]) : todo' = SubSeq(Listing[source], 1, k)
  /\ place' = "check"
  /\ UNCHANGED <<runs, source, target, sync, i, status, results, deadline, disk, servers>>

ListSource_EmptyToo == ListFrom(0)
ListSource == ListFrom(1)

\* The listing fails or is empty, or it is a dry run.
NothingToFork ==
  /\ place = "list"
  /\ place' = "idle"
  /\ UNCHANGED <<control, i, status, results, deadline, disk, servers>>

Report(how) == status' = how /\ place' = "record"

\* forkResults is keyed by the full name, which is the repository's own.
ResultKey_Name(r) == CHOOSE q \in Range(todo) : Name[q] = Name[r]
ResultKey(r) == r

RecordResult ==
  /\ place = "record"
  /\ results' = [k \in DOMAIN results \cup {ResultKey(Repo)} |->
                   IF k = ResultKey(Repo) THEN status ELSE results[k]]
  /\ i' = i + 1 /\ status' = "none"
  /\ place' = IF i = Len(todo) THEN "summary" ELSE "check"
  /\ UNCHANGED <<control, deadline, disk, servers>>

PrintSummary ==
  /\ place = "summary" /\ place' = "idle"
  /\ UNCHANGED <<control, i, status, results, deadline, disk, servers>>
-----------------------------------------------------------------------------
(***************************************************************************)
(* What exists at the target.                                              *)
(***************************************************************************)
OnlyServers == UNCHANGED <<control, i, results, deadline, disk>>
SetHere(value) == remote' = [remote EXCEPT ![target][Name[Repo]] = value]
WentWrong == broken' = broken \cup {<<target, Name[Repo]>>}

CheckFails_NotRecorded ==
  /\ place = "check" /\ place' = "check"
  /\ OnlyServers /\ UNCHANGED <<status, servers>>
CheckFails ==
  /\ place = "check" /\ Report("check failed")
  /\ OnlyServers /\ UNCHANGED servers

CheckTarget ==
  /\ place = "check" /\ ~deadline
  /\ place' = IF Here.what = "absent" THEN "create" ELSE "exists"
  /\ OnlyServers /\ UNCHANGED <<status, servers>>

\* Skipped, or syncCrossProviderRepository: either way only the local clone is left to do.
SkipExisting ==
  /\ place = "exists" /\ (~sync \/ Cross)
  /\ status' = IF sync THEN "sync not implemented" ELSE "exists"
  /\ place' = "clone"
  /\ OnlyServers /\ UNCHANGED servers

\* GitHub looks up the target by its name.  GitLab looks up the project with the ID it is
\* given, which is the source's, and opens a merge request there.
SyncReaches == IF source = "gitlab" THEN Repo \in ForkedSources
               ELSE IsFork(target, Name[Repo])

SyncExisting ==
  /\ place = "exists" /\ sync /\ ~Cross /\ ~deadline
  /\ SyncReaches
  /\ behind' = IF source = "gitlab" THEN behind ELSE behind \ {<<target, Name[Repo]>>}
  /\ status' = "synced" /\ place' = "clone"
  /\ OnlyServers /\ UNCHANGED <<remote, broken>>

SyncFails ==
  /\ place = "exists" /\ sync /\ ~Cross /\ Report("sync failed")
  /\ OnlyServers /\ UNCHANGED servers
-----------------------------------------------------------------------------
(***************************************************************************)
(* What does not exist: a fork, or a new repository and its content.       *)
(***************************************************************************)

\* createNativeFork: GitLab answers at once, and the import goes on behind the answer.
ForkCreated ==
  /\ place = "create" /\ ~Cross /\ ~deadline /\ Here.what = "absent"
  /\ \E how \in {"forking", "full"} : SetHere([what |-> how, of |-> Repo])
  /\ status' = "created" /\ place' = "clone"
  /\ OnlyServers /\ UNCHANGED <<behind, broken>>

\* GitHub's answer is "accepted", which the client library makes an error of; or the answer
\* is lost.  The fork comes into being all the same.
ForkAccepted ==
  /\ place = "create" /\ ~Cross /\ Here.what = "absent"
  /\ SetHere([what |-> "forking", of |-> Repo])
  /\ Report("failed")
  /\ OnlyServers /\ UNCHANGED <<behind, broken>>

\* createCrossProviderRepository makes an empty repository first.
NewRepository(next, how) ==
  /\ place = "create" /\ Cross /\ ~deadline /\ Here.what = "absent"
  /\ SetHere([what |-> "empty", of |-> NoRepo])
  /\ status' = how /\ place' = next
  /\ OnlyServers /\ UNCHANGED <<behind, broken>>

CreateEmpty_NoCopy == NewRepository("record", "created")
CreateEmpty == NewRepository("copy", "none")

\* The repository is made, but the answer is lost.
CreateLost ==
  /\ place = "create" /\ Cross /\ Here.what = "absent"
  /\ SetHere([what |-> "empty", of |-> NoRepo])
  /\ Report("failed") /\ WentWrong
  /\ OnlyServers /\ UNCHANGED behind

\* It exists after all, and the message says so in words the code knows.
AlreadyExists_Pushes ==
  /\ place = "create" /\ ~deadline /\ Here.what # "absent"
  /\ status' = "exists" /\ place' = IF Cross THEN "copy" ELSE "clone"
  /\ OnlyServers /\ UNCHANGED servers
AlreadyExists ==
  /\ place = "create" /\ ~deadline /\ Here.what # "absent"
  /\ status' = "exists" /\ place' = "clone"
  /\ OnlyServers /\ UNCHANGED servers

CreateFails ==
  /\ place = "create" /\ Report("failed")
  /\ OnlyServers /\ UNCHANGED servers
-----------------------------------------------------------------------------
(***************************************************************************)
(* cloneAndPushCrossProvider, in a temporary directory.                    *)
(***************************************************************************)
SetTemp(value) == tmp' = [tmp EXCEPT ![Name[Repo]] = value]
Partial == [what |-> "partial", of |-> NoRepo]

\* git clone --bare refuses a directory with something in it.
BareClone ==
  /\ place = "copy" /\ ~deadline /\ tmp[Name[Repo]] = NoTemp
  /\ SetTemp([what |-> "full", of |-> Repo]) /\ cwd' = Name[Repo]
  /\ place' = "push"
  /\ UNCHANGED <<control, i, status, results, deadline, local, servers>>

\* git removes what it has begun, unless the deadline kills it.
BareCloneFails ==
  /\ place = "copy"
  /\ UNCHANGED tmp \/ (deadline /\ SetTemp(Partial))
  /\ status' = "content copy failed" /\ place' = "cleanup" /\ WentWrong
  /\ UNCHANGED <<control, i, results, deadline, cwd, local, remote, behind>>

PushMirror ==
  /\ place = "push" /\ ~deadline
  /\ SetHere([what |-> "full", of |-> tmp[Name[Repo]].of])
  /\ status' = "created" /\ place' = "cleanup"
  /\ OnlyServers /\ UNCHANGED <<behind, broken>>

PushGivesUp(how) ==
  /\ place = "push"
  /\ UNCHANGED remote \/ SetHere([Partial EXCEPT !.of = Repo])
  /\ status' = how /\ place' = "cleanup" /\ WentWrong
  /\ OnlyServers /\ UNCHANGED behind

PushFails_Ignored == PushGivesUp("created")
PushFails == PushGivesUp("content copy failed")

\* The deferred calls, last one first: back to the working directory, whence the relative
\* path of the temporary directory means something, and then RemoveAll.
CleanUpFrom(dir) ==
  /\ place = "cleanup"
  /\ cwd' = "base"
  /\ IF dir = "base" THEN SetTemp(NoTemp) ELSE UNCHANGED tmp
  /\ place' = "record"
  /\ UNCHANGED <<control, i, status, results, deadline, local, servers>>

CleanUp_DefersSwapped == CleanUpFrom(cwd)
CleanUp == CleanUpFrom("base")
-----------------------------------------------------------------------------
(***************************************************************************)
(* cloneForkWithRemotes and cloneCrossProviderWithRemotes.                 *)
(***************************************************************************)
SetLocal(value) == local' = [local EXCEPT ![Name[Repo]] = value]
OnlyLocal == UNCHANGED <<control, i, status, results, deadline, cwd, tmp, servers>>

\* getCloneURLs replaces the organisation in the source's URL and keeps its subgroup;
\* getCrossProviderCloneURLs makes the URL anew.
OriginURL == [provider |-> target, nested |-> ~Cross /\ Repo \in Nested]

\* What git clone finds there: a fork that is still imported has no commits yet.
Cloned == CASE Here.what = "forking" -> "empty"
            [] OTHER                 -> Here.what

CloneTarget ==
  /\ place = "clone" /\ ~deadline
  /\ local[Name[Repo]].what = "none"
  /\ ~OriginURL.nested /\ Here.what # "absent"
  /\ SetLocal([NoClone EXCEPT !.what = Cloned, !.of = Here.of, !.origin = OriginURL])
  /\ place' = "remotes"
  /\ OnlyLocal

\* Whatever is there is taken for the clone.
SkipClone ==
  /\ place = "clone" /\ local[Name[Repo]].what # "none"
  /\ place' = "remotes"
  /\ OnlyLocal /\ UNCHANGED local

\* The failure is printed and changes no result.
CloneFails ==
  /\ place = "clone" /\ local[Name[Repo]].what = "none"
  /\ UNCHANGED local \/ (deadline /\ SetLocal([NoClone EXCEPT !.what = "broken"]))
  /\ place' = "record"
  /\ OnlyLocal

\* setupRemotes is given no deadline.
SetupRemotes ==
  /\ place = "remotes"
  /\ SetLocal([local[Name[Repo]] EXCEPT !.origin = OriginURL, !.upstream = Repo])
  /\ place' = "record"
  /\ OnlyLocal

\* A directory that git clone has left half-made may be no repository.
RemotesFail ==
  /\ place = "remotes" /\ local[Name[Repo]].what = "broken"
  /\ place' = "record"
  /\ OnlyLocal /\ UNCHANGED local
-----------------------------------------------------------------------------
(***************************************************************************)
(* The world around it.                                                    *)
(***************************************************************************)
DeadlineExpires ==
  /\ place # "idle" /\ ~deadline /\ deadline' = TRUE
  /\ UNCHANGED <<control, place, i, status, results, disk, servers>>

\* The program is killed: what a git command had done so far stays.
Killed ==
  /\ place # "idle"
  /\ place' = "idle" /\ cwd' = "base" /\ results' = <<>> /\ status' = "none"
  /\ \/ UNCHANGED <<tmp, remote, local>>
     \/ place = "copy" /\ tmp[Name[Repo]] = NoTemp /\ SetTemp(Partial)
        /\ UNCHANGED <<remote, local>>
     \/ place = "push" /\ SetHere([Partial EXCEPT !.of = Repo]) /\ UNCHANGED <<tmp, local>>
     \/ place = "clone" /\ local[Name[Repo]].what = "none"
        /\ SetLocal([NoClone EXCEPT !.what = "broken"]) /\ UNCHANGED <<tmp, remote>>
  /\ IF place \in {"copy", "push", "cleanup"} THEN WentWrong ELSE UNCHANGED broken
  /\ UNCHANGED <<control, i, deadline, behind>>

ForkImported ==
  /\ \E p \in Targets, n \in Names :
       /\ remote[p][n].what = "forking"
       /\ remote' = [remote EXCEPT ![p][n].what = "full"]
  /\ UNCHANGED <<control, place, i, status, results, deadline, disk, behind, broken>>

\* Somebody else makes a repository of that name.
OthersCreate ==
  /\ \E p \in Targets, n \in Names :
       /\ remote[p][n] = Absent
       /\ remote' = [remote EXCEPT ![p][n] = [what |-> "foreign", of |-> NoRepo]]
  /\ UNCHANGED <<control, place, i, status, results, deadline, disk, behind, broken>>

SourceAdvances ==
  /\ \E r \in Moving :
       behind' = behind \cup {pn \in Targets \X Names :
                                /\ remote[pn[1]][pn[2]].what = "full"
                                /\ remote[pn[1]][pn[2]].of = r}
  /\ UNCHANGED <<control, place, i, status, results, deadline, disk, remote, broken>>

Program ==
  \/ ListSource \/ NothingToFork \/ RecordResult \/ PrintSummary
  \/ CheckFails \/ CheckTarget \/ SkipExisting \/ SyncExisting \/ SyncFails
  \/ ForkCreated \/ ForkAccepted \/ CreateEmpty \/ CreateLost \/ AlreadyExists \/ CreateFails
  \/ BareClone \/ BareCloneFails \/ PushMirror \/ PushFails \/ CleanUp
  \/ CloneTarget \/ SkipClone \/ CloneFails \/ SetupRemotes \/ RemotesFail

World == DeadlineExpires \/ Killed \/ ForkImported \/ OthersCreate \/ SourceAdvances

ForkNext == BeginRun \/ RefuseTarget \/ Program \/ World

ForkSpec == ForkInit /\ [][ForkNext]_fvars

\* The program goes on while it can: every request and every git command ends.
ForkFairSpec == ForkSpec /\ WF_fvars(Program)
-----------------------------------------------------------------------------
(***************************************************************************)
(* Properties.                                                             *)
(***************************************************************************)
CopyingTo(p, n) == /\ place \in {"copy", "push"}
                   /\ target = p /\ Name[Repo] = n

\* A repository reported as created has its content at the target, or a fork of it that the
\* server is still importing: no failure on the way from the empty repository to the last
\* push is taken for a success, and nobody else's repository is.
CreatedMeansCopied ==
  \A r \in DOMAIN results : results[r] = "created" =>
    /\ remote[target][Name[r]].of = r
    /\ remote[target][Name[r]].what \in (IF Cross THEN {"full"} ELSE {"forking", "full"})

\* A repository at the target that lacks its content is one being copied right now, or one
\* whose copy or creation was reported as a failure or cut off with the program.
HollowHasAReason ==
  \A p \in Targets, n \in Names :
    remote[p][n].what \in {"empty", "partial"} => CopyingTo(p, n) \/ <<p, n>> \in broken

\* What exists at the target is changed by nothing but the copy of the run that has created
\* it: push --mirror, which deletes what it does not know, never meets somebody else's work.
\* The other side of it: no later run completes a repository that was left hollow.
ExistingTargetsKept ==
  [][\A p \in Targets, n \in Names :
       remote[p][n].what \notin {"absent", "forking"} =>
         \/ remote'[p][n] = remote[p][n]
         \/ CopyingTo(p, n) /\ remote[p][n].what = "empty"]_fvars

\* The temporary mirror is gone when the next repository is begun, and the program is back
\* in its directory, unless a killed run has left it.
TempOnlyWhileCopying ==
  /\ cwd # "base" => place \in {"push", "cleanup"} /\ cwd = Name[Repo]
  /\ \A n \in Names : tmp[n] # NoTemp =>
       \/ place \in {"copy", "push", "cleanup"} /\ Name[Repo] = n
       \/ \E p \in Targets : <<p, n>> \in broken

\* The summary, whose total is the number of repositories, has a result for each of them,
\* those with the same name in different groups included.
SummaryCoversAll == place = "summary" => DOMAIN results = Range(todo)

\* Every run comes to an end.
RunEnds == (place # "idle") ~> (place = "idle")

\* "Supports --sync flag to update existing forks": a fork reported as synced has the
\* commits its source had.
SyncedIsUpToDate ==
  [][status' = "synced" /\ status # "synced" =>
       <<target, Name[Repo]>> \notin behind']_fvars
===============================================================================
