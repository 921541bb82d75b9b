----------------------------- MODULE CloneCommand -----------------------------
(***************************************************************************)
(* One run of the program up to its results: runRegularClone of            *)
(* cmd/git-bulk/main.go, the beginning of runForkMode, and CloneAll of     *)
(* internal/clone/manager.go, over the parts they share: Credentials,      *)
(* SourceResolution, ProviderListing and CompletionMonitor.                *)
(*                                                                         *)
(* What no later step reads is forgotten when a step ends: the settings    *)
(* and the source when the listing begins, the listing when the wait does. *)
(* The refusals of the submission and the waits between its batches are    *)
(* CloneManager's, what fork mode does with the list is ForkPipeline's.    *)
(***************************************************************************)
EXTENDS ProviderListing, CompletionMonitor, SourceResolution, Credentials

CONSTANTS
  Settings,     \* flags, environment and files a run may meet
  Sources,      \* the --source it may be given
  NoSetting, NoSource,
  GerritUser,   \* the key GERRIT_USERNAME
  Archived      \* the archived repositories, skipped without --clone-archived

ASSUME SettingsAssumption ==
  /\ GerritUser \in Keys /\ Archived \subseteq Repos
  /\ \A s \in Settings : /\ s.flags \in [Keys -> Values] /\ s.env \in [Keys -> Values]
                         /\ s.named \in Seq(File) /\ s.usual \in Seq(File)
ASSUME SourcesAssumption ==
  \A s \in Sources : /\ s.form \in {"url", "scp", "plain"}
                     /\ s.parts \in Seq(Words) /\ Size(s) >= (IF s.form = "scp" THEN 2 ELSE 1)

VARIABLES
  mode,         \* "clone", "fork" or "CloneAll"
  setting, source,
  credentials,  \* key -> what cfg holds for it
  info,         \* what GetProviderForSource returned
  step,         \* how far the run is
  outcome       \* how it ended

commandVars == <<mode, setting, source, credentials, info, step, outcome>>
allVars == <<commandVars, listVars, cvars>>
-----------------------------------------------------------------------------
NoInfo == Info("none", NoHost, Blank)
NoCredentials == [k \in Keys |-> Unset]
Outcomes == {"none", "failed", "panic", "empty", "dry run", "fork", "cloned"}

CommandTypeOK ==
  /\ mode \in {"clone", "fork", "CloneAll"}
  /\ setting \in Settings \cup {NoSetting} /\ source \in Sources \cup {NoSource}
  /\ credentials \in [Keys -> Values]
  /\ info.provider \in {"none", "github", "gitlab", "gerrit"}
  /\ step \in {"load", "resolve", "resolved", "list", "wait", "end"}
  /\ outcome \in Outcomes /\ (step = "end" <=> outcome # "none")
  /\ ListTypeOK /\ ClockTypeOK
  /\ step # "wait" => ~Watched
  /\ step \in {"load", "resolve", "resolved"} => stage = "off"

CommandInit ==
  /\ mode \in {"clone", "fork", "CloneAll"}
  /\ setting \in (IF mode = "CloneAll" THEN {NoSetting} ELSE Settings) /\ source \in Sources
  /\ credentials = NoCredentials /\ info = NoInfo
  /\ step = (IF mode = "CloneAll" THEN "resolve" ELSE "load") /\ outcome = "none"
  /\ ListInit /\ ClockInit

End(how) == step' = "end" /\ outcome' = how

\* A file that cannot be parsed ends runRegularClone; fork mode prints a warning and goes on
\* with the lines before.
Load ==
  /\ step = "load"
  /\ LET loaded == Loaded(FileToLoad(setting.named, setting.usual)) IN
     CASE loaded.outcome = "panic" -> End("panic") /\ UNCHANGED credentials
       [] loaded.outcome = "error" /\ mode = "clone" -> End("failed") /\ UNCHANGED credentials
       [] OTHER ->
          /\ credentials' = [k \in Keys |-> Credential(setting.flags, setting.env, loaded, k)]
          /\ step' = "resolve" /\ UNCHANGED outcome
  /\ UNCHANGED <<mode, setting, source, info, listVars, cvars>>

\* CloneAll is given its provider by whoever made the manager.
ResolveSource ==
  /\ step = "resolve"
  /\ IF Resolutions(source) = {} THEN End("failed") /\ UNCHANGED info
     ELSE info' \in Resolutions(source) /\ step' = "resolved" /\ UNCHANGED outcome
  /\ UNCHANGED <<mode, setting, source, credentials, listVars, cvars>>

\* SSH is usable with a user name, if there is a key or an agent.
StartListing ==
  /\ step = "resolved"
  /\ \E usable \in {FALSE, credentials[GerritUser] # Unset} :
       BeginListing(info.provider, usable, mode = "CloneAll")
  /\ step' = "list" /\ setting' = NoSetting /\ source' = NoSource
  /\ credentials' = NoCredentials /\ info' = NoInfo
  /\ UNCHANGED <<mode, outcome, cvars>>

List == step = "list" /\ ListingNext /\ UNCHANGED <<commandVars, cvars>>

ListingFailed ==
  /\ step = "list" /\ stage = "failed" /\ ~(waits /\ MayWait)
  /\ End("failed")
  /\ UNCHANGED <<mode, setting, source, credentials, info, listVars, cvars>>

\* Nothing to clone, or a dry run, or the rest is fork mode's.  CloneAll waits for no jobs.
ListingEnds ==
  /\ step = "list" /\ stage = "listed" /\ mode # "CloneAll"
  /\ \/ got = <<>> /\ End("empty")
     \/ got # <<>> /\ (End("dry run") \/ (mode = "fork" /\ End("fork")))
  /\ UNCHANGED <<mode, setting, source, credentials, info, listVars, cvars>>

\* --max-repos takes the first ones; filterRepositories drops the archived ones; a job may
\* be refused by the pool.
Submitted(chosen) == {k \in DOMAIN chosen : chosen[k] \notin Archived}

ForgetListing ==
  /\ mode' = "clone" /\ holder' = "nobody" /\ held' = <<>> /\ stage' = "off" /\ lister' = "none"
  /\ login' = FALSE /\ waits' = FALSE /\ page' = 1 /\ got' = <<>> /\ err' = "none"
  /\ again' = FALSE /\ before' = {} /\ changed' = [made |-> 0, deleted |-> 0]

SubmitJobs ==
  /\ step = "list" /\ stage = "listed" /\ mode # "fork" /\ (mode = "clone" => got # <<>>)
  /\ \E k \in (IF mode = "clone" THEN 1..Len(got) ELSE {Len(got)}) :
       \E n \in 0..Cardinality(Submitted(SubSeq(got, 1, k))) :
         n <= MaxJobs /\ BeginSubmission(1..n)
  /\ ForgetListing
  /\ step' = "wait" /\ UNCHANGED <<setting, source, credentials, info, outcome>>

WaitStep(A) == step = "wait" /\ A /\ UNCHANGED <<commandVars, listVars>>
Wait == \/ \E j \in Jobs : WaitStep(JobStep(j))
        \/ WaitStep(Elapse) \/ WaitStep(Paused) \/ WaitStep(Monitor) \/ WaitStep(DeadlineEnds)

WaitIsOver ==
  /\ step = "wait" /\ monitor \in Returned
  /\ End("cloned")
  /\ UNCHANGED <<mode, setting, source, credentials, info, listVars, cvars>>

CommandNext ==
  \/ Load \/ ResolveSource \/ StartListing \/ List \/ ListingFailed \/ ListingEnds
  \/ SubmitJobs \/ Wait \/ WaitIsOver

\* The program goes on while it can; requests and git commands end, timers fire, and the
\* ticker ticks.  Nothing is assumed of the deadline, and nothing of the other users.
CommandFairness ==
  /\ WF_allVars(Load \/ ResolveSource \/ StartListing)
  /\ WF_allVars(step = "list" /\ ListingStep /\ UNCHANGED <<commandVars, cvars>>)
  /\ WF_allVars(ListingFailed \/ ListingEnds \/ SubmitJobs \/ WaitIsOver)
  /\ \A j \in Jobs : WF_allVars(WaitStep(JobStep(j)))
  /\ WF_allVars(WaitStep(Elapse)) /\ WF_allVars(WaitStep(Monitor))

CommandSpec == CommandInit /\ [][CommandNext]_allVars /\ CommandFairness
-----------------------------------------------------------------------------
(***************************************************************************)
(* Properties.                                                             *)
(***************************************************************************)

\* The line of a file that counts for a key: the last that sets it, before any that cannot
\* be read.
Counts(lines, n, key) ==
  /\ lines[n].kind = "set" /\ lines[n].key = key
  /\ \A m \in 1..n : lines[m].kind \in {"skip", "set"}
InFile(lines, key) ==
  LET those == {n \in DOMAIN lines : Counts(lines, n, key)} IN
  IF those = {} THEN Unset
  ELSE lines[CHOOSE n \in those : \A m \in those : m <= n].value

\* "Priority order for credentials": the flag, the environment variable, the file -- the
\* first that is not empty, and in a file the last line for the key.  That is README.md's
\* order and GetCredential's; the comment in runRegularClone names "flags, credentials file,
\* or environment (in that order)", which the code does not follow.
CredentialPrecedence ==
  step = "resolve" /\ mode # "CloneAll" =>
    LET file == FileToLoad(setting.named, setting.usual)
        given(k) == <<setting.flags[k], setting.env[k],
                      IF file.exists THEN InFile(file.lines, k) ELSE Unset>>
    IN \A k \in Keys :
         \/ credentials[k] = Unset /\ given(k) = <<Unset, Unset, Unset>>
         \/ \E n \in 1..3 : /\ credentials[k] = given(k)[n] /\ given(k)[n] # Unset
                            /\ \A m \in 1..(n - 1) : given(k)[m] = Unset

\* A source that names github.com, gitlab.com or a Gerrit server, and no other service, is
\* asked there, whatever the order in which the map of providers is walked.
SourceIsUnderstood == step = "resolved" => NamedServiceIsUsed(source, info)

\* A CloneAll that ends with a rate limit has waited for one exactly when the provider is
\* GitHub.  GitLab and Gerrit put the limit into another error, IsRateLimitError asserts a
\* type and does not look inside, and so their limits are never waited for: "The tool
\* automatically detects and handles rate limits" holds for one provider of three.
OnlyGitHubIsWaitedFor ==
  /\ again => lister = "github"
  /\ step = "end" /\ waits /\ stage = "failed" /\ err \in {"rate", "wrapped"} =>
       (again <=> lister = "github")

\* A run comes to its end without the deadline -- no chain of fallbacks, pages or retries
\* goes on for ever -- unless its batch does not fit into the pool's queue, which
\* waitForQueueSpace then waits for, or a retry has found the queue full and was dropped,
\* and waitForCompletion waits for that job.
NeedsDeadline == BatchSize > QueueSize \/ \E j \in Jobs : jobAt[j] = "dropped"
RunComesToAnEnd == <>(step = "end" \/ NeedsDeadline)
===============================================================================
