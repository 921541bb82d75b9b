--------------------------- MODULE CloneCommandProofs ---------------------------
(***************************************************************************)
(* Theorems about CloneCommand.  The run of the program takes the steps of *)
(* CompletionMonitor while it waits and those of ProviderListing while it  *)
(* lists, and leaves their states alone otherwise, so what holds of the    *)
(* wait and of the listing holds of the run.  What a source is resolved to *)
(* is a fact about the parsers, for any source of the three forms, and     *)
(* what the credentials are is one about files, by induction over lines.   *)
(***************************************************************************)
EXTENDS CloneCommand, CompletionMonitorProofs, ProviderListingProofs

LEMMA StepIsClockStep == [CommandNext]_allVars => [ClockNext]_cvars
<1> SUFFICES ASSUME [CommandNext]_allVars PROVE [ClockNext]_cvars
  OBVIOUS
<1>1. CASE Load
  BY <1>1 DEF Load
<1>2. CASE ResolveSource
  BY <1>2 DEF ResolveSource
<1>3. CASE StartListing
  BY <1>3 DEF StartListing
<1>4. CASE List
  BY <1>4 DEF List
<1>5. CASE ListingFailed \/ ListingEnds \/ WaitIsOver
  BY <1>5 DEF ListingFailed, ListingEnds, WaitIsOver
<1>6. CASE SubmitJobs
  <2>1. PICK chosen : \E n \in 0..Cardinality(Submitted(chosen)) :
                        n <= MaxJobs /\ BeginSubmission(1..n)
    BY <1>6 DEF SubmitJobs
  <2>2. PICK n \in 0..Cardinality(Submitted(chosen)) : n <= MaxJobs /\ BeginSubmission(1..n)
    BY <2>1
  <2>3. n \in 0..MaxJobs
    BY <2>2, RetriesAssumption
  <2> QED BY <2>2, <2>3 DEF ClockNext
<1>7. CASE Wait
  BY <1>7 DEF Wait, WaitStep, ClockNext
<1>8. CASE UNCHANGED allVars
  BY <1>8 DEF allVars
<1> QED BY <1>1, <1>2, <1>3, <1>4, <1>5, <1>6, <1>7, <1>8 DEF CommandNext

\* Every run of the program is, for its jobs and its clocks, a behaviour of CompletionMonitor.
THEOREM RunsAreWaits == CommandSpec => ClockInit /\ [][ClockNext]_cvars
<1>1. CommandInit => ClockInit
  BY DEF CommandInit
<1> QED BY <1>1, StepIsClockStep, PTL DEF CommandSpec

\* A run that says all jobs are completed has completed or failed every one of them, once.
THEOREM RunCountsOnce == CommandSpec => []CountedOnce
<1>1. CountInv => CountedOnce
  BY DEF CountInv
<1> QED BY RunsAreWaits, InitNone, StepNone, InitCounts, StepCounts, <1>1, PTL

\* A run never gives up on jobs that work or wait for their retries, unless it stood still.
THEOREM RunKeepsWaiting == CommandSpec => KeepsWaiting
<1>1. StallClock /\ [ClockNext]_cvars =>
        [monitor = "waiting" /\ monitor' \in {"no active jobs", "killing"} => slept]_cvars
  BY StepWaits
<1> QED BY RunsAreWaits, InitStall, StepStall, <1>1, PTL DEF KeepsWaiting

\* A run retries a job that has met a rate limit after the configured delay, unless another
\* clone has succeeded since.
THEOREM RunHeedsRateLimit == CommandSpec => RateLimitIsHeeded
<1>1. CountInv /\ FlagInv /\ DelayInv /\ [ClockNext]_cvars =>
        [\A j \in Jobs : j \in hit /\ jobAt[j] = "error" /\ jobAt'[j] = "timer" =>
            delay'[j] = RateLimitDelay]_cvars
  BY StepHeeds
<1> QED BY RunsAreWaits, InitNone, StepNone, InitCounts, StepCounts, InitFlag, StepFlag,
           InitDelay, StepDelay, <1>1, PTL DEF RateLimitIsHeeded

\* As main.go configures it, with no cap and no delay for rate limits, a run retries without
\* any delay, whatever its --retry-delay.
THEOREM RunNeverWaits ==
  MaxRetryDelay = 0 /\ RateLimitDelay = 0 => (CommandSpec => [](\A j \in Jobs : delay[j] = 0))
<1> SUFFICES ASSUME MaxRetryDelay = 0, RateLimitDelay = 0
             PROVE  CommandSpec => [](\A j \in Jobs : delay[j] = 0)
  OBVIOUS
<1>1. ClockInv => \A j \in Jobs : delay[j] = 0
  BY DEF ClockInv, TimerInv, Delays
<1> QED BY RunsAreWaits, InitClock, StepClock, <1>1, PTL
-----------------------------------------------------------------------------
(***************************************************************************)
(* Sources.                                                                *)
(***************************************************************************)
\* Whichever parser takes a source, the provider is one of the three.
LEMMA ResolvedProvider ==
  ASSUME NEW s, NEW i \in Resolutions(s) PROVE i.provider \in {"github", "gitlab", "gerrit"}
<1>1. \A j \in ParseGitHub(s) : j.provider = "github"
  BY DEF ParseGitHub, ServiceURL, Info
<1>2. \A j \in ParseGitLab(s) : j.provider = "gitlab"
  BY DEF ParseGitLab, ServiceURL, Info
<1>3. \A j \in ParseGeneric(s) : \E p, h, o : j = Info(p, h, o)
  BY DEF ParseGeneric
<1>4. ASSUME NEW j \in ParseGeneric(s) PROVE [j EXCEPT !.provider = "gerrit"].provider = "gerrit"
  <2>1. PICK p, h, o : j = Info(p, h, o)
    BY <1>3
  <2> QED BY <2>1 DEF Info
<1>5. CASE Registered(s) # {}
  BY <1>1, <1>2, <1>5 DEF Resolutions, Registered
<1>6. CASE Registered(s) = {}
  <2>1. Resolutions(s) = {[j EXCEPT !.provider = "gerrit"] :
                            j \in {j \in ParseGeneric(s) : j.provider \in {"gerrit", "none"}}}
    BY <1>6 DEF Resolutions
  <2>2. PICK j \in ParseGeneric(s) : i = [j EXCEPT !.provider = "gerrit"]
    BY <2>1
  <2> QED BY <1>4, <2>2
<1> QED BY <1>5, <1>6

\* A source that names a service by its host and no other service has one resolution.
LEMMA NamedService ==
  ASSUME NEW s \in Sources, NEW i \in Resolutions(s) PROVE NamedServiceIsUsed(s, i)
<1> DEFINE host == s.parts[1]
           org == s.parts[2]
<1> SUFFICES ASSUME NamedHost(s), Size(s) > 1, org # Blank,
                    \/ host = GitHubCom /\ OnlyService(s, "github")
                    \/ host = GitLabCom /\ OnlyService(s, "gitlab")
                    \/ "gerrit" \in Says[host] /\ OnlyService(s, "gerrit")
             PROVE  i = Info(ServiceAt(host), host, org)
  BY DEF NamedServiceIsUsed
<1>1. /\ s.form \in {"url", "scp", "plain"} /\ s.parts \in Seq(Words) /\ Len(s.parts) > 1
      /\ 1 \in DOMAIN s.parts /\ host \in Words /\ host \in Dotted /\ OrgOf(s) = org
      /\ host \in InFirst(s)
  BY SourcesAssumption DEF Size, NamedHost, OrgOf, InFirst
<1>2. \A name : name \in Says[host] => Mentions(s, name)
  BY <1>1 DEF Mentions
<1>3. ~SingleName(s)
  BY <1>1 DEF SingleName
<1>4. ASSUME ~Mentions(s, "gitlab") PROVE ParseGitLab(s) = {}
  BY <1>1, <1>3, <1>4 DEF ParseGitLab
<1>5. ASSUME ~Mentions(s, "github"), {"gitlab", "gerrit"} \cap Says[host] # {}
      PROVE  ParseGitHub(s) = {}
  <2>1. ~Mentions(s, "github.com")
    BY <1>1, <1>5, WordsAssumption DEF Mentions
  <2>2. ~OrgRepo(s)
    BY <1>1, <1>5 DEF OrgRepo
  <2> QED BY <1>3, <2>1, <2>2 DEF ParseGitHub
<1>6. ASSUME NEW provider, NEW wellKnown, NEW scp, host = wellKnown, scp
      PROVE  ServiceURL(s, provider, wellKnown, scp) = {Info(provider, host, org)}
  BY <1>1, <1>6 DEF ServiceURL, Plain, Size
<1>7. CASE host = GitHubCom /\ OnlyService(s, "github")
  <2>1. Mentions(s, "github.com") /\ ~Mentions(s, "gitlab") /\ ServiceAt(host) = "github"
    BY <1>2, <1>7, WordsAssumption DEF OnlyService, ServiceAt
  <2>2. ServiceURL(s, "github", GitHubCom, s.parts[1] = GitHubCom) = {Info("github", host, org)}
    BY <1>6, <1>7
  <2>3. ParseGitHub(s) = {Info("github", host, org)}
    BY <2>1, <2>2 DEF ParseGitHub
  <2> QED BY <1>4, <2>1, <2>3 DEF Resolutions, Registered
<1>8. CASE host = GitLabCom /\ OnlyService(s, "gitlab")
  <2>1. Mentions(s, "gitlab") /\ ~Mentions(s, "github") /\ ServiceAt(host) = "gitlab"
        /\ "gitlab" \in Says[host]
    BY <1>2, <1>8, WordsAssumption DEF OnlyService, ServiceAt
  <2>2. ServiceURL(s, "gitlab", GitLabCom, TRUE) = {Info("gitlab", host, org)}
    BY <1>6, <1>8
  <2>3. ParseGitLab(s) = {Info("gitlab", host, org)}
    BY <2>1, <2>2 DEF ParseGitLab
  <2> QED BY <1>5, <2>1, <2>3 DEF Resolutions, Registered
<1>9. CASE "gerrit" \in Says[host] /\ OnlyService(s, "gerrit")
  <2>1. ~Mentions(s, "gitlab") /\ ~Mentions(s, "github")
    BY <1>9 DEF OnlyService
  <2>2. ServiceAt(host) = "gerrit" /\ KnownHost(host)
    BY <1>2, <1>9, <2>1 DEF ServiceAt, KnownHost
  <2>3. Registered(s) = {}
    BY <1>4, <1>5, <1>9, <2>1 DEF Registered
  <2>4. ParseGeneric(s) = {Info(IF Plain(s) THEN "none" ELSE "gerrit", host, org)}
    <3>1. CASE Plain(s)
      BY <1>1, <2>2, <3>1 DEF ParseGeneric, Size
    <3>2. CASE ~Plain(s)
      BY <1>1, <2>2, <3>2 DEF ParseGeneric, Size
    <3> QED BY <3>1, <3>2
  <2>5. \A p : [Info(p, host, org) EXCEPT !.provider = "gerrit"] = Info("gerrit", host, org)
    BY DEF Info
  <2> QED BY <2>2, <2>3, <2>4, <2>5 DEF Resolutions
<1> QED BY <1>7, <1>8, <1>9
-----------------------------------------------------------------------------
(***************************************************************************)
(* The run and its listing.                                                *)
(***************************************************************************)
\* Until it lists, the run has its source and has asked nobody; while it waits for its
\* jobs the listing is forgotten.
RunInv ==
  /\ ListInv
  /\ step \in {"load", "resolve", "resolved"} => source \in Sources
  /\ step \in {"load", "resolve", "resolved", "wait"} => stage = "off"
  /\ step = "resolved" => info \in Resolutions(source)
  /\ OnlyGitHubIsWaitedFor

LEMMA InitRun == CommandInit => RunInv
<1> SUFFICES ASSUME CommandInit PROVE RunInv
  OBVIOUS
<1>1. ListInit /\ source \in Sources /\ step \in {"load", "resolve"} /\ stage = "off" /\ ~again
  BY DEF CommandInit, ListInit
<1> QED BY <1>1, InitListing DEF RunInv, OnlyGitHubIsWaitedFor

LEMMA Unlisted == ASSUME ListInv, UNCHANGED listVars PROVE ListInv'
<1>1. UNCHANGED <<holder, held, stage, lister, login, waits, page, got, err, again, before, changed>>
  BY DEF listVars
<1>2. ListTypeOK' /\ KeptInv' /\ ErrorInv' /\ OffInv'
  BY <1>1 DEF ListInv, ListTypeOK, KeptInv, ErrorInv, OffInv
<1>3. PagingInv'
  <2>1. Read' = Read /\ Unread' = Unread
    BY <1>1 DEF Read, Unread
  <2> QED BY <1>1, <2>1 DEF ListInv, PagingInv
<1>4. ListingIsComplete' /\ ListedOnce'
  <2>1. Wanted' = Wanted /\ Truncated' = Truncated
    BY <1>1 DEF Wanted, Truncated
  <2> QED BY <1>1, <2>1 DEF ListInv, ListingIsComplete, ListedOnce
<1> QED BY <1>2, <1>3, <1>4 DEF ListInv

LEMMA Forgets == ASSUME ForgetListing PROVE ListInv'
<1>1. <<>> \in Seq(Repos) /\ IsInjective(<<>>) /\ 0 \in 0..MaxChanges
  BY PagesAssumption DEF IsInjective
<1>2. ListTypeOK'
  <2>1. held' \in Seq(Repos) /\ IsInjective(held') /\ got' \in Seq(Repos)
    BY <1>1 DEF ForgetListing
  <2>2. changed' \in [made : 0..MaxChanges, deleted : 0..MaxChanges]
    BY <1>1 DEF ForgetListing
  <2>3. /\ holder' = "nobody" /\ stage' = "off" /\ lister' = "none" /\ login' = FALSE
        /\ waits' = FALSE /\ again' = FALSE /\ page' = 1 /\ err' = "none" /\ before' = {}
    BY DEF ForgetListing
  <2>4. 1 \in Nat \ {0} /\ 1 <= MaxPages
    BY PagesAssumption
  <2> QED BY <2>1, <2>2, <2>3, <2>4 DEF ListTypeOK, Stages, Errors
<1> QED BY <1>2 DEF ForgetListing, ListInv, PagingInv, KeptInv, ErrorInv, OffInv, ListingIsComplete,
                    ListedOnce

LEMMA StepRun == RunInv /\ [CommandNext]_allVars => RunInv'
<1> SUFFICES ASSUME RunInv, [CommandNext]_allVars PROVE RunInv'
  OBVIOUS
<1>0. ListInv
  BY DEF RunInv
<1>1. CASE Load
  <2>1. step = "load" /\ UNCHANGED <<source, listVars>> /\ step' \in {"end", "resolve"}
    BY <1>1 DEF Load, End
  <2> QED BY <1>0, <2>1, Unlisted DEF RunInv, OnlyGitHubIsWaitedFor, listVars
<1>2. CASE ResolveSource
  <2>1. /\ step = "resolve" /\ UNCHANGED <<source, listVars>>
        /\ step' = "end" \/ (step' = "resolved" /\ info' \in Resolutions(source))
    BY <1>2 DEF ResolveSource, End
  <2> QED BY <1>0, <2>1, Unlisted DEF RunInv, OnlyGitHubIsWaitedFor, listVars
<1>3. CASE StartListing
  <2>1. PICK usable \in {FALSE, credentials[GerritUser] # Unset} :
          BeginListing(info.provider, usable, mode = "CloneAll")
    BY <1>3 DEF StartListing
  <2>2. step = "resolved" /\ step' = "list" /\ info.provider \in {"github", "gitlab", "gerrit"}
    BY <1>3, ResolvedProvider DEF StartListing, RunInv
  <2>3. ListInv'
    BY <1>0, <2>1, <2>2, BeginInv
  <2> QED BY <2>2, <2>3 DEF RunInv, OnlyGitHubIsWaitedFor, ListInv, ErrorInv
<1>4. CASE List
  <2>1. ListInv' /\ step = "list" /\ step' = "list"
    BY <1>0, <1>4, StepListing DEF List, commandVars
  <2> QED BY <2>1 DEF RunInv, OnlyGitHubIsWaitedFor, ListInv, ErrorInv
<1>5. CASE ListingFailed
  <2>1. /\ UNCHANGED listVars /\ step' = "end" /\ stage = "failed"
        /\ ~(waits /\ err = "rate" /\ ~again)
        /\ err = "wrapped" => lister \in {"gitlab", "gerrit"}
        /\ again \/ err = "rate" => lister = "github"
    BY <1>0, <1>5 DEF ListingFailed, End, MayWait, IsRateLimitError, ListInv, ErrorInv
  <2>2. OnlyGitHubIsWaitedFor'
    BY <2>1 DEF OnlyGitHubIsWaitedFor, listVars
  <2> QED BY <1>0, <2>1, <2>2, Unlisted DEF RunInv
<1>6. CASE ListingEnds \/ WaitIsOver
  <2>1. UNCHANGED listVars /\ step' = "end" /\ stage \in {"listed", "off"}
    BY <1>6 DEF ListingEnds, WaitIsOver, End, RunInv
  <2> QED BY <1>0, <2>1, Unlisted DEF RunInv, OnlyGitHubIsWaitedFor, listVars
<1>7. CASE SubmitJobs
  <2>1. step' = "wait" /\ ListInv' /\ stage' = "off"
    BY <1>7, Forgets DEF SubmitJobs, ForgetListing
  <2> QED BY <2>1 DEF RunInv, OnlyGitHubIsWaitedFor, ListInv, ErrorInv
<1>8. CASE Wait \/ UNCHANGED allVars
  <2>1. UNCHANGED <<commandVars, listVars>>
    BY <1>8 DEF Wait, WaitStep, allVars
  <2> QED BY <1>0, <2>1, Unlisted DEF RunInv, OnlyGitHubIsWaitedFor, listVars, commandVars
<1> QED BY <1>1, <1>2, <1>3, <1>4, <1>5, <1>6, <1>7, <1>8 DEF CommandNext

\* A listing that a run goes on with has every repository that was held when it began and
\* still is, whether the name is an organisation's or a user's, and however many failures,
\* fallbacks and waits come before it -- but for the three lists that are short: GitHub's
\* and GitLab's if something was deleted between two pages, GitLab's at its last page, and
\* Gerrit's of what an anonymous request sees and what begins with the organisation's name.
THEOREM RunListsAll == CommandSpec => []ListingIsComplete
<1>1. RunInv => ListingIsComplete
  BY DEF RunInv, ListInv
<1> QED BY InitRun, StepRun, <1>1, PTL DEF CommandSpec

\* A run lists no repository twice unless new ones came in between two pages.
THEOREM RunListsOnce == CommandSpec => []ListedOnce
<1>1. RunInv => ListedOnce
  BY DEF RunInv, ListInv
<1> QED BY InitRun, StepRun, <1>1, PTL DEF CommandSpec

\* A CloneAll that ends with a rate limit has waited for one if and only if it has asked
\* GitHub: no run ever waits for GitLab's or Gerrit's.
THEOREM OnlyGitHubWaits == CommandSpec => []OnlyGitHubIsWaitedFor
<1>1. RunInv => OnlyGitHubIsWaitedFor
  BY DEF RunInv
<1> QED BY InitRun, StepRun, <1>1, PTL DEF CommandSpec

\* A run asks the service that its source names, for any source and whatever the order in
\* which the registered providers are tried.
THEOREM SourceUnderstood == CommandSpec => []SourceIsUnderstood
<1>1. RunInv => SourceIsUnderstood
  BY NamedService DEF RunInv, SourceIsUnderstood
<1> QED BY InitRun, StepRun, <1>1, PTL DEF CommandSpec
-----------------------------------------------------------------------------
(***************************************************************************)
(* Credentials.                                                            *)
(***************************************************************************)
Reading == [outcome : {"ok", "error", "panic"}, of : [Keys -> Values]]

\* How the lines are read: read[n] is what LoadCredentials has after n of them.
IsRead(lines, read) ==
  read = [n \in 0..Len(lines) |-> IF n = 0 THEN Begun ELSE ReadLine(read[n - 1], lines[n])]

LEMMA ReadLineType ==
  ASSUME NEW r \in Reading, NEW line \in Line
  PROVE  /\ ReadLine(r, line) \in Reading
         /\ (r.outcome # "ok" \/ line.kind = "skip") => ReadLine(r, line) = r
         /\ r.outcome = "ok" /\ line.kind = "set" =>
              /\ line.key \in Keys /\ line.value \in Values
              /\ ReadLine(r, line) = [r EXCEPT !.of = [r.of EXCEPT ![line.key] = line.value]]
         /\ r.outcome = "ok" /\ line.kind \notin {"skip", "set"} =>
              ReadLine(r, line).outcome # "ok" /\ ReadLine(r, line).of = r.of
<1>1. CASE r.outcome # "ok" \/ line.kind = "skip"
  BY <1>1 DEF ReadLine
<1>2. CASE r.outcome = "ok" /\ line.kind = "set"
  <2>1. line.key \in Keys /\ line.value \in Values
    BY <1>2 DEF Line
  <2>2. ReadLine(r, line) = [r EXCEPT !.of = [r.of EXCEPT ![line.key] = line.value]]
    BY <1>2 DEF ReadLine, SetValue
  <2>3. [r.of EXCEPT ![line.key] = line.value] \in [Keys -> Values]
    BY <2>1 DEF Reading
  <2> QED BY <1>2, <2>1, <2>2, <2>3 DEF Reading
<1>3. CASE r.outcome = "ok" /\ line.kind \notin {"skip", "set"}
  <2>1. line.kind = "unclosed" \/ line.kind = "noValue"
    BY <1>3 DEF Line
  <2>2. ReadLine(r, line) \in {[r EXCEPT !.outcome = "panic"], [r EXCEPT !.outcome = "error"]}
    BY <1>3, <2>1 DEF ReadLine
  <2> QED BY <1>3, <2>2 DEF Reading
<1> QED BY <1>1, <1>2, <1>3

LEMMA BegunType == Begun \in Reading
BY UnsetAssumption DEF Begun, Reading

\* LoadCredentials is the end of such a reading.
LEMMA ReadingExists ==
  ASSUME NEW lines \in Seq(Line)
  PROVE  \E read \in [0..Len(lines) -> Reading] :
           IsRead(lines, read) /\ LoadCredentials(lines) = read[Len(lines)]
<1>0. Len(lines) \in Nat /\ \A n \in 1..Len(lines) : lines[n] \in Line
  OBVIOUS
<1>1. PICK F : F = [n \in 1..Len(lines) |-> [r \in Reading |-> ReadLine(r, lines[n])]]
  OBVIOUS
<1>2. F \in [1..Len(lines) -> [Reading -> Reading]]
  BY <1>0, <1>1, ReadLineType
<1>3. PICK g \in [0..Len(lines) -> Reading] : Repeated(Len(lines), Begun, F, g)
  BY <1>0, <1>2, BegunType, Recursion
<1>4. IsRead(lines, g)
  <2>1. ASSUME NEW n \in 0..Len(lines), n # 0 PROVE F[n][g[n - 1]] = ReadLine(g[n - 1], lines[n])
    <3>1. n \in 1..Len(lines) /\ n - 1 \in 0..Len(lines)
      BY <1>0, <2>1
    <3>2. g[n - 1] \in Reading
      BY <3>1
    <3> QED BY <1>1, <3>1, <3>2
  <2> QED BY <1>3, <2>1 DEF Repeated, IsRead
<1>5. PICK read : read = CHOOSE r : IsRead(lines, r)
  OBVIOUS
<1>6. IsRead(lines, read)
  BY <1>4, <1>5
<1>7. LoadCredentials(lines) = read[Len(lines)]
  BY <1>5, Zenon DEF LoadCredentials, IsRead
<1>8. \A n \in Nat : n <= Len(lines) => read[n] \in Reading
  <2> DEFINE T == {n \in Nat : n <= Len(lines) => read[n] \in Reading}
  <2>1. 0 \in T
    BY <1>0, <1>6, BegunType DEF IsRead
  <2>2. ASSUME NEW n \in T PROVE n + 1 \in T
    <3> SUFFICES ASSUME n + 1 <= Len(lines) PROVE read[n + 1] \in Reading
      OBVIOUS
    <3>1. read[n] \in Reading /\ n + 1 \in 1..Len(lines) /\ n + 1 # 0 /\ (n + 1) - 1 = n
      BY <1>0
    <3>2. read[n + 1] = ReadLine(read[n], lines[n + 1])
      BY <1>0, <1>6, <3>1 DEF IsRead
    <3> QED BY <1>0, <3>1, <3>2, ReadLineType
  <2>3. T = Nat
    <3> HIDE DEF T
    <3>1. T \in SUBSET Nat
      BY DEF T
    <3> QED BY <2>1, <2>2, <3>1, Induction
  <2> QED BY <2>3
<1>9. read \in [0..Len(lines) -> Reading]
  BY <1>0, <1>6, <1>8 DEF IsRead
<1> QED BY <1>6, <1>7, <1>9

\* What has been read after n lines: all is well while each could be read, and a key has the
\* value of the last line that sets it.
ReadSoFar(lines, n, r) ==
  /\ r.outcome = "ok" <=> \A m \in 1..n : lines[m].kind \in {"skip", "set"}
  /\ \A k \in Keys :
       \/ r.of[k] = Unset /\ \A m \in 1..n : ~Counts(lines, m, k)
       \/ \E m \in 1..n : /\ Counts(lines, m, k) /\ r.of[k] = lines[m].value
                          /\ \A l \in 1..n : Counts(lines, l, k) => l <= m

LEMMA ReadNext ==
  ASSUME NEW lines \in Seq(Line), NEW n \in 0..Len(lines), n + 1 <= Len(lines),
         NEW r \in Reading, ReadSoFar(lines, n, r)
  PROVE  ReadSoFar(lines, n + 1, ReadLine(r, lines[n + 1]))
<1> DEFINE line == lines[n + 1]
           next == ReadLine(r, line)
<1>0. /\ n \in Nat /\ n + 1 \in 1..(n + 1) /\ n + 1 \in 1..Len(lines) /\ line \in Line
      /\ 1..n \subseteq 1..(n + 1) /\ \A m \in 1..(n + 1) : m \in 1..n \/ m = n + 1
      /\ \A m \in 1..n : m <= n + 1
  OBVIOUS
<1>1. r.outcome = "ok" <=> \A m \in 1..n : lines[m].kind \in {"skip", "set"}
  BY DEF ReadSoFar
<1>2. \A k : Counts(lines, n + 1, k) <=> line.kind = "set" /\ line.key = k /\ r.outcome = "ok"
  <2>1. ASSUME NEW k, line.kind = "set"
        PROVE  (\A m \in 1..(n + 1) : lines[m].kind \in {"skip", "set"}) <=> r.outcome = "ok"
    BY <1>0, <1>1, <2>1
  <2> QED BY <2>1 DEF Counts
<1>3. CASE r.outcome # "ok" \/ line.kind = "skip"
  <2>1. next = r
    BY <1>0, <1>3, ReadLineType
  <2>2. \A k : ~Counts(lines, n + 1, k)
    BY <1>2, <1>3
  <2>3. r.outcome = "ok" <=> \A m \in 1..(n + 1) : lines[m].kind \in {"skip", "set"}
    BY <1>0, <1>1, <1>3
  <2>4. ASSUME NEW k \in Keys
        PROVE  \/ r.of[k] = Unset /\ \A m \in 1..(n + 1) : ~Counts(lines, m, k)
               \/ \E m \in 1..(n + 1) : /\ Counts(lines, m, k) /\ r.of[k] = lines[m].value
                                        /\ \A l \in 1..(n + 1) : Counts(lines, l, k) => l <= m
    <3> HIDE DEF line, next
    <3>1. CASE r.of[k] = Unset /\ \A m \in 1..n : ~Counts(lines, m, k)
      BY <1>0, <2>2, <3>1
    <3>2. CASE \E m \in 1..n : /\ Counts(lines, m, k) /\ r.of[k] = lines[m].value
                               /\ \A l \in 1..n : Counts(lines, l, k) => l <= m
      BY <1>0, <2>2, <3>2
    <3> QED BY <3>1, <3>2 DEF ReadSoFar
  <2> QED BY <2>1, <2>3, <2>4 DEF ReadSoFar
<1>4. CASE r.outcome = "ok" /\ line.kind = "set"
  <2>1. /\ line.key \in Keys
        /\ next = [r EXCEPT !.of = [r.of EXCEPT ![line.key] = line.value]]
    BY <1>0, <1>4, ReadLineType
  <2>2. next.outcome = "ok" /\ \A m \in 1..(n + 1) : lines[m].kind \in {"skip", "set"}
    BY <1>0, <1>1, <1>4, <2>1 DEF Reading
  <2>3. ASSUME NEW k \in Keys
        PROVE  \/ next.of[k] = Unset /\ \A m \in 1..(n + 1) : ~Counts(lines, m, k)
               \/ \E m \in 1..(n + 1) : /\ Counts(lines, m, k) /\ next.of[k] = lines[m].value
                                        /\ \A l \in 1..(n + 1) : Counts(lines, l, k) => l <= m
    <3>1. CASE k = line.key
      <4>1. next.of[k] = lines[n + 1].value
        BY <2>1, <3>1 DEF Reading
      <4>2. Counts(lines, n + 1, k)
        BY <1>2, <1>4, <3>1
      <4>3. \A l \in 1..(n + 1) : l <= n + 1
        BY <1>0
      <4> QED BY <1>0, <4>1, <4>2, <4>3
    <3>2. CASE k # line.key
      <4>1. next.of[k] = r.of[k] /\ ~Counts(lines, n + 1, k)
        BY <1>2, <2>1, <3>2 DEF Reading
      <4> HIDE DEF line, next
      <4>2. CASE r.of[k] = Unset /\ \A m \in 1..n : ~Counts(lines, m, k)
        BY <1>0, <4>1, <4>2
      <4>3. CASE \E m \in 1..n : /\ Counts(lines, m, k) /\ r.of[k] = lines[m].value
                                 /\ \A l \in 1..n : Counts(lines, l, k) => l <= m
        BY <1>0, <4>1, <4>3
      <4> QED BY <4>2, <4>3 DEF ReadSoFar
    <3> QED BY <3>1, <3>2
  <2> QED BY <2>2, <2>3 DEF ReadSoFar
<1>5. CASE r.outcome = "ok" /\ line.kind \notin {"skip", "set"}
  <2>1. next.outcome # "ok" /\ next.of = r.of
    BY <1>0, <1>5, ReadLineType
  <2>2. \A k : ~Counts(lines, n + 1, k)
    BY <1>2, <1>5
  <2>3. ~\A m \in 1..(n + 1) : lines[m].kind \in {"skip", "set"}
    BY <1>0, <1>5
  <2>4. ASSUME NEW k \in Keys
        PROVE  \/ next.of[k] = Unset /\ \A m \in 1..(n + 1) : ~Counts(lines, m, k)
               \/ \E m \in 1..(n + 1) : /\ Counts(lines, m, k) /\ next.of[k] = lines[m].value
                                        /\ \A l \in 1..(n + 1) : Counts(lines, l, k) => l <= m
    <3> HIDE DEF line, next
    <3>1. CASE r.of[k] = Unset /\ \A m \in 1..n : ~Counts(lines, m, k)
      BY <1>0, <2>1, <2>2, <3>1
    <3>2. CASE \E m \in 1..n : /\ Counts(lines, m, k) /\ r.of[k] = lines[m].value
                               /\ \A l \in 1..n : Counts(lines, l, k) => l <= m
      BY <1>0, <2>1, <2>2, <3>2
    <3> QED BY <3>1, <3>2 DEF ReadSoFar
  <2> QED BY <2>1, <2>3, <2>4 DEF ReadSoFar
<1> QED BY <1>3, <1>4, <1>5

\* What LoadCredentials reads from a file of any length is what InFile says of it, and it
\* ends well when every line could be read.
LEMMA FileIsRead ==
  ASSUME NEW lines \in Seq(Line)
  PROVE  /\ LoadCredentials(lines) \in Reading
         /\ ReadSoFar(lines, Len(lines), LoadCredentials(lines))
         /\ \A k \in Keys : LoadCredentials(lines).of[k] = InFile(lines, k)
<1>0. Len(lines) \in Nat /\ DOMAIN lines = 1..Len(lines)
  OBVIOUS
<1>1. PICK read \in [0..Len(lines) -> Reading] :
        IsRead(lines, read) /\ LoadCredentials(lines) = read[Len(lines)]
  BY ReadingExists
<1>2. \A n \in Nat : n <= Len(lines) => ReadSoFar(lines, n, read[n])
  <2> DEFINE T == {n \in Nat : n <= Len(lines) => ReadSoFar(lines, n, read[n])}
  <2>1. 0 \in T
    <3>1. read[0] = Begun
      BY <1>0, <1>1 DEF IsRead
    <3>2. ReadSoFar(lines, 0, Begun)
      BY DEF ReadSoFar, Begun
    <3> QED BY <3>1, <3>2
  <2>2. ASSUME NEW n \in T PROVE n + 1 \in T
    <3> SUFFICES ASSUME n + 1 <= Len(lines) PROVE ReadSoFar(lines, n + 1, read[n + 1])
      OBVIOUS
    <3>1. n \in 0..Len(lines) /\ ReadSoFar(lines, n, read[n]) /\ read[n] \in Reading
      BY <1>0
    <3>2. n + 1 \in 0..Len(lines) /\ n + 1 # 0 /\ (n + 1) - 1 = n
      BY <1>0
    <3>3. read[n + 1] = ReadLine(read[n], lines[n + 1])
      BY <1>1, <3>2 DEF IsRead
    <3> QED BY <3>1, <3>3, ReadNext
  <2>3. T = Nat
    <3> HIDE DEF T
    <3>1. T \in SUBSET Nat
      BY DEF T
    <3> QED BY <2>1, <2>2, <3>1, Induction
  <2> QED BY <2>3
<1>3. ReadSoFar(lines, Len(lines), LoadCredentials(lines)) /\ LoadCredentials(lines) \in Reading
  BY <1>0, <1>1, <1>2
<1>4. ASSUME NEW k \in Keys PROVE LoadCredentials(lines).of[k] = InFile(lines, k)
  <2> DEFINE those == {n \in DOMAIN lines : Counts(lines, n, k)}
             value == LoadCredentials(lines).of[k]
  <2>1. \/ value = Unset /\ \A m \in 1..Len(lines) : ~Counts(lines, m, k)
        \/ \E m \in 1..Len(lines) : /\ Counts(lines, m, k) /\ value = lines[m].value
                                    /\ \A l \in 1..Len(lines) : Counts(lines, l, k) => l <= m
    BY <1>3 DEF ReadSoFar
  <2>2. InFile(lines, k) = IF those = {} THEN Unset
                           ELSE lines[CHOOSE n \in those : \A m \in those : m <= n].value
    BY DEF InFile
  <2> HIDE DEF value
  <2>3. CASE value = Unset /\ \A m \in 1..Len(lines) : ~Counts(lines, m, k)
    BY <1>0, <2>2, <2>3 DEF value
  <2>4. ASSUME NEW m \in 1..Len(lines), Counts(lines, m, k), value = lines[m].value,
               \A l \in 1..Len(lines) : Counts(lines, l, k) => l <= m
        PROVE  value = InFile(lines, k)
    <3>1. m \in those /\ \A l \in those : l <= m /\ l \in Nat
      BY <1>0, <2>4
    <3> HIDE DEF those
    <3>2. PICK c : c = CHOOSE n \in those : \A l \in those : l <= n
      OBVIOUS
    <3>3. c \in those /\ \A l \in those : l <= c
      BY <3>1, <3>2
    <3>4. c = m
      BY <3>1, <3>3
    <3> QED BY <2>2, <2>4, <3>1, <3>2, <3>4
  <2> QED BY <2>1, <2>3, <2>4 DEF value
<1> QED BY <1>3, <1>4

LEMMA FileType ==
  ASSUME NEW named \in Seq(File), NEW usual \in Seq(File)
  PROVE  FileToLoad(named, usual) \in File
<1>1. CASE named # <<>>
  BY <1>1 DEF FileToLoad
<1>2. CASE named = <<>> /\ \E k \in DOMAIN usual : usual[k].exists
  <2> DEFINE First(k) == usual[k].exists /\ \A m \in 1..(k - 1) : ~usual[m].exists
  <2>1. PICK S : S = {k \in DOMAIN usual : usual[k].exists}
    OBVIOUS
  <2>2. S \in SUBSET Nat /\ S # {}
    BY <1>2, <2>1
  <2>3. PICK n \in S : \A m \in S : n <= m
    BY <2>2, LeastNatural
  <2>4. n \in DOMAIN usual /\ First(n)
    <3>1. ASSUME NEW m \in 1..(n - 1) PROVE ~usual[m].exists
      <4>1. m \in DOMAIN usual /\ ~(n <= m)
        BY <2>1, <2>3
      <4> QED BY <2>1, <2>3, <4>1
    <3> QED BY <2>1, <2>3, <3>1
  <2>5. FileToLoad(named, usual) = usual[CHOOSE k \in DOMAIN usual : First(k)]
    BY <1>2 DEF FileToLoad
  <2> HIDE DEF First
  <2>6. PICK c : c = CHOOSE k \in DOMAIN usual : First(k)
    OBVIOUS
  <2>7. c \in DOMAIN usual
    BY <2>4, <2>6
  <2> QED BY <2>5, <2>6, <2>7
<1>3. CASE named = <<>> /\ ~\E k \in DOMAIN usual : usual[k].exists
  <2>1. FileToLoad(named, usual) = [exists |-> FALSE, lines |-> <<>>]
    BY <1>3 DEF FileToLoad
  <2>2. <<>> \in Seq(Line)
    OBVIOUS
  <2> QED BY <2>1, <2>2 DEF File
<1> QED BY <1>1, <1>2, <1>3

\* The credentials a run has after it has loaded the file its settings name.
LoadedFor(s) == Loaded(FileToLoad(s.named, s.usual))
CredentialsOf(s) == [k \in Keys |-> Credential(s.flags, s.env, LoadedFor(s), k)]

LEMMA LoadedType ==
  ASSUME NEW file \in File
  PROVE  /\ Loaded(file) \in Reading
         /\ \A k \in Keys : Loaded(file).of[k] = IF file.exists THEN InFile(file.lines, k) ELSE Unset
<1>1. CASE file.exists
  <2>1. file.lines \in Seq(Line) /\ Loaded(file) = LoadCredentials(file.lines)
    BY <1>1 DEF File, Loaded
  <2> QED BY <1>1, <2>1, FileIsRead
<1>2. CASE ~file.exists
  <2>1. Loaded(file) = Begun /\ \A k \in Keys : Begun.of[k] = Unset
    BY <1>2 DEF Loaded, Begun
  <2> QED BY <1>2, <2>1, BegunType
<1> QED BY <1>1, <1>2

LEMMA CredentialsType ==
  ASSUME NEW s \in Settings PROVE CredentialsOf(s) \in [Keys -> Values]
<1>1. /\ s.flags \in [Keys -> Values] /\ s.env \in [Keys -> Values]
      /\ FileToLoad(s.named, s.usual) \in File
  BY SettingsAssumption, FileType
<1>2. LoadedFor(s) \in Reading
  BY <1>1, LoadedType DEF LoadedFor
<1>3. ASSUME NEW k \in Keys PROVE Credential(s.flags, s.env, LoadedFor(s), k) \in Values
  <2>1. LoadedFor(s).of[k] \in Values /\ s.flags[k] \in Values /\ s.env[k] \in Values
    BY <1>1, <1>2 DEF Reading
  <2> QED BY <2>1 DEF Credential, GetCredential
<1> QED BY <1>3 DEF CredentialsOf

\* Whatever the settings and the files, each credential is the first that is given.
LEMMA Precedence ==
  ASSUME NEW s \in Settings, NEW k \in Keys
  PROVE  LET file == FileToLoad(s.named, s.usual)
             given == <<s.flags[k], s.env[k],
                        IF file.exists THEN InFile(file.lines, k) ELSE Unset>>
         IN \/ CredentialsOf(s)[k] = Unset /\ given = <<Unset, Unset, Unset>>
            \/ \E n \in 1..3 : /\ CredentialsOf(s)[k] = given[n] /\ given[n] # Unset
                               /\ \A m \in 1..(n - 1) : given[m] = Unset
<1> DEFINE file == FileToLoad(s.named, s.usual)
           last == IF file.exists THEN InFile(file.lines, k) ELSE Unset
           given == <<s.flags[k], s.env[k], last>>
<1>1. file \in File
  BY SettingsAssumption, FileType
<1>2. LoadedFor(s).of[k] = last
  BY <1>1, LoadedType DEF LoadedFor
<1>3. CredentialsOf(s)[k] = IF s.flags[k] # Unset THEN s.flags[k]
                            ELSE IF s.env[k] # Unset THEN s.env[k] ELSE last
  BY <1>2 DEF CredentialsOf, Credential, GetCredential
<1> HIDE DEF last
<1>4. given[1] = s.flags[k] /\ given[2] = s.env[k] /\ given[3] = last
  OBVIOUS
<1> QED
  <2>1. CASE s.flags[k] # Unset
    <3>1. 1 \in 1..3 /\ \A m \in 1..(1 - 1) : FALSE
      OBVIOUS
    <3> QED BY <1>3, <1>4, <2>1, <3>1 DEF last
  <2>2. CASE s.flags[k] = Unset /\ s.env[k] # Unset
    <3>1. 2 \in 1..3 /\ \A m \in 1..(2 - 1) : m = 1
      OBVIOUS
    <3> QED BY <1>3, <1>4, <2>2, <3>1 DEF last
  <2>3. CASE s.flags[k] = Unset /\ s.env[k] = Unset /\ last # Unset
    <3>1. 3 \in 1..3 /\ \A m \in 1..(3 - 1) : m = 1 \/ m = 2
      OBVIOUS
    <3> QED BY <1>3, <1>4, <2>3, <3>1 DEF last
  <2>4. CASE s.flags[k] = Unset /\ s.env[k] = Unset /\ last = Unset
    BY <1>3, <2>4 DEF last
  <2> QED BY <2>1, <2>2, <2>3, <2>4
-----------------------------------------------------------------------------
(***************************************************************************)
(* The run and its state.                                                  *)
(***************************************************************************)
\* The settings are kept until the credentials are loaded, which are those of the settings;
\* the monitor is off before the jobs are submitted, and has returned when the run is over.
StateInv ==
  /\ mode \in {"clone", "fork", "CloneAll"}
  /\ setting \in Settings \cup {NoSetting} /\ source \in Sources \cup {NoSource}
  /\ credentials \in [Keys -> Values]
  /\ info.provider \in {"none", "github", "gitlab", "gerrit"}
  /\ step \in {"load", "resolve", "resolved", "list", "wait", "end"}
  /\ outcome \in Outcomes /\ (step = "end" <=> outcome # "none")
  /\ step \notin {"wait", "end"} => monitor = "off"
  /\ step = "end" => ~Watched
  /\ step = "load" => mode # "CloneAll"
  /\ step \in {"load", "resolve"} /\ mode # "CloneAll" => setting \in Settings
  /\ step = "resolve" /\ mode # "CloneAll" => credentials = CredentialsOf(setting)

LEMMA NothingLoaded == NoCredentials \in [Keys -> Values] /\ NoInfo.provider = "none"
BY UnsetAssumption DEF NoCredentials, NoInfo, Info

LEMMA InitState == CommandInit => StateInv
<1> SUFFICES ASSUME CommandInit PROVE StateInv
  OBVIOUS
<1>1. monitor = "off" /\ source \in Sources /\ credentials \in [Keys -> Values]
      /\ info.provider = "none"
  BY NothingLoaded DEF CommandInit, ClockInit
<1>2. CASE mode = "CloneAll"
  BY <1>1, <1>2 DEF CommandInit, StateInv, Outcomes
<1>3. CASE mode # "CloneAll"
  BY <1>1, <1>3 DEF CommandInit, StateInv, Outcomes
<1> QED BY <1>2, <1>3

LEMMA LoadState == ASSUME StateInv, Load PROVE StateInv'
<1> DEFINE loaded == Loaded(FileToLoad(setting.named, setting.usual))
<1>1. /\ step = "load" /\ mode # "CloneAll" /\ setting \in Settings
      /\ UNCHANGED <<mode, setting, source, info, cvars>>
  BY DEF Load, StateInv
<1>2. monitor = "off" /\ monitor' = monitor
  BY <1>1 DEF StateInv, cvars, watchVars
<1>3. \/ step' = "end" /\ outcome' \in {"panic", "failed"} /\ credentials' = credentials
      \/ step' = "resolve" /\ outcome' = outcome
         /\ credentials' = [k \in Keys |-> Credential(setting.flags, setting.env, loaded, k)]
  <2>1. CASE loaded.outcome = "panic"
    BY <2>1 DEF Load, End
  <2>2. CASE loaded.outcome = "error" /\ mode = "clone"
    BY <2>2 DEF Load, End
  <2>3. CASE loaded.outcome # "panic" /\ ~(loaded.outcome = "error" /\ mode = "clone")
    BY <2>3 DEF Load
  <2> QED BY <2>1, <2>2, <2>3
<1>4. CASE step' = "end" /\ outcome' \in {"panic", "failed"} /\ credentials' = credentials
  BY <1>1, <1>2, <1>4 DEF StateInv, Outcomes, Watched
<1>5. CASE step' = "resolve" /\ outcome' = outcome
           /\ credentials' = [k \in Keys |-> Credential(setting.flags, setting.env, loaded, k)]
  <2>1. credentials' = CredentialsOf(setting)
    BY <1>5 DEF CredentialsOf, LoadedFor
  <2>2. credentials' \in [Keys -> Values]
    BY <1>1, <2>1, CredentialsType
  <2>3. CredentialsOf(setting)' = CredentialsOf(setting)
    BY <1>1 DEF CredentialsOf, LoadedFor
  <2>4. outcome = "none"
    BY <1>1 DEF StateInv
  <2> QED BY <1>1, <1>2, <1>5, <2>1, <2>2, <2>3, <2>4 DEF StateInv
<1> QED BY <1>3, <1>4, <1>5

\* A step after the credentials are loaded has no more to do with them.
LEMMA LaterState ==
  ASSUME StateInv, step \notin {"load"}, step' \notin {"load", "resolve"},
         mode' \in {mode, "clone"}, setting' \in {setting, NoSetting},
         source' \in {source, NoSource}, credentials' \in {credentials, NoCredentials},
         info'.provider \in {"none", "github", "gitlab", "gerrit"},
         step' \in {"resolved", "list", "wait", "end"},
         outcome' \in Outcomes, step' = "end" <=> outcome' # "none",
         step' \notin {"wait", "end"} => monitor' = "off",
         step' = "end" => ~Watched'
  PROVE  StateInv'
BY NothingLoaded DEF StateInv

LEMMA StepState == RunInv /\ StateInv /\ [CommandNext]_allVars => StateInv'
<1> SUFFICES ASSUME RunInv, StateInv, [CommandNext]_allVars PROVE StateInv'
  OBVIOUS
<1>1. CASE Load
  BY <1>1, LoadState
<1>2. CASE ResolveSource
  <2>1. /\ step = "resolve" /\ monitor = "off" /\ monitor' = monitor
        /\ UNCHANGED <<mode, setting, source, credentials>>
        /\ outcome = "none" /\ info.provider \in {"none", "github", "gitlab", "gerrit"}
    BY <1>2 DEF ResolveSource, StateInv, cvars, watchVars
  <2>2. CASE Resolutions(source) = {}
    <3>1. step' = "end" /\ outcome' = "failed" /\ info' = info
      BY <1>2, <2>2 DEF ResolveSource, End
    <3> QED BY <2>1, <3>1, LaterState DEF Watched, Outcomes
  <2>3. CASE Resolutions(source) # {}
    <3>1. info' \in Resolutions(source) /\ step' = "resolved" /\ outcome' = outcome
      BY <1>2, <2>3 DEF ResolveSource
    <3>2. info'.provider \in {"github", "gitlab", "gerrit"}
      BY <3>1, ResolvedProvider
    <3> QED BY <2>1, <3>1, <3>2, LaterState DEF Outcomes
  <2> QED BY <2>2, <2>3
<1>3. CASE StartListing
  <2>1. /\ step = "resolved" /\ step' = "list" /\ mode' = mode /\ outcome' = outcome
        /\ setting' = NoSetting /\ source' = NoSource /\ credentials' = NoCredentials
        /\ info' = NoInfo /\ monitor' = monitor
    BY <1>3 DEF StartListing, cvars, watchVars
  <2>2. monitor = "off" /\ outcome = "none"
    BY <2>1 DEF StateInv
  <2> QED BY <2>1, <2>2, LaterState, NothingLoaded DEF Outcomes
<1>4. ASSUME UNCHANGED <<mode, setting, source, credentials, info>>, step \in {"list", "wait"},
             step' = "end", outcome' \in Outcomes \ {"none"}, ~Watched, UNCHANGED cvars
      PROVE  StateInv'
  <2>1. ~Watched'
    BY <1>4 DEF Watched, cvars, watchVars
  <2>2. info'.provider \in {"none", "github", "gitlab", "gerrit"}
    BY <1>4 DEF StateInv
  <2> QED BY <1>4, <2>1, <2>2, LaterState
<1>5. CASE List
  <2>1. UNCHANGED <<commandVars, cvars>>
    BY <1>5 DEF List
  <2> QED BY <2>1 DEF commandVars, cvars, watchVars, StateInv, Watched, CredentialsOf, LoadedFor
<1>6. CASE ListingFailed \/ ListingEnds
  <2>1. step = "list" /\ monitor = "off"
    BY <1>6 DEF ListingFailed, ListingEnds, StateInv
  <2>2. /\ step' = "end" /\ outcome' \in {"failed", "empty", "dry run", "fork"}
        /\ UNCHANGED <<mode, setting, source, credentials, info, cvars>>
    BY <1>6 DEF ListingFailed, ListingEnds, End
  <2> QED BY <1>4, <2>1, <2>2 DEF Watched, Outcomes
<1>7. CASE SubmitJobs
  <2>1. step = "list" /\ step' = "wait" /\ UNCHANGED <<setting, source, credentials, info, outcome>>
    BY <1>7 DEF SubmitJobs
  <2>2. mode' = "clone" /\ outcome = "none"
        /\ info.provider \in {"none", "github", "gitlab", "gerrit"}
    BY <1>7, <2>1 DEF SubmitJobs, ForgetListing, StateInv
  <2> QED BY <2>1, <2>2, LaterState DEF Outcomes
<1>8. CASE Wait
  <2>1. step = "wait" /\ UNCHANGED commandVars
    BY <1>8 DEF Wait, WaitStep
  <2>2. step' = "wait" /\ UNCHANGED <<mode, setting, source, credentials, info, outcome>>
        /\ outcome = "none" /\ info.provider \in {"none", "github", "gitlab", "gerrit"}
    BY <2>1 DEF commandVars, StateInv
  <2> QED BY <2>1, <2>2, LaterState DEF Outcomes
<1>9. CASE WaitIsOver
  <2>1. ~Watched /\ step = "wait"
    BY <1>9 DEF WaitIsOver, Watched, Returned
  <2> QED BY <1>4, <1>9, <2>1 DEF WaitIsOver, End, Outcomes
<1>10. CASE UNCHANGED allVars
  BY <1>10 DEF allVars, commandVars, cvars, watchVars, StateInv, Watched, CredentialsOf, LoadedFor
<1> QED BY <1>1, <1>2, <1>3, <1>5, <1>6, <1>7, <1>8, <1>9, <1>10 DEF CommandNext

\* A run uses the credential that is given first: the flag, the environment variable, the
\* last line of the file that sets it, in files of any length and with any keys.
THEOREM CredentialsInOrder == CommandSpec => []CredentialPrecedence
<1>1. StateInv => CredentialPrecedence
  BY Precedence DEF StateInv, CredentialPrecedence
<1> QED BY InitRun, StepRun, InitState, StepState, <1>1, PTL DEF CommandSpec

\* A run passes from its settings to its listing and its wait and never has the state of one
\* of them in another; the types of the listing and of the wait are kept throughout.
THEOREM CommandTypeCorrect == CommandSpec => []CommandTypeOK
<1>1. RunInv /\ StateInv /\ ClockInv => CommandTypeOK
  <2> SUFFICES ASSUME RunInv, StateInv, ClockInv PROVE CommandTypeOK
    OBVIOUS
  <2>1. ListTypeOK /\ ClockTypeOK
    BY ClockTypes DEF RunInv, ListInv
  <2>2. step # "wait" => ~Watched
    BY DEF StateInv, Watched
  <2> QED BY <2>1, <2>2 DEF StateInv, RunInv, CommandTypeOK
<1> QED BY RunsAreWaits, InitRun, StepRun, InitState, StepState, InitClock, StepClock, <1>1, PTL
        DEF CommandSpec
===============================================================================
