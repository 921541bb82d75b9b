---------------------------- MODULE ProviderListing ----------------------------
(***************************************************************************)
(* ListRepositories of the three providers: GitHub's pages of an           *)
(* organisation or else of a user, GitLab's pages of a group or else of a  *)
(* user, Gerrit's chain of endpoints; and the one retry of CloneAll.       *)
(*                                                                         *)
(* The server keeps the holder's repositories in an order and answers      *)
(* every request from what it has then: one made meanwhile comes first and *)
(* moves the others to later pages, one deleted moves them to earlier      *)
(* ones.  Pages are of PageSize repositories; an answer's body, a request's *)
(* parameters and how long a limit lasts are left out.                     *)
(*                                                                         *)
(* A definition A_Slip beside a definition A is A with a plausible slip in *)
(* it; nothing uses it but the experiments that show a property notices.   *)
(***************************************************************************)
EXTENDS Naturals, Sequences, FiniteSets, Functions

CONSTANTS
  Repos,
  Holdings,    \* what the named holder may have at first: sequences over Repos
  Public,      \* the repositories an anonymous request sees
  Prefixed,    \* those whose path begins with the name of the organisation
  PageSize,
  MaxPages,    \* after so many pages GitLab's listing ends
  MaxChanges   \* bound: how many repositories are made or deleted meanwhile

ASSUME HoldingsAssumption == /\ Holdings \subseteq Seq(Repos)
                             /\ \A s \in Holdings : IsInjective(s)
ASSUME ListedAssumption   == Public \subseteq Repos /\ Prefixed \subseteq Repos
ASSUME PagesAssumption    == /\ PageSize \in Nat \ {0} /\ MaxPages \in Nat \ {0}
                             /\ MaxChanges \in Nat

VARIABLES
  holder,    \* what the name belongs to: "org" (or a group, or a server), "user", "nobody"
  held,      \* the holder's repositories, in the server's order
  stage,     \* where ListRepositories is
  lister,    \* the provider
  login,     \* it has a user name for SSH
  waits,     \* the caller is CloneAll, which waits for a rate limit
  page,      \* the next page, or endpoint
  got,       \* allRepos
  err,       \* the error to return: "rate" is a RateLimitError, "wrapped" one within another
  again,     \* CloneAll has waited
  before,    \* history: what was held when the listing began
  changed    \* history: what has happened to held since then, and how often

listVars == <<holder, held, stage, lister, login, waits, page, got, err, again, before, changed>>
asked == <<holder, lister, login, waits, before>>
world == <<held, changed>>
-----------------------------------------------------------------------------
Stages == {"off", "org", "user", "auth", "anonymous", "ssh", "sleep", "listed", "failed"}
Errors == {"none", "rate", "wrapped", "auth", "other"}
Underway == stage \in {"org", "user", "auth", "anonymous", "ssh", "sleep"}

ListTypeOK ==
  /\ holder \in {"org", "user", "nobody"} /\ held \in Seq(Repos) /\ IsInjective(held)
  /\ stage \in Stages /\ lister \in {"none", "github", "gitlab", "gerrit"}
  /\ login \in BOOLEAN /\ waits \in BOOLEAN /\ again \in BOOLEAN
  /\ page \in Nat \ {0} /\ got \in Seq(Repos) /\ err \in Errors
  /\ before \subseteq Repos
  /\ changed \in [made : 0..MaxChanges, deleted : 0..MaxChanges]
  /\ stage \in {"auth", "anonymous", "ssh"} => lister = "gerrit" /\ page <= 2
  /\ lister = "gitlab" => page <= MaxPages
  /\ stage = "failed" => err # "none"

ListInit ==
  /\ holder = "nobody" /\ held = <<>>
  /\ stage = "off" /\ lister = "none" /\ login = FALSE /\ waits = FALSE
  /\ page = 1 /\ got = <<>> /\ err = "none" /\ again = FALSE
  /\ before = {} /\ changed = [made |-> 0, deleted |-> 0]

FirstStage(provider) == IF provider = "gerrit" THEN "auth" ELSE "org"

\* What the name belongs to is the server's secret until then.
BeginListing(provider, hasLogin, waiting) ==
  /\ stage = "off"
  /\ holder' \in {"org", "user", "nobody"}
  /\ held' \in Holdings /\ (holder' = "nobody" => held' = <<>>)
  /\ stage' = FirstStage(provider) /\ lister' = provider
  /\ login' = hasLogin /\ waits' = waiting /\ before' = Range(held')
  /\ UNCHANGED <<page, got, err, again, changed>>
-----------------------------------------------------------------------------
(***************************************************************************)
(* GitHub and GitLab: pages.                                               *)
(***************************************************************************)
AtLeast(a, b) == IF a < b THEN a ELSE b
Page(n) == SubSeq(held, (n - 1) * PageSize + 1, AtLeast(n * PageSize, Len(held)))
LastPage(n) == n * PageSize >= Len(held)

NextPage_Same == page
NextPage == page + 1

PageArrives ==
  /\ stage = holder
  /\ got' = got \o Page(page)
  /\ IF LastPage(page) \/ (lister = "gitlab" /\ page >= MaxPages)
     THEN stage' = "listed" /\ UNCHANGED page
     ELSE page' = NextPage /\ UNCHANGED stage
  /\ UNCHANGED <<asked, err, again, world>>

GiveUp(how) == stage' = "failed" /\ err' = how /\ UNCHANGED <<asked, page, got, again, world>>

\* Nothing that was got before is kept.
TryAsUser(how) ==
  /\ stage' = "user" /\ err' = how /\ page' = 1 /\ got' = <<>>
  /\ UNCHANGED <<asked, again, world>>

\* GitHub: "not found" means that the name may be a user's.
NoSuchOrg == stage = "org" /\ lister = "github" /\ holder # "org" /\ TryAsUser("none")

\* GitHub: any page may meet a rate limit, another error, or the deadline.
HandleRateLimit_Wrapped(how) == IF how = "rate" THEN "wrapped" ELSE how
HandleRateLimit(how) == how

GitHubFails_Partial ==
  /\ stage \in {"org", "user"} /\ lister = "github"
  /\ stage' = "listed" /\ UNCHANGED <<asked, page, got, err, again, world>>
GitHubFails ==
  /\ stage \in {"org", "user"} /\ lister = "github"
  /\ \E how \in {"rate", "other"} : GiveUp(HandleRateLimit(how))

\* GitLab: whatever is wrong with the group, a user of that name is tried.
GroupFails == /\ stage = "org" /\ lister = "gitlab"
              /\ \E how \in {"rate", "other"} : TryAsUser(how)

\* And when that fails too, the group's error is returned within another.
Wrapped(how) == IF how = "rate" THEN "wrapped" ELSE how
UserFails == stage = "user" /\ lister = "gitlab" /\ GiveUp(Wrapped(err))
-----------------------------------------------------------------------------
(***************************************************************************)
(* Gerrit: two endpoints with credentials, the same two without, and SSH.  *)
(***************************************************************************)

\* filterAndConvertProjects walks over a map: the order is any.
Arrangements(projects) == {s \in [1..Cardinality(projects) -> projects] : IsInjective(s)}

Listed(projects, with) ==
  /\ stage' = "listed" /\ err' = with
  /\ got' \in Arrangements(projects \cap Prefixed)
  /\ UNCHANGED <<asked, page, again, world>>

EndpointAnswers ==
  /\ stage \in {"auth", "anonymous"} /\ holder = "org"
  /\ Listed(IF stage = "auth" THEN Range(held) ELSE Range(held) \cap Public, err)

\* The SSH listing is tried with a user name only; in any case the error is that of the
\* last endpoint with credentials.
TrySSH(how) ==
  IF login THEN stage' = "ssh" /\ err' = how /\ page' = 1 /\ UNCHANGED <<asked, got, again, world>>
  ELSE GiveUp(Wrapped(how))

\* An HTML page or an answer without the security prefix suggests a lack of credentials.
EndpointFails ==
  /\ stage \in {"auth", "anonymous"}
  /\ \E how \in {"rate", "auth", "other"} :
       IF page = 1
       THEN page' = 2 /\ UNCHANGED <<asked, stage, got, err, again, world>>
       ELSE IF stage = "auth" /\ how = "auth"
       THEN stage' = "anonymous" /\ err' = how /\ page' = 1 /\ UNCHANGED <<asked, got, again, world>>
       ELSE TrySSH(IF stage = "auth" THEN how ELSE err)

LimiterFails == stage = "auth" /\ page = 1 /\ GiveUp("other")

SSHLists == stage = "ssh" /\ holder = "org" /\ Listed(Range(held), "none")
SSHFails == stage = "ssh" /\ GiveUp(Wrapped(err))
-----------------------------------------------------------------------------
(***************************************************************************)
(* CloneAll waits for a rate limit, once, and lists from the beginning.    *)
(***************************************************************************)
IsRateLimitError == err = "rate"

MayWait_Always == IsRateLimitError
MayWait == IsRateLimitError /\ ~again

WaitForLimit ==
  /\ stage = "failed" /\ waits /\ MayWait
  /\ stage' = "sleep" /\ again' = TRUE
  /\ UNCHANGED <<asked, page, got, err, world>>

\* before is what was held when this listing began.
ListAgain ==
  /\ stage = "sleep"
  /\ stage' = FirstStage(lister) /\ page' = 1 /\ got' = <<>> /\ err' = "none"
  /\ before' = Range(held) /\ changed' = [made |-> 0, deleted |-> 0]
  /\ UNCHANGED <<holder, held, lister, login, waits, again>>

WaitIsCancelled == stage = "sleep" /\ GiveUp("other")

ListingStep ==
  \/ PageArrives \/ NoSuchOrg \/ GitHubFails \/ GroupFails \/ UserFails
  \/ EndpointAnswers \/ EndpointFails \/ LimiterFails \/ SSHLists \/ SSHFails
  \/ WaitForLimit \/ ListAgain \/ WaitIsCancelled

\* Others make and delete repositories meanwhile.
Changes == changed.made + changed.deleted

SomebodyMakes ==
  /\ Underway /\ Changes < MaxChanges /\ holder # "nobody"
  /\ \E r \in Repos \ (Range(held) \cup before) : held' = <<r>> \o held
  /\ changed' = [changed EXCEPT !.made = @ + 1]
  /\ UNCHANGED <<asked, stage, page, got, err, again>>

SomebodyDeletes ==
  /\ Underway /\ Changes < MaxChanges
  /\ \E k \in DOMAIN held : held' = SubSeq(held, 1, k - 1) \o SubSeq(held, k + 1, Len(held))
  /\ changed' = [changed EXCEPT !.deleted = @ + 1]
  /\ UNCHANGED <<asked, stage, page, got, err, again>>

ListingNext == ListingStep \/ SomebodyMakes \/ SomebodyDeletes
-----------------------------------------------------------------------------
(***************************************************************************)
(* Properties.                                                             *)
(***************************************************************************)

\* GitLab's listing ends at its last page without an error; Gerrit's knows what an
\* anonymous request sees, and returns what begins with the organisation's name.
Truncated == lister = "gitlab" /\ Len(got) >= PageSize * MaxPages
Wanted == IF lister # "gerrit" THEN before
          ELSE Prefixed \cap (IF err = "auth" THEN before \cap Public ELSE before)

\* ListRepositories returns without an error only when it has every repository that was
\* there and still is, though pages fail, the name is a user's, or new ones come in between:
\* a failure half way is never a short list.  Three lists are short all the same: a deletion
\* moves a repository to a page that has been read; GitLab's end at their last page; and
\* Gerrit's have what an anonymous request sees, when the one with credentials was denied,
\* and only what begins with the organisation's name.
ListingIsComplete ==
  stage = "listed" /\ (changed.deleted = 0 \/ lister = "gerrit") /\ ~Truncated =>
    Wanted \cap Range(held) \subseteq Range(got)

\* A repository is listed once, so that it is cloned by one job, unless others have made
\* new ones between two pages.
ListedOnce == stage = "listed" /\ changed.made = 0 => IsInjective(got)
===============================================================================
