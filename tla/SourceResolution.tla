--------------------------- MODULE SourceResolution ---------------------------
(***************************************************************************)
(* Which provider a --source or --target names, and which organisation     *)
(* there: GetProviderForSource of internal/provider/provider.go over the   *)
(* two providers the program registers, and the dynamic Gerrit provider.   *)
(* Pure operators: CloneCommand uses them.                                 *)
(*                                                                         *)
(* A source is a form and its parts:                                       *)
(*   "url"    scheme://host/org/...          parts <<host, org, ...>>      *)
(*   "scp"    git@host:org/...               parts <<host, org, ...>>      *)
(*   "plain"  org, org/repo, host/org ...    parts <<org>> and so on       *)
(* A part is a word.  Of its letters only this matters: whether there is a *)
(* dot in it, and which services' names it contains.  Blank becomes the    *)
(* part after a final slash.                                               *)
(*                                                                         *)
(* What a parser returns is a set: of one SourceInfo, or empty for an      *)
(* error.                                                                  *)
(*                                                                         *)
(* A definition A_Slip beside a definition A is A with a plausible slip in *)
(* it; nothing uses it but the experiments that show a property notices.   *)
(***************************************************************************)
EXTENDS Naturals, Sequences

CONSTANTS
  Words,
  Dotted,               \* the words with a dot in them
  Says,             \* word -> the names it contains
  GitHubCom, GitLabCom, \* the words "github.com" and "gitlab.com"
  Blank, NoHost,        \* the empty word; the host of a URL that has none
  Mangled               \* a word that begins with git@

ServiceNames == {"github.com", "github", "gitlab", "gerrit"}

ASSUME WordsAssumption ==
  /\ Dotted \subseteq Words /\ Says \in [Words -> SUBSET ServiceNames]
  /\ {GitHubCom, GitLabCom} \subseteq Dotted
  /\ Says[GitHubCom] = {"github.com", "github"} /\ Says[GitLabCom] = {"gitlab"}
  /\ \A w \in Words : "github.com" \in Says[w] => "github" \in Says[w] /\ w \in Dotted

Info(provider, host, org) == [provider |-> provider, host |-> host, org |-> org]
Plain(s) == s.form = "plain"
Size(s) == Len(s.parts)
Mentions(s, name) == \E k \in DOMAIN s.parts : name \in Says[s.parts[k]]
OrgOf(s) == IF Size(s) > 1 THEN s.parts[2] ELSE Blank

\* strings.Split(source, "/"), of a URL's scheme "https:" and "" too; its first element.
SlashParts(s) == CASE s.form = "url" -> Size(s) + 2
                   [] s.form = "scp" -> Size(s) - 1
                   [] OTHER          -> Size(s)
InFirst(s) == IF s.form = "scp" THEN {s.parts[1], s.parts[2]} ELSE {s.parts[1]}
FirstWord(s) == IF s.form = "scp" THEN Mangled ELSE s.parts[1]
SingleName(s) == SlashParts(s) = 1 /\ \A k \in DOMAIN s.parts : s.parts[k] \notin Dotted
-----------------------------------------------------------------------------
\* A URL of the service at that host, in one of its three forms; url.Parse takes a source
\* without a scheme for a path, and refuses a colon in its first part.
ServiceURL(s, provider, wellKnown, scp) ==
  CASE s.form = "scp" -> IF scp THEN {Info(provider, s.parts[1], s.parts[2])} ELSE {}
    [] Plain(s) /\ s.parts[1] = wellKnown /\ Size(s) > 1 ->
         IF s.parts[2] = Blank THEN {} ELSE {Info(provider, wellKnown, s.parts[2])}
    [] s.form = "url" -> {Info(provider, s.parts[1], OrgOf(s))}
    [] OTHER -> {Info(provider, NoHost, s.parts[1])}

\* GitHubProvider.ParseSource takes every org/repo, except with another service's name.
OrgRepo_Unchecked(s) == SlashParts(s) = 2
OrgRepo(s) ==
  /\ SlashParts(s) = 2
  /\ \A w \in InFirst(s) : Says[w] \cap {"gitlab", "gerrit"} = {}

ParseGitHub(s) ==
  IF Mentions(s, "github.com")
  THEN ServiceURL(s, "github", GitHubCom, s.parts[1] = GitHubCom)
  ELSE IF SingleName(s) \/ OrgRepo(s) THEN {Info("github", GitHubCom, FirstWord(s))}
  ELSE {}

\* GitLabProvider.ParseSource takes group/subgroup/..., unless the first part has a dot.
ParseGitLab(s) ==
  IF Mentions(s, "gitlab") THEN ServiceURL(s, "gitlab", GitLabCom, TRUE)
  ELSE IF SingleName(s) \/ (SlashParts(s) > 1 /\ s.form # "url" /\ InFirst(s) \cap Dotted = {})
  THEN {Info("gitlab", GitLabCom, FirstWord(s))}
  ELSE {}

\* ParseGenericSource: the services it knows by their names, and Gerrit for the rest.
KnownHost(w) == Says[w] \cap {"github", "gitlab", "gerrit"} # {}
ServiceAt(w) == IF "github" \in Says[w] THEN "github"
                ELSE IF "gitlab" \in Says[w] THEN "gitlab" ELSE "gerrit"

ParseGeneric(s) ==
  LET host == s.parts[1] IN
  CASE ~Plain(s) ->
         IF Size(s) > 1 \/ (s.form = "url" /\ ServiceAt(host) = "gerrit")
         THEN {Info(ServiceAt(host), host, OrgOf(s))} ELSE {}
    [] Plain(s) /\ Size(s) > 1 ->
         IF host \in Dotted /\ ~KnownHost(host) THEN {} ELSE {Info("none", host, s.parts[2])}
    [] OTHER -> IF host \in Dotted THEN {Info("none", host, Blank)}
                ELSE {Info("github", GitHubCom, host)}

\* GetProviderForSource: whichever registered provider the map yields first, and a Gerrit
\* provider made on the spot when there is none.
Registered(s) == ParseGitHub(s) \cup ParseGitLab(s)
Resolutions(s) ==
  IF Registered(s) # {} THEN Registered(s)
  ELSE {[i EXCEPT !.provider = "gerrit"] :
          i \in {i \in ParseGeneric(s) : i.provider \in {"gerrit", "none"}}}
-----------------------------------------------------------------------------
\* What the user has named: a host with a dot in its name.
NamedHost(s) == s.parts[1] \in Dotted /\ (Plain(s) => Size(s) > 1)
OnlyService(s, name) ==
  {n \in {"github", "gitlab", "gerrit"} : Mentions(s, n)} = {name}

\* A source that names github.com, gitlab.com or a Gerrit server by its host, and no other
\* service anywhere, is resolved to that service and to the organisation after the host.
NamedServiceIsUsed(s, info) ==
  /\ NamedHost(s) /\ Size(s) > 1 /\ s.parts[2] # Blank
  /\ \/ s.parts[1] = GitHubCom /\ OnlyService(s, "github")
     \/ s.parts[1] = GitLabCom /\ OnlyService(s, "gitlab")
     \/ "gerrit" \in Says[s.parts[1]] /\ OnlyService(s, "gerrit")
  => info = Info(ServiceAt(s.parts[1]), s.parts[1], s.parts[2])
===============================================================================
