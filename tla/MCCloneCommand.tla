---------------------------- MODULE MCCloneCommand ----------------------------
(***************************************************************************)
(* Instances of CloneCommand for TLC.                                      *)
(***************************************************************************)
EXTENDS CloneCommand, TLC

CONSTANTS r1, r2, r3,                    \* repositories
          v1, v2,                        \* tokens
          a, b, unknown, gerritHost, gitlabSelf, gitlabhq, gerrit, enterprise  \* words

MCKeys == {"GITHUB_TOKEN", "GERRIT_USERNAME"}
MCHoldings == {<<>>, <<r1>>, <<r1, r2, r3>>}

MCSays == [w \in Words |->
  CASE w = GitHubCom  -> {"github.com", "github"}
    [] w = enterprise -> {"github"}
    [] w \in {GitLabCom, gitlabSelf, gitlabhq} -> {"gitlab"}
    [] w \in {gerritHost, gerrit} -> {"gerrit"}
    [] OTHER -> {}]

Of(form, parts) == [form |-> form, parts |-> parts]
Hosts == {GitHubCom, GitLabCom, unknown, gerritHost, gitlabSelf, enterprise}
MCSources ==
  {Of("plain", <<w>>) : w \in Words \ {Blank}}
  \cup {Of("plain", <<h, w>>) : h \in Words \ {Blank}, w \in {a, gitlabhq, Blank}}
  \cup {Of("plain", <<h, b, w>>) : h \in Hosts \cup {a}, w \in {a, gitlabhq}}
  \cup {Of("url", <<h>>) : h \in Hosts}
  \cup {Of(f, <<h, w>>) : f \in {"url", "scp"}, h \in Hosts \cup {gerrit}, w \in {a, gitlabhq}}
  \cup {Of("scp", <<h, a, b>>) : h \in Hosts \cup {gerrit}}

\* A token in any of the places, a file's lines in any order with one that cannot be read,
\* a second file in the usual places, and a named one that may be missing.
Set(v) == [kind |-> "set", key |-> "GITHUB_TOKEN", value |-> v]
User   == [kind |-> "set", key |-> "GERRIT_USERNAME", value |-> v1]
Skip == [kind |-> "skip"]
Files  == {<<>>, <<Skip, Set(v1), User>>, <<Set(v1), Set(v2)>>, <<Set(v1), Set(Unset)>>,
           <<User, [kind |-> "noValue"], Set(v1)>>, <<User, [kind |-> "unclosed"]>>}
AFile  == [exists : BOOLEAN, lines : Files]
Tokens(v) == [k \in MCKeys |-> IF k = "GITHUB_TOKEN" THEN v ELSE Unset]
MCSettings ==
  [flags : {Tokens(v) : v \in {Unset, v1}}, env : {Tokens(v) : v \in {Unset, v2}},
   named : {<<>>} \cup {<<f>> : f \in AFile}, usual : {<<>>}]
  \cup [flags : {Tokens(Unset)}, env : {Tokens(Unset)}, named : {<<>>},
        usual : {<<f, g>> : f \in [exists : BOOLEAN, lines : {<<Set(v1)>>}],
                            g \in [exists : BOOLEAN, lines : {<<Set(v2)>>}]}]
===============================================================================
