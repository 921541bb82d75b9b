---------------------------- MODULE MCForkPipeline ----------------------------
(***************************************************************************)
(* Instances of ForkPipeline for TLC.                                      *)
(***************************************************************************)
EXTENDS ForkPipeline, TLC

CONSTANTS a, hub1, lab1, lab2

\* GitHub has a repository, GitLab two of the same name, one of them in a subgroup.
TwoHosts == [p \in {"github", "gitlab"} |-> IF p = "github" THEN <<hub1>> ELSE <<lab1, lab2>>]
LabOnly  == [p \in {"gitlab"} |-> <<lab1>>]
SameName == [r \in Repos |-> a]
===============================================================================
