---------------------------- MODULE MCCloneManager ----------------------------
(***************************************************************************)
(* Instances of CloneManager for TLC.                                      *)
(***************************************************************************)
EXTENDS CloneManager, TLC

CONSTANTS r1, r2

TwoRepos == <<r1, r2>>
TwoRepoJobs       == {r1, r2} \X (1..1)
TwoRepoJobsTwice  == {r1, r2} \X (1..2)
Unset == [j \in Jobs |-> 0]

=============================================================================
