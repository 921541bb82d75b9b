----------------------------- MODULE MCCloneTask ------------------------------
(***************************************************************************)
(* Instances of CloneTask for TLC.                                         *)
(***************************************************************************)
EXTENDS CloneTask, TLC

CONSTANTS outer, inner, other

\* Project inner lies inside outer, other beside them.
Nesting == [p \in Repos |-> IF p = outer THEN {inner} ELSE {}]
Flat    == [p \in Repos |-> {}]
===============================================================================
