---------------------------- MODULE MCUserPrograms ----------------------------
(* Names a user types: a file, the name its copy would get, and none at all.  *)
EXTENDS SolutionList, TLC

Names == {[base |-> "a", copies |-> 0], [base |-> "a", copies |-> 1], EmptyName}
Symmetric == Permutations(Request) \cup Permutations(Source)
================================================================================
