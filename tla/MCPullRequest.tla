---------------------------- MODULE MCPullRequest ----------------------------
(***************************************************************************)
(* PullRequest on a small instance.  Branches and paths are model values;  *)
(* nothing tells one branch or one path from another.                      *)
(***************************************************************************)
EXTENDS PullRequest, TLC

Symmetry == Permutations(Branches) \cup Permutations(Paths)
=============================================================================
