------------------------------ MODULE MCGitHub ------------------------------
(***************************************************************************)
(* Instances of GitHubHandoff for TLC.                                     *)
(***************************************************************************)
EXTENDS GitHubHandoff, TLC

Symmetry == Permutations(Requests) \cup Permutations(Handoffs) \cup Permutations(Keys)
                \cup Permutations(Codes)

=============================================================================
