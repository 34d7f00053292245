------------------------------ MODULE MCLaunch ------------------------------
(***************************************************************************)
(* Instances of Launch for TLC.                                            *)
(***************************************************************************)
EXTENDS Launch, TLC

Symmetry == Permutations(Authorizations) \cup Permutations(Ceremonies)
                \cup Permutations(Exchanges)

=============================================================================
