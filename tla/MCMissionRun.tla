---------------------------- MODULE MCMissionRun ----------------------------
(* MissionRun for TLC: actors, expansions and ceremonies are model values. *)
EXTENDS MissionRun, TLC

Symmetry == Permutations(Expansions) \cup Permutations(Revokers)
                \cup Permutations(Syncers) \cup Permutations(Deciders \ Syncers)
                \cup Permutations(RevokeChallenges) \cup Permutations(DecideChallenges)

=============================================================================
