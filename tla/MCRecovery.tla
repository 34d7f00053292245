----------------------------- MODULE MCRecovery -----------------------------
(***************************************************************************)
(* Instances of Recovery for TLC.                                          *)
(***************************************************************************)
EXTENDS Recovery, TLC

Symmetry == Permutations(Requests) \cup Permutations(Boots) \cup Permutations(Creds)
                \cup Permutations(Missions)

(* Bound: a ceremony still open after another one enrolled the founder can *)
(* only fail, its code is consumed.  It is followed until the workspace    *)
(* has a mission or a CLI hand-off.                                        *)
LeftOver(b) ==
    /\ founders # {} /\ boot[b] # NoBoot
    /\ \A r \in Requests : areq[r].boot # b

LeftOversEnd ==
    (\E b \in Boots : LeftOver(b)) => handoffs = {} /\ \A m \in Missions : mission[m] = "none"

=============================================================================
