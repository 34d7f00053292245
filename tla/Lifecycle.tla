---------------------------- MODULE Lifecycle ----------------------------
(***************************************************************************)
(* What the services of a mission promise of its pass: the state moves     *)
(* only along the transition table of internal/missionpass/model.go, so a  *)
(* completed, failed, revoked or expired pass stays as it is.              *)
(***************************************************************************)
EXTENDS PassStates

VARIABLE state

Init == state \in PassState

Next == state' \in passTransitions[state]

Spec == Init /\ [][Next]_state

=============================================================================
