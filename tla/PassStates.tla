----------------------------- MODULE PassStates -----------------------------
(***************************************************************************)
(* The lifecycle states of a mission pass and its legal moves, from        *)
(* internal/missionpass/model.go.  A pass is one founder approval of one   *)
(* GitHub issue: it is drafted, approved by a passkey ceremony, launched,  *)
(* and ends completed, failed, revoked or expired.  Every service that     *)
(* writes the pass row imports these definitions.                          *)
(***************************************************************************)

PassState == {"draft", "approved", "launching", "running",
              "awaiting_expansion", "outcome_pending",
              "completed", "failed", "revoked", "expired"}

(* Whether the last upstream mutation of the pass has a known outcome.     *)
(* "disputed" is declared by the code and no code path writes it.          *)
ReconciliationState == {"settled", "pending", "disputed"}

(* The transition table, one row per non-terminal state.                   *)
passTransitions ==
    [s \in PassState |->
        CASE s = "draft"              -> {"approved", "expired"}
          [] s = "approved"           -> {"launching", "revoked", "expired"}
          [] s = "launching"          -> {"approved", "running", "revoked", "expired"}
          [] s = "running"            -> {"awaiting_expansion", "outcome_pending",
                                          "revoked", "expired"}
          [] s = "awaiting_expansion" -> {"running", "outcome_pending",
                                          "revoked", "expired"}
          [] s = "outcome_pending"    -> {"completed", "failed", "revoked"}
          [] OTHER                    -> {}]

(* Transition(from, to) of the code returns no error.                      *)
Transition(from, to) == from \in PassState /\ to \in passTransitions[from]

(* The states from which the founder may revoke the mission.               *)
Revocable(s) == s \in {"approved", "launching", "running",
                       "awaiting_expansion", "outcome_pending"}

isTerminalPassState(s) == s \in {"completed", "failed", "revoked", "expired"}

=============================================================================
