------------------------------ MODULE Mission ------------------------------
(***************************************************************************)
(* What the services of a running mission share: the mission_passes row    *)
(* in the SQLite store, and the mission at the AuthScope authority with    *)
(* its event log.  Revocation, Expansion, Projection and Receipt extend    *)
(* this module; MissionRun composes them.                                  *)
(*                                                                         *)
(* Every write of the row below happens inside a transaction that reads    *)
(* the row first, so store_revision never refuses it and is left out.      *)
(* The authority is external: it is modelled from how the services use it. *)
(***************************************************************************)
EXTENDS Integers, Sequences, PassStates

CONSTANTS Workers,   \* the reconciliation workers (one, as long as the lease holds)
          MaxEvents  \* bound: the authority logs no routine event past this many

ASSUME MaxEventsAssumption == MaxEvents \in Nat

VARIABLES pass,      \* the row: state, reconciliation, mission version, containment
          mission,   \* the authority: state, version and containment of the mission
          log        \* the authority: the mission's events, in order

missionVars == <<pass, mission, log>>

Containment == {"none", "pending", "partial", "acknowledged"}

(* What the authority may say of a containment; "other" stands for every   *)
(* word the code does not know.                                            *)
Answers == {"partial", "acknowledged", "other"}

PassRow == [state : PassState, recon : ReconciliationState, mver : Nat,
            cont : Containment]

EventTypes == {"mission_started", "action_checked", "expansion_requested",
               "run_succeeded", "run_failed", "mission_expired",
               "mission_revoked", "receipt_ready"}

Event == [type : EventTypes, ver : Nat]

MissionTypeOK ==
    /\ pass \in PassRow
    /\ mission \in [state : {"active", "ended", "expired", "revoked"}, ver : Nat,
                    cont : Answers \cup {"none"}, receipt : BOOLEAN]
    /\ log \in Seq(Event)

(* The pass runs its mission.  No code of this version moves a launching   *)
(* pass to running, so the row starts where the services expect it.        *)
MissionInit ==
    /\ pass = [state |-> "running", recon |-> "settled", mver |-> 1, cont |-> "none"]
    /\ mission = [state |-> "active", ver |-> 1, cont |-> "none", receipt |-> FALSE]
    /\ log = <<[type |-> "mission_started", ver |-> 1]>>

Emit(type, ver) == log' = Append(log, [type |-> type, ver |-> ver])

-----------------------------------------------------------------------------
(* The runner and the clock, as the authority reports them.                *)

ActionChecked ==
    /\ mission.state = "active"
    /\ Len(log) < MaxEvents
    /\ Emit("action_checked", mission.ver)
    /\ UNCHANGED <<pass, mission>>

RunEnds ==
    /\ mission.state = "active"
    /\ mission' = [mission EXCEPT !.state = "ended"]
    /\ \E type \in {"run_succeeded", "run_failed"} : Emit(type, mission.ver)
    /\ UNCHANGED pass

ReceiptReady ==
    /\ mission.state = "ended"
    /\ ~mission.receipt
    /\ mission' = [mission EXCEPT !.receipt = TRUE]
    /\ Emit("receipt_ready", mission.ver)
    /\ UNCHANGED pass

MissionExpires ==
    /\ mission.state = "active"
    /\ mission' = [mission EXCEPT !.state = "expired"]
    /\ Emit("mission_expired", mission.ver)
    /\ UNCHANGED pass

RunnerStep == ActionChecked \/ RunEnds \/ ReceiptReady \/ MissionExpires

=============================================================================
