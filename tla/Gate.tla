-------------------------------- MODULE Gate --------------------------------
(***************************************************************************)
(* The live compatibility gate (internal/coreapi/compatibility.go) and the *)
(* authority client it guards (GatedAuthority, client.go): mutations of    *)
(* the authority are refused unless the deployed core was verified in the  *)
(* last thirty seconds and no unknown event type has latched the gate.     *)
(* Reads pass through.                                                     *)
(*                                                                         *)
(* The gate lives in memory.  Time is abstracted to whether the last       *)
(* verification is still fresh; what one verification compares (contract,  *)
(* workspace, identity digest) to whether it succeeds.                     *)
(* ClearProjectionIncompatible has no caller and is left out.              *)
(***************************************************************************)
VARIABLE gate   \* fresh: verified in the last thirty seconds; blocked: latched

GateState == [fresh : BOOLEAN, blocked : BOOLEAN]

NewGate == [fresh |-> FALSE, blocked |-> FALSE]

Healthy == gate.fresh /\ ~gate.blocked

(* Verify succeeds, at start or on the refresher's tick; the latch stays.  *)
(* A failure leaves the time of the last success untouched and is a        *)
(* stuttering step.                                                        *)
Verify == gate' = [gate EXCEPT !.fresh = TRUE]

(* gateMaxStale passes without a successful verification.                  *)
GateDecays ==
    /\ gate.fresh
    /\ gate' = [gate EXCEPT !.fresh = FALSE]

NoteProjectionIncompatible == gate' = [gate EXCEPT !.blocked = TRUE]

(* GatedAuthority: what every mutating call asks first.                    *)
checkMutation == Healthy

=============================================================================
