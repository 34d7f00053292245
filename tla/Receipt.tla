------------------------------ MODULE Receipt ------------------------------
(***************************************************************************)
(* Receipt verification (internal/receipt/service.go): the worker fetches  *)
(* the signed receipt of a run, checks it against the binding it built     *)
(* from its own projection, and stores a verdict.  Only a verified receipt *)
(* ends the pass.  The first stored verdict is final.                      *)
(*                                                                         *)
(* The receipt is genuine.  Of the claims checkBinding compares, the model *)
(* keeps the outcome, the mission versions and the expansion decisions;    *)
(* the signature, the key history and the repository claims are left out.  *)
(***************************************************************************)
EXTENDS Projection, Expansion

VARIABLE view   \* receipt_views: the stored verdict

Verdicts == {"none", "verified", "unverifiable"}

Outcomes(upto) == {n \in 1 .. upto : log[n].type \in {"run_succeeded", "run_failed"}}

(* The latest run outcome among the first events of the log.               *)
Outcome(upto) ==
    LET seen == Outcomes(upto) IN
    IF seen = {} THEN "none"
    ELSE log[CHOOSE n \in seen : \A m \in seen : m =< n].type

(* What the projection holds: the events up to the cursor, and the         *)
(* completed expansion intents.                                            *)
buildBinding ==
    [outcome  |-> Outcome(proj.cursor),
     versions |-> {log[n].ver : n \in 1 .. proj.cursor},
     refs     |-> {e \in Expansions : decideIntent[e].state = "completed"}]

(* What the authority signed: the run's outcome, the versions its events   *)
(* carried, the decisions it took.  It no longer changes once it is ready, *)
(* so reading the binding and fetching the receipt are one step.           *)
SignedReceipt ==
    [outcome  |-> Outcome(Len(log)),
     versions |-> {log[n].ver : n \in {n \in 1 .. Len(log) : log[n].type # "mission_revoked"}},
     refs     |-> {e \in Expansions : requested[e].status \in {"approved", "denied"}}]

(* Mutant of Verify: the binding is not compared.                          *)
VerifyAny(binding) == "verified"

Verify(binding) == IF binding = SignedReceipt THEN "verified" ELSE "unverifiable"

(* Phases 1 and 2 of VerifyReceipt.  The binding is read while the pass is *)
(* outcome_pending and no verdict is stored.                               *)
VerifyReceipt(w) ==
    /\ work[w].phase = "receipts"
    /\ pass.state = "outcome_pending" /\ view = "none" /\ mission.receipt
    /\ work' = [work EXCEPT ![w].phase = "verdict", ![w].verdict = Verify(buildBinding)]
    /\ UNCHANGED <<missionVars, proj, view, expansionVars>>

(* Nothing to verify, no receipt upstream yet, or the fetch fails.         *)
NoReceipt(w) ==
    /\ work[w].phase = "receipts"
    /\ Phase(w, "revocations")
    /\ UNCHANGED <<missionVars, proj, view, expansionVars>>

(* Phase 3: the first verdict wins, and ends a pass still outcome_pending. *)
StoreVerdict(w) ==
    /\ work[w].phase = "verdict"
    /\ IF view # "none" THEN UNCHANGED <<view, pass>>
       ELSE /\ view' = work[w].verdict
            /\ pass' = IF work[w].verdict = "verified" /\ pass.state = "outcome_pending"
                       THEN [pass EXCEPT !.state = IF SignedReceipt.outcome = "run_succeeded"
                                                   THEN "completed" ELSE "failed",
                                         !.recon = "settled"]
                       ELSE pass
    /\ Phase(w, "revocations")
    /\ UNCHANGED <<mission, log, proj, expansionVars>>

=============================================================================
