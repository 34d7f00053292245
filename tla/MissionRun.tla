---------------------------- MODULE MissionRun ----------------------------
(***************************************************************************)
(* A running mission: founder requests that revoke it or decide its        *)
(* expansions, the reconciliation worker that projects events, verifies    *)
(* the receipt and reconciles intents, and the authority, all interleaved  *)
(* over one row of the store.                                              *)
(***************************************************************************)
EXTENDS Receipt, CLIRevocation

CONSTANT MaxCrashes   \* bound: how often the process may stop

ASSUME MaxCrashesAssumption == MaxCrashes \in Nat

VARIABLES todo,     \* per worker, the expansion intents its sweep has listed
          crashes

vars == <<missionVars, projectionVars, revocationVars, cliVars, expansionVars, view, todo,
          crashes>>

TypeOK ==
    /\ MissionTypeOK
    /\ ProjectionTypeOK
    /\ RevocationTypeOK
    /\ CLIRevocationTypeOK
    /\ ExpansionTypeOK
    /\ view \in Verdicts
    /\ todo \in [Workers -> SUBSET Expansions]
    /\ crashes \in 0 .. MaxCrashes

Init ==
    /\ MissionInit
    /\ ProjectionInit
    /\ RevocationInit
    /\ CLIRevocationInit
    /\ ExpansionInit
    /\ view = "none"
    /\ todo = [w \in Workers |-> {}]
    /\ crashes = 0

-----------------------------------------------------------------------------
Authority ==
    /\ \/ RunnerStep /\ UNCHANGED <<revocationVars, expansionVars>>
       \/ RevokeCallArrivesLate /\ UNCHANGED expansionVars
       \/ /\ \/ \E e \in Expansions : RequestExpansion(e) \/ ExpansionLapses(e)
             \/ DecideCallArrivesLate
          /\ UNCHANGED revocationVars
    /\ UNCHANGED <<cliVars, projectionVars, view, todo, crashes>>

RevokeRequest ==
    /\ \/ /\ \E c \in RevokeChallenges, reason \in Reasons : RevokeBegin(c, reason)
          /\ UNCHANGED cliVars
       \/ \E h \in Revokers, c \in RevokeChallenges, i \in CLIs \cup {NoCLI} :
              handleRevokeFinish(h, c, i)
       \/ \E i \in CLIs : CLIStep(i)
    /\ UNCHANGED <<projectionVars, expansionVars, view, todo, crashes>>

RevokeProgress(a) ==
    /\ \/ RevokerStep(a) /\ UNCHANGED cliVars
       \/ a \in Revokers /\ AnswerFinish(a)
    /\ UNCHANGED <<projectionVars, expansionVars, view, todo, crashes>>

DecideRequest ==
    /\ \E h \in Deciders :
          \/ StartSync(h, NoBinding)
          \/ \E e \in Expansions, d \in Decisions :
                StartSync(h, [exp |-> e, ver |-> 0, decision |-> d])
          \/ \E c \in DecideChallenges : FinishDecision(h, c)
    /\ UNCHANGED <<projectionVars, revocationVars, cliVars, view, todo, crashes>>

DecideProgress(a) ==
    DeciderStep(a) /\ UNCHANGED <<projectionVars, revocationVars, cliVars, view, todo, crashes>>

(* reconcileRevocations and reconcileExpansions: the intents in flight are *)
(* listed, and each is reconciled to its end before the sweep goes on.     *)
ReconcileRevocations(w) ==
    /\ work[w].phase = "revocations"
    /\ WorkerReconcilesRevocation(w)
    /\ Phase(w, "list")
    /\ UNCHANGED <<proj, cliVars, expansionVars, view, todo, crashes>>

ListExpansionIntents(w) ==
    /\ work[w].phase = "list"
    /\ revokeReq[w].pc = "idle"
    /\ Phase(w, "expansions")
    /\ todo' = [todo EXCEPT ![w] = {e \in Expansions : decideIntent[e].state = "in_flight"}]
    /\ UNCHANGED <<missionVars, proj, revocationVars, cliVars, expansionVars, view, crashes>>

ReconcileExpansions(w) ==
    /\ work[w].phase = "expansions"
    /\ decideReq[w].pc = "idle"
    /\ \/ \E e \in todo[w] : /\ WorkerReconcilesExpansion(w, e)
                            /\ todo' = [todo EXCEPT ![w] = @ \ {e}]
                            /\ UNCHANGED work
       \/ /\ todo[w] = {}
          /\ Phase(w, "idle")
          /\ UNCHANGED <<missionVars, expansionVars, todo>>
    /\ UNCHANGED <<proj, revocationVars, cliVars, view, crashes>>

Sweep(w) ==
    \/ /\ ProjectionStep(w)
       /\ UNCHANGED <<revocationVars, cliVars, expansionVars, view, todo, crashes>>
    \/ /\ VerifyReceipt(w) \/ NoReceipt(w) \/ StoreVerdict(w)
       /\ UNCHANGED <<revocationVars, cliVars, todo, crashes>>
    \/ ReconcileRevocations(w)
    \/ ListExpansionIntents(w)
    \/ ReconcileExpansions(w)

(* The process stops and starts again.                                     *)
Crash ==
    /\ crashes < MaxCrashes
    /\ crashes' = crashes + 1
    /\ work' = [w \in Workers |-> Resting]
    /\ todo' = [w \in Workers |-> {}]
    /\ revokeReq' = [a \in Revokers \cup Workers |-> RevokeIdle]
    /\ serves' = [h \in Revokers |-> NoCLI]
    /\ decideReq' = [a \in Deciders \cup Workers |-> DecideIdle]
    /\ revokeBegun' = [c \in RevokeChallenges |->
                          IF revokeBegun[c] = NoRevokeDigest THEN NoRevokeDigest ELSE UsedRevoke]
    /\ decideBegun' = [c \in DecideChallenges |->
                          IF decideBegun[c] = NoBinding THEN NoBinding ELSE UsedBinding]
    /\ UNCHANGED <<missionVars, proj, revokeIntent, revokeCalls, revokeLate, requested,
                   cliRow, cli, expansion, decideIntent, decideCalls, decideLate, view>>

Next ==
    \/ Authority
    \/ RevokeRequest
    \/ DecideRequest
    \/ \E a \in Revokers \cup Workers : RevokeProgress(a)
    \/ \E a \in Deciders \cup Workers : DecideProgress(a)
    \/ \E w \in Workers : Sweep(w)
    \/ Crash

Spec == Init /\ [][Next]_vars

(* Fairness.  A request that was started runs on, and the worker polls for *)
(* as long as the server runs.  An authority that is read again and again  *)
(* answers again and again: strong fairness of the four reads the worker   *)
(* repeats in every sweep.  Nothing is assumed of founders, of the runner, *)
(* of mutating calls or of crashes.                                        *)
EventsAnswered(w) ==
    ReadEvents(w) /\ UNCHANGED <<revocationVars, cliVars, expansionVars, view, todo, crashes>>

ReceiptAnswered(w) == VerifyReceipt(w) /\ UNCHANGED <<revocationVars, cliVars, todo, crashes>>

RevocationAnswered(w) ==
    QueryRevocation(w) /\ UNCHANGED <<projectionVars, cliVars, expansionVars, view, todo, crashes>>

ExpansionAnswered(w) ==
    QueryExpansion(w) /\ UNCHANGED <<projectionVars, revocationVars, cliVars, view, todo, crashes>>

Fairness ==
    /\ \A a \in Revokers \cup Workers : WF_vars(RevokeProgress(a))
    /\ \A a \in Deciders \cup Workers : WF_vars(DecideProgress(a))
    /\ \A w \in Workers : /\ WF_vars(Sweep(w))
                          /\ SF_vars(EventsAnswered(w))
                          /\ SF_vars(ReceiptAnswered(w))
                          /\ SF_vars(RevocationAnswered(w))
                          /\ SF_vars(ExpansionAnswered(w))

FairSpec == Spec /\ Fairness

(* A founder whose page lists the expansions again and again.              *)
ListPending(h) ==
    /\ StartSync(h, NoBinding)
    /\ UNCHANGED <<projectionVars, revocationVars, cliVars, view, todo, crashes>>

ListingSpec == FairSpec /\ \A h \in Deciders : SF_vars(ListPending(h))

-----------------------------------------------------------------------------
(* What holds.                                                             *)

(* revokeOnce: however web, CLI and worker interleave, and across crashes, *)
(* RevokeMission is called at most once for a pass.                        *)
OneRevokeCall == revokeCalls =< 1

(* decideOnce: DecideExpansion is called at most once for an expansion.    *)
OneDecideCall == \A e \in Expansions : decideCalls[e] =< 1

(* The row claims an acknowledged containment only when the authority      *)
(* acknowledged it (mapContainment and ReconcileRevocation).               *)
ContainmentHonest == pass.cont = "acknowledged" => mission.cont = "acknowledged"

(* A pass shown as revoked is revoked at the authority, whichever of       *)
(* request, worker and event projection recorded it.                       *)
RevokedMeansUpstream == pass.state = "revoked" => mission.state = "revoked"

(* What the revoke command reports is true: an intent was written, a       *)
(* containment the gateway confirmed was confirmed, and a partial one      *)
(* belongs to a mission the authority revoked (MintResult, Exchange).      *)
CLIReportsTruth ==
    \A c \in CLIs : cli[c].report # "none" =>
        /\ revokeIntent.state # "none"
        /\ cli[c].report = "acknowledged" => mission.cont = "acknowledged"
        /\ cli[c].report = "partial" => mission.state = "revoked"

(* A pass that ended with an outcome has a verified receipt, the outcome   *)
(* of the run, and a local record of exactly the decisions the authority   *)
(* took (VerifyReceipt, checkBinding).                                     *)
EndedPassAgrees ==
    pass.state \in {"completed", "failed"} =>
        /\ view = "verified"
        /\ SignedReceipt.outcome = IF pass.state = "completed" THEN "run_succeeded"
                                                               ELSE "run_failed"
        /\ buildBinding.refs = SignedReceipt.refs

(* A completed expansion intent records what the authority decided, and so *)
(* does the expansions row (settleDecision, reconcileLocked).              *)
DecisionRecordedAsDecided ==
    \A e \in Expansions : decideIntent[e].state = "completed" =>
        /\ expansion[e] = requested[e].status
        /\ requested[e].status = IF decideIntent[e].binding.decision = "approve_once"
                                 THEN "approved" ELSE "denied"

(* The mission version of the row, which every binding pins, never moves   *)
(* back (settleDecision) and is never ahead of the authority.              *)
MissionVersionAdvances == [][pass'.mver >= pass.mver /\ pass'.mver =< mission'.ver]_vars

(* Without expansions the pass moves only as the transition table allows.  *)
L == INSTANCE Lifecycle WITH state <- pass.state
FollowsLifecycle == L!Spec

(* Once a mission that asked for no expansion is over at the authority,    *)
(* the worker ends the pass: by its events, its receipt or its intent.     *)
MissionEndEndsPass ==
    /\ mission.state \in {"revoked", "expired"} \/ mission.receipt
    /\ \A e \in Expansions : requested[e].status = "none"
    ~> isTerminalPassState(pass.state)

-----------------------------------------------------------------------------
(* What the repository says and the code does not do.                      *)

(* "Terminal states never transition": model.go and the design.            *)
TerminalStaysTerminal == [][isTerminalPassState(pass.state) => pass'.state = pass.state]_vars

(* ListPending "syncs the local expansions table from the authoritative    *)
(* upstream first, so the browser always sees the live delta": service.go. *)
(* For a founder who keeps listing, a request that stays pending at the    *)
(* authority is pending in the table in the end.                           *)
PendingIsShown ==
    \A e \in Expansions :
        requested[e].status = "pending" ~>
            (expansion[e] = "pending" \/ requested[e].status # "pending")

=============================================================================
