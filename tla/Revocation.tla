---------------------------- MODULE Revocation ----------------------------
(***************************************************************************)
(* Revoking a mission (internal/missionpass/revoke.go).                    *)
(*                                                                         *)
(* A founder begins a ceremony that pins the mission version and a reason, *)
(* and finishes it.  revokeOnce runs under a mutex of the pass: it writes  *)
(* an intent, calls the authority once, and settles the row and the intent *)
(* in one transaction.  An intent already in flight is reconciled, never   *)
(* re-issued.  The worker reconciles in-flight intents too, without the    *)
(* mutex.                                                                  *)
(***************************************************************************)
EXTENDS Mission

CONSTANTS Revokers,          \* concurrent finish requests, from web and CLI
          RevokeChallenges,  \* the ceremonies that may be begun
          Reasons            \* the normalized reason codes

VARIABLES revokeBegun,   \* per ceremony, the binding of its challenge, in memory
          revokeIntent,  \* the revocation_intents row
          revokeReq,     \* per request or worker, its program counter and data
          revokeCalls,   \* history: RevokeMission calls issued for this pass
          revokeLate     \* a RevokeMission call still under way, its caller gone

revocationVars == <<revokeBegun, revokeIntent, revokeReq, revokeCalls, revokeLate>>

RevokeDigest   == [ver : Nat, reason : Reasons \cup {"none", "used"}]
NoRevokeDigest == [ver |-> 0, reason |-> "none"]
UsedRevoke     == [ver |-> 0, reason |-> "used"]   \* a ceremony runs once
NoRevokeIntent == [state |-> "none", digest |-> NoRevokeDigest, cont |-> "none"]

RevokePCs == {"idle", "lock", "put", "call", "mark", "settle",
              "reconcile", "read", "query", "answer"}

(* What revokeOnce returns: a containment; "unknown" is ErrRevokePending,  *)
(* "null" a nil result without an error, "error" any other error.          *)
RevokeOutcomes == Containment \cup {"unknown", "null", "error"}

RevokeIdle == [pc |-> "idle", digest |-> NoRevokeDigest, cont |-> "none"]

RevocationTypeOK ==
    /\ revokeBegun \in [RevokeChallenges -> RevokeDigest]
    /\ revokeIntent \in [state : {"none", "in_flight", "completed"},
                         digest : RevokeDigest, cont : Containment]
    /\ revokeReq \in [Revokers \cup Workers ->
                        [pc : RevokePCs, digest : RevokeDigest, cont : RevokeOutcomes]]
    /\ revokeCalls \in Nat
    /\ revokeLate \in BOOLEAN

RevocationInit ==
    /\ revokeBegun = [c \in RevokeChallenges |-> NoRevokeDigest]
    /\ revokeIntent = NoRevokeIntent
    /\ revokeReq = [a \in Revokers \cup Workers |-> RevokeIdle]
    /\ revokeCalls = 0
    /\ revokeLate = FALSE

RGoto(a, label) == revokeReq' = [revokeReq EXCEPT ![a].pc = label]

(* The worker drops what ReconcileRevocation returns, a request answers it. *)
RReturn(a, outcome) ==
    revokeReq' = [revokeReq EXCEPT ![a] = IF a \in Workers THEN RevokeIdle
                      ELSE [RevokeIdle EXCEPT !.pc = "answer", !.cont = outcome]]

(* The request that is past lockFor(pass).Lock().                          *)
RevokeLocked == \E h \in Revokers : revokeReq[h].pc \notin {"idle", "lock", "answer"}

-----------------------------------------------------------------------------
(* The ceremony.                                                           *)

RevokeBegin(c, reason) ==
    /\ revokeBegun[c] = NoRevokeDigest
    /\ Revocable(pass.state)
    /\ revokeBegun' = [revokeBegun EXCEPT ![c] = [ver |-> pass.mver, reason |-> reason]]
    /\ UNCHANGED <<missionVars, revokeIntent, revokeReq, revokeCalls, revokeLate>>

(* The binding still holds, also for a pass revoked meanwhile; the         *)
(* ceremony is consumed, and the assertion verifies or not.                *)
RevokeFinish(h, c) ==
    /\ revokeReq[h].pc = "idle"
    /\ revokeBegun[c] \notin {NoRevokeDigest, UsedRevoke}
    /\ revokeBegun[c].ver = pass.mver
    /\ pass.state = "revoked" \/ Revocable(pass.state)
    /\ revokeBegun' = [revokeBegun EXCEPT ![c] = UsedRevoke]
    /\ \/ revokeReq' = [revokeReq EXCEPT ![h] = [pc |-> "lock", digest |-> revokeBegun[c],
                                                 cont |-> "none"]]
       \/ UNCHANGED revokeReq
    /\ UNCHANGED <<missionVars, revokeIntent, revokeCalls, revokeLate>>

-----------------------------------------------------------------------------
(* revokeOnce.                                                             *)

(* Mutant of RevokeLock: finishes of one pass are not serialised.          *)
RevokeLockFree(h) ==
    /\ revokeReq[h].pc = "lock"
    /\ CASE revokeIntent.state = "none" -> RGoto(h, "put")
         [] revokeIntent.state = "in_flight" /\ revokeIntent.digest = revokeReq[h].digest ->
              RGoto(h, "reconcile")
         [] revokeIntent.state = "completed" -> RReturn(h, revokeIntent.cont)
         [] OTHER -> RReturn(h, "error")
    /\ UNCHANGED <<missionVars, revokeBegun, revokeIntent, revokeCalls, revokeLate>>

(* The mutex is taken and the intent read: a completed one is replayed, an *)
(* in-flight one with this binding is reconciled, with another refused.    *)
RevokeLock(h) ==
    /\ revokeReq[h].pc = "lock"
    /\ ~RevokeLocked
    /\ CASE revokeIntent.state = "none" -> RGoto(h, "put")
         [] revokeIntent.state = "in_flight" /\ revokeIntent.digest = revokeReq[h].digest ->
              RGoto(h, "reconcile")
         [] revokeIntent.state = "completed" -> RReturn(h, revokeIntent.cont)
         [] OTHER -> RReturn(h, "error")
    /\ UNCHANGED <<missionVars, revokeBegun, revokeIntent, revokeCalls, revokeLate>>

(* putRevocationIntent overwrites an intent in flight and refuses a        *)
(* completed one, which is then reconciled.                                *)
PutRevocationIntent(h) ==
    /\ revokeReq[h].pc = "put"
    /\ IF revokeIntent.state = "completed"
       THEN RGoto(h, "reconcile") /\ UNCHANGED revokeIntent
       ELSE /\ revokeIntent' = [state |-> "in_flight", digest |-> revokeReq[h].digest,
                                cont |-> "none"]
            /\ RGoto(h, "call")
    /\ UNCHANGED <<missionVars, revokeBegun, revokeCalls, revokeLate>>

(* The authority revokes the mission, which ends it, moves its version and *)
(* logs the event; the containment is what its gateway acknowledged.       *)
ApplyRevoke(cont) ==
    /\ mission' = [mission EXCEPT !.state = "revoked", !.ver = @ + 1, !.cont = cont]
    /\ Emit("mission_revoked", mission.ver + 1)

(* Mutant of mapContainment: the authority's word is taken as it is.       *)
mapContainmentVerbatim(upstream) == upstream

(* Anything but an explicit acknowledgement stays pending.                 *)
mapContainment(upstream) ==
    IF upstream \in {"acknowledged", "partial"} THEN upstream ELSE "pending"

RevokeMissionAnswered(h) ==
    /\ revokeReq[h].pc = "call"
    /\ mission.state # "revoked"
    /\ \E cont \in Answers :
          /\ ApplyRevoke(cont)
          /\ revokeReq' = [revokeReq EXCEPT ![h].pc = "settle",
                                            ![h].cont = mapContainment(cont)]
    /\ revokeCalls' = revokeCalls + 1
    /\ UNCHANGED <<pass, revokeBegun, revokeIntent, revokeLate>>

(* The call fails after it was applied, with the request under way, or     *)
(* lost or refused.  An ambiguous error marks the pass pending; any other  *)
(* returns with the intent in flight.                                      *)
RevokeMissionFailed(h) ==
    /\ revokeReq[h].pc = "call"
    /\ \/ /\ mission.state # "revoked"
          /\ \E cont \in Answers : ApplyRevoke(cont)
          /\ UNCHANGED revokeLate
       \/ revokeLate' = TRUE /\ UNCHANGED <<mission, log>>
       \/ UNCHANGED <<mission, log, revokeLate>>
    /\ RGoto(h, "mark") \/ RReturn(h, "error")
    /\ revokeCalls' = revokeCalls + 1
    /\ UNCHANGED <<pass, revokeBegun, revokeIntent>>

RevokeCallArrivesLate ==
    /\ revokeLate
    /\ revokeLate' = FALSE
    /\ IF mission.state = "revoked" THEN UNCHANGED <<mission, log>>
                                    ELSE \E cont \in Answers : ApplyRevoke(cont)
    /\ UNCHANGED <<pass, revokeBegun, revokeIntent, revokeReq, revokeCalls>>

(* Mutant of markRevokePending: an unanswered call is taken for done.      *)
markRevokePendingAsRevoked(h) ==
    /\ revokeReq[h].pc = "mark"
    /\ pass' = [pass EXCEPT !.state = "revoked", !.recon = "pending"]
    /\ RReturn(h, "unknown")
    /\ UNCHANGED <<mission, log, revokeBegun, revokeIntent, revokeCalls, revokeLate>>

(* The pass keeps its state; only its reconciliation and a containment not *)
(* yet known become pending.                                               *)
markRevokePending(h) ==
    /\ revokeReq[h].pc = "mark"
    /\ pass' = [pass EXCEPT !.recon = "pending",
                            !.cont = IF @ = "none" THEN "pending" ELSE @]
    /\ RReturn(h, "unknown")
    /\ UNCHANGED <<mission, log, revokeBegun, revokeIntent, revokeCalls, revokeLate>>

(* Mutant of settleRevocation: any state may become revoked.               *)
settleRevocationAnyState(a) ==
    /\ revokeReq[a].pc = "settle"
    /\ IF revokeIntent.state = "in_flight"
       THEN /\ pass' = [pass EXCEPT !.state = "revoked", !.cont = revokeReq[a].cont,
                                    !.recon = "settled"]
            /\ revokeIntent' = [revokeIntent EXCEPT !.state = "completed",
                                                    !.cont = revokeReq[a].cont]
            /\ RReturn(a, revokeReq[a].cont)
       ELSE RReturn(a, "error") /\ UNCHANGED <<pass, revokeIntent>>
    /\ UNCHANGED <<mission, log, revokeBegun, revokeCalls, revokeLate>>

(* settleRevocation: row and intent in one transaction, which rolls back   *)
(* when the pass is neither revoked nor revocable, or the intent is        *)
(* completed already.                                                      *)
settleRevocation(a) ==
    /\ revokeReq[a].pc = "settle"
    /\ IF /\ pass.state = "revoked" \/ Revocable(pass.state)
          /\ revokeIntent.state = "in_flight"
       THEN /\ pass' = [pass EXCEPT !.state = "revoked", !.cont = revokeReq[a].cont,
                                    !.recon = "settled"]
            /\ revokeIntent' = [revokeIntent EXCEPT !.state = "completed",
                                                    !.cont = revokeReq[a].cont]
            /\ RReturn(a, revokeReq[a].cont)
       ELSE RReturn(a, "error") /\ UNCHANGED <<pass, revokeIntent>>
    /\ UNCHANGED <<mission, log, revokeBegun, revokeCalls, revokeLate>>

-----------------------------------------------------------------------------
(* ReconcileRevocation, from a request that holds the mutex or from the    *)
(* worker, which does not.  A read of the timeline calls it without the    *)
(* mutex too, and what it does to a revocation is this action: it is one   *)
(* more member of Workers.                                                 *)

WorkerReconcilesRevocation(w) ==
    /\ revokeReq[w].pc = "idle"
    /\ IF revokeIntent.state = "in_flight" THEN RGoto(w, "reconcile")
                                           ELSE UNCHANGED revokeReq
    /\ UNCHANGED <<missionVars, revokeBegun, revokeIntent, revokeCalls, revokeLate>>

ReconcileRevocation(a) ==
    /\ revokeReq[a].pc = "reconcile"
    /\ IF pass.state = "revoked" /\ pass.recon = "settled" THEN RReturn(a, "null")
                                                          ELSE RGoto(a, "read")
    /\ UNCHANGED <<missionVars, revokeBegun, revokeIntent, revokeCalls, revokeLate>>

ReadRevocationIntent(a) ==
    /\ revokeReq[a].pc = "read"
    /\ IF revokeIntent.state = "in_flight" THEN RGoto(a, "query")
                                           ELSE RReturn(a, "null")
    /\ UNCHANGED <<missionVars, revokeBegun, revokeIntent, revokeCalls, revokeLate>>

(* Mutant of QueryRevocation: a completed operation is taken for an        *)
(* acknowledged containment.                                               *)
QueryRevocationAcknowledges(a) ==
    /\ revokeReq[a].pc = "query"
    /\ mission.state = "revoked"
    /\ revokeReq' = [revokeReq EXCEPT ![a].pc = "settle", ![a].cont = "acknowledged"]
    /\ UNCHANGED <<missionVars, revokeBegun, revokeIntent, revokeCalls, revokeLate>>

(* The operation completed under the intent's key.                         *)
QueryRevocation(a) ==
    /\ revokeReq[a].pc = "query"
    /\ mission.state = "revoked"
    /\ revokeReq' = [revokeReq EXCEPT ![a].pc = "settle", ![a].cont = "pending"]
    /\ UNCHANGED <<missionVars, revokeBegun, revokeIntent, revokeCalls, revokeLate>>

(* The lookup fails, or finds the operation unfinished.                    *)
QueryRevocationFailed(a) ==
    /\ revokeReq[a].pc = "query"
    /\ RReturn(a, "error") \/ RReturn(a, "null")
    /\ UNCHANGED <<missionVars, revokeBegun, revokeIntent, revokeCalls, revokeLate>>

RevokerStep(a) ==
    \/ RevokeLock(a) \/ PutRevocationIntent(a)
    \/ RevokeMissionAnswered(a) \/ RevokeMissionFailed(a)
    \/ markRevokePending(a) \/ settleRevocation(a)
    \/ ReconcileRevocation(a) \/ ReadRevocationIntent(a)
    \/ QueryRevocation(a) \/ QueryRevocationFailed(a)

=============================================================================
