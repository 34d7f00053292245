------------------------------- MODULE Launch -------------------------------
(***************************************************************************)
(* The launch exchange of internal/launch/service.go: a CLI presents the   *)
(* code of an approved authorization, and the service prepares one         *)
(* governed run at the authority and moves the pass to launching.  A       *)
(* durable intent row, keyed by the hash of the code, is claimed before    *)
(* the call; retries, restarts and lost answers follow that row.           *)
(*                                                                         *)
(* A run is named by the code it was prepared under.  Sealed envelopes are *)
(* the run they hold.  A revocation of the pass interleaves: its two       *)
(* writes of the row are the environment of this module.                   *)
(***************************************************************************)
EXTENDS CLIAuthorization

CONSTANTS Exchanges,    \* concurrent exchange requests
          MaxRevision,  \* bound: a revocation marks the row pending below this revision
          MaxCrashes    \* bound: how often the process may stop

ASSUME LaunchAssumption == MaxRevision \in Nat /\ MaxCrashes \in Nat

VARIABLES intent,    \* launch_exchange_intents: status and run, per code
          aged,      \* codes whose intent was not updated for launchExchangeStaleAfter
          delivery,  \* memory: the sealed results cached for duplicate delivery
          xreq,      \* the exchange requests under way
          mission,   \* authority: revoked, version, and the run prepared
          late,      \* authority: PrepareLaunch calls still under way
          calls,     \* how often PrepareLaunch was called for an authorization
          answers,   \* the runs handed to the CLI for a code
          crashes

exchangeVars == <<intent, aged, delivery, xreq>>
upstreamVars == <<mission, late, calls>>
vars == <<pass, authorizationVars, exchangeVars, upstreamVars, answers, crashes>>

NoIntent == [status |-> "none", run |-> None]
Idle     == [pc |-> "idle", code |-> None, rev |-> 0, run |-> None]

PCs == {"idle", "validate", "introspect", "claim", "take", "prepare", "query",
        "adopt", "fail", "row", "recover", "orphan"}

TypeOK ==
    /\ AuthorizationTypeOK
    /\ intent \in [Codes -> [status : {"none", "in_flight", "completed", "failed", "expired"},
                             run : Codes \cup {None}]]
    /\ aged \subseteq Codes
    /\ delivery \in [Codes -> Codes \cup {None}]
    /\ xreq \in [Exchanges -> [pc : PCs, code : Codes \cup {None}, rev : Nat,
                               run : Codes \cup {None}]]
    /\ mission \in [revoked : BOOLEAN, ver : Nat, run : Codes \cup {None}]
    /\ late \subseteq Codes
    /\ calls \in [Authorizations -> Nat]
    /\ answers \in [Codes -> SUBSET Codes]
    /\ crashes \in 0 .. MaxCrashes

Init ==
    /\ AuthorizationInit
    /\ intent = [c \in Codes |-> NoIntent]
    /\ aged = {} /\ late = {}
    /\ delivery = [c \in Codes |-> None]
    /\ xreq = [h \in Exchanges |-> Idle]
    /\ mission = [revoked |-> FALSE, ver |-> 1, run |-> None]
    /\ calls = [a \in Authorizations |-> 0]
    /\ answers = [c \in Codes |-> {}]
    /\ crashes = 0

Goto(h, label) == xreq' = [xreq EXCEPT ![h].pc = label]
Return(h)      == xreq' = [xreq EXCEPT ![h] = Idle]

(* A step that moves nothing but its own request.                          *)
OnlyTheRequest ==
    UNCHANGED <<pass, authorizationVars, intent, aged, delivery, upstreamVars, answers, crashes>>

(* The authorization a code belongs to, found by its hash.                 *)
AuthOf(c) == ceremony[c].auth
Found(c)  == auth[AuthOf(c)].code = c

(* SettleLaunchExchangeIntent: only a row in flight settles; the row is    *)
(* fresh again.  Another rolls the transaction back, which does not happen *)
(* to the holder of the lock of the code: it wrote or read the row in      *)
(* flight.                                                                 *)
SettleLaunchExchangeIntent(c, status, run) ==
    IF intent[c].status = "in_flight"
    THEN /\ intent' = [intent EXCEPT ![c] = [status |-> status, run |-> run]]
         /\ aged' = aged \ {c}
    ELSE UNCHANGED <<intent, aged>>

-----------------------------------------------------------------------------
(* The lock of the code is taken and its intent row is read.               *)
ExchangeAndPrepare(h, c) ==
    /\ xreq[h] = Idle
    /\ ceremony[c].pc = "issued"
    /\ \A g \in Exchanges : xreq[g].code # c
    /\ xreq' = [xreq EXCEPT ![h].code = c,
                            ![h].pc = IF intent[c] = NoIntent THEN "validate" ELSE "row"]
    /\ OnlyTheRequest

checkPassBinding(c) ==
    /\ pass.state = "approved"
    /\ pass.mver = auth[AuthOf(c)].mver

(* A fresh code is checked against the pass before anything is consumed,   *)
(* then against the mission at the authority.                              *)
validateForExchange(h) ==
    /\ xreq[h].pc = "validate"
    /\ Found(xreq[h].code)
    /\ checkPassBinding(xreq[h].code)
    /\ xreq' = [xreq EXCEPT ![h].pc = "introspect", ![h].rev = pass.rev]
    /\ OnlyTheRequest

IntrospectMission(h) ==
    /\ xreq[h].pc = "introspect"
    /\ mission.ver = auth[AuthOf(xreq[h].code)].mver
    /\ Goto(h, "claim")
    /\ OnlyTheRequest

(* A check fails, a read fails, or the client is gone: nothing is written. *)
(* A request whose context is done cannot begin a transaction, so from the *)
(* claim on it leaves its row in flight.                                   *)
RequestEnds(h) ==
    /\ xreq[h].pc \in {"validate", "introspect", "claim", "query", "adopt", "fail",
                       "row", "recover", "orphan"}
    /\ Return(h)
    /\ OnlyTheRequest

ClaimLaunchExchangeIntent(h) ==
    LET c == xreq[h].code IN
    /\ xreq[h].pc = "claim"
    /\ IF intent[c] = NoIntent
       THEN /\ intent' = [intent EXCEPT ![c].status = "in_flight"]
            /\ Goto(h, "take")
       ELSE Goto(h, "row") /\ UNCHANGED intent
    /\ UNCHANGED <<pass, authorizationVars, aged, delivery, upstreamVars, answers, crashes>>

(* Take removes the attestation from the cache; a missing, expired or      *)
(* foreign one fails the exchange before any upstream request.             *)
Take(h) ==
    LET c == xreq[h].code  a == AuthOf(c) IN
    /\ xreq[h].pc = "take"
    /\ attested' = [attested EXCEPT ![a] = None]
    /\ \/ attested[a] = c /\ Goto(h, "prepare")
       \/ Goto(h, "fail")
    /\ UNCHANGED <<pass, auth, ceremony, intent, aged, delivery, upstreamVars, answers, crashes>>

(* The authority prepares one run per mission that is not revoked, which   *)
(* advances the mission's version.                                         *)
Preparable == mission.run = None /\ ~mission.revoked
ApplyPrepare(c) == mission' = [mission EXCEPT !.run = c, !.ver = @ + 1]

Called(h) == calls' = [calls EXCEPT ![AuthOf(xreq[h].code)] = @ + 1]

PrepareLaunchAnswered(h) ==
    LET c == xreq[h].code IN
    /\ xreq[h].pc = "prepare"
    /\ Preparable
    /\ ApplyPrepare(c)
    /\ Called(h)
    /\ xreq' = [xreq EXCEPT ![h].pc = "adopt", ![h].run = c]
    /\ UNCHANGED <<pass, authorizationVars, intent, aged, delivery, late, answers, crashes>>

PrepareLaunchDenied(h) ==
    /\ xreq[h].pc = "prepare"
    /\ Called(h)
    /\ Goto(h, "fail")
    /\ UNCHANGED <<pass, authorizationVars, intent, aged, delivery, mission, late, answers, crashes>>

(* The outcome is unknown: the call was applied, is under way or lost.     *)
(* With its context alive the request looks the operation up; otherwise    *)
(* it returns with the row in flight.                                      *)
PrepareLaunchFailed(h) ==
    LET c == xreq[h].code IN
    /\ xreq[h].pc = "prepare"
    /\ Called(h)
    /\ \/ Preparable /\ ApplyPrepare(c) /\ UNCHANGED late
       \/ late' = late \cup {c} /\ UNCHANGED mission
       \/ UNCHANGED <<mission, late>>
    /\ Goto(h, "query") \/ Return(h)
    /\ UNCHANGED <<pass, authorizationVars, intent, aged, delivery, answers, crashes>>

(* handlePrepareError: ReconcileOperation finds the run of this code, or   *)
(* fails or finds none.                                                    *)
handlePrepareError(h) ==
    /\ xreq[h].pc = "query"
    /\ \/ /\ mission.run = xreq[h].code
          /\ xreq' = [xreq EXCEPT ![h].pc = "adopt", ![h].run = mission.run]
       \/ Goto(h, "fail")
    /\ OnlyTheRequest

-----------------------------------------------------------------------------
LaunchingRow(run) == [pass EXCEPT !.state = "launching", !.run = run,
                                  !.mver = @ + 1, !.rev = @ + 1]

(* Mutant of adoptArtifacts: the pass is not read again in the             *)
(* transaction.                                                            *)
adoptArtifactsUnchecked(h) ==
    LET c == xreq[h].code IN
    /\ xreq[h].pc = "adopt"
    /\ pass' = LaunchingRow(xreq[h].run)
    /\ SettleLaunchExchangeIntent(c, "completed", xreq[h].run)
    /\ delivery' = [delivery EXCEPT ![c] = xreq[h].run]
    /\ answers' = [answers EXCEPT ![c] = @ \cup {xreq[h].run}]
    /\ Return(h)
    /\ UNCHANGED <<authorizationVars, upstreamVars, crashes>>

(* One transaction reads the pass again, requires the binding and the      *)
(* revision of the snapshot, moves it to launching and completes the       *)
(* intent.  The sealed result is cached and returned.                      *)
adoptArtifacts(h) ==
    LET c == xreq[h].code IN
    /\ xreq[h].pc = "adopt"
    /\ checkPassBinding(c)
    /\ pass.rev = xreq[h].rev
    /\ pass' = LaunchingRow(xreq[h].run)
    /\ SettleLaunchExchangeIntent(c, "completed", xreq[h].run)
    /\ delivery' = [delivery EXCEPT ![c] = xreq[h].run]
    /\ answers' = [answers EXCEPT ![c] = @ \cup {xreq[h].run}]
    /\ Return(h)
    /\ UNCHANGED <<authorizationVars, upstreamVars, crashes>>

(* Mutant of adoptRefused: the sealed result is cached and returned before *)
(* the transaction is known to commit.                                     *)
adoptRefusedDelivers(h) ==
    LET c == xreq[h].code IN
    /\ xreq[h].pc = "adopt"
    /\ delivery' = [delivery EXCEPT ![c] = xreq[h].run]
    /\ answers' = [answers EXCEPT ![c] = @ \cup {xreq[h].run}]
    /\ Goto(h, "fail")
    /\ UNCHANGED <<pass, authorizationVars, intent, aged, upstreamVars, crashes>>

(* The artifacts do not validate, or the transaction refuses them.         *)
adoptRefused(h) ==
    /\ xreq[h].pc = "adopt"
    /\ Goto(h, "fail")
    /\ OnlyTheRequest

settleFailed(h) ==
    /\ xreq[h].pc = "fail"
    /\ SettleLaunchExchangeIntent(xreq[h].code, "failed", None)
    /\ Return(h)
    /\ UNCHANGED <<pass, authorizationVars, delivery, upstreamVars, answers, crashes>>

-----------------------------------------------------------------------------
(* settleRow follows an existing intent.  A failed or expired one answers  *)
(* an error (RequestEnds).  A completed one that is fresh answers from the *)
(* cache or is looked up again.  One in flight expires when it is old, and *)
(* is reconciled otherwise.                                                *)
replayCompleted(h) ==
    LET c == xreq[h].code IN
    /\ xreq[h].pc = "row"
    /\ intent[c].status = "completed"
    /\ c \notin aged
    /\ IF delivery[c] # None
       THEN /\ answers' = [answers EXCEPT ![c] = @ \cup {delivery[c]}]
            /\ Return(h)
       ELSE Goto(h, "recover") /\ UNCHANGED answers
    /\ UNCHANGED <<pass, authorizationVars, intent, aged, delivery, upstreamVars, crashes>>

reconcileCompleted(h) ==
    LET c == xreq[h].code IN
    /\ xreq[h].pc = "recover"
    /\ mission.run = c
    /\ delivery' = [delivery EXCEPT ![c] = mission.run]
    /\ answers' = [answers EXCEPT ![c] = @ \cup {mission.run}]
    /\ Return(h)
    /\ UNCHANGED <<pass, authorizationVars, intent, aged, upstreamVars, crashes>>

(* Mutant of settleOrphan: a status the table does not know.               *)
settleOrphanStale(h) ==
    LET c == xreq[h].code IN
    /\ xreq[h].pc = "row"
    /\ intent[c].status = "in_flight"
    /\ IF c \in aged
       THEN SettleLaunchExchangeIntent(c, "stale", None) /\ Return(h)
       ELSE Goto(h, "orphan") /\ UNCHANGED <<intent, aged>>
    /\ UNCHANGED <<pass, authorizationVars, delivery, upstreamVars, answers, crashes>>

settleOrphan(h) ==
    LET c == xreq[h].code IN
    /\ xreq[h].pc = "row"
    /\ intent[c].status = "in_flight"
    /\ IF c \in aged
       THEN SettleLaunchExchangeIntent(c, "expired", None) /\ Return(h)
       ELSE Goto(h, "orphan") /\ UNCHANGED <<intent, aged>>
    /\ UNCHANGED <<pass, authorizationVars, delivery, upstreamVars, answers, crashes>>

(* Mutant of reconcileOrphan: the mission is asked for its run, not the    *)
(* operation of this code for its artifacts.                               *)
reconcileOrphanAnyRun(h) ==
    /\ xreq[h].pc = "orphan"
    /\ mission.run # None
    /\ xreq' = [xreq EXCEPT ![h].pc = "adopt", ![h].run = mission.run, ![h].rev = pass.rev]
    /\ OnlyTheRequest

(* The operation of this code completed: the pass is read and adopted.     *)
(* Otherwise the outcome stays ambiguous (RequestEnds).                    *)
reconcileOrphan(h) ==
    /\ xreq[h].pc = "orphan"
    /\ mission.run = xreq[h].code
    /\ xreq' = [xreq EXCEPT ![h].pc = "adopt", ![h].run = mission.run, ![h].rev = pass.rev]
    /\ OnlyTheRequest

-----------------------------------------------------------------------------
(* Ten minutes pass; 512 other results push this one out of the cache.     *)
IntentAges(c) ==
    /\ c \notin aged
    /\ intent[c].status \in {"in_flight", "completed"}
    /\ aged' = aged \cup {c}
    /\ UNCHANGED <<pass, authorizationVars, intent, delivery, xreq, upstreamVars, answers, crashes>>

DeliveryEvicted(c) ==
    /\ delivery[c] # None
    /\ delivery' = [delivery EXCEPT ![c] = None]
    /\ UNCHANGED <<pass, authorizationVars, intent, aged, xreq, upstreamVars, answers, crashes>>

(* A delayed PrepareLaunch reaches the authority.                          *)
PrepareArrivesLate(c) ==
    /\ c \in late
    /\ late' = late \ {c}
    /\ IF Preparable THEN ApplyPrepare(c) ELSE UNCHANGED mission
    /\ UNCHANGED <<pass, authorizationVars, exchangeVars, calls, answers, crashes>>

(* A revocation: applied by the authority, marked pending on the row,      *)
(* settled on the row.                                                     *)
RevokeMission ==
    /\ ~mission.revoked
    /\ mission' = [mission EXCEPT !.revoked = TRUE, !.ver = @ + 1]
    /\ UNCHANGED <<pass, authorizationVars, exchangeVars, late, calls, answers, crashes>>

markRevokePending ==
    /\ pass.rev < MaxRevision
    /\ Revocable(pass.state)
    /\ pass' = [pass EXCEPT !.rev = @ + 1]
    /\ UNCHANGED <<authorizationVars, exchangeVars, upstreamVars, answers, crashes>>

settleRevocation ==
    /\ mission.revoked
    /\ Revocable(pass.state)
    /\ pass' = [pass EXCEPT !.state = "revoked", !.rev = @ + 1]
    /\ UNCHANGED <<authorizationVars, exchangeVars, upstreamVars, answers, crashes>>

(* The process stops and starts again.                                     *)
Crash ==
    /\ crashes < MaxCrashes
    /\ crashes' = crashes + 1
    /\ AuthorizationsForgotten
    /\ xreq' = [h \in Exchanges |-> Idle]
    /\ delivery' = [c \in Codes |-> None]
    /\ UNCHANGED <<pass, intent, aged, upstreamVars, answers>>

ExchangeStep(h) ==
    \/ \E c \in Codes : ExchangeAndPrepare(h, c)
    \/ validateForExchange(h) \/ IntrospectMission(h) \/ RequestEnds(h)
    \/ ClaimLaunchExchangeIntent(h) \/ Take(h)
    \/ PrepareLaunchAnswered(h) \/ PrepareLaunchDenied(h) \/ PrepareLaunchFailed(h)
    \/ handlePrepareError(h) \/ adoptArtifacts(h) \/ adoptRefused(h) \/ settleFailed(h)
    \/ replayCompleted(h) \/ reconcileCompleted(h) \/ settleOrphan(h) \/ reconcileOrphan(h)

Next ==
    \/ AuthorizationStep /\ UNCHANGED <<exchangeVars, upstreamVars, answers, crashes>>
    \/ \E h \in Exchanges : ExchangeStep(h)
    \/ \E c \in Codes : IntentAges(c) \/ DeliveryEvicted(c) \/ PrepareArrivesLate(c)
    \/ RevokeMission \/ markRevokePending \/ settleRevocation
    \/ Crash

Spec == Init /\ [][Next]_vars

-----------------------------------------------------------------------------
(* Properties.                                                             *)

(* However finishes, double submits, retries and restarts interleave, one  *)
(* authorization leads to at most one PrepareLaunch call ("exactly one     *)
(* upstream PrepareLaunch call", service.go).                              *)
OnePrepareCall == \A a \in Authorizations : calls[a] =< 1

(* The row and the intents agree on the run: a pass that holds a run was   *)
(* launched by exactly the code whose intent is completed with that run,   *)
(* and the authority prepared that run under that code.                    *)
LaunchedByOneCode ==
    \A c \in Codes :
        /\ intent[c].status = "completed" <=> pass.run = c
        /\ pass.run = c => intent[c].run = c /\ mission.run = c

(* Every answer for a code, first or replayed, from the cache or rebuilt   *)
(* after a restart, is the run the row holds ("return only the original    *)
(* sealed result").                                                        *)
OriginalResult == \A c \in Codes : answers[c] \subseteq {pass.run}

(* A launch moves the pass only as the transition table allows: an         *)
(* adoption never resurrects a pass revoked while the call was under way.  *)
L == INSTANCE Lifecycle WITH state <- pass.state
LaunchFollowsLifecycle == L!Spec

=============================================================================
