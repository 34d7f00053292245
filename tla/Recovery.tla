------------------------------ MODULE Recovery ------------------------------
(***************************************************************************)
(* Offline recovery, internal/recovery/service.go run by cli/recover.go,   *)
(* over the founder's authentication.  The command holds the lock of the   *)
(* data directory, so it never runs beside the server or another recovery; *)
(* it may end, by an error or a crash, after any of its writes and calls.  *)
(* A durable intent, keyed by the recovery key, says where the next        *)
(* attempt resumes.                                                        *)
(*                                                                         *)
(* Missions are those of the workspace at the authority.  Approving one    *)
(* (module Approval) is a single step of a live session here, and so is    *)
(* opening a CLI hand-off (modules CLIAuthorization and CLIRevocation).    *)
(***************************************************************************)
EXTENDS Identity

CONSTANT Missions   \* missions of the workspace

VARIABLES intent,      \* recovery_intents, with the event a completed one names
          rproc,       \* the recover process
          handoffs,    \* the CLI hand-off rows, by the session that opened them
          mission,     \* authority: the state of every mission
          containment  \* authority: the missions contained, per idempotency key

recoveryVars == <<intent, rproc>>
upstreamVars == <<mission, containment>>
vars == <<identityVars, recoveryVars, handoffs, upstreamVars>>

NoContainment == [applied |-> FALSE, covered |-> {}]
NoIntent  == [state |-> "none", attested |-> FALSE, count |-> 0]
NoProcess == [pc |-> "idle", founder |-> None, typed |-> None, count |-> 0]

IntentStates == {"none", "pending", "contained", "verified_empty", "completed"}

TypeOK ==
    /\ IdentityTypeOK
    /\ intent \in [Keys -> [state : IntentStates, attested : BOOLEAN, count : Nat]]
    /\ rproc.pc \in {"idle", "refused", "attest", "baseline", "contain", "reconcile",
                     "acknowledged", "await", "empty", "reset", "deliver"}
    /\ rproc.founder \in Founders \cup {None}
    /\ rproc.count \in Nat
    /\ (lock = "recover") = (rproc.pc # "idle")
    /\ handoffs \subseteq Requests
    /\ mission \in [Missions -> {"none", "active", "contained", "ended"}]
    /\ containment \in [Keys -> [applied : BOOLEAN, covered : SUBSET Missions]]

Init ==
    /\ IdentityInit
    /\ intent = [k \in Keys |-> NoIntent]
    /\ rproc = NoProcess
    /\ handoffs = {}
    /\ mission = [m \in Missions |-> "none"]
    /\ containment = [k \in Keys |-> NoContainment]

(* ListActiveMissions of the workspace.                                    *)
ActiveMissions == {m \in Missions : mission[m] \in {"active", "contained"}}

RGoto(label) == rproc' = [rproc EXCEPT !.pc = label]
Key          == rproc.typed.key

-----------------------------------------------------------------------------
(* The workspace while the server runs.                                    *)

ApproveMission(m) ==
    /\ mission[m] = "none"
    /\ \E r \in Requests : LiveSession(r)
    /\ mission' = [mission EXCEPT ![m] = "active"]
    /\ UNCHANGED <<identityVars, recoveryVars, handoffs, containment>>

OpenHandoff(r) ==
    /\ LiveSession(r)
    /\ handoffs' = handoffs \cup {r}
    /\ UNCHANGED <<identityVars, recoveryVars, upstreamVars>>

(* A mission finishes, or its containment takes effect.                    *)
MissionEnds(m) ==
    /\ m \in ActiveMissions
    /\ mission' = [mission EXCEPT ![m] = "ended"]
    /\ UNCHANGED <<identityVars, recoveryVars, handoffs, containment>>

-----------------------------------------------------------------------------
(* The command takes the lock and compares the hash of the bytes it read   *)
(* from the terminal with the stored one.                                  *)

RecoverRefuses(typed) ==
    /\ lock = "none"
    /\ \E f \in founders : keyHash[f] # typed /\ rproc' = [NoProcess EXCEPT
           !.pc = "refused", !.founder = f, !.typed = typed]
    /\ lock' = "recover"
    /\ UNCHANGED <<tables, memory, intent, handoffs, upstreamVars>>

(* The state of the intent decides where the attempt resumes; a new one is *)
(* written before anything is signed or called.                            *)
Resume(state) == CASE state \in {"none", "pending"} -> "attest"
                   [] state = "contained" -> "await"
                   [] state = "verified_empty" -> "reset"

RecoverVerifies(typed) ==
    /\ lock = "none"
    /\ \E f \in founders :
           /\ keyHash[f] = typed
           /\ intent[typed.key].state # "completed"
           /\ rproc' = [pc |-> Resume(intent[typed.key].state), founder |-> f, typed |-> typed,
                        count |-> intent[typed.key].count]
    /\ lock' = "recover"
    /\ intent' = [intent EXCEPT ![typed.key].state = IF @ = "none" THEN "pending" ELSE @]
    /\ UNCHANGED <<tables, memory, handoffs, upstreamVars>>

(* Mutant of RecoverEnds: the lock outlives the command.                   *)
RecoverEndsLocked ==
    /\ lock = "recover" /\ rproc # NoProcess
    /\ rproc' = NoProcess
    /\ UNCHANGED <<lock, tables, memory, intent, handoffs, upstreamVars>>

(* An error return, or a crash: the lock is free and the intent stays.     *)
RecoverEnds ==
    /\ lock = "recover"
    /\ lock' = "none"
    /\ rproc' = NoProcess
    /\ UNCHANGED <<tables, memory, intent, handoffs, upstreamVars>>

-----------------------------------------------------------------------------
SetRecoveryIntentAttestation ==
    /\ rproc.pc = "attest"
    /\ intent' = [intent EXCEPT ![Key].attested = TRUE]
    /\ RGoto("baseline")
    /\ UNCHANGED <<identityVars, handoffs, upstreamVars>>

ListBaseline ==
    /\ rproc.pc = "baseline"
    /\ rproc' = [rproc EXCEPT !.pc = "contain", !.count = Cardinality(ActiveMissions)]
    /\ UNCHANGED <<identityVars, intent, handoffs, upstreamVars>>

(* The authority contains once for an idempotency key; a replay returns    *)
(* the first result.                                                       *)
ContainWorkspace ==
    IF containment[Key].applied THEN UNCHANGED upstreamVars
    ELSE LET covered == {m \in Missions : mission[m] = "active"} IN
         /\ containment' = [containment EXCEPT ![Key] = [applied |-> TRUE, covered |-> covered]]
         /\ mission' = [m \in Missions |-> IF m \in covered THEN "contained" ELSE mission[m]]

ContainAcknowledged ==
    /\ rproc.pc \in {"contain", "reconcile"}
    /\ ContainWorkspace
    /\ RGoto("acknowledged")
    /\ UNCHANGED <<identityVars, intent, handoffs>>

(* An ambiguous answer is asked once more under the same key; a second one *)
(* ends the attempt.                                                       *)
ContainAmbiguous ==
    /\ rproc.pc = "contain"
    /\ ContainWorkspace \/ UNCHANGED upstreamVars
    /\ RGoto("reconcile")
    /\ UNCHANGED <<identityVars, intent, handoffs>>

ReconcileAmbiguous ==
    /\ rproc.pc = "reconcile"
    /\ ContainWorkspace
    /\ lock' = "none"
    /\ rproc' = NoProcess
    /\ UNCHANGED <<tables, memory, intent, handoffs>>

(* transitionRecoveryIntent moves the row from exactly one state.          *)
transitionRecoveryIntent(from, to) ==
    /\ intent[Key].state = from
    /\ intent' = [intent EXCEPT ![Key].state = to]

SetRecoveryIntentContained ==
    /\ rproc.pc = "acknowledged"
    /\ transitionRecoveryIntent("pending", "contained")
    /\ RGoto("await")
    /\ UNCHANGED <<identityVars, handoffs, upstreamVars>>

(* Mutant of awaitEmptyActiveMissions: any authenticated list will do.     *)
awaitAnyActiveMissions ==
    /\ rproc.pc = "await"
    /\ RGoto("empty")
    /\ UNCHANGED <<identityVars, intent, handoffs, upstreamVars>>

awaitEmptyActiveMissions ==
    /\ rproc.pc = "await"
    /\ ActiveMissions = {}
    /\ RGoto("empty")
    /\ UNCHANGED <<identityVars, intent, handoffs, upstreamVars>>

SetRecoveryIntentVerifiedEmpty ==
    /\ rproc.pc = "empty"
    /\ transitionRecoveryIntent("contained", "verified_empty")
    /\ RGoto("reset")
    /\ UNCHANGED <<identityVars, handoffs, upstreamVars>>

(* Mutant of revokeAllSessions: sessions are left alone.                   *)
KeepSessions == session' = session

revokeAllSessions ==
    session' = [r \in Requests |-> IF session[r].status = "none" THEN session[r]
                                   ELSE [session[r] EXCEPT !.status = "revoked"]]

resetLaunchHandoffs == handoffs' = {}

deleteAllWebAuthnCredentials == credential' = [c \in Creds |-> NoCredential]

consumeOfflineRecoveryKey(f) ==
    /\ keyHash[f] # None
    /\ keyHash' = [keyHash EXCEPT ![f] = None]

deleteFounder(f) ==
    /\ f \in founders
    /\ founders' = founders \ {f}

IssueRecoveryBootstrapCodeTx ==
    /\ issued < MaxCodes
    /\ issued' = issued + 1
    /\ code' = [id |-> issued + 1, expired |-> FALSE]

(* One transaction resets everything, and hands out the code after it.     *)
resetLocalState ==
    /\ rproc.pc = "reset"
    /\ IssueRecoveryBootstrapCodeTx
    /\ revokeAllSessions
    /\ resetLaunchHandoffs
    /\ deleteAllWebAuthnCredentials
    /\ consumeOfflineRecoveryKey(rproc.founder)
    /\ deleteFounder(rproc.founder)
    /\ intent[Key].state = "verified_empty"
    /\ intent' = [intent EXCEPT ![Key].state = "completed", ![Key].count = rproc.count]
    /\ RGoto("deliver")
    /\ UNCHANGED <<lock, memory, upstreamVars>>

-----------------------------------------------------------------------------
Next ==
    \/ IdentityNext /\ UNCHANGED <<recoveryVars, handoffs, upstreamVars>>
    \/ \E m \in Missions : ApproveMission(m) \/ MissionEnds(m)
    \/ \E r \in Requests : OpenHandoff(r)
    \/ \E typed \in Bytes : RecoverRefuses(typed) \/ RecoverVerifies(typed)
    \/ RecoverEnds \/ SetRecoveryIntentAttestation \/ ListBaseline
    \/ ContainAcknowledged \/ ContainAmbiguous \/ ReconcileAmbiguous
    \/ SetRecoveryIntentContained \/ awaitEmptyActiveMissions
    \/ SetRecoveryIntentVerifiedEmpty \/ resetLocalState

Spec == Init /\ [][Next]_vars

-----------------------------------------------------------------------------
(* Several ceremonies may be open under one code, and the founders table   *)
(* has no uniqueness beyond the random id: the one-use code alone keeps    *)
(* the workspace with a single founder, across restarts and recoveries.    *)
(* And nobody is locked out: from the first start on a workspace without a *)
(* founder has a code to enrol with, whatever transaction was the last.    *)
OneFounder ==
    /\ Cardinality(founders) <= 1
    /\ founders = {} /\ issued > 0 => code # NoCode

(* Whoever is enrolled has a passkey and, independent of it, an offline    *)
(* key or a second passkey: Complete never commits a ceremony without one, *)
(* however its registrations were ordered, refused or repeated.            *)
IndependentRecovery ==
    \A f \in founders :
        /\ founderCredentials(f) # {}
        /\ keyHash[f] # None \/ Cardinality(founderCredentials(f)) > 1

(* After a recovery no session, passkey, recovery key or CLI hand-off of   *)
(* an earlier founder is left to authenticate with.                        *)
NothingSurvivesRecovery ==
    /\ \A r \in Requests : session[r].status = "live" => session[r].founder \in founders
    /\ \A r \in handoffs : session[r].founder \in founders
    /\ \A c \in Creds : credential[c] # NoCredential => credential[c].founder \in founders
    /\ \A f \in Founders \ founders : keyHash[f] = None

(* A completed recovery was preceded by a containment the authority really *)
(* applied, and every mission it applied to has ended: lost answers, the   *)
(* one retry and resumed attempts included.                                *)
ContainedBeforeReset ==
    \A k \in Keys : intent[k].state = "completed" =>
        /\ containment[k].applied
        /\ containment[k].covered \cap ActiveMissions = {}

(* Of the logins and decisions that read the same stored counter, one at   *)
(* most takes a given counter: no session is granted, and no decision is   *)
(* verified, on a counter that does not advance the stored one.            *)
CounterAdvances ==
    [][\A r \in Requests :
          /\ areq[r].count > 0
          /\ \/ areq[r].pc = "login" /\ session'[r].status = "live"
             \/ FinishDecisionCommits(r)
          => credential'[areq[r].cred].count > credential[areq[r].cred].count]_vars

-----------------------------------------------------------------------------
(* What the repository says and the code does not do.                      *)

(* getting-started.md: recovery is run with the key that enrolment         *)
(* displayed.  The command hashes the text as it was typed, enrolment      *)
(* stored the hash of the bytes the text stands for.                       *)
DisplayedKeyRecovers ==
    rproc.pc = "refused" /\ keyHash[rproc.founder] # None
        => rproc.typed # Text(keyHash[rproc.founder].key)

=============================================================================
