----------------------------- MODULE Expansion -----------------------------
(***************************************************************************)
(* Deciding an expansion request (internal/expansion/service.go).          *)
(*                                                                         *)
(* A running agent asks the authority for more authority; the founder      *)
(* approves it once or denies it with a passkey ceremony that pins the     *)
(* mission version.  decideOnce follows the intent protocol of revokeOnce, *)
(* under a mutex of the expansion, which the worker takes too.             *)
(* syncExpansions copies the authority's list into the expansions table    *)
(* whenever the founder lists expansions or begins a decision.             *)
(***************************************************************************)
EXTENDS Mission

CONSTANTS Deciders,          \* concurrent HTTP requests
          Expansions,        \* the expansion requests of the mission
          Lapsing,           \* those that may pass their expiry undecided
          Syncers,           \* bound: the requests that may list or begin; all may finish
          DecideChallenges   \* the ceremonies that may be begun

VARIABLES requested,     \* the authority: each request, its status and versions
          expansion,     \* the expansions table: local status of each request
          decideBegun,   \* per ceremony, the binding of its challenge, in memory
          decideIntent,  \* the expansion_intents rows
          decideReq,     \* per request or worker, its program counter and data
          decideCalls,   \* history: DecideExpansion calls issued per expansion
          decideLate     \* the expansions whose call is under way, its caller gone

expansionVars == <<requested, expansion, decideBegun, decideIntent, decideReq,
                   decideCalls, decideLate>>

Decisions == {"approve_once", "deny"}
Status    == {"none", "pending", "approved", "denied", "expired", "resolved"}

(* ExpansionBinding: the expansion, the expected version, the decision.    *)
Binding   == [exp : Expansions \cup {"none"}, ver : Nat, decision : Decisions \cup {"none", "used"}]
NoBinding == [exp |-> "none", ver |-> 0, decision |-> "none"]
UsedBinding == [exp |-> "none", ver |-> 0, decision |-> "used"]   \* a ceremony runs once
NoDecideIntent == [state |-> "none", binding |-> NoBinding]

DecidePCs == {"idle", "sync_put", "sync_resolve", "begin", "lock", "put", "call",
              "mark", "settle", "reconcile", "query"}
(* listed is what ListExpansions answered, result the decided version.     *)
DecideIdle == [pc |-> "idle", binding |-> NoBinding,
               listed |-> [e \in Expansions |-> "none"], result |-> 0]

ExpansionTypeOK ==
    /\ requested \in [Expansions -> [status : {"none", "pending", "approved", "denied",
                                               "expired"},
                                     ver : Nat, decided : Nat]]
    /\ expansion \in [Expansions -> Status]
    /\ decideBegun \in [DecideChallenges -> Binding]
    /\ decideIntent \in [Expansions -> [state : {"none", "in_flight", "completed"},
                                        binding : Binding]]
    /\ decideReq \in [Deciders \cup Workers ->
                        [pc : DecidePCs, binding : Binding,
                         listed : [Expansions -> Status], result : Nat]]
    /\ decideCalls \in [Expansions -> Nat]
    /\ decideLate \in SUBSET Expansions

ExpansionInit ==
    /\ requested = [e \in Expansions |-> [status |-> "none", ver |-> 0, decided |-> 0]]
    /\ expansion = [e \in Expansions |-> "none"]
    /\ decideBegun = [c \in DecideChallenges |-> NoBinding]
    /\ decideIntent = [e \in Expansions |-> NoDecideIntent]
    /\ decideReq = [a \in Deciders \cup Workers |-> DecideIdle]
    /\ decideCalls = [e \in Expansions |-> 0]
    /\ decideLate = {}

XGoto(a, label) == decideReq' = [decideReq EXCEPT ![a].pc = label]
XReturn(a)      == decideReq' = [decideReq EXCEPT ![a] = DecideIdle]

(* The expansion whose mutex request or worker a holds.                    *)
Holds(a, e) == /\ decideReq[a].binding.exp = e
               /\ decideReq[a].pc \in {"put", "call", "mark", "settle", "reconcile", "query"}
DecideLocked(e) == \E a \in Deciders \cup Workers : Holds(a, e)

-----------------------------------------------------------------------------
(* The agent asks; the authority keeps one request open per mission.       *)
RequestExpansion(e) ==
    /\ mission.state = "active"
    /\ \A x \in Expansions : requested[x].status # "pending"
    /\ requested[e].status = "none"
    /\ requested' = [requested EXCEPT ![e].status = "pending", ![e].ver = mission.ver]
    /\ Emit("expansion_requested", mission.ver)
    /\ UNCHANGED <<pass, mission, expansion, decideBegun, decideIntent, decideReq,
                   decideCalls, decideLate>>

(* A request nobody decided is over: it passed its RequestedExpiry.        *)
ExpansionLapses(e) ==
    /\ e \in Lapsing
    /\ requested[e].status = "pending"
    /\ requested' = [requested EXCEPT ![e].status = "expired"]
    /\ UNCHANGED <<missionVars, expansion, decideBegun, decideIntent, decideReq,
                   decideCalls, decideLate>>

-----------------------------------------------------------------------------
(* syncExpansions, in the three moments other requests can come between:   *)
(* the list is read, its pending requests are stored, the rows it no       *)
(* longer names as pending are resolved.                                   *)

(* List, or the first half of BeginDecision, which needs a local row and a *)
(* pass that can decide; e and decision are kept for its second half.      *)
StartSync(h, binding) ==
    /\ h \in Syncers
    /\ decideReq[h].pc = "idle"
    /\ binding # NoBinding =>
          /\ expansion[binding.exp] # "none"
          /\ pass.state \in {"running", "awaiting_expansion"}
    /\ decideReq' = [decideReq EXCEPT ![h] =
                        [pc |-> "sync_put", binding |-> binding, result |-> 0,
                         listed |-> [e \in Expansions |-> requested[e].status]]]
    /\ UNCHANGED <<missionVars, requested, expansion, decideBegun, decideIntent,
                   decideCalls, decideLate>>

(* putExpansion refreshes a pending row or inserts a new one.  The table   *)
(* holds one pending row per mission (uq_expansions_pending_per_mission):  *)
(* a row that was resolved meanwhile, or another row still pending, is a   *)
(* conflict that ends the sync, before anything is resolved.  So is a list *)
(* with two pending requests.                                              *)
SyncPut(h) ==
    LET pending == {e \in Expansions : decideReq[h].listed[e] = "pending"}
        CanPut(e) == \/ expansion[e] = "pending"
                     \/ /\ expansion[e] = "none"
                        /\ \A x \in Expansions : expansion[x] # "pending" IN
    /\ decideReq[h].pc = "sync_put"
    /\ IF \A e \in pending : CanPut(e) /\ pending = {e}
       THEN /\ expansion' = [e \in Expansions |->
                                IF e \in pending THEN "pending" ELSE expansion[e]]
            /\ XGoto(h, "sync_resolve")
       ELSE XReturn(h) /\ UNCHANGED expansion
    /\ UNCHANGED <<missionVars, requested, decideBegun, decideIntent, decideCalls,
                   decideLate>>

(* The rest of List ends here, BeginDecision goes on.                      *)
SyncResolve(h) ==
    LET listed == decideReq[h].listed IN
    /\ decideReq[h].pc = "sync_resolve"
    /\ expansion' = [e \in Expansions |->
          IF expansion[e] # "pending" \/ listed[e] = "pending" THEN expansion[e]
          ELSE IF listed[e] = "none" THEN "resolved" ELSE listed[e]]
    /\ IF decideReq[h].binding = NoBinding THEN XReturn(h) ELSE XGoto(h, "begin")
    /\ UNCHANGED <<missionVars, requested, decideBegun, decideIntent, decideCalls,
                   decideLate>>

(* The rest of BeginDecision: the row must be pending, not expired, and    *)
(* its delta of the mission version on the pass.                           *)
BeginDecision(h, c) ==
    LET e == decideReq[h].binding.exp IN
    /\ decideReq[h].pc = "begin"
    /\ \/ /\ expansion[e] = "pending"
          /\ requested[e].ver = pass.mver
          /\ decideBegun[c] = NoBinding
          /\ decideBegun' = [decideBegun EXCEPT ![c] =
                                [decideReq[h].binding EXCEPT !.ver = pass.mver]]
       \/ UNCHANGED decideBegun
    /\ XReturn(h)
    /\ UNCHANGED <<missionVars, requested, expansion, decideIntent, decideCalls,
                   decideLate>>

-----------------------------------------------------------------------------
(* FinishDecision: an intent must have this binding; without one the live  *)
(* mission version must be the bound one.  The ceremony is consumed.       *)
FinishDecision(h, c) ==
    LET b == decideBegun[c] IN
    /\ decideReq[h].pc = "idle"
    /\ b \notin {NoBinding, UsedBinding}
    /\ IF decideIntent[b.exp].state = "none" THEN pass.mver = b.ver
                                            ELSE decideIntent[b.exp].binding = b
    /\ decideBegun' = [decideBegun EXCEPT ![c] = UsedBinding]
    /\ \/ decideReq' = [decideReq EXCEPT ![h] = [DecideIdle EXCEPT !.pc = "lock",
                                                                   !.binding = b]]
       \/ UNCHANGED decideReq
    /\ UNCHANGED <<missionVars, requested, expansion, decideIntent, decideCalls,
                   decideLate>>

(* Mutant of DecideLock: finishes of one expansion are not serialised.     *)
DecideLockFree(h) ==
    LET e == decideReq[h].binding.exp IN
    /\ decideReq[h].pc = "lock"
    /\ CASE decideIntent[e].state = "none" -> XGoto(h, "put")
         [] /\ decideIntent[e].state = "in_flight"
            /\ decideIntent[e].binding = decideReq[h].binding -> XGoto(h, "reconcile")
         [] OTHER -> XReturn(h)
    /\ UNCHANGED <<missionVars, requested, expansion, decideBegun, decideIntent,
                   decideCalls, decideLate>>

(* decideOnce takes the mutex and reads the intent.                        *)
DecideLock(h) ==
    LET e == decideReq[h].binding.exp IN
    /\ decideReq[h].pc = "lock"
    /\ ~DecideLocked(e)
    /\ CASE decideIntent[e].state = "none" -> XGoto(h, "put")
         [] /\ decideIntent[e].state = "in_flight"
            /\ decideIntent[e].binding = decideReq[h].binding -> XGoto(h, "reconcile")
         [] OTHER -> XReturn(h)
    /\ UNCHANGED <<missionVars, requested, expansion, decideBegun, decideIntent,
                   decideCalls, decideLate>>

PutExpansionIntent(h) ==
    LET e == decideReq[h].binding.exp IN
    /\ decideReq[h].pc = "put"
    /\ IF decideIntent[e].state = "completed"
       THEN XGoto(h, "reconcile") /\ UNCHANGED decideIntent
       ELSE /\ decideIntent' = [decideIntent EXCEPT ![e] =
                                   [state |-> "in_flight", binding |-> decideReq[h].binding]]
            /\ XGoto(h, "call")
    /\ UNCHANGED <<missionVars, requested, expansion, decideBegun, decideCalls, decideLate>>

(* The authority decides a pending request of an active mission; an        *)
(* approval moves the mission version.                                     *)
Decidable(e) == requested[e].status = "pending" /\ mission.state = "active"

ApplyDecision(e, decision) ==
    IF decision = "approve_once"
    THEN /\ mission' = [mission EXCEPT !.ver = @ + 1]
         /\ requested' = [requested EXCEPT ![e].status = "approved",
                                           ![e].decided = mission.ver + 1]
    ELSE /\ requested' = [requested EXCEPT ![e].status = "denied"]
         /\ UNCHANGED mission

DecideExpansionAnswered(h) ==
    LET b == decideReq[h].binding IN
    /\ decideReq[h].pc = "call"
    /\ Decidable(b.exp)
    /\ ApplyDecision(b.exp, b.decision)
    /\ decideReq' = [decideReq EXCEPT ![h].pc = "settle",
                                      ![h].result = requested'[b.exp].decided]
    /\ decideCalls' = [decideCalls EXCEPT ![b.exp] = @ + 1]
    /\ UNCHANGED <<pass, log, expansion, decideBegun, decideIntent, decideLate>>

(* Mutant of DecideExpansionFailed: a failed call is taken for done.       *)
DecideExpansionFailedSettles(h) ==
    LET b == decideReq[h].binding IN
    /\ decideReq[h].pc = "call"
    /\ XGoto(h, "settle")
    /\ decideCalls' = [decideCalls EXCEPT ![b.exp] = @ + 1]
    /\ UNCHANGED <<missionVars, requested, expansion, decideBegun, decideIntent, decideLate>>

(* As for a revocation: applied, under way, or lost or refused; ambiguous  *)
(* or not.                                                                 *)
DecideExpansionFailed(h) ==
    LET b == decideReq[h].binding IN
    /\ decideReq[h].pc = "call"
    /\ \/ Decidable(b.exp) /\ ApplyDecision(b.exp, b.decision) /\ UNCHANGED decideLate
       \/ decideLate' = decideLate \cup {b.exp} /\ UNCHANGED <<mission, requested>>
       \/ UNCHANGED <<mission, requested, decideLate>>
    /\ XGoto(h, "mark") \/ XReturn(h)
    /\ decideCalls' = [decideCalls EXCEPT ![b.exp] = @ + 1]
    /\ UNCHANGED <<pass, log, expansion, decideBegun, decideIntent>>

DecideCallArrivesLate ==
    \E e \in decideLate :
        /\ decideLate' = decideLate \ {e}
        /\ IF Decidable(e) THEN ApplyDecision(e, decideIntent[e].binding.decision)
                           ELSE UNCHANGED <<mission, requested>>
        /\ UNCHANGED <<pass, log, expansion, decideBegun, decideIntent, decideReq,
                       decideCalls>>

markDecisionPending(h) ==
    /\ decideReq[h].pc = "mark"
    /\ pass' = [pass EXCEPT !.recon = "pending"]
    /\ XReturn(h)
    /\ UNCHANGED <<mission, log, requested, expansion, decideBegun, decideIntent,
                   decideCalls, decideLate>>

(* Mutant of DecidedRow: the row expects the version of the next decision. *)
DecidedRowAhead(p, result) ==
    [p EXCEPT !.mver = result + 1, !.state = "running", !.recon = "settled"]

(* The row after an approval: running, whatever it was before.             *)
DecidedRow(p, result) ==
    IF p.mver < result \/ p.state # "running"
    THEN [p EXCEPT !.mver = result, !.state = "running", !.recon = "settled"]
    ELSE p

(* settleDecision: one transaction for the row, the expansion and the      *)
(* intent; it rolls back when the version did not advance past the bound   *)
(* one, when the expansion is not pending locally or when the intent is    *)
(* completed.  A denial leaves the row alone.                              *)
settleDecision(a) ==
    LET b == decideReq[a].binding
        approve == b.decision = "approve_once" IN
    /\ decideReq[a].pc = "settle"
    /\ IF /\ approve => decideReq[a].result > b.ver
          /\ expansion[b.exp] = "pending"
          /\ decideIntent[b.exp].state = "in_flight"
       THEN /\ pass' = IF approve THEN DecidedRow(pass, decideReq[a].result) ELSE pass
            /\ expansion' = [expansion EXCEPT ![b.exp] = IF approve THEN "approved"
                                                                    ELSE "denied"]
            /\ decideIntent' = [decideIntent EXCEPT ![b.exp].state = "completed"]
       ELSE UNCHANGED <<pass, expansion, decideIntent>>
    /\ XReturn(a)
    /\ UNCHANGED <<mission, log, requested, decideBegun, decideCalls, decideLate>>

-----------------------------------------------------------------------------
(* ReconcileExpansion and reconcileLocked.                                 *)

WorkerReconcilesExpansion(w, e) ==
    /\ decideReq[w].pc = "idle"
    /\ ~DecideLocked(e)
    /\ decideReq' = [decideReq EXCEPT ![w] = [DecideIdle EXCEPT !.pc = "reconcile",
                                                                !.binding.exp = e]]
    /\ UNCHANGED <<missionVars, requested, expansion, decideBegun, decideIntent,
                   decideCalls, decideLate>>

ReadExpansionIntent(a) ==
    LET e == decideReq[a].binding.exp IN
    /\ decideReq[a].pc = "reconcile"
    /\ IF decideIntent[e].state = "in_flight"
       THEN decideReq' = [decideReq EXCEPT ![a].pc = "query",
                                           ![a].binding = decideIntent[e].binding]
       ELSE XReturn(a)
    /\ UNCHANGED <<missionVars, requested, expansion, decideBegun, decideIntent,
                   decideCalls, decideLate>>

(* The operation completed: its outcome is read from the authority and the *)
(* expected version from the live pass.                                    *)
QueryExpansion(a) ==
    LET e == decideReq[a].binding.exp IN
    /\ decideReq[a].pc = "query"
    /\ requested[e].status \in {"approved", "denied"}
    /\ decideReq' = [decideReq EXCEPT ![a].pc = "settle", ![a].binding.ver = pass.mver,
                                      ![a].result = requested[e].decided]
    /\ UNCHANGED <<missionVars, requested, expansion, decideBegun, decideIntent,
                   decideCalls, decideLate>>

(* A lookup fails, finds nothing or finds the operation unfinished.        *)
QueryExpansionFailed(a) ==
    /\ decideReq[a].pc = "query"
    /\ XReturn(a)
    /\ UNCHANGED <<missionVars, requested, expansion, decideBegun, decideIntent,
                   decideCalls, decideLate>>

DeciderStep(a) ==
    \/ SyncPut(a) \/ SyncResolve(a)
    \/ \E c \in DecideChallenges : BeginDecision(a, c)
    \/ DecideLock(a) \/ PutExpansionIntent(a)
    \/ DecideExpansionAnswered(a) \/ DecideExpansionFailed(a)
    \/ markDecisionPending(a) \/ settleDecision(a)
    \/ ReadExpansionIntent(a)
    \/ QueryExpansion(a) \/ QueryExpansionFailed(a)

=============================================================================
