---------------------------- MODULE Publication ----------------------------
(***************************************************************************)
(* The check a verified receipt earns: the worker's sweep over several     *)
(* passes (internal/reconcile/worker.go), PublishVerifiedCheck and         *)
(* ReconcilePublication (internal/receipt/service.go), and the projection  *)
(* path that marks a pass incompatible and latches the gate                *)
(* (internal/missionpass/events.go).                                       *)
(*                                                                         *)
(* Of a pass only its way to the receipt is kept: its events are the run's *)
(* outcome and one of a type this version does not know.  What the sweep   *)
(* does for revocations and expansions is in MissionRun.  A transaction    *)
(* does not fail.  The authority is external: it runs one operation per    *)
(* idempotency key, and a call may be answered, answered after the caller  *)
(* gave up, or lost.                                                       *)
(***************************************************************************)
EXTENDS Integers, Sequences, FiniteSets, Gate, WorkerLease

CONSTANTS Passes,       \* the passes of the workspace
          NoPass,       \* no pass is being worked on
          MaxRestarts   \* bound: the server stops at most this often

ASSUME MaxRestartsAssumption == MaxRestarts \in Nat
ASSUME NoPassAssumption == NoPass \notin Passes

VARIABLES row,       \* mission_passes.state and mission_projections of a pass
          view,      \* receipt_views: the stored verdict
          pub,       \* check_publications: the intent
          bound,     \* the passes whose connection names a repository binding
          stream,    \* the authority: the events of a pass
          ops,       \* the authority: the operation of an idempotency key
          checks,    \* GitHub: the keys a check run was made for
          late,      \* publish calls the worker gave up on that may still arrive
          worker,    \* the worker: where it is, its list, the pass in hand, a result
          restarts   \* how often the server has stopped

localVars == <<row, view, pub>>
authorityVars == <<stream, ops, checks, late>>
vars == <<gate, lease, localVars, bound, authorityVars, worker, restarts>>

(* The second number is free for a caller that does not keep its key.      *)
Keys == Passes \X {0, 1}

NoIntent == [state |-> "none", key |-> <<NoPass, 0>>]

(* Over workspace, receipt digest, repository, pull request and commit:    *)
(* all of them fixed by the verified receipt.                              *)
PublicationIDKey(p) == <<p, 0>>

TypeOK ==
    /\ gate \in GateState /\ lease \in LeaseRow
    /\ row \in [Passes -> [state : {"running", "outcome_pending", "completed"},
                           cursor : 0 .. 2, compatible : BOOLEAN]]
    /\ view \in [Passes -> {"none", "verified", "unverifiable"}]
    /\ pub \in [Passes -> {NoIntent} \cup [state : {"in_flight", "settled", "disputed"},
                                           key : Keys]]
    /\ bound \subseteq Passes
    /\ stream \in [Passes -> {<<>>, <<"outcome">>, <<"unknown">>, <<"outcome", "unknown">>}]
    /\ ops \in [Keys -> {"none", "pending", "completed", "failed"}]
    /\ checks \subseteq Keys /\ late \subseteq Keys
    /\ worker \in [phase : {"down", "acquire", "idle", "project", "mark", "latch", "receipts",
                            "intent", "publish", "publications", "republish", "settle"},
                   todo : SUBSET Passes, cur : Passes \cup {NoPass},
                   result : {"none", "settled", "disputed"},
                   part : {"idle", "project", "receipts", "publications"}]
    /\ restarts \in 0 .. MaxRestarts

Down == [phase |-> "down", todo |-> {}, cur |-> NoPass, result |-> "none", part |-> "idle"]

Init ==
    /\ gate = NewGate /\ lease = NoLease
    /\ row = [p \in Passes |-> [state |-> "running", cursor |-> 0, compatible |-> TRUE]]
    /\ view = [p \in Passes |-> "none"]
    /\ pub = [p \in Passes |-> NoIntent]
    /\ bound \in SUBSET Passes
    /\ stream = [p \in Passes |-> <<>>]
    /\ ops = [k \in Keys |-> "none"]
    /\ checks = {} /\ late = {}
    /\ worker = Down
    /\ restarts = 0

-----------------------------------------------------------------------------
(* The authority.                                                          *)

(* The run ends; or an event arrives of a type that a later version knows. *)
Emit(p, type) ==
    /\ type = "outcome" => stream[p] = <<>>
    /\ type = "unknown" => stream[p] \in {<<>>, <<"outcome">>}
    /\ stream' = [stream EXCEPT ![p] = Append(@, type)]
    /\ UNCHANGED <<gate, lease, localVars, bound, ops, checks, late, worker, restarts>>

(* The operation of a key begins once; a repeated call finds it begun.     *)
Execute(key) ==
    IF ops[key] # "none" THEN UNCHANGED <<ops, checks>>
    ELSE \/ ops' = [ops EXCEPT ![key] = "pending"] /\ UNCHANGED checks
         \/ ops' = [ops EXCEPT ![key] = "failed"] /\ UNCHANGED checks
         \/ ops' = [ops EXCEPT ![key] = "completed"] /\ checks' = checks \cup {key}

LateCallArrives(key) ==
    /\ key \in late
    /\ late' = late \ {key}
    /\ Execute(key)
    /\ UNCHANGED <<gate, lease, localVars, bound, stream, worker, restarts>>

OperationEnds(key) ==
    /\ ops[key] = "pending"
    /\ \/ ops' = [ops EXCEPT ![key] = "completed"] /\ checks' = checks \cup {key}
       \/ ops' = [ops EXCEPT ![key] = "failed"] /\ UNCHANGED checks
    /\ UNCHANGED <<gate, lease, localVars, bound, stream, late, worker, restarts>>

-----------------------------------------------------------------------------
(* The server process.                                                     *)

(* runServe: a new gate, a first verification that may fail, the worker.   *)
Start ==
    /\ worker.phase = "down"
    /\ worker' = [Down EXCEPT !.phase = "acquire"]
    /\ gate' \in {NewGate, [NewGate EXCEPT !.fresh = TRUE]}
    /\ UNCHANGED <<lease, localVars, bound, authorityVars, restarts>>

Stop ==
    /\ worker.phase # "down" /\ restarts < MaxRestarts
    /\ restarts' = restarts + 1
    /\ worker' = Down
    /\ gate' = NewGate
    /\ UNCHANGED <<localVars, bound, authorityVars>>

Crash == Stop /\ Orphaned

Shutdown == Stop /\ releaseWorkerLease

(* StartRefresher ticks, or fails to verify until the gate decays.         *)
Refresh ==
    /\ worker.phase # "down"
    /\ Verify \/ GateDecays
    /\ UNCHANGED <<lease, localVars, bound, authorityVars, worker, restarts>>

ExpireLease ==
    /\ LeaseExpires
    /\ UNCHANGED <<gate, localVars, bound, authorityVars, worker, restarts>>

AcquireLease ==
    /\ worker.phase = "acquire"
    /\ acquireWorkerLease
    /\ worker' = [worker EXCEPT !.phase = "idle"]
    /\ UNCHANGED <<gate, localVars, bound, authorityVars, restarts>>

(* A heartbeat that finds the lease lost sends the worker back to acquire. *)
HeartbeatLost ==
    /\ worker.phase = "idle" /\ ~HeldStill
    /\ worker' = [worker EXCEPT !.phase = "acquire"]
    /\ UNCHANGED <<gate, lease, localVars, bound, authorityVars, restarts>>

-----------------------------------------------------------------------------
(* The sweep: it projects each pass in flight, verifies the receipts of    *)
(* those awaiting one, and settles the publications in flight.             *)

Begin(phase, todo) ==
    worker' = [worker EXCEPT !.phase = phase, !.todo = todo, !.cur = NoPass, !.result = "none",
                             !.part = phase]

InFlight == {p \in Passes : pub[p].state = "in_flight"}

StartPoll ==
    /\ worker.phase = "idle"
    /\ Begin("project", {p \in Passes : row[p].state # "completed"})
    /\ UNCHANGED <<gate, lease, localVars, bound, authorityVars, restarts>>

(* The list of a part of the sweep is exhausted: the next part begins.     *)
NextPart ==
    /\ worker.todo = {}
    /\ \/ /\ worker.phase = "project"
          /\ Begin("receipts", {p \in Passes : row[p].state = "outcome_pending"})
       \/ worker.phase = "receipts" /\ Begin("publications", InFlight)
       \/ worker.phase = "publications" /\ Begin("idle", {})
    /\ UNCHANGED <<gate, lease, localVars, bound, authorityVars, restarts>>

(* The worker has done with the pass in hand, or never took it up.         *)
Done(p) == worker' = [worker EXCEPT !.phase = worker.part, !.todo = @ \ {p}, !.cur = NoPass,
                                    !.result = "none"]

(* projectPass and ApplyPage: a page of the events after the cursor is     *)
(* applied whole, and the next one is read.                                *)
Page(p, to) == {stream[p][n] : n \in row[p].cursor + 1 .. to}

ProjectPage(p, to) ==
    /\ row[p].compatible /\ "unknown" \notin Page(p, to)
    /\ row' = [row EXCEPT ![p].state = "outcome_pending", ![p].cursor = to]
    /\ UNCHANGED <<worker, view, pub>>

(* An unknown type rolls the page back; marking the projection is another  *)
(* transaction, and the latch another step.                                *)
RejectPage(p, to) ==
    /\ row[p].compatible /\ "unknown" \in Page(p, to)
    /\ worker' = [worker EXCEPT !.phase = "mark", !.cur = p]
    /\ UNCHANGED localVars

(* No event is left, the read fails, or the pass is marked incompatible:   *)
(* a page is then refused without latching the gate.                       *)
ProjectNothing(p) == Done(p) /\ UNCHANGED localVars

ProjectPass(p) ==
    /\ worker.phase = "project" /\ p \in worker.todo
    /\ \/ \E to \in row[p].cursor + 1 .. Len(stream[p]) : ProjectPage(p, to) \/ RejectPage(p, to)
       \/ ProjectNothing(p)
    /\ UNCHANGED <<gate, lease, bound, authorityVars, restarts>>

markProjectionIncompatible ==
    /\ worker.phase = "mark"
    /\ row' = [row EXCEPT ![worker.cur].compatible = FALSE]
    /\ worker' = [worker EXCEPT !.phase = "latch"]
    /\ UNCHANGED <<gate, lease, view, pub, bound, authorityVars, restarts>>

Latch ==
    /\ worker.phase = "latch"
    /\ NoteProjectionIncompatible
    /\ Done(worker.cur)
    /\ UNCHANGED <<lease, localVars, bound, authorityVars, restarts>>

-----------------------------------------------------------------------------
(* verifyReceipts.                                                         *)

(* VerifyReceipt: the verdict and the end of the pass commit together.     *)
(* Only a receipt that verifies goes on to its check.                      *)
VerifyReceipt(p) ==
    /\ worker.phase = "receipts" /\ p \in worker.todo
    /\ \/ /\ view[p] = "none"
          /\ \/ /\ view' = [view EXCEPT ![p] = "verified"]
                /\ row' = [row EXCEPT ![p].state = "completed"]
                /\ worker' = [worker EXCEPT !.phase = "intent", !.cur = p]
             \/ view' = [view EXCEPT ![p] = "unverifiable"] /\ Done(p) /\ UNCHANGED row
       \/ Done(p) /\ UNCHANGED <<row, view>>    \* not ready, or already unverifiable
    /\ UNCHANGED <<gate, lease, pub, bound, authorityVars, restarts>>

(* Mutant of putCheckPublicationIfAbsent: the intent is left for later.    *)
putNoCheckPublication(p) == UNCHANGED pub

(* In flight, under its key, unless the key is there already.              *)
putCheckPublicationIfAbsent(p) ==
    pub' = IF pub[p] # NoIntent THEN pub
           ELSE [pub EXCEPT ![p] = [state |-> "in_flight", key |-> PublicationIDKey(p)]]

(* Phase 1 of PublishVerifiedCheck.  Without a repository binding there is *)
(* nothing to publish to.                                                  *)
RecordIntent ==
    LET p == worker.cur IN
    /\ worker.phase = "intent"
    /\ IF p \in bound
       THEN /\ putCheckPublicationIfAbsent(p)
            /\ worker' = [worker EXCEPT !.phase = "publish"]
       ELSE Done(p) /\ UNCHANGED pub
    /\ UNCHANGED <<gate, lease, row, view, bound, authorityVars, restarts>>

-----------------------------------------------------------------------------
(* The call, by PublishVerifiedCheck and again by ReconcilePublication.    *)

Settle(result) == worker' = [worker EXCEPT !.phase = "settle", !.result = result]

(* Mutant of callKey: a repeated call has a key of its own.                *)
callKeyOfAttempt == <<worker.cur, IF worker.phase = "publish" THEN 0 ELSE 1>>

callKey == IF worker.phase = "publish" THEN PublicationIDKey(worker.cur) ELSE pub[worker.cur].key

(* The check was made, now or by an earlier call with the key.  A first    *)
(* call whose answer names another key is disputed.                        *)
Answered ==
    /\ Execute(callKey) /\ ops'[callKey] = "completed"
    /\ Settle("settled") \/ (worker.phase = "publish" /\ Settle("disputed"))
    /\ UNCHANGED late

(* The authority answers that the binding is gone.                         *)
BindingGone ==
    /\ Settle("disputed")
    /\ UNCHANGED <<ops, checks, late>>

(* The call fails at the caller: refused, lost, executed with its answer   *)
(* lost, or still under way.  The intent stays in flight.                  *)
CallFailed ==
    /\ \/ UNCHANGED <<ops, checks, late>>
       \/ Execute(callKey) /\ UNCHANGED late
       \/ late' = late \cup {callKey} /\ UNCHANGED <<ops, checks>>
    /\ Done(worker.cur)

Refused ==
    /\ Done(worker.cur)
    /\ UNCHANGED <<ops, checks, late>>

(* GatedAuthority asks the gate before it calls.  Only the worker latches  *)
(* the gate, so nothing comes between the two in this call; the gated      *)
(* calls of HTTP requests are in the other modules, where a refusal is a   *)
(* call that fails without effect.                                         *)
PublishGitHubCheck ==
    /\ worker.phase \in {"publish", "republish"}
    /\ IF checkMutation THEN Answered \/ BindingGone \/ CallFailed ELSE Refused
    /\ UNCHANGED <<gate, lease, localVars, bound, stream, restarts>>

(* setCheckPublicationState, in a transaction of its own.                  *)
setCheckPublicationState ==
    /\ worker.phase = "settle"
    /\ pub' = [pub EXCEPT ![worker.cur].state = worker.result]
    /\ Done(worker.cur)
    /\ UNCHANGED <<gate, lease, row, view, bound, authorityVars, restarts>>

-----------------------------------------------------------------------------
(* reconcileCheckPublications.                                             *)

(* Mutant of Reconciled: the authority's word is taken over.               *)
ReconciledVerbatim(status) == status

(* What ReconcilePublication makes of the operation: an unknown key and a  *)
(* failure are disputed, and an operation under way is published again.    *)
Reconciled(status) ==
    CASE status = "completed" -> "settled"
      [] status \in {"failed", "none"} -> "disputed"
      [] status = "pending" -> "none"

ReconcilePublication(p) ==
    LET result == Reconciled(ops[pub[p].key]) IN
    /\ worker.phase = "publications" /\ p \in worker.todo
    /\ worker' = [worker EXCEPT !.phase = IF result = "none" THEN "republish" ELSE "settle",
                                !.cur = p, !.result = result]
    /\ UNCHANGED <<gate, lease, localVars, bound, authorityVars, restarts>>

(* ReconcileOperation fails: the next sweep asks again.                    *)
ReconcileFailed(p) ==
    /\ worker.phase = "publications" /\ p \in worker.todo
    /\ Done(p)
    /\ UNCHANGED <<gate, lease, localVars, bound, authorityVars, restarts>>

-----------------------------------------------------------------------------
WorkerStep ==
    \/ AcquireLease \/ HeartbeatLost \/ StartPoll \/ NextPart
    \/ \E p \in Passes : ProjectPass(p) \/ VerifyReceipt(p)
                             \/ ReconcilePublication(p) \/ ReconcileFailed(p)
    \/ markProjectionIncompatible \/ Latch \/ RecordIntent
    \/ PublishGitHubCheck \/ setCheckPublicationState

AuthorityStep ==
    \/ \E p \in Passes, type \in {"outcome", "unknown"} : Emit(p, type)
    \/ \E key \in Keys : LateCallArrives(key) \/ OperationEnds(key)

Next == WorkerStep \/ AuthorityStep \/ Start \/ Crash \/ Shutdown \/ Refresh \/ ExpireLease

Spec == Init /\ [][Next]_vars

(* The server is started again, a lease nobody renews expires, the worker  *)
(* works, an operation ends, and ReconcileOperation does not fail for ever.*)
(* Run's select takes any ready tick, so lost heartbeats do not keep it    *)
(* from polling for ever.                                                  *)
Fairness ==
    /\ WF_vars(Start) /\ WF_vars(ExpireLease) /\ WF_vars(WorkerStep) /\ SF_vars(StartPoll)
    /\ \A p \in Passes : SF_vars(ReconcilePublication(p))
    /\ \A key \in Keys : WF_vars(OperationEnds(key))

FairSpec == Spec /\ Fairness

-----------------------------------------------------------------------------
(* Whatever crashed, a check run, or a call that may still make one, is    *)
(* accounted for by a durable intent over a verified receipt               *)
(* (PublishVerifiedCheck commits the intent before the call).              *)
CheckIsAccountedFor ==
    \A key \in checks \cup late :
        pub[key[1]].state # "none" /\ view[key[1]] = "verified"

(* Retries, late calls and restarts never make a second check run for a    *)
(* receipt, and a publication recorded as settled has its one check run at *)
(* GitHub (PublicationIDKey, PublishVerifiedCheck, ReconcilePublication).  *)
OneCheckPerReceipt ==
    \A p \in Passes :
        LET made == {key \in checks : key[1] = p} IN
        /\ Cardinality(made) =< 1
        /\ pub[p].state = "settled" => made # {}

(* An intent in flight is settled or disputed in the end, although its     *)
(* pass has ended, the gate may stay latched, and the server may crash and *)
(* find its predecessor's lease (reconcileCheckPublications, acquireLease).*)
PublicationSettles ==
    \A p \in Passes : pub[p].state = "in_flight" ~> pub[p].state \in {"settled", "disputed"}

=============================================================================
