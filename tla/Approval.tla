------------------------------ MODULE Approval ------------------------------
(***************************************************************************)
(* Drafting, revising and approving one mission pass.                      *)
(*                                                                         *)
(* Several HTTP handlers work on the pass row at once, and none of them    *)
(* takes a lock: CreateProposal and ReviseProposal                         *)
(* (internal/missionpass/proposal.go), the approval ceremony and           *)
(* ReconcileApproval (internal/missionpass/approval.go).  What they read   *)
(* is used after calls to the AuthScope authority, and the only guard is   *)
(* the compare-and-swap on store_revision in the SQLite store.  A call to  *)
(* the authority may be lost, may be applied although its caller saw an    *)
(* error, and may be applied after its caller timed out.  The process may  *)
(* stop between any two steps.                                             *)
(*                                                                         *)
(* The founder's two editable limits (expiry and cost ceiling) are one     *)
(* number: a revision must make it smaller.  A proposal is the pair of the *)
(* draft version it was made for and its limits; the mission an approval   *)
(* creates is named by its proposal.                                       *)
(***************************************************************************)
EXTENDS Integers, PassStates

CONSTANTS Handlers,     \* the concurrent HTTP requests
          Challenges,   \* the passkey ceremonies that may be begun
          MaxLimit,     \* the template maximum of the editable limits
          MaxRevision,  \* bound: no request starts on a row past this revision
          MaxCrashes,   \* bound: how often the process may stop
          None          \* an absent value

ASSUME ConstantsAssumption ==
    /\ MaxLimit \in Nat \ {0}
    /\ MaxRevision \in Nat
    /\ MaxCrashes \in Nat
    /\ None \notin Challenges

VARIABLES pass,        \* the mission_passes row
          opened,      \* CreateProposal was called for this pass ID
          shown,       \* per ceremony, the digest bound into its challenge
          begun,       \* the ceremonies held in memory and not consumed
          idem,        \* idempotency_records, by the draft version in the key
          intent,      \* the approval_intents row
          created,     \* the authority: the limits proposed under each create key
          ops,         \* the authority: the approval applied under each key
          late,        \* calls whose caller gave up and which may still apply
          req,         \* per handler, its program counter and what it read
          crashes

store    == <<pass, idem, intent>>
upstream == <<created, ops, late>>
vars == <<pass, opened, shown, begun, idem, intent, created, ops, late, req, crashes>>

Limits    == 1 .. MaxLimit
Versions  == 1 .. MaxLimit
Proposals == Versions \X Limits
NoLimits  == 0
NoProposal == <<0, 0>>

(* The fields of the row these operations read or write.  approved is      *)
(* ApprovedProposalDigest, mission is MissionRef.                          *)
Row == [rev : Nat, ver : 0 .. MaxLimit, lim : 0 .. MaxLimit,
        prop : Proposals \cup {NoProposal},
        state : {"draft", "approved"}, recon : {"settled", "pending"},
        approved : Proposals \cup {NoProposal},
        mission : Proposals \cup {NoProposal}]

NoRow == [rev |-> 0, ver |-> 0, lim |-> 0, prop |-> NoProposal,
          state |-> "draft", recon |-> "settled",
          approved |-> NoProposal, mission |-> NoProposal]

(* What the challenge binds: draft version and proposal of the row.        *)
CanonicalApprovalBytes(p) == <<p.ver, p.prop>>
Canonical == (0 .. MaxLimit) \X (Proposals \cup {NoProposal})

NoDigest == <<0, NoProposal>>
NoIdem   == [status |-> "none", digest |-> NoDigest, result |-> NoProposal]
NoIntent == [state |-> "none", key |-> 0, att |-> None]
NoOp     == [prop |-> NoProposal, att |-> None]

PCs == {"idle", "create", "persist_pending", "reconcile_create", "persist",
        "begin_idem", "put_intent", "approve", "mark_pending", "settle",
        "read_intent", "query"}

Idle == [pc |-> "idle", full |-> NoRow, key |-> 0, lim |-> 0, att |-> None]

(* One call of the authority still under way after its caller gave up.     *)
LateCreate  == [kind : {"create"}, key : Versions, lim : Limits,
                prop : {NoProposal}, att : {None}]
LateApprove == [kind : {"approve"}, key : Versions, lim : {NoLimits},
                prop : Proposals, att : Challenges]

Idempotency == [status : {"none", "inflight", "completed"}, digest : Canonical,
                result : Proposals \cup {NoProposal}]
Intent  == [state : {"none", "in_flight", "completed"},
            key : 0 .. MaxLimit, att : Challenges \cup {None}]
Op      == [prop : Proposals \cup {NoProposal}, att : Challenges \cup {None}]
Request == [pc : PCs, full : Row, key : 0 .. MaxLimit, lim : 0 .. MaxLimit,
            att : Challenges \cup {None}]

TypeOK ==
    /\ pass \in Row
    /\ opened \in BOOLEAN
    /\ shown \in [Challenges -> Canonical]
    /\ begun \in SUBSET Challenges
    /\ idem \in [Versions -> Idempotency]
    /\ intent \in Intent
    /\ created \in [Versions -> Limits \cup {NoLimits}]
    /\ ops \in [Versions -> Op]
    /\ late \in SUBSET (LateCreate \cup LateApprove)
    /\ req \in [Handlers -> Request]
    /\ crashes \in 0 .. MaxCrashes

Init ==
    /\ pass = NoRow
    /\ opened = FALSE
    /\ shown = [c \in Challenges |-> NoDigest]
    /\ begun = {}
    /\ idem = [v \in Versions |-> NoIdem]
    /\ intent = NoIntent
    /\ created = [v \in Versions |-> NoLimits]
    /\ ops = [v \in Versions |-> NoOp]
    /\ late = {}
    /\ req = [h \in Handlers |-> Idle]
    /\ crashes = 0

-----------------------------------------------------------------------------
(* putMissionPass: one row update guarded by store_revision.               *)
PutMissionPass(rec, expected) ==
    /\ pass.rev = expected
    /\ pass' = [rec EXCEPT !.rev = expected + 1]

Goto(h, label) == req' = [req EXCEPT ![h].pc = label]
Return(h)      == req' = [req EXCEPT ![h] = Idle]

-----------------------------------------------------------------------------
(* CreateProposal and ReviseProposal.                                      *)

(* The first draft of this pass ID.  The ID is fresh, so exactly one       *)
(* attempt ever opens it; there is no row to read yet.                     *)
CreateProposal(h) ==
    /\ req[h].pc = "idle"
    /\ ~opened
    /\ opened' = TRUE
    /\ \E l \in Limits :
          req' = [req EXCEPT ![h] = [pc |-> "create", full |-> NoRow, key |-> 1,
                                     lim |-> l, att |-> None]]
    /\ UNCHANGED <<store, upstream, shown, begun, crashes>>

(* Mutant of ReviseProposal: a revision may keep the limits it read.       *)
ReviseProposalNotNarrowing(h) ==
    /\ req[h].pc = "idle"
    /\ pass.rev \in 1 .. MaxRevision
    /\ pass.state = "draft"
    /\ \E l \in Limits :
          /\ l =< pass.lim
          /\ req' = [req EXCEPT ![h] = [pc |-> "create", full |-> pass,
                                        key |-> pass.ver + 1, lim |-> l,
                                        att |-> None]]
    /\ UNCHANGED <<opened, store, upstream, shown, begun, crashes>>

(* A revision reads a draft, whether its reconciliation is settled or not, *)
(* and must narrow the limits it read.                                     *)
ReviseProposal(h) ==
    /\ req[h].pc = "idle"
    /\ pass.rev \in 1 .. MaxRevision
    /\ pass.state = "draft"
    /\ \E l \in Limits :
          /\ l < pass.lim
          /\ req' = [req EXCEPT ![h] = [pc |-> "create", full |-> pass,
                                        key |-> pass.ver + 1, lim |-> l,
                                        att |-> None]]
    /\ UNCHANGED <<opened, store, upstream, shown, begun, crashes>>

(* The authority applies a create under a key it has not seen, repeats the *)
(* answer for the same body, and refuses the key with another body.        *)
ApplyCreate(key, l) ==
    created' = IF created[key] = NoLimits THEN [created EXCEPT ![key] = l]
                                          ELSE created

CreateCall(key, l) ==
    [kind |-> "create", key |-> key, lim |-> l, prop |-> NoProposal, att |-> None]

CreateAnswered(h) ==
    /\ req[h].pc = "create"
    /\ created[req[h].key] \in {NoLimits, req[h].lim}
    /\ ApplyCreate(req[h].key, req[h].lim)
    /\ Goto(h, "persist")
    /\ UNCHANGED <<opened, store, ops, late, shown, begun, crashes>>

(* The call fails.  It may have been applied, may be applied later, or may *)
(* be lost.  A timeout or a 429, 503 or 504 is ambiguous and is persisted  *)
(* as pending; every other error returns and leaves the row alone.         *)
CreateFailed(h) ==
    /\ req[h].pc = "create"
    /\ \/ ApplyCreate(req[h].key, req[h].lim) /\ late' = late
       \/ late' = late \cup {CreateCall(req[h].key, req[h].lim)} /\ created' = created
       \/ UNCHANGED <<created, late>>
    /\ Goto(h, "persist_pending") \/ Return(h)
    /\ UNCHANGED <<opened, store, ops, shown, begun, crashes>>

(* The pending intent: the row as it was read, or, for a first draft, a    *)
(* row that has limits and no proposal yet.                                *)
PendingIntent(r) ==
    IF r.full.rev = 0
    THEN [NoRow EXCEPT !.ver = r.key, !.lim = r.lim, !.recon = "pending"]
    ELSE [r.full EXCEPT !.recon = "pending"]

PersistPending(h) ==
    /\ req[h].pc = "persist_pending"
    /\ \/ /\ PutMissionPass(PendingIntent(req[h]), req[h].full.rev)
          /\ req' = [req EXCEPT ![h].pc = "reconcile_create", ![h].full = pass']
       \/ /\ pass.rev # req[h].full.rev
          /\ Return(h) /\ UNCHANGED pass
    /\ UNCHANGED <<opened, idem, intent, upstream, shown, begun, crashes>>

(* Mutant of ReconcileCreate: any operation completed under the key is     *)
(* taken for this request's own.                                           *)
ReconcileCreateAnyBody(h) ==
    /\ req[h].pc = "reconcile_create"
    /\ \/ created[req[h].key] # NoLimits /\ Goto(h, "persist")
       \/ Return(h)
    /\ UNCHANGED <<opened, store, upstream, shown, begun, crashes>>

(* reconcileOperation, then the replay of the same body under the same     *)
(* key.  Anything but a completed operation returns with the row pending.  *)
ReconcileCreate(h) ==
    /\ req[h].pc = "reconcile_create"
    /\ \/ created[req[h].key] = req[h].lim /\ Goto(h, "persist")
       \/ Return(h)
    /\ UNCHANGED <<opened, store, upstream, shown, begun, crashes>>

(* The settled revision: the next draft version with its own proposal, and *)
(* no approved digest.                                                     *)
RevisedRow(r) ==
    [r.full EXCEPT !.ver = r.key, !.lim = r.lim, !.prop = <<r.key, r.lim>>,
                   !.state = "draft", !.recon = "settled",
                   !.approved = NoProposal]

PersistRevision(h) ==
    /\ req[h].pc = "persist"
    /\ \/ PutMissionPass(RevisedRow(req[h]), req[h].full.rev)
       \/ pass.rev # req[h].full.rev /\ UNCHANGED pass
    /\ Return(h)
    /\ UNCHANGED <<opened, idem, intent, upstream, shown, begun, crashes>>

-----------------------------------------------------------------------------
(* The approval ceremony.                                                  *)

loadForApproval ==
    /\ pass.rev > 0
    /\ pass.state = "draft"
    /\ pass.recon = "settled"

(* Begin binds the proposal on the row into a fresh challenge.             *)
Begin(c) ==
    /\ shown[c] = NoDigest
    /\ loadForApproval
    /\ pass.prop # NoProposal
    /\ shown' = [shown EXCEPT ![c] = CanonicalApprovalBytes(pass)]
    /\ begun' = begun \cup {c}
    /\ UNCHANGED <<opened, store, upstream, req, crashes>>

(* Finish gives up before any write: the row is no longer an approvable    *)
(* draft, the proposal changed, or the assertion, its session or its       *)
(* two-minute lifetime does not verify.  The ceremony is dropped.          *)
FinishRefused(c) ==
    /\ c \in begun
    /\ begun' = begun \ {c}
    /\ UNCHANGED <<opened, store, upstream, shown, req, crashes>>

(* Mutant of Finish: the digest of the reloaded proposal is not compared   *)
(* with the one the challenge bound.                                       *)
FinishUnchecked(h, c) ==
    /\ req[h].pc = "idle"
    /\ c \in begun
    /\ loadForApproval
    /\ begun' = begun \ {c}
    /\ req' = [req EXCEPT ![h] = [pc |-> "begin_idem", full |-> pass,
                                  key |-> pass.ver, lim |-> 0, att |-> c]]
    /\ UNCHANGED <<opened, store, upstream, shown, crashes>>

(* Mutant of Finish: approvalKey leaves out the draft version.             *)
FinishSameKey(h, c) ==
    /\ req[h].pc = "idle"
    /\ c \in begun
    /\ loadForApproval
    /\ CanonicalApprovalBytes(pass) = shown[c]
    /\ begun' = begun \ {c}
    /\ req' = [req EXCEPT ![h] = [pc |-> "begin_idem", full |-> pass,
                                  key |-> 1, lim |-> 0, att |-> c]]
    /\ UNCHANGED <<opened, store, upstream, shown, crashes>>

(* Finish reloads the row, requires the proposal the challenge bound,      *)
(* consumes the ceremony and signs the attestation, which the ceremony     *)
(* names from here on.                                                     *)
Finish(h, c) ==
    /\ req[h].pc = "idle"
    /\ c \in begun
    /\ loadForApproval
    /\ CanonicalApprovalBytes(pass) = shown[c]
    /\ begun' = begun \ {c}
    /\ req' = [req EXCEPT ![h] = [pc |-> "begin_idem", full |-> pass,
                                  key |-> pass.ver, lim |-> 0, att |-> c]]
    /\ UNCHANGED <<opened, store, upstream, shown, crashes>>

(* BeginIdempotency: a completed record answers the request, a record of   *)
(* other content refuses it, and a record in flight lets it continue.      *)
BeginIdempotency(h) ==
    LET key == req[h].key
        digest == CanonicalApprovalBytes(req[h].full) IN
    /\ req[h].pc = "begin_idem"
    /\ \/ /\ idem[key].status = "none"
          /\ idem' = [idem EXCEPT ![key] = [status |-> "inflight", digest |-> digest,
                                            result |-> NoProposal]]
          /\ Goto(h, "put_intent")
       \/ /\ idem[key].status = "inflight" /\ idem[key].digest = digest
          /\ Goto(h, "put_intent") /\ UNCHANGED idem
       \/ /\ \/ idem[key].status = "completed"
             \/ idem[key].status = "inflight" /\ idem[key].digest # digest
          /\ Return(h) /\ UNCHANGED idem
    /\ UNCHANGED <<opened, pass, intent, upstream, shown, begun, crashes>>

(* putApprovalIntent is keyed by the pass.  On a row that exists it        *)
(* refreshes the attestation and leaves idempotency_key as it is; a        *)
(* completed row is not rewritten.                                         *)
PutApprovalIntent(h) ==
    /\ req[h].pc = "put_intent"
    /\ intent' = CASE intent.state = "none" ->
                        [state |-> "in_flight", key |-> req[h].key, att |-> req[h].att]
                   [] intent.state = "in_flight" -> [intent EXCEPT !.att = req[h].att]
                   [] OTHER -> intent
    /\ Goto(h, "approve")
    /\ UNCHANGED <<opened, pass, idem, upstream, shown, begun, crashes>>

(* The authority's answer to ApproveProposal: the body of a call is the    *)
(* proposal and the attestation.                                           *)
ApprovalBody(r) == [prop |-> r.full.prop, att |-> r.att]

ApplyApprove(key, body) ==
    ops' = IF ops[key] = NoOp THEN [ops EXCEPT ![key] = body] ELSE ops

ApproveCall(key, body) ==
    [kind |-> "approve", key |-> key, lim |-> NoLimits,
     prop |-> body.prop, att |-> body.att]

ApproveAnswered(h) ==
    LET body == ApprovalBody(req[h]) IN
    /\ req[h].pc = "approve"
    /\ ops[req[h].key] \in {NoOp, body}
    /\ ApplyApprove(req[h].key, body)
    /\ Goto(h, "settle")
    /\ UNCHANGED <<opened, store, created, late, shown, begun, crashes>>

(* As for a create: an ambiguous error marks the draft pending, any other  *)
(* error returns, with the intent left in flight.                          *)
ApproveFailed(h) ==
    LET body == ApprovalBody(req[h]) IN
    /\ req[h].pc = "approve"
    /\ \/ ApplyApprove(req[h].key, body) /\ late' = late
       \/ late' = late \cup {ApproveCall(req[h].key, body)} /\ ops' = ops
       \/ UNCHANGED <<ops, late>>
    /\ Goto(h, "mark_pending") \/ Return(h)
    /\ UNCHANGED <<opened, store, created, shown, begun, crashes>>

(* Mutant of MarkApprovalPending: the draft is marked disputed, a state no *)
(* reader handles.                                                         *)
MarkApprovalDisputed(h) ==
    /\ req[h].pc = "mark_pending"
    /\ \/ PutMissionPass([req[h].full EXCEPT !.state = "draft", !.recon = "disputed"],
                         req[h].full.rev)
       \/ pass.rev # req[h].full.rev /\ UNCHANGED pass
    /\ Return(h)
    /\ UNCHANGED <<opened, idem, intent, upstream, shown, begun, crashes>>

(* Mutant of MarkApprovalPending: the row is read again and marked,        *)
(* whatever became of it meanwhile.                                        *)
MarkApprovalPendingAnyway(h) ==
    /\ req[h].pc = "mark_pending"
    /\ PutMissionPass([pass EXCEPT !.recon = "pending"], pass.rev)
    /\ Return(h)
    /\ UNCHANGED <<opened, idem, intent, upstream, shown, begun, crashes>>

(* markApprovalPending; a lost compare-and-swap is ignored.                *)
MarkApprovalPending(h) ==
    /\ req[h].pc = "mark_pending"
    /\ \/ PutMissionPass([req[h].full EXCEPT !.state = "draft", !.recon = "pending"],
                         req[h].full.rev)
       \/ pass.rev # req[h].full.rev /\ UNCHANGED pass
    /\ Return(h)
    /\ UNCHANGED <<opened, idem, intent, upstream, shown, begun, crashes>>

ApprovedRow(r) ==
    [r.full EXCEPT !.state = "approved", !.recon = "settled",
                   !.approved = r.full.prop, !.mission = r.full.prop]

(* Mutant of SettleApproval: the transaction forgets the intent.           *)
SettleApprovalKeepsIntent(h) ==
    LET key == req[h].key IN
    /\ req[h].pc = "settle"
    /\ \/ /\ idem[key].status = "inflight"
          /\ PutMissionPass(ApprovedRow(req[h]), req[h].full.rev)
          /\ idem' = [idem EXCEPT ![key].status = "completed",
                                  ![key].result = req[h].full.prop]
          /\ UNCHANGED intent
       \/ /\ \/ idem[key].status # "inflight"
             \/ pass.rev # req[h].full.rev
          /\ UNCHANGED store
    /\ Return(h)
    /\ UNCHANGED <<opened, upstream, shown, begun, crashes>>

(* settleApproval: the row, the idempotency record and the intent change   *)
(* in one transaction, or, when any of the three refuses, not at all.      *)
SettleApproval(h) ==
    LET key == req[h].key IN
    /\ req[h].pc = "settle"
    /\ \/ /\ idem[key].status = "inflight"
          /\ intent.state = "in_flight"
          /\ PutMissionPass(ApprovedRow(req[h]), req[h].full.rev)
          /\ idem' = [idem EXCEPT ![key].status = "completed",
                                  ![key].result = req[h].full.prop]
          /\ intent' = [intent EXCEPT !.state = "completed"]
       \/ /\ \/ idem[key].status # "inflight"
             \/ intent.state # "in_flight"
             \/ pass.rev # req[h].full.rev
          /\ UNCHANGED store
    /\ Return(h)
    /\ UNCHANGED <<opened, upstream, shown, begun, crashes>>

-----------------------------------------------------------------------------
(* ReconcileApproval, which runs whenever the founder reads the pass.      *)

ReconcileApproval(h) ==
    /\ req[h].pc = "idle"
    /\ pass.rev > 0
    /\ pass.recon = "pending"
    /\ req' = [req EXCEPT ![h] = [pc |-> "read_intent", full |-> pass, key |-> 0,
                                  lim |-> 0, att |-> None]]
    /\ UNCHANGED <<opened, store, upstream, shown, begun, crashes>>

(* A completed intent, or none, ends the reconciliation.                   *)
ReadIntent(h) ==
    /\ req[h].pc = "read_intent"
    /\ IF intent.state = "in_flight"
       THEN req' = [req EXCEPT ![h].pc = "query", ![h].key = intent.key,
                               ![h].att = intent.att]
       ELSE Return(h)
    /\ UNCHANGED <<opened, store, upstream, shown, begun, crashes>>

(* The operation completed under the intent's key, and the replay of the   *)
(* row's proposal with the intent's attestation is the body it recorded.   *)
ReplayAnswered(h) ==
    /\ req[h].pc = "query"
    /\ ops[req[h].key] = ApprovalBody(req[h])
    /\ Goto(h, "settle")
    /\ UNCHANGED <<opened, store, upstream, shown, begun, crashes>>

(* The lookup fails or finds nothing, or the replay fails or is refused.   *)
ReplayFailed(h) ==
    /\ req[h].pc = "query"
    /\ Return(h)
    /\ UNCHANGED <<opened, store, upstream, shown, begun, crashes>>

-----------------------------------------------------------------------------
(* A delayed call reaches the authority.                                   *)
LateCallApplies ==
    \E call \in late :
        /\ late' = late \ {call}
        /\ IF call.kind = "create"
           THEN ApplyCreate(call.key, call.lim) /\ UNCHANGED ops
           ELSE /\ ApplyApprove(call.key, [prop |-> call.prop, att |-> call.att])
                /\ UNCHANGED created
        /\ UNCHANGED <<opened, store, shown, begun, req, crashes>>

(* The process stops and starts again: requests and begun ceremonies are   *)
(* memory, the store and the authority are not.                            *)
Crash ==
    /\ crashes < MaxCrashes
    /\ crashes' = crashes + 1
    /\ req' = [h \in Handlers |-> Idle]
    /\ begun' = {}
    /\ UNCHANGED <<opened, store, upstream, shown>>

HandlerStep(h) ==
    \/ CreateAnswered(h) \/ CreateFailed(h) \/ PersistPending(h)
    \/ ReconcileCreate(h) \/ PersistRevision(h)
    \/ BeginIdempotency(h) \/ PutApprovalIntent(h)
    \/ ApproveAnswered(h) \/ ApproveFailed(h)
    \/ MarkApprovalPending(h) \/ SettleApproval(h)
    \/ ReadIntent(h) \/ ReplayAnswered(h) \/ ReplayFailed(h)

Next ==
    \/ \E h \in Handlers :
          \/ CreateProposal(h) \/ ReviseProposal(h) \/ ReconcileApproval(h)
          \/ \E c \in Challenges : Finish(h, c)
          \/ HandlerStep(h)
    \/ \E c \in Challenges : Begin(c) \/ FinishRefused(c)
    \/ LateCallApplies
    \/ Crash

Spec == Init /\ [][Next]_vars

-----------------------------------------------------------------------------
(* Properties.                                                             *)

(* An approved pass stands for exactly what the founder reviewed: its      *)
(* mission is the one the authority created for the proposal on the row,   *)
(* the authority still holds that proposal under the row's draft version,  *)
(* and the passkey ceremony behind the approval showed the founder that    *)
(* version of that proposal (Finish, settleApproval, ReconcileApproval).   *)
ApprovedAsReviewed ==
    pass.state = "approved" =>
        /\ pass.prop = <<pass.ver, created[pass.ver]>>
        /\ pass.approved = pass.prop
        /\ pass.mission = pass.prop
        /\ ops[pass.ver].prop = pass.prop
        /\ shown[ops[pass.ver].att] = CanonicalApprovalBytes(pass)

(* The row, the idempotency record and the approval intent settle          *)
(* together: the pass is approved exactly when its intent is completed,    *)
(* and then, and only then, the record of its draft version holds the      *)
(* mission.  A duplicate Finish that reads the record is told the truth.   *)
SettledTogether ==
    /\ (pass.state = "approved") <=> (intent.state = "completed")
    /\ \A v \in Versions :
          idem[v].status = "completed" =>
              /\ pass.state = "approved" /\ v = pass.ver
              /\ idem[v].result = pass.mission
    /\ pass.state = "approved" => idem[pass.ver].status = "completed"

(* The record a second ceremony finds under its key is always for the same *)
(* content: BeginIdempotency never answers ErrIdempotencyMismatch, however *)
(* revisions and ceremonies interleave.                                    *)
KeyMeansOneProposal ==
    \A h \in Handlers :
        /\ req[h].pc = "begin_idem"
        /\ idem[req[h].key].status # "none"
        => idem[req[h].key].digest = CanonicalApprovalBytes(req[h].full)

(* The proposal on the row is the one the authority holds for that draft   *)
(* version, also when two revisions of one version race, one of them times *)
(* out and is reconciled, or its call is applied late.                     *)
RowHoldsUpstreamProposal ==
    pass.prop # NoProposal => pass.prop = <<pass.ver, created[pass.ver]>>

(* Approval is final: no stale revision, no late pending mark and no       *)
(* second settlement ever rewrites an approved row.                        *)
ApprovalIsFinal == [][pass.state = "approved" => pass' = pass]_vars

(* Revisions only narrow: no step raises the limits of the row, and the    *)
(* draft version moves by one, together with the limits.                   *)
RevisionsNarrow ==
    [][pass.rev > 0 =>
          /\ pass'.lim =< pass.lim
          /\ pass'.ver \in {pass.ver, pass.ver + 1}
          /\ pass'.lim < pass.lim <=> pass'.ver = pass.ver + 1]_vars

(* A request runs to its end once started (calls have a timeout), the page *)
(* of a pending pass is read again whatever other requests the server has, *)
(* and an authority that is asked again and again answers in the end.      *)
Fairness ==
    /\ \A h \in Handlers : WF_vars(HandlerStep(h)) /\ SF_vars(ReconcileApproval(h))
    /\ \A h \in Handlers : SF_vars(ReplayAnswered(h))

FairSpec == Spec /\ Fairness

-----------------------------------------------------------------------------
(* What the repository says and the code does not do.                      *)

(* "a crash or an ambiguous outcome from here on reconciles against this   *)
(* intent": approval.go, before the call of approveOnce.  An approval that *)
(* was applied under the key of an intent in flight is settled in the end. *)
AppliedApprovalReconciles ==
    (intent.state = "in_flight" /\ ops[intent.key] # NoOp) ~> (intent.state = "completed")

=============================================================================
