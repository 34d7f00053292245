--------------------------- MODULE ApprovalProofs ---------------------------
(***************************************************************************)
(* Proofs about Approval, for any number of requests, ceremonies,          *)
(* revisions and crashes.                                                  *)
(***************************************************************************)
EXTENDS Approval, TLAPS

-----------------------------------------------------------------------------
(* The inductive invariant, as named parts.                                *)

(* A row that exists has a version and limits inside the narrowing budget, *)
(* and its proposal, if it has one, is the one the authority holds.        *)
RowOK(p) ==
    /\ p.rev = 0 => p = NoRow
    /\ p.rev > 0 => /\ p.ver \in Versions /\ p.lim \in Limits
                    /\ p.ver + p.lim =< MaxLimit + 1
    /\ p.prop # NoProposal => /\ p.ver \in Versions
                              /\ p.prop = <<p.ver, created[p.ver]>>

(* What a request read is no newer than the row, and is the row itself     *)
(* when the revisions agree: this is what the compare-and-swap buys.       *)
Snapshot(p) ==
    /\ RowOK(p)
    /\ p.state = "draft"
    /\ p.rev =< pass.rev
    /\ p.rev = pass.rev => p = pass

(* An approval of body under key is of the proposal of that draft version, *)
(* by a ceremony that showed it.                                           *)
GoodCall(key, body) ==
    /\ body.att \in Challenges
    /\ body.prop = <<key, created[key]>>
    /\ created[key] \in Limits
    /\ shown[body.att] = <<key, body.prop>>

Drafting  == {"create", "persist_pending", "reconcile_create", "persist"}
Approving == {"begin_idem", "put_intent", "approve", "mark_pending"}

(* A drafting request moves to the next version with narrower limits, or   *)
(* completes the first draft it already wrote as pending.                  *)
DraftingOK(r) ==
    /\ r.key \in Versions /\ r.lim \in Limits
    /\ r.key + r.lim =< MaxLimit + 1
    /\ \/ r.key = r.full.ver + 1 /\ (r.full.rev > 0 => r.lim < r.full.lim)
       \/ /\ r.pc \in {"reconcile_create", "persist"}
          /\ r.key = r.full.ver /\ r.lim = r.full.lim /\ r.full.rev > 0
    /\ r.pc = "persist" => created[r.key] = r.lim

(* An approving request holds the ceremony that showed what it read.       *)
ApprovingOK(r) ==
    /\ r.key \in Versions
    /\ r.key = r.full.ver
    /\ r.full.recon = "settled"
    /\ GoodCall(r.key, ApprovalBody(r))

(* A settling request holds the answer of the authority.                   *)
SettlingOK(r) ==
    /\ r.key \in Versions
    /\ r.key = r.full.ver
    /\ GoodCall(r.key, ApprovalBody(r))
    /\ ops[r.key] = ApprovalBody(r)

RequestOK(r) ==
    /\ r.pc # "idle" => Snapshot(r.full)
    /\ r.pc \in Drafting => DraftingOK(r)
    /\ r.pc \in Approving => ApprovingOK(r)
    /\ r.pc = "settle" => SettlingOK(r)
    /\ r.pc \in {"read_intent", "query"} => r.full.rev > 0
    /\ r.pc = "query" => r.key \in Versions /\ r.att \in Challenges

RequestsOK == \A h \in Handlers : RequestOK(req[h])

PassOK == RowOK(pass) /\ (pass.state = "approved" => pass.recon = "settled")

CallsOK ==
    /\ \A v \in Versions : ops[v] # NoOp => GoodCall(v, ops[v])
    /\ \A call \in late : call.kind = "approve" =>
          GoodCall(call.key, [prop |-> call.prop, att |-> call.att])

CeremoniesOK == \A c \in Challenges : shown[c] # NoDigest => shown[c][2] # NoProposal

RecordsOK ==
    /\ \A v \in Versions : idem[v].status # "none" =>
          /\ created[v] \in Limits
          /\ idem[v].digest = <<v, <<v, created[v]>>>>
    /\ intent.state = "in_flight" => intent.key \in Versions /\ intent.att \in Challenges

IInv ==
    /\ TypeOK
    /\ PassOK
    /\ RequestsOK
    /\ CallsOK
    /\ CeremoniesOK
    /\ RecordsOK
    /\ ApprovedAsReviewed
    /\ SettledTogether

-----------------------------------------------------------------------------
(* The empty store, an idle service and an untouched authority satisfy the *)
(* inductive invariant.                                                    *)
LEMMA InitEstablishes == Init => IInv
  <1> SUFFICES ASSUME Init PROVE IInv
    OBVIOUS
  <1> USE ConstantsAssumption DEF Init
  <1>0. NoRow \in Row /\ NoProposal \notin Proposals
    BY DEF NoRow, Row, NoProposal, Proposals, Versions, Limits
  <1>1. TypeOK
    <2>1. NoDigest \in Canonical /\ NoIdem \in Idempotency
      BY DEF NoDigest, Canonical, NoIdem, Idempotency
    <2>2. NoIntent \in Intent /\ NoOp \in Op
      BY DEF NoIntent, Intent, NoOp, Op
    <2>3. Idle \in Request
      BY <1>0 DEF Idle, Request, PCs
    <2>4. crashes \in 0 .. MaxCrashes
      OBVIOUS
    <2> QED BY <1>0, <2>1, <2>2, <2>3, <2>4, Zenon DEF TypeOK
  <1>2. PassOK /\ RequestsOK
    BY DEF PassOK, RequestsOK, RequestOK, RowOK, NoRow, Idle, Drafting, Approving
  <1>3. CallsOK /\ CeremoniesOK /\ RecordsOK
    BY DEF CallsOK, CeremoniesOK, RecordsOK, NoIdem, NoIntent
  <1>4. ApprovedAsReviewed /\ SettledTogether
    BY DEF ApprovedAsReviewed, SettledTogether, NoRow, NoIdem, NoIntent
  <1> QED BY <1>1, <1>2, <1>3, <1>4 DEF IInv

(* What every step leaves in place: proposals, approvals and challenges    *)
(* are written once, and the row changes only with its revision.           *)
Mono ==
    /\ \A v \in Versions : created[v] # NoLimits => created'[v] = created[v]
    /\ \A v \in Versions : ops[v] # NoOp => ops'[v] = ops[v]
    /\ \A c \in Challenges : shown[c] # NoDigest => shown'[c] = shown[c]
    /\ pass' = pass \/ pass'.rev = pass.rev + 1

(* A call that was right when it was made stays right: proposals, applied  *)
(* operations and shown digests never change once set.                     *)
LEMMA GoodCallStable ==
    ASSUME Mono, NEW key \in Versions, NEW body, GoodCall(key, body)
    PROVE  GoodCall(key, body)'
  BY ConstantsAssumption DEF Mono, GoodCall, Limits, NoLimits, NoDigest, Versions

(* A row copy that was right when it was read stays right, by the same     *)
(* monotonicity.                                                           *)
LEMMA RowOKStable ==
    ASSUME TypeOK, Mono, NEW p \in Row, RowOK(p)
    PROVE  RowOK(p)'
  <1>1. p.prop # NoProposal => created[p.ver] \in Limits
    BY DEF RowOK, Row, Proposals
  <1> QED BY <1>1, ConstantsAssumption DEF Mono, RowOK, Limits, NoLimits

(* A request that does not move keeps its part of the invariant while      *)
(* others move.                                                            *)
LEMMA RequestStable ==
    ASSUME IInv, Mono, pass \in Row, pass' \in Row, NEW r \in Request, RequestOK(r)
    PROVE  RequestOK(r)'
  <1> USE ConstantsAssumption
  <1>0. r.full \in Row /\ TypeOK
    BY DEF Request, IInv
  <1>1. r.pc # "idle" => Snapshot(r.full)'
    <2>1. SUFFICES ASSUME r.pc # "idle" PROVE Snapshot(r.full)'
      OBVIOUS
    <2>2. RowOK(r.full)'
      BY <1>0, <2>1, RowOKStable DEF RequestOK, Snapshot
    <2>3. r.full.rev \in Nat /\ pass.rev \in Nat
      BY <1>0 DEF Row
    <2> QED BY <2>1, <2>2, <2>3 DEF RequestOK, Snapshot, Mono
  <1>2. r.pc \in Drafting => DraftingOK(r)'
    BY DEF RequestOK, DraftingOK, Mono, Limits, NoLimits
  <1>3. r.pc \in Approving => ApprovingOK(r)'
    BY GoodCallStable DEF RequestOK, ApprovingOK, ApprovalBody
  <1>4. r.pc = "settle" => SettlingOK(r)'
    <2>1. SUFFICES ASSUME r.pc = "settle" PROVE SettlingOK(r)'
      OBVIOUS
    <2>2. GoodCall(r.key, ApprovalBody(r)) /\ r.key \in Versions /\ ops[r.key] = ApprovalBody(r)
      BY <2>1 DEF RequestOK, SettlingOK
    <2>3. ops[r.key] # NoOp
      BY <2>2 DEF GoodCall, NoOp, ApprovalBody
    <2>4. ops'[r.key] = ApprovalBody(r)
      BY <2>2, <2>3 DEF Mono
    <2> QED BY <2>1, <2>2, <2>4, GoodCallStable DEF RequestOK, SettlingOK, ApprovalBody
  <1> QED BY <1>1, <1>2, <1>3, <1>4 DEF RequestOK

(* It is enough to look at the request that moved.                         *)
LEMMA OtherRequests ==
    ASSUME IInv, Mono, TypeOK', NEW h \in Handlers, RequestOK(req[h])',
           \A g \in Handlers : g # h => req'[g] = req[g]
    PROVE  RequestsOK'
  <1>1. SUFFICES ASSUME NEW g \in Handlers, g # h PROVE RequestOK(req[g])'
    BY DEF RequestsOK
  <1>2. req[g] \in Request /\ RequestOK(req[g]) /\ pass \in Row /\ pass' \in Row
    BY DEF IInv, TypeOK, RequestsOK
  <1>3. req'[g] = req[g]
    BY <1>1
  <1> QED BY <1>2, <1>3, RequestStable

(* The parts of the invariant that hold of the store and the authority     *)
(* when neither the row nor the approval records change.                   *)
LEMMA StoreFrame ==
    ASSUME IInv, Mono, TypeOK', UNCHANGED <<pass, idem, intent>>
    PROVE  PassOK' /\ RecordsOK' /\ ApprovedAsReviewed' /\ SettledTogether'
  <1> USE ConstantsAssumption
  <1>1. PassOK'
    BY RowOKStable DEF IInv, TypeOK, PassOK, RowOK
  <1>2. RecordsOK'
    BY DEF IInv, RecordsOK, Mono, Limits, NoLimits
  <1>3. ApprovedAsReviewed'
    <2>1. SUFFICES ASSUME pass.state = "approved" PROVE ApprovedAsReviewed'
      BY DEF ApprovedAsReviewed
    <2>2. /\ pass.prop # NoProposal /\ pass.ver \in Versions
          /\ created[pass.ver] \in Limits
      BY <2>1 DEF IInv, TypeOK, SettledTogether, RecordsOK, ApprovedAsReviewed, PassOK, RowOK,
         NoProposal, NoRow, Row, Limits, Versions
    <2>3. ops[pass.ver] # NoOp
      BY <2>1, <2>2 DEF IInv, ApprovedAsReviewed, NoOp
    <2>4. GoodCall(pass.ver, ops[pass.ver])
      BY <2>2, <2>3 DEF IInv, CallsOK
    <2>5. /\ created'[pass.ver] = created[pass.ver]
          /\ ops'[pass.ver] = ops[pass.ver]
          /\ shown'[ops[pass.ver].att] = shown[ops[pass.ver].att]
      BY <2>2, <2>3, <2>4 DEF Mono, GoodCall, Limits, NoLimits, NoDigest, Versions
    <2> QED BY <2>1, <2>5 DEF IInv, ApprovedAsReviewed, CanonicalApprovalBytes
  <1>4. SettledTogether'
    BY DEF IInv, SettledTogether
  <1> QED BY <1>1, <1>2, <1>3, <1>4

(* Calls under way stay right across a step that adds none.                *)
LEMMA CallsFrame ==
    ASSUME IInv, Mono, UNCHANGED <<ops, late>>
    PROVE  CallsOK'
  BY GoodCallStable DEF IInv, TypeOK, CallsOK, LateCreate, LateApprove

(* Begin and a refused Finish touch only the ceremonies.                   *)
LEMMA CeremonySteps ==
    ASSUME IInv, NEW c \in Challenges, Begin(c) \/ FinishRefused(c)
    PROVE  IInv'
  <1>1. CASE FinishRefused(c)
    <2> USE <1>1 DEF FinishRefused, store, upstream
    <2>1. TypeOK' /\ Mono
      BY DEF IInv, TypeOK, Mono
    <2>2. RequestsOK'
      BY <2>1, RequestStable DEF IInv, TypeOK, RequestsOK
    <2>3. CeremoniesOK'
      BY DEF IInv, CeremoniesOK
    <2> QED BY <2>1, <2>2, <2>3, StoreFrame, CallsFrame DEF IInv
  <1>2. CASE Begin(c)
    <2> USE <1>2 DEF Begin, store, upstream
    <2>1. TypeOK'
      <3>1. CanonicalApprovalBytes(pass) \in Canonical
        BY DEF IInv, TypeOK, Row, Canonical, CanonicalApprovalBytes
      <3> QED BY <3>1 DEF IInv, TypeOK
    <2>2. Mono
      BY DEF IInv, TypeOK, Mono
    <2>3. RequestsOK'
      BY <2>1, <2>2, RequestStable DEF IInv, TypeOK, RequestsOK
    <2>4. CeremoniesOK'
      BY DEF IInv, CeremoniesOK, TypeOK, CanonicalApprovalBytes
    <2> QED BY <2>1, <2>2, <2>3, <2>4, StoreFrame, CallsFrame DEF IInv
  <1> QED BY <1>1, <1>2

(* A step of request h that leaves the store and the ceremonies' digests   *)
(* alone preserves the invariant when it keeps the types, the calls of the *)
(* authority and the request itself in order.                              *)
LEMMA RequestStep ==
    ASSUME IInv, Mono, TypeOK', NEW h \in Handlers, RequestOK(req[h])', CallsOK',
           \A g \in Handlers : g # h => req'[g] = req[g],
           UNCHANGED <<pass, idem, intent, shown>>
    PROVE  IInv'
  <1>1. RequestsOK'
    BY OtherRequests
  <1>2. CeremoniesOK'
    BY DEF IInv, CeremoniesOK
  <1> QED BY <1>1, <1>2, StoreFrame DEF IInv

(* An idle handler satisfies the request invariant.                        *)
LEMMA IdleOK == ASSUME TypeOK PROVE Idle \in Request /\ RequestOK(Idle)
  <1>1. NoRow \in Row
    BY ConstantsAssumption DEF NoRow, Row
  <1>2. Idle \in Request
    BY <1>1, ConstantsAssumption DEF Idle, Request, PCs
  <1> QED BY <1>2 DEF Idle, RequestOK, Drafting, Approving

(* Taking up a request.                                                    *)
LEMMA StartSteps ==
    ASSUME IInv, NEW h \in Handlers,
           \/ CreateProposal(h) \/ ReviseProposal(h) \/ ReconcileApproval(h)
           \/ \E c \in Challenges : Finish(h, c)
    PROVE  IInv'
  <1> USE ConstantsAssumption
  <1>0. TypeOK /\ NoRow \in Row /\ pass \in Row
    BY DEF IInv, TypeOK, NoRow, Row
  <1>1. CASE CreateProposal(h)
    <2> USE <1>1 DEF CreateProposal, store, upstream
    <2>1. PICK l \in Limits :
            req' = [req EXCEPT ![h] = [pc |-> "create", full |-> NoRow, key |-> 1,
                                       lim |-> l, att |-> None]]
      OBVIOUS
    <2>2. req'[h] = [pc |-> "create", full |-> NoRow, key |-> 1, lim |-> l, att |-> None]
      BY <2>1, <1>0 DEF TypeOK
    <2>3. req'[h] \in Request
      BY <1>0, <2>2 DEF Request, PCs, Limits
    <2>4. TypeOK'
      <3>1. req' \in [Handlers -> Request]
        BY <1>0, <2>1, <2>2, <2>3 DEF TypeOK
      <3>2. opened' \in BOOLEAN
        OBVIOUS
      <3> QED BY <1>0, <3>1, <3>2, Zenon DEF TypeOK
    <2>5. Mono
      BY DEF Mono
    <2>6. RequestOK(req[h])'
      BY <1>0, <2>2 DEF IInv, RequestOK, Snapshot, RowOK, NoRow, DraftingOK, Drafting, Approving,
         Versions, Limits, Row, PassOK
    <2>7. \A g \in Handlers : g # h => req'[g] = req[g]
      BY <2>1, <1>0 DEF TypeOK
    <2> QED BY <2>4, <2>5, <2>6, <2>7, RequestStep, CallsFrame
  <1>2. CASE ReviseProposal(h)
    <2> USE <1>2 DEF ReviseProposal, store, upstream
    <2>1. PICK l \in Limits :
            /\ l < pass.lim
            /\ req' = [req EXCEPT ![h] = [pc |-> "create", full |-> pass,
                                          key |-> pass.ver + 1, lim |-> l, att |-> None]]
      OBVIOUS
    <2>2. req'[h] = [pc |-> "create", full |-> pass, key |-> pass.ver + 1, lim |-> l,
                     att |-> None]
      BY <2>1, <1>0 DEF TypeOK
    <2>3. /\ pass.rev > 0 /\ pass.ver \in Versions /\ pass.lim \in Limits
          /\ pass.ver + pass.lim =< MaxLimit + 1
      BY <1>0 DEF IInv, PassOK, RowOK, Row
    <2>4. /\ pass.ver + 1 \in Versions
          /\ pass.ver + 1 + l =< MaxLimit + 1
      BY <2>1, <2>3 DEF Versions, Limits
    <2>5. req'[h] \in Request
      BY <1>0, <2>2, <2>4 DEF Request, PCs, Limits, Versions
    <2>6. TypeOK'
      <3>1. req' \in [Handlers -> Request]
        BY <1>0, <2>1, <2>2, <2>5 DEF TypeOK
      <3> QED BY <1>0, <3>1, Zenon DEF TypeOK
    <2>7. Mono
      BY DEF Mono
    <2>8. RequestOK(req[h])'
      BY <1>0, <2>1, <2>2, <2>3, <2>4 DEF IInv, RequestOK, Snapshot, RowOK, DraftingOK, Drafting,
         Approving, Row, PassOK
    <2>9. \A g \in Handlers : g # h => req'[g] = req[g]
      BY <2>1, <1>0 DEF TypeOK
    <2> QED BY <2>6, <2>7, <2>8, <2>9, RequestStep, CallsFrame
  <1>3. CASE ReconcileApproval(h)
    <2> USE <1>3 DEF ReconcileApproval, store, upstream
    <2>1. req'[h] = [pc |-> "read_intent", full |-> pass, key |-> 0, lim |-> 0, att |-> None]
      BY <1>0 DEF TypeOK
    <2>2. req'[h] \in Request
      BY <1>0, <2>1 DEF Request, PCs
    <2>3. TypeOK'
      <3>1. req' \in [Handlers -> Request]
        BY <1>0, <2>1, <2>2 DEF TypeOK
      <3> QED BY <1>0, <3>1, Zenon DEF TypeOK
    <2>4. Mono
      BY DEF Mono
    <2>5. pass.state = "draft"
      BY <1>0 DEF IInv, PassOK, Row
    <2>6. RequestOK(req[h])'
      BY <1>0, <2>1, <2>5 DEF IInv, RequestOK, Snapshot, RowOK, Drafting, Approving, Row, PassOK
    <2>7. \A g \in Handlers : g # h => req'[g] = req[g]
      BY <1>0 DEF TypeOK
    <2> QED BY <2>3, <2>4, <2>6, <2>7, RequestStep, CallsFrame
  <1>4. CASE \E c \in Challenges : Finish(h, c)
    <2>1. PICK c \in Challenges : Finish(h, c)
      BY <1>4
    <2> USE <2>1 DEF Finish, store, upstream, loadForApproval
    <2>2. req'[h] = [pc |-> "begin_idem", full |-> pass, key |-> pass.ver, lim |-> 0,
                     att |-> c]
      BY <1>0 DEF TypeOK
    <2>3. req'[h] \in Request
      <3>1. pass.ver \in 0 .. MaxLimit
        BY <1>0 DEF Row
      <3> QED BY <1>0, <2>2, <3>1 DEF Request, PCs
    <2>4. TypeOK'
      <3>1. req' \in [Handlers -> Request]
        BY <1>0, <2>2, <2>3 DEF TypeOK
      <3>2. begun' \in SUBSET Challenges
        BY <1>0 DEF TypeOK
      <3> QED BY <1>0, <3>1, <3>2, Zenon DEF TypeOK
    <2>5. Mono
      BY DEF Mono
    <2>6. pass.ver \in Versions /\ pass.prop # NoProposal
      BY <1>0 DEF IInv, PassOK, RowOK, CeremoniesOK, CanonicalApprovalBytes, NoDigest, Versions,
         Row
    <2>7. GoodCall(pass.ver, [prop |-> pass.prop, att |-> c])
      <3>1. pass.prop = <<pass.ver, created[pass.ver]>> /\ pass.prop \in Proposals
        BY <1>0, <2>6 DEF IInv, PassOK, RowOK, Row
      <3>2. created[pass.ver] \in Limits
        BY <3>1 DEF Proposals
      <3> QED BY <3>1, <3>2 DEF GoodCall, CanonicalApprovalBytes
    <2>8. RequestOK(req[h])'
      BY <1>0, <2>2, <2>5, <2>6, <2>7, GoodCallStable DEF IInv, RequestOK, Snapshot, RowOK, ApprovingOK,
         ApprovalBody, Drafting, Approving, Row, PassOK
    <2>9. \A g \in Handlers : g # h => req'[g] = req[g]
      BY <1>0 DEF TypeOK
    <2> QED BY <2>4, <2>5, <2>8, <2>9, RequestStep, CallsFrame
  <1> QED BY <1>1, <1>2, <1>3, <1>4


(* How a request moves on and how it ends.                                 *)
LEMMA GotoStep ==
    ASSUME TypeOK, NEW h \in Handlers, NEW label \in PCs, Goto(h, label)
    PROVE  /\ req' \in [Handlers -> Request]
           /\ req'[h].pc = label
           /\ req'[h].full = req[h].full /\ req'[h].key = req[h].key
           /\ req'[h].lim = req[h].lim /\ req'[h].att = req[h].att
           /\ \A g \in Handlers : g # h => req'[g] = req[g]
  BY DEF Goto, TypeOK, Request

(* Ending a request resets its handler and no other.                       *)
LEMMA ReturnStep ==
    ASSUME TypeOK, NEW h \in Handlers, Return(h)
    PROVE  /\ req' \in [Handlers -> Request]
           /\ RequestOK(req[h])'
           /\ \A g \in Handlers : g # h => req'[g] = req[g]
  <1>1. Idle \in Request /\ req'[h] = Idle
    BY IdleOK DEF Return, TypeOK
  <1>2. RequestOK(req[h])'
    BY <1>1 DEF Idle, RequestOK, Drafting, Approving
  <1> QED BY <1>1, <1>2 DEF Return, TypeOK

(* The calls of the authority for a draft.                                 *)
LEMMA CreateSteps ==
    ASSUME IInv, NEW h \in Handlers,
           \/ CreateAnswered(h) \/ CreateFailed(h) \/ ReconcileCreate(h)
    PROVE  IInv'
  <1> USE ConstantsAssumption
  <1>0. TypeOK /\ req[h] \in Request /\ RequestOK(req[h])
    BY DEF IInv, TypeOK, RequestsOK
  <1>1. /\ req[h].key \in Versions /\ req[h].lim \in Limits /\ req[h].full \in Row
        /\ Snapshot(req[h].full) /\ DraftingOK(req[h])
    BY <1>0 DEF CreateAnswered, CreateFailed, ReconcileCreate, Drafting, RequestOK, DraftingOK,
       Request
  <1>2. ApplyCreate(req[h].key, req[h].lim) =>
            /\ created' \in [Versions -> Limits \cup {NoLimits}]
            /\ \A v \in Versions : created[v] # NoLimits => created'[v] = created[v]
            /\ created[req[h].key] \in {NoLimits, req[h].lim} => created'[req[h].key] = req[h].lim
    BY <1>0, <1>1 DEF ApplyCreate, TypeOK
  <1>3. CASE CreateAnswered(h)
    <2> USE <1>3 DEF CreateAnswered, store
    <2>1. /\ req' \in [Handlers -> Request] /\ req'[h].pc = "persist"
          /\ req'[h].full = req[h].full /\ req'[h].key = req[h].key
          /\ req'[h].lim = req[h].lim
          /\ \A g \in Handlers : g # h => req'[g] = req[g]
      BY <1>0, GotoStep DEF PCs
    <2>2. TypeOK'
      BY <1>0, <1>2, <2>1 DEF TypeOK
    <2>3. Mono
      BY <1>2 DEF Mono
    <2>4. RequestOK(req[h])'
      <3>1. Snapshot(req[h].full)'
        BY <1>0, <1>1, <2>1, <2>3, RowOKStable DEF Snapshot
      <3>2. DraftingOK(req[h])'
        BY <1>1, <1>2, <2>1 DEF DraftingOK
      <3> QED BY <2>1, <3>1, <3>2 DEF RequestOK, Drafting, Approving
    <2> QED BY <2>1, <2>2, <2>3, <2>4, RequestStep, CallsFrame
  <1>4. CASE CreateFailed(h)
    <2> USE <1>4 DEF CreateFailed, store
    <2>1. /\ created' \in [Versions -> Limits \cup {NoLimits}]
          /\ \A v \in Versions : created[v] # NoLimits => created'[v] = created[v]
      BY <1>0, <1>2 DEF TypeOK
    <2>2. /\ late' \in SUBSET (LateCreate \cup LateApprove)
          /\ \A call \in late' : call \in late \/ call.kind = "create"
      BY <1>0, <1>1 DEF TypeOK, CreateCall, LateCreate
    <2>3. Mono
      BY <2>1 DEF Mono
    <2>4. CallsOK'
      BY <1>0, <2>2, <2>3, GoodCallStable DEF IInv, CallsOK, TypeOK, LateCreate, LateApprove
    <2>5. CASE Goto(h, "persist_pending")
      <3>1. /\ req' \in [Handlers -> Request] /\ req'[h].pc = "persist_pending"
            /\ req'[h].full = req[h].full /\ req'[h].key = req[h].key
            /\ req'[h].lim = req[h].lim
            /\ \A g \in Handlers : g # h => req'[g] = req[g]
        BY <1>0, <2>5, GotoStep DEF PCs
      <3>2. TypeOK'
        BY <1>0, <2>1, <2>2, <3>1 DEF TypeOK
      <3>3. RequestOK(req[h])'
        <4>1. Snapshot(req[h].full)'
          BY <1>0, <1>1, <2>3, <3>1, RowOKStable DEF Snapshot
        <4>2. DraftingOK(req[h])'
          BY <1>1, <3>1 DEF DraftingOK
        <4> QED BY <3>1, <4>1, <4>2 DEF RequestOK, Drafting, Approving
      <3> QED BY <2>3, <2>4, <3>1, <3>2, <3>3, RequestStep
    <2>6. CASE Return(h)
      <3>1. TypeOK'
        BY <1>0, <2>1, <2>2, <2>6, ReturnStep DEF TypeOK
      <3> QED BY <1>0, <2>3, <2>4, <2>6, <3>1, ReturnStep, RequestStep
    <2> QED BY <2>5, <2>6
  <1>5. CASE ReconcileCreate(h)
    <2> USE <1>5 DEF ReconcileCreate, store, upstream
    <2>1. Mono
      BY DEF Mono
    <2>2. CASE created[req[h].key] = req[h].lim /\ Goto(h, "persist")
      <3>1. /\ req' \in [Handlers -> Request] /\ req'[h].pc = "persist"
            /\ req'[h].full = req[h].full /\ req'[h].key = req[h].key
            /\ req'[h].lim = req[h].lim
            /\ \A g \in Handlers : g # h => req'[g] = req[g]
        BY <1>0, <2>2, GotoStep DEF PCs
      <3>2. TypeOK'
        BY <1>0, <3>1, Zenon DEF TypeOK
      <3>3. RequestOK(req[h])'
        <4>1. Snapshot(req[h].full)'
          BY <1>0, <1>1, <2>1, <3>1, RowOKStable DEF Snapshot
        <4>2. DraftingOK(req[h])'
          BY <1>1, <2>2, <3>1 DEF DraftingOK
        <4> QED BY <3>1, <4>1, <4>2 DEF RequestOK, Drafting, Approving
      <3> QED BY <2>1, <3>1, <3>2, <3>3, CallsFrame, RequestStep
    <2>3. CASE Return(h)
      <3>1. TypeOK'
        BY <1>0, <2>3, ReturnStep, Zenon DEF TypeOK
      <3> QED BY <1>0, <2>1, <2>3, <3>1, CallsFrame, ReturnStep, RequestStep
    <2> QED BY <2>2, <2>3
  <1> QED BY <1>3, <1>4, <1>5

(* What putMissionPass writes, and the row updates the code makes.         *)
LEMMA PutRow ==
    ASSUME TypeOK, NEW rec \in Row, NEW n \in Nat, PutMissionPass(rec, n)
    PROVE  /\ pass' \in Row /\ pass'.rev = pass.rev + 1
           /\ pass'.ver = rec.ver /\ pass'.lim = rec.lim
           /\ pass'.prop = rec.prop /\ pass'.state = rec.state /\ pass'.recon = rec.recon
           /\ pass'.approved = rec.approved /\ pass'.mission = rec.mission
  BY DEF PutMissionPass, Row

(* The rows the code writes are rows.                                      *)
LEMMA RowUpdates ==
    ASSUME NEW p \in Row, NEW v \in Versions, NEW l \in Limits, NEW pr \in Proposals
    PROVE  /\ [p EXCEPT !.recon = "pending"] \in Row
           /\ [p EXCEPT !.state = "draft", !.recon = "pending"] \in Row
           /\ [p EXCEPT !.ver = v, !.lim = l, !.recon = "pending"] \in Row
           /\ [p EXCEPT !.ver = v, !.lim = l, !.prop = pr, !.state = "draft",
                        !.recon = "settled", !.approved = NoProposal] \in Row
  <1>0. v \in 0 .. MaxLimit /\ l \in 0 .. MaxLimit
    BY ConstantsAssumption DEF Versions, Limits
  <1> QED BY <1>0 DEF Row

(* Writing a draft row over a draft row.                                   *)
LEMMA DraftWritten ==
    ASSUME IInv, TypeOK', NEW h \in Handlers, RequestOK(req[h])',
           \A g \in Handlers : g # h => req'[g] = req[g],
           pass.state = "draft", pass'.state = "draft", pass'.rev = pass.rev + 1,
           RowOK(pass)', UNCHANGED <<idem, intent, created, ops, late, shown>>
    PROVE  IInv'
  <1>1. Mono
    BY DEF Mono
  <1>2. PassOK' /\ ApprovedAsReviewed'
    BY DEF PassOK, ApprovedAsReviewed
  <1>3. RecordsOK' /\ CeremoniesOK' /\ SettledTogether'
    BY DEF IInv, RecordsOK, CeremoniesOK, SettledTogether
  <1>4. RequestsOK' /\ CallsOK'
    BY <1>1, OtherRequests, CallsFrame
  <1> QED BY <1>2, <1>3, <1>4 DEF IInv

(* The three writes that keep the pass a draft preserve the invariant.     *)
LEMMA DraftWriteSteps ==
    ASSUME IInv, NEW h \in Handlers,
           PersistPending(h) \/ PersistRevision(h) \/ MarkApprovalPending(h)
    PROVE  IInv'
  <1> USE ConstantsAssumption
  <1>0. TypeOK /\ req[h] \in Request /\ RequestOK(req[h])
    BY DEF IInv, TypeOK, RequestsOK
  <1>1. /\ req[h].full \in Row /\ Snapshot(req[h].full)
        /\ req[h].full.rev \in Nat /\ pass.rev \in Nat /\ NoRow \in Row
    BY <1>0 DEF PersistPending, PersistRevision, MarkApprovalPending, RequestOK, Request, Row,
       TypeOK, NoRow
  <1>2. CASE PersistPending(h)
    <2> USE <1>2 DEF PersistPending, upstream
    <2>0. DraftingOK(req[h]) /\ req[h].key = req[h].full.ver + 1 /\ req[h].key \in Versions
          /\ req[h].lim \in Limits
      BY <1>0 DEF RequestOK, Drafting, DraftingOK
    <2>1. CASE pass.rev # req[h].full.rev /\ Return(h) /\ UNCHANGED pass
      <3>1. TypeOK'
        BY <1>0, <2>1, ReturnStep, Zenon DEF TypeOK
      <3>2. Mono
        BY <2>1 DEF Mono
      <3> QED BY <1>0, <2>1, <3>1, <3>2, CallsFrame, ReturnStep, RequestStep
    <2>2. CASE /\ PutMissionPass(PendingIntent(req[h]), req[h].full.rev)
               /\ req' = [req EXCEPT ![h].pc = "reconcile_create", ![h].full = pass']
      <3>1. pass = req[h].full /\ pass.state = "draft"
        BY <1>1, <2>2 DEF PutMissionPass, Snapshot
      <3>2. PendingIntent(req[h]) \in Row
        <4>1. <<req[h].key, req[h].lim>> \in Proposals
          BY <2>0 DEF Proposals
        <4> QED BY <1>1, <2>0, <4>1, RowUpdates DEF PendingIntent
      <3>3. /\ pass' \in Row /\ pass'.rev = pass.rev + 1 /\ pass'.state = "draft"
            /\ pass'.ver = PendingIntent(req[h]).ver /\ pass'.lim = PendingIntent(req[h]).lim
            /\ pass'.prop = PendingIntent(req[h]).prop
        BY <1>1, <2>2, <3>1, <3>2 DEF PutMissionPass, Row, PendingIntent, NoRow
      <3>4. RowOK(pass)'
        <4>1. CASE req[h].full.rev = 0
          <5>1. pass'.ver = req[h].key /\ pass'.lim = req[h].lim /\ pass'.prop = NoProposal
            BY <3>3, <4>1 DEF PendingIntent, NoRow
          <5> QED BY <1>1, <2>0, <3>1, <3>3, <5>1 DEF RowOK, DraftingOK
        <4>2. CASE req[h].full.rev # 0
          <5>1. pass'.ver = pass.ver /\ pass'.lim = pass.lim /\ pass'.prop = pass.prop
            BY <1>1, <3>1, <3>3, <4>2 DEF PendingIntent, Row
          <5> QED BY <1>1, <3>1, <3>3, <4>2, <5>1 DEF RowOK, Snapshot
        <4> QED BY <4>1, <4>2
      <3>5. /\ req' \in [Handlers -> Request] /\ req'[h].pc = "reconcile_create"
            /\ req'[h].full = pass' /\ req'[h].key = req[h].key /\ req'[h].lim = req[h].lim
            /\ \A g \in Handlers : g # h => req'[g] = req[g]
        BY <1>0, <2>2, <3>3 DEF TypeOK, Request, PCs
      <3>6. TypeOK'
        BY <1>0, <3>3, <3>5, Zenon DEF TypeOK
      <3>7. DraftingOK(req[h])'
        <4>1. CASE req[h].full.rev = 0
          <5>1. pass'.ver = req[h].key /\ pass'.lim = req[h].lim
            BY <3>3, <4>1 DEF PendingIntent, NoRow
          <5> QED BY <1>1, <2>0, <3>1, <3>3, <3>5, <5>1 DEF DraftingOK
        <4>2. CASE req[h].full.rev # 0
          <5>1. pass'.ver = pass.ver /\ pass'.lim = pass.lim
            BY <1>1, <3>1, <3>3, <4>2 DEF PendingIntent, Row
          <5> QED BY <1>1, <2>0, <3>1, <3>5, <4>2, <5>1 DEF DraftingOK
        <4> QED BY <4>1, <4>2
      <3>8. Snapshot(req[h].full)'
        BY <1>1, <3>3, <3>4, <3>5 DEF Snapshot, Row, RowOK
      <3>9. RequestOK(req[h])'
        BY <3>5, <3>7, <3>8 DEF RequestOK, Drafting, Approving
      <3> QED BY <3>1, <3>3, <3>4, <3>5, <3>6, <3>9, DraftWritten
    <2> QED BY <2>1, <2>2
  <1>3. CASE PersistRevision(h)
    <2> USE <1>3 DEF PersistRevision, upstream
    <2>0. /\ req[h].key \in Versions /\ req[h].lim \in Limits
          /\ req[h].key + req[h].lim =< MaxLimit + 1
          /\ created[req[h].key] = req[h].lim
      BY <1>0 DEF RequestOK, Drafting, DraftingOK
    <2>1. CASE pass.rev # req[h].full.rev /\ UNCHANGED pass
      <3>1. TypeOK'
        BY <1>0, <2>1, ReturnStep, Zenon DEF TypeOK
      <3>2. Mono
        BY <2>1 DEF Mono
      <3> QED BY <1>0, <2>1, <3>1, <3>2, CallsFrame, ReturnStep, RequestStep
    <2>2. CASE PutMissionPass(RevisedRow(req[h]), req[h].full.rev)
      <3>1. pass = req[h].full /\ pass.state = "draft"
        BY <1>1, <2>2 DEF PutMissionPass, Snapshot
      <3>2. <<req[h].key, req[h].lim>> \in Proposals
        BY <2>0 DEF Proposals
      <3>3. /\ pass' \in Row /\ pass'.rev = pass.rev + 1 /\ pass'.state = "draft"
            /\ pass'.ver = req[h].key /\ pass'.lim = req[h].lim
            /\ pass'.prop = <<req[h].key, req[h].lim>>
        <4>1. RevisedRow(req[h]) \in Row
          BY <1>1, <2>0, <3>2, RowUpdates DEF RevisedRow
        <4>2. /\ RevisedRow(req[h]).state = "draft"
              /\ RevisedRow(req[h]).ver = req[h].key /\ RevisedRow(req[h]).lim = req[h].lim
              /\ RevisedRow(req[h]).prop = <<req[h].key, req[h].lim>>
          BY <1>1 DEF RevisedRow, Row
        <4> QED BY <1>0, <1>1, <2>2, <4>1, <4>2, PutRow
      <3>4. RowOK(pass)'
        BY <1>1, <2>0, <3>3 DEF RowOK
      <3>5. TypeOK'
        BY <1>0, <3>3, ReturnStep, Zenon DEF TypeOK
      <3> QED BY <1>0, <3>1, <3>3, <3>4, <3>5, ReturnStep, DraftWritten
    <2> QED BY <2>1, <2>2
  <1>4. CASE MarkApprovalPending(h)
    <2> USE <1>4 DEF MarkApprovalPending, upstream
    <2>1. CASE pass.rev # req[h].full.rev /\ UNCHANGED pass
      <3>1. TypeOK'
        BY <1>0, <2>1, ReturnStep, Zenon DEF TypeOK
      <3>2. Mono
        BY <2>1 DEF Mono
      <3> QED BY <1>0, <2>1, <3>1, <3>2, CallsFrame, ReturnStep, RequestStep
    <2>2. CASE PutMissionPass([req[h].full EXCEPT !.state = "draft", !.recon = "pending"],
                              req[h].full.rev)
      <3>1. pass = req[h].full /\ pass.state = "draft"
        BY <1>1, <2>2 DEF PutMissionPass, Snapshot
      <3>2. /\ pass' \in Row /\ pass'.rev = pass.rev + 1 /\ pass'.state = "draft"
            /\ pass'.ver = pass.ver /\ pass'.lim = pass.lim /\ pass'.prop = pass.prop
        <4> DEFINE marked == [req[h].full EXCEPT !.state = "draft", !.recon = "pending"]
        <4>1. marked \in Row
          BY <1>1 DEF Row
        <4>2. /\ marked.state = "draft" /\ marked.ver = pass.ver /\ marked.lim = pass.lim
              /\ marked.prop = pass.prop
          BY <1>1, <3>1 DEF Row
        <4>3. PutMissionPass(marked, req[h].full.rev)
          BY <2>2
        <4> HIDE DEF marked
        <4> QED BY <1>0, <1>1, <4>1, <4>2, <4>3, PutRow
      <3>3. RowOK(pass)' \/ pass.rev = 0
        BY <1>1, <3>1, <3>2 DEF RowOK, Snapshot
      <3>4. pass.rev # 0
        BY <1>0, <3>1 DEF RequestOK, Approving, ApprovingOK, Snapshot, RowOK, NoRow, Versions
      <3>5. TypeOK'
        BY <1>0, <3>2, ReturnStep, Zenon DEF TypeOK
      <3> QED BY <1>0, <3>1, <3>2, <3>3, <3>4, <3>5, ReturnStep, DraftWritten
    <2> QED BY <2>1, <2>2
  <1> QED BY <1>2, <1>3, <1>4

(* The approval before the authority answers.                              *)
LEMMA ApproveSteps ==
    ASSUME IInv, NEW h \in Handlers,
           \/ BeginIdempotency(h) \/ PutApprovalIntent(h)
           \/ ApproveAnswered(h) \/ ApproveFailed(h)
    PROVE  IInv'
  <1> USE ConstantsAssumption
  <1>0. TypeOK /\ req[h] \in Request /\ RequestOK(req[h])
    BY DEF IInv, TypeOK, RequestsOK
  <1>1. /\ req[h].full \in Row /\ Snapshot(req[h].full) /\ ApprovingOK(req[h])
        /\ req[h].key \in Versions /\ req[h].key = req[h].full.ver
        /\ req[h].full.prop = <<req[h].key, created[req[h].key]>>
        /\ created[req[h].key] \in Limits
        /\ req[h].att \in Challenges /\ req[h].full.prop \in Proposals
        /\ GoodCall(req[h].key, ApprovalBody(req[h]))
    <2>1. req[h].pc \in Approving /\ req[h].pc # "idle" /\ req[h].full \in Row
      BY <1>0 DEF BeginIdempotency, PutApprovalIntent, ApproveAnswered, ApproveFailed, Approving,
         Request
    <2>2. Snapshot(req[h].full) /\ ApprovingOK(req[h])
      BY <1>0, <2>1 DEF RequestOK
    <2>3. /\ req[h].key \in Versions /\ req[h].key = req[h].full.ver
          /\ GoodCall(req[h].key, ApprovalBody(req[h]))
      BY <2>2 DEF ApprovingOK
    <2>4. /\ req[h].full.prop = <<req[h].key, created[req[h].key]>>
          /\ created[req[h].key] \in Limits /\ req[h].att \in Challenges
      BY <2>3 DEF GoodCall, ApprovalBody
    <2>5. req[h].full.prop \in Proposals
      BY <2>3, <2>4 DEF Proposals
    <2> QED BY <2>1, <2>2, <2>3, <2>4, <2>5
  <1>2. ASSUME Mono, NEW label \in Approving, Goto(h, label), UNCHANGED pass
        PROVE  /\ RequestOK(req[h])'
               /\ req' \in [Handlers -> Request]
               /\ \A g \in Handlers : g # h => req'[g] = req[g]
    <2>1. /\ req' \in [Handlers -> Request] /\ req'[h].pc = label
          /\ req'[h].full = req[h].full /\ req'[h].key = req[h].key
          /\ req'[h].att = req[h].att
          /\ \A g \in Handlers : g # h => req'[g] = req[g]
      BY <1>0, <1>2, GotoStep DEF PCs, Approving
    <2>2. Snapshot(req[h].full)'
      BY <1>0, <1>1, <1>2, <2>1, RowOKStable DEF Snapshot
    <2>3. ApprovingOK(req[h])'
      BY <1>1, <1>2, <2>1, GoodCallStable DEF ApprovingOK, ApprovalBody
    <2> QED BY <1>2, <2>1, <2>2, <2>3 DEF RequestOK, Drafting, Approving
  <1>3. CASE BeginIdempotency(h)
    <2> USE <1>3 DEF BeginIdempotency, upstream
    <2>1. Mono
      BY DEF Mono
    <2>2. idem' \in [Versions -> Idempotency]
      <3>1. CanonicalApprovalBytes(req[h].full) \in Canonical
        BY <1>1 DEF CanonicalApprovalBytes, Canonical, Row
      <3> QED BY <1>0, <1>1, <3>1 DEF TypeOK, Idempotency
    <2>3. /\ RequestOK(req[h])'
          /\ req' \in [Handlers -> Request]
          /\ \A g \in Handlers : g # h => req'[g] = req[g]
      BY <1>0, <1>2, <2>1, ReturnStep DEF Approving
    <2>4. TypeOK'
      BY <1>0, <2>2, <2>3, Zenon DEF TypeOK
    <2>5. RecordsOK' /\ SettledTogether'
      <3>1. CASE UNCHANGED idem
        BY <3>1 DEF IInv, RecordsOK, SettledTogether
      <3>2. CASE /\ idem[req[h].key].status = "none"
                 /\ idem' = [idem EXCEPT ![req[h].key] =
                               [status |-> "inflight",
                                digest |-> CanonicalApprovalBytes(req[h].full),
                                result |-> NoProposal]]
        <4>1. \A v \in Versions : v # req[h].key => idem'[v] = idem[v]
          BY <1>0, <3>2 DEF TypeOK
        <4>2. /\ idem'[req[h].key].status = "inflight"
              /\ idem'[req[h].key].digest = <<req[h].key, req[h].full.prop>>
          BY <1>0, <1>1, <3>2 DEF TypeOK, CanonicalApprovalBytes
        <4>3. RecordsOK'
          BY <1>1, <4>1, <4>2 DEF IInv, RecordsOK
        <4>4. pass.state = "approved" => pass.ver # req[h].key
          BY <3>2 DEF IInv, SettledTogether
        <4>5. pass.state = "approved" => pass.ver \in Versions
          BY <1>0 DEF IInv, PassOK, RowOK, Row, NoRow, TypeOK
        <4>6. SettledTogether'
          BY <4>1, <4>2, <4>4, <4>5 DEF IInv, SettledTogether
        <4> QED BY <4>3, <4>6
      <3> QED BY <3>1, <3>2
    <2>6. PassOK' /\ ApprovedAsReviewed' /\ CeremoniesOK' /\ CallsOK'
      BY <2>1, CallsFrame DEF IInv, PassOK, RowOK, ApprovedAsReviewed, CanonicalApprovalBytes, CeremoniesOK
    <2>7. RequestsOK'
      BY <2>1, <2>3, <2>4, OtherRequests
    <2> QED BY <2>4, <2>5, <2>6, <2>7 DEF IInv
  <1>4. CASE PutApprovalIntent(h)
    <2> USE <1>4 DEF PutApprovalIntent, upstream
    <2>1. Mono
      BY DEF Mono
    <2>2. intent' \in Intent /\ (intent'.state = "completed" <=> intent.state = "completed")
          /\ (intent'.state = "in_flight" => intent'.key \in Versions /\ intent'.att \in Challenges)
      <3>1. intent \in Intent /\ req[h].key \in 0 .. MaxLimit
        BY <1>0 DEF TypeOK, Request
      <3>2. CASE intent.state = "none"
        BY <1>1, <3>1, <3>2 DEF Intent
      <3>3. CASE intent.state = "in_flight"
        BY <1>1, <3>1, <3>3 DEF IInv, RecordsOK, Intent
      <3>4. CASE intent.state = "completed"
        BY <3>1, <3>4 DEF Intent
      <3> QED BY <3>1, <3>2, <3>3, <3>4 DEF Intent
    <2>3. /\ RequestOK(req[h])'
          /\ req' \in [Handlers -> Request]
          /\ \A g \in Handlers : g # h => req'[g] = req[g]
      BY <1>2, <2>1 DEF Approving
    <2>4. TypeOK'
      BY <1>0, <2>2, <2>3, Zenon DEF TypeOK
    <2>5. RecordsOK' /\ SettledTogether'
      BY <2>2 DEF IInv, RecordsOK, SettledTogether
    <2>6. PassOK' /\ ApprovedAsReviewed' /\ CeremoniesOK' /\ CallsOK'
      BY <2>1, CallsFrame DEF IInv, PassOK, RowOK, ApprovedAsReviewed, CanonicalApprovalBytes, CeremoniesOK
    <2>7. RequestsOK'
      BY <2>1, <2>3, <2>4, OtherRequests
    <2> QED BY <2>4, <2>5, <2>6, <2>7 DEF IInv
  <1>5. ApplyApprove(req[h].key, ApprovalBody(req[h])) =>
            /\ ops' \in [Versions -> Op]
            /\ \A v \in Versions : ops[v] # NoOp => ops'[v] = ops[v]
            /\ \A v \in Versions : ops'[v] = ops[v] \/ (v = req[h].key /\ ops'[v] = ApprovalBody(req[h]))
            /\ ops[req[h].key] \in {NoOp, ApprovalBody(req[h])}
                  => ops'[req[h].key] = ApprovalBody(req[h])
    <2>1. ApprovalBody(req[h]) \in Op
      BY <1>1 DEF ApprovalBody, Op
    <2> QED BY <1>0, <1>1, <2>1 DEF ApplyApprove, TypeOK
  <1>6. CASE ApproveAnswered(h)
    <2> USE <1>6 DEF ApproveAnswered, store
    <2>1. Mono
      BY <1>5 DEF Mono
    <2>2. /\ req' \in [Handlers -> Request] /\ req'[h].pc = "settle"
          /\ req'[h].full = req[h].full /\ req'[h].key = req[h].key
          /\ req'[h].att = req[h].att
          /\ \A g \in Handlers : g # h => req'[g] = req[g]
      BY <1>0, GotoStep DEF PCs
    <2>3. TypeOK'
      BY <1>0, <1>5, <2>2, Zenon DEF TypeOK
    <2>4. CallsOK'
      BY <1>1, <1>5, <2>1, GoodCallStable DEF IInv, CallsOK, TypeOK, LateCreate, LateApprove
    <2>5. RequestOK(req[h])'
      <3>1. Snapshot(req[h].full)'
        BY <1>0, <1>1, <2>1, <2>2, RowOKStable DEF Snapshot
      <3>2. SettlingOK(req[h])'
        BY <1>1, <1>5, <2>1, <2>2, GoodCallStable DEF SettlingOK, ApprovalBody
      <3> QED BY <2>2, <3>1, <3>2 DEF RequestOK, Drafting, Approving
    <2> QED BY <2>1, <2>2, <2>3, <2>4, <2>5, RequestStep
  <1>7. CASE ApproveFailed(h)
    <2> USE <1>7 DEF ApproveFailed, store
    <2>1. /\ ops' \in [Versions -> Op]
          /\ \A v \in Versions : ops[v] # NoOp => ops'[v] = ops[v]
          /\ \A v \in Versions : ops'[v] = ops[v] \/ (v = req[h].key /\ ops'[v] = ApprovalBody(req[h]))
      BY <1>0, <1>5 DEF TypeOK
    <2>2. Mono
      BY <2>1 DEF Mono
    <2>3. /\ late' \in SUBSET (LateCreate \cup LateApprove)
          /\ \A call \in late' : call \in late \/
                call = ApproveCall(req[h].key, ApprovalBody(req[h]))
      <3>1. ApproveCall(req[h].key, ApprovalBody(req[h])) \in LateApprove
        BY <1>1 DEF ApproveCall, ApprovalBody, LateApprove
      <3> QED BY <1>0, <3>1 DEF TypeOK
    <2>4. CallsOK'
      <3>1. \A v \in Versions : ops'[v] # NoOp => GoodCall(v, ops[v])'
        BY <1>1, <2>1, <2>2, GoodCallStable DEF IInv, CallsOK
      <3>2. ASSUME NEW call \in late', call.kind = "approve"
            PROVE  GoodCall(call.key, [prop |-> call.prop, att |-> call.att])'
        <4>1. CASE call \in late
          BY <1>0, <2>2, <3>2, <4>1, GoodCallStable DEF IInv, CallsOK, TypeOK, LateCreate, LateApprove
        <4>2. CASE call = ApproveCall(req[h].key, ApprovalBody(req[h]))
          BY <1>1, <2>2, <4>2, GoodCallStable DEF ApproveCall, ApprovalBody
        <4> QED BY <2>3, <4>1, <4>2
      <3> QED BY <3>1, <3>2 DEF CallsOK
    <2>5. /\ RequestOK(req[h])'
          /\ req' \in [Handlers -> Request]
          /\ \A g \in Handlers : g # h => req'[g] = req[g]
      BY <1>0, <1>2, <2>2, ReturnStep DEF Approving
    <2>6. TypeOK'
      BY <1>0, <2>1, <2>3, <2>5, Zenon DEF TypeOK
    <2> QED BY <2>2, <2>4, <2>5, <2>6, RequestStep
  <1> QED BY <1>3, <1>4, <1>6, <1>7

(* Settlement, and the reconciliation that leads to it.                    *)
LEMMA SettleSteps ==
    ASSUME IInv, NEW h \in Handlers,
           \/ SettleApproval(h) \/ ReadIntent(h) \/ ReplayAnswered(h) \/ ReplayFailed(h)
    PROVE  IInv'
  <1> USE ConstantsAssumption
  <1>0. TypeOK /\ req[h] \in Request /\ RequestOK(req[h])
    BY DEF IInv, TypeOK, RequestsOK
  <1>1. req[h].full \in Row /\ Snapshot(req[h].full)
    BY <1>0 DEF SettleApproval, ReadIntent, ReplayAnswered, ReplayFailed, RequestOK, Request
  <1>2. CASE SettleApproval(h)
    <2> USE <1>2 DEF SettleApproval, upstream
    <2>0. /\ req[h].key \in Versions /\ req[h].key = req[h].full.ver
          /\ GoodCall(req[h].key, ApprovalBody(req[h]))
          /\ ops[req[h].key] = ApprovalBody(req[h])
      BY <1>0 DEF RequestOK, SettlingOK
    <2>1. CASE UNCHANGED store
      <3>1. TypeOK'
        BY <1>0, <2>1, ReturnStep, Zenon DEF TypeOK, store
      <3>2. Mono
        BY <2>1 DEF Mono, store
      <3> QED BY <1>0, <2>1, <3>1, <3>2, CallsFrame, ReturnStep, RequestStep DEF store
    <2>2. CASE /\ idem[req[h].key].status = "inflight"
               /\ intent.state = "in_flight"
               /\ PutMissionPass(ApprovedRow(req[h]), req[h].full.rev)
               /\ idem' = [idem EXCEPT ![req[h].key].status = "completed",
                                       ![req[h].key].result = req[h].full.prop]
               /\ intent' = [intent EXCEPT !.state = "completed"]
      <3>1. pass = req[h].full /\ pass.state = "draft" /\ req[h].full.rev \in Nat
        BY <1>1, <2>2 DEF PutMissionPass, Snapshot, Row
      <3>2. ApprovedRow(req[h]) \in Row
        BY <1>1 DEF ApprovedRow, Row
      <3>3. /\ pass' \in Row /\ pass'.rev = pass.rev + 1
            /\ pass'.ver = pass.ver /\ pass'.lim = pass.lim /\ pass'.prop = pass.prop
            /\ pass'.state = "approved" /\ pass'.recon = "settled"
            /\ pass'.approved = pass.prop /\ pass'.mission = pass.prop
        <4>1. LET a == ApprovedRow(req[h]) IN
              /\ a.ver = pass.ver /\ a.lim = pass.lim /\ a.prop = pass.prop
              /\ a.state = "approved" /\ a.recon = "settled"
              /\ a.approved = pass.prop /\ a.mission = pass.prop
          BY <1>1, <3>1 DEF ApprovedRow, Row
        <4> QED BY <1>0, <2>2, <3>1, <3>2, <4>1, PutRow
      <3>4. /\ idem' \in [Versions -> Idempotency]
            /\ \A v \in Versions : v # req[h].key => idem'[v] = idem[v]
            /\ idem'[req[h].key].status = "completed"
            /\ idem'[req[h].key].result = req[h].full.prop
            /\ idem'[req[h].key].digest = idem[req[h].key].digest
        <4>1. req[h].full.prop \in Proposals \cup {NoProposal}
          BY <1>1 DEF Row
        <4> QED BY <1>0, <2>0, <2>2, <4>1 DEF TypeOK, Idempotency
      <3>5. intent' \in Intent /\ intent'.state = "completed"
        BY <1>0, <2>2 DEF TypeOK, Intent
      <3>6. TypeOK'
        BY <1>0, <3>3, <3>4, <3>5, ReturnStep, Zenon DEF TypeOK
      <3>7. Mono
        BY <3>3 DEF Mono
      <3>8. PassOK'
        BY <1>1, <2>0, <3>1, <3>3 DEF PassOK, RowOK, Snapshot, Row, NoRow, Versions
      <3>9. ApprovedAsReviewed'
        BY <2>0, <3>1, <3>3 DEF ApprovedAsReviewed, GoodCall, ApprovalBody, CanonicalApprovalBytes
      <3>10. RecordsOK'
        BY <2>2, <3>4, <3>5 DEF IInv, RecordsOK
      <3>11. SettledTogether'
        <4>1. \A v \in Versions : v # req[h].key => idem[v].status # "completed"
          BY <3>1 DEF IInv, SettledTogether
        <4> QED BY <2>0, <3>1, <3>3, <3>4, <3>5, <4>1 DEF SettledTogether
      <3>12. RequestsOK'
        BY <1>0, <3>6, <3>7, ReturnStep, OtherRequests
      <3>13. CallsOK' /\ CeremoniesOK'
        BY <3>7, CallsFrame DEF IInv, CeremoniesOK
      <3> QED BY <3>6, <3>8, <3>9, <3>10, <3>11, <3>12, <3>13 DEF IInv
    <2> QED BY <2>1, <2>2
  <1>3. CASE ReadIntent(h)
    <2> USE <1>3 DEF ReadIntent, store, upstream
    <2>1. Mono
      BY DEF Mono
    <2>2. CASE intent.state = "in_flight"
      <3>1. intent.key \in Versions /\ intent.att \in Challenges
        BY <2>2 DEF IInv, RecordsOK
      <3>2. /\ req' \in [Handlers -> Request] /\ req'[h].pc = "query"
            /\ req'[h].full = req[h].full /\ req'[h].key = intent.key
            /\ req'[h].att = intent.att
            /\ \A g \in Handlers : g # h => req'[g] = req[g]
        <4>1. intent.key \in 0 .. MaxLimit
          BY <1>0 DEF TypeOK, Intent
        <4>2. req' = [req EXCEPT ![h].pc = "query", ![h].key = intent.key,
                                 ![h].att = intent.att]
          BY <2>2
        <4>3. req \in [Handlers -> Request]
          BY <1>0 DEF TypeOK
        <4> QED BY <1>0, <3>1, <4>1, <4>2, <4>3 DEF Request, PCs
      <3>3. TypeOK'
        BY <1>0, <3>2, Zenon DEF TypeOK
      <3>4. Snapshot(req[h].full)'
        BY <1>0, <1>1, <2>1, <3>2, RowOKStable DEF Snapshot
      <3>5. RequestOK(req[h])'
        BY <1>0, <3>1, <3>2, <3>4 DEF RequestOK, Drafting, Approving
      <3> QED BY <2>1, <3>2, <3>3, <3>5, CallsFrame, RequestStep
    <2>3. CASE intent.state # "in_flight"
      <3>1. Return(h)
        BY <2>3
      <3>2. TypeOK'
        BY <1>0, <3>1, ReturnStep, Zenon DEF TypeOK
      <3> QED BY <1>0, <2>1, <3>1, <3>2, CallsFrame, ReturnStep, RequestStep
    <2> QED BY <2>2, <2>3
  <1>4. CASE ReplayAnswered(h)
    <2> USE <1>4 DEF ReplayAnswered, store, upstream
    <2>1. Mono
      BY DEF Mono
    <2>2. /\ req' \in [Handlers -> Request] /\ req'[h].pc = "settle"
          /\ req'[h].full = req[h].full /\ req'[h].key = req[h].key
          /\ req'[h].att = req[h].att
          /\ \A g \in Handlers : g # h => req'[g] = req[g]
      BY <1>0, GotoStep DEF PCs
    <2>3. TypeOK'
      BY <1>0, <2>2, Zenon DEF TypeOK
    <2>4. /\ req[h].key \in Versions /\ req[h].att \in Challenges
          /\ ops[req[h].key] # NoOp
      BY <1>0 DEF RequestOK, NoOp, ApprovalBody
    <2>5. GoodCall(req[h].key, ApprovalBody(req[h]))
      BY <2>4 DEF IInv, CallsOK
    <2>6. req[h].key = req[h].full.ver
      BY <1>1, <2>4, <2>5 DEF GoodCall, ApprovalBody, Snapshot, RowOK, NoProposal, Versions
    <2>7. SettlingOK(req[h])'
      BY <2>1, <2>2, <2>4, <2>5, <2>6, GoodCallStable DEF SettlingOK, ApprovalBody
    <2>8. Snapshot(req[h].full)'
      BY <1>0, <1>1, <2>1, <2>2, RowOKStable DEF Snapshot
    <2>9. RequestOK(req[h])'
      BY <2>2, <2>7, <2>8 DEF RequestOK, Drafting, Approving
    <2> QED BY <2>1, <2>2, <2>3, <2>9, CallsFrame, RequestStep
  <1>5. CASE ReplayFailed(h)
    <2> USE <1>5 DEF ReplayFailed, store, upstream
    <2>1. Mono
      BY DEF Mono
    <2>2. TypeOK'
      BY <1>0, ReturnStep, Zenon DEF TypeOK
    <2> QED BY <1>0, <2>1, <2>2, CallsFrame, ReturnStep, RequestStep
  <1> QED BY <1>2, <1>3, <1>4, <1>5

(* Late calls and crashes.                                                 *)
LEMMA EnvironmentSteps ==
    ASSUME IInv, LateCallApplies \/ Crash
    PROVE  IInv'
  <1> USE ConstantsAssumption
  <1>0. TypeOK
    BY DEF IInv
  <1>1. CASE LateCallApplies
    <2>1. PICK call \in late :
            /\ late' = late \ {call}
            /\ IF call.kind = "create"
               THEN ApplyCreate(call.key, call.lim) /\ UNCHANGED ops
               ELSE /\ ApplyApprove(call.key, [prop |-> call.prop, att |-> call.att])
                    /\ UNCHANGED created
            /\ UNCHANGED <<opened, store, shown, begun, req, crashes>>
      BY <1>1 DEF LateCallApplies
    <2>2. /\ call \in LateCreate \cup LateApprove /\ call.key \in Versions
          /\ call.kind # "create" => call \in LateApprove /\ call.kind = "approve"
          /\ call.kind = "create" => call.lim \in Limits
      BY <1>0 DEF TypeOK, LateCreate, LateApprove
    <2>3. /\ created' \in [Versions -> Limits \cup {NoLimits}]
          /\ \A v \in Versions : created[v] # NoLimits => created'[v] = created[v]
      BY <1>0, <2>1, <2>2 DEF TypeOK, ApplyCreate
    <2>4. /\ ops' \in [Versions -> Op]
          /\ \A v \in Versions : ops[v] # NoOp => ops'[v] = ops[v]
          /\ \A v \in Versions : \/ ops'[v] = ops[v]
                                 \/ /\ v = call.key /\ call.kind = "approve"
                                    /\ ops'[v] = [prop |-> call.prop, att |-> call.att]
      <3>1. call.kind # "create" => [prop |-> call.prop, att |-> call.att] \in Op
        BY <2>2 DEF LateApprove, Op
      <3> QED BY <1>0, <2>1, <2>2, <3>1 DEF TypeOK, ApplyApprove
    <2>5. Mono
      BY <2>1, <2>3, <2>4 DEF Mono, store
    <2>6. TypeOK'
      <3>1. late' \in SUBSET (LateCreate \cup LateApprove)
        BY <1>0, <2>1 DEF TypeOK
      <3> QED BY <1>0, <2>1, <2>3, <2>4, <3>1, Zenon DEF TypeOK, store
    <2>7. CallsOK'
      <3>1. \A v \in Versions : ops'[v] # NoOp => GoodCall(v, ops[v])'
        BY <2>4, <2>5, GoodCallStable DEF IInv, CallsOK
      <3>2. ASSUME NEW other \in late', other.kind = "approve"
            PROVE  GoodCall(other.key, [prop |-> other.prop, att |-> other.att])'
        BY <1>0, <2>1, <2>5, <3>2, GoodCallStable DEF IInv, CallsOK, TypeOK, LateCreate, LateApprove
      <3> QED BY <3>1, <3>2 DEF CallsOK
    <2>8. RequestsOK' /\ CeremoniesOK'
      BY <2>1, <2>5, <2>6, RequestStable DEF IInv, TypeOK, RequestsOK, CeremoniesOK
    <2> QED BY <2>1, <2>5, <2>6, <2>7, <2>8, StoreFrame DEF IInv, store
  <1>2. CASE Crash
    <2> USE <1>2 DEF Crash, store, upstream
    <2>1. Idle \in Request
      BY <1>0, IdleOK
    <2>2. TypeOK'
      <3>1. crashes' \in 0 .. MaxCrashes
        BY <1>0 DEF TypeOK
      <3>2. req' \in [Handlers -> Request] /\ begun' \in SUBSET Challenges
        BY <2>1
      <3> QED BY <1>0, <3>1, <3>2, Zenon DEF TypeOK
    <2>3. Mono
      BY DEF Mono
    <2>4. RequestsOK' /\ CeremoniesOK'
      BY DEF RequestsOK, RequestOK, Idle, Drafting, Approving, IInv, CeremoniesOK
    <2> QED BY <2>2, <2>3, <2>4, StoreFrame, CallsFrame DEF IInv
  <1> QED BY <1>1, <1>2

(* Every step of the specification preserves the inductive invariant.      *)
LEMMA NextPreserves == IInv /\ [Next]_vars => IInv'
  <1> SUFFICES ASSUME IInv, [Next]_vars PROVE IInv'
    OBVIOUS
  <1>1. CASE UNCHANGED vars
    <2>1. Mono /\ TypeOK'
      BY <1>1 DEF vars, Mono, IInv, TypeOK
    <2>2. RequestsOK' /\ CeremoniesOK'
      BY <1>1, <2>1, RequestStable DEF vars, IInv, TypeOK, RequestsOK, CeremoniesOK
    <2> QED BY <1>1, <2>1, <2>2, StoreFrame, CallsFrame DEF vars, IInv
  <1>2. CASE \E h \in Handlers :
                \/ CreateProposal(h) \/ ReviseProposal(h) \/ ReconcileApproval(h)
                \/ \E c \in Challenges : Finish(h, c)
    BY <1>2, StartSteps
  <1>3. CASE \E h \in Handlers : HandlerStep(h)
    BY <1>3, CreateSteps, DraftWriteSteps, ApproveSteps, SettleSteps DEF HandlerStep
  <1>4. CASE \E c \in Challenges : Begin(c) \/ FinishRefused(c)
    BY <1>4, CeremonySteps
  <1>5. CASE LateCallApplies \/ Crash
    BY <1>5, EnvironmentSteps
  <1> QED BY <1>1, <1>2, <1>3, <1>4, <1>5 DEF Next

-----------------------------------------------------------------------------
(* The approval service keeps its inductive invariant in every reachable   *)
(* state, whatever the interleaving of requests, late calls and crashes.   *)
THEOREM ApprovalInvariant == Spec => []IInv
  <1>1. Init => IInv
    BY InitEstablishes
  <1>2. IInv /\ [Next]_vars => IInv'
    BY NextPreserves
  <1> QED BY <1>1, <1>2, PTL DEF Spec

(* Every variable of the service keeps its type; in particular draft       *)
(* versions and limits stay inside the budget that narrowing leaves.       *)
THEOREM ApprovalTypeOK == Spec => []TypeOK
  <1>1. IInv => TypeOK
    BY DEF IInv
  <1> QED BY <1>1, ApprovalInvariant, PTL

(* An approved pass is bound to the mission of the very proposal a passkey *)
(* ceremony showed the founder (Finish, settleApproval,                    *)
(* ReconcileApproval), for any number of concurrent requests.              *)
THEOREM ApprovedMissionIsReviewed == Spec => []ApprovedAsReviewed
  <1>1. IInv => ApprovedAsReviewed
    BY DEF IInv
  <1> QED BY <1>1, ApprovalInvariant, PTL

(* The row, the idempotency record and the intent settle together          *)
(* (settleApproval's single transaction).                                  *)
THEOREM ApprovalSettlesTogether == Spec => []SettledTogether
  <1>1. IInv => SettledTogether
    BY DEF IInv
  <1> QED BY <1>1, ApprovalInvariant, PTL

(* The row never names a proposal other than the one the authority holds   *)
(* for its draft version (createUpstream, ReviseProposal).                 *)
THEOREM RowProposalIsUpstream == Spec => []RowHoldsUpstreamProposal
  <1>1. IInv => RowHoldsUpstreamProposal
    BY DEF IInv, PassOK, RowOK, RowHoldsUpstreamProposal
  <1> QED BY <1>1, ApprovalInvariant, PTL

(* A second ceremony for a draft version is never refused for a mismatch   *)
(* of its idempotency record (beginIdempotency).                           *)
THEOREM IdempotencyNeverMismatches == Spec => []KeyMeansOneProposal
  <1>1. IInv => KeyMeansOneProposal
    <2> SUFFICES ASSUME IInv, NEW h \in Handlers, req[h].pc = "begin_idem",
                        idem[req[h].key].status # "none"
                 PROVE  idem[req[h].key].digest = CanonicalApprovalBytes(req[h].full)
      BY DEF KeyMeansOneProposal
    <2>1. ApprovingOK(req[h])
      BY DEF IInv, RequestsOK, RequestOK, Approving
    <2> QED BY <2>1 DEF IInv, RecordsOK, ApprovingOK, GoodCall, ApprovalBody,
         CanonicalApprovalBytes
  <1> QED BY <1>1, ApprovalInvariant, PTL

(* No step of any request, and no crash, rewrites an approved row: the     *)
(* compare-and-swap makes every stale write of a draft lose.               *)
THEOREM ApprovedRowIsFinal == Spec => ApprovalIsFinal
  <1>1. IInv /\ [Next]_vars => [pass.state = "approved" => pass' = pass]_vars
    <2> SUFFICES ASSUME IInv, Next, pass.state = "approved" PROVE pass' = pass
      OBVIOUS
    <2>1. ASSUME NEW h \in Handlers, req[h].pc # "idle", pass.rev = req[h].full.rev
          PROVE  FALSE
      BY <2>1 DEF IInv, RequestsOK, RequestOK, Snapshot
    <2>2. ASSUME NEW h \in Handlers, HandlerStep(h) PROVE pass' = pass
      BY <2>1, <2>2 DEF HandlerStep, CreateAnswered, CreateFailed, PersistPending, ReconcileCreate,
         PersistRevision, BeginIdempotency, PutApprovalIntent, ApproveAnswered, ApproveFailed,
         MarkApprovalPending, SettleApproval, ReadIntent, ReplayAnswered, ReplayFailed,
         PutMissionPass, store
    <2>3. ASSUME NEW h \in Handlers,
                 \/ CreateProposal(h) \/ ReviseProposal(h) \/ ReconcileApproval(h)
                 \/ \E c \in Challenges : Finish(h, c)
          PROVE  pass' = pass
      BY <2>3 DEF CreateProposal, ReviseProposal, ReconcileApproval, Finish, store
    <2>4. ASSUME LateCallApplies \/ Crash \/ \E c \in Challenges : Begin(c) \/ FinishRefused(c)
          PROVE  pass' = pass
      BY <2>4 DEF LateCallApplies, Crash, Begin, FinishRefused, store
    <2> QED BY <2>2, <2>3, <2>4 DEF Next
  <1> QED BY <1>1, ApprovalInvariant, PTL DEF Spec, ApprovalIsFinal

(* Whatever races, a stored draft only ever narrows, one version at a time *)
(* (ReviseProposal's checks, kept true by the compare-and-swap).           *)
THEOREM DraftsOnlyNarrow == Spec => RevisionsNarrow
  <1> DEFINE Narrow == pass.rev > 0 =>
                /\ pass'.lim =< pass.lim
                /\ pass'.ver \in {pass.ver, pass.ver + 1}
                /\ (pass'.lim < pass.lim <=> pass'.ver = pass.ver + 1)
  <1>1. IInv /\ [Next]_vars => [Narrow]_vars
    <2> SUFFICES ASSUME IInv, Next, pass.rev > 0 PROVE Narrow
      OBVIOUS
    <2>0. TypeOK /\ pass \in Row /\ pass.ver \in Int /\ pass.lim \in Int
      BY ConstantsAssumption DEF IInv, TypeOK, Row
    <2>1. ASSUME pass'.ver = pass.ver, pass'.lim = pass.lim PROVE Narrow
      BY <2>0, <2>1
    <2>2. ASSUME NEW h \in Handlers, HandlerStep(h), pass' # pass PROVE Narrow
      <3>1. req[h] \in Request /\ RequestOK(req[h]) /\ req[h].full \in Row
        BY DEF IInv, TypeOK, RequestsOK, Request
      <3>2. CASE PersistPending(h)
        <4>1. pass = req[h].full
          BY <2>2, <3>1, <3>2 DEF PersistPending, PutMissionPass, RequestOK, Snapshot
        <4>2. PendingIntent(req[h]) = [req[h].full EXCEPT !.recon = "pending"]
          BY <2>0, <4>1 DEF PendingIntent, Row
        <4>3. pass' = [PendingIntent(req[h]) EXCEPT !.rev = req[h].full.rev + 1]
          BY <2>2, <3>2 DEF PersistPending, PutMissionPass
        <4> QED BY <2>1, <3>1, <4>1, <4>2, <4>3 DEF Row
      <3>3. CASE PersistRevision(h)
        <4>1. pass = req[h].full /\ DraftingOK(req[h])
          BY <2>2, <3>1, <3>3 DEF PersistRevision, PutMissionPass, RequestOK, Snapshot, Drafting
        <4>2. pass' = [RevisedRow(req[h]) EXCEPT !.rev = req[h].full.rev + 1]
          BY <2>2, <3>3 DEF PersistRevision, PutMissionPass
        <4>3. pass'.ver = req[h].key /\ pass'.lim = req[h].lim
          BY <3>1, <4>2 DEF RevisedRow, Row
        <4> QED BY <2>0, <4>1, <4>3 DEF DraftingOK, Limits, Versions
      <3>4. CASE MarkApprovalPending(h)
        <4>1. pass = req[h].full
          BY <2>2, <3>1, <3>4 DEF MarkApprovalPending, PutMissionPass, RequestOK, Snapshot
        <4>2. pass' = [[req[h].full EXCEPT !.state = "draft", !.recon = "pending"]
                         EXCEPT !.rev = req[h].full.rev + 1]
          BY <2>2, <3>4 DEF MarkApprovalPending, PutMissionPass
        <4> QED BY <2>1, <3>1, <4>1, <4>2 DEF Row
      <3>5. CASE SettleApproval(h)
        <4>1. pass = req[h].full
          BY <2>2, <3>1, <3>5 DEF SettleApproval, PutMissionPass, RequestOK, Snapshot, store
        <4>2. pass' = [ApprovedRow(req[h]) EXCEPT !.rev = req[h].full.rev + 1]
          BY <2>2, <3>5 DEF SettleApproval, PutMissionPass, store
        <4> QED BY <2>1, <3>1, <4>1, <4>2 DEF ApprovedRow, Row
      <3> QED BY <2>2, <3>2, <3>3, <3>4, <3>5 DEF HandlerStep, CreateAnswered, CreateFailed,
             ReconcileCreate, BeginIdempotency, PutApprovalIntent, ApproveAnswered, ApproveFailed,
             ReadIntent, ReplayAnswered, ReplayFailed, store
    <2>3. ASSUME NEW h \in Handlers,
                 \/ CreateProposal(h) \/ ReviseProposal(h) \/ ReconcileApproval(h)
                 \/ \E c \in Challenges : Finish(h, c)
          PROVE  pass' = pass
      BY <2>3 DEF CreateProposal, ReviseProposal, ReconcileApproval, Finish, store
    <2>4. ASSUME LateCallApplies \/ Crash \/ \E c \in Challenges : Begin(c) \/ FinishRefused(c)
          PROVE  pass' = pass
      BY <2>4 DEF LateCallApplies, Crash, Begin, FinishRefused, store
    <2> QED BY <2>1, <2>2, <2>3, <2>4 DEF Next
  <1> QED BY <1>1, ApprovalInvariant, PTL DEF Spec, RevisionsNarrow

=============================================================================
