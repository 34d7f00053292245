-------------------------- MODULE PublicationProofs --------------------------
(***************************************************************************)
(* Proofs about Publication, for any number of passes and restarts.        *)
(***************************************************************************)
EXTENDS Publication, FiniteSetTheorems, SequenceTheorems, TLAPS

-----------------------------------------------------------------------------
(* The inductive invariant, as named parts.                                *)

(* The values of the worker.                                               *)
WorkerState == [phase : {"down", "acquire", "idle", "project", "mark", "latch", "receipts",
                         "intent", "publish", "publications", "republish", "settle"},
                todo : SUBSET Passes, cur : Passes \cup {NoPass},
                result : {"none", "settled", "disputed"},
                part : {"idle", "project", "receipts", "publications"}]

(* The values of the row of a pass.                                        *)
RowState == [state : {"running", "outcome_pending", "completed"},
             cursor : 0 .. 2, compatible : BOOLEAN]

(* An intent is written for a verified receipt only, under the one key of  *)
(* that receipt, and never goes away.                                      *)
IntentsOK ==
    \A p \in Passes : pub[p] # NoIntent =>
        /\ pub[p].key = PublicationIDKey(p)
        /\ view[p] = "verified"

(* Every call is made under a key an intent holds, and an operation that   *)
(* is completed has made its check run.                                    *)
CallsOK ==
    /\ \A key \in checks \cup late :
           key = PublicationIDKey(key[1]) /\ pub[key[1]] # NoIntent
    /\ \A key \in Keys : ops[key] # "none" =>
           key = PublicationIDKey(key[1]) /\ pub[key[1]] # NoIntent
    /\ \A key \in Keys : ops[key] = "completed" => key \in checks
    /\ \A p \in Passes : pub[p].state = "settled" => PublicationIDKey(p) \in checks

(* What the worker relies on in each phase of its sweep.                   *)
WorkerOK ==
    /\ worker.phase \in {"idle", "project", "receipts", "publications"}
           => worker.part = worker.phase
    /\ worker.phase = "acquire" => worker.part = "idle"
    /\ worker.phase \in {"mark", "latch", "intent", "publish", "republish", "settle"}
           => worker.cur \in Passes
    /\ worker.phase = "intent" => view[worker.cur] = "verified"
    /\ worker.phase \in {"publish", "republish", "settle"} => pub[worker.cur] # NoIntent
    /\ worker.phase = "settle" =>
           /\ worker.result \in {"settled", "disputed"}
           /\ worker.result = "settled" => PublicationIDKey(worker.cur) \in checks
    /\ worker.part = "publications" => \A p \in worker.todo : pub[p] # NoIntent

IInv == TypeOK /\ IntentsOK /\ CallsOK /\ WorkerOK

-----------------------------------------------------------------------------
(* The empty store and a server that is down satisfy the invariant.        *)
LEMMA InitEstablishes == Init => IInv
  <1> SUFFICES ASSUME Init PROVE IInv
    OBVIOUS
  <1> USE DEF Init
  <1>1. TypeOK
    <2>1. gate \in GateState /\ lease \in LeaseRow
      BY DEF GateState, NewGate, LeaseRow, NoLease
    <2>2. worker \in WorkerState
      BY DEF Down, WorkerState
    <2>3. restarts \in 0 .. MaxRestarts
      BY MaxRestartsAssumption
    <2> QED BY <2>1, <2>2, <2>3 DEF TypeOK, WorkerState
  <1>2. IntentsOK /\ CallsOK
    BY DEF IntentsOK, CallsOK, NoIntent
  <1>3. WorkerOK
    BY DEF WorkerOK, Down
  <1> QED BY <1>1, <1>2, <1>3 DEF IInv

(* An authority step on the operation of a key that an intent holds keeps  *)
(* the part of the invariant about calls.                                  *)
LEMMA ExecuteOK ==
    ASSUME IInv, NEW p \in Passes, pub[p] # NoIntent, Execute(PublicationIDKey(p)),
           UNCHANGED pub, late' \subseteq late \cup {PublicationIDKey(p)}
    PROVE  /\ ops' \in [Keys -> {"none", "pending", "completed", "failed"}]
           /\ checks' \subseteq Keys /\ checks \subseteq checks'
           /\ CallsOK'
  <1> DEFINE key == PublicationIDKey(p)
  <1>0. key \in Keys /\ key[1] = p
    BY DEF PublicationIDKey, Keys
  <1>1. /\ ops \in [Keys -> {"none", "pending", "completed", "failed"}]
        /\ checks \subseteq Keys /\ CallsOK
    BY DEF IInv, TypeOK
  <1>2. /\ ops' \in [Keys -> {"none", "pending", "completed", "failed"}]
        /\ checks' \subseteq checks \cup {key} /\ checks \subseteq checks'
        /\ \A k \in Keys : ops'[k] = "completed" => k \in checks'
        /\ \A k \in Keys : ops'[k] # "none" => k = key \/ ops[k] # "none"
    BY <1>0, <1>1 DEF Execute, CallsOK
  <1>3. \A k \in checks' \cup late' : k = PublicationIDKey(k[1]) /\ pub[k[1]] # NoIntent
    BY <1>0, <1>1, <1>2 DEF CallsOK
  <1> QED BY <1>0, <1>1, <1>2, <1>3 DEF CallsOK

(* The longest stream of the model.                                        *)
LEMMA AppendToOutcome == Append(<<"outcome">>, "unknown") = <<"outcome", "unknown">>
  <1> DEFINE T == {"outcome", "unknown"}
             s == Append(<<"outcome">>, "unknown")
  <1>1. <<"outcome">> \in Seq(T) /\ <<"outcome", "unknown">> \in Seq(T)
    OBVIOUS
  <1>2. s \in Seq(T) /\ Len(s) = 2 /\ s[1] = "outcome" /\ s[2] = "unknown"
    BY <1>1, AppendProperties
  <1>3. Len(<<"outcome", "unknown">>) = 2 /\ \A n \in 1 .. 2 : s[n] = <<"outcome", "unknown">>[n]
    BY <1>2
  <1> QED BY <1>1, <1>2, <1>3, SeqEqual

(* The steps of the authority: an event, a delayed call, an operation that *)
(* ends.                                                                   *)
LEMMA AuthoritySteps == ASSUME IInv, AuthorityStep PROVE IInv'
  <1>1. CASE \E p \in Passes, type \in {"outcome", "unknown"} : Emit(p, type)
    <2>1. PICK p \in Passes, type \in {"outcome", "unknown"} : Emit(p, type)
      BY <1>1
    <2>2. stream' \in [Passes -> {<<>>, <<"outcome">>, <<"unknown">>, <<"outcome", "unknown">>}]
      <3>1. Append(<<>>, "outcome") = <<"outcome">> /\ Append(<<>>, "unknown") = <<"unknown">>
        OBVIOUS
      <3>2. Append(stream[p], type)
                \in {<<>>, <<"outcome">>, <<"unknown">>, <<"outcome", "unknown">>}
        BY <2>1, <3>1, AppendToOutcome, Zenon DEF Emit
      <3> QED BY <2>1, <3>2 DEF IInv, TypeOK, Emit
    <2> QED BY <2>1, <2>2 DEF Emit, IInv, TypeOK, localVars, IntentsOK, CallsOK, WorkerOK
  <1>2. CASE \E key \in Keys : LateCallArrives(key) \/ OperationEnds(key)
    <2>1. PICK key \in Keys : LateCallArrives(key) \/ OperationEnds(key)
      BY <1>2
    <2>2. CASE LateCallArrives(key)
      <3> USE <2>2 DEF LateCallArrives, localVars
      <3>1. key[1] \in Passes /\ key = PublicationIDKey(key[1]) /\ pub[key[1]] # NoIntent
        BY DEF IInv, CallsOK, Keys
      <3>2. /\ ops' \in [Keys -> {"none", "pending", "completed", "failed"}]
            /\ checks' \subseteq Keys /\ checks \subseteq checks'
            /\ CallsOK'
        BY <3>1, ExecuteOK
      <3> QED BY <3>2 DEF IInv, TypeOK, IntentsOK, WorkerOK
    <2>3. CASE OperationEnds(key)
      <3> USE <2>3 DEF OperationEnds, localVars
      <3>1. PICK p \in Passes, n \in {0, 1} : key = <<p, n>>
        BY DEF Keys
      <3> QED BY DEF IInv, TypeOK, IntentsOK, CallsOK, WorkerOK
    <2> QED BY <2>1, <2>2, <2>3
  <1> QED BY <1>1, <1>2 DEF AuthorityStep

(* A step of the sweep that leaves the verdicts, the intents and the       *)
(* authority alone keeps the invariant when the worker is in order.        *)
LEMMA RowsAndWorker ==
    ASSUME IInv, worker' \in WorkerState, WorkerOK', worker'.phase # "down",
           row' \in [Passes -> RowState], gate' \in GateState, lease' \in LeaseRow,
           UNCHANGED <<view, pub, bound, authorityVars, restarts>>
    PROVE  IInv'
  <1>1. TypeOK'
    BY DEF IInv, TypeOK, WorkerState, RowState, authorityVars
  <1>2. IntentsOK' /\ CallsOK'
    BY DEF IInv, IntentsOK, CallsOK, authorityVars
  <1> QED BY <1>1, <1>2 DEF IInv

(* The same when the rows and the gate stay too.                           *)
LEMMA OnlyTheWorker ==
    ASSUME IInv, worker' \in WorkerState, WorkerOK', worker'.phase # "down",
           UNCHANGED <<gate, localVars, bound, authorityVars, restarts>>, lease' \in LeaseRow
    PROVE  IInv'
  BY RowsAndWorker DEF IInv, TypeOK, RowState, localVars

(* Done puts the worker back to the part of the sweep it is in.            *)
LEMMA DoneOK ==
    ASSUME IInv, NEW p \in Passes, Done(p), worker.phase # "down",
           \A q \in Passes : pub[q] # NoIntent => pub'[q] # NoIntent
    PROVE  worker' \in WorkerState /\ WorkerOK' /\ worker'.phase # "down"
  BY DEF IInv, TypeOK, WorkerState, WorkerOK, Done

(* Begin takes up a part of the sweep with its list; the list of the last  *)
(* part holds intents.                                                     *)
LEMMA BeginOK ==
    ASSUME IInv, NEW phase \in {"idle", "project", "receipts", "publications"},
           NEW todo \in SUBSET Passes, Begin(phase, todo), UNCHANGED pub,
           phase = "publications" => \A p \in todo : pub[p] # NoIntent
    PROVE  worker' \in WorkerState /\ WorkerOK' /\ worker'.phase # "down"
  BY DEF IInv, TypeOK, WorkerState, WorkerOK, Begin

(* The lease, the list of a part of the sweep, and the intents that are    *)
(* taken up or put off.                                                    *)
LEMMA ListSteps ==
    ASSUME IInv,
           \/ AcquireLease \/ HeartbeatLost \/ StartPoll \/ NextPart
           \/ \E p \in Passes : ReconcilePublication(p) \/ ReconcileFailed(p)
    PROVE  IInv'
  <1>0. worker \in WorkerState /\ WorkerOK /\ lease \in LeaseRow
    BY DEF IInv, TypeOK, WorkerState
  <1>1. CASE AcquireLease
    <2> USE <1>1 DEF AcquireLease
    <2>1. worker' \in WorkerState /\ worker'.phase # "down" /\ WorkerOK'
      BY <1>0 DEF WorkerState, WorkerOK
    <2>2. lease' \in LeaseRow
      BY DEF acquireWorkerLease, Held, LeaseRow
    <2> QED BY <2>1, <2>2, OnlyTheWorker
  <1>2. CASE HeartbeatLost
    <2>1. worker' \in WorkerState /\ worker'.phase # "down" /\ WorkerOK'
      BY <1>0, <1>2 DEF HeartbeatLost, WorkerState, WorkerOK
    <2> QED BY <1>0, <1>2, <2>1, OnlyTheWorker DEF HeartbeatLost
  <1>3. CASE StartPoll
    <2>1. worker' \in WorkerState /\ worker'.phase # "down" /\ WorkerOK'
      BY <1>3, BeginOK DEF StartPoll, localVars
    <2> QED BY <1>0, <1>3, <2>1, OnlyTheWorker DEF StartPoll
  <1>4. CASE NextPart
    <2>1. InFlight \in SUBSET Passes /\ \A p \in InFlight : pub[p] # NoIntent
      BY DEF InFlight, NoIntent
    <2>2. {p \in Passes : row[p].state = "outcome_pending"} \in SUBSET Passes
      OBVIOUS
    <2>3. UNCHANGED pub
      BY <1>4 DEF NextPart, localVars
    <2>4. worker' \in WorkerState /\ worker'.phase # "down" /\ WorkerOK'
      <3>1. CASE Begin("receipts", {p \in Passes : row[p].state = "outcome_pending"})
        BY <3>1, <2>2, <2>3, BeginOK
      <3>2. CASE Begin("publications", InFlight)
        BY <3>2, <2>1, <2>3, BeginOK
      <3>3. CASE Begin("idle", {})
        BY <3>3, <2>3, BeginOK
      <3> QED BY <1>4, <3>1, <3>2, <3>3 DEF NextPart
    <2> QED BY <1>0, <1>4, <2>4, OnlyTheWorker DEF NextPart
  <1>5. ASSUME NEW p \in Passes, ReconcilePublication(p) PROVE IInv'
    <2> USE <1>5 DEF ReconcilePublication
    <2> DEFINE result == Reconciled(ops[pub[p].key])
    <2>1. pub[p] # NoIntent /\ pub[p].key = PublicationIDKey(p) /\ PublicationIDKey(p) \in Keys
      BY <1>0 DEF WorkerOK, IInv, IntentsOK, PublicationIDKey, Keys
    <2>2. /\ result \in {"none", "settled", "disputed"}
          /\ result = "settled" => PublicationIDKey(p) \in checks
      BY <2>1 DEF IInv, TypeOK, CallsOK, Reconciled
    <2>3. worker' \in WorkerState /\ worker'.phase # "down"
      BY <1>0, <2>2 DEF WorkerState
    <2>4. WorkerOK'
      BY <1>0, <2>1, <2>2 DEF WorkerState, WorkerOK, localVars, authorityVars
    <2> QED BY <1>0, <2>3, <2>4, OnlyTheWorker
  <1>6. ASSUME NEW p \in Passes, ReconcileFailed(p) PROVE IInv'
    BY <1>0, <1>6, DoneOK, OnlyTheWorker DEF ReconcileFailed, localVars
  <1> QED BY <1>1, <1>2, <1>3, <1>4, <1>5, <1>6

(* The steps that project events: a page, the mark, the latch.             *)
LEMMA ProjectionSteps ==
    ASSUME IInv,
           (\E p \in Passes : ProjectPass(p)) \/ markProjectionIncompatible \/ Latch
    PROVE  IInv'
  <1>0. worker \in WorkerState /\ WorkerOK
    BY DEF IInv, TypeOK, WorkerState
  <1>1. ASSUME NEW p \in Passes, ProjectPass(p) PROVE IInv'
    <2> USE <1>1 DEF ProjectPass
    <2>1. CASE ProjectNothing(p)
      BY <1>0, <2>1, DoneOK, OnlyTheWorker DEF ProjectNothing, localVars, IInv, TypeOK
    <2>2. ASSUME NEW to \in row[p].cursor + 1 .. Len(stream[p]), ProjectPage(p, to)
          PROVE  IInv'
      <3> USE <2>2 DEF ProjectPage
      <3>1. row \in [Passes -> RowState] /\ gate \in GateState /\ lease \in LeaseRow
        BY DEF IInv, TypeOK, RowState
      <3>2. to \in 0 .. 2
        <4>1. \A s \in {<<>>, <<"outcome">>, <<"unknown">>, <<"outcome", "unknown">>} :
                  Len(s) \in 0 .. 2
          OBVIOUS
        <4>2. stream[p] \in {<<>>, <<"outcome">>, <<"unknown">>, <<"outcome", "unknown">>}
          BY DEF IInv, TypeOK
        <4>3. Len(stream[p]) \in 0 .. 2
          BY <4>1, <4>2, Zenon
        <4>4. row[p].cursor \in 0 .. 2
          BY <3>1 DEF RowState
        <4>5. \A lo, hi \in 0 .. 2 : \A n \in lo + 1 .. hi : n \in 0 .. 2
          OBVIOUS
        <4> QED BY <4>3, <4>4, <4>5, Zenon
      <3>3. row' \in [Passes -> RowState]
        BY <3>1, <3>2 DEF RowState
      <3>4. worker' \in WorkerState /\ worker'.phase # "down" /\ WorkerOK'
        BY <1>0 DEF WorkerOK, authorityVars
      <3> QED BY <3>1, <3>3, <3>4, RowsAndWorker
    <2>3. ASSUME NEW to \in row[p].cursor + 1 .. Len(stream[p]), RejectPage(p, to)
          PROVE  IInv'
      <3>1. worker' \in WorkerState /\ worker'.phase # "down" /\ WorkerOK'
        BY <1>0, <2>3 DEF RejectPage, WorkerState, WorkerOK, localVars
      <3> QED BY <2>3, <3>1, OnlyTheWorker DEF RejectPage, IInv, TypeOK
    <2> QED BY <2>1, <2>2, <2>3
  <1>2. CASE markProjectionIncompatible
    <2> USE <1>2 DEF markProjectionIncompatible
    <2>1. row \in [Passes -> RowState] /\ gate \in GateState /\ lease \in LeaseRow
      BY DEF IInv, TypeOK, RowState
    <2>2. row' \in [Passes -> RowState]
      BY <2>1 DEF RowState
    <2>3. worker' \in WorkerState /\ worker'.phase # "down" /\ WorkerOK'
      BY <1>0 DEF WorkerState, WorkerOK, authorityVars
    <2> QED BY <2>1, <2>2, <2>3, RowsAndWorker
  <1>3. CASE Latch
    <2> USE <1>3 DEF Latch
    <2>1. worker' \in WorkerState /\ worker'.phase # "down" /\ WorkerOK'
      BY <1>0, DoneOK DEF WorkerOK, localVars
    <2>2. gate' \in GateState
      BY DEF IInv, TypeOK, GateState, NoteProjectionIncompatible
    <2> QED BY <2>1, <2>2 DEF IInv, TypeOK, WorkerState, IntentsOK, CallsOK, localVars,
               authorityVars
  <1> QED BY <1>1, <1>2, <1>3

(* The verdict, and the intent that follows it.                            *)
LEMMA ReceiptSteps ==
    ASSUME IInv, (\E p \in Passes : VerifyReceipt(p)) \/ RecordIntent
    PROVE  IInv'
  <1>0. worker \in WorkerState /\ WorkerOK
    BY DEF IInv, TypeOK, WorkerState
  <1>1. ASSUME NEW p \in Passes, VerifyReceipt(p) PROVE IInv'
    <2> USE <1>1 DEF VerifyReceipt
    <2>0. row \in [Passes -> RowState] /\ view \in [Passes -> {"none", "verified", "unverifiable"}]
      BY DEF IInv, TypeOK, RowState
    <2>1. /\ row' \in [Passes -> RowState]
          /\ view' \in [Passes -> {"none", "verified", "unverifiable"}]
          /\ \A q \in Passes : view[q] # "none" => view'[q] = view[q]
      <3>1. [row EXCEPT ![p].state = "completed"] \in [Passes -> RowState]
        BY <2>0 DEF RowState
      <3>2. row' \in [Passes -> RowState]
        BY <2>0, <3>1
      <3> QED BY <2>0, <3>2
    <2>2. worker' \in WorkerState /\ worker'.phase # "down" /\ WorkerOK'
      <3>1. CASE Done(p)
        BY <3>1, DoneOK
      <3>2. CASE /\ view' = [view EXCEPT ![p] = "verified"]
                 /\ worker' = [worker EXCEPT !.phase = "intent", !.cur = p]
        BY <1>0, <3>2 DEF WorkerState, WorkerOK, IInv, TypeOK
      <3> QED BY <3>1, <3>2
    <2>3. IntentsOK'
      BY <2>1 DEF IInv, IntentsOK
    <2>4. TypeOK'
      BY <2>1, <2>2 DEF IInv, TypeOK, WorkerState, RowState, authorityVars
    <2> QED BY <2>2, <2>3, <2>4 DEF IInv, CallsOK, authorityVars
  <1>2. CASE RecordIntent
    <2> USE <1>2 DEF RecordIntent
    <2> DEFINE p == worker.cur
    <2>0. p \in Passes /\ view[p] = "verified" /\ PublicationIDKey(p) \in Keys
      BY <1>0 DEF WorkerOK, PublicationIDKey, Keys
    <2>1. CASE p \notin bound
      BY <2>0, <2>1, DoneOK, OnlyTheWorker DEF localVars, IInv, TypeOK
    <2>2. CASE p \in bound
      <3>1. /\ pub' \in [Passes -> {NoIntent} \cup [state : {"in_flight", "settled", "disputed"},
                                                     key : Keys]]
            /\ \A q \in Passes : pub[q] # NoIntent => pub'[q] = pub[q]
            /\ \A q \in Passes : q # p => pub'[q] = pub[q]
            /\ pub'[p] # NoIntent
            /\ pub[p] = NoIntent => pub'[p] = [state |-> "in_flight", key |-> PublicationIDKey(p)]
        BY <2>0, <2>2 DEF putCheckPublicationIfAbsent, IInv, TypeOK, NoIntent
      <3>2. IntentsOK'
        BY <2>0, <3>1 DEF IInv, IntentsOK
      <3>3. CallsOK'
        <4>1. \A q \in Passes : pub'[q].state = "settled" => pub[q].state = "settled"
          BY <3>1
        <4>2. \A key \in Keys : key[1] \in Passes
          BY DEF Keys
        <4> QED BY <3>1, <4>1, <4>2 DEF IInv, TypeOK, CallsOK, authorityVars
      <3>4. worker' \in WorkerState /\ worker'.phase # "down" /\ WorkerOK'
        BY <1>0, <2>0, <2>2, <3>1 DEF WorkerState, WorkerOK
      <3> QED BY <3>1, <3>2, <3>3, <3>4 DEF IInv, TypeOK, WorkerState, authorityVars
    <2> QED BY <2>1, <2>2
  <1> QED BY <1>1, <1>2

(* The call that publishes a check.  In both phases it is made under the   *)
(* key of the intent.                                                      *)
LEMMA PublishSteps ==
    ASSUME IInv, PublishGitHubCheck
    PROVE  IInv'
  <1> USE DEF PublishGitHubCheck
  <1> DEFINE p == worker.cur
             key == PublicationIDKey(p)
  <1>0. /\ worker \in WorkerState /\ WorkerOK /\ lease \in LeaseRow
        /\ ops \in [Keys -> {"none", "pending", "completed", "failed"}]
        /\ UNCHANGED <<gate, lease, row, view, pub, bound, stream, restarts>>
    BY DEF IInv, TypeOK, WorkerState, localVars
  <1>1. p \in Passes /\ pub[p] # NoIntent /\ key \in Keys
    BY <1>0 DEF WorkerOK, PublicationIDKey, Keys
  <1>2. callKey = key
    BY <1>0, <1>1 DEF callKey, IInv, IntentsOK
  <1> HIDE DEF key
  <1>3. ASSUME UNCHANGED <<ops, checks, late>> \/ (Execute(key) /\ UNCHANGED late)
                   \/ (late' = late \cup {key} /\ UNCHANGED <<ops, checks>>)
        PROVE  /\ ops' \in [Keys -> {"none", "pending", "completed", "failed"}]
               /\ checks' \subseteq Keys /\ checks \subseteq checks' /\ late' \subseteq Keys
               /\ CallsOK'
    <2>1. CASE UNCHANGED <<ops, checks, late>>
      BY <1>0, <2>1 DEF IInv, TypeOK, CallsOK
    <2>2. CASE Execute(key) /\ UNCHANGED late
      BY <1>0, <1>1, <2>2, ExecuteOK DEF key, IInv, TypeOK
    <2>3. CASE late' = late \cup {key} /\ UNCHANGED <<ops, checks>>
      <3>1. key[1] = p /\ key = PublicationIDKey(key[1])
        BY DEF key, PublicationIDKey
      <3>2. ops' \in [Keys -> {"none", "pending", "completed", "failed"}]
                /\ checks' \subseteq Keys /\ late' \subseteq Keys
        BY <1>0, <1>1, <2>3 DEF IInv, TypeOK
      <3> QED BY <1>0, <1>1, <2>3, <3>1, <3>2 DEF IInv, CallsOK
    <2> QED BY <1>3, <2>1, <2>2, <2>3
  <1>4. ASSUME UNCHANGED <<ops, checks, late>> \/ (Execute(key) /\ UNCHANGED late)
                   \/ (late' = late \cup {key} /\ UNCHANGED <<ops, checks>>),
               worker' \in WorkerState, WorkerOK', worker'.phase # "down"
        PROVE  IInv'
    <2>1. TypeOK'
      BY <1>0, <1>3, <1>4 DEF IInv, TypeOK, WorkerState
    <2>2. IntentsOK'
      BY <1>0, <1>4 DEF IInv, IntentsOK
    <2> QED BY <1>3, <1>4, <2>1, <2>2 DEF IInv
  <1>5. CASE Done(p)
    <2>1. worker' \in WorkerState /\ WorkerOK' /\ worker'.phase # "down"
      BY <1>0, <1>1, <1>5, DoneOK
    <2>2. UNCHANGED <<ops, checks, late>> \/ (Execute(key) /\ UNCHANGED late)
              \/ (late' = late \cup {key} /\ UNCHANGED <<ops, checks>>)
      BY <1>2 DEF Answered, BindingGone, CallFailed, Refused, Execute
    <2> QED BY <1>4, <2>1, <2>2
  <1>6. CASE Answered
    <2>1. Execute(key) /\ UNCHANGED late /\ ops'[key] = "completed"
      BY <1>2, <1>6 DEF Answered
    <2>2. checks \subseteq checks' /\ key \in checks'
      <3>1. checks \subseteq checks' /\ CallsOK'
        BY <1>3, <2>1, Zenon
      <3> QED BY <1>1, <2>1, <3>1 DEF CallsOK
    <2>3. PICK result \in {"settled", "disputed"} : Settle(result)
      BY <1>6 DEF Answered
    <2>4. worker' \in WorkerState /\ worker'.phase # "down"
      BY <1>0, <2>3 DEF Settle, WorkerState
    <2>5. WorkerOK'
      BY <1>0, <1>1, <2>2, <2>3 DEF Settle, WorkerState, WorkerOK, key
    <2> QED BY <1>4, <2>1, <2>4, <2>5, Zenon
  <1>7. CASE BindingGone
    <2>1. worker' \in WorkerState /\ worker'.phase # "down"
      BY <1>0, <1>7 DEF BindingGone, Settle, WorkerState
    <2>2. WorkerOK'
      BY <1>0, <1>1, <1>7 DEF BindingGone, Settle, WorkerState, WorkerOK
    <2> QED BY <1>4, <1>7, <2>1, <2>2 DEF BindingGone
  <1> QED BY <1>5, <1>6, <1>7 DEF CallFailed, Refused

(* The settlement of an intent: a publication is recorded as settled only  *)
(* when its check run exists.                                              *)
LEMMA SettlementSteps ==
    ASSUME IInv, setCheckPublicationState
    PROVE  IInv'
  <1> USE DEF setCheckPublicationState
  <1> DEFINE p == worker.cur
             Intents == [state : {"in_flight", "settled", "disputed"}, key : Keys]
  <1>0. worker \in WorkerState /\ WorkerOK
    BY DEF IInv, TypeOK, WorkerState
  <1>1. /\ p \in Passes /\ pub[p] # NoIntent /\ worker.result \in {"settled", "disputed"}
        /\ worker.result = "settled" => PublicationIDKey(p) \in checks
    BY <1>0 DEF WorkerOK
  <1>2. pub \in [Passes -> {NoIntent} \cup Intents]
    BY DEF IInv, TypeOK
  <1>3. /\ pub' \in [Passes -> {NoIntent} \cup Intents]
        /\ \A q \in Passes : q # p => pub'[q] = pub[q]
        /\ pub'[p].state = worker.result /\ pub'[p].key = pub[p].key
        /\ pub'[p] # NoIntent
    <2>1. pub[p] \in Intents
      BY <1>1, <1>2
    <2>2. pub'[p] = [pub[p] EXCEPT !.state = worker.result] /\ pub'[p] \in Intents
      BY <1>1, <1>2, <2>1
    <2> QED BY <1>1, <1>2, <2>1, <2>2 DEF NoIntent
  <1>4. worker' \in WorkerState /\ WorkerOK' /\ worker'.phase # "down"
    BY <1>1, <1>3, DoneOK
  <1>5. TypeOK'
    BY <1>3, <1>4 DEF IInv, TypeOK, WorkerState, authorityVars
  <1>6. IntentsOK'
    BY <1>1, <1>3 DEF IInv, IntentsOK
  <1>7. CallsOK'
    <2>1. \A key \in Keys : key[1] \in Passes
      BY DEF Keys
    <2>2. checks \subseteq Keys /\ late \subseteq Keys
      BY DEF IInv, TypeOK
    <2> QED BY <1>1, <1>3, <2>1, <2>2 DEF IInv, CallsOK, authorityVars
  <1> QED BY <1>4, <1>5, <1>6, <1>7 DEF IInv

(* The steps of the process: it starts, stops, refreshes its gate, and its *)
(* lease expires.                                                          *)
LEMMA ProcessSteps ==
    ASSUME IInv, Start \/ Crash \/ Shutdown \/ Refresh \/ ExpireLease
    PROVE  IInv'
  <1>0. worker \in WorkerState /\ WorkerOK /\ lease \in LeaseRow /\ gate \in GateState
    BY DEF IInv, TypeOK, WorkerState
  <1>1. /\ UNCHANGED <<row, view, pub, bound, stream, ops, checks, late>>
        /\ IntentsOK' /\ CallsOK'
    BY DEF Start, Crash, Shutdown, Stop, Refresh, ExpireLease, localVars, authorityVars, IInv,
           IntentsOK, CallsOK
  <1>2. lease' \in LeaseRow
    <2>1. CASE UNCHANGED lease
      BY <1>0, <2>1
    <2>2. CASE LeaseExpires
      BY <1>0, <2>2 DEF LeaseExpires, LeaseRow
    <2>3. CASE releaseWorkerLease
      BY <1>0, <2>3 DEF releaseWorkerLease, NoLease, LeaseRow
    <2>4. CASE Orphaned
      BY <1>0, <2>4 DEF Orphaned, LeaseRow
    <2> QED BY <2>1, <2>2, <2>3, <2>4 DEF Start, Crash, Shutdown, Refresh, ExpireLease
  <1>3. gate' \in GateState
    <2>1. CASE gate' \in {gate, NewGate, [NewGate EXCEPT !.fresh = TRUE]}
      <3>1. NewGate \in GateState /\ [NewGate EXCEPT !.fresh = TRUE] \in GateState
        BY DEF NewGate, GateState
      <3> QED BY <1>0, <2>1, <3>1, Zenon
    <2>2. CASE Verify \/ GateDecays
      BY <1>0, <2>2 DEF Verify, GateDecays, GateState
    <2> QED BY <2>1, <2>2 DEF Start, Crash, Shutdown, Stop, Refresh, ExpireLease
  <1>4. restarts' \in 0 .. MaxRestarts
    BY MaxRestartsAssumption
    DEF IInv, TypeOK, Start, Crash, Shutdown, Stop, Refresh, ExpireLease
  <1>5. worker' \in WorkerState /\ WorkerOK'
    <2>1. CASE Start
      BY <2>1 DEF Start, Down, WorkerState, WorkerOK
    <2>2. CASE Stop
      BY <2>2 DEF Stop, Down, WorkerState, WorkerOK
    <2>3. CASE Refresh \/ ExpireLease
      BY <1>0, <1>1, <2>3 DEF Refresh, ExpireLease, WorkerOK, IInv
    <2> QED BY <2>1, <2>2, <2>3 DEF Crash, Shutdown
  <1>6. TypeOK'
    BY <1>1, <1>2, <1>3, <1>4, <1>5 DEF IInv, TypeOK, WorkerState
  <1> QED BY <1>1, <1>5, <1>6 DEF IInv

(* Every step keeps the invariant.                                         *)
LEMMA NextPreserves == IInv /\ [Next]_vars => IInv'
  <1> SUFFICES ASSUME IInv, [Next]_vars PROVE IInv'
    OBVIOUS
  <1>1. CASE WorkerStep
    BY <1>1, ListSteps, ProjectionSteps, ReceiptSteps, PublishSteps, SettlementSteps
    DEF WorkerStep
  <1>2. CASE AuthorityStep
    BY <1>2, AuthoritySteps
  <1>3. CASE Start \/ Crash \/ Shutdown \/ Refresh \/ ExpireLease
    BY <1>3, ProcessSteps
  <1>4. CASE UNCHANGED vars
    BY <1>4 DEF vars, localVars, authorityVars, IInv, TypeOK, IntentsOK, CallsOK, WorkerOK
  <1> QED BY <1>1, <1>2, <1>3, <1>4 DEF Next

-----------------------------------------------------------------------------
(* The inductive invariant holds in every reachable state: the sweep, the  *)
(* intents, the authority's operations and the gate fit together.          *)
THEOREM InvariantHolds == Spec => []IInv
  BY InitEstablishes, NextPreserves, PTL DEF Spec

(* The rows, the verdicts, the intents and the worker keep their types.    *)
THEOREM TypeCorrect == Spec => []TypeOK
  <1>1. IInv => TypeOK
    BY DEF IInv
  <1> QED BY <1>1, InvariantHolds, PTL

(* Every check run, and every call that may still make one, has a durable  *)
(* intent over a verified receipt, whatever crashed in between             *)
(* (PublishVerifiedCheck).                                                 *)
THEOREM ChecksAccountedFor == Spec => []CheckIsAccountedFor
  <1>1. IInv => CheckIsAccountedFor
    <2> SUFFICES ASSUME IInv, NEW key \in checks \cup late
                 PROVE  pub[key[1]].state # "none" /\ view[key[1]] = "verified"
      BY DEF CheckIsAccountedFor
    <2>1. key[1] \in Passes
      BY DEF IInv, TypeOK, Keys
    <2>2. pub[key[1]] # NoIntent
      BY DEF IInv, CallsOK
    <2>3. pub[key[1]].state # "none"
      BY <2>1, <2>2 DEF IInv, TypeOK
    <2> QED BY <2>1, <2>2, <2>3 DEF IInv, IntentsOK
  <1> QED BY <1>1, InvariantHolds, PTL

(* A receipt gets at most one check run, whatever is retried, late or      *)
(* restarted, and a publication recorded as settled has it                 *)
(* (PublicationIDKey, ReconcilePublication).                               *)
THEOREM ChecksMadeOnce == Spec => []OneCheckPerReceipt
  <1>1. IInv => OneCheckPerReceipt
    <2> SUFFICES ASSUME IInv, NEW p \in Passes
                 PROVE  LET made == {key \in checks : key[1] = p} IN
                        /\ Cardinality(made) =< 1
                        /\ pub[p].state = "settled" => made # {}
      BY DEF OneCheckPerReceipt
    <2> DEFINE made == {key \in checks : key[1] = p}
               key == PublicationIDKey(p)
    <2>1. made \subseteq {key}
      BY DEF IInv, CallsOK
    <2>2. IsFiniteSet({key}) /\ Cardinality({key}) = 1
      BY FS_Singleton
    <2>3. Cardinality(made) =< 1
      BY <2>1, <2>2, FS_Subset
    <2>4. pub[p].state = "settled" => key \in made
      BY DEF IInv, CallsOK, PublicationIDKey
    <2> QED BY <2>3, <2>4
  <1> QED BY <1>1, InvariantHolds, PTL

=============================================================================
