-------------------------- MODULE ExpansionProofs --------------------------
(***************************************************************************)
(* Proofs about the expansions of a running mission and its receipt, for   *)
(* any number of expansions, requests, workers and crashes: a decision is  *)
(* issued once and recorded as the authority took it, the mission version  *)
(* of the row only advances, and a pass that ended agrees with its signed  *)
(* receipt.                                                                *)
(***************************************************************************)
EXTENDS MissionRunProofs

-----------------------------------------------------------------------------
(* The inductive invariants.                                               *)

Decided(e) == requested[e].status \in {"approved", "denied"}

StatusOf(decision) == IF decision = "approve_once" THEN "approved" ELSE "denied"

(* decideOnce: where a request is in its decision, and what the intent it  *)
(* wrote or found says.                                                    *)
DecisionOK(a) ==
    LET q == decideReq[a]
        e == q.binding.exp
    IN  /\ q.pc = "put" => decideIntent[e].state = "none"
        /\ q.pc = "call" => decideCalls[e] = 0
        /\ q.pc \in {"call", "query", "settle"} =>
              /\ decideIntent[e].state # "none"
              /\ decideIntent[e].binding.decision = q.binding.decision
        /\ q.pc = "settle" => Decided(e) /\ q.result = requested[e].decided

(* An expansion: nothing is issued before the intent, nothing is decided   *)
(* but what the intent says, and a completed intent is recorded.           *)
ExpansionOK(e) ==
    /\ decideIntent[e].state = "none" => decideCalls[e] = 0 /\ e \notin decideLate /\ ~Decided(e)
    /\ decideCalls[e] =< 1
    /\ Decided(e) => requested[e].status = StatusOf(decideIntent[e].binding.decision)
    /\ decideIntent[e].state = "completed" => Decided(e) /\ expansion[e] = requested[e].status

(* The mutex of an expansion has one holder.                               *)
OneHolder == \A e \in Expansions : \A a, b \in Deciding : Holds(a, e) /\ Holds(b, e) => a = b

DecisionsOK ==
    /\ OneHolder
    /\ \A a \in Deciding : DecisionOK(a)
    /\ \A e \in Expansions : ExpansionOK(e)

Known(e) == requested[e].status # "none"

(* Versions: what is decided under a binding was requested at a version    *)
(* the row has reached.                                                    *)
Covered(b) == b.exp \in Expansions /\ Known(b.exp) /\ requested[b.exp].ver =< pass.mver

CoverOK ==
    /\ \A e \in Expansions : expansion[e] # "none" => Known(e)
    /\ \A e \in Expansions : decideIntent[e].state # "none" => Covered(decideIntent[e].binding)
    /\ \A c \in DecideChallenges : Decides(decideBegun[c]) => Covered(decideBegun[c])
    /\ \A a \in Deciding : decideReq[a].pc \in {"lock", "put", "call"} =>
                              Covered(decideReq[a].binding)
    /\ \A a \in Deciding : \A e \in Expansions : decideReq[a].listed[e] # "none" => Known(e)

(* Of two expansions, the one approved first was approved before the other *)
(* was requested.                                                          *)
InOrder(e, x) ==
    requested[e].status = "approved" /\ Known(x) =>
        \/ requested[e].decided =< requested[x].ver
        \/ /\ requested[x].status # "pending"
           /\ requested[x].status = "approved" => requested[x].decided =< requested[e].ver

(* The row has not reached the version of an approval that is not settled. *)
Dated(e) ==
    /\ requested[e].ver =< mission.ver
    /\ requested[e].status = "approved" =>
          /\ requested[e].ver < requested[e].decided
          /\ requested[e].decided =< mission.ver
          /\ decideIntent[e].state # "completed" => pass.mver < requested[e].decided

OnePending ==
    \A e, x \in Expansions :
        requested[e].status = "pending" /\ requested[x].status = "pending" => e = x

OrderOK ==
    /\ pass.mver =< mission.ver
    /\ OnePending
    /\ \A e, x \in Expansions : e # x => InOrder(e, x)
    /\ \A e \in Expansions : Dated(e)

VersionsOK == CoverOK /\ OrderOK

(* The receipt: it is there only of a run with one outcome, and a pass is  *)
(* shown as ended, or about to be, only when its record is complete.       *)
RunOutcome(n) == log[n].type \in {"run_succeeded", "run_failed"}

OutcomesOK ==
    /\ \A n \in 1 .. Len(log) : RunOutcome(n) => mission.state # "active"
    /\ \A n, m \in 1 .. Len(log) : RunOutcome(n) /\ RunOutcome(m) => n = m
    /\ mission.state = "ended" \/ mission.receipt => \E n \in 1 .. Len(log) : RunOutcome(n)
    /\ mission.receipt => mission.state # "active"

Complete ==
    /\ mission.receipt
    /\ \A e \in Expansions : decideIntent[e].state = "completed" <=> Decided(e)

VerdictsOK ==
    /\ \A w \in Workers : work[w].phase = "verdict" /\ work[w].verdict = "verified" => Complete
    /\ view = "verified" => Complete
    /\ EndedPassAgrees

ReceiptOK == OutcomesOK /\ VerdictsOK

-----------------------------------------------------------------------------
(* Decisions: what a step of one request leaves alone.                     *)

HeldPCs == {"put", "call", "mark", "settle", "reconcile", "query"}

(* Nothing happens to the intent of e, and what is decided stays.          *)
Steady(e) ==
    /\ decideIntent'[e] = decideIntent[e]
    /\ decideCalls'[e] = decideCalls[e]
    /\ Decided(e) => requested'[e] = requested[e]

(* A row of the expansions table that is decided stays decided.            *)
Settled(e) == expansion[e] \in {"approved", "denied"} => expansion'[e] = expansion[e]

LEMMA SteadyDecision ==
    ASSUME DecisionsOK, BindingsOK, NEW b \in Deciding, decideReq'[b] = decideReq[b],
           \A e \in Expansions : Holds(b, e) => Steady(e)
    PROVE  DecisionOK(b)'
<1>1. DecisionOK(b) /\ DecideReqOK(b)
  BY DEF DecisionsOK, BindingsOK, Deciding
<1>2. CASE decideReq[b].pc \in {"put", "call", "query", "settle"}
  <2>1. PICK e \in Expansions : e = decideReq[b].binding.exp
    BY <1>1, <1>2 DEF DecideReqOK, Decides
  <2>2. Steady(e)
    BY <1>2, <2>1 DEF Holds
  <2> QED BY <1>1, <2>1, <2>2 DEF DecisionOK, Steady, Decided
<1>3. CASE decideReq[b].pc \notin {"put", "call", "query", "settle"}
  BY <1>3 DEF DecisionOK
<1> QED BY <1>2, <1>3

LEMMA SteadyExpansion ==
    ASSUME NEW e \in Expansions, ExpansionOK(e), Steady(e), Settled(e),
           requested'[e] = requested[e], e \in decideLate' => e \in decideLate
    PROVE  ExpansionOK(e)'
  BY DEF ExpansionOK, Steady, Settled, Decided

(* One request moves, on an expansion it holds.                            *)
LEMMA HolderStep ==
    ASSUME DecisionsOK, BindingsOK, NEW a \in Deciding, DecideMoves(a),
           \A e \in Expansions : Holds(a, e) \/ Steady(e),
           \A e \in Expansions : Holds(a, e)' =>
               \A b \in Deciding : Holds(b, e) => b = a,
           DecisionOK(a)',
           \A e \in Expansions : ExpansionOK(e)'
    PROVE  DecisionsOK'
<1>1. \A b \in Deciding : b # a => decideReq'[b] = decideReq[b]
  BY DEF DecideMoves
<1>2. \A b \in Deciding : b # a => \A e \in Expansions : Holds(b, e)' <=> Holds(b, e)
  BY <1>1 DEF Holds
<1>3. OneHolder'
  BY <1>2 DEF OneHolder, DecisionsOK
<1>4. \A b \in Deciding : DecisionOK(b)'
  <2> TAKE b \in Deciding
  <2>1. CASE b = a
    BY <2>1
  <2>2. CASE b # a
    <3>1. \A e \in Expansions : Holds(b, e) => Steady(e)
      BY <2>2 DEF DecisionsOK, OneHolder
    <3> QED BY <1>1, <2>2, <3>1, SteadyDecision
  <2> QED BY <2>1, <2>2
<1> QED BY <1>3, <1>4 DEF DecisionsOK

(* A request moves outside the mutex, or leaves it, and writes no intent.  *)
Quiet(a) ==
    /\ DecideMoves(a)
    /\ decideReq'[a].pc \notin HeldPCs
    /\ UNCHANGED <<requested, decideIntent, decideCalls, decideLate>>
    /\ \A e \in Expansions : Settled(e)

LEMMA QuietDecisions ==
    ASSUME DecisionsOK, BindingsOK, NEW a \in Deciding, Quiet(a)
    PROVE  DecisionsOK'
<1>1. \A e \in Expansions : Steady(e) /\ ExpansionOK(e)
  BY DEF Quiet, Steady, DecisionsOK
<1>2. \A e \in Expansions : ExpansionOK(e)'
  BY <1>1, SteadyExpansion DEF Quiet
<1>3. DecisionOK(a)' /\ \A e \in Expansions : ~Holds(a, e)'
  BY DEF Quiet, DecisionOK, Holds, HeldPCs
<1> QED BY <1>1, <1>2, <1>3, HolderStep DEF Quiet

(* A request moves in the mutex, or takes it, and writes nothing.          *)
LEMMA PlaceDecisions ==
    ASSUME DecisionsOK, BindingsOK, NEW a \in Deciding, NEW e \in Expansions, DecideMoves(a),
           UNCHANGED <<requested, expansion, decideIntent, decideCalls, decideLate>>,
           decideReq'[a].binding.exp = e,
           Holds(a, e) \/ ~DecideLocked(e),
           DecisionOK(a)'
    PROVE  DecisionsOK'
<1>1. \A x \in Expansions : Steady(x) /\ Settled(x) /\ ExpansionOK(x)
  BY DEF Steady, Settled, DecisionsOK
<1>2. \A x \in Expansions : ExpansionOK(x)'
  BY <1>1, SteadyExpansion
<1>3. \A x \in Expansions : Holds(a, x)' => \A b \in Deciding : Holds(b, x) => b = a
  <2>1. \A x \in Expansions : Holds(a, x)' => x = e
    BY DEF Holds
  <2>2. \A b \in Deciding : Holds(b, e) => b = a
    BY DEF DecisionsOK, OneHolder, DecideLocked, Deciding
  <2> QED BY <2>1, <2>2
<1> QED BY <1>1, <1>2, <1>3, HolderStep

-----------------------------------------------------------------------------
(* Decisions: the steps.                                                   *)

LEMMA ReturnQuiet ==
    ASSUME BindingsOK, NEW a \in Deciding, XReturn(a),
           UNCHANGED <<requested, expansion, decideIntent, decideCalls, decideLate>>
    PROVE  Quiet(a)
<1>1. DecideMoves(a) /\ decideReq'[a].pc = "idle"
  BY XReturnMoves, IdleTyped
<1> QED BY <1>1 DEF Quiet, HeldPCs, Settled

(* The sync, the ceremony and the answers that leave the mutex.            *)
LEMMA QuietSteps ==
    ASSUME BindingsOK, NEW a \in Deciding,
           \/ SyncPut(a) \/ SyncResolve(a) \/ \E c \in DecideChallenges : BeginDecision(a, c)
           \/ markDecisionPending(a) \/ QueryExpansionFailed(a)
    PROVE  Quiet(a)
<1>1. CASE SyncPut(a) \/ SyncResolve(a)
  <2>1. UNCHANGED <<requested, decideIntent, decideCalls, decideLate>>
    BY <1>1 DEF SyncPut, SyncResolve
  <2>2. \A e \in Expansions : Settled(e)
    BY <1>1 DEF SyncPut, SyncResolve, Settled
  <2>3. XReturn(a) \/ XGoto(a, "sync_resolve") \/ XGoto(a, "begin")
    BY <1>1 DEF SyncPut, SyncResolve
  <2>4. DecideMoves(a) /\ decideReq'[a].pc \in {"idle", "sync_resolve", "begin"}
    BY <2>3, XGotoMoves, XReturnMoves, IdleTyped DEF DecidePCs
  <2> QED BY <2>1, <2>2, <2>4 DEF Quiet, HeldPCs
<1>2. CASE \/ \E c \in DecideChallenges : BeginDecision(a, c)
           \/ markDecisionPending(a) \/ QueryExpansionFailed(a)
  BY <1>2, ReturnQuiet DEF BeginDecision, markDecisionPending, QueryExpansionFailed
<1> QED BY <1>1, <1>2

(* A founder's list, or the first half of a decision.                      *)
LEMMA StartQuiet ==
    ASSUME BindingsOK, NEW h \in Deciders, NEW b \in Binding, StartSync(h, b)
    PROVE  /\ Quiet(h) /\ decideReq'[h].pc = "sync_put"
           /\ decideReq'[h].listed = [e \in Expansions |-> requested[e].status]
<1>1. decideReq \in [Deciding -> DecideRow] /\ requested \in [Expansions -> RequestRow]
  BY DecideTypes
<1> DEFINE q == [pc |-> "sync_put", binding |-> b, result |-> 0,
                 listed |-> [e \in Expansions |-> requested[e].status]]
<1>2. [e \in Expansions |-> requested[e].status] \in [Expansions -> Status]
  BY <1>1 DEF RequestRow, Status
<1>3. /\ q \in DecideRow /\ q.pc = "sync_put"
      /\ q.listed = [e \in Expansions |-> requested[e].status]
  BY <1>2 DEF DecideRow, DecidePCs
<1>4. decideReq' = [decideReq EXCEPT ![h] = q]
  BY DEF StartSync
<1>5. UNCHANGED <<requested, expansion, decideIntent, decideCalls, decideLate>>
  BY DEF StartSync
<1> HIDE DEF q
<1>6. /\ DecideMoves(h) /\ decideReq'[h].pc = "sync_put"
      /\ decideReq'[h].listed = [e \in Expansions |-> requested[e].status]
  BY <1>1, <1>3, <1>4 DEF DecideMoves, Deciding
<1> QED BY <1>5, <1>6 DEF Quiet, HeldPCs, Settled

(* The second half of a decision: the request goes to the mutex.           *)
LEMMA FinishQuiet ==
    ASSUME BindingsOK, NEW h \in Deciders, NEW c \in DecideChallenges, FinishDecision(h, c)
    PROVE  /\ Quiet(h)
           /\ \/ decideReq'[h] = decideReq[h]
              \/ /\ decideReq'[h].pc = "lock" /\ decideReq'[h].binding = decideBegun[c]
                 /\ decideReq'[h].listed = DecideIdle.listed
<1>1. decideReq \in [Deciding -> DecideRow] /\ decideBegun[c] \in Binding /\ h \in Deciding
  BY DecideTypes DEF Deciding
<1>2. UNCHANGED <<requested, expansion, decideIntent, decideCalls, decideLate>>
  BY DEF FinishDecision
<1>3. CASE UNCHANGED decideReq
  <2>1. DecideMoves(h) /\ decideReq'[h] = decideReq[h] /\ decideReq[h].pc = "idle"
    BY <1>1, <1>3 DEF DecideMoves, FinishDecision
  <2> QED BY <1>2, <2>1 DEF Quiet, HeldPCs, Settled
<1>4. CASE decideReq' # decideReq
  <2> DEFINE q == [DecideIdle EXCEPT !.pc = "lock", !.binding = decideBegun[c]]
  <2>1. /\ q \in DecideRow /\ q.pc = "lock" /\ q.binding = decideBegun[c]
        /\ q.listed = DecideIdle.listed
    BY <1>1, IdleTyped DEF DecideRow, DecidePCs
  <2>2. decideReq' = [decideReq EXCEPT ![h] = q]
    BY <1>4 DEF FinishDecision
  <2> HIDE DEF q
  <2>3. /\ DecideMoves(h) /\ decideReq'[h].pc = "lock" /\ decideReq'[h].binding = decideBegun[c]
        /\ decideReq'[h].listed = DecideIdle.listed
    BY <1>1, <2>1, <2>2 DEF DecideMoves
  <2> QED BY <1>2, <2>3 DEF Quiet, HeldPCs, Settled
<1> QED BY <1>3, <1>4

(* decideOnce takes the mutex, finding no intent or one to reconcile.      *)
LEMMA LockDecisions ==
    ASSUME DecisionsOK, BindingsOK, NEW a \in Deciding, DecideLock(a)
    PROVE  DecisionsOK'
<1>1. PICK e \in Expansions : e = decideReq[a].binding.exp
  BY DEF BindingsOK, Deciding, DecideLock, DecideReqOK, Decides
<1>2. UNCHANGED <<requested, expansion, decideIntent, decideCalls, decideLate>> /\ ~DecideLocked(e)
  BY <1>1 DEF DecideLock
<1>3. \/ XReturn(a)
      \/ XGoto(a, "put") /\ decideIntent[e].state = "none"
      \/ XGoto(a, "reconcile")
  BY <1>1, Zenon DEF DecideLock
<1>4. CASE XReturn(a)
  BY <1>2, <1>4, ReturnQuiet, QuietDecisions
<1>5. CASE XGoto(a, "put") /\ decideIntent[e].state = "none"
  <2>1. DecideMoves(a) /\ decideReq'[a].pc = "put" /\ decideReq'[a].binding.exp = e
    BY <1>1, <1>5, XGotoMoves DEF DecidePCs
  <2>2. DecisionOK(a)'
    BY <1>2, <1>5, <2>1 DEF DecisionOK
  <2> QED BY <1>2, <2>1, <2>2, PlaceDecisions
<1>6. CASE XGoto(a, "reconcile")
  <2>1. DecideMoves(a) /\ decideReq'[a].pc = "reconcile" /\ decideReq'[a].binding.exp = e
    BY <1>1, <1>6, XGotoMoves DEF DecidePCs
  <2>2. DecisionOK(a)'
    BY <2>1 DEF DecisionOK
  <2> QED BY <1>2, <2>1, <2>2, PlaceDecisions
<1> QED BY <1>3, <1>4, <1>5, <1>6

(* The worker takes the mutex of an intent it has listed.                  *)
LEMMA WorkerDecisions ==
    ASSUME DecisionsOK, BindingsOK, NEW w \in Workers, NEW e \in Expansions,
           WorkerReconcilesExpansion(w, e)
    PROVE  /\ DecisionsOK' /\ DecideMoves(w) /\ decideReq'[w].pc = "reconcile"
           /\ decideReq'[w].listed = DecideIdle.listed
<1> DEFINE q == [DecideIdle EXCEPT !.pc = "reconcile", !.binding.exp = e]
<1>1. decideReq \in [Deciding -> DecideRow] /\ w \in Deciding
  BY DecideTypes DEF Deciding
<1>2. /\ q \in DecideRow /\ q.pc = "reconcile" /\ q.binding.exp = e
      /\ q.listed = DecideIdle.listed
  <2> DEFINE b == [NoBinding EXCEPT !.exp = e]
  <2>1. b \in Binding /\ b.exp = e
    BY DEF NoBinding, Binding
  <2>2. q = [DecideIdle EXCEPT !.pc = "reconcile", !.binding = b]
    BY DEF DecideIdle
  <2> HIDE DEF b
  <2> QED BY <2>1, <2>2, IdleTyped DEF DecideRow, DecidePCs
<1>3. /\ decideReq' = [decideReq EXCEPT ![w] = q] /\ ~DecideLocked(e)
      /\ UNCHANGED <<requested, expansion, decideIntent, decideCalls, decideLate>>
  BY DEF WorkerReconcilesExpansion
<1> HIDE DEF q
<1>4. /\ DecideMoves(w) /\ decideReq'[w].pc = "reconcile" /\ decideReq'[w].binding.exp = e
      /\ decideReq'[w].listed = DecideIdle.listed
  BY <1>1, <1>2, <1>3 DEF DecideMoves
<1>5. DecisionOK(w)'
  BY <1>4 DEF DecisionOK
<1> QED BY <1>1, <1>3, <1>4, <1>5, PlaceDecisions

(* reconcileLocked reads the intent, then what the authority decided.      *)
LEMMA ReadDecisions ==
    ASSUME DecisionsOK, BindingsOK, NEW a \in Deciding, ReadExpansionIntent(a)
    PROVE  /\ DecisionsOK' /\ DecideMoves(a) /\ decideReq'[a].pc \in {"idle", "query"}
           /\ decideReq'[a].listed \in {DecideIdle.listed, decideReq[a].listed}
<1>1. PICK e \in Expansions : e = decideReq[a].binding.exp
  BY DEF BindingsOK, Deciding, ReadExpansionIntent, DecideReqOK
<1>2. /\ UNCHANGED <<requested, expansion, decideIntent, decideCalls, decideLate>> /\ Holds(a, e)
  BY <1>1 DEF ReadExpansionIntent, Holds
<1>3. CASE decideIntent[e].state = "in_flight"
  <2>1. PICK b \in Binding : b = decideIntent[e].binding /\ b.exp = e
    BY <1>3, DecideTypes DEF BindingsOK, IntentsOK, DecideIntentRow
  <2> DEFINE q == [decideReq[a] EXCEPT !.pc = "query", !.binding = b]
  <2>2. decideReq[a] \in DecideRow /\ decideReq \in [Deciding -> DecideRow]
    BY DecideTypes
  <2>3. q \in DecideRow /\ q.pc = "query" /\ q.binding = b /\ q.listed = decideReq[a].listed
    BY <2>2 DEF DecideRow, DecidePCs
  <2>4. decideReq' = [decideReq EXCEPT ![a] = q]
    BY <1>1, <1>3, <2>1 DEF ReadExpansionIntent
  <2> HIDE DEF q
  <2>5. /\ DecideMoves(a) /\ decideReq'[a].pc = "query" /\ decideReq'[a].binding = b
        /\ decideReq'[a].listed = decideReq[a].listed
    BY <2>2, <2>3, <2>4 DEF DecideMoves
  <2>6. DecisionOK(a)'
    BY <1>2, <1>3, <2>1, <2>5 DEF DecisionOK
  <2> QED BY <1>2, <2>1, <2>5, <2>6, PlaceDecisions
<1>4. CASE decideIntent[e].state # "in_flight"
  <2>1. XReturn(a)
    BY <1>1, <1>4 DEF ReadExpansionIntent
  <2> QED BY <1>2, <2>1, ReturnQuiet, QuietDecisions, XReturnMoves, IdleTyped
<1> QED BY <1>3, <1>4

LEMMA QueryDecisions ==
    ASSUME DecisionsOK, BindingsOK, pass \in PassRow, NEW a \in Deciding, QueryExpansion(a)
    PROVE  /\ DecisionsOK' /\ DecideMoves(a) /\ decideReq'[a].pc = "settle"
           /\ decideReq'[a].listed = decideReq[a].listed
<1>1. PICK e \in Expansions : e = decideReq[a].binding.exp
  BY DEF BindingsOK, Deciding, QueryExpansion, DecideReqOK, Decides
<1>2. /\ UNCHANGED <<requested, expansion, decideIntent, decideCalls, decideLate>>
      /\ Holds(a, e) /\ Decided(e) /\ DecisionOK(a) /\ decideReq[a].pc = "query"
  BY <1>1 DEF QueryExpansion, Holds, Decided, DecisionsOK
<1>3. /\ decideReq[a] \in DecideRow /\ decideReq \in [Deciding -> DecideRow]
      /\ decideReq[a].binding \in Binding /\ requested[e].decided \in Nat /\ pass.mver \in Nat
  BY DecideTypes DEF DecideRow, RequestRow, PassRow
<1> DEFINE b == [decideReq[a].binding EXCEPT !.ver = pass.mver]
           q == [decideReq[a] EXCEPT !.pc = "settle", !.binding = b, !.result = requested[e].decided]
<1>4. b \in Binding /\ b.exp = e /\ b.decision = decideReq[a].binding.decision
  BY <1>1, <1>3 DEF Binding
<1>5. decideReq' = [decideReq EXCEPT ![a] = q]
  BY <1>1 DEF QueryExpansion
<1> HIDE DEF b
<1>6. /\ q \in DecideRow /\ q.pc = "settle" /\ q.binding = b /\ q.result = requested[e].decided
      /\ q.listed = decideReq[a].listed
  BY <1>3, <1>4 DEF DecideRow, DecidePCs
<1> HIDE DEF q
<1>7. /\ DecideMoves(a) /\ decideReq'[a].pc = "settle" /\ decideReq'[a].binding = b
      /\ decideReq'[a].result = requested[e].decided /\ decideReq'[a].listed = decideReq[a].listed
  BY <1>3, <1>5, <1>6 DEF DecideMoves
<1>8. DecisionOK(a)'
  BY <1>1, <1>2, <1>4, <1>7 DEF DecisionOK, Decided
<1> QED BY <1>2, <1>4, <1>7, <1>8, PlaceDecisions

(* PutExpansionIntent: the holder of the mutex found no intent, and there  *)
(* is none still.                                                          *)
LEMMA PutDecisions ==
    ASSUME DecisionsOK, BindingsOK, NEW a \in Deciding, PutExpansionIntent(a)
    PROVE  /\ DecisionsOK' /\ DecideMoves(a) /\ XGoto(a, "call")
           /\ \E e \in Expansions :
                 /\ e = decideReq[a].binding.exp
                 /\ decideIntent[e].state = "none"
                 /\ decideIntent'[e].state = "in_flight"
                 /\ decideIntent'[e].binding = decideReq[a].binding
                 /\ \A x \in Expansions : x # e => decideIntent'[x] = decideIntent[x]
<1>1. PICK e \in Expansions : e = decideReq[a].binding.exp
  BY DEF BindingsOK, Deciding, PutExpansionIntent, DecideReqOK, Decides
<1>2. /\ Holds(a, e) /\ decideIntent[e].state = "none" /\ decideCalls[e] = 0 /\ e \notin decideLate
      /\ ~Decided(e)
  BY <1>1 DEF PutExpansionIntent, Holds, DecisionsOK, DecisionOK, ExpansionOK
<1>3. /\ decideIntent' = [decideIntent EXCEPT ![e] = [state |-> "in_flight",
                                                      binding |-> decideReq[a].binding]]
      /\ XGoto(a, "call") /\ UNCHANGED <<requested, expansion, decideCalls, decideLate>>
  BY <1>1, <1>2 DEF PutExpansionIntent
<1>4. /\ decideIntent'[e].state = "in_flight" /\ decideIntent'[e].binding = decideReq[a].binding
      /\ \A x \in Expansions : x # e => decideIntent'[x] = decideIntent[x]
  BY <1>3, DecideTypes
<1>5. DecideMoves(a) /\ decideReq'[a].pc = "call" /\ decideReq'[a].binding = decideReq[a].binding
  BY <1>3, XGotoMoves DEF DecidePCs
<1>6. \A x \in Expansions : x # e => Steady(x) /\ Settled(x)
  BY <1>3, <1>4 DEF Steady, Settled
<1>7. \A x \in Expansions : ExpansionOK(x)'
  <2>1. ExpansionOK(e)'
    BY <1>2, <1>3, <1>4 DEF ExpansionOK, Decided
  <2>2. \A x \in Expansions : x # e => ExpansionOK(x)'
    BY <1>3, <1>6, SteadyExpansion DEF DecisionsOK
  <2> QED BY <2>1, <2>2
<1>8. DecisionOK(a)'
  BY <1>1, <1>2, <1>3, <1>4, <1>5 DEF DecisionOK
<1>9. \A x \in Expansions : Holds(a, x) \/ Steady(x)
  BY <1>2, <1>6
<1>10. \A x \in Expansions : Holds(a, x)' => \A b \in Deciding : Holds(b, x) => b = a
  BY <1>1, <1>2, <1>5 DEF DecisionsOK, OneHolder, Holds
<1>11. DecisionsOK'
  BY <1>5, <1>7, <1>8, <1>9, <1>10, HolderStep
<1> QED BY <1>1, <1>2, <1>3, <1>4, <1>5, <1>11

(* The authority decides a request: its status is the decision, and an     *)
(* approval moves the version.                                             *)
LEMMA Applied ==
    ASSUME BindingsOK, MissionOK, NEW e \in Expansions, NEW d \in Decisions,
           Decidable(e), ApplyDecision(e, d)
    PROVE  /\ requested[e].status = "pending" /\ mission.state = "active"
           /\ requested'[e].status = StatusOf(d)
           /\ requested'[e].ver = requested[e].ver
           /\ requested'[e].status = "approved" =>
                 requested'[e].decided = mission.ver + 1 /\ mission'.ver = mission.ver + 1
           /\ mission'.ver \in {mission.ver, mission.ver + 1}
           /\ mission'.state = mission.state /\ mission'.receipt = mission.receipt
           /\ \A x \in Expansions : x # e => requested'[x] = requested[x]
<1>1. /\ requested \in [Expansions -> RequestRow] /\ requested[e] \in RequestRow
      /\ mission \in MissionRow
  BY DecideTypes DEF MissionOK, MissionTypeOK, MissionRow
<1>2. mission.ver \in Nat
  BY <1>1 DEF MissionRow
<1>3. CASE d = "approve_once"
  <2> DEFINE r == [requested[e] EXCEPT !.status = "approved", !.decided = mission.ver + 1]
  <2>1. /\ r.status = "approved" /\ r.decided = mission.ver + 1 /\ r.ver = requested[e].ver
    BY <1>1 DEF RequestRow
  <2>2. /\ requested' = [requested EXCEPT ![e] = r]
        /\ mission' = [mission EXCEPT !.ver = @ + 1]
    BY <1>3 DEF ApplyDecision
  <2>3. /\ mission'.ver = mission.ver + 1 /\ mission'.state = mission.state
        /\ mission'.receipt = mission.receipt
    BY <1>1, <2>2 DEF MissionRow
  <2> HIDE DEF r
  <2> QED BY <1>1, <1>3, <2>1, <2>2, <2>3 DEF StatusOf, Decidable
<1>4. CASE d # "approve_once"
  <2> DEFINE r == [requested[e] EXCEPT !.status = "denied"]
  <2>1. r.status = "denied" /\ r.ver = requested[e].ver
    BY <1>1 DEF RequestRow
  <2>2. requested' = [requested EXCEPT ![e] = r] /\ mission' = mission
    BY <1>4 DEF ApplyDecision
  <2> HIDE DEF r
  <2> QED BY <1>1, <1>4, <2>1, <2>2 DEF StatusOf, Decidable
<1> QED BY <1>3, <1>4

(* The call is made once, by the holder of the mutex that wrote the        *)
(* intent, whatever becomes of it.                                         *)
LEMMA CallDecisions ==
    ASSUME IInv, DecisionsOK, NEW a \in Deciding,
           DecideExpansionAnswered(a) \/ DecideExpansionFailed(a)
    PROVE  /\ DecisionsOK' /\ DecideMoves(a) /\ decideReq'[a].pc \in {"idle", "mark", "settle"}
           /\ decideReq'[a].listed \in {DecideIdle.listed, decideReq[a].listed}
           /\ \/ UNCHANGED <<mission, requested>>
              \/ \E e \in Expansions, d \in Decisions :
                    Decidable(e) /\ ApplyDecision(e, d) /\ decideIntent[e].state # "none"
                    /\ decideIntent[e].binding.decision = d
<1>1. /\ BindingsOK /\ MissionOK /\ decideReq[a].pc = "call" /\ decideReq[a] \in DecideRow
      /\ decideReq \in [Deciding -> DecideRow]
  BY DecideTypes DEF IInv, DecideExpansionAnswered, DecideExpansionFailed
<1>2. PICK e \in Expansions, d \in Decisions :
          e = decideReq[a].binding.exp /\ d = decideReq[a].binding.decision
  BY <1>1 DEF BindingsOK, Deciding, DecideReqOK, Decides
<1>3. /\ Holds(a, e) /\ decideCalls[e] = 0 /\ decideIntent[e].state # "none"
      /\ decideIntent[e].binding.decision = d
  BY <1>1, <1>2 DEF Holds, DecisionsOK, DecisionOK
<1>4. /\ UNCHANGED <<expansion, decideIntent>>
      /\ decideCalls' = [decideCalls EXCEPT ![e] = @ + 1]
      /\ \/ Decidable(e) /\ ApplyDecision(e, d)
         \/ UNCHANGED <<mission, requested>>
      /\ decideLate' \in {decideLate, decideLate \cup {e}}
  BY <1>2 DEF DecideExpansionAnswered, DecideExpansionFailed
<1>5. decideCalls'[e] = 1 /\ \A x \in Expansions : x # e => decideCalls'[x] = decideCalls[x]
  BY <1>1, <1>3, <1>4, DecideTypes
<1>6. /\ \A x \in Expansions : x # e => requested'[x] = requested[x]
      /\ requested'[e] = requested[e] \/ requested'[e].status = StatusOf(d)
      /\ Decided(e) => requested'[e] = requested[e]
  <2>1. CASE Decidable(e) /\ ApplyDecision(e, d)
    BY <1>1, <2>1, Applied DEF Decided
  <2>2. CASE UNCHANGED <<mission, requested>>
    BY <2>2
  <2> QED BY <1>4, <2>1, <2>2
<1>7. \A x \in Expansions : x # e => Steady(x)
  BY <1>4, <1>5, <1>6 DEF Steady
<1>8. \A x \in Expansions : ExpansionOK(x)'
  <2>1. ExpansionOK(e)'
    <3>1. ExpansionOK(e)
      BY DEF DecisionsOK
    <3> QED BY <1>3, <1>4, <1>5, <1>6, <3>1 DEF ExpansionOK, Decided
  <2>2. \A x \in Expansions : x # e => ExpansionOK(x)'
    BY <1>4, <1>6, <1>7, SteadyExpansion DEF DecisionsOK, Settled
  <2> QED BY <2>1, <2>2
<1>9. /\ DecideMoves(a) /\ DecisionOK(a)' /\ decideReq'[a].pc \in {"idle", "mark", "settle"}
      /\ decideReq'[a].listed \in {DecideIdle.listed, decideReq[a].listed}
      /\ \A x \in Expansions : Holds(a, x)' => x = e
  <2>1. CASE XReturn(a)
    <3>1. DecideMoves(a) /\ decideReq'[a] = DecideIdle /\ decideReq'[a].pc = "idle"
      BY <1>1, <2>1, XReturnMoves, IdleTyped
    <3> QED BY <3>1 DEF DecisionOK, Holds
  <2>2. CASE XGoto(a, "mark")
    <3> DEFINE q == [decideReq[a] EXCEPT !.pc = "mark"]
    <3>1. /\ q \in DecideRow /\ q.pc = "mark" /\ q.binding = decideReq[a].binding
          /\ q.listed = decideReq[a].listed
      BY <1>1 DEF DecideRow, DecidePCs
    <3>2. decideReq' = [decideReq EXCEPT ![a] = q]
      BY <2>2 DEF XGoto
    <3> HIDE DEF q
    <3> QED BY <1>1, <1>2, <3>1, <3>2 DEF DecideMoves, DecisionOK, Holds
  <2>3. CASE DecideExpansionAnswered(a)
    <3>1. Decidable(e) /\ ApplyDecision(e, d)
      BY <1>2, <2>3 DEF DecideExpansionAnswered
    <3>2. requested' \in [Expansions -> RequestRow]
      BY <1>1, <2>3, DecideCallSteps, DecideTypes, <1>2, <3>1, DecisionTyped
    <3>3. PICK v \in Nat : v = requested'[e].decided
      BY <3>2 DEF RequestRow
    <3> DEFINE q == [decideReq[a] EXCEPT !.pc = "settle", !.result = v]
    <3>4. /\ q \in DecideRow /\ q.pc = "settle" /\ q.binding = decideReq[a].binding
          /\ q.listed = decideReq[a].listed /\ q.result = v
      BY <1>1 DEF DecideRow, DecidePCs
    <3>5. decideReq' = [decideReq EXCEPT ![a] = q]
      BY <1>2, <2>3, <3>3 DEF DecideExpansionAnswered
    <3> HIDE DEF q
    <3>6. /\ DecideMoves(a) /\ decideReq'[a] = q
      BY <1>1, <3>4, <3>5 DEF DecideMoves
    <3>7. Decided(e)'
      BY <1>1, <3>1, Applied DEF Decided, StatusOf
    <3>8. DecisionOK(a)'
      BY <1>2, <1>3, <1>4, <3>3, <3>4, <3>6, <3>7 DEF DecisionOK
    <3> QED BY <1>2, <3>4, <3>6, <3>8 DEF Holds
  <2> QED BY <2>1, <2>2, <2>3 DEF DecideExpansionFailed
<1>10. \A x \in Expansions : Holds(a, x)' => \A b \in Deciding : Holds(b, x) => b = a
  BY <1>3, <1>9 DEF DecisionsOK, OneHolder
<1>11. \A x \in Expansions : Holds(a, x) \/ Steady(x)
  BY <1>3, <1>7
<1>12. DecisionsOK'
  BY <1>1, <1>8, <1>9, <1>10, <1>11, HolderStep
<1> QED BY <1>3, <1>4, <1>9, <1>12

(* settleDecision: what is settled is what the authority decided.          *)
LEMMA SettleDecisions ==
    ASSUME DecisionsOK, BindingsOK, NEW a \in Deciding, settleDecision(a)
    PROVE  /\ DecisionsOK' /\ DecideMoves(a) /\ decideReq'[a] = DecideIdle
           /\ UNCHANGED <<requested, decideBegun, mission>>
           /\ \/ UNCHANGED <<pass, expansion, decideIntent>>
              \/ \E e \in Expansions :
                    /\ Decided(e)
                    /\ decideIntent[e].state = "in_flight"
                    /\ decideIntent'[e].state = "completed"
                    /\ decideIntent'[e].binding = decideIntent[e].binding
                    /\ \A x \in Expansions : x # e => decideIntent'[x] = decideIntent[x]
                    /\ expansion[e] = "pending"
                    /\ \A x \in Expansions : x # e => expansion'[x] = expansion[x]
                    /\ pass' = IF requested[e].status = "approved"
                               THEN DecidedRow(pass, requested[e].decided) ELSE pass
<1>1. PICK e \in Expansions, d \in Decisions :
          e = decideReq[a].binding.exp /\ d = decideReq[a].binding.decision
  BY DEF BindingsOK, Deciding, DecideReqOK, Decides, settleDecision
<1>2. /\ Holds(a, e) /\ Decided(e) /\ decideReq[a].result = requested[e].decided
      /\ decideIntent[e].binding.decision = d /\ ExpansionOK(e)
  BY <1>1 DEF settleDecision, Holds, DecisionsOK, DecisionOK
<1>3. requested[e].status = IF d = "approve_once" THEN "approved" ELSE "denied"
  BY <1>2 DEF ExpansionOK, StatusOf
<1>4. XReturn(a) /\ UNCHANGED <<requested, decideBegun, decideCalls, decideLate, mission>>
  BY DEF settleDecision
<1>5. DecideMoves(a) /\ decideReq'[a] = DecideIdle /\ decideReq'[a].pc = "idle"
  BY <1>4, XReturnMoves, IdleTyped
<1>6. CASE UNCHANGED <<pass, expansion, decideIntent>>
  <2>1. Quiet(a)
    BY <1>4, <1>6, ReturnQuiet
  <2> QED BY <1>4, <1>5, <1>6, <2>1, QuietDecisions
<1>7. CASE /\ expansion[e] = "pending" /\ decideIntent[e].state = "in_flight"
           /\ pass' = IF d = "approve_once" THEN DecidedRow(pass, decideReq[a].result) ELSE pass
           /\ expansion' = [expansion EXCEPT ![e] = IF d = "approve_once" THEN "approved"
                                                                          ELSE "denied"]
           /\ decideIntent' = [decideIntent EXCEPT ![e].state = "completed"]
  <2>1. /\ expansion'[e] = requested[e].status
        /\ \A x \in Expansions : x # e => expansion'[x] = expansion[x]
    BY <1>3, <1>7, DecideTypes
  <2>2. /\ decideIntent'[e].state = "completed"
        /\ decideIntent'[e].binding = decideIntent[e].binding
        /\ \A x \in Expansions : x # e => decideIntent'[x] = decideIntent[x]
    BY <1>7, DecideTypes DEF DecideIntentRow
  <2>3. pass' = IF requested[e].status = "approved"
                THEN DecidedRow(pass, requested[e].decided) ELSE pass
    BY <1>2, <1>3, <1>7
  <2>4. \A x \in Expansions : x # e => Steady(x) /\ Settled(x)
    BY <1>4, <2>1, <2>2 DEF Steady, Settled
  <2>5. \A x \in Expansions : ExpansionOK(x)'
    <3>1. ExpansionOK(e)'
      BY <1>2, <1>4, <2>1, <2>2 DEF ExpansionOK, Decided
    <3>2. \A x \in Expansions : x # e => ExpansionOK(x)'
      BY <1>4, <2>4, SteadyExpansion DEF DecisionsOK
    <3> QED BY <3>1, <3>2
  <2>6. DecisionOK(a)' /\ \A x \in Expansions : ~Holds(a, x)'
    BY <1>5 DEF DecisionOK, Holds
  <2>7. \A x \in Expansions : Holds(a, x) \/ Steady(x)
    BY <1>2, <2>4
  <2>8. DecisionsOK'
    BY <1>5, <2>5, <2>6, <2>7, HolderStep
  <2> QED BY <1>2, <1>4, <1>5, <1>7, <2>1, <2>2, <2>3, <2>8
<1>8. \/ UNCHANGED <<pass, expansion, decideIntent>>
      \/ /\ expansion[e] = "pending" /\ decideIntent[e].state = "in_flight"
         /\ pass' = IF d = "approve_once" THEN DecidedRow(pass, decideReq[a].result) ELSE pass
         /\ expansion' = [expansion EXCEPT ![e] = IF d = "approve_once" THEN "approved"
                                                                        ELSE "denied"]
         /\ decideIntent' = [decideIntent EXCEPT ![e].state = "completed"]
  BY <1>1 DEF settleDecision
<1> QED BY <1>6, <1>7, <1>8

(* Steps of nobody's request.                                              *)
LEMMA NobodyDecides ==
    ASSUME DecisionsOK, BindingsOK, UNCHANGED decideReq,
           \A e \in Expansions : Steady(e), \A e \in Expansions : ExpansionOK(e)'
    PROVE  DecisionsOK'
<1>1. \A b \in Deciding : DecisionOK(b)'
  BY SteadyDecision
<1>2. OneHolder'
  BY DEF OneHolder, Holds, DecisionsOK
<1> QED BY <1>1, <1>2 DEF DecisionsOK

LEMMA FrameDecisions ==
    ASSUME DecisionsOK, BindingsOK, UNCHANGED expansionVars
    PROVE  DecisionsOK'
<1>1. UNCHANGED <<requested, expansion, decideIntent, decideReq, decideCalls, decideLate>>
  BY DEF expansionVars
<1>2. \A e \in Expansions : Steady(e) /\ Settled(e) /\ ExpansionOK(e)
  BY <1>1 DEF Steady, Settled, DecisionsOK
<1>3. \A e \in Expansions : ExpansionOK(e)'
  BY <1>1, <1>2, SteadyExpansion
<1> QED BY <1>1, <1>2, <1>3, NobodyDecides

(* The agent asks, and a call arrives after its caller is gone.            *)
LEMMA AskDecisions ==
    ASSUME DecisionsOK, IInv, NEW e \in Expansions, RequestExpansion(e)
    PROVE  /\ DecisionsOK'
           /\ requested'[e].status = "pending" /\ requested'[e].ver = mission.ver
           /\ requested[e].status = "none"
           /\ \A x \in Expansions : x # e => requested'[x] = requested[x]
<1>1. requested[e] \in RequestRow /\ BindingsOK /\ requested \in [Expansions -> RequestRow]
  BY DecideTypes DEF IInv
<1> DEFINE r == [requested[e] EXCEPT !.status = "pending", !.ver = mission.ver]
<1>2. r.status = "pending" /\ r.ver = mission.ver
  BY <1>1 DEF RequestRow
<1>3. /\ requested' = [requested EXCEPT ![e] = r] /\ requested[e].status = "none"
      /\ UNCHANGED <<expansion, decideIntent, decideReq, decideCalls, decideLate>>
  BY DEF RequestExpansion
<1> HIDE DEF r
<1>4. /\ requested'[e].status = "pending" /\ requested'[e].ver = mission.ver
      /\ \A x \in Expansions : x # e => requested'[x] = requested[x]
  BY <1>1, <1>2, <1>3
<1>5. \A x \in Expansions : Steady(x) /\ ExpansionOK(x) /\ Settled(x)
  BY <1>3, <1>4 DEF Steady, Decided, DecisionsOK, Settled
<1>6. \A x \in Expansions : ExpansionOK(x)'
  <2>1. ExpansionOK(e)'
    BY <1>3, <1>4, <1>5 DEF ExpansionOK, Decided
  <2>2. \A x \in Expansions : x # e => ExpansionOK(x)'
    BY <1>3, <1>4, <1>5, SteadyExpansion
  <2> QED BY <2>1, <2>2
<1> QED BY <1>1, <1>3, <1>4, <1>5, <1>6, NobodyDecides

(* A request lapses: it was not decided, and is not.                       *)
LEMMA LapseDecisions ==
    ASSUME DecisionsOK, IInv, NEW e \in Expansions, ExpansionLapses(e)
    PROVE  /\ DecisionsOK'
           /\ requested'[e].status = "expired" /\ requested[e].status = "pending"
           /\ requested'[e].ver = requested[e].ver
           /\ \A x \in Expansions : x # e => requested'[x] = requested[x]
<1>1. requested[e] \in RequestRow /\ BindingsOK /\ requested \in [Expansions -> RequestRow]
  BY DecideTypes DEF IInv
<1> DEFINE r == [requested[e] EXCEPT !.status = "expired"]
<1>2. r.status = "expired" /\ r.ver = requested[e].ver
  BY <1>1 DEF RequestRow
<1>3. /\ requested' = [requested EXCEPT ![e] = r] /\ requested[e].status = "pending"
      /\ UNCHANGED <<expansion, decideIntent, decideReq, decideCalls, decideLate>>
  BY DEF ExpansionLapses
<1> HIDE DEF r
<1>4. /\ requested'[e].status = "expired" /\ requested'[e].ver = requested[e].ver
      /\ \A x \in Expansions : x # e => requested'[x] = requested[x]
  BY <1>1, <1>2, <1>3
<1>5. \A x \in Expansions : Steady(x) /\ ExpansionOK(x) /\ Settled(x)
  BY <1>3, <1>4 DEF Steady, Decided, DecisionsOK, Settled
<1>6. \A x \in Expansions : ExpansionOK(x)'
  <2>1. ExpansionOK(e)'
    BY <1>3, <1>4, <1>5 DEF ExpansionOK, Decided
  <2>2. \A x \in Expansions : x # e => ExpansionOK(x)'
    BY <1>3, <1>4, <1>5, SteadyExpansion
  <2> QED BY <2>1, <2>2
<1> QED BY <1>1, <1>3, <1>4, <1>5, <1>6, NobodyDecides

LEMMA LateDecisions ==
    ASSUME DecisionsOK, IInv, DecideCallArrivesLate
    PROVE  /\ DecisionsOK'
           /\ \/ UNCHANGED <<mission, requested>>
              \/ \E e \in Expansions, d \in Decisions :
                    Decidable(e) /\ ApplyDecision(e, d) /\ decideIntent[e].state # "none"
                    /\ decideIntent[e].binding.decision = d
<1>1. BindingsOK /\ MissionOK
  BY DEF IInv
<1>2. PICK e \in decideLate :
        /\ decideLate' = decideLate \ {e}
        /\ IF Decidable(e) THEN ApplyDecision(e, decideIntent[e].binding.decision)
                           ELSE UNCHANGED <<mission, requested>>
        /\ UNCHANGED <<expansion, decideIntent, decideReq, decideCalls>>
  BY DEF DecideCallArrivesLate
<1>3. e \in Expansions
  BY <1>1, DecideTypes
<1>4. /\ decideIntent[e].state # "none" /\ decideIntent[e].binding.decision \in Decisions
      /\ ExpansionOK(e)
  BY <1>1, <1>3 DEF DecisionsOK, ExpansionOK, BindingsOK, IntentsOK, Decides
<1>5. PICK d \in Decisions : d = decideIntent[e].binding.decision
  BY <1>4
<1>6. /\ \A x \in Expansions : x # e => requested'[x] = requested[x]
      /\ requested'[e] = requested[e] \/ requested'[e].status = StatusOf(d)
      /\ Decided(e) => requested'[e] = requested[e]
  <2>1. CASE Decidable(e)
    BY <1>1, <1>2, <1>3, <1>5, <2>1, Applied DEF Decided
  <2>2. CASE ~Decidable(e)
    BY <1>2, <2>2
  <2> QED BY <2>1, <2>2
<1>7. \A x \in Expansions : Steady(x) /\ ExpansionOK(x) /\ Settled(x)
  BY <1>2, <1>6 DEF Steady, DecisionsOK, Settled
<1>8. \A x \in Expansions : ExpansionOK(x)'
  <2>1. ExpansionOK(e)'
    BY <1>2, <1>4, <1>5, <1>6 DEF ExpansionOK, Decided
  <2>2. \A x \in Expansions : x # e => ExpansionOK(x)'
    BY <1>2, <1>6, <1>7, SteadyExpansion
  <2> QED BY <2>1, <2>2
<1>9. DecisionsOK'
  BY <1>1, <1>2, <1>7, <1>8, NobodyDecides
<1> QED BY <1>2, <1>3, <1>4, <1>5, <1>9

(* The process stops: every request is gone, what it wrote stays.          *)
LEMMA CrashDecisions ==
    ASSUME DecisionsOK, Crash
    PROVE  DecisionsOK' /\ \A a \in Deciding : decideReq'[a] = DecideIdle
<1>1. /\ decideReq' = [a \in Deciders \cup Workers |-> DecideIdle]
      /\ UNCHANGED <<requested, expansion, decideIntent, decideCalls, decideLate>>
  BY DEF Crash
<1>2. \A a \in Deciding : decideReq'[a] = DecideIdle /\ decideReq'[a].pc = "idle"
  BY <1>1, IdleTyped DEF Deciding
<1>3. OneHolder' /\ \A a \in Deciding : DecisionOK(a)'
  BY <1>2 DEF OneHolder, Holds, DecisionOK
<1>4. \A e \in Expansions : Steady(e) /\ Settled(e) /\ ExpansionOK(e)
  BY <1>1 DEF Steady, Settled, DecisionsOK
<1>5. \A e \in Expansions : ExpansionOK(e)'
  BY <1>1, <1>4, SteadyExpansion
<1> QED BY <1>2, <1>3, <1>5 DEF DecisionsOK

LEMMA DeciderDecisions ==
    ASSUME IInv, DecisionsOK, NEW a \in Deciding, DeciderStep(a)
    PROVE  DecisionsOK'
<1>1. BindingsOK /\ pass \in PassRow
  BY DEF IInv, MissionOK, MissionTypeOK
<1>2. CASE \/ SyncPut(a) \/ SyncResolve(a) \/ \E c \in DecideChallenges : BeginDecision(a, c)
           \/ markDecisionPending(a) \/ QueryExpansionFailed(a)
  BY <1>1, <1>2, QuietSteps, QuietDecisions
<1>3. CASE DecideLock(a)
  BY <1>1, <1>3, LockDecisions
<1>4. CASE PutExpansionIntent(a)
  BY <1>1, <1>4, PutDecisions
<1>5. CASE DecideExpansionAnswered(a) \/ DecideExpansionFailed(a)
  BY <1>5, CallDecisions
<1>6. CASE settleDecision(a)
  BY <1>1, <1>6, SettleDecisions
<1>7. CASE ReadExpansionIntent(a)
  BY <1>1, <1>7, ReadDecisions
<1>8. CASE QueryExpansion(a)
  BY <1>1, <1>8, QueryDecisions
<1> QED BY <1>2, <1>3, <1>4, <1>5, <1>6, <1>7, <1>8 DEF DeciderStep

(* What a founder starts, as a binding.                                    *)
LEMMA StartedBindings ==
    /\ NoBinding \in Binding
    /\ \A e \in Expansions, d \in Decisions : [exp |-> e, ver |-> 0, decision |-> d] \in Binding
  BY IdleTyped DEF Binding

LEMMA RequestDecisions ==
    ASSUME IInv, DecisionsOK, DecideRequest
    PROVE  DecisionsOK'
<1>1. BindingsOK
  BY DEF IInv
<1>2. PICK h \in Deciders :
          \/ \E b \in Binding : StartSync(h, b)
          \/ \E c \in DecideChallenges : FinishDecision(h, c)
  BY StartedBindings DEF DecideRequest
<1>3. Quiet(h) /\ h \in Deciding
  BY <1>1, <1>2, StartQuiet, FinishQuiet DEF Deciding
<1> QED BY <1>1, <1>3, QuietDecisions

(* The actions that leave the expansions alone.                            *)
LEMMA SweepDecisions ==
    ASSUME IInv, DecisionsOK, NEW w \in Workers, Sweep(w)
    PROVE  DecisionsOK'
<1>1. BindingsOK
  BY DEF IInv
<1>2. CASE UNCHANGED expansionVars
  BY <1>1, <1>2, FrameDecisions
<1>3. ASSUME NEW e \in todo[w], WorkerReconcilesExpansion(w, e) PROVE DecisionsOK'
  <2>1. e \in Expansions
    BY <1>3 DEF IInv, WorkOK
  <2> QED BY <1>1, <1>3, <2>1, WorkerDecisions
<1> QED BY <1>2, <1>3 DEF Sweep, VerifyReceipt, NoReceipt, StoreVerdict, ReconcileRevocations,
                          ListExpansionIntents, ReconcileExpansions

LEMMA NextDecisions == IInv /\ DecisionsOK /\ [Next]_vars => DecisionsOK'
<1> SUFFICES ASSUME IInv, DecisionsOK, [Next]_vars PROVE DecisionsOK'
  OBVIOUS
<1>1. BindingsOK
  BY DEF IInv
<1>2. CASE UNCHANGED expansionVars
  BY <1>1, <1>2, FrameDecisions
<1>3. CASE Authority
  BY <1>2, <1>3, AskDecisions, LapseDecisions, LateDecisions DEF Authority
<1>4. CASE RevokeRequest \/ (\E a \in Revokers \cup Workers : RevokeProgress(a)) \/ UNCHANGED vars
  BY <1>2, <1>4 DEF RevokeRequest, RevokeProgress, vars
<1>5. CASE DecideRequest
  BY <1>5, RequestDecisions
<1>6. CASE \E a \in Deciders \cup Workers : DecideProgress(a)
  BY <1>6, DeciderDecisions DEF DecideProgress, Deciding
<1>7. CASE \E w \in Workers : Sweep(w)
  BY <1>7, SweepDecisions
<1>8. CASE Crash
  BY <1>8, CrashDecisions
<1> QED BY <1>3, <1>4, <1>5, <1>6, <1>7, <1>8 DEF Next

LEMMA InitDecisions == Init => DecisionsOK
<1> SUFFICES ASSUME Init PROVE DecisionsOK
  OBVIOUS
<1>1. \A a \in Deciding : decideReq[a] = DecideIdle /\ decideReq[a].pc = "idle"
  BY IdleTyped DEF Init, ExpansionInit, Deciding
<1>2. OneHolder /\ \A a \in Deciding : DecisionOK(a)
  BY <1>1 DEF OneHolder, Holds, DecisionOK
<1>3. \A e \in Expansions : ExpansionOK(e)
  BY DEF Init, ExpansionInit, NoDecideIntent, ExpansionOK, Decided
<1> QED BY <1>2, <1>3 DEF DecisionsOK

(* Decisions stay consistent with the intents and with the authority in    *)
(* every reachable state (decideOnce, reconcileLocked).                    *)
THEOREM DecisionsHold == Spec => []DecisionsOK
  BY InitDecisions, NextDecisions, InvariantHolds, PTL DEF Spec

(* DecideExpansion is called at most once for an expansion: the mutex has  *)
(* one holder, which calls only after it wrote an intent where there was   *)
(* none, and the intent outlives a crash (decideOnce).                     *)
THEOREM DecidedOnce == Spec => []OneDecideCall
  <1>1. DecisionsOK => OneDecideCall
    BY DEF DecisionsOK, ExpansionOK, OneDecideCall
  <1> QED BY <1>1, DecisionsHold, PTL

(* A completed intent and the expansions row record what the authority     *)
(* decided, though a late call, a reconciliation or the list of another    *)
(* request came first (settleDecision, syncExpansions).                    *)
THEOREM RecordedAsDecided == Spec => []DecisionRecordedAsDecided
  <1>1. DecisionsOK => DecisionRecordedAsDecided
    BY DEF DecisionsOK, ExpansionOK, StatusOf, DecisionRecordedAsDecided
  <1> QED BY <1>1, DecisionsHold, PTL

-----------------------------------------------------------------------------
(* Versions: what is covered stays covered.                                *)

(* A request that is known keeps its version.                              *)
Remembered == \A e \in Expansions : Known(e) => Known(e)' /\ requested'[e].ver = requested[e].ver

LEMMA VersionTypes ==
    ASSUME IInv
    PROVE  /\ pass.mver \in Nat /\ mission.ver \in Nat
           /\ \A e \in Expansions : requested[e].ver \in Nat /\ requested[e].decided \in Nat
           /\ \A e \in Expansions : requested[e].status \in {"none", "pending", "approved", "denied",
                                                            "expired"}
<1>1. pass \in PassRow /\ mission \in MissionRow /\ requested \in [Expansions -> RequestRow]
  BY DecideTypes DEF IInv, MissionOK, MissionTypeOK, MissionRow
<1> QED BY <1>1 DEF PassRow, MissionRow, RequestRow

LEMMA CoverMoves ==
    ASSUME IInv, pass'.mver \in Nat, pass.mver =< pass'.mver, Remembered,
           \A e \in Expansions : expansion'[e] # "none" => Known(e),
           \A e \in Expansions : decideIntent'[e].state # "none" =>
               Covered(decideIntent'[e].binding),
           \A c \in DecideChallenges : Decides(decideBegun'[c]) => Covered(decideBegun'[c]),
           \A a \in Deciding : decideReq'[a].pc \in {"lock", "put", "call"} =>
               Covered(decideReq'[a].binding),
           \A a \in Deciding : \A e \in Expansions : decideReq'[a].listed[e] # "none" => Known(e)
    PROVE  CoverOK'
<1>1. \A e \in Expansions : Known(e) /\ requested[e].ver =< pass.mver =>
          Known(e)' /\ requested'[e].ver =< pass'.mver
  BY VersionTypes DEF Remembered
<1>2. \A e \in Expansions : Known(e) => Known(e)'
  BY DEF Remembered
<1>3. \A e \in Expansions : expansion'[e] # "none" => Known(e)'
  BY <1>2
<1>4. \A e \in Expansions : decideIntent'[e].state # "none" =>
          Covered(decideIntent[e].binding)'
  BY <1>1 DEF Covered, Known
<1>5. \A c \in DecideChallenges : Decides(decideBegun'[c]) => Covered(decideBegun[c])'
  BY <1>1 DEF Covered, Known
<1>6. \A a \in Deciding : decideReq'[a].pc \in {"lock", "put", "call"} =>
          Covered(decideReq[a].binding)'
  BY <1>1 DEF Covered, Known
<1>7. \A a \in Deciding : \A e \in Expansions : decideReq'[a].listed[e] # "none" => Known(e)'
  BY <1>2
<1> QED BY <1>3, <1>4, <1>5, <1>6, <1>7 DEF CoverOK, Decides

(* The parts of the row and of the requests a step leaves as they are.     *)
LEMMA CoverActor ==
    ASSUME IInv, CoverOK, pass'.mver \in Nat, pass.mver =< pass'.mver, Remembered,
           NEW a \in Deciding, DecideMoves(a),
           \A e \in Expansions : expansion'[e] # "none" => Known(e),
           \A e \in Expansions :
               \/ decideIntent'[e].binding = decideIntent[e].binding /\ decideIntent[e].state # "none"
               \/ decideIntent'[e].state = "none"
               \/ Covered(decideIntent'[e].binding),
           \A c \in DecideChallenges :
               \/ decideBegun'[c] = decideBegun[c]
               \/ decideBegun'[c] = UsedBinding
               \/ Covered(decideBegun'[c]),
           decideReq'[a].pc \in {"lock", "put", "call"} => Covered(decideReq'[a].binding),
           \A e \in Expansions : decideReq'[a].listed[e] # "none" => Known(e)
    PROVE  CoverOK'
<1>1. \A b \in Deciding : decideReq'[b].pc \in {"lock", "put", "call"} =>
          Covered(decideReq'[b].binding)
  BY DEF DecideMoves, CoverOK
<1>2. \A b \in Deciding : \A e \in Expansions : decideReq'[b].listed[e] # "none" => Known(e)
  BY DEF DecideMoves, CoverOK
<1>3. \A e \in Expansions : decideIntent'[e].state # "none" => Covered(decideIntent'[e].binding)
  BY DEF CoverOK
<1>4. ~Decides(UsedBinding)
  BY DEF Decides, UsedBinding, Decisions
<1>5. \A c \in DecideChallenges : Decides(decideBegun'[c]) => Covered(decideBegun'[c])
  BY <1>4 DEF CoverOK
<1> QED BY <1>1, <1>2, <1>3, <1>5, CoverMoves

LEMMA FrameCover ==
    ASSUME IInv, CoverOK, pass'.mver = pass.mver, UNCHANGED expansionVars
    PROVE  CoverOK'
<1>1. UNCHANGED <<requested, expansion, decideBegun, decideIntent, decideReq>>
  BY DEF expansionVars
<1>2. Remembered
  BY <1>1 DEF Remembered, Known
<1>3. pass'.mver \in Nat /\ pass.mver =< pass'.mver
  BY VersionTypes
<1> QED BY <1>1, <1>2, <1>3, CoverMoves DEF CoverOK

LEMMA IdleLists ==
    /\ DecideIdle.pc = "idle"
    /\ \A e \in Expansions : DecideIdle.listed[e] = "none"
  BY DEF DecideIdle

LEMMA XGotoLists ==
    ASSUME BindingsOK, NEW a \in Deciding, NEW label \in DecidePCs, XGoto(a, label)
    PROVE  decideReq'[a].listed = decideReq[a].listed
<1>1. decideReq \in [Deciding -> DecideRow] /\ decideReq[a] \in DecideRow
  BY DecideTypes
<1> DEFINE q == [decideReq[a] EXCEPT !.pc = label]
<1>2. q.listed = decideReq[a].listed
  BY <1>1 DEF DecideRow
<1>3. decideReq' = [decideReq EXCEPT ![a] = q]
  BY DEF XGoto
<1> HIDE DEF q
<1> QED BY <1>1, <1>2, <1>3

(* syncExpansions stores only requests the authority named.                *)
LEMMA SyncCover ==
    ASSUME IInv, CoverOK, NEW a \in Deciding, SyncPut(a) \/ SyncResolve(a)
    PROVE  CoverOK'
<1>1. /\ UNCHANGED <<requested, decideBegun, decideIntent>> /\ pass' = pass /\ BindingsOK
  BY DEF SyncPut, SyncResolve, missionVars, IInv
<1>2. \A e \in Expansions : expansion'[e] # "none" => Known(e)
  <2>1. CASE SyncPut(a)
    BY <2>1 DEF SyncPut, CoverOK
  <2>2. CASE SyncResolve(a)
    BY <2>2 DEF SyncResolve, CoverOK
  <2> QED BY <2>1, <2>2
<1>3. /\ DecideMoves(a) /\ decideReq'[a].pc \notin {"lock", "put", "call"}
      /\ decideReq'[a].listed \in {DecideIdle.listed, decideReq[a].listed}
  <2>1. XReturn(a) \/ XGoto(a, "sync_resolve") \/ XGoto(a, "begin")
    BY DEF SyncPut, SyncResolve
  <2>2. "sync_resolve" \in DecidePCs /\ "begin" \in DecidePCs
    BY DEF DecidePCs
  <2> QED BY <1>1, <2>1, <2>2, XGotoMoves, XGotoLists, XReturnMoves, IdleTyped
<1>4. \A e \in Expansions : decideReq'[a].listed[e] # "none" => Known(e)
  BY <1>3, IdleLists DEF CoverOK
<1>5. Remembered /\ pass'.mver \in Nat /\ pass.mver =< pass'.mver
  BY <1>1, VersionTypes DEF Remembered, Known
<1>6. \A e \in Expansions : decideIntent'[e].state # "none" => Covered(decideIntent'[e].binding)
  BY <1>1 DEF CoverOK
<1> QED BY <1>1, <1>2, <1>3, <1>4, <1>5, <1>6, CoverActor

(* BeginDecision binds the version of the row, at which the expansion was  *)
(* requested.                                                              *)
LEMMA BeginCover ==
    ASSUME IInv, CoverOK, NEW a \in Deciding, NEW c \in DecideChallenges, BeginDecision(a, c)
    PROVE  CoverOK'
<1>1. /\ UNCHANGED <<requested, expansion, decideIntent>> /\ pass' = pass /\ BindingsOK
      /\ XReturn(a)
  BY DEF BeginDecision, missionVars, IInv
<1>2. PICK e \in Expansions : e = decideReq[a].binding.exp
  BY <1>1 DEF BindingsOK, Deciding, BeginDecision, DecideReqOK, Decides
<1>3. decideReq[a].binding \in Binding
  BY <1>1, DecideTypes DEF DecideRow
<1> DEFINE b == [decideReq[a].binding EXCEPT !.ver = pass.mver]
<1>4. b.exp = e
  BY <1>2, <1>3 DEF Binding
<1>5. \/ decideBegun' = decideBegun
      \/ /\ decideBegun' = [decideBegun EXCEPT ![c] = b]
         /\ expansion[e] = "pending" /\ requested[e].ver = pass.mver
  BY <1>2 DEF BeginDecision
<1> HIDE DEF b
<1>6. expansion[e] = "pending" /\ requested[e].ver = pass.mver => Covered(b)
  BY <1>4, VersionTypes DEF Covered, CoverOK
<1>7. \A x \in DecideChallenges :
          \/ decideBegun'[x] = decideBegun[x] \/ decideBegun'[x] = UsedBinding
          \/ Covered(decideBegun'[x])
  BY <1>1, <1>5, <1>6, DecideTypes
<1>8. /\ DecideMoves(a) /\ decideReq'[a] = DecideIdle
  BY <1>1, XReturnMoves
<1>9. Remembered /\ pass'.mver \in Nat /\ pass.mver =< pass'.mver
  BY <1>1, VersionTypes DEF Remembered, Known
<1>10. \A x \in Expansions : decideIntent'[x].state # "none" => Covered(decideIntent'[x].binding)
  BY <1>1 DEF CoverOK
<1>11. \A x \in Expansions : expansion'[x] # "none" => Known(x)
  BY <1>1 DEF CoverOK
<1> QED BY <1>7, <1>8, <1>9, <1>10, <1>11, IdleLists, CoverActor

(* A request moves and no table changes but the ceremonies used.           *)
LEMMA PlaceCover ==
    ASSUME IInv, CoverOK, NEW a \in Deciding, DecideMoves(a),
           UNCHANGED <<requested, expansion, decideIntent>>, pass'.mver = pass.mver,
           \A c \in DecideChallenges :
               decideBegun'[c] = decideBegun[c] \/ decideBegun'[c] = UsedBinding,
           decideReq'[a].pc \in {"lock", "put", "call"} => Covered(decideReq'[a].binding),
           \A e \in Expansions : decideReq'[a].listed[e] # "none" => Known(e)
    PROVE  CoverOK'
<1>1. Remembered /\ pass'.mver \in Nat /\ pass.mver =< pass'.mver
  BY VersionTypes DEF Remembered, Known
<1>2. \A x \in Expansions : decideIntent'[x].state # "none" => Covered(decideIntent'[x].binding)
  BY DEF CoverOK
<1>3. \A x \in Expansions : expansion'[x] # "none" => Known(x)
  BY DEF CoverOK
<1> QED BY <1>1, <1>2, <1>3, CoverActor

(* decideOnce and reconcileLocked up to the settlement, but for the call.  *)
LEMMA DecidePlaceCover ==
    ASSUME IInv, DecisionsOK, CoverOK, NEW a \in Deciding,
           \/ DecideLock(a) \/ ReadExpansionIntent(a) \/ QueryExpansion(a)
           \/ QueryExpansionFailed(a) \/ markDecisionPending(a)
    PROVE  CoverOK'
<1>1. BindingsOK /\ pass \in PassRow
  BY DEF IInv, MissionOK, MissionTypeOK
<1>2. UNCHANGED <<requested, expansion, decideIntent, decideBegun>>
  BY DEF DecideLock, ReadExpansionIntent, QueryExpansion, QueryExpansionFailed, markDecisionPending
<1>3. pass'.mver = pass.mver
  BY <1>1 DEF DecideLock, ReadExpansionIntent, QueryExpansion, QueryExpansionFailed,
              markDecisionPending, missionVars, PassRow
<1>4. \A e \in Expansions : decideReq[a].listed[e] # "none" => Known(e)
  BY DEF CoverOK
<1>5. CASE XReturn(a)
  BY <1>1, <1>2, <1>3, <1>5, XReturnMoves, IdleLists, PlaceCover
<1>6. CASE DecideLock(a) /\ (XGoto(a, "put") \/ XGoto(a, "reconcile"))
  <2>1. "put" \in DecidePCs /\ "reconcile" \in DecidePCs /\ decideReq[a].pc = "lock"
    BY <1>6 DEF DecidePCs, DecideLock
  <2>2. /\ DecideMoves(a) /\ decideReq'[a].binding = decideReq[a].binding
        /\ decideReq'[a].listed = decideReq[a].listed
    BY <1>1, <1>6, <2>1, XGotoMoves, XGotoLists
  <2>3. Covered(decideReq'[a].binding)
    BY <2>1, <2>2 DEF CoverOK
  <2> QED BY <1>2, <1>3, <1>4, <2>2, <2>3, PlaceCover
<1>7. CASE ReadExpansionIntent(a)
  BY <1>1, <1>2, <1>3, <1>4, <1>7, ReadDecisions, IdleLists, PlaceCover
<1>8. CASE QueryExpansion(a)
  BY <1>1, <1>2, <1>3, <1>4, <1>8, QueryDecisions, PlaceCover
<1>9. DecideLock(a) => XReturn(a) \/ XGoto(a, "put") \/ XGoto(a, "reconcile")
  BY Zenon DEF DecideLock
<1> QED BY <1>5, <1>6, <1>7, <1>8, <1>9 DEF QueryExpansionFailed, markDecisionPending

(* PutExpansionIntent writes the binding of its request.                   *)
LEMMA PutCover ==
    ASSUME IInv, DecisionsOK, CoverOK, NEW a \in Deciding, PutExpansionIntent(a)
    PROVE  CoverOK'
<1>1. BindingsOK /\ pass' = pass /\ UNCHANGED <<requested, expansion, decideBegun>>
      /\ decideReq[a].pc = "put" /\ "call" \in DecidePCs
  BY DEF IInv, PutExpansionIntent, missionVars, DecidePCs
<1>2. DecideMoves(a) /\ XGoto(a, "call")
  BY <1>1, PutDecisions
<1>3. PICK e \in Expansions :
          /\ decideIntent'[e].binding = decideReq[a].binding
          /\ \A x \in Expansions : x # e => decideIntent'[x] = decideIntent[x]
  BY <1>1, PutDecisions
<1>4. Covered(decideReq[a].binding)
  BY <1>1 DEF CoverOK
<1>5. /\ decideReq'[a].binding = decideReq[a].binding /\ decideReq'[a].listed = decideReq[a].listed
  BY <1>1, <1>2, XGotoMoves, XGotoLists
<1>6. Remembered /\ pass'.mver \in Nat /\ pass.mver =< pass'.mver
  BY <1>1, VersionTypes DEF Remembered, Known
<1>7. \A x \in Expansions : decideIntent'[x].state = "none" \/ Covered(decideIntent'[x].binding)
  BY <1>3, <1>4 DEF CoverOK
<1>8. \A x \in Expansions : expansion'[x] # "none" => Known(x)
  BY <1>1 DEF CoverOK
<1>9. \A x \in Expansions : decideReq'[a].listed[x] # "none" => Known(x)
  BY <1>5 DEF CoverOK
<1> QED BY <1>1, <1>2, <1>4, <1>5, <1>6, <1>7, <1>8, <1>9, CoverActor

-----------------------------------------------------------------------------
(* Versions: the order of the approvals.                                   *)

(* The authority's version advances, the requests stay.                    *)
LEMMA FrameOrder ==
    ASSUME IInv, OrderOK, pass'.mver = pass.mver, mission'.ver \in Nat, mission.ver =< mission'.ver,
           UNCHANGED requested,
           \A e \in Expansions : decideIntent[e].state = "completed" =>
                                     decideIntent'[e].state = "completed"
    PROVE  OrderOK'
<1>1. \A e \in Expansions : Dated(e)'
  BY VersionTypes DEF OrderOK, Dated
<1>2. OnePending' /\ \A e, x \in Expansions : e # x => InOrder(e, x)'
  BY DEF OrderOK, OnePending, InOrder, Known
<1>3. pass'.mver =< mission'.ver
  BY VersionTypes DEF OrderOK
<1> QED BY <1>1, <1>2, <1>3 DEF OrderOK

(* The authority decides the one pending request: every other approval     *)
(* came before it was made.                                                *)
LEMMA AppliedOrder ==
    ASSUME IInv, OrderOK, pass'.mver = pass.mver, UNCHANGED decideIntent,
           NEW e \in Expansions, NEW d \in Decisions, Decidable(e), ApplyDecision(e, d)
    PROVE  Remembered /\ OrderOK'
<1>1. /\ requested[e].status = "pending" /\ requested'[e].status = StatusOf(d)
      /\ requested'[e].ver = requested[e].ver
      /\ requested'[e].status = "approved" =>
            requested'[e].decided = mission.ver + 1 /\ mission'.ver = mission.ver + 1
      /\ mission'.ver \in {mission.ver, mission.ver + 1}
      /\ \A x \in Expansions : x # e => requested'[x] = requested[x]
  BY Applied DEF IInv
<1>2. /\ pass.mver \in Nat /\ mission.ver \in Nat
      /\ \A x \in Expansions : requested[x].ver \in Nat /\ requested[x].decided \in Nat
  BY VersionTypes
<1>3. requested'[e].status \in {"approved", "denied"}
  BY <1>1 DEF StatusOf
<1>4. Remembered
  BY <1>1, <1>3 DEF Remembered, Known
<1>5. OnePending'
  BY <1>1, <1>3 DEF OnePending, OrderOK
<1>6. \A x \in Expansions : Dated(x)'
  <2>1. Dated(e)'
    BY <1>1, <1>2 DEF Dated, OrderOK
  <2>2. \A x \in Expansions : x # e => Dated(x)'
    BY <1>1, <1>2 DEF Dated, OrderOK
  <2> QED BY <2>1, <2>2
<1>7. \A x \in Expansions : x # e => InOrder(e, x)'
  <2> SUFFICES ASSUME NEW x \in Expansions, x # e, Known(x) PROVE InOrder(e, x)'
    BY <1>1 DEF InOrder, Known
  <2>1. requested[x].status # "pending"
    BY <1>1 DEF OrderOK, OnePending
  <2>2. requested[x].status = "approved" => requested[x].decided =< requested[e].ver
    BY <1>1 DEF OrderOK, InOrder, Known
  <2> QED BY <1>1, <2>1, <2>2 DEF InOrder
<1>8. \A x \in Expansions : x # e => InOrder(x, e)'
  <2> SUFFICES ASSUME NEW x \in Expansions, x # e, requested[x].status = "approved"
               PROVE  requested'[x].decided =< requested'[e].ver
    BY <1>1 DEF InOrder
  <2> QED BY <1>1 DEF OrderOK, InOrder, Known
<1>9. \A x, y \in Expansions : x # e /\ y # e /\ x # y => InOrder(x, y)'
  BY <1>1 DEF OrderOK, InOrder, Known
<1>10. \A x, y \in Expansions : x # y => InOrder(x, y)'
  BY <1>7, <1>8, <1>9
<1>11. pass'.mver =< mission'.ver
  BY <1>1, <1>2 DEF OrderOK
<1> QED BY <1>4, <1>5, <1>6, <1>10, <1>11 DEF OrderOK

(* A new request is made at the authority's version, after every approval. *)
LEMMA AskVersions ==
    ASSUME IInv, DecisionsOK, VersionsOK, NEW e \in Expansions, RequestExpansion(e)
    PROVE  VersionsOK'
<1>1. /\ requested'[e].status = "pending" /\ requested'[e].ver = mission.ver
      /\ requested[e].status = "none"
      /\ \A x \in Expansions : x # e => requested'[x] = requested[x]
  BY AskDecisions
<1>2. /\ pass' = pass /\ mission' = mission
      /\ UNCHANGED <<expansion, decideBegun, decideIntent, decideReq>>
      /\ \A x \in Expansions : requested[x].status # "pending"
  BY DEF RequestExpansion
<1>3. /\ pass.mver \in Nat /\ mission.ver \in Nat
      /\ \A x \in Expansions : requested[x].ver \in Nat /\ requested[x].decided \in Nat
  BY VersionTypes
<1>4. Remembered /\ pass'.mver \in Nat /\ pass.mver =< pass'.mver
  BY <1>1, <1>2, <1>3 DEF Remembered, Known
<1>5. CoverOK'
  BY <1>2, <1>4, CoverMoves DEF VersionsOK, CoverOK
<1>6. OnePending'
  BY <1>1, <1>2 DEF OnePending
<1>7. \A x \in Expansions : Dated(x)'
  BY <1>1, <1>2, <1>3 DEF VersionsOK, OrderOK, Dated
<1>8. \A x, y \in Expansions : x # y => InOrder(x, y)'
  <2>1. \A x \in Expansions : x # e => InOrder(x, e)'
    BY <1>1, <1>2, <1>3 DEF InOrder, VersionsOK, OrderOK, Dated
  <2>2. \A x \in Expansions : x # e => InOrder(e, x)'
    BY <1>1 DEF InOrder
  <2>3. \A x, y \in Expansions : x # e /\ y # e /\ x # y => InOrder(x, y)'
    BY <1>1 DEF VersionsOK, OrderOK, InOrder, Known
  <2> QED BY <2>1, <2>2, <2>3
<1>9. OrderOK'
  BY <1>2, <1>6, <1>7, <1>8 DEF VersionsOK, OrderOK
<1> QED BY <1>5, <1>9 DEF VersionsOK

(* A request that lapses keeps its version.                                *)
LEMMA LapseVersions ==
    ASSUME IInv, DecisionsOK, VersionsOK, NEW e \in Expansions, ExpansionLapses(e)
    PROVE  VersionsOK'
<1>1. /\ requested'[e].status = "expired" /\ requested[e].status = "pending"
      /\ requested'[e].ver = requested[e].ver
      /\ \A x \in Expansions : x # e => requested'[x] = requested[x]
  BY LapseDecisions
<1>2. /\ pass' = pass /\ mission' = mission
      /\ UNCHANGED <<expansion, decideBegun, decideIntent, decideReq>>
  BY DEF ExpansionLapses, missionVars
<1>3. /\ pass.mver \in Nat /\ mission.ver \in Nat
      /\ \A x \in Expansions : requested[x].ver \in Nat /\ requested[x].decided \in Nat
  BY VersionTypes
<1>4. Remembered /\ pass'.mver \in Nat /\ pass.mver =< pass'.mver
  BY <1>1, <1>2, <1>3 DEF Remembered, Known
<1>5. CoverOK'
  BY <1>2, <1>4, CoverMoves DEF VersionsOK, CoverOK
<1>6. OnePending'
  BY <1>1 DEF OnePending, VersionsOK, OrderOK
<1>7. \A x \in Expansions : Dated(x)'
  BY <1>1, <1>2, <1>3 DEF VersionsOK, OrderOK, Dated
<1>8. \A x, y \in Expansions : x # y => InOrder(x, y)'
  <2>1. \A x \in Expansions : x # e => InOrder(x, e)'
    BY <1>1 DEF InOrder, Known, VersionsOK, OrderOK
  <2>2. \A x \in Expansions : x # e => InOrder(e, x)'
    BY <1>1 DEF InOrder
  <2>3. \A x, y \in Expansions : x # e /\ y # e /\ x # y => InOrder(x, y)'
    BY <1>1 DEF VersionsOK, OrderOK, InOrder, Known
  <2> QED BY <2>1, <2>2, <2>3
<1>9. OrderOK'
  BY <1>2, <1>6, <1>7, <1>8 DEF VersionsOK, OrderOK
<1> QED BY <1>5, <1>9 DEF VersionsOK

(* The call, and its late arrival.                                         *)
LEMMA CallVersions ==
    ASSUME IInv, DecisionsOK, VersionsOK, NEW a \in Deciding,
           DecideExpansionAnswered(a) \/ DecideExpansionFailed(a)
    PROVE  VersionsOK'
<1>1. /\ pass' = pass /\ UNCHANGED <<expansion, decideBegun, decideIntent>>
  BY DEF DecideExpansionAnswered, DecideExpansionFailed
<1>2. /\ DecideMoves(a) /\ decideReq'[a].pc \in {"idle", "mark", "settle"}
      /\ decideReq'[a].listed \in {DecideIdle.listed, decideReq[a].listed}
      /\ \/ UNCHANGED <<mission, requested>>
         \/ \E e \in Expansions, d \in Decisions : Decidable(e) /\ ApplyDecision(e, d)
  BY CallDecisions
<1>3. Remembered /\ OrderOK'
  <2>1. CASE UNCHANGED <<mission, requested>>
    <3>1. mission'.ver \in Nat /\ mission.ver =< mission'.ver /\ pass'.mver = pass.mver
      BY <1>1, <2>1, VersionTypes
    <3>2. Remembered
      BY <2>1 DEF Remembered, Known
    <3> QED BY <1>1, <2>1, <3>1, <3>2, FrameOrder DEF VersionsOK
  <2>2. CASE \E e \in Expansions, d \in Decisions : Decidable(e) /\ ApplyDecision(e, d)
    BY <1>1, <2>2, AppliedOrder DEF VersionsOK
  <2> QED BY <1>2, <2>1, <2>2
<1>4. pass'.mver \in Nat /\ pass.mver =< pass'.mver
  BY <1>1, VersionTypes
<1>5. CoverOK'
  <2>1. \A x \in Expansions : decideIntent'[x].state # "none" => Covered(decideIntent'[x].binding)
    BY <1>1 DEF VersionsOK, CoverOK
  <2>2. \A x \in Expansions : expansion'[x] # "none" => Known(x)
    BY <1>1 DEF VersionsOK, CoverOK
  <2>3. \A x \in Expansions : decideReq'[a].listed[x] # "none" => Known(x)
    BY <1>2, IdleLists DEF VersionsOK, CoverOK
  <2> QED BY <1>1, <1>2, <1>3, <1>4, <2>1, <2>2, <2>3, CoverActor DEF VersionsOK
<1> QED BY <1>3, <1>5 DEF VersionsOK

LEMMA LateVersions ==
    ASSUME IInv, DecisionsOK, VersionsOK, DecideCallArrivesLate
    PROVE  VersionsOK'
<1>1. /\ pass' = pass /\ UNCHANGED <<expansion, decideBegun, decideIntent, decideReq>>
  BY DEF DecideCallArrivesLate
<1>2. \/ UNCHANGED <<mission, requested>>
      \/ \E e \in Expansions, d \in Decisions : Decidable(e) /\ ApplyDecision(e, d)
  BY LateDecisions
<1>3. Remembered /\ OrderOK'
  <2>1. CASE UNCHANGED <<mission, requested>>
    <3>1. mission'.ver \in Nat /\ mission.ver =< mission'.ver /\ pass'.mver = pass.mver
      BY <1>1, <2>1, VersionTypes
    <3>2. Remembered
      BY <2>1 DEF Remembered, Known
    <3> QED BY <1>1, <2>1, <3>1, <3>2, FrameOrder DEF VersionsOK
  <2>2. CASE \E e \in Expansions, d \in Decisions : Decidable(e) /\ ApplyDecision(e, d)
    BY <1>1, <2>2, AppliedOrder DEF VersionsOK
  <2> QED BY <1>2, <2>1, <2>2
<1>4. pass'.mver \in Nat /\ pass.mver =< pass'.mver
  BY <1>1, VersionTypes
<1>5. CoverOK'
  BY <1>1, <1>3, <1>4, CoverMoves DEF VersionsOK, CoverOK
<1> QED BY <1>3, <1>5 DEF VersionsOK

(* settleDecision: the row takes the version of the approval, which it had *)
(* not reached; other approvals that wait are later.                       *)
LEMMA SettleVersions ==
    ASSUME IInv, DecisionsOK, VersionsOK, NEW a \in Deciding, settleDecision(a)
    PROVE  VersionsOK' /\ pass.mver =< pass'.mver
<1>1. /\ BindingsOK /\ pass \in PassRow
      /\ pass.mver \in Nat /\ mission.ver \in Nat
      /\ \A x \in Expansions : requested[x].ver \in Nat /\ requested[x].decided \in Nat
  BY VersionTypes DEF IInv, MissionOK, MissionTypeOK
<1>2. /\ DecideMoves(a) /\ decideReq'[a] = DecideIdle /\ UNCHANGED <<requested, decideBegun, mission>>
  BY <1>1, SettleDecisions
<1>3. Remembered /\ mission'.ver \in Nat /\ mission.ver =< mission'.ver
  BY <1>1, <1>2 DEF Remembered, Known
<1>4. CASE UNCHANGED <<pass, expansion, decideIntent>>
  <2>1. pass' = pass /\ pass'.mver = pass.mver
    BY <1>4
  <2>2. OrderOK'
    BY <1>2, <1>3, <1>4, <2>1, FrameOrder DEF VersionsOK
  <2>3. CoverOK'
    BY <1>2, <1>4, <2>1, IdleLists, PlaceCover DEF VersionsOK
  <2> QED BY <1>1, <2>1, <2>2, <2>3 DEF VersionsOK
<1>5. ASSUME NEW e \in Expansions,
             Decided(e),
             decideIntent[e].state = "in_flight",
             decideIntent'[e].state = "completed",
             decideIntent'[e].binding = decideIntent[e].binding,
             \A x \in Expansions : x # e => decideIntent'[x] = decideIntent[x],
             expansion[e] = "pending",
             \A x \in Expansions : x # e => expansion'[x] = expansion[x],
             pass' = IF requested[e].status = "approved"
                     THEN DecidedRow(pass, requested[e].decided) ELSE pass
      PROVE  VersionsOK' /\ pass.mver =< pass'.mver
  <2>1. requested[e].ver =< pass.mver /\ Known(e)
    BY <1>1, <1>5 DEF VersionsOK, CoverOK, Covered, IInv, BindingsOK, IntentsOK
  <2>2. /\ pass'.mver \in Nat /\ pass.mver =< pass'.mver /\ pass'.mver =< mission.ver
        /\ \A x \in Expansions :
              x # e /\ requested[x].status = "approved" /\ decideIntent[x].state # "completed" =>
                  pass'.mver < requested[x].decided
    <3>1. CASE requested[e].status # "approved"
      BY <1>1, <1>5, <3>1 DEF VersionsOK, OrderOK, Dated
    <3>2. CASE requested[e].status = "approved"
      <4>1. /\ pass.mver < requested[e].decided /\ requested[e].decided =< mission.ver
        BY <1>5, <3>2 DEF VersionsOK, OrderOK, Dated
      <4>2. pass'.mver = requested[e].decided
        BY <1>1, <1>5, <3>2, <4>1 DEF DecidedRow, PassRow
      <4>3. ASSUME NEW x \in Expansions, x # e, requested[x].status = "approved",
                   decideIntent[x].state # "completed"
            PROVE  requested[e].decided < requested[x].decided
        <5>1. /\ pass.mver < requested[x].decided /\ requested[x].ver < requested[x].decided
          BY <4>3 DEF VersionsOK, OrderOK, Dated
        <5>2. \/ requested[x].decided =< requested[e].ver
              \/ requested[e].decided =< requested[x].ver
          BY <2>1, <3>2, <4>3 DEF VersionsOK, OrderOK, InOrder
        <5> QED BY <1>1, <2>1, <5>1, <5>2
      <4> QED BY <1>1, <4>1, <4>2, <4>3
    <3> QED BY <3>1, <3>2
  <2>3. OrderOK'
    <3>1. \A x \in Expansions : Dated(x)'
      BY <1>2, <1>5, <2>2 DEF VersionsOK, OrderOK, Dated
    <3>2. OnePending' /\ \A x, y \in Expansions : x # y => InOrder(x, y)'
      BY <1>2 DEF VersionsOK, OrderOK, OnePending, InOrder, Known
    <3> QED BY <1>2, <2>2, <3>1, <3>2 DEF OrderOK
  <2>4. CoverOK'
    <3>1. \A x \in Expansions : expansion'[x] # "none" => Known(x)
      BY <1>5, <2>1 DEF VersionsOK, CoverOK
    <3>2. \A x \in Expansions :
             \/ decideIntent'[x].binding = decideIntent[x].binding /\ decideIntent[x].state # "none"
             \/ decideIntent'[x].state = "none"
             \/ Covered(decideIntent'[x].binding)
      BY <1>5
    <3> QED BY <1>2, <1>3, <2>2, <3>1, <3>2, IdleLists, CoverActor DEF VersionsOK
  <2> QED BY <2>2, <2>3, <2>4 DEF VersionsOK
<1>6. \/ UNCHANGED <<pass, expansion, decideIntent>>
      \/ \E e \in Expansions :
            /\ Decided(e)
            /\ decideIntent[e].state = "in_flight"
            /\ decideIntent'[e].state = "completed"
            /\ decideIntent'[e].binding = decideIntent[e].binding
            /\ \A x \in Expansions : x # e => decideIntent'[x] = decideIntent[x]
            /\ expansion[e] = "pending"
            /\ \A x \in Expansions : x # e => expansion'[x] = expansion[x]
            /\ pass' = IF requested[e].status = "approved"
                       THEN DecidedRow(pass, requested[e].decided) ELSE pass
  BY <1>1, SettleDecisions
<1> QED BY <1>4, <1>5, <1>6

(* No other step moves the version of the row.                             *)
LEMMA DeciderVersions ==
    ASSUME IInv, DecisionsOK, VersionsOK, NEW a \in Deciding, DeciderStep(a)
    PROVE  VersionsOK' /\ pass.mver =< pass'.mver
<1>1. BindingsOK /\ pass \in PassRow /\ pass.mver \in Nat /\ mission.ver \in Nat
  BY VersionTypes DEF IInv, MissionOK, MissionTypeOK
<1>2. CASE settleDecision(a)
  BY <1>2, SettleVersions
<1>3. CASE DecideExpansionAnswered(a) \/ DecideExpansionFailed(a)
  <2>1. pass' = pass
    BY <1>3 DEF DecideExpansionAnswered, DecideExpansionFailed
  <2> QED BY <1>1, <1>3, <2>1, CallVersions
<1>4. CASE \/ SyncPut(a) \/ SyncResolve(a) \/ \E c \in DecideChallenges : BeginDecision(a, c)
           \/ DecideLock(a) \/ ReadExpansionIntent(a) \/ QueryExpansion(a)
           \/ QueryExpansionFailed(a) \/ markDecisionPending(a) \/ PutExpansionIntent(a)
  <2>1. pass'.mver = pass.mver /\ mission' = mission /\ UNCHANGED requested
    BY <1>1, <1>4
    DEF SyncPut, SyncResolve, BeginDecision, DecideLock, ReadExpansionIntent, QueryExpansion,
        QueryExpansionFailed, markDecisionPending, PutExpansionIntent, missionVars, PassRow
  <2>2. \A e \in Expansions : decideIntent[e].state = "completed" =>
                                  decideIntent'[e].state = "completed"
    <3>1. CASE PutExpansionIntent(a)
      BY <1>1, <3>1, PutDecisions
    <3>2. CASE ~PutExpansionIntent(a)
      <4>1. UNCHANGED decideIntent
        BY <1>4, <3>2
        DEF SyncPut, SyncResolve, BeginDecision, DecideLock, ReadExpansionIntent, QueryExpansion,
            QueryExpansionFailed, markDecisionPending
      <4> QED BY <4>1
    <3> QED BY <3>1, <3>2
  <2>3. OrderOK'
    BY <1>1, <2>1, <2>2, FrameOrder DEF VersionsOK
  <2>4. CoverOK'
    BY <1>4, SyncCover, BeginCover, DecidePlaceCover, PutCover DEF VersionsOK
  <2> QED BY <1>1, <2>1, <2>3, <2>4 DEF VersionsOK
<1> QED BY <1>2, <1>3, <1>4 DEF DeciderStep

LEMMA FrameVersions ==
    ASSUME IInv, VersionsOK, pass'.mver = pass.mver, mission'.ver \in Nat,
           mission.ver =< mission'.ver, UNCHANGED expansionVars
    PROVE  VersionsOK' /\ pass.mver =< pass'.mver
<1>1. UNCHANGED requested /\ UNCHANGED decideIntent
  BY DEF expansionVars
<1>2. CoverOK'
  BY FrameCover DEF VersionsOK
<1>3. OrderOK'
  BY <1>1, FrameOrder DEF VersionsOK
<1> QED BY <1>2, <1>3, VersionTypes DEF VersionsOK

(* A founder's list shows only what was requested, and a ceremony that was *)
(* begun is covered.                                                       *)
LEMMA RequestVersions ==
    ASSUME IInv, DecisionsOK, VersionsOK, DecideRequest
    PROVE  VersionsOK' /\ pass.mver =< pass'.mver
<1>1. /\ BindingsOK /\ pass.mver \in Nat /\ mission.ver \in Nat
  BY VersionTypes DEF IInv
<1>2. PICK h \in Deciders :
          \/ \E b \in Binding : StartSync(h, b)
          \/ \E c \in DecideChallenges : FinishDecision(h, c)
  BY StartedBindings DEF DecideRequest
<1>3. /\ h \in Deciding /\ pass' = pass /\ mission' = mission
      /\ UNCHANGED <<requested, expansion, decideIntent>>
  BY <1>2 DEF Deciding, StartSync, FinishDecision, missionVars
<1>4. OrderOK'
  <2>1. pass'.mver = pass.mver /\ mission'.ver \in Nat /\ mission.ver =< mission'.ver
    BY <1>1, <1>3
  <2> QED BY <1>3, <2>1, FrameOrder DEF VersionsOK
<1>5. ASSUME NEW b \in Binding, StartSync(h, b) PROVE CoverOK'
  <2>1. /\ DecideMoves(h) /\ decideReq'[h].pc = "sync_put"
        /\ decideReq'[h].listed = [e \in Expansions |-> requested[e].status]
    BY <1>1, <1>5, StartQuiet DEF Quiet
  <2>2. UNCHANGED decideBegun
    BY <1>5 DEF StartSync
  <2>3. \A e \in Expansions : decideReq'[h].listed[e] # "none" => Known(e)
    BY <2>1 DEF Known
  <2> QED BY <1>3, <2>1, <2>2, <2>3, PlaceCover DEF VersionsOK
<1>6. ASSUME NEW c \in DecideChallenges, FinishDecision(h, c) PROVE CoverOK'
  <2>1. /\ DecideMoves(h)
        /\ \/ decideReq'[h] = decideReq[h]
           \/ /\ decideReq'[h].pc = "lock" /\ decideReq'[h].binding = decideBegun[c]
              /\ decideReq'[h].listed = DecideIdle.listed
    BY <1>1, <1>6, FinishQuiet DEF Quiet
  <2>2. Covered(decideBegun[c])
    <3>1. Decides(decideBegun[c])
      BY <1>1, <1>6 DEF FinishDecision, BindingsOK, BegunOK
    <3> QED BY <3>1 DEF VersionsOK, CoverOK
  <2>3. \A x \in DecideChallenges :
            decideBegun'[x] = decideBegun[x] \/ decideBegun'[x] = UsedBinding
    BY <1>1, <1>6, DecideTypes DEF FinishDecision
  <2>4. decideReq'[h].pc \in {"lock", "put", "call"} => Covered(decideReq'[h].binding)
    BY <1>3, <2>1, <2>2 DEF VersionsOK, CoverOK
  <2>5. \A e \in Expansions : decideReq'[h].listed[e] # "none" => Known(e)
    BY <1>3, <2>1, IdleLists DEF VersionsOK, CoverOK
  <2> QED BY <1>3, <2>1, <2>3, <2>4, <2>5, PlaceCover DEF VersionsOK
<1> QED BY <1>1, <1>2, <1>3, <1>4, <1>5, <1>6 DEF VersionsOK

(* The authority's version never moves back, and neither the runner nor a  *)
(* revocation moves the version of the row.                                *)
LEMMA AuthorityVersions ==
    ASSUME IInv, DecisionsOK, VersionsOK, Authority
    PROVE  VersionsOK' /\ pass.mver =< pass'.mver
<1>1. /\ pass.mver \in Nat /\ mission.ver \in Nat /\ mission \in MissionRow
  BY VersionTypes DEF IInv, MissionOK, MissionTypeOK, MissionRow
<1>2. pass' = pass
  BY DEF Authority, RunnerStep, ActionChecked, RunEnds, ReceiptReady, MissionExpires,
         RevokeCallArrivesLate, RequestExpansion, ExpansionLapses, missionVars,
         DecideCallArrivesLate
<1>3. ASSUME NEW e \in Expansions, RequestExpansion(e) PROVE VersionsOK'
  BY <1>3, AskVersions
<1>4. CASE DecideCallArrivesLate
  BY <1>1, <1>2, <1>4, LateVersions
<1>5. CASE (RunnerStep \/ RevokeCallArrivesLate) /\ UNCHANGED expansionVars
  <2>1. mission'.ver = mission.ver \/ mission'.ver = mission.ver + 1
    BY <1>1, <1>5 DEF RunnerStep, ActionChecked, RunEnds, ReceiptReady, MissionExpires,
                      RevokeCallArrivesLate, ApplyRevoke, MissionRow
  <2> QED BY <1>1, <1>2, <1>5, <2>1, FrameVersions
<1>6. ASSUME NEW e \in Expansions, ExpansionLapses(e) PROVE VersionsOK'
  BY <1>6, LapseVersions
<1> QED BY <1>1, <1>2, <1>3, <1>4, <1>5, <1>6 DEF Authority

LEMMA RevokeVersions ==
    ASSUME IInv, VersionsOK,
           RevokeRequest \/ \E a \in Revokers \cup Workers : RevokeProgress(a)
    PROVE  VersionsOK' /\ pass.mver =< pass'.mver
<1>1. /\ pass.mver \in Nat /\ mission.ver \in Nat /\ mission \in MissionRow /\ pass \in PassRow
  BY VersionTypes DEF IInv, MissionOK, MissionTypeOK, MissionRow
<1>2. UNCHANGED expansionVars
  BY DEF RevokeRequest, RevokeProgress
<1>3. pass'.mver = pass.mver /\ mission'.ver \in {mission.ver, mission.ver + 1}
  <2>1. CASE RevokeRequest
    BY <2>1 DEF RevokeRequest, RevokeBegin, handleRevokeFinish, RevokeFinish, CLIStep, Register,
                RequestExpires, Exchange, CLIEnds, missionVars
  <2>2. ASSUME NEW a \in Revokers \cup Workers, RevokeProgress(a)
        PROVE  pass'.mver = pass.mver /\ mission'.ver \in {mission.ver, mission.ver + 1}
    <3>1. CASE RevokeMissionAnswered(a) \/ RevokeMissionFailed(a)
      BY <1>1, <3>1 DEF RevokeMissionAnswered, RevokeMissionFailed, ApplyRevoke, MissionRow
    <3>2. CASE markRevokePending(a) \/ settleRevocation(a)
      BY <1>1, <3>2 DEF markRevokePending, settleRevocation, PassRow
    <3>3. CASE ~ (RevokeMissionAnswered(a) \/ RevokeMissionFailed(a)
                  \/ markRevokePending(a) \/ settleRevocation(a))
      BY <2>2, <3>3 DEF RevokeProgress, RevokerStep, RevokeLock, PutRevocationIntent,
                        ReconcileRevocation, ReadRevocationIntent, QueryRevocation,
                        QueryRevocationFailed, AnswerFinish, missionVars
    <3> QED BY <3>1, <3>2, <3>3
  <2> QED BY <2>1, <2>2
<1> QED BY <1>1, <1>2, <1>3, FrameVersions

(* Neither do the worker's pages and verdicts.                             *)
LEMMA SweepVersions ==
    ASSUME IInv, DecisionsOK, VersionsOK, NEW w \in Workers, Sweep(w)
    PROVE  VersionsOK' /\ pass.mver =< pass'.mver
<1>1. /\ pass.mver \in Nat /\ mission.ver \in Nat /\ pass \in PassRow /\ BindingsOK
  BY VersionTypes DEF IInv, MissionOK, MissionTypeOK
<1>2. mission' = mission
  BY DEF Sweep, ProjectionStep, StartPoll, ReadEvents, ReadEventsFailed, ApplyPage, VerifyReceipt,
         NoReceipt, StoreVerdict, ReconcileRevocations, WorkerReconcilesRevocation,
         ListExpansionIntents, ReconcileExpansions, WorkerReconcilesExpansion, missionVars
<1>3. pass'.mver = pass.mver
  <2>1. CASE ApplyPage(w)
    <3> DEFINE from == work[w].from
               to == work[w].to
    <3>1. CASE Applicable(from, to)
      <4>1. /\ MissionTypeOK /\ from \in Nat /\ to \in Nat /\ from =< to /\ to =< Len(log)
        BY <2>1 DEF IInv, MissionOK, WorkOK, ProjectionTypeOK, Work, ApplyPage
      <4>2. pass' = RowAfter(from, to) /\ RowAfter(from, to) # Refused
        BY <2>1, <3>1 DEF ApplyPage, Applicable
      <4>3. Follows(RowAfter(from, to), to)
        BY <4>1, <4>2, PageFollows
      <4> QED BY <4>2, <4>3 DEF Follows
    <3>2. CASE ~Applicable(from, to)
      BY <2>1, <3>2 DEF ApplyPage
    <3> QED BY <3>1, <3>2
  <2>2. CASE StoreVerdict(w)
    BY <1>1, <2>2 DEF StoreVerdict, PassRow
  <2>3. CASE ~ApplyPage(w) /\ ~StoreVerdict(w)
    BY <2>3 DEF Sweep, ProjectionStep, StartPoll, ReadEvents, ReadEventsFailed, VerifyReceipt,
                NoReceipt, ReconcileRevocations, WorkerReconcilesRevocation,
                ListExpansionIntents, ReconcileExpansions, WorkerReconcilesExpansion, missionVars
  <2> QED BY <2>1, <2>2, <2>3
<1>4. CASE UNCHANGED expansionVars
  BY <1>1, <1>2, <1>3, <1>4, FrameVersions
<1>5. ASSUME NEW e \in todo[w], WorkerReconcilesExpansion(w, e)
      PROVE  VersionsOK' /\ pass.mver =< pass'.mver
  <2>1. e \in Expansions /\ w \in Deciding
    BY <1>5 DEF IInv, WorkOK, Deciding
  <2>2. /\ DecideMoves(w) /\ decideReq'[w].pc = "reconcile"
        /\ decideReq'[w].listed = DecideIdle.listed
    BY <1>1, <1>5, <2>1, WorkerDecisions
  <2>3. UNCHANGED <<requested, expansion, decideIntent, decideBegun>>
    BY <1>5 DEF WorkerReconcilesExpansion
  <2>4. CoverOK'
    BY <1>3, <2>1, <2>2, <2>3, IdleLists, PlaceCover DEF VersionsOK
  <2>5. OrderOK'
    BY <1>1, <1>2, <1>3, <2>3, FrameOrder DEF VersionsOK
  <2> QED BY <1>1, <1>3, <2>4, <2>5 DEF VersionsOK
<1> QED BY <1>4, <1>5 DEF Sweep, VerifyReceipt, NoReceipt, StoreVerdict, ReconcileRevocations,
                          ListExpansionIntents, ReconcileExpansions

LEMMA CrashVersions ==
    ASSUME IInv, DecisionsOK, VersionsOK, Crash
    PROVE  VersionsOK' /\ pass.mver =< pass'.mver
<1>1. /\ pass.mver \in Nat /\ mission.ver \in Nat /\ pass' = pass /\ mission' = mission
      /\ UNCHANGED <<requested, expansion, decideIntent>>
  BY VersionTypes DEF Crash, missionVars
<1>2. \A c \in DecideChallenges : decideBegun'[c] \in {NoBinding, UsedBinding}
  BY DEF Crash
<1>3. ~Decides(NoBinding) /\ ~Decides(UsedBinding)
  BY DEF Decides, NoBinding, UsedBinding, Decisions
<1>4. \A a \in Deciding : decideReq'[a] = DecideIdle
  BY CrashDecisions
<1>5. pass'.mver = pass.mver /\ mission'.ver \in Nat /\ mission.ver =< mission'.ver /\ Remembered
      /\ pass'.mver \in Nat /\ pass.mver =< pass'.mver
  BY <1>1 DEF Remembered, Known
<1>6. OrderOK'
  BY <1>1, <1>5, FrameOrder DEF VersionsOK
<1>7. CoverOK'
  BY <1>1, <1>2, <1>3, <1>4, <1>5, IdleLists, CoverMoves DEF VersionsOK, CoverOK
<1> QED BY <1>5, <1>6, <1>7 DEF VersionsOK

LEMMA NextVersions ==
    IInv /\ DecisionsOK /\ VersionsOK /\ [Next]_vars => VersionsOK' /\ pass.mver =< pass'.mver
<1> SUFFICES ASSUME IInv, DecisionsOK, VersionsOK, [Next]_vars
             PROVE  VersionsOK' /\ pass.mver =< pass'.mver
  OBVIOUS
<1>1. CASE Authority
  BY <1>1, AuthorityVersions
<1>2. CASE RevokeRequest \/ \E a \in Revokers \cup Workers : RevokeProgress(a)
  BY <1>2, RevokeVersions
<1>3. CASE DecideRequest
  BY <1>3, RequestVersions
<1>4. CASE \E a \in Deciders \cup Workers : DecideProgress(a)
  BY <1>4, DeciderVersions DEF DecideProgress, Deciding
<1>5. CASE \E w \in Workers : Sweep(w)
  BY <1>5, SweepVersions
<1>6. CASE Crash
  BY <1>6, CrashVersions
<1>7. CASE UNCHANGED vars
  <2>1. /\ pass' = pass /\ mission' = mission /\ UNCHANGED expansionVars /\ mission.ver \in Nat
    BY <1>7, VersionTypes DEF vars, missionVars
  <2>2. pass'.mver = pass.mver /\ mission'.ver \in Nat /\ mission.ver =< mission'.ver
    BY <2>1
  <2> QED BY <2>1, <2>2, FrameVersions
<1> QED BY <1>1, <1>2, <1>3, <1>4, <1>5, <1>6, <1>7 DEF Next

LEMMA InitVersions == Init => VersionsOK
<1> SUFFICES ASSUME Init PROVE VersionsOK
  OBVIOUS
<1>1. /\ pass.mver = 1 /\ mission.ver = 1
      /\ \A e \in Expansions : requested[e].status = "none" /\ requested[e].ver = 0
                               /\ expansion[e] = "none" /\ decideIntent[e].state = "none"
      /\ \A c \in DecideChallenges : decideBegun[c] = NoBinding
      /\ \A a \in Deciding : decideReq[a] = DecideIdle
  BY DEF Init, MissionInit, ExpansionInit, NoDecideIntent, Deciding
<1>2. ~Decides(NoBinding)
  BY DEF Decides, NoBinding, Decisions
<1>3. CoverOK
  BY <1>1, <1>2, IdleLists DEF CoverOK
<1>4. OrderOK
  BY <1>1 DEF OrderOK, OnePending, InOrder, Dated
<1> QED BY <1>3, <1>4 DEF VersionsOK

(* Approvals are settled in the order of their versions in every reachable *)
(* state (BeginDecision, settleDecision).                                  *)
THEOREM VersionsHold == Spec => []VersionsOK
  BY InitVersions, NextVersions, DecisionsHold, InvariantHolds, PTL DEF Spec

(* The mission version of the row never moves back and is never ahead of   *)
(* the authority, though DecidedRow overwrites it with whatever version    *)
(* was decided whenever the pass is not running (settleDecision).          *)
THEOREM RowVersionAdvances == Spec => MissionVersionAdvances
  <1>1. IInv /\ IInv' /\ DecisionsOK /\ VersionsOK /\ VersionsOK' /\ [Next]_vars =>
            [pass'.mver >= pass.mver /\ pass'.mver =< mission'.ver]_vars
    <2> SUFFICES ASSUME IInv, IInv', DecisionsOK, VersionsOK, VersionsOK', [Next]_vars
                 PROVE  pass'.mver >= pass.mver /\ pass'.mver =< mission'.ver
      OBVIOUS
    <2>1. pass.mver =< pass'.mver
      BY NextVersions
    <2>2. pass'.mver =< mission'.ver
      BY DEF VersionsOK, OrderOK
    <2>3. pass.mver \in Nat /\ pass'.mver \in Nat
      BY VersionTypes DEF IInv, MissionOK, MissionTypeOK, PassRow
    <2> QED BY <2>1, <2>2, <2>3
  <1> QED BY <1>1, VersionsHold, DecisionsHold, InvariantHolds, PTL
             DEF Spec, MissionVersionAdvances

-----------------------------------------------------------------------------
(* The receipt: what the authority signed no longer changes.               *)

(* The mission moves forward, and logs one outcome, when the run ends.     *)
MissionAdvances ==
    \/ log' = log /\ mission'.state = mission.state /\ mission'.receipt = mission.receipt
    \/ \E type \in EventTypes, ver \in Nat :
          /\ Emit(type, ver)
          /\ type \in {"run_succeeded", "run_failed"} =>
                mission.state = "active" /\ mission'.state # "active"
          /\ mission.state # "active" => mission'.state # "active"
          /\ mission'.state = "ended" =>
                mission.state = "ended" \/ type \in {"run_succeeded", "run_failed"}
          /\ mission.receipt => mission'.receipt
          /\ mission'.receipt => mission.receipt \/ mission.state = "ended"

LEMMA OutcomesMove ==
    ASSUME log \in Seq(Event), OutcomesOK, MissionAdvances
    PROVE  /\ OutcomesOK'
           /\ \A n \in 1 .. Len(log) : n \in 1 .. Len(log') /\ log'[n] = log[n]
           /\ mission.receipt => mission'.receipt
<1>1. CASE log' = log /\ mission'.state = mission.state /\ mission'.receipt = mission.receipt
  BY <1>1 DEF OutcomesOK, RunOutcome
<1>2. ASSUME NEW type \in EventTypes, NEW ver \in Nat,
             Emit(type, ver),
             type \in {"run_succeeded", "run_failed"} =>
                mission.state = "active" /\ mission'.state # "active",
             mission.state # "active" => mission'.state # "active",
             mission'.state = "ended" =>
                mission.state = "ended" \/ type \in {"run_succeeded", "run_failed"},
             mission.receipt => mission'.receipt,
             mission'.receipt => mission.receipt \/ mission.state = "ended"
      PROVE  /\ OutcomesOK'
             /\ \A n \in 1 .. Len(log) : n \in 1 .. Len(log') /\ log'[n] = log[n]
             /\ mission.receipt => mission'.receipt
  <2>1. /\ log' \in Seq(Event) /\ Len(log') = Len(log) + 1
        /\ \A n \in 1 .. Len(log) : log'[n] = log[n]
        /\ log'[Len(log) + 1] = [type |-> type, ver |-> ver]
    BY <1>2, Emitted
  <2>2. PICK k \in Nat : k = Len(log)
    OBVIOUS
  <2>3. /\ \A n \in 1 .. Len(log) : n \in 1 .. Len(log')
        /\ k + 1 \in 1 .. Len(log')
        /\ \A n \in 1 .. Len(log') : n \in 1 .. Len(log) \/ n = k + 1
    BY <2>1, <2>2
  <2>4. \A n \in 1 .. Len(log) : RunOutcome(n)' <=> RunOutcome(n)
    BY <2>1 DEF RunOutcome
  <2>5. RunOutcome(k + 1)' <=> type \in {"run_succeeded", "run_failed"}
    BY <2>1, <2>2 DEF RunOutcome
  <2>6. \A n \in 1 .. Len(log') : RunOutcome(n)' => mission'.state # "active"
    BY <1>2, <2>3, <2>4, <2>5 DEF OutcomesOK
  <2>7. \A n, m \in 1 .. Len(log') : RunOutcome(n)' /\ RunOutcome(m)' => n = m
    BY <1>2, <2>3, <2>4, <2>5 DEF OutcomesOK
  <2>8. mission'.state = "ended" \/ mission'.receipt => \E n \in 1 .. Len(log') : RunOutcome(n)'
    BY <1>2, <2>3, <2>4, <2>5 DEF OutcomesOK
  <2>9. mission'.receipt => mission'.state # "active"
    BY <1>2 DEF OutcomesOK
  <2> QED BY <1>2, <2>1, <2>3, <2>6, <2>7, <2>8, <2>9 DEF OutcomesOK
<1> QED BY <1>1, <1>2 DEF MissionAdvances

(* With one outcome in the log, it is the outcome of the receipt.          *)
OutcomeSigned ==
    OutcomesOK => \A k \in 1 .. Len(log) : RunOutcome(k) => SignedReceipt.outcome = log[k].type

LEMMA TheOutcome == OutcomeSigned
<1> SUFFICES ASSUME OutcomesOK, NEW k \in 1 .. Len(log), RunOutcome(k)
             PROVE  SignedReceipt.outcome = log[k].type
  BY DEF OutcomeSigned
<1>1. Outcomes(Len(log)) = {k}
  BY DEF OutcomesOK, RunOutcome, Outcomes
<1> DEFINE latest == CHOOSE n \in Outcomes(Len(log)) : \A m \in Outcomes(Len(log)) : m =< n
<1>2. k \in Nat /\ k =< k
  OBVIOUS
<1>3. \E n \in Outcomes(Len(log)) : \A m \in Outcomes(Len(log)) : m =< n
  BY <1>1, <1>2
<1>4. latest \in Outcomes(Len(log))
  BY <1>3
<1>5. latest = k
  BY <1>1, <1>4
<1>6. Outcome(Len(log)) = log[latest].type
  BY <1>1 DEF Outcome
<1> HIDE DEF latest
<1> QED BY <1>5, <1>6 DEF SignedReceipt

LEMMA TheNextOutcome == OutcomeSigned'
  BY TheOutcome, PTL

LEMMA OutcomeStays ==
    ASSUME log \in Seq(Event), OutcomesOK, MissionAdvances, mission.receipt
    PROVE  /\ SignedReceipt.outcome \in {"run_succeeded", "run_failed"}
           /\ SignedReceipt'.outcome = SignedReceipt.outcome
<1>1. /\ OutcomesOK'
      /\ \A n \in 1 .. Len(log) : n \in 1 .. Len(log') /\ log'[n] = log[n]
  BY OutcomesMove
<1>2. PICK k \in 1 .. Len(log) : RunOutcome(k)
  BY DEF OutcomesOK
<1>3. SignedReceipt.outcome = log[k].type
  BY <1>2, TheOutcome DEF OutcomeSigned
<1>4. k \in 1 .. Len(log') /\ RunOutcome(k)' /\ log'[k] = log[k]
  BY <1>1, <1>2 DEF RunOutcome
<1>5. SignedReceipt'.outcome = log'[k].type
  BY <1>1, <1>4, TheNextOutcome DEF OutcomeSigned
<1> QED BY <1>2, <1>3, <1>4, <1>5 DEF RunOutcome

(* Requests are made and decided while the mission is active, and only     *)
(* what is decided is completed.                                           *)
RecordAdvances ==
    /\ mission.state # "active" => \A e \in Expansions : Decided(e)' <=> Decided(e)
    /\ \A e \in Expansions :
          \/ (decideIntent'[e].state = "completed") <=> (decideIntent[e].state = "completed")
          \/ decideIntent[e].state # "completed" /\ Decided(e)

LEMMA CompleteStays ==
    ASSUME log \in Seq(Event), OutcomesOK, MissionAdvances, RecordAdvances, Complete
    PROVE  Complete'
<1>1. mission'.receipt /\ mission.state # "active"
  BY OutcomesMove DEF Complete, OutcomesOK
<1>2. \A e \in Expansions : decideIntent'[e].state = "completed" <=> Decided(e)'
  BY <1>1 DEF RecordAdvances, Complete
<1> QED BY <1>1, <1>2 DEF Complete

(* The binding and the receipt name the same decisions exactly when the    *)
(* record is complete.                                                     *)
LEMMA SameRefs ==
    /\ buildBinding.refs = SignedReceipt.refs <=>
          \A e \in Expansions : decideIntent[e].state = "completed" <=> Decided(e)
    /\ (buildBinding.refs = SignedReceipt.refs)' <=>
          \A e \in Expansions : decideIntent'[e].state = "completed" <=> Decided(e)'
<1>1. buildBinding.refs = SignedReceipt.refs <=>
          \A e \in Expansions : decideIntent[e].state = "completed" <=> Decided(e)
  BY DEF buildBinding, SignedReceipt, Decided
<1>2. (buildBinding.refs = SignedReceipt.refs)' <=>
          \A e \in Expansions : decideIntent'[e].state = "completed" <=> Decided(e)'
  BY DEF buildBinding, SignedReceipt, Decided
<1> QED BY <1>1, <1>2

Ended == {"completed", "failed"}

(* A step that neither verifies a receipt nor stores a verdict.            *)
NoVerdict ==
    /\ pass'.state = pass.state \/ pass'.state \notin Ended
    /\ view' = view
    /\ \A w \in Workers : work'[w].phase = "verdict" => work'[w] = work[w]

LEMMA NoVerdictReceipt ==
    ASSUME log \in Seq(Event), ReceiptOK, MissionAdvances, RecordAdvances, NoVerdict
    PROVE  ReceiptOK'
<1>1. OutcomesOK'
  BY OutcomesMove DEF ReceiptOK
<1>2. Complete => Complete'
  BY CompleteStays DEF ReceiptOK
<1>3. /\ \A w \in Workers : work'[w].phase = "verdict" /\ work'[w].verdict = "verified" => Complete'
      /\ view' = "verified" => Complete'
  BY <1>2 DEF NoVerdict, ReceiptOK, VerdictsOK
<1>4. EndedPassAgrees'
  <2> SUFFICES ASSUME pass'.state \in Ended
               PROVE  /\ view' = "verified"
                      /\ SignedReceipt'.outcome = IF pass'.state = "completed" THEN "run_succeeded"
                                                                               ELSE "run_failed"
                      /\ (buildBinding.refs = SignedReceipt.refs)'
    BY DEF EndedPassAgrees, Ended
  <2>1. pass'.state = pass.state /\ view = "verified" /\ view' = "verified" /\ Complete
    BY DEF NoVerdict, ReceiptOK, VerdictsOK, EndedPassAgrees, Ended
  <2>2. SignedReceipt'.outcome = SignedReceipt.outcome
    BY <2>1, OutcomeStays DEF ReceiptOK, Complete
  <2>3. (buildBinding.refs = SignedReceipt.refs)'
    BY <1>2, <2>1, SameRefs DEF Complete
  <2> QED BY <2>1, <2>2, <2>3 DEF ReceiptOK, VerdictsOK, EndedPassAgrees, Ended
<1> QED BY <1>1, <1>3, <1>4 DEF ReceiptOK, VerdictsOK

(* VerifyReceipt: a receipt that matches the binding finds the record      *)
(* complete.                                                               *)
LEMMA VerifyReceiptStep ==
    ASSUME IInv, ReceiptOK, NEW w \in Workers, VerifyReceipt(w)
    PROVE  ReceiptOK'
<1>1. /\ log' = log /\ mission' = mission /\ pass' = pass /\ view' = view /\ mission.receipt
      /\ UNCHANGED expansionVars
      /\ work' = [work EXCEPT ![w].phase = "verdict", ![w].verdict = Verify(buildBinding)]
  BY DEF VerifyReceipt, missionVars
<1>2. UNCHANGED <<requested, decideIntent>>
  BY <1>1 DEF expansionVars
<1>3. Complete' <=> Complete
  BY <1>1, <1>2 DEF Complete, Decided
<1>4. Verify(buildBinding) = "verified" => Complete
  <2>1. buildBinding = SignedReceipt => buildBinding.refs = SignedReceipt.refs
    OBVIOUS
  <2> QED BY <1>1, <2>1, SameRefs DEF Verify, Complete
<1>5. \A v \in Workers : work'[v].phase = "verdict" /\ work'[v].verdict = "verified" => Complete'
  <2>1. work \in [Workers -> Work] /\ work[w] \in Work
    BY DEF IInv, WorkOK, ProjectionTypeOK
  <2>2. PICK verdict : verdict = Verify(buildBinding)
    OBVIOUS
  <2> DEFINE r == [work[w] EXCEPT !.phase = "verdict", !.verdict = verdict]
  <2>3. r.verdict = verdict
    BY <2>1 DEF Work
  <2>4. work' = [work EXCEPT ![w] = r]
    BY <1>1, <2>2
  <2> HIDE DEF r
  <2> QED BY <1>3, <1>4, <2>1, <2>2, <2>3, <2>4 DEF ReceiptOK, VerdictsOK
<1>6. OutcomesOK'
  BY <1>1 DEF ReceiptOK, OutcomesOK, RunOutcome
<1>7. SignedReceipt'.outcome = SignedReceipt.outcome
  BY <1>1 DEF SignedReceipt, Outcome, Outcomes
<1>8. (buildBinding.refs = SignedReceipt.refs)' <=> buildBinding.refs = SignedReceipt.refs
  BY <1>2, SameRefs DEF Decided
<1>9. EndedPassAgrees'
  BY <1>1, <1>7, <1>8 DEF ReceiptOK, VerdictsOK, EndedPassAgrees
<1> QED BY <1>1, <1>3, <1>5, <1>6, <1>9 DEF ReceiptOK, VerdictsOK

(* StoreVerdict: the pass ends with the outcome of the receipt.            *)
LEMMA StoreVerdictStep ==
    ASSUME IInv, ReceiptOK, NEW w \in Workers, StoreVerdict(w)
    PROVE  ReceiptOK'
<1>1. /\ log' = log /\ mission' = mission /\ UNCHANGED expansionVars
      /\ Phase(w, "revocations") /\ work[w].phase = "verdict"
      /\ log \in Seq(Event) /\ pass \in PassRow
  BY DEF StoreVerdict, IInv, MissionOK, MissionTypeOK
<1>2. UNCHANGED <<requested, decideIntent>>
  BY <1>1 DEF expansionVars
<1>3. MissionAdvances /\ RecordAdvances
  BY <1>1, <1>2 DEF MissionAdvances, RecordAdvances, Decided
<1>4. \A v \in Workers : work'[v].phase = "verdict" => work'[v] = work[v]
  BY <1>1, PhaseMoves DEF IInv, Phases
<1>5. CASE view # "none" \/ work[w].verdict # "verified" \/ pass.state # "outcome_pending"
  <2>1. pass' = pass
    BY <1>5 DEF StoreVerdict
  <2>2. CASE view' = view
    BY <1>1, <1>3, <1>4, <2>1, <2>2, NoVerdictReceipt DEF NoVerdict
  <2>3. CASE view' # view
    <3>1. view = "none" /\ view' = work[w].verdict
      BY <2>3 DEF StoreVerdict
    <3>2. pass.state \notin Ended
      BY <3>1 DEF ReceiptOK, VerdictsOK, EndedPassAgrees, Ended
    <3>3. EndedPassAgrees'
      BY <2>1, <3>2 DEF EndedPassAgrees, Ended
    <3>4. OutcomesOK' /\ (Complete => Complete')
      BY <1>1, <1>3, OutcomesMove, CompleteStays DEF ReceiptOK
    <3>5. view' = "verified" => Complete
      BY <1>1, <3>1 DEF ReceiptOK, VerdictsOK
    <3> QED BY <1>4, <3>3, <3>4, <3>5 DEF ReceiptOK, VerdictsOK
  <2> QED BY <2>2, <2>3
<1>6. CASE view = "none" /\ work[w].verdict = "verified" /\ pass.state = "outcome_pending"
  <2>1. Complete
    BY <1>1, <1>6 DEF ReceiptOK, VerdictsOK
  <2>2. /\ view' = "verified"
        /\ pass' = [pass EXCEPT !.state = IF SignedReceipt.outcome = "run_succeeded"
                                          THEN "completed" ELSE "failed",
                                !.recon = "settled"]
    BY <1>6 DEF StoreVerdict
  <2>3. pass'.state = IF SignedReceipt.outcome = "run_succeeded" THEN "completed" ELSE "failed"
    BY <1>1, <2>2 DEF PassRow
  <2>4. /\ SignedReceipt.outcome \in {"run_succeeded", "run_failed"}
        /\ SignedReceipt'.outcome = SignedReceipt.outcome
    BY <1>1, <1>3, <2>1, OutcomeStays DEF ReceiptOK, Complete
  <2>5. OutcomesOK' /\ Complete'
    BY <1>1, <1>3, <2>1, OutcomesMove, CompleteStays DEF ReceiptOK
  <2>6. EndedPassAgrees'
    BY <2>2, <2>3, <2>4, <2>5, SameRefs DEF EndedPassAgrees, Complete
  <2> QED BY <1>4, <2>5, <2>6 DEF ReceiptOK, VerdictsOK
<1> QED BY <1>5, <1>6

(* What a revocation does to the mission.                                  *)
LEMMA RevokedAdvances ==
    ASSUME mission \in MissionRow, NEW cont \in Answers, ApplyRevoke(cont)
    PROVE  MissionAdvances
<1>1. /\ mission' = [mission EXCEPT !.state = "revoked", !.ver = @ + 1, !.cont = cont]
      /\ Emit("mission_revoked", mission.ver + 1)
  BY DEF ApplyRevoke
<1>2. mission'.state = "revoked" /\ mission'.receipt = mission.receipt /\ mission.ver + 1 \in Nat
  BY <1>1 DEF MissionRow
<1>3. "mission_revoked" \in EventTypes
  BY DEF EventTypes
<1> QED BY <1>1, <1>2, <1>3 DEF MissionAdvances

LEMMA RunnerAdvances ==
    ASSUME mission \in MissionRow, RunnerStep
    PROVE  MissionAdvances
<1>1. mission.ver \in Nat
  BY DEF MissionRow
<1>2. CASE ActionChecked
  <2>1. Emit("action_checked", mission.ver) /\ mission' = mission /\ "action_checked" \in EventTypes
    BY <1>2 DEF ActionChecked, EventTypes
  <2> QED BY <1>1, <2>1 DEF MissionAdvances
<1>3. CASE RunEnds
  <2>1. /\ mission.state = "active" /\ mission'.state = "ended" /\ mission'.receipt = mission.receipt
    BY <1>3 DEF RunEnds, MissionRow
  <2>2. PICK type \in {"run_succeeded", "run_failed"} : Emit(type, mission.ver)
    BY <1>3 DEF RunEnds
  <2>3. type \in EventTypes
    BY DEF EventTypes
  <2> QED BY <1>1, <2>1, <2>2, <2>3 DEF MissionAdvances
<1>4. CASE ReceiptReady
  <2>1. /\ mission.state = "ended" /\ mission'.state = "ended" /\ mission'.receipt = TRUE
        /\ Emit("receipt_ready", mission.ver) /\ "receipt_ready" \in EventTypes
    BY <1>4 DEF ReceiptReady, MissionRow, EventTypes
  <2> QED BY <1>1, <2>1 DEF MissionAdvances
<1>5. CASE MissionExpires
  <2>1. /\ mission.state = "active" /\ mission'.state = "expired"
        /\ mission'.receipt = mission.receipt
        /\ Emit("mission_expired", mission.ver) /\ "mission_expired" \in EventTypes
    BY <1>5 DEF MissionExpires, MissionRow, EventTypes
  <2> QED BY <1>1, <2>1 DEF MissionAdvances
<1> QED BY <1>2, <1>3, <1>4, <1>5 DEF RunnerStep

LEMMA FrameRecord ==
    ASSUME UNCHANGED expansionVars
    PROVE  RecordAdvances
<1>1. UNCHANGED <<requested, decideIntent>>
  BY DEF expansionVars
<1> QED BY <1>1 DEF RecordAdvances, Decided

LEMMA FrameVerdict ==
    ASSUME UNCHANGED <<projectionVars, view>>, pass'.state = pass.state \/ pass'.state \notin Ended
    PROVE  NoVerdict
<1>1. work' = work /\ view' = view
  BY DEF projectionVars
<1> QED BY <1>1 DEF NoVerdict

(* A decision is taken while the mission is active, and leaves its state   *)
(* and its receipt alone.                                                  *)
LEMMA AppliedRecord ==
    ASSUME IInv, UNCHANGED decideIntent, log' = log,
           \/ UNCHANGED <<mission, requested>>
           \/ \E e \in Expansions, d \in Decisions : Decidable(e) /\ ApplyDecision(e, d)
    PROVE  MissionAdvances /\ RecordAdvances
<1>1. CASE UNCHANGED <<mission, requested>>
  BY <1>1 DEF MissionAdvances, RecordAdvances, Decided
<1>2. ASSUME NEW e \in Expansions, NEW d \in Decisions, Decidable(e), ApplyDecision(e, d)
      PROVE  MissionAdvances /\ RecordAdvances
  <2>1. /\ mission.state = "active" /\ mission'.state = mission.state
        /\ mission'.receipt = mission.receipt
    BY <1>2, Applied DEF IInv
  <2> QED BY <2>1 DEF MissionAdvances, RecordAdvances
<1> QED BY <1>1, <1>2

LEMMA AuthorityReceipt ==
    ASSUME IInv, DecisionsOK, ReceiptOK, Authority
    PROVE  ReceiptOK'
<1>1. /\ log \in Seq(Event) /\ mission \in MissionRow /\ mission.ver \in Nat
  BY DEF IInv, MissionOK, MissionTypeOK, MissionRow
<1>2. pass' = pass /\ UNCHANGED <<projectionVars, view>>
  BY DEF Authority, RunnerStep, ActionChecked, RunEnds, ReceiptReady, MissionExpires,
         RevokeCallArrivesLate, RequestExpansion, ExpansionLapses, missionVars,
         DecideCallArrivesLate
<1>3. NoVerdict
  BY <1>2, FrameVerdict
<1>4. CASE RunnerStep /\ UNCHANGED expansionVars
  BY <1>1, <1>3, <1>4, RunnerAdvances, FrameRecord, NoVerdictReceipt
<1>5. CASE RevokeCallArrivesLate /\ UNCHANGED expansionVars
  <2>1. MissionAdvances
    <3>1. CASE mission.state = "revoked"
      BY <1>5, <3>1 DEF RevokeCallArrivesLate, MissionAdvances
    <3>2. CASE mission.state # "revoked"
      BY <1>1, <1>5, <3>2, RevokedAdvances DEF RevokeCallArrivesLate
    <3> QED BY <3>1, <3>2
  <2> QED BY <1>1, <1>3, <1>5, <2>1, FrameRecord, NoVerdictReceipt
<1>6. ASSUME NEW e \in Expansions, RequestExpansion(e) PROVE ReceiptOK'
  <2>1. /\ Emit("expansion_requested", mission.ver) /\ mission' = mission /\ UNCHANGED decideIntent
        /\ mission.state = "active" /\ "expansion_requested" \in EventTypes
    BY <1>6 DEF RequestExpansion, EventTypes
  <2>2. MissionAdvances /\ RecordAdvances
    BY <1>1, <2>1 DEF MissionAdvances, RecordAdvances
  <2> QED BY <1>1, <1>3, <2>2, NoVerdictReceipt
<1>7. CASE DecideCallArrivesLate
  <2>1. /\ \/ UNCHANGED <<mission, requested>>
           \/ \E e \in Expansions, d \in Decisions : Decidable(e) /\ ApplyDecision(e, d)
    BY <1>7, LateDecisions
  <2>2. UNCHANGED decideIntent /\ log' = log
    BY <1>7 DEF DecideCallArrivesLate
  <2> QED BY <1>1, <1>3, <2>1, <2>2, AppliedRecord, NoVerdictReceipt
<1>8. ASSUME NEW e \in Expansions, ExpansionLapses(e) PROVE ReceiptOK'
  <2>1. /\ requested'[e].status = "expired" /\ requested[e].status = "pending"
        /\ \A x \in Expansions : x # e => requested'[x] = requested[x]
    BY <1>8, LapseDecisions
  <2>2. UNCHANGED decideIntent /\ log' = log /\ mission' = mission
    BY <1>8 DEF ExpansionLapses, missionVars
  <2>3. MissionAdvances /\ RecordAdvances
    BY <1>1, <2>1, <2>2 DEF MissionAdvances, RecordAdvances, Decided
  <2> QED BY <1>1, <1>3, <2>3, NoVerdictReceipt
<1> QED BY <1>4, <1>5, <1>6, <1>7, <1>8 DEF Authority

LEMMA RevokeReceipt ==
    ASSUME IInv, ReceiptOK, RevokeRequest \/ \E a \in Revokers \cup Workers : RevokeProgress(a)
    PROVE  ReceiptOK'
<1>1. /\ log \in Seq(Event) /\ mission \in MissionRow /\ pass \in PassRow
  BY DEF IInv, MissionOK, MissionTypeOK, MissionRow
<1>2. UNCHANGED expansionVars /\ UNCHANGED <<projectionVars, view>>
  BY DEF RevokeRequest, RevokeProgress
<1>3. MissionAdvances /\ (pass'.state = pass.state \/ pass'.state \notin Ended)
  <2>1. CASE UNCHANGED missionVars
    BY <2>1 DEF missionVars, MissionAdvances
  <2>2. CASE RevokeRequest
    BY <2>1, <2>2 DEF RevokeRequest, RevokeBegin, handleRevokeFinish, RevokeFinish, CLIStep,
                      Register, RequestExpires, Exchange, CLIEnds
  <2>3. ASSUME NEW a \in Revokers \cup Workers, RevokeProgress(a)
        PROVE  MissionAdvances /\ (pass'.state = pass.state \/ pass'.state \notin Ended)
    <3>1. CASE RevokeMissionAnswered(a) \/ RevokeMissionFailed(a)
      <4>1. pass' = pass
        BY <3>1 DEF RevokeMissionAnswered, RevokeMissionFailed
      <4>2. UNCHANGED <<mission, log>> \/ \E cont \in Answers : ApplyRevoke(cont)
        BY <3>1 DEF RevokeMissionAnswered, RevokeMissionFailed
      <4>3. MissionAdvances
        BY <1>1, <4>2, RevokedAdvances DEF MissionAdvances
      <4> QED BY <4>1, <4>3
    <3>2. CASE markRevokePending(a) \/ settleRevocation(a)
      <4>1. UNCHANGED <<mission, log>>
        BY <3>2 DEF markRevokePending, settleRevocation
      <4>2. pass'.state = pass.state \/ pass'.state = "revoked"
        BY <1>1, <3>2 DEF markRevokePending, settleRevocation, PassRow
      <4> QED BY <4>1, <4>2 DEF MissionAdvances, Ended
    <3>3. CASE ~ (RevokeMissionAnswered(a) \/ RevokeMissionFailed(a)
                  \/ markRevokePending(a) \/ settleRevocation(a))
      BY <2>1, <2>3, <3>3 DEF RevokeProgress, RevokerStep, RevokeLock, PutRevocationIntent,
                        ReconcileRevocation, ReadRevocationIntent, QueryRevocation,
                        QueryRevocationFailed, AnswerFinish, missionVars
    <3> QED BY <3>1, <3>2, <3>3
  <2> QED BY <2>2, <2>3
<1> QED BY <1>1, <1>2, <1>3, FrameRecord, FrameVerdict, NoVerdictReceipt

LEMMA DeciderReceipt ==
    ASSUME IInv, DecisionsOK, ReceiptOK, NEW a \in Deciding, DecideProgress(a)
    PROVE  ReceiptOK'
<1>1. /\ log \in Seq(Event) /\ BindingsOK /\ DeciderStep(a) /\ UNCHANGED <<projectionVars, view>>
  BY DEF IInv, MissionOK, MissionTypeOK, DecideProgress
<1>2. log' = log /\ pass'.state \in {pass.state, "running"}
  BY <1>1, DeciderSteps
<1>3. NoVerdict
  BY <1>1, <1>2, FrameVerdict DEF Ended
<1>4. MissionAdvances /\ RecordAdvances
  <2>1. CASE DecideExpansionAnswered(a) \/ DecideExpansionFailed(a)
    <3>1. \/ UNCHANGED <<mission, requested>>
          \/ \E e \in Expansions, d \in Decisions : Decidable(e) /\ ApplyDecision(e, d)
      BY <2>1, CallDecisions
    <3>2. UNCHANGED decideIntent
      BY <2>1 DEF DecideExpansionAnswered, DecideExpansionFailed
    <3> QED BY <1>2, <3>1, <3>2, AppliedRecord
  <2>2. CASE settleDecision(a)
    <3>1. UNCHANGED <<requested, mission>>
      BY <2>2 DEF settleDecision
    <3>2. \/ UNCHANGED decideIntent
          \/ \E e \in Expansions :
                /\ Decided(e) /\ decideIntent[e].state = "in_flight"
                /\ \A x \in Expansions : x # e => decideIntent'[x] = decideIntent[x]
      BY <1>1, <2>2, SettleDecisions
    <3> QED BY <1>2, <3>1, <3>2 DEF MissionAdvances, RecordAdvances, Decided
  <2>3. CASE PutExpansionIntent(a)
    <3>1. UNCHANGED <<requested, mission>>
      BY <2>3 DEF PutExpansionIntent, missionVars
    <3>2. \E e \in Expansions :
             /\ decideIntent[e].state = "none" /\ decideIntent'[e].state = "in_flight"
             /\ \A x \in Expansions : x # e => decideIntent'[x] = decideIntent[x]
      BY <1>1, <2>3, PutDecisions
    <3> QED BY <1>2, <3>1, <3>2 DEF MissionAdvances, RecordAdvances, Decided
  <2>4. CASE \/ SyncPut(a) \/ SyncResolve(a) \/ \E c \in DecideChallenges : BeginDecision(a, c)
             \/ DecideLock(a) \/ ReadExpansionIntent(a) \/ QueryExpansion(a)
             \/ QueryExpansionFailed(a) \/ markDecisionPending(a)
    <3>1. UNCHANGED <<mission, requested, decideIntent>>
      BY <2>4 DEF SyncPut, SyncResolve, BeginDecision, DecideLock, ReadExpansionIntent,
                  QueryExpansion, QueryExpansionFailed, markDecisionPending, missionVars
    <3> QED BY <1>2, <3>1 DEF MissionAdvances, RecordAdvances, Decided
  <2> QED BY <1>1, <2>1, <2>2, <2>3, <2>4 DEF DeciderStep
<1> QED BY <1>1, <1>3, <1>4, NoVerdictReceipt

LEMMA RequestReceipt ==
    ASSUME IInv, ReceiptOK, DecideRequest
    PROVE  ReceiptOK'
<1>1. /\ log \in Seq(Event) /\ UNCHANGED missionVars /\ UNCHANGED <<requested, decideIntent>>
      /\ UNCHANGED <<projectionVars, view>>
  BY DEF IInv, MissionOK, MissionTypeOK, DecideRequest, StartSync, FinishDecision
<1>2. pass' = pass /\ mission' = mission /\ log' = log
  BY <1>1 DEF missionVars
<1>3. MissionAdvances /\ RecordAdvances
  BY <1>1, <1>2 DEF MissionAdvances, RecordAdvances, Decided
<1> QED BY <1>1, <1>2, <1>3, FrameVerdict, NoVerdictReceipt

LEMMA SweepReceipt ==
    ASSUME IInv, ReceiptOK, NEW w \in Workers, Sweep(w)
    PROVE  ReceiptOK'
<1>1. log \in Seq(Event) /\ WorkOK /\ work \in [Workers -> Work]
  BY DEF IInv, MissionOK, MissionTypeOK, WorkOK, ProjectionTypeOK
<1>2. CASE VerifyReceipt(w)
  BY <1>2, VerifyReceiptStep
<1>3. CASE StoreVerdict(w)
  BY <1>3, StoreVerdictStep
<1>4. CASE ~VerifyReceipt(w) /\ ~StoreVerdict(w)
  <2>1. UNCHANGED <<mission, log, view, requested, decideIntent>>
    BY <1>4 DEF Sweep, ProjectionStep, StartPoll, ReadEvents, ReadEventsFailed, ApplyPage,
                NoReceipt, ReconcileRevocations, WorkerReconcilesRevocation,
                ListExpansionIntents, ReconcileExpansions, WorkerReconcilesExpansion, missionVars,
                expansionVars
  <2>2. MissionAdvances /\ RecordAdvances
    BY <2>1 DEF MissionAdvances, RecordAdvances, Decided
  <2>3. pass'.state = pass.state \/ pass'.state \notin Ended
    <3>1. CASE ApplyPage(w)
      <4> DEFINE from == work[w].from
                 to == work[w].to
      <4>1. CASE Applicable(from, to)
        <5>1. /\ MissionTypeOK /\ from \in Nat /\ to \in Nat /\ from =< to /\ to =< Len(log)
          BY <3>1 DEF IInv, MissionOK, WorkOK, ProjectionTypeOK, Work, ApplyPage
        <5>2. pass' = RowAfter(from, to) /\ RowAfter(from, to) # Refused
          BY <3>1, <4>1 DEF ApplyPage, Applicable
        <5>3. Follows(RowAfter(from, to), to)
          BY <5>1, <5>2, PageFollows
        <5> QED BY <5>2, <5>3 DEF Follows, EventMoves, Ended
      <4>2. CASE ~Applicable(from, to)
        BY <3>1, <4>2 DEF ApplyPage
      <4> QED BY <4>1, <4>2
    <3>2. CASE ~ApplyPage(w)
      <4>1. pass' = pass
        BY <1>4, <3>2
        DEF Sweep, ProjectionStep, StartPoll, ReadEvents, ReadEventsFailed, NoReceipt,
            ReconcileRevocations, WorkerReconcilesRevocation, ListExpansionIntents,
            ReconcileExpansions, WorkerReconcilesExpansion, missionVars
      <4> QED BY <4>1
    <3> QED BY <3>1, <3>2
  <2>4. \A v \in Workers : work'[v].phase = "verdict" => work'[v] = work[v]
    <3>1. CASE work' = work
      BY <3>1
    <3>2. ASSUME NEW phase \in Phases \ {"apply", "verdict"}, Phase(w, phase)
          PROVE  \A v \in Workers : work'[v].phase = "verdict" => work'[v] = work[v]
      BY <1>1, <3>2, PhaseMoves
    <3>3. CASE ReadEvents(w)
      <4>1. PICK to : work' = [work EXCEPT ![w].phase = "apply",
                                           ![w].from = proj.cursor, ![w].to = to]
        BY <3>3 DEF ReadEvents
      <4> DEFINE r == [work[w] EXCEPT !.phase = "apply", !.from = proj.cursor, !.to = to]
      <4>2. r.phase = "apply"
        BY <1>1 DEF Work
      <4>3. work' = [work EXCEPT ![w] = r]
        BY <4>1
      <4> HIDE DEF r
      <4> QED BY <1>1, <4>2, <4>3
    <3>4. \/ work' = work \/ ReadEvents(w)
          \/ \E phase \in Phases \ {"apply", "verdict"} : Phase(w, phase)
      BY <1>4 DEF Sweep, ProjectionStep, StartPoll, ReadEventsFailed, ApplyPage, NoReceipt,
                  ReconcileRevocations, ListExpansionIntents, ReconcileExpansions, Phases
    <3> QED BY <3>1, <3>2, <3>3, <3>4
  <2>5. NoVerdict
    BY <2>1, <2>3, <2>4 DEF NoVerdict
  <2> QED BY <1>1, <2>2, <2>5, NoVerdictReceipt
<1> QED BY <1>2, <1>3, <1>4

LEMMA NextReceipt == IInv /\ DecisionsOK /\ ReceiptOK /\ [Next]_vars => ReceiptOK'
<1> SUFFICES ASSUME IInv, DecisionsOK, ReceiptOK, [Next]_vars PROVE ReceiptOK'
  OBVIOUS
<1>1. CASE Authority
  BY <1>1, AuthorityReceipt
<1>2. CASE RevokeRequest \/ \E a \in Revokers \cup Workers : RevokeProgress(a)
  BY <1>2, RevokeReceipt
<1>3. CASE DecideRequest
  BY <1>3, RequestReceipt
<1>4. CASE \E a \in Deciders \cup Workers : DecideProgress(a)
  BY <1>4, DeciderReceipt DEF Deciding
<1>5. CASE \E w \in Workers : Sweep(w)
  BY <1>5, SweepReceipt
<1>6. CASE Crash \/ UNCHANGED vars
  <2>1. /\ UNCHANGED <<mission, log, pass, view, requested, decideIntent>> /\ log \in Seq(Event)
    BY <1>6 DEF Crash, vars, missionVars, expansionVars, IInv, MissionOK, MissionTypeOK
  <2>2. \A w \in Workers : work'[w].phase = "verdict" => work'[w] = work[w]
    BY <1>6 DEF Crash, vars, projectionVars, Resting
  <2>3. MissionAdvances /\ RecordAdvances
    BY <2>1 DEF MissionAdvances, RecordAdvances, Decided
  <2>4. NoVerdict
    BY <2>1, <2>2 DEF NoVerdict
  <2> QED BY <2>1, <2>3, <2>4, NoVerdictReceipt
<1> QED BY <1>1, <1>2, <1>3, <1>4, <1>5, <1>6 DEF Next

LEMMA InitReceipt == Init => ReceiptOK
<1> SUFFICES ASSUME Init PROVE ReceiptOK
  OBVIOUS
<1>1. /\ log = <<[type |-> "mission_started", ver |-> 1]>> /\ mission.state = "active"
      /\ mission.receipt = FALSE /\ view = "none" /\ pass.state = "running"
      /\ \A w \in Workers : work[w] = Resting
  BY DEF Init, MissionInit, ProjectionInit
<1>2. \A n \in 1 .. Len(log) : ~RunOutcome(n)
  BY <1>1 DEF RunOutcome
<1>3. OutcomesOK
  BY <1>1, <1>2 DEF OutcomesOK
<1>4. VerdictsOK
  BY <1>1 DEF VerdictsOK, EndedPassAgrees, Resting
<1> QED BY <1>3, <1>4 DEF ReceiptOK

(* A verified receipt finds, and leaves, the record complete in every      *)
(* reachable state (VerifyReceipt, checkBinding).                          *)
THEOREM ReceiptHolds == Spec => []ReceiptOK
  BY InitReceipt, NextReceipt, DecisionsHold, InvariantHolds, PTL DEF Spec

(* A pass that is completed or failed has a verified receipt, shows the    *)
(* outcome of the run and records every decision of the authority: no      *)
(* late call, event or settlement changes what was signed (VerifyReceipt). *)
THEOREM EndedPassHasReceipt == Spec => []EndedPassAgrees
  <1>1. ReceiptOK => EndedPassAgrees
    BY DEF ReceiptOK, VerdictsOK
  <1> QED BY <1>1, ReceiptHolds, PTL

=============================================================================
