-------------------------- MODULE MissionRunProofs --------------------------
(***************************************************************************)
(* Proofs about a running mission, for any number of requests, workers,    *)
(* ceremonies, expansions, command runs, events and crashes: the           *)
(* revocation is issued once, what the row and the revoke command say of   *)
(* it is true, and without expansions the row follows the transition       *)
(* table.                                                                  *)
(***************************************************************************)
EXTENDS MissionRun, NaturalsInduction, WellFoundedInduction, TLAPS

-----------------------------------------------------------------------------
(* The row after a page of events.                                         *)

(* A set of natural numbers with a member has a least one.                 *)
LEMMA LeastMember ==
    ASSUME NEW S \in SUBSET Nat, S # {}
    PROVE  \E k \in S : \A j \in S : k =< j
<1> DEFINE R == OpToRel(<, Nat)
<1>1. \E x \in S : \A y \in S : ~ (<<y, x>> \in R)
  BY NatLessThanWellFounded, WFMin
<1>2. \A x, y \in Nat : y < x => <<y, x>> \in R
  BY DEF OpToRel
<1> HIDE DEF R
<1>3. PICK k \in S : \A y \in S : ~ (<<y, k>> \in R)
  BY <1>1
<1>4. \A y \in S : ~ (y < k)
  BY <1>2, <1>3
<1>5. k \in Nat /\ \A y \in S : y \in Nat
  OBVIOUS
<1>6. \A y \in S : k =< y
  BY <1>4, <1>5
<1> QED BY <1>6

Rows == PassRow \cup {Refused}

(* Where events may take a row that is in state s.                         *)
EventMoves(s) ==
    passTransitions[s] \cap {"awaiting_expansion", "outcome_pending", "revoked", "expired"}

(* What a row may have become by events among the first m of the log.      *)
Follows(p, m) ==
    /\ p \in PassRow
    /\ p.mver = pass.mver
    /\ p.cont = pass.cont
    /\ p.state = pass.state \/ p.state \in EventMoves(pass.state)
    /\ p.state = "revoked" =>
          \/ pass.state = "revoked"
          \/ \E n \in 1 .. m : log[n].type = "mission_revoked"

StepRow(p, n) ==
    IF p = Refused \/ n =< proj.cursor THEN p ELSE applyEventEffect(p, log[n].type)

(* movePass and applyEventEffect move the state and the reconciliation of  *)
(* a row and nothing else.                                                 *)
LEMMA MoveEffect ==
    ASSUME NEW p \in PassRow,
           NEW to \in {"awaiting_expansion", "outcome_pending", "revoked", "expired"},
           movePass(p, to) # Refused
    PROVE  /\ movePass(p, to) \in PassRow
           /\ movePass(p, to).mver = p.mver
           /\ movePass(p, to).cont = p.cont
           /\ \/ movePass(p, to).state = p.state
              \/ /\ movePass(p, to).state \in EventMoves(p.state)
                 /\ movePass(p, to).state = to
<1>1. CASE p.state = to \/ isTerminalPassState(p.state)
  BY <1>1 DEF movePass
<1>2. CASE ~ (p.state = to \/ isTerminalPassState(p.state))
  <2> DEFINE q == [p EXCEPT !.state = to,
                            !.recon = IF to = "outcome_pending" THEN "settled" ELSE @]
  <2>1. movePass(p, to) = q /\ to \in passTransitions[p.state]
    BY <1>2 DEF movePass, Transition
  <2>2. q \in PassRow /\ q.mver = p.mver /\ q.cont = p.cont /\ q.state = to
    BY DEF PassRow, PassState, ReconciliationState
  <2> QED BY <2>1, <2>2 DEF EventMoves
<1> QED BY <1>1, <1>2

LEMMA EventEffect ==
    ASSUME NEW p \in PassRow, NEW type \in EventTypes, applyEventEffect(p, type) # Refused
    PROVE  LET q == applyEventEffect(p, type) IN
           /\ q \in PassRow
           /\ q.mver = p.mver
           /\ q.cont = p.cont
           /\ q.state = p.state \/ q.state \in EventMoves(p.state)
           /\ q.state = "revoked" => p.state = "revoked" \/ type = "mission_revoked"
<1>1. \/ applyEventEffect(p, type) = p
      \/ applyEventEffect(p, type) = applyReceipt(p)
      \/ applyEventEffect(p, type) = movePass(p, "awaiting_expansion")
      \/ applyEventEffect(p, type) = movePass(p, "outcome_pending")
      \/ applyEventEffect(p, type) = movePass(p, "expired")
      \/ type = "mission_revoked" /\ applyEventEffect(p, type) = movePass(p, "revoked")
  BY Zenon DEF applyEventEffect
<1>2. applyReceipt(p) = p \/ applyReceipt(p) = Refused
  BY DEF applyReceipt
<1>3. CASE applyEventEffect(p, type) = p
  BY <1>3
<1>4. CASE applyEventEffect(p, type) = movePass(p, "awaiting_expansion")
  BY <1>4, MoveEffect
<1>5. CASE applyEventEffect(p, type) = movePass(p, "outcome_pending")
  BY <1>5, MoveEffect
<1>6. CASE applyEventEffect(p, type) = movePass(p, "expired")
  BY <1>6, MoveEffect
<1>7. CASE type = "mission_revoked" /\ applyEventEffect(p, type) = movePass(p, "revoked")
  BY <1>7, MoveEffect
<1> QED BY <1>1, <1>2, <1>3, <1>4, <1>5, <1>6, <1>7

(* Moves by events compose to a move by events.                            *)
LEMMA MovesCompose ==
    ASSUME NEW s \in PassState, NEW t \in PassState, NEW u \in PassState,
           t = s \/ t \in EventMoves(s), u = t \/ u \in EventMoves(t)
    PROVE  u = s \/ u \in EventMoves(s)
  BY DEF EventMoves, passTransitions, PassState

LEMMA StepFollows ==
    ASSUME MissionTypeOK, NEW n \in 1 .. Len(log), NEW p,
           p = Refused \/ Follows(p, n - 1)
    PROVE  StepRow(p, n) = Refused \/ Follows(StepRow(p, n), n)
<1>1. \A k \in 1 .. n - 1 : k \in 1 .. n
  BY DEF MissionTypeOK
<1>2. Follows(p, n - 1) => Follows(p, n)
  BY <1>1 DEF Follows
<1>3. CASE p = Refused \/ n =< proj.cursor
  BY <1>2, <1>3 DEF StepRow
<1>4. CASE ~ (p = Refused \/ n =< proj.cursor)
  <2> DEFINE q == applyEventEffect(p, log[n].type)
  <2>1. StepRow(p, n) = q
    BY <1>4 DEF StepRow
  <2>2. p \in PassRow /\ log[n].type \in EventTypes /\ pass \in PassRow /\ n \in 1 .. n
    <3>1. log[n] \in Event
      BY DEF MissionTypeOK
    <3>2. n \in 1 .. n
      BY DEF MissionTypeOK
    <3> QED BY <1>4, <3>1, <3>2 DEF Follows, MissionTypeOK, Event
  <2>3. CASE q # Refused
    <3>1. /\ q \in PassRow /\ q.mver = p.mver /\ q.cont = p.cont
          /\ q.state = p.state \/ q.state \in EventMoves(p.state)
          /\ q.state = "revoked" => p.state = "revoked" \/ log[n].type = "mission_revoked"
      BY <2>2, <2>3, EventEffect
    <3> HIDE DEF q
    <3>2. q.state = pass.state \/ q.state \in EventMoves(pass.state)
      <4>1. q.state \in PassState /\ p.state \in PassState /\ pass.state \in PassState
        BY <2>2, <3>1 DEF PassRow
      <4> QED BY <1>4, <3>1, <4>1, MovesCompose DEF Follows
    <3>3. Follows(q, n)
      BY <1>1, <1>4, <2>2, <3>1, <3>2 DEF Follows
    <3> QED BY <2>1, <3>3
  <2> QED BY <2>1, <2>3
<1> QED BY <1>3, <1>4

(* The rows after the first events of a page exist, up to every point of   *)
(* it: a least point without them could be reached from the one before.    *)
PageRows(f, from, m) ==
    /\ f \in [from .. m -> Rows]
    /\ f[from] = pass
    /\ \A n \in from + 1 .. m : f[n] = StepRow(f[n - 1], n)
    /\ \A n \in from .. m : f[n] = Refused \/ Follows(f[n], n)

LEMMA RowsExist ==
    ASSUME MissionTypeOK, NEW from \in Nat, NEW to \in Nat, from =< to, to =< Len(log)
    PROVE  \E f : PageRows(f, from, to)
<1> DEFINE Missing == {m \in from .. to : ~ \E f : PageRows(f, from, m)}
<1> SUFFICES ASSUME Missing # {} PROVE FALSE
  OBVIOUS
<1>1. PICK m \in Missing : \A j \in Missing : m =< j
  <2>1. Missing \in SUBSET Nat
    OBVIOUS
  <2> QED BY <2>1, LeastMember
<1>2. m \in from .. to /\ m \in Nat /\ ~ \E f : PageRows(f, from, m)
  OBVIOUS
<1>3. Follows(pass, from) /\ pass \in Rows
  BY DEF Follows, MissionTypeOK, Rows
<1>4. CASE m = from
  <2> DEFINE f == [n \in from .. from |-> pass]
  <2>1. \A n \in from .. from : n = from
    OBVIOUS
  <2>2. from + 1 .. from = {}
    OBVIOUS
  <2>3. f \in [from .. from -> Rows] /\ \A n \in from .. from : f[n] = pass
    BY <1>3
  <2>4. from \in from .. from
    OBVIOUS
  <2> HIDE DEF f
  <2>5. PageRows(f, from, from)
    BY <1>3, <2>1, <2>2, <2>3, <2>4 DEF PageRows
  <2> QED BY <1>2, <1>4, <2>5
<1>5. CASE m # from
  <2>1. m - 1 \in from .. to /\ ~ (m =< m - 1)
    BY <1>2, <1>5
  <2>2. PICK g : PageRows(g, from, m - 1)
    BY <1>1, <2>1
  <2> DEFINE f == [n \in from .. m |-> IF n = m THEN StepRow(g[m - 1], m) ELSE g[n]]
  <2>3. /\ m - 1 \in from .. m - 1 /\ m \in 1 .. Len(log) /\ m \in from .. m
        /\ \A n \in from .. m : n = m \/ (n # m /\ n \in from .. m - 1)
        /\ \A n \in from + 1 .. m : n - 1 \in from .. m - 1 /\ n - 1 # m /\ n - 1 \in from .. m
        /\ \A n \in from + 1 .. m : n = m \/ (n # m /\ n \in from + 1 .. m - 1)
        /\ \A n \in from + 1 .. m : n \in from .. m
        /\ from \in from .. m
    BY <1>2, <1>5 DEF MissionTypeOK
  <2>4. f[m] = StepRow(g[m - 1], m) /\ \A n \in from .. m - 1 : f[n] = g[n]
    BY <1>2, <2>3
  <2>5. DOMAIN f = from .. m /\ f = [n \in from .. m |-> f[n]]
    OBVIOUS
  <2> HIDE DEF f
  <2>6. f[m] = Refused \/ Follows(f[m], m)
    BY <2>2, <2>3, <2>4, StepFollows DEF PageRows
  <2>7. \A n \in from .. m : f[n] = Refused \/ Follows(f[n], n)
    BY <2>2, <2>3, <2>4, <2>6 DEF PageRows
  <2>8. f \in [from .. m -> Rows]
    <3>1. \A n \in from .. m : f[n] \in Rows
      BY <2>7 DEF Follows, Rows
    <3> QED BY <2>5, <3>1
  <2>9. \A n \in from + 1 .. m : f[n] = StepRow(f[n - 1], n)
    BY <2>2, <2>3, <2>4 DEF PageRows
  <2>10. f[from] = pass
    BY <1>2, <1>5, <2>2, <2>3, <2>4 DEF PageRows
  <2>11. PageRows(f, from, m)
    BY <2>7, <2>8, <2>9, <2>10 DEF PageRows
  <2> QED BY <1>2, <2>11
<1> QED BY <1>4, <1>5

(* A page that is applied moves the row as its events allow.               *)
LEMMA PageFollows ==
    ASSUME MissionTypeOK, NEW from \in Nat, NEW to \in Nat, from =< to, to =< Len(log),
           RowAfter(from, to) # Refused
    PROVE  Follows(RowAfter(from, to), to)
<1> DEFINE Next1(f) == [n \in from .. to |->
               IF n = from THEN pass
               ELSE IF f[n - 1] = Refused \/ n =< proj.cursor THEN f[n - 1]
               ELSE applyEventEffect(f[n - 1], log[n].type)]
           r == CHOOSE f : f = Next1(f)
<1>1. PICK f : PageRows(f, from, to)
  BY RowsExist
<1>2. f = Next1(f)
  <2>1. DOMAIN f = from .. to /\ f = [n \in from .. to |-> f[n]]
    BY <1>1 DEF PageRows
  <2>2. \A n \in from .. to : n = from \/ (n # from /\ n \in from + 1 .. to)
    OBVIOUS
  <2>3. \A n \in from .. to : f[n] = Next1(f)[n]
    BY <1>1, <2>2 DEF PageRows, StepRow
  <2> QED BY <2>1, <2>3
<1>3. r = Next1(r)
  BY <1>2
<1>4. RowAfter(from, to) = r[to]
  BY DEF RowAfter
<1> DEFINE Differ == {n \in from .. to : r[n] # f[n]}
<1>5. ASSUME Differ # {} PROVE FALSE
  <2>1. Differ \in SUBSET Nat
    OBVIOUS
  <2>2. PICK m \in Differ : \A j \in Differ : m =< j
    BY <1>5, <2>1, LeastMember
  <2>3. m \in from .. to /\ r[m] # f[m]
    OBVIOUS
  <2>4. m # from => m - 1 \in from .. to /\ ~ (m =< m - 1)
    BY <2>3
  <2>5. m # from => r[m - 1] = f[m - 1]
    BY <2>2, <2>4
  <2>6. r[m] = Next1(r)[m] /\ f[m] = Next1(f)[m]
    BY <1>2, <1>3
  <2> HIDE DEF r
  <2>7. Next1(r)[m] = Next1(f)[m]
    BY <2>3, <2>5
  <2> QED BY <2>3, <2>6, <2>7
<1> HIDE DEF r
<1>6. to \in from .. to
  OBVIOUS
<1>7. r[to] = f[to]
  BY <1>5, <1>6
<1> QED BY <1>1, <1>4, <1>6, <1>7 DEF PageRows

-----------------------------------------------------------------------------
(* The inductive invariant.                                                *)

(* The authority: it acknowledges a containment, and logs a revocation,    *)
(* only of a mission it revoked.                                           *)
MissionOK ==
    /\ MissionTypeOK
    /\ mission.cont = "acknowledged" => mission.state = "revoked"
    /\ \A n \in 1 .. Len(log) : log[n].type = "mission_revoked" => mission.state = "revoked"

RowOK ==
    /\ pass.cont = "acknowledged" => mission.cont = "acknowledged"
    /\ pass.state = "revoked" => mission.state = "revoked"

(* The worker: the page it holds is a part of the log.                     *)
WorkOK ==
    /\ ProjectionTypeOK
    /\ view \in Verdicts
    /\ todo \in [Workers -> SUBSET Expansions]
    /\ crashes \in 0 .. MaxCrashes
    /\ \A w \in Workers : work[w].phase = "apply" =>
          work[w].from =< work[w].to /\ work[w].to =< Len(log)

(* A containment somebody holds is one the authority stands for.           *)
Truthful(cont) ==
    cont # "none" =>
        /\ revokeIntent.state # "none"
        /\ cont = "acknowledged" => mission.cont = "acknowledged"
        /\ cont = "partial" => mission.state = "revoked"

IntentTrue == Truthful(revokeIntent.cont)

Issuing(a) == revokeReq[a].pc \in {"put", "call"}

RevokeReqOK(a) ==
    LET q == revokeReq[a] IN
    /\ q.pc \in {"lock", "put", "call"} => a \in Revokers
    /\ q.pc = "put" => revokeIntent.state = "none"
    /\ q.pc = "call" => revokeCalls = 0
    /\ q.pc \in {"call", "mark", "query", "settle"} => revokeIntent.state # "none"
    /\ q.pc = "settle" => /\ q.cont \in Containment
                          /\ mission.state = "revoked"
                          /\ Truthful(q.cont)
    /\ q.pc = "answer" /\ q.cont \notin {"error", "null"} => Truthful(resultContainment(q.cont))

(* Revocation: one request at most is between the mutex and the call, and  *)
(* it finds no call made before.                                           *)
RevokeOK ==
    /\ RevocationTypeOK
    /\ \A a \in Revokers \cup Workers : RevokeReqOK(a)
    /\ \A a, b \in Revokers : Issuing(a) /\ Issuing(b) => a = b
    /\ revokeIntent.state = "none" => revokeCalls = 0
    /\ revokeCalls =< 1
    /\ IntentTrue

CliOK ==
    /\ CLIRevocationTypeOK
    /\ \A c \in CLIs : Truthful(cliRow[c].result) /\ Truthful(cli[c].report)

(* Expansions: what is decided has a name and a decision.                  *)
Decides(b) == b.exp \in Expansions /\ b.decision \in Decisions

BegunOK ==
    \A c \in DecideChallenges :
        decideBegun[c] \in {NoBinding, UsedBinding} \/ Decides(decideBegun[c])

IntentsOK ==
    \A e \in Expansions : decideIntent[e].state # "none" =>
        decideIntent[e].binding.exp = e /\ Decides(decideIntent[e].binding)

DecideReqOK(a) ==
    LET q == decideReq[a] IN
    /\ q.pc \in {"sync_put", "sync_resolve"} => q.binding = NoBinding \/ Decides(q.binding)
    /\ q.pc \in {"begin", "lock", "put", "call", "mark", "query", "settle"} => Decides(q.binding)
    /\ q.pc = "reconcile" => q.binding.exp \in Expansions

BindingsOK ==
    /\ ExpansionTypeOK
    /\ BegunOK
    /\ IntentsOK
    /\ \A a \in Deciders \cup Workers : DecideReqOK(a)

IInv == MissionOK /\ RowOK /\ WorkOK /\ RevokeOK /\ CliOK /\ BindingsOK

-----------------------------------------------------------------------------
(* What a step leaves true because the authority only moves forward.       *)

Forward ==
    /\ mission.state = "revoked" => mission'.state = "revoked"
    /\ mission.cont = "acknowledged" => mission'.cont = "acknowledged"

LEMMA MissionStable ==
    ASSUME MissionOK, UNCHANGED <<mission, log>>, pass' \in PassRow
    PROVE  MissionOK' /\ Forward
  BY DEF MissionOK, MissionTypeOK, Forward

LEMMA RowStable ==
    ASSUME RowOK, Forward, pass'.cont = pass.cont \/ pass'.cont # "acknowledged",
           pass'.state = pass.state \/ pass'.state # "revoked"
    PROVE  RowOK'
  BY DEF RowOK, Forward

LEMMA WorkStable ==
    ASSUME WorkOK, UNCHANGED <<proj, work, view, todo, crashes>>, log \in Seq(Event),
           log' \in Seq(Event), Len(log) =< Len(log')
    PROVE  WorkOK'
<1>1. ProjectionTypeOK'
  <2>1. proj.cursor \in 0 .. Len(log')
    BY DEF WorkOK, ProjectionTypeOK
  <2> QED BY <2>1 DEF WorkOK, ProjectionTypeOK
<1>2. \A w \in Workers : work[w].phase = "apply" =>
          work[w].from =< work[w].to /\ work[w].to =< Len(log')
  BY DEF WorkOK, ProjectionTypeOK, Work
<1> QED BY <1>1, <1>2 DEF WorkOK

LEMMA TruthfulStable ==
    ASSUME Forward, revokeIntent.state # "none" => revokeIntent'.state # "none",
           NEW cont, Truthful(cont)
    PROVE  Truthful(cont)'
  BY DEF Truthful, Forward

LEMMA RevokeStable ==
    ASSUME RevokeOK, Forward, UNCHANGED <<revokeIntent, revokeReq, revokeCalls>>,
           revokeBegun' \in [RevokeChallenges -> RevokeDigest], revokeLate' \in BOOLEAN
    PROVE  RevokeOK'
<1>1. \A a \in Revokers \cup Workers : RevokeReqOK(a)'
  <2> TAKE a \in Revokers \cup Workers
  <2>1. RevokeReqOK(a)
    BY DEF RevokeOK
  <2> QED BY <2>1 DEF RevokeReqOK, Truthful, Forward
<1>2. RevocationTypeOK'
  BY DEF RevokeOK, RevocationTypeOK
<1>3. IntentTrue'
  BY DEF RevokeOK, IntentTrue, Truthful, Forward
<1> QED BY <1>1, <1>2, <1>3 DEF RevokeOK, Issuing

LEMMA CliStable ==
    ASSUME CliOK, Forward, UNCHANGED <<cliRow, cli>>, serves' \in [Revokers -> CLIs \cup {NoCLI}],
           revokeIntent.state # "none" => revokeIntent'.state # "none"
    PROVE  CliOK'
<1>1. CLIRevocationTypeOK'
  BY DEF CliOK, CLIRevocationTypeOK
<1>2. \A c \in CLIs : Truthful(cliRow[c].result)' /\ Truthful(cli[c].report)'
  BY DEF CliOK, Truthful, Forward
<1> QED BY <1>1, <1>2 DEF CliOK

LEMMA BindingsStable ==
    ASSUME BindingsOK, UNCHANGED expansionVars
    PROVE  BindingsOK'
  BY DEF BindingsOK, BegunOK, IntentsOK, DecideReqOK, ExpansionTypeOK, expansionVars

(* The step of one revoking request leaves what the others rely on.        *)
LEMMA OtherRevokers ==
    ASSUME RevokeOK, Forward, NEW a \in Revokers \cup Workers,
           NEW b \in Revokers \cup Workers, b # a,
           revokeReq'[b] = revokeReq[b],
           revokeIntent.state # "none" => revokeIntent'.state # "none",
           revokeIntent.state = "none" /\ revokeIntent'.state # "none" => a \in Revokers /\ Issuing(a),
           revokeCalls' # revokeCalls => a \in Revokers /\ Issuing(a)
    PROVE  RevokeReqOK(b)'
<1>1. RevokeReqOK(b) /\ RevokeReqOK(a)
  BY DEF RevokeOK
<1>2. a \in Revokers /\ Issuing(a) => ~ Issuing(b)
  BY <1>1 DEF RevokeOK, RevokeReqOK, Issuing
<1> QED BY <1>1, <1>2 DEF RevokeReqOK, Truthful, Forward, Issuing, resultContainment

-----------------------------------------------------------------------------
(* The authority moves.                                                    *)

MissionRow == [state : {"active", "ended", "expired", "revoked"}, ver : Nat,
               cont : Answers \cup {"none"}, receipt : BOOLEAN]

LEMMA Emitted ==
    ASSUME log \in Seq(Event), NEW type \in EventTypes, NEW ver \in Nat, Emit(type, ver)
    PROVE  /\ log' \in Seq(Event)
           /\ Len(log') = Len(log) + 1
           /\ \A n \in 1 .. Len(log) : log'[n] = log[n]
           /\ log'[Len(log) + 1] = [type |-> type, ver |-> ver]
<1> DEFINE event == [type |-> type, ver |-> ver]
<1>1. event \in Event
  BY DEF Event
<1>2. log' = Append(log, event)
  BY DEF Emit
<1> HIDE DEF event
<1>3. /\ log' \in Seq(Event)
      /\ Len(log') = Len(log) + 1
      /\ \A n \in 1 .. Len(log) : log'[n] = log[n]
      /\ log'[Len(log) + 1] = event
  BY <1>1, <1>2
<1> QED BY <1>3 DEF event

(* Only a revocation of the mission is logged as one.                      *)
LEMMA AuthorityLogs ==
    ASSUME MissionOK, NEW type \in EventTypes, NEW ver \in Nat, Emit(type, ver),
           pass' \in PassRow, mission' \in MissionRow, Forward,
           mission'.cont = "acknowledged" => mission'.state = "revoked",
           type = "mission_revoked" => mission'.state = "revoked"
    PROVE  MissionOK' /\ log \in Seq(Event) /\ log' \in Seq(Event) /\ Len(log) =< Len(log')
<1>1. log \in Seq(Event)
  BY DEF MissionOK, MissionTypeOK
<1>2. /\ log' \in Seq(Event)
      /\ Len(log') = Len(log) + 1
      /\ \A n \in 1 .. Len(log) : log'[n] = log[n]
      /\ log'[Len(log) + 1] = [type |-> type, ver |-> ver]
  BY <1>1, Emitted
<1>3. ASSUME NEW n \in 1 .. Len(log'), log'[n].type = "mission_revoked"
      PROVE  mission'.state = "revoked"
  <2>1. CASE n \in 1 .. Len(log)
    BY <1>2, <1>3, <2>1 DEF MissionOK, Forward
  <2>2. CASE n = Len(log) + 1
    BY <1>2, <1>3, <2>2
  <2>3. n \in 1 .. Len(log) \/ n = Len(log) + 1
    BY <1>1, <1>2
  <2> QED BY <2>1, <2>2, <2>3
<1>4. MissionOK'
  BY <1>2, <1>3 DEF MissionOK, MissionTypeOK, MissionRow
<1>5. Len(log) =< Len(log')
  BY <1>1, <1>2
<1> QED BY <1>1, <1>2, <1>4, <1>5

(* The four moves of the mission, as the records they leave.               *)
LEMMA MissionMoves ==
    ASSUME mission \in MissionRow
    PROVE  /\ \A s \in {"ended", "expired"} : mission' = [mission EXCEPT !.state = s] =>
                 /\ mission' \in MissionRow
                 /\ mission'.state = s
                 /\ mission'.cont = mission.cont /\ mission'.ver = mission.ver
           /\ mission' = [mission EXCEPT !.receipt = TRUE] =>
                 /\ mission' \in MissionRow
                 /\ mission'.state = mission.state
                 /\ mission'.cont = mission.cont /\ mission'.ver = mission.ver
           /\ mission' = [mission EXCEPT !.ver = @ + 1] =>
                 /\ mission' \in MissionRow
                 /\ mission'.state = mission.state
                 /\ mission'.cont = mission.cont /\ mission'.ver = mission.ver + 1
           /\ \A c \in Answers :
                 mission' = [mission EXCEPT !.state = "revoked", !.ver = @ + 1, !.cont = c] =>
                 /\ mission' \in MissionRow
                 /\ mission'.state = "revoked"
                 /\ mission'.cont = c /\ mission'.ver = mission.ver + 1
<1>1. ASSUME NEW s \in {"ended", "expired"}, mission' = [mission EXCEPT !.state = s]
      PROVE  /\ mission' \in MissionRow /\ mission'.state = s
             /\ mission'.cont = mission.cont /\ mission'.ver = mission.ver
  BY <1>1 DEF MissionRow
<1>2. ASSUME mission' = [mission EXCEPT !.receipt = TRUE]
      PROVE  /\ mission' \in MissionRow /\ mission'.state = mission.state
             /\ mission'.cont = mission.cont /\ mission'.ver = mission.ver
  BY <1>2 DEF MissionRow
<1>3. ASSUME mission' = [mission EXCEPT !.ver = @ + 1]
      PROVE  /\ mission' \in MissionRow /\ mission'.state = mission.state
             /\ mission'.cont = mission.cont /\ mission'.ver = mission.ver + 1
  BY <1>3 DEF MissionRow
<1>4. ASSUME NEW c \in Answers,
             mission' = [mission EXCEPT !.state = "revoked", !.ver = @ + 1, !.cont = c]
      PROVE  /\ mission' \in MissionRow /\ mission'.state = "revoked"
             /\ mission'.cont = c /\ mission'.ver = mission.ver + 1
  <2>1. mission' = [state |-> "revoked", ver |-> mission.ver + 1, cont |-> c,
                    receipt |-> mission.receipt]
    BY <1>4 DEF MissionRow
  <2>2. mission.ver + 1 \in Nat /\ mission.receipt \in BOOLEAN /\ c \in Answers \cup {"none"}
    BY DEF MissionRow
  <2>3. mission'.state = "revoked" /\ mission'.cont = c /\ mission'.ver = mission.ver + 1
    BY <2>1
  <2>4. mission' \in MissionRow
    BY <2>1, <2>2 DEF MissionRow
  <2> QED BY <2>3, <2>4
<1> QED BY <1>1, <1>2, <1>3, <1>4

LEMMA RunnerMoves ==
    ASSUME MissionOK, RunnerStep
    PROVE  /\ MissionOK' /\ Forward /\ UNCHANGED pass
           /\ log \in Seq(Event) /\ log' \in Seq(Event) /\ Len(log) =< Len(log')
<1>1. mission \in MissionRow /\ mission.ver \in Nat /\ pass \in PassRow
  BY DEF MissionOK, MissionTypeOK, MissionRow
<1>2. CASE ActionChecked
  <2>1. UNCHANGED <<pass, mission>> /\ Emit("action_checked", mission.ver) /\ Forward
    BY <1>2 DEF ActionChecked, Forward
  <2>2. "action_checked" \in EventTypes
    BY DEF EventTypes
  <2>3. mission.cont = "acknowledged" => mission.state = "revoked"
    BY DEF MissionOK
  <2> QED BY <1>1, <2>1, <2>2, <2>3, AuthorityLogs
<1>3. CASE RunEnds
  <2>1. PICK type \in {"run_succeeded", "run_failed"} : Emit(type, mission.ver)
    BY <1>3 DEF RunEnds
  <2>2. UNCHANGED pass /\ mission' = [mission EXCEPT !.state = "ended"] /\ mission.state = "active"
    BY <1>3 DEF RunEnds
  <2>3. mission' \in MissionRow /\ mission'.cont = mission.cont
    BY <1>1, <2>2, MissionMoves
  <2>4. mission.cont # "acknowledged" /\ Forward
    BY <2>2, <2>3 DEF MissionOK, Forward
  <2>5. type \in EventTypes /\ type # "mission_revoked"
    BY DEF EventTypes
  <2> QED BY <1>1, <2>1, <2>2, <2>3, <2>4, <2>5, AuthorityLogs
<1>4. CASE ReceiptReady
  <2>1. /\ UNCHANGED pass /\ Emit("receipt_ready", mission.ver)
        /\ mission' = [mission EXCEPT !.receipt = TRUE]
    BY <1>4 DEF ReceiptReady
  <2>2. mission' \in MissionRow /\ mission'.state = mission.state /\ mission'.cont = mission.cont
    BY <1>1, <2>1, MissionMoves
  <2>3. Forward /\ (mission'.cont = "acknowledged" => mission'.state = "revoked")
    BY <2>2 DEF MissionOK, Forward
  <2>4. "receipt_ready" \in EventTypes
    BY DEF EventTypes
  <2> QED BY <1>1, <2>1, <2>2, <2>3, <2>4, AuthorityLogs
<1>5. CASE MissionExpires
  <2>1. /\ UNCHANGED pass /\ mission' = [mission EXCEPT !.state = "expired"]
        /\ mission.state = "active" /\ Emit("mission_expired", mission.ver)
    BY <1>5 DEF MissionExpires
  <2>2. mission' \in MissionRow /\ mission'.cont = mission.cont
    BY <1>1, <2>1, MissionMoves
  <2>3. mission.cont # "acknowledged" /\ Forward
    BY <2>1, <2>2 DEF MissionOK, Forward
  <2>4. "mission_expired" \in EventTypes
    BY DEF EventTypes
  <2> QED BY <1>1, <2>1, <2>2, <2>3, <2>4, AuthorityLogs
<1> QED BY <1>2, <1>3, <1>4, <1>5 DEF RunnerStep

(* A mission is revoked once, and a revoked one keeps its containment.     *)
LEMMA RevokeMoves ==
    ASSUME MissionOK, mission.state # "revoked", NEW cont \in Answers, ApplyRevoke(cont),
           pass' \in PassRow
    PROVE  /\ MissionOK' /\ Forward /\ mission'.state = "revoked" /\ mission'.cont = cont
           /\ log \in Seq(Event) /\ log' \in Seq(Event) /\ Len(log) =< Len(log')
<1>1. mission \in MissionRow /\ mission.ver + 1 \in Nat
  BY DEF MissionOK, MissionTypeOK, MissionRow
<1>2. /\ mission' = [mission EXCEPT !.state = "revoked", !.ver = @ + 1, !.cont = cont]
      /\ Emit("mission_revoked", mission.ver + 1)
  BY DEF ApplyRevoke
<1>3. mission' \in MissionRow /\ mission'.state = "revoked" /\ mission'.cont = cont
  BY <1>1, <1>2, MissionMoves
<1>4. Forward
  BY <1>3 DEF MissionOK, Forward
<1>5. "mission_revoked" \in EventTypes
  BY DEF EventTypes
<1> QED BY <1>1, <1>2, <1>3, <1>4, <1>5, AuthorityLogs

LEMMA DecisionMoves ==
    ASSUME MissionOK, NEW e \in Expansions, NEW decision, ApplyDecision(e, decision),
           UNCHANGED <<pass, log>>
    PROVE  MissionOK' /\ Forward
<1>1. mission \in MissionRow /\ mission.ver \in Nat
  BY DEF MissionOK, MissionTypeOK, MissionRow
<1>2. mission' = [mission EXCEPT !.ver = @ + 1] \/ mission' = mission
  BY DEF ApplyDecision
<1>3. mission' \in MissionRow /\ mission'.state = mission.state /\ mission'.cont = mission.cont
  BY <1>1, <1>2, MissionMoves
<1> QED BY <1>3 DEF MissionOK, MissionTypeOK, MissionRow, Forward

(* What the authority holds of the requests stays well formed.             *)
RequestRow == [status : {"none", "pending", "approved", "denied", "expired"}, ver : Nat,
               decided : Nat]

LEMMA DecisionTyped ==
    ASSUME MissionOK, BindingsOK, NEW e \in Expansions, NEW decision, ApplyDecision(e, decision)
    PROVE  requested' \in [Expansions -> RequestRow]
<1>1. requested \in [Expansions -> RequestRow] /\ mission.ver + 1 \in Nat
  BY DEF MissionOK, MissionTypeOK, BindingsOK, ExpansionTypeOK, RequestRow
<1> DEFINE approved == [requested[e] EXCEPT !.status = "approved", !.decided = mission.ver + 1]
           denied == [requested[e] EXCEPT !.status = "denied"]
<1>2. approved \in RequestRow /\ denied \in RequestRow
  BY <1>1 DEF RequestRow
<1>3. \/ requested' = [requested EXCEPT ![e] = approved]
      \/ requested' = [requested EXCEPT ![e] = denied]
  BY DEF ApplyDecision
<1> HIDE DEF approved, denied
<1> QED BY <1>1, <1>2, <1>3

-----------------------------------------------------------------------------
(* The requests that revoke.                                               *)

Actors == Revokers \cup Workers
RevokeRow == [pc : RevokePCs, digest : RevokeDigest, cont : RevokeOutcomes]
IntentRow == [state : {"none", "in_flight", "completed"}, digest : RevokeDigest,
              cont : Containment]

(* One request moves; the others stay where they are.                      *)
Moves(a) ==
    /\ revokeReq' \in [Actors -> RevokeRow]
    /\ \A b \in Actors : b # a => revokeReq'[b] = revokeReq[b]

LEMMA GotoMoves ==
    ASSUME RevocationTypeOK, NEW a \in Actors, NEW label \in RevokePCs, RGoto(a, label)
    PROVE  Moves(a) /\ revokeReq'[a].pc = label /\ revokeReq'[a].cont = revokeReq[a].cont
<1>1. revokeReq \in [Actors -> RevokeRow]
  BY DEF RevocationTypeOK, Actors, RevokeRow
<1> DEFINE q == [revokeReq[a] EXCEPT !.pc = label]
<1>2. q \in RevokeRow /\ q.pc = label /\ q.cont = revokeReq[a].cont
  BY <1>1 DEF RevokeRow
<1>3. revokeReq' = [revokeReq EXCEPT ![a] = q]
  BY DEF RGoto
<1> HIDE DEF q
<1> QED BY <1>1, <1>2, <1>3 DEF Moves

LEMMA ReturnMoves ==
    ASSUME RevocationTypeOK, NEW a \in Actors, NEW outcome \in RevokeOutcomes, RReturn(a, outcome)
    PROVE  /\ Moves(a)
           /\ revokeReq'[a].pc \in {"idle", "answer"}
           /\ revokeReq'[a].pc = "answer" => revokeReq'[a].cont = outcome
<1>1. revokeReq \in [Actors -> RevokeRow]
  BY DEF RevocationTypeOK, Actors, RevokeRow
<1> DEFINE q == IF a \in Workers THEN RevokeIdle
                ELSE [RevokeIdle EXCEPT !.pc = "answer", !.cont = outcome]
<1>2. /\ RevokeIdle \in RevokeRow /\ RevokeIdle.pc = "idle"
  BY DEF RevokeRow, RevokeIdle, RevokePCs, RevokeOutcomes, NoRevokeDigest, RevokeDigest, Containment
<1>3. q \in RevokeRow /\ q.pc \in {"idle", "answer"} /\ (q.pc = "answer" => q.cont = outcome)
  <2>1. CASE a \in Workers
    BY <1>2, <2>1
  <2>2. CASE a \notin Workers
    <3> DEFINE r == [RevokeIdle EXCEPT !.pc = "answer", !.cont = outcome]
    <3>1. r \in RevokeRow /\ r.pc = "answer" /\ r.cont = outcome
      BY <1>2 DEF RevokeRow, RevokeIdle, RevokePCs
    <3> QED BY <2>2, <3>1
  <2> QED BY <2>1, <2>2
<1>4. revokeReq' = [revokeReq EXCEPT ![a] = q]
  BY DEF RReturn
<1> HIDE DEF q
<1> QED BY <1>1, <1>3, <1>4 DEF Moves

(* The ceremonies and the call under way keep their types.                 *)
CeremoniesTyped ==
    revokeBegun' \in [RevokeChallenges -> RevokeDigest] /\ revokeLate' \in BOOLEAN

(* What the step of request a has to establish.                            *)
LEMMA RevokeStep ==
    ASSUME RevokeOK, Forward, NEW a \in Actors, Moves(a), RevokeReqOK(a)',
           revokeIntent' \in IntentRow, IntentTrue',
           revokeIntent.state # "none" => revokeIntent'.state # "none",
           revokeIntent'.state # revokeIntent.state => (revokeIntent.state # "none" \/ Issuing(a)),
           \/ revokeCalls' = revokeCalls
           \/ revokeCalls' = 1 /\ Issuing(a) /\ revokeIntent'.state # "none",
           Issuing(a)' => (\A b \in Revokers : b # a => ~ Issuing(b)),
           CeremoniesTyped
    PROVE  RevokeOK'
<1>1. RevokeReqOK(a) /\ (Issuing(a) => a \in Revokers)
  BY DEF RevokeOK, RevokeReqOK, Issuing, Actors
<1>2. \A b \in Actors : RevokeReqOK(b)'
  <2> TAKE b \in Actors
  <2>1. CASE b = a
    BY <2>1
  <2>2. CASE b # a
    BY <1>1, <2>2, OtherRevokers DEF Moves, Actors
  <2> QED BY <2>1, <2>2
<1>3. RevocationTypeOK'
  BY DEF RevokeOK, RevocationTypeOK, Moves, Actors, RevokeRow, IntentRow, CeremoniesTyped
<1>4. \A b, c \in Revokers : Issuing(b)' /\ Issuing(c)' => b = c
  <2>1. \A b \in Revokers : b # a => (Issuing(b)' <=> Issuing(b))
    BY DEF Moves, Issuing, Actors
  <2> QED BY <2>1 DEF RevokeOK
<1>5. revokeCalls' =< 1 /\ (revokeIntent'.state = "none" => revokeCalls' = 0)
  BY DEF RevokeOK
<1> QED BY <1>2, <1>3, <1>4, <1>5 DEF RevokeOK, Actors

(* The steps of a request that write nothing but its own place.            *)
LEMMA RevokeReads ==
    ASSUME IInv, NEW a \in Actors, UNCHANGED <<missionVars, revokeIntent, revokeCalls>>,
           Moves(a), RevokeReqOK(a)', Issuing(a)' => (\A b \in Revokers : b # a => ~ Issuing(b)),
           CeremoniesTyped
    PROVE  MissionOK' /\ RowOK' /\ RevokeOK' /\ Forward
<1>1. MissionOK' /\ RowOK' /\ Forward
  BY DEF IInv, missionVars, MissionOK, MissionTypeOK, RowOK, Forward
<1>2. revokeIntent' \in IntentRow /\ IntentTrue'
  BY DEF IInv, IntentTrue, missionVars, RevokeOK, RevocationTypeOK, IntentRow, Truthful
<1>3. revokeIntent' = revokeIntent /\ revokeCalls' = revokeCalls /\ RevokeOK
  BY DEF IInv
<1>4. /\ revokeIntent.state # "none" => revokeIntent'.state # "none"
      /\ revokeIntent'.state = revokeIntent.state
  BY <1>3
<1> QED BY <1>1, <1>2, <1>3, <1>4, RevokeStep

LEMMA LockStep ==
    ASSUME IInv, NEW a \in Actors, RevokeLock(a)
    PROVE  MissionOK' /\ RowOK' /\ RevokeOK' /\ Forward
<1>1. /\ RevocationTypeOK /\ RevokeReqOK(a) /\ Truthful(revokeIntent.cont)
      /\ revokeIntent.cont \in Containment /\ a \in Revokers
  BY DEF IInv, RevokeOK, RevocationTypeOK, Actors, RevokeReqOK, RevokeLock, IntentTrue
<1>2. \A b \in Revokers : ~ Issuing(b)
  BY DEF RevokeLock, RevokeLocked, Issuing
<1>3. UNCHANGED <<missionVars, revokeIntent, revokeCalls, revokeBegun, revokeLate>>
  BY DEF RevokeLock
<1>4. /\ CeremoniesTyped
      /\ UNCHANGED <<missionVars, revokeIntent, revokeCalls>>
  BY <1>1, <1>3 DEF RevocationTypeOK, CeremoniesTyped
<1>5. CASE revokeIntent.state = "none" /\ RGoto(a, "put")
  <2>1. Moves(a) /\ revokeReq'[a].pc = "put"
    BY <1>1, <1>5, GotoMoves DEF RevokePCs
  <2>2. RevokeReqOK(a)'
    BY <1>1, <1>3, <1>5, <2>1 DEF RevokeReqOK
  <2> QED BY <1>2, <1>4, <2>1, <2>2, RevokeReads
<1>6. CASE RGoto(a, "reconcile")
  <2>1. Moves(a) /\ revokeReq'[a].pc = "reconcile"
    BY <1>1, <1>6, GotoMoves DEF RevokePCs
  <2>2. RevokeReqOK(a)'
    BY <2>1 DEF RevokeReqOK
  <2> QED BY <1>2, <1>4, <2>1, <2>2, RevokeReads
<1>7. CASE RReturn(a, revokeIntent.cont)
  <2>1. PICK cont \in Containment : cont = revokeIntent.cont
    BY <1>1
  <2>2. cont \in RevokeOutcomes /\ resultContainment(cont) = cont
    BY DEF RevokeOutcomes, Containment, resultContainment
  <2>3. /\ Moves(a) /\ revokeReq'[a].pc \in {"idle", "answer"}
        /\ revokeReq'[a].pc = "answer" => revokeReq'[a].cont = cont
    BY <1>1, <1>7, <2>1, <2>2, ReturnMoves
  <2>4. Truthful(cont)'
    BY <1>1, <1>3, <2>1 DEF Truthful, missionVars
  <2>5. RevokeReqOK(a)'
    BY <2>2, <2>3, <2>4 DEF RevokeReqOK
  <2> QED BY <1>2, <1>4, <2>3, <2>5, RevokeReads
<1>8. CASE RReturn(a, "error")
  <2>1. /\ Moves(a) /\ revokeReq'[a].pc \in {"idle", "answer"}
        /\ revokeReq'[a].pc = "answer" => revokeReq'[a].cont = "error"
    BY <1>1, <1>8, ReturnMoves DEF RevokeOutcomes
  <2>2. RevokeReqOK(a)'
    BY <2>1 DEF RevokeReqOK
  <2> QED BY <1>2, <1>4, <2>1, <2>2, RevokeReads
<1>9. \/ revokeIntent.state = "none" /\ RGoto(a, "put")
      \/ RGoto(a, "reconcile")
      \/ RReturn(a, revokeIntent.cont)
      \/ RReturn(a, "error")
  BY Zenon DEF RevokeLock
<1> QED BY <1>5, <1>6, <1>7, <1>8, <1>9

(* ReconcileRevocation up to its settlement.                               *)
LEMMA ReconcileSteps ==
    ASSUME IInv, NEW a \in Actors,
           \/ ReconcileRevocation(a) \/ ReadRevocationIntent(a)
           \/ QueryRevocation(a) \/ QueryRevocationFailed(a)
    PROVE  MissionOK' /\ RowOK' /\ RevokeOK' /\ Forward
<1>1. /\ RevocationTypeOK /\ RevokeReqOK(a)
  BY DEF IInv, RevokeOK, Actors
<1>2. UNCHANGED <<missionVars, revokeIntent, revokeCalls, revokeBegun, revokeLate>>
  BY DEF ReconcileRevocation, ReadRevocationIntent, QueryRevocation, QueryRevocationFailed
<1>3. /\ CeremoniesTyped
      /\ UNCHANGED <<missionVars, revokeIntent, revokeCalls>>
  BY <1>1, <1>2 DEF RevocationTypeOK, CeremoniesTyped
<1>4. CASE RReturn(a, "null") \/ RReturn(a, "error")
  <2>1. /\ Moves(a) /\ revokeReq'[a].pc \in {"idle", "answer"}
        /\ revokeReq'[a].pc = "answer" => revokeReq'[a].cont \in {"error", "null"}
    BY <1>1, <1>4, ReturnMoves DEF RevokeOutcomes
  <2>2. RevokeReqOK(a)' /\ ~ Issuing(a)'
    BY <2>1 DEF RevokeReqOK, Issuing
  <2> QED BY <1>3, <2>1, <2>2, RevokeReads
<1>5. CASE RGoto(a, "read")
  <2>1. Moves(a) /\ revokeReq'[a].pc = "read"
    BY <1>1, <1>5, GotoMoves DEF RevokePCs
  <2>2. RevokeReqOK(a)' /\ ~ Issuing(a)'
    BY <2>1 DEF RevokeReqOK, Issuing
  <2> QED BY <1>3, <2>1, <2>2, RevokeReads
<1>6. CASE RGoto(a, "query") /\ revokeIntent.state = "in_flight"
  <2>1. Moves(a) /\ revokeReq'[a].pc = "query"
    BY <1>1, <1>6, GotoMoves DEF RevokePCs
  <2>2. RevokeReqOK(a)' /\ ~ Issuing(a)'
    BY <1>2, <1>6, <2>1 DEF RevokeReqOK, Issuing
  <2> QED BY <1>3, <2>1, <2>2, RevokeReads
<1>7. CASE QueryRevocation(a)
  <2> DEFINE q == [revokeReq[a] EXCEPT !.pc = "settle", !.cont = "pending"]
  <2>1. revokeReq \in [Actors -> RevokeRow]
    BY <1>1 DEF RevocationTypeOK, Actors, RevokeRow
  <2>2. q \in RevokeRow /\ q.pc = "settle" /\ q.cont = "pending"
    BY <2>1 DEF RevokeRow, RevokePCs, RevokeOutcomes, Containment
  <2>3. /\ revokeReq' = [revokeReq EXCEPT ![a] = q]
        /\ mission.state = "revoked" /\ revokeReq[a].pc = "query"
    BY <1>7 DEF QueryRevocation
  <2> HIDE DEF q
  <2>4. Moves(a) /\ revokeReq'[a].pc = "settle" /\ revokeReq'[a].cont = "pending"
    BY <2>1, <2>2, <2>3 DEF Moves
  <2>5. RevokeReqOK(a)' /\ ~ Issuing(a)'
    BY <1>1, <1>2, <2>3, <2>4 DEF RevokeReqOK, Issuing, Containment, Truthful, missionVars
  <2> QED BY <1>3, <2>4, <2>5, RevokeReads
<1>8. \/ RReturn(a, "null") \/ RReturn(a, "error") \/ RGoto(a, "read")
      \/ RGoto(a, "query") /\ revokeIntent.state = "in_flight"
      \/ QueryRevocation(a)
  BY Zenon DEF ReconcileRevocation, ReadRevocationIntent, QueryRevocationFailed
<1> QED BY <1>4, <1>5, <1>6, <1>7, <1>8

LEMMA PutStep ==
    ASSUME IInv, NEW a \in Actors, PutRevocationIntent(a)
    PROVE  /\ MissionOK' /\ RowOK' /\ RevokeOK' /\ Forward
           /\ revokeIntent.state # "none" => revokeIntent'.state # "none"
<1>1. /\ RevocationTypeOK /\ RevokeReqOK(a) /\ revokeReq[a].pc = "put" /\ RevokeOK
      /\ revokeReq[a] \in RevokeRow
  BY DEF IInv, RevokeOK, RevocationTypeOK, Actors, PutRevocationIntent, RevokeRow
<1>2. revokeIntent.state = "none" /\ a \in Revokers /\ Issuing(a) /\ revokeCalls = 0
  BY <1>1 DEF RevokeReqOK, RevokeOK, Issuing
<1>3. /\ revokeIntent' = [state |-> "in_flight", digest |-> revokeReq[a].digest, cont |-> "none"]
      /\ RGoto(a, "call")
      /\ UNCHANGED <<missionVars, revokeBegun, revokeCalls, revokeLate>>
  BY <1>2 DEF PutRevocationIntent
<1>4. MissionOK' /\ RowOK' /\ Forward
  BY <1>3 DEF IInv, missionVars, MissionOK, MissionTypeOK, RowOK, Forward
<1>5. Moves(a) /\ revokeReq'[a].pc = "call"
  BY <1>1, <1>3, GotoMoves DEF RevokePCs
<1>6. revokeIntent' \in IntentRow /\ revokeIntent'.state = "in_flight" /\ IntentTrue'
  BY <1>1, <1>3 DEF IntentRow, RevokeRow, Containment, IntentTrue, Truthful
<1>7. RevokeReqOK(a)' /\ revokeCalls' = revokeCalls
  BY <1>2, <1>3, <1>5, <1>6 DEF RevokeReqOK
<1>8. CeremoniesTyped
  BY <1>1, <1>3 DEF RevocationTypeOK, CeremoniesTyped
<1>9. \A b \in Revokers : b # a => ~ Issuing(b)
  BY <1>1, <1>2 DEF RevokeOK
<1>10. /\ revokeIntent.state # "none" => revokeIntent'.state # "none"
       /\ revokeIntent'.state # revokeIntent.state => (revokeIntent.state # "none" \/ Issuing(a))
  BY <1>2
<1>11. RevokeOK'
  BY <1>1, <1>4, <1>5, <1>6, <1>7, <1>8, <1>9, <1>10, RevokeStep
<1> QED BY <1>4, <1>10, <1>11

(* The call to the authority: it is the first, and nobody else is at it.   *)
LEMMA CallStep ==
    ASSUME IInv, NEW a \in Actors, RevokeMissionAnswered(a) \/ RevokeMissionFailed(a)
    PROVE  /\ MissionOK' /\ RowOK' /\ RevokeOK' /\ Forward
           /\ log \in Seq(Event) /\ log' \in Seq(Event) /\ Len(log) =< Len(log')
<1>1. /\ RevocationTypeOK /\ RevokeReqOK(a) /\ revokeReq[a].pc = "call" /\ RevokeOK
      /\ revokeReq \in [Actors -> RevokeRow] /\ MissionOK /\ RowOK
      /\ pass \in PassRow /\ log \in Seq(Event)
  BY DEF IInv, RevokeOK, RevocationTypeOK, Actors, RevokeMissionAnswered, RevokeMissionFailed,
         RevokeRow, MissionOK, MissionTypeOK
<1>2. revokeIntent.state # "none" /\ a \in Revokers /\ Issuing(a) /\ revokeCalls = 0
  BY <1>1 DEF RevokeReqOK, RevokeOK, Issuing
<1>3. /\ revokeCalls' = revokeCalls + 1
      /\ UNCHANGED <<pass, revokeBegun, revokeIntent>>
  BY DEF RevokeMissionAnswered, RevokeMissionFailed
<1>4. revokeCalls' = 1 /\ revokeIntent' = revokeIntent /\ pass' = pass
  BY <1>2, <1>3
<1>5. /\ \/ mission.state # "revoked" /\ \E cont \in Answers : ApplyRevoke(cont)
         \/ UNCHANGED <<mission, log>>
  BY DEF RevokeMissionAnswered, RevokeMissionFailed
<1>6. /\ MissionOK' /\ Forward
      /\ log \in Seq(Event) /\ log' \in Seq(Event) /\ Len(log) =< Len(log')
  <2>1. CASE mission.state # "revoked" /\ \E cont \in Answers : ApplyRevoke(cont)
    BY <1>1, <1>4, <2>1, RevokeMoves
  <2>2. CASE UNCHANGED <<mission, log>>
    <3>1. MissionOK' /\ Forward
      BY <1>1, <1>4, <2>2, MissionStable
    <3>2. log' = log /\ Len(log) \in Nat
      BY <1>1, <2>2
    <3> QED BY <1>1, <3>1, <3>2
  <2> QED BY <1>5, <2>1, <2>2
<1>7. RowOK'
  BY <1>1, <1>4, <1>6, RowStable
<1>8. Moves(a) /\ RevokeReqOK(a)' /\ ~ Issuing(a)'
  <2>1. CASE RevokeMissionAnswered(a)
    <3>1. PICK cont \in Answers :
              /\ ApplyRevoke(cont)
              /\ revokeReq' = [revokeReq EXCEPT ![a].pc = "settle",
                                                ![a].cont = mapContainment(cont)]
              /\ mission.state # "revoked"
      BY <2>1 DEF RevokeMissionAnswered
    <3> DEFINE c == mapContainment(cont)
               q == [revokeReq[a] EXCEPT !.pc = "settle", !.cont = c]
    <3>2. c \in Containment /\ c \in RevokeOutcomes /\ (c = "acknowledged" => cont = "acknowledged")
      BY DEF Answers, mapContainment, Containment, RevokeOutcomes
    <3> HIDE DEF c
    <3>3. q \in RevokeRow /\ q.pc = "settle" /\ q.cont = c
      BY <1>1, <3>2 DEF RevokeRow, RevokePCs
    <3>4. revokeReq' = [revokeReq EXCEPT ![a] = q]
      BY <3>1 DEF c
    <3> HIDE DEF q
    <3>5. Moves(a) /\ revokeReq'[a].pc = "settle" /\ revokeReq'[a].cont = c
      BY <1>1, <3>3, <3>4 DEF Moves
    <3>6. mission'.state = "revoked" /\ mission'.cont = cont
      BY <1>1, <1>4, <3>1, RevokeMoves
    <3>7. RevokeReqOK(a)' /\ ~ Issuing(a)'
      BY <1>2, <1>4, <3>2, <3>5, <3>6 DEF RevokeReqOK, Truthful, Issuing
    <3> QED BY <3>5, <3>7
  <2>2. CASE RGoto(a, "mark")
    <3>1. Moves(a) /\ revokeReq'[a].pc = "mark"
      BY <1>1, <2>2, GotoMoves DEF RevokePCs
    <3>2. RevokeReqOK(a)' /\ ~ Issuing(a)'
      BY <1>2, <1>4, <3>1 DEF RevokeReqOK, Issuing
    <3> QED BY <3>1, <3>2
  <2>3. CASE RReturn(a, "error")
    <3>1. /\ Moves(a) /\ revokeReq'[a].pc \in {"idle", "answer"}
          /\ revokeReq'[a].pc = "answer" => revokeReq'[a].cont = "error"
      BY <1>1, <2>3, ReturnMoves DEF RevokeOutcomes
    <3>2. RevokeReqOK(a)' /\ ~ Issuing(a)'
      BY <3>1 DEF RevokeReqOK, Issuing
    <3> QED BY <3>1, <3>2
  <2>4. RevokeMissionAnswered(a) \/ RGoto(a, "mark") \/ RReturn(a, "error")
    BY DEF RevokeMissionFailed
  <2> QED BY <2>1, <2>2, <2>3, <2>4
<1>9. CeremoniesTyped
  <2>1. revokeBegun' \in [RevokeChallenges -> RevokeDigest]
    BY <1>1, <1>3 DEF RevocationTypeOK
  <2>2. revokeLate' = TRUE \/ revokeLate' = revokeLate
    BY DEF RevokeMissionAnswered, RevokeMissionFailed
  <2>3. revokeLate \in BOOLEAN
    BY <1>1 DEF RevocationTypeOK
  <2> QED BY <2>1, <2>2, <2>3 DEF CeremoniesTyped
<1>10. IntentTrue' /\ revokeIntent' \in IntentRow
  BY <1>1, <1>4, <1>6 DEF RevokeOK, RevocationTypeOK, IntentTrue, Truthful, Forward, IntentRow
<1>11. /\ revokeIntent.state # "none" => revokeIntent'.state # "none"
       /\ revokeIntent'.state = revokeIntent.state
       /\ revokeIntent'.state # "none"
  BY <1>2, <1>4
<1>12. RevokeOK'
  BY <1>1, <1>2, <1>4, <1>6, <1>8, <1>9, <1>10, <1>11, RevokeStep
<1> QED BY <1>6, <1>7, <1>12

LEMMA MarkStep ==
    ASSUME IInv, NEW a \in Actors, markRevokePending(a)
    PROVE  MissionOK' /\ RowOK' /\ RevokeOK' /\ Forward /\ revokeIntent' = revokeIntent
<1>1. /\ RevocationTypeOK /\ RevokeReqOK(a) /\ revokeReq[a].pc = "mark" /\ RevokeOK
      /\ MissionOK /\ RowOK /\ pass \in PassRow
  BY DEF IInv, RevokeOK, RevocationTypeOK, Actors, markRevokePending, MissionOK, MissionTypeOK
<1>2. /\ UNCHANGED <<mission, log, revokeBegun, revokeIntent, revokeCalls, revokeLate>>
      /\ RReturn(a, "unknown")
      /\ pass' = [pass EXCEPT !.recon = "pending",
                              !.cont = IF @ = "none" THEN "pending" ELSE @]
  BY DEF markRevokePending
<1>3. /\ pass' \in PassRow /\ pass'.state = pass.state
      /\ pass'.cont = pass.cont \/ pass'.cont # "acknowledged"
  BY <1>1, <1>2 DEF PassRow, ReconciliationState, Containment
<1>4. MissionOK' /\ Forward
  BY <1>1, <1>2, <1>3, MissionStable
<1>5. RowOK'
  BY <1>1, <1>3, <1>4, RowStable
<1>6. /\ Moves(a) /\ revokeReq'[a].pc \in {"idle", "answer"}
      /\ revokeReq'[a].pc = "answer" => revokeReq'[a].cont = "unknown"
  BY <1>1, <1>2, ReturnMoves DEF RevokeOutcomes
<1>7. revokeIntent' = revokeIntent /\ revokeCalls' = revokeCalls /\ revokeIntent.state # "none"
  BY <1>1, <1>2 DEF RevokeReqOK
<1>8. RevokeReqOK(a)' /\ ~ Issuing(a)'
  BY <1>6, <1>7 DEF RevokeReqOK, Issuing, resultContainment, Truthful
<1>9. CeremoniesTyped
  BY <1>1, <1>2 DEF RevocationTypeOK, CeremoniesTyped
<1>10. IntentTrue' /\ revokeIntent' \in IntentRow
  BY <1>1, <1>4, <1>7 DEF RevokeOK, RevocationTypeOK, IntentTrue, Truthful, Forward, IntentRow
<1>11. /\ revokeIntent.state # "none" => revokeIntent'.state # "none"
       /\ revokeIntent'.state = revokeIntent.state
  BY <1>7
<1>12. RevokeOK'
  BY <1>1, <1>4, <1>6, <1>7, <1>8, <1>9, <1>10, <1>11, RevokeStep
<1> QED BY <1>4, <1>5, <1>7, <1>12

(* Row and intent are settled with the containment the request holds.      *)
LEMMA SettleStep ==
    ASSUME IInv, NEW a \in Actors, settleRevocation(a)
    PROVE  /\ MissionOK' /\ RowOK' /\ RevokeOK' /\ Forward
           /\ revokeIntent.state # "none" => revokeIntent'.state # "none"
<1>1. /\ RevocationTypeOK /\ RevokeReqOK(a) /\ revokeReq[a].pc = "settle" /\ RevokeOK
      /\ MissionOK /\ RowOK /\ pass \in PassRow /\ revokeIntent \in IntentRow
  BY DEF IInv, RevokeOK, RevocationTypeOK, Actors, settleRevocation, MissionOK, MissionTypeOK,
         IntentRow
<1>2. PICK cont \in Containment : cont = revokeReq[a].cont
  BY <1>1 DEF RevokeReqOK
<1>3. mission.state = "revoked" /\ Truthful(cont) /\ revokeIntent.state # "none"
  BY <1>1, <1>2 DEF RevokeReqOK
<1>4. UNCHANGED <<mission, log, revokeBegun, revokeCalls, revokeLate>> /\ revokeCalls' = revokeCalls
  BY DEF settleRevocation
<1>5. /\ cont \in RevokeOutcomes /\ resultContainment(cont) = cont
      /\ "error" \in RevokeOutcomes
  BY DEF RevokeOutcomes, Containment, resultContainment
<1>6. CeremoniesTyped
  BY <1>1, <1>4 DEF RevocationTypeOK, CeremoniesTyped
<1>7. CASE /\ pass' = [pass EXCEPT !.state = "revoked", !.cont = cont, !.recon = "settled"]
           /\ revokeIntent' = [revokeIntent EXCEPT !.state = "completed", !.cont = cont]
           /\ RReturn(a, cont)
  <2>1. pass' \in PassRow /\ pass'.state = "revoked" /\ pass'.cont = cont
    BY <1>1, <1>7 DEF PassRow, PassState, ReconciliationState
  <2>2. revokeIntent' \in IntentRow /\ revokeIntent'.state = "completed" /\ revokeIntent'.cont = cont
    BY <1>1, <1>7 DEF IntentRow
  <2>3. MissionOK' /\ Forward
    BY <1>1, <1>4, <2>1, MissionStable
  <2>4. RowOK'
    BY <1>3, <1>4, <2>1 DEF RowOK, Truthful
  <2>5. /\ Moves(a) /\ revokeReq'[a].pc \in {"idle", "answer"}
        /\ revokeReq'[a].pc = "answer" => revokeReq'[a].cont = cont
    BY <1>1, <1>5, <1>7, ReturnMoves
  <2>6. Truthful(cont)'
    BY <1>3, <1>4, <2>2 DEF Truthful
  <2>7. RevokeReqOK(a)' /\ ~ Issuing(a)'
    BY <1>5, <2>5, <2>6 DEF RevokeReqOK, Issuing
  <2>8. IntentTrue'
    BY <2>2, <2>6 DEF IntentTrue, Truthful
  <2>9. /\ revokeIntent.state # "none" => revokeIntent'.state # "none"
        /\ revokeIntent'.state # revokeIntent.state => (revokeIntent.state # "none" \/ Issuing(a))
    BY <1>3, <2>2
  <2>10. RevokeOK'
    BY <1>1, <1>4, <1>6, <2>2, <2>3, <2>5, <2>7, <2>8, <2>9, RevokeStep
  <2> QED BY <2>3, <2>4, <2>9, <2>10
<1>8. CASE RReturn(a, "error") /\ UNCHANGED <<pass, revokeIntent>>
  <2>1. /\ Moves(a) /\ revokeReq'[a].pc \in {"idle", "answer"}
        /\ revokeReq'[a].pc = "answer" => revokeReq'[a].cont = "error"
    BY <1>1, <1>5, <1>8, ReturnMoves
  <2>2. RevokeReqOK(a)' /\ ~ Issuing(a)'
    BY <2>1 DEF RevokeReqOK, Issuing
  <2>3. UNCHANGED <<missionVars, revokeIntent, revokeCalls>> /\ revokeIntent' = revokeIntent
    BY <1>4, <1>8 DEF missionVars
  <2>4. MissionOK' /\ RowOK' /\ RevokeOK' /\ Forward
    BY <1>6, <2>1, <2>2, <2>3, RevokeReads
  <2> QED BY <2>3, <2>4
<1>9. \/ /\ pass' = [pass EXCEPT !.state = "revoked", !.cont = cont, !.recon = "settled"]
         /\ revokeIntent' = [revokeIntent EXCEPT !.state = "completed", !.cont = cont]
         /\ RReturn(a, cont)
      \/ RReturn(a, "error") /\ UNCHANGED <<pass, revokeIntent>>
  BY <1>2, Zenon DEF settleRevocation
<1> QED BY <1>7, <1>8, <1>9

(* RevokerStep, for requests and workers.                                  *)
LEMMA RevokerSteps ==
    ASSUME IInv, NEW a \in Actors, RevokerStep(a)
    PROVE  /\ MissionOK' /\ RowOK' /\ RevokeOK' /\ Forward
           /\ revokeIntent.state # "none" => revokeIntent'.state # "none"
           /\ log \in Seq(Event) /\ log' \in Seq(Event) /\ Len(log) =< Len(log')
<1>1. log \in Seq(Event) /\ Len(log) \in Nat
  BY DEF IInv, MissionOK, MissionTypeOK
<1>2. CASE RevokeLock(a)
  <2>1. log' = log /\ revokeIntent' = revokeIntent
    BY <1>2 DEF RevokeLock, missionVars
  <2> QED BY <1>1, <1>2, <2>1, LockStep
<1>3. CASE PutRevocationIntent(a)
  <2>1. log' = log
    BY <1>3 DEF PutRevocationIntent, missionVars
  <2> QED BY <1>1, <1>3, <2>1, PutStep
<1>4. CASE RevokeMissionAnswered(a) \/ RevokeMissionFailed(a)
  <2>1. revokeIntent' = revokeIntent
    BY <1>4 DEF RevokeMissionAnswered, RevokeMissionFailed
  <2> QED BY <1>4, <2>1, CallStep
<1>5. CASE markRevokePending(a)
  <2>1. log' = log
    BY <1>5 DEF markRevokePending
  <2> QED BY <1>1, <1>5, <2>1, MarkStep
<1>6. CASE settleRevocation(a)
  <2>1. log' = log
    BY <1>6 DEF settleRevocation
  <2> QED BY <1>1, <1>6, <2>1, SettleStep
<1>7. CASE \/ ReconcileRevocation(a) \/ ReadRevocationIntent(a)
           \/ QueryRevocation(a) \/ QueryRevocationFailed(a)
  <2>1. log' = log /\ revokeIntent' = revokeIntent
    BY <1>7 DEF ReconcileRevocation, ReadRevocationIntent, QueryRevocation,
                QueryRevocationFailed, missionVars
  <2> QED BY <1>1, <1>7, <2>1, ReconcileSteps
<1> QED BY <1>2, <1>3, <1>4, <1>5, <1>6, <1>7 DEF RevokerStep

LEMMA CliGoto ==
    ASSUME CLIRevocationTypeOK, NEW c \in CLIs, NEW label \in {"listening", "code", "done"},
           cli' = [cli EXCEPT ![c].pc = label]
    PROVE  /\ cli' \in [CLIs -> [pc : {"start", "listening", "code", "done"}, report : Containment]]
           /\ \A i \in CLIs : cli'[i].report = cli[i].report
<1> DEFINE r == [cli[c] EXCEPT !.pc = label]
<1>1. /\ r \in [pc : {"start", "listening", "code", "done"}, report : Containment]
      /\ r.report = cli[c].report
  BY DEF CLIRevocationTypeOK
<1>2. cli' = [cli EXCEPT ![c] = r]
  OBVIOUS
<1> HIDE DEF r
<1> QED BY <1>1, <1>2 DEF CLIRevocationTypeOK

(* The answer of a finish: the code minted for the command run stands for  *)
(* the containment the request ended with.                                 *)
LEMMA AnswerStep ==
    ASSUME IInv, NEW a \in Revokers, AnswerFinish(a)
    PROVE  MissionOK' /\ RowOK' /\ RevokeOK' /\ CliOK' /\ Forward
<1>1. /\ RevocationTypeOK /\ RevokeReqOK(a) /\ revokeReq[a].pc = "answer" /\ RevokeOK
      /\ CliOK /\ CLIRevocationTypeOK /\ a \in Actors /\ revokeReq[a].cont \in RevokeOutcomes
      /\ revokeReq \in [Actors -> RevokeRow]
  BY DEF IInv, RevokeOK, RevocationTypeOK, Actors, AnswerFinish, CliOK, RevokeRow
<1>2. /\ revokeReq' = [revokeReq EXCEPT ![a] = RevokeIdle]
      /\ serves' = [serves EXCEPT ![a] = NoCLI]
      /\ UNCHANGED <<missionVars, revokeBegun, revokeIntent, revokeCalls, revokeLate>>
  BY DEF AnswerFinish
<1>3. RevokeIdle \in RevokeRow /\ RevokeIdle.pc = "idle"
  BY DEF RevokeRow, RevokeIdle, RevokePCs, RevokeOutcomes, NoRevokeDigest, RevokeDigest, Containment
<1>4. Moves(a) /\ revokeReq'[a].pc = "idle"
  BY <1>1, <1>2, <1>3 DEF Moves
<1>5. RevokeReqOK(a)' /\ ~ Issuing(a)'
  BY <1>4 DEF RevokeReqOK, Issuing
<1>6. CeremoniesTyped /\ UNCHANGED <<missionVars, revokeIntent, revokeCalls>>
  BY <1>1, <1>2 DEF RevocationTypeOK, CeremoniesTyped
<1>7. MissionOK' /\ RowOK' /\ RevokeOK' /\ Forward
  BY <1>1, <1>4, <1>5, <1>6, RevokeReads
<1>8. serves' \in [Revokers -> CLIs \cup {NoCLI}] /\ revokeIntent' = revokeIntent
  BY <1>1, <1>2 DEF CLIRevocationTypeOK
<1>9. CASE UNCHANGED <<cliRow, cli>>
  BY <1>1, <1>7, <1>8, <1>9, CliStable
<1>10. CASE LET c == serves[a]
                outcome == revokeReq[a].cont
            IN  /\ c # NoCLI /\ outcome \notin {"error", "null"}
                /\ MintCLIRevocationResult(c, resultContainment(outcome))
                /\ \/ cli[c].pc = "listening" /\ cli' = [cli EXCEPT ![c].pc = "code"]
                   \/ UNCHANGED cli
  <2>1. PICK c \in CLIs : c = serves[a]
    BY <1>1, <1>10 DEF CLIRevocationTypeOK
  <2>2. PICK cont \in Containment : cont = resultContainment(revokeReq[a].cont)
    BY <1>1, <1>10 DEF RevokeOutcomes, resultContainment, Containment
  <2>3. /\ cliRow' = [cliRow EXCEPT ![c].result = cont]
        /\ cli' = [cli EXCEPT ![c].pc = "code"] \/ cli' = cli
    BY <1>10, <2>1, <2>2 DEF MintCLIRevocationResult
  <2>4. Truthful(cont)
    BY <1>1, <1>10, <2>2 DEF RevokeReqOK
  <2>5. /\ cliRow' \in [CLIs -> [ver : Nat, expired : BOOLEAN, result : Containment]]
        /\ \A i \in CLIs : cliRow'[i].result = cliRow[i].result \/ cliRow'[i].result = cont
    <3> DEFINE r == [cliRow[c] EXCEPT !.result = cont]
    <3>1. r \in [ver : Nat, expired : BOOLEAN, result : Containment] /\ r.result = cont
      BY <1>1 DEF CLIRevocationTypeOK
    <3>2. cliRow' = [cliRow EXCEPT ![c] = r]
      BY <2>3
    <3> HIDE DEF r
    <3> QED BY <1>1, <3>1, <3>2 DEF CLIRevocationTypeOK
  <2>6. /\ cli' \in [CLIs -> [pc : {"start", "listening", "code", "done"}, report : Containment]]
        /\ \A i \in CLIs : cli'[i].report = cli[i].report
    BY <1>1, <2>3, CliGoto DEF CLIRevocationTypeOK
  <2>8. \A i \in CLIs : Truthful(cliRow'[i].result) /\ Truthful(cli'[i].report)
    BY <1>1, <2>4, <2>5, <2>6 DEF CliOK
  <2>9. \A i \in CLIs : Truthful(cliRow[i].result)' /\ Truthful(cli[i].report)'
    BY <2>8, <1>2 DEF Truthful, missionVars
  <2>10. CLIRevocationTypeOK'
    BY <1>8, <2>5, <2>6 DEF CLIRevocationTypeOK
  <2> QED BY <1>7, <2>9, <2>10 DEF CliOK
<1> QED BY <1>9, <1>10, <1>7 DEF AnswerFinish

LEMMA RevokeProgressStep ==
    ASSUME IInv, NEW a \in Actors, RevokeProgress(a)
    PROVE  IInv'
<1>1. UNCHANGED <<projectionVars, expansionVars, view, todo, crashes>>
  BY DEF RevokeProgress
<1>2. BindingsOK'
  BY <1>1, BindingsStable DEF IInv
<1>3. UNCHANGED <<proj, work, view, todo, crashes>>
  BY <1>1 DEF projectionVars
<1>4. CASE RevokerStep(a) /\ UNCHANGED cliVars
  <2>1. /\ MissionOK' /\ RowOK' /\ RevokeOK' /\ Forward
        /\ revokeIntent.state # "none" => revokeIntent'.state # "none"
        /\ log \in Seq(Event) /\ log' \in Seq(Event) /\ Len(log) =< Len(log')
    BY <1>4, RevokerSteps
  <2>2. WorkOK'
    BY <1>3, <2>1, WorkStable DEF IInv
  <2>3. CliOK /\ UNCHANGED <<cliRow, cli>> /\ serves' \in [Revokers -> CLIs \cup {NoCLI}]
    BY <1>4 DEF IInv, CliOK, CLIRevocationTypeOK, cliVars
  <2>4. CliOK'
    BY <2>1, <2>3, CliStable
  <2> QED BY <1>2, <2>1, <2>2, <2>4 DEF IInv
<1>5. CASE a \in Revokers /\ AnswerFinish(a)
  <2>1. MissionOK' /\ RowOK' /\ RevokeOK' /\ CliOK'
    BY <1>5, AnswerStep
  <2>2. log' = log /\ log \in Seq(Event) /\ Len(log) \in Nat
    BY <1>5 DEF AnswerFinish, missionVars, IInv, MissionOK, MissionTypeOK
  <2>3. WorkOK'
    BY <1>3, <2>2, WorkStable DEF IInv
  <2> QED BY <1>2, <2>1, <2>3 DEF IInv
<1> QED BY <1>4, <1>5 DEF RevokeProgress

(* Ceremonies begin and finish, and the revoke command runs.               *)
LEMMA BeginStep ==
    ASSUME IInv, NEW c \in RevokeChallenges, NEW reason \in Reasons, RevokeBegin(c, reason)
    PROVE  MissionOK' /\ RowOK' /\ RevokeOK' /\ Forward
<1>1. /\ revokeBegun' = [revokeBegun EXCEPT ![c] = [ver |-> pass.mver, reason |-> reason]]
      /\ UNCHANGED <<missionVars, revokeIntent, revokeReq, revokeCalls, revokeLate>>
  BY DEF RevokeBegin
<1>2. RevocationTypeOK /\ pass \in PassRow /\ RevokeOK
  BY DEF IInv, RevokeOK, MissionOK, MissionTypeOK
<1>3. MissionOK' /\ RowOK' /\ Forward
  BY <1>1 DEF IInv, missionVars, MissionOK, MissionTypeOK, RowOK, Forward
<1>4. [ver |-> pass.mver, reason |-> reason] \in RevokeDigest
  BY <1>2 DEF PassRow, RevokeDigest
<1>5. revokeBegun' \in [RevokeChallenges -> RevokeDigest] /\ revokeLate' \in BOOLEAN
  BY <1>1, <1>2, <1>4 DEF RevocationTypeOK
<1>6. UNCHANGED <<revokeIntent, revokeReq, revokeCalls>>
  BY <1>1
<1> QED BY <1>2, <1>3, <1>5, <1>6, RevokeStable

LEMMA FinishStep ==
    ASSUME IInv, NEW h \in Revokers, NEW ch \in RevokeChallenges, NEW c \in CLIs \cup {NoCLI},
           handleRevokeFinish(h, ch, c)
    PROVE  MissionOK' /\ RowOK' /\ RevokeOK' /\ CliOK'
<1>1. /\ RevocationTypeOK /\ RevokeReqOK(h) /\ RevokeOK /\ CliOK /\ CLIRevocationTypeOK
      /\ h \in Actors /\ revokeReq \in [Actors -> RevokeRow] /\ revokeReq[h].pc = "idle"
  BY DEF IInv, RevokeOK, RevocationTypeOK, Actors, CliOK, RevokeRow, handleRevokeFinish, RevokeFinish
<1>2. /\ revokeBegun' = [revokeBegun EXCEPT ![ch] = UsedRevoke]
      /\ UNCHANGED <<missionVars, revokeIntent, revokeCalls, revokeLate>>
      /\ UNCHANGED <<cliRow, cli>>
  BY DEF handleRevokeFinish, RevokeFinish
<1>3. CeremoniesTyped
  <2>1. UsedRevoke \in RevokeDigest
    BY DEF UsedRevoke, RevokeDigest
  <2>2. revokeBegun' \in [RevokeChallenges -> RevokeDigest]
    BY <1>1, <1>2, <2>1 DEF RevocationTypeOK
  <2>3. revokeLate' \in BOOLEAN
    BY <1>1, <1>2 DEF RevocationTypeOK
  <2> QED BY <2>2, <2>3 DEF CeremoniesTyped
<1>4. Moves(h) /\ revokeReq'[h].pc \in {"idle", "lock"}
  <2> DEFINE q == [pc |-> "lock", digest |-> revokeBegun[ch], cont |-> "none"]
  <2>1. q \in RevokeRow /\ q.pc = "lock"
    BY <1>1 DEF RevocationTypeOK, RevokeRow, RevokePCs, RevokeOutcomes, Containment
  <2>2. revokeReq' = [revokeReq EXCEPT ![h] = q] \/ revokeReq' = revokeReq
    BY DEF handleRevokeFinish, RevokeFinish
  <2> HIDE DEF q
  <2> QED BY <1>1, <2>1, <2>2 DEF Moves
<1>5. RevokeReqOK(h)' /\ ~ Issuing(h)'
  BY <1>4 DEF RevokeReqOK, Issuing
<1>6. UNCHANGED <<missionVars, revokeIntent, revokeCalls>> /\ revokeIntent' = revokeIntent
  BY <1>2
<1>7. MissionOK' /\ RowOK' /\ RevokeOK' /\ Forward
  BY <1>1, <1>3, <1>4, <1>5, <1>6, RevokeReads
<1>8. serves' \in [Revokers -> CLIs \cup {NoCLI}]
  <2>1. PICK i \in CLIs \cup {NoCLI} : serves' = [serves EXCEPT ![h] = i]
    BY DEF handleRevokeFinish
  <2> QED BY <1>1, <2>1 DEF CLIRevocationTypeOK
<1>9. CliOK'
  BY <1>1, <1>2, <1>6, <1>7, <1>8, CliStable
<1> QED BY <1>7, <1>9

LEMMA CliSteps ==
    ASSUME IInv, NEW c \in CLIs, CLIStep(c)
    PROVE  MissionOK' /\ RowOK' /\ RevokeOK' /\ CliOK'
<1>1. UNCHANGED <<missionVars, revocationVars, serves>>
  BY DEF CLIStep, Register, RequestExpires, Exchange, CLIEnds
<1>2. MissionOK' /\ RowOK' /\ Forward
  BY <1>1 DEF IInv, missionVars, MissionOK, MissionTypeOK, RowOK, Forward
<1>3. RevokeOK'
  <2>1. /\ UNCHANGED <<revokeIntent, revokeReq, revokeCalls>> /\ RevokeOK
        /\ revokeBegun' \in [RevokeChallenges -> RevokeDigest] /\ revokeLate' \in BOOLEAN
    BY <1>1 DEF revocationVars, IInv, RevokeOK, RevocationTypeOK
  <2> QED BY <1>2, <2>1, RevokeStable
<1>4. /\ CliOK /\ CLIRevocationTypeOK /\ pass \in PassRow
  BY DEF IInv, CliOK, MissionOK, MissionTypeOK
<1> DEFINE CliRows == [ver : Nat, expired : BOOLEAN, result : Containment]
           CliRuns == [pc : {"start", "listening", "code", "done"}, report : Containment]
<1>5. /\ cliRow' \in [CLIs -> CliRows]
      /\ \A i \in CLIs : cliRow'[i].result = cliRow[i].result
  <2>1. cliRow \in [CLIs -> CliRows]
    BY <1>4 DEF CLIRevocationTypeOK
  <2>2. CASE Register(c)
    <3> DEFINE r == [cliRow[c] EXCEPT !.ver = pass.mver]
    <3>1. r \in CliRows /\ r.result = cliRow[c].result
      BY <1>4, <2>1 DEF PassRow
    <3>2. cliRow' = [cliRow EXCEPT ![c] = r]
      BY <2>2 DEF Register
    <3> HIDE DEF r, CliRows
    <3> QED BY <2>1, <3>1, <3>2
  <2>3. CASE RequestExpires(c)
    <3> DEFINE r == [cliRow[c] EXCEPT !.expired = TRUE]
    <3>1. r \in CliRows /\ r.result = cliRow[c].result
      BY <2>1
    <3>2. cliRow' = [cliRow EXCEPT ![c] = r]
      BY <2>3 DEF RequestExpires
    <3> HIDE DEF r, CliRows
    <3> QED BY <2>1, <3>1, <3>2
  <2>4. CASE Exchange(c) \/ CLIEnds(c)
    <3>1. cliRow' = cliRow
      BY <2>4 DEF Exchange, CLIEnds
    <3> QED BY <2>1, <3>1
  <2> QED BY <2>2, <2>3, <2>4 DEF CLIStep
<1>6. /\ cli' \in [CLIs -> CliRuns]
      /\ \A i \in CLIs : cli'[i].report \in {cli[i].report, cliRow[i].result, "none"}
  <2>1. cli \in [CLIs -> CliRuns] /\ cliRow[c].result \in Containment /\ "none" \in Containment
    BY <1>4 DEF CLIRevocationTypeOK, Containment
  <2>2. CASE Register(c) \/ CLIEnds(c)
    BY <1>4, <2>2, CliGoto DEF Register, CLIEnds
  <2>3. CASE RequestExpires(c)
    <3>1. cli' = cli
      BY <2>3 DEF RequestExpires
    <3> QED BY <2>1, <3>1
  <2>4. CASE Exchange(c)
    <3>1. PICK report \in {cliRow[c].result, "none"} :
              cli' = [cli EXCEPT ![c] = [pc |-> "done", report |-> report]]
      BY <2>4 DEF Exchange
    <3> DEFINE r == [pc |-> "done", report |-> report]
    <3>2. r \in CliRuns /\ r.report = report
      BY <2>1
    <3>3. cli' = [cli EXCEPT ![c] = r]
      BY <3>1
    <3> HIDE DEF r, CliRuns
    <3> QED BY <2>1, <3>2, <3>3
  <2> QED BY <2>2, <2>3, <2>4 DEF CLIStep
<1>7. CLIRevocationTypeOK'
  BY <1>1, <1>4, <1>5, <1>6 DEF CLIRevocationTypeOK
<1>8. \A i \in CLIs : Truthful(cliRow'[i].result) /\ Truthful(cli'[i].report)
  BY <1>4, <1>5, <1>6 DEF CliOK, Truthful
<1>9. \A i \in CLIs : Truthful(cliRow[i].result)' /\ Truthful(cli[i].report)'
  BY <1>1, <1>8 DEF Truthful, missionVars, revocationVars
<1> QED BY <1>2, <1>3, <1>7, <1>9 DEF CliOK

LEMMA RevokeRequestStep ==
    ASSUME IInv, RevokeRequest
    PROVE  IInv'
<1>1. UNCHANGED <<projectionVars, expansionVars, view, todo, crashes>>
  BY DEF RevokeRequest
<1>2. BindingsOK'
  BY <1>1, BindingsStable DEF IInv
<1>3. UNCHANGED <<proj, work, view, todo, crashes>>
  BY <1>1 DEF projectionVars
<1>4. log' = log
  BY DEF RevokeRequest, RevokeBegin, handleRevokeFinish, RevokeFinish, CLIStep, Register,
         RequestExpires, Exchange, CLIEnds, missionVars
<1>5. log \in Seq(Event) /\ Len(log) \in Nat
  BY DEF IInv, MissionOK, MissionTypeOK
<1>6. WorkOK'
  BY <1>3, <1>4, <1>5, WorkStable DEF IInv
<1>7. CASE /\ \E c \in RevokeChallenges, reason \in Reasons : RevokeBegin(c, reason)
           /\ UNCHANGED cliVars
  <2>1. MissionOK' /\ RowOK' /\ RevokeOK' /\ Forward
    BY <1>7, BeginStep
  <2>2. /\ CliOK /\ UNCHANGED <<cliRow, cli>> /\ serves' \in [Revokers -> CLIs \cup {NoCLI}]
        /\ revokeIntent' = revokeIntent
    BY <1>7 DEF IInv, CliOK, CLIRevocationTypeOK, cliVars, RevokeBegin
  <2>3. CliOK'
    BY <2>1, <2>2, CliStable
  <2> QED BY <1>2, <1>6, <2>1, <2>3 DEF IInv
<1>8. CASE \E h \in Revokers, c \in RevokeChallenges, i \in CLIs \cup {NoCLI} :
              handleRevokeFinish(h, c, i)
  BY <1>2, <1>6, <1>8, FinishStep DEF IInv
<1>9. CASE \E i \in CLIs : CLIStep(i)
  BY <1>2, <1>6, <1>9, CliSteps DEF IInv
<1> QED BY <1>7, <1>8, <1>9 DEF RevokeRequest

-----------------------------------------------------------------------------
(* The requests that decide expansions.                                    *)

Deciding == Deciders \cup Workers
DecideRow == [pc : DecidePCs, binding : Binding, listed : [Expansions -> Status], result : Nat]
DecideIntentRow == [state : {"none", "in_flight", "completed"}, binding : Binding]

DecideMoves(a) ==
    /\ decideReq' \in [Deciding -> DecideRow]
    /\ \A b \in Deciding : b # a => decideReq'[b] = decideReq[b]

(* The tables keep their types.                                            *)
TablesTyped ==
    /\ requested' \in [Expansions -> RequestRow]
    /\ expansion' \in [Expansions -> Status]
    /\ decideBegun' \in [DecideChallenges -> Binding]
    /\ decideIntent' \in [Expansions -> DecideIntentRow]
    /\ decideCalls' \in [Expansions -> Nat]
    /\ decideLate' \in SUBSET Expansions

LEMMA DecideTypes ==
    ASSUME BindingsOK
    PROVE  /\ requested \in [Expansions -> RequestRow]
           /\ expansion \in [Expansions -> Status]
           /\ decideBegun \in [DecideChallenges -> Binding]
           /\ decideIntent \in [Expansions -> DecideIntentRow]
           /\ decideReq \in [Deciding -> DecideRow]
           /\ decideCalls \in [Expansions -> Nat]
           /\ decideLate \in SUBSET Expansions
  BY DEF BindingsOK, ExpansionTypeOK, RequestRow, DecideIntentRow, Deciding, DecideRow

LEMMA XGotoMoves ==
    ASSUME BindingsOK, NEW a \in Deciding, NEW label \in DecidePCs, XGoto(a, label)
    PROVE  /\ DecideMoves(a) /\ decideReq'[a].pc = label
           /\ decideReq'[a].binding = decideReq[a].binding
           /\ decideReq'[a].result = decideReq[a].result
<1>1. decideReq \in [Deciding -> DecideRow]
  BY DecideTypes
<1> DEFINE q == [decideReq[a] EXCEPT !.pc = label]
<1>2. /\ q \in DecideRow /\ q.pc = label /\ q.binding = decideReq[a].binding
      /\ q.result = decideReq[a].result
  BY <1>1 DEF DecideRow
<1>3. decideReq' = [decideReq EXCEPT ![a] = q]
  BY DEF XGoto
<1> HIDE DEF q
<1> QED BY <1>1, <1>2, <1>3 DEF DecideMoves

LEMMA IdleTyped ==
    DecideIdle \in DecideRow /\ DecideIdle.pc = "idle" /\ NoBinding \in Binding
        /\ UsedBinding \in Binding
<1>1. NoBinding \in Binding /\ UsedBinding \in Binding
  BY DEF NoBinding, UsedBinding, Binding
<1>2. [e \in Expansions |-> "none"] \in [Expansions -> Status]
  BY DEF Status
<1> QED BY <1>1, <1>2 DEF DecideIdle, DecideRow, DecidePCs

LEMMA XReturnMoves ==
    ASSUME BindingsOK, NEW a \in Deciding, XReturn(a)
    PROVE  DecideMoves(a) /\ decideReq'[a] = DecideIdle /\ DecideReqOK(a)'
<1>1. decideReq \in [Deciding -> DecideRow]
  BY DecideTypes
<1>2. decideReq' = [decideReq EXCEPT ![a] = DecideIdle]
  BY DEF XReturn
<1>3. DecideMoves(a) /\ decideReq'[a] = DecideIdle
  BY <1>1, <1>2, IdleTyped DEF DecideMoves
<1> QED BY <1>3, IdleTyped DEF DecideReqOK

LEMMA DecideStep ==
    ASSUME BindingsOK, NEW a \in Deciding, DecideMoves(a), DecideReqOK(a)', TablesTyped,
           BegunOK', IntentsOK'
    PROVE  BindingsOK'
<1>1. ExpansionTypeOK'
  BY DEF ExpansionTypeOK, TablesTyped, DecideMoves, RequestRow, DecideIntentRow, DecideRow, Deciding
<1>2. \A b \in Deciding : DecideReqOK(b)'
  <2> TAKE b \in Deciding
  <2>1. CASE b = a
    BY <2>1
  <2>2. CASE b # a
    BY <2>2 DEF BindingsOK, DecideMoves, DecideReqOK, Deciding
  <2> QED BY <2>1, <2>2
<1> QED BY <1>1, <1>2 DEF BindingsOK, Deciding

LEMMA TablesStable ==
    ASSUME BindingsOK,
           UNCHANGED <<requested, expansion, decideBegun, decideIntent, decideCalls, decideLate>>
    PROVE  TablesTyped /\ BegunOK' /\ IntentsOK'
<1>1. TablesTyped
  BY DecideTypes DEF TablesTyped
<1>2. BegunOK' /\ IntentsOK'
  BY DEF BindingsOK, BegunOK, IntentsOK
<1> QED BY <1>1, <1>2

(* The steps of a request that write nothing but its own place.            *)
LEMMA DecideReads ==
    ASSUME BindingsOK, NEW a \in Deciding, DecideMoves(a), DecideReqOK(a)',
           UNCHANGED <<requested, expansion, decideBegun, decideIntent, decideCalls, decideLate>>
    PROVE  BindingsOK'
<1>1. TablesTyped /\ BegunOK' /\ IntentsOK'
  BY TablesStable
<1> QED BY <1>1, DecideStep

LEMMA SyncSteps ==
    ASSUME BindingsOK, NEW a \in Deciding,
           SyncPut(a) \/ SyncResolve(a) \/ \E c \in DecideChallenges : BeginDecision(a, c),
           pass \in PassRow
    PROVE  BindingsOK' /\ UNCHANGED missionVars
<1>1. /\ requested \in [Expansions -> RequestRow] /\ expansion \in [Expansions -> Status]
      /\ decideReq \in [Deciding -> DecideRow] /\ DecideReqOK(a)
      /\ decideReq[a] \in DecideRow /\ decideReq[a].listed \in [Expansions -> Status]
  BY DecideTypes DEF BindingsOK, Deciding, DecideRow
<1>2. /\ UNCHANGED <<missionVars, requested, decideIntent, decideCalls, decideLate>>
  BY DEF SyncPut, SyncResolve, BeginDecision
<1>3. /\ "pending" \in Status /\ "resolved" \in Status
  BY DEF Status
<1>4. /\ requested' \in [Expansions -> RequestRow] /\ decideIntent' \in [Expansions -> DecideIntentRow]
      /\ decideCalls' \in [Expansions -> Nat] /\ decideLate' \in SUBSET Expansions
  BY <1>2, DecideTypes
<1>5. IntentsOK'
  BY <1>2 DEF BindingsOK, IntentsOK
<1>6. CASE SyncPut(a) \/ SyncResolve(a)
  <2>1. expansion' \in [Expansions -> Status]
    <3>1. CASE SyncPut(a)
      <4>1. expansion' = expansion \/
            expansion' = [e \in Expansions |-> IF e \in {x \in Expansions : decideReq[a].listed[x] = "pending"}
                                               THEN "pending" ELSE expansion[e]]
        BY <3>1 DEF SyncPut
      <4> QED BY <1>1, <1>3, <4>1
    <3>2. CASE SyncResolve(a)
      <4>1. expansion' = [e \in Expansions |->
                IF expansion[e] # "pending" \/ decideReq[a].listed[e] = "pending" THEN expansion[e]
                ELSE IF decideReq[a].listed[e] = "none" THEN "resolved" ELSE decideReq[a].listed[e]]
        BY <3>2 DEF SyncResolve
      <4> QED BY <1>1, <1>3, <4>1
    <3> QED BY <1>6, <3>1, <3>2
  <2>2. decideBegun' = decideBegun
    BY <1>6 DEF SyncPut, SyncResolve
  <2>3. TablesTyped /\ BegunOK'
    BY <1>4, <2>1, <2>2, DecideTypes DEF TablesTyped, BindingsOK, BegunOK
  <2>4. CASE XReturn(a)
    BY <1>5, <2>3, <2>4, <1>2, XReturnMoves, DecideStep
  <2>5. CASE XGoto(a, "sync_resolve") /\ decideReq[a].pc = "sync_put"
    <3>1. /\ DecideMoves(a) /\ decideReq'[a].pc = "sync_resolve"
          /\ decideReq'[a].binding = decideReq[a].binding
      BY <2>5, XGotoMoves DEF DecidePCs
    <3>2. DecideReqOK(a)'
      BY <1>1, <2>5, <3>1 DEF DecideReqOK, Decides
    <3> QED BY <1>2, <1>5, <2>3, <3>1, <3>2, DecideStep
  <2>6. CASE /\ XGoto(a, "begin") /\ decideReq[a].pc = "sync_resolve"
             /\ decideReq[a].binding # NoBinding
    <3>1. /\ DecideMoves(a) /\ decideReq'[a].pc = "begin"
          /\ decideReq'[a].binding = decideReq[a].binding
      BY <2>6, XGotoMoves DEF DecidePCs
    <3>2. DecideReqOK(a)'
      BY <1>1, <2>6, <3>1 DEF DecideReqOK, Decides
    <3> QED BY <1>2, <1>5, <2>3, <3>1, <3>2, DecideStep
  <2>7. \/ XReturn(a)
        \/ XGoto(a, "sync_resolve") /\ decideReq[a].pc = "sync_put"
        \/ /\ XGoto(a, "begin") /\ decideReq[a].pc = "sync_resolve"
           /\ decideReq[a].binding # NoBinding
    BY <1>6 DEF SyncPut, SyncResolve
  <2> QED BY <2>4, <2>5, <2>6, <2>7
<1>7. ASSUME NEW c \in DecideChallenges, BeginDecision(a, c) PROVE BindingsOK'
  <2>1. DecideMoves(a) /\ DecideReqOK(a)'
    BY <1>7, XReturnMoves DEF BeginDecision
  <2> DEFINE b == [decideReq[a].binding EXCEPT !.ver = pass.mver]
  <2>2. b \in Binding /\ Decides(b)
    <3>1. Decides(decideReq[a].binding) /\ decideReq[a].binding \in Binding
      BY <1>1, <1>7 DEF BeginDecision, DecideReqOK, DecideRow
    <3>2. pass.mver \in Nat
      BY DEF PassRow
    <3> QED BY <3>1, <3>2 DEF Binding, Decides
  <2>3. decideBegun' = [decideBegun EXCEPT ![c] = b] \/ decideBegun' = decideBegun
    BY <1>7 DEF BeginDecision
  <2> HIDE DEF b
  <2>4. decideBegun' \in [DecideChallenges -> Binding] /\ BegunOK'
    BY <2>2, <2>3, DecideTypes DEF BindingsOK, BegunOK, Decides
  <2>5. expansion' \in [Expansions -> Status]
    BY <1>1, <1>7 DEF BeginDecision
  <2>6. TablesTyped
    BY <1>4, <2>4, <2>5 DEF TablesTyped
  <2> QED BY <1>5, <2>1, <2>4, <2>6, DecideStep
<1> QED BY <1>2, <1>6, <1>7

(* decideOnce up to the intent, and reconcileLocked up to its settlement.  *)
LEMMA DecidePlaceSteps ==
    ASSUME BindingsOK, NEW a \in Deciding, pass \in PassRow,
           \/ DecideLock(a) \/ PutExpansionIntent(a) \/ ReadExpansionIntent(a)
           \/ QueryExpansion(a) \/ QueryExpansionFailed(a)
    PROVE  BindingsOK' /\ UNCHANGED missionVars
<1>1. /\ decideReq \in [Deciding -> DecideRow] /\ DecideReqOK(a) /\ decideReq[a] \in DecideRow
      /\ decideReq[a].binding \in Binding
  BY DecideTypes DEF BindingsOK, Deciding, DecideRow
<1>2. UNCHANGED <<missionVars, requested, expansion, decideBegun, decideCalls, decideLate>>
  BY DEF DecideLock, PutExpansionIntent, ReadExpansionIntent, QueryExpansion, QueryExpansionFailed
<1>3. CASE UNCHANGED decideIntent /\ XReturn(a)
  <2>1. UNCHANGED <<requested, expansion, decideBegun, decideIntent, decideCalls, decideLate>>
    BY <1>2, <1>3
  <2> QED BY <1>2, <1>3, <2>1, XReturnMoves, DecideReads
<1>4. ASSUME NEW label \in {"put", "reconcile"}, UNCHANGED decideIntent, XGoto(a, label),
             decideReq[a].pc \in {"lock", "put"}
      PROVE  BindingsOK'
  <2>1. /\ DecideMoves(a) /\ decideReq'[a].pc = label
        /\ decideReq'[a].binding = decideReq[a].binding
    BY <1>4, XGotoMoves DEF DecidePCs
  <2>2. DecideReqOK(a)'
    BY <1>1, <1>4, <2>1 DEF DecideReqOK, Decides
  <2>3. UNCHANGED <<requested, expansion, decideBegun, decideIntent, decideCalls, decideLate>>
    BY <1>2, <1>4
  <2> QED BY <2>1, <2>2, <2>3, DecideReads
<1>5. CASE /\ decideReq[a].pc = "put" /\ XGoto(a, "call")
           /\ decideIntent' = [decideIntent EXCEPT ![decideReq[a].binding.exp] =
                                 [state |-> "in_flight", binding |-> decideReq[a].binding]]
  <2>1. /\ DecideMoves(a) /\ decideReq'[a].pc = "call"
        /\ decideReq'[a].binding = decideReq[a].binding
    BY <1>5, XGotoMoves DEF DecidePCs
  <2>2. DecideReqOK(a)' /\ Decides(decideReq[a].binding)
    BY <1>1, <1>5, <2>1 DEF DecideReqOK, Decides
  <2> DEFINE i == [state |-> "in_flight", binding |-> decideReq[a].binding]
  <2>3. /\ i \in DecideIntentRow /\ i.binding = decideReq[a].binding
    BY <1>1 DEF DecideIntentRow
  <2>4. decideIntent' = [decideIntent EXCEPT ![decideReq[a].binding.exp] = i]
    BY <1>5
  <2> HIDE DEF i
  <2>5. decideIntent' \in [Expansions -> DecideIntentRow] /\ IntentsOK'
    BY <2>2, <2>3, <2>4, DecideTypes DEF BindingsOK, IntentsOK, Decides
  <2>6. TablesTyped /\ BegunOK'
    BY <1>2, <2>5, DecideTypes DEF TablesTyped, BindingsOK, BegunOK
  <2> QED BY <1>2, <2>1, <2>2, <2>5, <2>6, DecideStep
<1>6. CASE ReadExpansionIntent(a) /\ decideIntent[decideReq[a].binding.exp].state = "in_flight"
  <2>1. PICK e \in Expansions : e = decideReq[a].binding.exp
    BY <1>1, <1>6 DEF ReadExpansionIntent, DecideReqOK
  <2>2. PICK b \in Binding : b = decideIntent[e].binding /\ Decides(b)
    BY <1>6, <2>1, DecideTypes DEF BindingsOK, IntentsOK, DecideIntentRow
  <2> DEFINE q == [decideReq[a] EXCEPT !.pc = "query", !.binding = b]
  <2>3. q \in DecideRow /\ q.pc = "query" /\ q.binding = b
    BY <1>1 DEF DecideRow, DecidePCs
  <2>4. decideReq' = [decideReq EXCEPT ![a] = q] /\ UNCHANGED decideIntent
    BY <1>6, <2>1, <2>2 DEF ReadExpansionIntent
  <2> HIDE DEF q
  <2>5. DecideMoves(a) /\ DecideReqOK(a)'
    BY <1>1, <2>2, <2>3, <2>4 DEF DecideMoves, DecideReqOK, Decides
  <2>6. UNCHANGED <<requested, expansion, decideBegun, decideIntent, decideCalls, decideLate>>
    BY <1>2, <2>4
  <2> QED BY <1>2, <2>5, <2>6, DecideReads
<1>7. CASE QueryExpansion(a)
  <2>1. Decides(decideReq[a].binding)
    BY <1>1, <1>7 DEF QueryExpansion, DecideReqOK
  <2>2. requested[decideReq[a].binding.exp].decided \in Nat /\ pass.mver \in Nat
    BY <2>1, DecideTypes DEF Decides, RequestRow, PassRow
  <2> DEFINE b == [decideReq[a].binding EXCEPT !.ver = pass.mver]
             q == [decideReq[a] EXCEPT !.pc = "settle", !.binding = b,
                                       !.result = requested[decideReq[a].binding.exp].decided]
  <2>3. b \in Binding /\ Decides(b)
    BY <1>1, <2>1, <2>2 DEF Binding, Decides
  <2>4. decideReq' = [decideReq EXCEPT ![a] = q] /\ UNCHANGED decideIntent
    BY <1>7 DEF QueryExpansion
  <2> HIDE DEF b
  <2>5. q \in DecideRow /\ q.pc = "settle" /\ q.binding = b
    BY <1>1, <2>2, <2>3 DEF DecideRow, DecidePCs
  <2> HIDE DEF q
  <2>6. DecideMoves(a) /\ DecideReqOK(a)'
    BY <1>1, <2>3, <2>4, <2>5 DEF DecideMoves, DecideReqOK, Decides
  <2>7. UNCHANGED <<requested, expansion, decideBegun, decideIntent, decideCalls, decideLate>>
    BY <1>2, <2>4
  <2> QED BY <1>2, <2>6, <2>7, DecideReads
<1>8. CASE DecideLock(a)
  <2>1. \/ UNCHANGED decideIntent /\ XReturn(a)
        \/ UNCHANGED decideIntent /\ decideReq[a].pc = "lock" /\ XGoto(a, "put")
        \/ UNCHANGED decideIntent /\ decideReq[a].pc = "lock" /\ XGoto(a, "reconcile")
    BY <1>8, Zenon DEF DecideLock
  <2> QED BY <1>2, <1>3, <1>4, <2>1
<1>9. CASE PutExpansionIntent(a)
  BY <1>2, <1>4, <1>5, <1>9 DEF PutExpansionIntent
<1>10. CASE ReadExpansionIntent(a)
  BY <1>2, <1>3, <1>6, <1>10 DEF ReadExpansionIntent
<1>11. CASE QueryExpansionFailed(a)
  BY <1>2, <1>3, <1>11 DEF QueryExpansionFailed
<1> QED BY <1>2, <1>7, <1>8, <1>9, <1>10, <1>11

(* The call to the authority.                                              *)
LEMMA DecideCallSteps ==
    ASSUME IInv, NEW a \in Deciding, DecideExpansionAnswered(a) \/ DecideExpansionFailed(a)
    PROVE  BindingsOK' /\ MissionOK' /\ Forward /\ UNCHANGED <<pass, log>>
<1>1. /\ decideReq \in [Deciding -> DecideRow] /\ DecideReqOK(a) /\ decideReq[a] \in DecideRow
      /\ BindingsOK /\ MissionOK /\ decideReq[a].pc = "call" /\ pass \in PassRow
  BY DecideTypes DEF IInv, BindingsOK, Deciding, DecideExpansionAnswered, DecideExpansionFailed,
                     MissionOK, MissionTypeOK
<1>2. PICK b \in Binding : b = decideReq[a].binding /\ Decides(b)
  BY <1>1 DEF DecideReqOK, DecideRow
<1>3. PICK e \in Expansions : e = b.exp
  BY <1>2 DEF Decides
<1>4. /\ UNCHANGED <<pass, log, expansion, decideBegun, decideIntent>>
      /\ decideCalls' = [decideCalls EXCEPT ![e] = @ + 1]
      /\ ApplyDecision(e, b.decision) \/ UNCHANGED <<mission, requested>>
      /\ decideLate' = decideLate \/ decideLate' = decideLate \cup {e}
  BY <1>2, <1>3 DEF DecideExpansionAnswered, DecideExpansionFailed
<1>5. requested' \in [Expansions -> RequestRow]
  BY <1>1, <1>4, DecisionTyped, DecideTypes
<1>6. MissionOK' /\ Forward
  <2>1. CASE ApplyDecision(e, b.decision)
    <3>1. PICK d : d = b.decision
      OBVIOUS
    <3> QED BY <1>1, <1>4, <2>1, <3>1, DecisionMoves
  <2>2. CASE UNCHANGED <<mission, requested>>
    BY <1>1, <1>4, <2>2, MissionStable
  <2> QED BY <1>4, <2>1, <2>2
<1>7. DecideMoves(a) /\ DecideReqOK(a)'
  <2>1. CASE XReturn(a)
    BY <1>1, <2>1, XReturnMoves
  <2>2. CASE XGoto(a, "mark")
    <3>1. /\ DecideMoves(a) /\ decideReq'[a].pc = "mark"
          /\ decideReq'[a].binding = decideReq[a].binding
      BY <1>1, <2>2, XGotoMoves DEF DecidePCs
    <3>2. DecideReqOK(a)'
      BY <1>2, <3>1 DEF DecideReqOK, Decides
    <3> QED BY <3>1, <3>2
  <2>3. CASE DecideExpansionAnswered(a)
    <3>1. PICK v \in Nat : v = requested'[e].decided
      BY <1>5 DEF RequestRow
    <3> DEFINE q == [decideReq[a] EXCEPT !.pc = "settle", !.result = v]
    <3>2. q \in DecideRow /\ q.pc = "settle" /\ q.binding = b
      BY <1>1, <1>2 DEF DecideRow, DecidePCs
    <3>3. decideReq' = [decideReq EXCEPT ![a] = q]
      BY <1>2, <1>3, <2>3, <3>1 DEF DecideExpansionAnswered
    <3> HIDE DEF q
    <3> QED BY <1>1, <1>2, <3>2, <3>3 DEF DecideMoves, DecideReqOK, Decides
  <2> QED BY <2>1, <2>2, <2>3 DEF DecideExpansionFailed
<1>8. TablesTyped /\ BegunOK' /\ IntentsOK'
  <2>1. decideCalls' \in [Expansions -> Nat] /\ decideLate' \in SUBSET Expansions
    BY <1>1, <1>4, DecideTypes
  <2>2. BegunOK' /\ IntentsOK'
    BY <1>1, <1>4 DEF BindingsOK, BegunOK, IntentsOK
  <2> QED BY <1>1, <1>4, <1>5, <2>1, <2>2, DecideTypes DEF TablesTyped
<1> QED BY <1>1, <1>4, <1>6, <1>7, <1>8, DecideStep

(* An uncertain call, and the settlement of a decided expansion.           *)
LEMMA DecideRowSteps ==
    ASSUME IInv, NEW a \in Deciding, markDecisionPending(a) \/ settleDecision(a)
    PROVE  /\ BindingsOK' /\ UNCHANGED <<mission, log>> /\ pass' \in PassRow
           /\ pass'.cont = pass.cont /\ pass'.state \in {pass.state, "running"}
<1>1. /\ decideReq \in [Deciding -> DecideRow] /\ DecideReqOK(a) /\ decideReq[a] \in DecideRow
      /\ BindingsOK /\ pass \in PassRow
  BY DecideTypes DEF IInv, BindingsOK, Deciding, MissionOK, MissionTypeOK
<1>2. DecideMoves(a) /\ DecideReqOK(a)'
  BY <1>1, XReturnMoves DEF markDecisionPending, settleDecision
<1>3. CASE markDecisionPending(a)
  <2>1. /\ pass' = [pass EXCEPT !.recon = "pending"]
        /\ UNCHANGED <<mission, log, requested, expansion, decideBegun, decideIntent,
                       decideCalls, decideLate>>
    BY <1>3 DEF markDecisionPending
  <2>2. pass' \in PassRow /\ pass'.cont = pass.cont /\ pass'.state = pass.state
    BY <1>1, <2>1 DEF PassRow, ReconciliationState
  <2>3. BindingsOK'
    BY <1>1, <1>2, <2>1, DecideReads
  <2> QED BY <2>1, <2>2, <2>3
<1>4. CASE settleDecision(a)
  <2>1. PICK b \in Binding : b = decideReq[a].binding /\ Decides(b)
    BY <1>1, <1>4 DEF settleDecision, DecideReqOK, DecideRow
  <2>2. PICK v \in Nat : v = decideReq[a].result
    BY <1>1 DEF DecideRow
  <2>3. PICK e \in Expansions : e = b.exp
    BY <2>1 DEF Decides
  <2>4. UNCHANGED <<mission, log, requested, decideBegun, decideCalls, decideLate>>
    BY <1>4 DEF settleDecision
  <2>5. /\ pass' = pass \/ pass' = DecidedRow(pass, v)
        /\ \/ expansion' = [expansion EXCEPT ![e] = "approved"]
           \/ expansion' = [expansion EXCEPT ![e] = "denied"]
           \/ expansion' = expansion
        /\ \/ /\ decideIntent' = [decideIntent EXCEPT ![e].state = "completed"]
              /\ decideIntent[e].state = "in_flight"
           \/ decideIntent' = decideIntent
    BY <1>4, <2>1, <2>2, <2>3 DEF settleDecision
  <2>6. /\ pass' \in PassRow /\ pass'.cont = pass.cont /\ pass'.state \in {pass.state, "running"}
    <3>1. CASE pass' = pass
      BY <1>1, <3>1
    <3>2. CASE pass' = [pass EXCEPT !.mver = v, !.state = "running", !.recon = "settled"]
      BY <1>1, <3>2 DEF PassRow, PassState, ReconciliationState
    <3> QED BY <2>5, <3>1, <3>2 DEF DecidedRow
  <2>7. expansion' \in [Expansions -> Status]
    BY <1>1, <2>5, DecideTypes DEF Status
  <2>8. decideIntent' \in [Expansions -> DecideIntentRow] /\ IntentsOK'
    <3>1. CASE /\ decideIntent' = [decideIntent EXCEPT ![e].state = "completed"]
               /\ decideIntent[e].state = "in_flight"
      <4> DEFINE i == [decideIntent[e] EXCEPT !.state = "completed"]
      <4>1. decideIntent[e] \in DecideIntentRow
        BY <1>1, DecideTypes
      <4>2. i \in DecideIntentRow /\ i.binding = decideIntent[e].binding
        BY <4>1 DEF DecideIntentRow
      <4>3. decideIntent' = [decideIntent EXCEPT ![e] = i]
        BY <3>1
      <4>4. Decides(decideIntent[e].binding) /\ decideIntent[e].binding.exp = e
        BY <1>1, <3>1 DEF BindingsOK, IntentsOK
      <4> HIDE DEF i
      <4> QED BY <1>1, <4>2, <4>3, <4>4, DecideTypes DEF BindingsOK, IntentsOK
    <3>2. CASE decideIntent' = decideIntent
      BY <1>1, <3>2, DecideTypes DEF BindingsOK, IntentsOK
    <3> QED BY <2>5, <3>1, <3>2
  <2>9. TablesTyped /\ BegunOK'
    BY <1>1, <2>4, <2>7, <2>8, DecideTypes DEF TablesTyped, BindingsOK, BegunOK
  <2>10. BindingsOK'
    BY <1>1, <1>2, <2>8, <2>9, DecideStep
  <2> QED BY <2>4, <2>6, <2>10
<1> QED BY <1>3, <1>4

(* The rest of the state, while no revocation moves.                       *)
LEMMA RestStable ==
    ASSUME IInv, Forward, UNCHANGED <<revocationVars, cliVars>>
    PROVE  RevokeOK' /\ CliOK'
<1>1. /\ UNCHANGED <<revokeIntent, revokeReq, revokeCalls>> /\ RevokeOK
      /\ revokeBegun' \in [RevokeChallenges -> RevokeDigest] /\ revokeLate' \in BOOLEAN
  BY DEF revocationVars, IInv, RevokeOK, RevocationTypeOK
<1>2. RevokeOK'
  BY <1>1, RevokeStable
<1>3. /\ CliOK /\ UNCHANGED <<cliRow, cli>> /\ serves' \in [Revokers -> CLIs \cup {NoCLI}]
      /\ revokeIntent' = revokeIntent
  BY DEF IInv, CliOK, CLIRevocationTypeOK, cliVars, revocationVars
<1>4. CliOK'
  BY <1>3, CliStable
<1> QED BY <1>2, <1>4

LEMMA DecideFrame ==
    ASSUME IInv, MissionOK', Forward, log' = log, pass'.cont = pass.cont,
           pass'.state \in {pass.state, "running"},
           UNCHANGED <<revocationVars, cliVars>>
    PROVE  RowOK' /\ RevokeOK' /\ CliOK'
<1>1. RowOK'
  BY RowStable DEF IInv
<1> QED BY <1>1, RestStable

LEMMA DeciderSteps ==
    ASSUME IInv, NEW a \in Deciding, DeciderStep(a)
    PROVE  /\ BindingsOK' /\ MissionOK' /\ Forward /\ log' = log
           /\ pass'.cont = pass.cont /\ pass'.state \in {pass.state, "running"}
<1>1. BindingsOK /\ pass \in PassRow /\ MissionOK
  BY DEF IInv, MissionOK, MissionTypeOK
<1>2. CASE SyncPut(a) \/ SyncResolve(a) \/ \E c \in DecideChallenges : BeginDecision(a, c)
  <2>1. BindingsOK' /\ UNCHANGED missionVars
    BY <1>1, <1>2, SyncSteps
  <2>2. UNCHANGED <<mission, log>> /\ pass' = pass /\ log' = log
    BY <2>1 DEF missionVars
  <2>3. MissionOK' /\ Forward
    BY <1>1, <2>2, MissionStable
  <2> QED BY <2>1, <2>2, <2>3
<1>3. CASE \/ DecideLock(a) \/ PutExpansionIntent(a) \/ ReadExpansionIntent(a)
           \/ QueryExpansion(a) \/ QueryExpansionFailed(a)
  <2>1. BindingsOK' /\ UNCHANGED missionVars
    BY <1>1, <1>3, DecidePlaceSteps
  <2>2. UNCHANGED <<mission, log>> /\ pass' = pass /\ log' = log
    BY <2>1 DEF missionVars
  <2>3. MissionOK' /\ Forward
    BY <1>1, <2>2, MissionStable
  <2> QED BY <2>1, <2>2, <2>3
<1>4. CASE DecideExpansionAnswered(a) \/ DecideExpansionFailed(a)
  <2>1. BindingsOK' /\ MissionOK' /\ Forward /\ UNCHANGED <<pass, log>>
    BY <1>4, DecideCallSteps
  <2>2. pass' = pass /\ log' = log
    BY <2>1
  <2> QED BY <2>1, <2>2
<1>5. CASE markDecisionPending(a) \/ settleDecision(a)
  <2>1. /\ BindingsOK' /\ UNCHANGED <<mission, log>> /\ pass' \in PassRow
        /\ pass'.cont = pass.cont /\ pass'.state \in {pass.state, "running"}
    BY <1>5, DecideRowSteps
  <2>2. MissionOK' /\ Forward /\ log' = log
    BY <1>1, <2>1, MissionStable
  <2> QED BY <2>1, <2>2
<1> QED BY <1>2, <1>3, <1>4, <1>5 DEF DeciderStep

LEMMA DecideProgressStep ==
    ASSUME IInv, NEW a \in Deciding, DecideProgress(a)
    PROVE  IInv'
<1>1. /\ DeciderStep(a) /\ UNCHANGED <<revocationVars, cliVars>>
      /\ UNCHANGED <<proj, work, view, todo, crashes>>
  BY DEF DecideProgress, projectionVars
<1>2. /\ BindingsOK' /\ MissionOK' /\ Forward /\ log' = log
      /\ pass'.cont = pass.cont /\ pass'.state \in {pass.state, "running"}
  BY <1>1, DeciderSteps
<1>3. RowOK' /\ RevokeOK' /\ CliOK'
  BY <1>1, <1>2, DecideFrame
<1>4. log \in Seq(Event) /\ Len(log) \in Nat /\ WorkOK
  BY DEF IInv, MissionOK, MissionTypeOK
<1>5. WorkOK'
  BY <1>1, <1>2, <1>4, WorkStable
<1> QED BY <1>2, <1>3, <1>5 DEF IInv

LEMMA DecideRequestStep ==
    ASSUME IInv, DecideRequest
    PROVE  IInv'
<1>1. /\ UNCHANGED <<revocationVars, cliVars>> /\ UNCHANGED <<proj, work, view, todo, crashes>>
      /\ UNCHANGED missionVars
  BY DEF DecideRequest, projectionVars, StartSync, FinishDecision
<1>2. pass' = pass /\ UNCHANGED <<mission, log>> /\ log' = log
  BY <1>1 DEF missionVars
<1>3. /\ log \in Seq(Event) /\ Len(log) \in Nat /\ WorkOK /\ MissionOK /\ BindingsOK
      /\ pass \in PassRow
  BY DEF IInv, MissionOK, MissionTypeOK
<1>4. MissionOK' /\ Forward
  BY <1>2, <1>3, MissionStable
<1>5. RowOK' /\ RevokeOK' /\ CliOK'
  BY <1>1, <1>2, <1>4, DecideFrame
<1>6. WorkOK'
  BY <1>1, <1>2, <1>3, WorkStable
<1>7. ASSUME NEW h \in Deciders, NEW b \in Binding, b = NoBinding \/ Decides(b), StartSync(h, b)
      PROVE  BindingsOK'
  <2> DEFINE q == [pc |-> "sync_put", binding |-> b, result |-> 0,
                   listed |-> [e \in Expansions |-> requested[e].status]]
  <2>1. decideReq \in [Deciding -> DecideRow] /\ h \in Deciding
    BY <1>3, DecideTypes DEF Deciding
  <2>2. [e \in Expansions |-> requested[e].status] \in [Expansions -> Status]
    BY <1>3, DecideTypes DEF RequestRow, Status
  <2>3. q \in DecideRow /\ q.pc = "sync_put" /\ q.binding = b
    BY <2>2 DEF DecideRow, DecidePCs
  <2>4. /\ decideReq' = [decideReq EXCEPT ![h] = q]
        /\ UNCHANGED <<requested, expansion, decideBegun, decideIntent, decideCalls, decideLate>>
    BY <1>7 DEF StartSync
  <2> HIDE DEF q
  <2>5. DecideMoves(h) /\ DecideReqOK(h)'
    BY <1>7, <2>1, <2>3, <2>4 DEF DecideMoves, DecideReqOK, Decides
  <2> QED BY <1>3, <2>1, <2>4, <2>5, DecideReads
<1>8. ASSUME NEW h \in Deciders, NEW c \in DecideChallenges, FinishDecision(h, c)
      PROVE  BindingsOK'
  <2>1. decideReq \in [Deciding -> DecideRow] /\ h \in Deciding
    BY <1>3, DecideTypes DEF Deciding
  <2>2. PICK b \in Binding : b = decideBegun[c] /\ Decides(b)
    BY <1>3, <1>8, DecideTypes DEF FinishDecision, BindingsOK, BegunOK
  <2> DEFINE q == [DecideIdle EXCEPT !.pc = "lock", !.binding = b]
  <2>3. q \in DecideRow /\ q.pc = "lock" /\ q.binding = b
    <3>1. DecideIdle \in DecideRow
      BY IdleTyped
    <3> QED BY <3>1 DEF DecideRow, DecidePCs
  <2>4. /\ decideReq' = [decideReq EXCEPT ![h] = q] \/ decideReq' = decideReq
        /\ decideBegun' = [decideBegun EXCEPT ![c] = UsedBinding]
        /\ UNCHANGED <<requested, expansion, decideIntent, decideCalls, decideLate>>
    BY <1>8, <2>2 DEF FinishDecision
  <2> HIDE DEF q
  <2>5. decideReq' = [decideReq EXCEPT ![h] = q] => DecideMoves(h) /\ DecideReqOK(h)'
    BY <2>1, <2>2, <2>3, <2>4 DEF DecideMoves, DecideReqOK, Decides
  <2>6. decideReq' = decideReq => DecideMoves(h) /\ DecideReqOK(h)'
    BY <1>3, <2>1 DEF DecideMoves, DecideReqOK, BindingsOK, Deciding
  <2>7. decideBegun' \in [DecideChallenges -> Binding] /\ BegunOK'
    BY <1>3, <2>4, IdleTyped, DecideTypes DEF BindingsOK, BegunOK
  <2>8. TablesTyped /\ IntentsOK'
    BY <1>3, <2>4, <2>7, DecideTypes DEF TablesTyped, BindingsOK, IntentsOK
  <2> QED BY <1>3, <2>1, <2>4, <2>5, <2>6, <2>7, <2>8, DecideStep
<1>9. BindingsOK'
  <2>1. NoBinding \in Binding
    BY IdleTyped
  <2>2. \A e \in Expansions, d \in Decisions :
            LET b == [exp |-> e, ver |-> 0, decision |-> d] IN b \in Binding /\ Decides(b)
    BY DEF Binding, Decides
  <2> QED BY <1>7, <1>8, <2>1, <2>2 DEF DecideRequest
<1> QED BY <1>4, <1>5, <1>6, <1>9 DEF IInv

-----------------------------------------------------------------------------
(* The authority on its own.                                               *)

LEMMA AuthorityStep ==
    ASSUME IInv, Authority
    PROVE  IInv'
<1>1. /\ UNCHANGED <<cliVars, view, todo, crashes>> /\ UNCHANGED <<proj, work>>
      /\ UNCHANGED <<proj, work, view, todo, crashes>>
  BY DEF Authority, projectionVars
<1>2. /\ log \in Seq(Event) /\ Len(log) \in Nat /\ WorkOK /\ MissionOK /\ BindingsOK /\ RowOK
      /\ RevokeOK /\ CliOK /\ pass \in PassRow /\ mission \in MissionRow
  BY DEF IInv, MissionOK, MissionTypeOK, MissionRow
<1>3. CASE RunnerStep /\ UNCHANGED <<revocationVars, expansionVars>>
  <2>1. /\ MissionOK' /\ Forward /\ UNCHANGED pass
        /\ log \in Seq(Event) /\ log' \in Seq(Event) /\ Len(log) =< Len(log')
    BY <1>2, <1>3, RunnerMoves
  <2>2. RowOK'
    BY <1>2, <2>1, RowStable
  <2>3. WorkOK'
    BY <1>1, <1>2, <2>1, WorkStable
  <2>4. RevokeOK' /\ CliOK'
    BY <1>1, <1>3, <2>1, RestStable
  <2>5. BindingsOK'
    BY <1>2, <1>3, BindingsStable
  <2> QED BY <2>1, <2>2, <2>3, <2>4, <2>5 DEF IInv
<1>4. CASE RevokeCallArrivesLate /\ UNCHANGED expansionVars
  <2>1. /\ revokeLate' = FALSE
        /\ \/ UNCHANGED <<mission, log>>
           \/ mission.state # "revoked" /\ \E cont \in Answers : ApplyRevoke(cont)
        /\ UNCHANGED <<pass, revokeBegun, revokeIntent, revokeReq, revokeCalls>>
    BY <1>4 DEF RevokeCallArrivesLate
  <2>2. pass' = pass
    BY <2>1
  <2>3. MissionOK' /\ Forward /\ log' \in Seq(Event) /\ Len(log) =< Len(log')
    <3>1. CASE UNCHANGED <<mission, log>>
      <4>1. log' = log
        BY <3>1
      <4> QED BY <1>2, <2>2, <3>1, <4>1, MissionStable
    <3>2. CASE mission.state # "revoked" /\ \E cont \in Answers : ApplyRevoke(cont)
      BY <1>2, <2>2, <3>2, RevokeMoves
    <3> QED BY <2>1, <3>1, <3>2
  <2>4. RowOK'
    BY <1>2, <2>2, <2>3, RowStable
  <2>5. WorkOK'
    BY <1>1, <1>2, <2>3, WorkStable
  <2>6. revokeBegun' \in [RevokeChallenges -> RevokeDigest] /\ revokeLate' \in BOOLEAN
    BY <1>2, <2>1 DEF RevokeOK, RevocationTypeOK
  <2>7. UNCHANGED <<revokeIntent, revokeReq, revokeCalls>> /\ revokeIntent' = revokeIntent
    BY <2>1
  <2>8. RevokeOK'
    BY <1>2, <2>3, <2>6, <2>7, RevokeStable
  <2>9. UNCHANGED <<cliRow, cli>> /\ serves' \in [Revokers -> CLIs \cup {NoCLI}]
    BY <1>1, <1>2 DEF CliOK, CLIRevocationTypeOK, cliVars
  <2>10. CliOK'
    BY <1>2, <2>3, <2>7, <2>9, CliStable
  <2>11. BindingsOK'
    BY <1>2, <1>4, BindingsStable
  <2> QED BY <2>3, <2>4, <2>5, <2>8, <2>10, <2>11 DEF IInv
<1>5. ASSUME NEW e \in Expansions, RequestExpansion(e), UNCHANGED revocationVars
      PROVE  IInv'
  <2>1. /\ Emit("expansion_requested", mission.ver)
        /\ requested' = [requested EXCEPT ![e].status = "pending", ![e].ver = mission.ver]
        /\ UNCHANGED <<pass, mission, expansion, decideBegun, decideIntent, decideReq,
                       decideCalls, decideLate>>
    BY <1>5 DEF RequestExpansion
  <2>2. pass' = pass /\ mission' = mission /\ Forward /\ mission.ver \in Nat
    BY <1>2, <2>1 DEF Forward, MissionRow
  <2>3. "expansion_requested" \in EventTypes /\ (mission.cont = "acknowledged" => mission.state = "revoked")
    BY <1>2 DEF EventTypes, MissionOK
  <2>4. MissionOK' /\ log' \in Seq(Event) /\ Len(log) =< Len(log')
    BY <1>2, <2>1, <2>2, <2>3, AuthorityLogs
  <2>5. RowOK'
    BY <1>2, <2>2, RowStable
  <2>6. WorkOK'
    BY <1>1, <1>2, <2>4, WorkStable
  <2>7. RevokeOK' /\ CliOK'
    BY <1>1, <1>5, <2>2, RestStable
  <2>8. requested' \in [Expansions -> RequestRow]
    <3> DEFINE r == [requested[e] EXCEPT !.status = "pending", !.ver = mission.ver]
    <3>1. r \in RequestRow
      BY <1>2, <2>2, DecideTypes DEF RequestRow
    <3>2. requested' = [requested EXCEPT ![e] = r]
      BY <2>1
    <3> HIDE DEF r
    <3> QED BY <1>2, <3>1, <3>2, DecideTypes
  <2>9. BindingsOK'
    BY <1>2, <2>1, <2>8 DEF BindingsOK, ExpansionTypeOK, BegunOK, IntentsOK, DecideReqOK, RequestRow
  <2> QED BY <2>4, <2>5, <2>6, <2>7, <2>9 DEF IInv
<1>6. CASE DecideCallArrivesLate /\ UNCHANGED revocationVars
  <2>1. PICK e \in decideLate :
            /\ decideLate' = decideLate \ {e}
            /\ IF Decidable(e) THEN ApplyDecision(e, decideIntent[e].binding.decision)
                               ELSE UNCHANGED <<mission, requested>>
            /\ UNCHANGED <<pass, log, expansion, decideBegun, decideIntent, decideReq, decideCalls>>
    BY <1>6 DEF DecideCallArrivesLate
  <2>2. e \in Expansions /\ decideLate' \in SUBSET Expansions /\ pass' = pass /\ log' = log
    BY <1>2, <2>1, DecideTypes
  <2>3. PICK d : d = decideIntent[e].binding.decision
    OBVIOUS
  <2>4. ApplyDecision(e, d) \/ UNCHANGED <<mission, requested>>
    BY <2>1, <2>3
  <2>5. MissionOK' /\ Forward
    BY <1>2, <2>2, <2>4, DecisionMoves, MissionStable
  <2>6. requested' \in [Expansions -> RequestRow]
    BY <1>2, <2>2, <2>4, DecisionTyped, DecideTypes
  <2>7. BindingsOK'
    BY <1>2, <2>1, <2>2, <2>6 DEF BindingsOK, ExpansionTypeOK, BegunOK, IntentsOK, DecideReqOK,
                                  RequestRow
  <2>8. RowOK'
    BY <1>2, <2>2, <2>5, RowStable
  <2>9. WorkOK'
    BY <1>1, <1>2, <2>2, WorkStable
  <2>10. RevokeOK' /\ CliOK'
    BY <1>1, <1>6, <2>5, RestStable
  <2> QED BY <2>5, <2>7, <2>8, <2>9, <2>10 DEF IInv
<1>7. ASSUME NEW e \in Expansions, ExpansionLapses(e), UNCHANGED revocationVars
      PROVE  IInv'
  <2>1. /\ requested' = [requested EXCEPT ![e].status = "expired"]
        /\ UNCHANGED <<pass, mission, log, expansion, decideBegun, decideIntent, decideReq,
                       decideCalls, decideLate>>
    BY <1>7 DEF ExpansionLapses, missionVars
  <2>2. pass' = pass /\ mission' = mission /\ log' = log /\ Forward
    BY <1>2, <2>1 DEF Forward
  <2>3. MissionOK'
    BY <1>2, <2>2, MissionStable
  <2>4. RowOK'
    BY <1>2, <2>2, RowStable
  <2>5. WorkOK'
    BY <1>1, <1>2, <2>2, WorkStable
  <2>6. RevokeOK' /\ CliOK'
    BY <1>1, <1>7, <2>2, RestStable
  <2>7. requested' \in [Expansions -> RequestRow]
    <3> DEFINE r == [requested[e] EXCEPT !.status = "expired"]
    <3>1. r \in RequestRow
      BY <1>2, DecideTypes DEF RequestRow
    <3>2. requested' = [requested EXCEPT ![e] = r]
      BY <2>1
    <3> HIDE DEF r
    <3> QED BY <1>2, <3>1, <3>2, DecideTypes
  <2>8. BindingsOK'
    BY <1>2, <2>1, <2>7 DEF BindingsOK, ExpansionTypeOK, BegunOK, IntentsOK, DecideReqOK, RequestRow
  <2> QED BY <2>3, <2>4, <2>5, <2>6, <2>8 DEF IInv
<1> QED BY <1>3, <1>4, <1>5, <1>6, <1>7 DEF Authority

-----------------------------------------------------------------------------
(* The sweep of a worker.                                                  *)

LEMMA PhaseMoves ==
    ASSUME WorkOK, NEW w \in Workers, NEW phase \in Phases \ {"apply"}, Phase(w, phase)
    PROVE  /\ work' \in [Workers -> Work]
           /\ work'[w].phase = phase /\ work'[w].verdict = "none"
           /\ \A v \in Workers : v # w => work'[v] = work[v]
<1> DEFINE r == [Resting EXCEPT !.phase = phase]
<1>1. r \in Work /\ r.phase = phase /\ r.verdict = "none"
  BY DEF Resting, Work, Phases
<1>2. work' = [work EXCEPT ![w] = r]
  BY DEF Phase
<1> HIDE DEF r
<1> QED BY <1>1, <1>2 DEF WorkOK, ProjectionTypeOK

(* A worker moves to a phase in which it holds no page.                    *)
LEMMA WorkerMoves ==
    ASSUME WorkOK, NEW w \in Workers, work' \in [Workers -> Work],
           \A v \in Workers : v # w => work'[v] = work[v], work'[w].phase # "apply", log' = log,
           proj' \in [cursor : 0 .. Len(log), ver : Nat], view' \in Verdicts,
           todo' \in [Workers -> SUBSET Expansions], crashes' = crashes
    PROVE  WorkOK'
<1>1. ProjectionTypeOK'
  BY DEF ProjectionTypeOK
<1>2. \A v \in Workers : work'[v].phase = "apply" =>
          work'[v].from =< work'[v].to /\ work'[v].to =< Len(log')
  <2> TAKE v \in Workers
  <2>1. CASE v = w
    BY <2>1
  <2>2. CASE v # w
    BY <2>2 DEF WorkOK
  <2> QED BY <2>1, <2>2
<1> QED BY <1>1, <1>2 DEF WorkOK

(* A sweep step that leaves mission, revocation and command runs alone.    *)
LEMMA SweepFrame ==
    ASSUME IInv, pass' = pass, UNCHANGED <<mission, log>>, UNCHANGED <<revocationVars, cliVars>>
    PROVE  MissionOK' /\ RowOK' /\ RevokeOK' /\ CliOK'
<1>1. pass \in PassRow /\ MissionOK /\ RowOK
  BY DEF IInv, MissionOK, MissionTypeOK
<1>2. MissionOK' /\ Forward
  BY <1>1, MissionStable
<1>3. RowOK'
  BY <1>1, <1>2, RowStable
<1> QED BY <1>2, <1>3, RestStable

LEMMA ReadStep ==
    ASSUME IInv, NEW w \in Workers,
           \/ StartPoll(w) \/ ReadEventsFailed(w) \/ ReadEvents(w)
           \/ NoReceipt(w) \/ VerifyReceipt(w),
           UNCHANGED <<revocationVars, cliVars, expansionVars, view, todo, crashes>>
    PROVE  IInv'
<1>1. UNCHANGED <<missionVars, proj>>
  BY DEF StartPoll, ReadEventsFailed, ReadEvents, NoReceipt, VerifyReceipt
<1>2. pass' = pass /\ UNCHANGED <<mission, log>> /\ log' = log /\ proj' = proj
  BY <1>1 DEF missionVars
<1>3. UNCHANGED <<revocationVars, cliVars>> /\ UNCHANGED expansionVars /\ view' = view
      /\ todo' = todo /\ crashes' = crashes
  OBVIOUS
<1>4. MissionOK' /\ RowOK' /\ RevokeOK' /\ CliOK'
  BY <1>2, <1>3, SweepFrame
<1>5. BindingsOK'
  BY <1>3, BindingsStable DEF IInv
<1>6. /\ WorkOK /\ work \in [Workers -> Work] /\ proj \in [cursor : 0 .. Len(log), ver : Nat]
      /\ view \in Verdicts /\ todo \in [Workers -> SUBSET Expansions] /\ Len(log) \in Nat
      /\ log \in Seq(Event)
  BY DEF IInv, WorkOK, ProjectionTypeOK, MissionOK, MissionTypeOK
<1>7. ASSUME NEW phase \in Phases \ {"apply"}, Phase(w, phase)
      PROVE  WorkOK'
  <2>1. /\ work' \in [Workers -> Work] /\ work'[w].phase = phase
        /\ \A v \in Workers : v # w => work'[v] = work[v]
    BY <1>6, <1>7, PhaseMoves
  <2>2. phase # "apply"
    OBVIOUS
  <2> QED BY <1>2, <1>3, <1>6, <2>1, <2>2, WorkerMoves
<1>8. ASSUME ReadEvents(w) PROVE WorkOK'
  <2>1. PICK to \in proj.cursor .. Len(log) :
            work' = [work EXCEPT ![w].phase = "apply", ![w].from = proj.cursor, ![w].to = to]
    BY <1>8 DEF ReadEvents
  <2>2. proj.cursor \in Nat /\ to \in Nat /\ proj.cursor =< to /\ to =< Len(log)
    BY <1>6
  <2> DEFINE r == [work[w] EXCEPT !.phase = "apply", !.from = proj.cursor, !.to = to]
  <2>3. r \in Work /\ r.phase = "apply" /\ r.from = proj.cursor /\ r.to = to
    BY <1>6, <2>2 DEF Work, Phases
  <2>4. work' = [work EXCEPT ![w] = r]
    BY <2>1
  <2> HIDE DEF r
  <2>5. work' \in [Workers -> Work] /\ work'[w] = r /\ \A v \in Workers : v # w => work'[v] = work[v]
    BY <1>6, <2>3, <2>4
  <2>6. \A v \in Workers : work'[v].phase = "apply" =>
            work'[v].from =< work'[v].to /\ work'[v].to =< Len(log)
    BY <1>6, <2>2, <2>3, <2>5 DEF WorkOK
  <2> QED BY <1>2, <1>3, <1>6, <2>5, <2>6 DEF WorkOK, ProjectionTypeOK
<1>9. ASSUME VerifyReceipt(w) PROVE WorkOK'
  <2>1. PICK v \in {"none", "verified", "unverifiable"} :
            work' = [work EXCEPT ![w].phase = "verdict", ![w].verdict = v]
    BY <1>9 DEF VerifyReceipt, Verify
  <2> DEFINE r == [work[w] EXCEPT !.phase = "verdict", !.verdict = v]
  <2>2. r \in Work /\ r.phase = "verdict"
    BY <1>6 DEF Work, Phases
  <2>3. work' = [work EXCEPT ![w] = r]
    BY <2>1
  <2> HIDE DEF r
  <2>4. /\ work' \in [Workers -> Work] /\ work'[w].phase # "apply"
        /\ \A x \in Workers : x # w => work'[x] = work[x]
    BY <1>6, <2>2, <2>3
  <2> QED BY <1>2, <1>3, <1>6, <2>4, WorkerMoves
<1>10. ASSUME StartPoll(w) \/ ReadEventsFailed(w) \/ NoReceipt(w) PROVE WorkOK'
  <2>1. \E phase \in {"project", "receipts", "revocations"} : Phase(w, phase)
    BY <1>10 DEF StartPoll, ReadEventsFailed, NoReceipt
  <2> QED BY <1>7, <2>1 DEF Phases
<1>11. WorkOK'
  BY <1>8, <1>9, <1>10
<1> QED BY <1>4, <1>5, <1>11 DEF IInv

LEMMA ApplyStep ==
    ASSUME IInv, NEW w \in Workers, ApplyPage(w),
           UNCHANGED <<revocationVars, cliVars, expansionVars, view, todo, crashes>>
    PROVE  IInv'
<1>1. /\ UNCHANGED <<mission, log>> /\ log' = log /\ mission' = mission
      /\ UNCHANGED <<revocationVars, cliVars>> /\ UNCHANGED expansionVars /\ view' = view
      /\ todo' = todo /\ crashes' = crashes
  BY DEF ApplyPage
<1>2. BindingsOK'
  BY <1>1, BindingsStable DEF IInv
<1>3. /\ WorkOK /\ work \in [Workers -> Work] /\ proj \in [cursor : 0 .. Len(log), ver : Nat]
      /\ view \in Verdicts /\ todo \in [Workers -> SUBSET Expansions] /\ Len(log) \in Nat
      /\ log \in Seq(Event) /\ MissionTypeOK /\ pass \in PassRow /\ MissionOK /\ RowOK
  BY DEF IInv, WorkOK, ProjectionTypeOK, MissionOK, MissionTypeOK
<1>4. PICK from \in Nat, to \in Nat : from = work[w].from /\ to = work[w].to
  BY <1>3 DEF Work
<1>5. from =< to /\ to =< Len(log)
  BY <1>3, <1>4 DEF ApplyPage, WorkOK
<1>6. PICK phase \in Phases \ {"apply"} : Phase(w, phase)
  BY DEF ApplyPage, Phases
<1>7. /\ work' \in [Workers -> Work] /\ work'[w].phase # "apply"
      /\ \A v \in Workers : v # w => work'[v] = work[v]
  BY <1>3, <1>6, PhaseMoves
<1>8. CASE Applicable(from, to) /\ pass' = RowAfter(from, to)
              /\ advanceProjection(to, maxVersion(from, to))
  <2>1. RowAfter(from, to) # Refused
    BY <1>8 DEF Applicable
  <2>2. Follows(RowAfter(from, to), to)
    BY <1>3, <1>5, <2>1, PageFollows
  <2>3. /\ pass' \in PassRow /\ pass'.cont = pass.cont
        /\ pass'.state = "revoked" => \/ pass.state = "revoked"
                                      \/ \E n \in 1 .. to : log[n].type = "mission_revoked"
    BY <1>8, <2>2 DEF Follows
  <2>4. MissionOK' /\ Forward
    BY <1>1, <1>3, <2>3, MissionStable
  <2>5. pass'.state = "revoked" => mission.state = "revoked"
    <3>1. \A n \in 1 .. to : n \in 1 .. Len(log)
      BY <1>3, <1>5
    <3> QED BY <1>3, <2>3, <3>1 DEF MissionOK, RowOK
  <2>6. RowOK'
    BY <1>1, <1>3, <2>3, <2>5 DEF RowOK
  <2>7. RevokeOK' /\ CliOK'
    BY <1>1, <2>4, RestStable
  <2>8. proj' \in [cursor : 0 .. Len(log), ver : Nat]
    <3>1. versionFloor \in Nat
      BY <1>3 DEF versionFloor, Larger, PassRow
    <3>2. maxVersion(from, to) \in Nat
      <4>1. CASE from = to
        BY <3>1, <4>1 DEF maxVersion
      <4>2. CASE from # to
        <5>1. to \in 1 .. Len(log)
          BY <1>5, <4>2
        <5>2. log[to] \in Event
          BY <1>3, <5>1
        <5> QED BY <3>1, <4>2, <5>2 DEF maxVersion, Larger, Event
      <4> QED BY <4>1, <4>2
    <3>3. PICK v \in Nat : v = maxVersion(from, to)
      BY <3>2
    <3>4. proj' = [cursor |-> Larger(proj.cursor, to), ver |-> Larger(proj.ver, v)]
      BY <1>8, <3>3 DEF advanceProjection
    <3>5. Larger(proj.cursor, to) \in 0 .. Len(log) /\ Larger(proj.ver, v) \in Nat
      BY <1>3, <1>5 DEF Larger
    <3> QED BY <3>4, <3>5
  <2>9. WorkOK'
    BY <1>1, <1>3, <1>7, <2>8, WorkerMoves
  <2> QED BY <1>2, <2>4, <2>6, <2>7, <2>9 DEF IInv
<1>9. CASE UNCHANGED <<pass, proj>>
  <2>1. pass' = pass /\ proj' = proj
    BY <1>9
  <2>2. MissionOK' /\ RowOK' /\ RevokeOK' /\ CliOK'
    BY <1>1, <2>1, SweepFrame
  <2>3. WorkOK'
    BY <1>1, <1>3, <1>7, <2>1, WorkerMoves
  <2> QED BY <1>2, <2>2, <2>3 DEF IInv
<1>10. \/ /\ Applicable(from, to) /\ pass' = RowAfter(from, to)
          /\ advanceProjection(to, maxVersion(from, to))
       \/ UNCHANGED <<pass, proj>>
  BY <1>4 DEF ApplyPage
<1> QED BY <1>8, <1>9, <1>10

LEMMA VerdictStep ==
    ASSUME IInv, NEW w \in Workers, StoreVerdict(w),
           UNCHANGED <<revocationVars, cliVars, todo, crashes>>
    PROVE  IInv'
<1>1. /\ UNCHANGED <<mission, log>> /\ log' = log /\ UNCHANGED <<revocationVars, cliVars>>
      /\ UNCHANGED expansionVars /\ todo' = todo /\ crashes' = crashes /\ proj' = proj
      /\ Phase(w, "revocations")
  BY DEF StoreVerdict
<1>2. BindingsOK'
  BY <1>1, BindingsStable DEF IInv
<1>3. /\ WorkOK /\ work \in [Workers -> Work] /\ proj \in [cursor : 0 .. Len(log), ver : Nat]
      /\ view \in Verdicts /\ todo \in [Workers -> SUBSET Expansions]
      /\ pass \in PassRow /\ MissionOK /\ RowOK
  BY DEF IInv, WorkOK, ProjectionTypeOK, MissionOK, MissionTypeOK
<1>4. /\ pass' \in PassRow /\ pass'.cont = pass.cont
      /\ pass'.state \in {pass.state, "completed", "failed"}
  <2>1. CASE pass' = pass
    BY <1>3, <2>1
  <2>2. ASSUME NEW s \in {"completed", "failed"},
               pass' = [pass EXCEPT !.state = s, !.recon = "settled"]
        PROVE  /\ pass' \in PassRow /\ pass'.cont = pass.cont
               /\ pass'.state \in {pass.state, "completed", "failed"}
    BY <1>3, <2>2 DEF PassRow, PassState, ReconciliationState
  <2>3. \/ pass' = pass
        \/ pass' = [pass EXCEPT !.state = "completed", !.recon = "settled"]
        \/ pass' = [pass EXCEPT !.state = "failed", !.recon = "settled"]
    BY DEF StoreVerdict
  <2> QED BY <2>1, <2>2, <2>3
<1>5. view' \in Verdicts
  <2>1. work[w].verdict \in Verdicts
    BY <1>3 DEF Work, Verdicts
  <2> QED BY <1>3, <2>1 DEF StoreVerdict
<1>6. MissionOK' /\ Forward
  BY <1>1, <1>3, <1>4, MissionStable
<1>7. RowOK'
  BY <1>3, <1>4, <1>6, RowStable
<1>8. RevokeOK' /\ CliOK'
  BY <1>1, <1>6, RestStable
<1>9. /\ work' \in [Workers -> Work] /\ work'[w].phase # "apply"
      /\ \A v \in Workers : v # w => work'[v] = work[v]
  BY <1>1, <1>3, PhaseMoves DEF Phases
<1>10. WorkOK'
  BY <1>1, <1>3, <1>5, <1>9, WorkerMoves
<1> QED BY <1>2, <1>6, <1>7, <1>8, <1>10 DEF IInv

LEMMA ReconcileRevocationsStep ==
    ASSUME IInv, NEW w \in Workers, ReconcileRevocations(w)
    PROVE  IInv'
<1>1. /\ WorkerReconcilesRevocation(w) /\ Phase(w, "list")
      /\ UNCHANGED expansionVars /\ UNCHANGED cliVars
      /\ proj' = proj /\ view' = view /\ todo' = todo /\ crashes' = crashes
      /\ UNCHANGED <<missionVars, revokeBegun, revokeIntent, revokeCalls, revokeLate>>
  BY DEF ReconcileRevocations, WorkerReconcilesRevocation
<1>2. BindingsOK'
  BY <1>1, BindingsStable DEF IInv
<1>3. /\ WorkOK /\ proj \in [cursor : 0 .. Len(log), ver : Nat]
      /\ view \in Verdicts /\ todo \in [Workers -> SUBSET Expansions]
      /\ RevokeOK /\ RevocationTypeOK /\ CliOK /\ w \in Actors /\ log' = log
      /\ revokeReq \in [Actors -> RevokeRow] /\ RevokeReqOK(w)
  BY <1>1 DEF IInv, WorkOK, ProjectionTypeOK, RevokeOK, Actors, missionVars, RevocationTypeOK,
              RevokeRow
<1>4. Moves(w) /\ RevokeReqOK(w)' /\ ~ Issuing(w)'
  <2>1. CASE RGoto(w, "reconcile")
    <3>1. Moves(w) /\ revokeReq'[w].pc = "reconcile"
      BY <1>3, <2>1, GotoMoves DEF RevokePCs
    <3> QED BY <3>1 DEF RevokeReqOK, Issuing
  <2>2. CASE UNCHANGED revokeReq
    <3>1. Moves(w) /\ revokeReq'[w].pc = "idle"
      BY <1>1, <1>3, <2>2 DEF Moves, WorkerReconcilesRevocation
    <3> QED BY <3>1 DEF RevokeReqOK, Issuing
  <2> QED BY <1>1, <2>1, <2>2 DEF WorkerReconcilesRevocation
<1>5. CeremoniesTyped /\ UNCHANGED <<missionVars, revokeIntent, revokeCalls>>
  BY <1>1, <1>3 DEF CeremoniesTyped, RevocationTypeOK
<1>6. MissionOK' /\ RowOK' /\ RevokeOK' /\ Forward
  BY <1>3, <1>4, <1>5, RevokeReads
<1>7. /\ UNCHANGED <<cliRow, cli>> /\ serves' \in [Revokers -> CLIs \cup {NoCLI}]
      /\ revokeIntent' = revokeIntent
  BY <1>1, <1>3 DEF CliOK, CLIRevocationTypeOK, cliVars
<1>8. CliOK'
  BY <1>3, <1>6, <1>7, CliStable
<1>9. /\ work' \in [Workers -> Work] /\ work'[w].phase # "apply"
      /\ \A v \in Workers : v # w => work'[v] = work[v]
  BY <1>1, <1>3, PhaseMoves DEF Phases
<1>10. WorkOK'
  BY <1>1, <1>3, <1>9, WorkerMoves
<1> QED BY <1>2, <1>6, <1>8, <1>10 DEF IInv

LEMMA ExpansionSweepSteps ==
    ASSUME IInv, NEW w \in Workers, ListExpansionIntents(w) \/ ReconcileExpansions(w)
    PROVE  IInv'
<1>1. /\ UNCHANGED missionVars /\ UNCHANGED <<revocationVars, cliVars>>
      /\ proj' = proj /\ view' = view /\ crashes' = crashes
  BY DEF ListExpansionIntents, ReconcileExpansions, WorkerReconcilesExpansion
<1>2. pass' = pass /\ UNCHANGED <<mission, log>> /\ log' = log
  BY <1>1 DEF missionVars
<1>3. MissionOK' /\ RowOK' /\ RevokeOK' /\ CliOK'
  BY <1>1, <1>2, SweepFrame
<1>4. /\ WorkOK /\ work \in [Workers -> Work] /\ proj \in [cursor : 0 .. Len(log), ver : Nat]
      /\ view \in Verdicts /\ todo \in [Workers -> SUBSET Expansions] /\ BindingsOK
      /\ log \in Seq(Event) /\ Len(log) \in Nat
  BY DEF IInv, WorkOK, ProjectionTypeOK, MissionOK, MissionTypeOK
<1>5. todo' \in [Workers -> SUBSET Expansions]
  <2>1. \/ todo' = todo
        \/ todo' = [todo EXCEPT ![w] = {e \in Expansions : decideIntent[e].state = "in_flight"}]
        \/ \E e \in todo[w] : todo' = [todo EXCEPT ![w] = @ \ {e}]
    BY DEF ListExpansionIntents, ReconcileExpansions
  <2> QED BY <1>4, <2>1
<1>6. WorkOK'
  <2>1. CASE \E phase \in {"expansions", "idle"} : Phase(w, phase)
    <3>1. /\ work' \in [Workers -> Work] /\ work'[w].phase # "apply"
          /\ \A v \in Workers : v # w => work'[v] = work[v]
      BY <1>4, <2>1, PhaseMoves DEF Phases
    <3> QED BY <1>1, <1>2, <1>4, <1>5, <3>1, WorkerMoves
  <2>2. CASE UNCHANGED work
    BY <1>1, <1>2, <1>4, <1>5, <2>2 DEF WorkOK, ProjectionTypeOK
  <2> QED BY <2>1, <2>2 DEF ListExpansionIntents, ReconcileExpansions
<1>7. BindingsOK'
  <2>1. CASE UNCHANGED expansionVars
    BY <1>4, <2>1, BindingsStable
  <2>2. ASSUME NEW e \in todo[w], WorkerReconcilesExpansion(w, e) PROVE BindingsOK'
    <3>1. e \in Expansions /\ w \in Deciding /\ decideReq \in [Deciding -> DecideRow]
      BY <1>4, DecideTypes DEF Deciding
    <3> DEFINE b == [NoBinding EXCEPT !.exp = e]
               q == [DecideIdle EXCEPT !.pc = "reconcile", !.binding = b]
    <3>2. b \in Binding /\ b.exp = e
      BY <3>1, IdleTyped DEF Binding, NoBinding
    <3>3. decideReq' = [decideReq EXCEPT ![w] = [DecideIdle EXCEPT !.pc = "reconcile",
                                                                   !.binding.exp = e]]
      BY <2>2 DEF WorkerReconcilesExpansion
    <3>4. [DecideIdle EXCEPT !.pc = "reconcile", !.binding.exp = e] = q
      BY DEF DecideIdle
    <3> HIDE DEF b
    <3>5. q \in DecideRow /\ q.pc = "reconcile" /\ q.binding = b
      <4>1. DecideIdle \in DecideRow
        BY IdleTyped
      <4> QED BY <3>2, <4>1 DEF DecideRow, DecidePCs
    <3> HIDE DEF q
    <3>6. DecideMoves(w) /\ DecideReqOK(w)'
      BY <3>1, <3>2, <3>3, <3>4, <3>5 DEF DecideMoves, DecideReqOK
    <3>7. UNCHANGED <<requested, expansion, decideBegun, decideIntent, decideCalls, decideLate>>
      BY <2>2 DEF WorkerReconcilesExpansion
    <3> QED BY <1>4, <3>1, <3>6, <3>7, DecideReads
  <2> QED BY <2>1, <2>2 DEF ListExpansionIntents, ReconcileExpansions
<1> QED BY <1>3, <1>6, <1>7 DEF IInv

LEMMA SweepStep ==
    ASSUME IInv, NEW w \in Workers, Sweep(w)
    PROVE  IInv'
<1>1. CASE /\ ProjectionStep(w)
           /\ UNCHANGED <<revocationVars, cliVars, expansionVars, view, todo, crashes>>
  BY <1>1, ReadStep, ApplyStep DEF ProjectionStep
<1>2. CASE /\ VerifyReceipt(w) \/ NoReceipt(w) \/ StoreVerdict(w)
           /\ UNCHANGED <<revocationVars, cliVars, todo, crashes>>
  <2>1. CASE VerifyReceipt(w) \/ NoReceipt(w)
    <3>1. UNCHANGED <<revocationVars, cliVars, expansionVars, view, todo, crashes>>
      BY <1>2, <2>1 DEF VerifyReceipt, NoReceipt
    <3> QED BY <2>1, <3>1, ReadStep
  <2>2. CASE StoreVerdict(w)
    BY <1>2, <2>2, VerdictStep
  <2> QED BY <1>2, <2>1, <2>2
<1>3. CASE ReconcileRevocations(w)
  BY <1>3, ReconcileRevocationsStep
<1>4. CASE ListExpansionIntents(w) \/ ReconcileExpansions(w)
  BY <1>4, ExpansionSweepSteps
<1> QED BY <1>1, <1>2, <1>3, <1>4 DEF Sweep

-----------------------------------------------------------------------------
(* The process stops: what it held in memory is gone.                      *)
LEMMA CrashStep ==
    ASSUME IInv, Crash
    PROVE  IInv'
<1>1. /\ UNCHANGED missionVars /\ proj' = proj /\ view' = view /\ UNCHANGED <<cliRow, cli>>
      /\ UNCHANGED <<revokeIntent, revokeCalls, revokeLate>>
      /\ UNCHANGED <<requested, expansion, decideIntent, decideCalls, decideLate>>
      /\ revokeIntent' = revokeIntent /\ revokeCalls' = revokeCalls
      /\ crashes' = crashes + 1 /\ crashes < MaxCrashes
      /\ work' = [w \in Workers |-> Resting] /\ todo' = [w \in Workers |-> {}]
      /\ serves' = [h \in Revokers |-> NoCLI]
  BY DEF Crash
<1>2. pass' = pass /\ UNCHANGED <<mission, log>> /\ log' = log /\ mission' = mission
  BY <1>1 DEF missionVars
<1>3. pass \in PassRow /\ MissionOK /\ RowOK /\ WorkOK /\ RevokeOK /\ CliOK /\ BindingsOK
  BY DEF IInv, MissionOK, MissionTypeOK
<1>4. MissionOK' /\ Forward
  BY <1>2, <1>3, MissionStable
<1>5. RowOK'
  BY <1>2, <1>3, <1>4, RowStable
<1>6. WorkOK'
  <2>1. Resting \in Work /\ Resting.phase = "idle"
    BY DEF Resting, Work, Phases
  <2>2. work' \in [Workers -> Work] /\ \A w \in Workers : work'[w].phase = "idle"
    BY <1>1, <2>1
  <2>3. crashes' \in 0 .. MaxCrashes
    BY <1>1, <1>3, MaxCrashesAssumption DEF WorkOK
  <2> QED BY <1>1, <1>2, <1>3, <2>2, <2>3 DEF WorkOK, ProjectionTypeOK
<1>7. RevokeOK'
  <2>1. RevokeIdle \in RevokeRow /\ RevokeIdle.pc = "idle"
    BY DEF RevokeRow, RevokeIdle, RevokePCs, RevokeOutcomes, NoRevokeDigest, RevokeDigest, Containment
  <2>2. revokeReq' = [a \in Actors |-> RevokeIdle]
    BY DEF Crash, Actors
  <2>3. revokeReq' \in [Actors -> RevokeRow] /\ \A a \in Actors : revokeReq'[a].pc = "idle"
    BY <2>1, <2>2
  <2>4. \A a \in Actors : RevokeReqOK(a)' /\ ~ Issuing(a)'
    BY <2>3 DEF RevokeReqOK, Issuing
  <2>5. revokeBegun' \in [RevokeChallenges -> RevokeDigest]
    <3>1. NoRevokeDigest \in RevokeDigest /\ UsedRevoke \in RevokeDigest
      BY DEF NoRevokeDigest, UsedRevoke, RevokeDigest
    <3> QED BY <3>1 DEF Crash
  <2>6. RevocationTypeOK'
    BY <1>1, <1>3, <2>3, <2>5 DEF RevokeOK, RevocationTypeOK, Actors, RevokeRow
  <2>7. IntentTrue'
    BY <1>1, <1>2, <1>3 DEF RevokeOK, IntentTrue, Truthful
  <2> QED BY <1>1, <1>3, <2>4, <2>6, <2>7 DEF RevokeOK, Actors
<1>8. CliOK'
  <2>1. serves' \in [Revokers -> CLIs \cup {NoCLI}]
    BY <1>1
  <2> QED BY <1>1, <1>3, <1>4, <2>1, CliStable
<1>9. BindingsOK'
  <2>1. decideReq' = [a \in Deciding |-> DecideIdle]
    BY DEF Crash, Deciding
  <2>2. decideReq' \in [Deciding -> DecideRow] /\ \A a \in Deciding : decideReq'[a].pc = "idle"
    BY <2>1, IdleTyped
  <2>3. \A a \in Deciding : DecideReqOK(a)'
    BY <2>2 DEF DecideReqOK
  <2>4. decideBegun' = [c \in DecideChallenges |->
                           IF decideBegun[c] = NoBinding THEN NoBinding ELSE UsedBinding]
    BY DEF Crash
  <2>5. decideBegun' \in [DecideChallenges -> Binding] /\ BegunOK'
    BY <2>4, IdleTyped DEF BegunOK
  <2>6. TablesTyped /\ IntentsOK'
    BY <1>1, <1>3, <2>5, DecideTypes DEF TablesTyped, BindingsOK, IntentsOK
  <2>7. ExpansionTypeOK'
    BY <2>2, <2>6 DEF ExpansionTypeOK, TablesTyped, RequestRow, DecideIntentRow, DecideRow, Deciding
  <2> QED BY <2>3, <2>5, <2>6, <2>7 DEF BindingsOK, Deciding
<1> QED BY <1>4, <1>5, <1>6, <1>7, <1>8, <1>9 DEF IInv

LEMMA InitHolds == Init => IInv
<1> SUFFICES ASSUME Init PROVE IInv
  OBVIOUS
<1> USE DEF Init
<1>1. MissionOK /\ RowOK
  <2> DEFINE event == [type |-> "mission_started", ver |-> 1]
  <2>1. event \in Event /\ event.type # "mission_revoked" /\ log = <<event>>
    BY DEF MissionInit, Event, EventTypes
  <2>2. /\ pass \in PassRow /\ pass.cont = "none" /\ pass.state = "running"
        /\ mission \in MissionRow /\ mission.cont = "none"
    BY DEF MissionInit, PassRow, PassState, ReconciliationState, Containment, MissionRow
  <2> HIDE DEF event, Init
  <2>3. log \in Seq(Event) /\ Len(log) = 1 /\ log[1] = event
    BY <2>1
  <2>4. \A n \in 1 .. Len(log) : log[n].type # "mission_revoked"
    BY <2>1, <2>3
  <2> QED BY <2>2, <2>3, <2>4 DEF MissionOK, MissionTypeOK, MissionRow, RowOK
<1>2. WorkOK
  <2>1. Resting \in Work /\ Resting.phase = "idle"
    BY DEF Resting, Work, Phases
  <2>2. work = [w \in Workers |-> Resting] /\ proj = [cursor |-> 0, ver |-> 0]
    BY DEF ProjectionInit
  <2>3. work \in [Workers -> Work] /\ \A w \in Workers : work[w].phase = "idle"
    BY <2>1, <2>2
  <2>4. 0 \in 0 .. Len(log) /\ 0 \in 0 .. MaxCrashes
    BY <1>1, MaxCrashesAssumption DEF MissionOK, MissionTypeOK
  <2> QED BY <2>2, <2>3, <2>4 DEF WorkOK, ProjectionTypeOK, Verdicts
<1>3. RevokeOK
  <2>1. RevokeIdle \in RevokeRow /\ RevokeIdle.pc = "idle"
    BY DEF RevokeRow, RevokeIdle, RevokePCs, RevokeOutcomes, NoRevokeDigest, RevokeDigest, Containment
  <2>2. revokeReq = [a \in Actors |-> RevokeIdle] /\ revokeCalls = 0
    BY DEF RevocationInit, Actors
  <2>3. revokeReq \in [Actors -> RevokeRow] /\ \A a \in Actors : revokeReq[a].pc = "idle"
    BY <2>1, <2>2
  <2>4. \A a \in Actors : RevokeReqOK(a) /\ ~ Issuing(a)
    BY <2>3 DEF RevokeReqOK, Issuing
  <2>5. NoRevokeDigest \in RevokeDigest
    BY DEF NoRevokeDigest, RevokeDigest
  <2>6. revokeIntent \in IntentRow /\ IntentTrue
    BY <2>5 DEF RevocationInit, NoRevokeIntent, IntentRow, Containment, IntentTrue, Truthful
  <2>7. RevocationTypeOK
    BY <2>3, <2>5, <2>6 DEF RevocationInit, RevocationTypeOK, Actors, RevokeRow, IntentRow
  <2> QED BY <2>2, <2>4, <2>6, <2>7 DEF RevokeOK, Actors
<1>4. CliOK
  <2>1. /\ NoCLIRow \in [ver : Nat, expired : BOOLEAN, result : Containment]
        /\ NoCLIRow.result = "none"
    BY DEF NoCLIRow, Containment
  <2>2. /\ NewCLI \in [pc : {"start", "listening", "code", "done"}, report : Containment]
        /\ NewCLI.report = "none"
    BY DEF NewCLI, Containment
  <2>3. /\ cliRow = [c \in CLIs |-> NoCLIRow] /\ cli = [c \in CLIs |-> NewCLI]
        /\ serves = [h \in Revokers |-> NoCLI]
    BY DEF CLIRevocationInit
  <2>4. CLIRevocationTypeOK
    BY <2>1, <2>2, <2>3 DEF CLIRevocationTypeOK
  <2>5. \A c \in CLIs : cliRow[c].result = "none" /\ cli[c].report = "none"
    BY <2>1, <2>2, <2>3
  <2> QED BY <2>4, <2>5 DEF CliOK, Truthful
<1>5. BindingsOK
  <2>1. decideReq = [a \in Deciding |-> DecideIdle]
    BY DEF ExpansionInit, Deciding
  <2>2. decideReq \in [Deciding -> DecideRow] /\ \A a \in Deciding : decideReq[a].pc = "idle"
    BY <2>1, IdleTyped
  <2>3. \A a \in Deciding : DecideReqOK(a)
    BY <2>2 DEF DecideReqOK
  <2>4. NoDecideIntent \in DecideIntentRow /\ NoDecideIntent.state = "none"
    BY IdleTyped DEF NoDecideIntent, DecideIntentRow
  <2>5. decideIntent \in [Expansions -> DecideIntentRow] /\ IntentsOK
    BY <2>4 DEF ExpansionInit, IntentsOK
  <2>6. decideBegun \in [DecideChallenges -> Binding] /\ BegunOK
    BY IdleTyped DEF ExpansionInit, BegunOK
  <2>7. requested \in [Expansions -> RequestRow] /\ expansion \in [Expansions -> Status]
    BY DEF ExpansionInit, RequestRow, Status
  <2>8. decideCalls \in [Expansions -> Nat] /\ decideLate \in SUBSET Expansions
    BY DEF ExpansionInit
  <2>9. ExpansionTypeOK
    BY <2>2, <2>5, <2>6, <2>7, <2>8 DEF ExpansionTypeOK, RequestRow, DecideIntentRow, DecideRow,
                                        Deciding
  <2> QED BY <2>3, <2>5, <2>6, <2>9 DEF BindingsOK, Deciding
<1> QED BY <1>1, <1>2, <1>3, <1>4, <1>5 DEF IInv

LEMMA NextPreserves == IInv /\ [Next]_vars => IInv'
<1> SUFFICES ASSUME IInv, [Next]_vars PROVE IInv'
  OBVIOUS
<1>1. CASE Authority
  BY <1>1, AuthorityStep
<1>2. CASE RevokeRequest
  BY <1>2, RevokeRequestStep
<1>3. CASE DecideRequest
  BY <1>3, DecideRequestStep
<1>4. CASE \E a \in Revokers \cup Workers : RevokeProgress(a)
  BY <1>4, RevokeProgressStep DEF Actors
<1>5. CASE \E a \in Deciders \cup Workers : DecideProgress(a)
  BY <1>5, DecideProgressStep DEF Deciding
<1>6. CASE \E w \in Workers : Sweep(w)
  BY <1>6, SweepStep
<1>7. CASE Crash
  BY <1>7, CrashStep
<1>8. CASE UNCHANGED vars
  <2>1. /\ pass' = pass /\ UNCHANGED <<mission, log>> /\ log' = log
        /\ UNCHANGED <<revocationVars, cliVars>> /\ UNCHANGED expansionVars
        /\ UNCHANGED <<proj, work, view, todo, crashes>>
    BY <1>8 DEF vars, missionVars, projectionVars
  <2>2. MissionOK' /\ RowOK' /\ RevokeOK' /\ CliOK'
    BY <2>1, SweepFrame
  <2>3. BindingsOK'
    BY <2>1, BindingsStable DEF IInv
  <2>4. WorkOK'
    BY <2>1 DEF IInv, WorkOK, ProjectionTypeOK
  <2> QED BY <2>2, <2>3, <2>4 DEF IInv
<1> QED BY <1>1, <1>2, <1>3, <1>4, <1>5, <1>6, <1>7, <1>8 DEF Next

-----------------------------------------------------------------------------
(* The theorems.                                                           *)

(* The inductive invariant holds in every reachable state of a running     *)
(* mission, whatever the number of requests, workers, events and crashes.  *)
THEOREM InvariantHolds == Spec => []IInv
  BY InitHolds, NextPreserves, PTL DEF Spec

(* Every table row, request and worker keeps its type.                     *)
THEOREM TypeCorrect == Spec => []TypeOK
  <1>1. IInv => TypeOK
    BY DEF IInv, MissionOK, WorkOK, RevokeOK, CliOK, BindingsOK, TypeOK
  <1> QED BY <1>1, InvariantHolds, PTL

(* RevokeMission is called at most once for a pass, from the web, the      *)
(* command or after a restart: the mutex orders the requests and the       *)
(* intent written before the call stops all later ones (revokeOnce).       *)
THEOREM RevokedOnce == Spec => []OneRevokeCall
  <1>1. IInv => OneRevokeCall
    BY DEF IInv, RevokeOK, OneRevokeCall
  <1> QED BY <1>1, InvariantHolds, PTL

(* The row shows an acknowledged containment only when the authority       *)
(* acknowledged one: a settlement writes what the answer said, and a       *)
(* reconciled revocation stays pending (mapContainment, settleRevocation). *)
THEOREM RowContainmentHonest == Spec => []ContainmentHonest
  <1>1. IInv => ContainmentHonest
    BY DEF IInv, RowOK, ContainmentHonest
  <1> QED BY <1>1, InvariantHolds, PTL

(* The row is revoked only when the mission is, whether a settlement or a  *)
(* page of events of any length made it so (settleRevocation, ApplyPage).  *)
THEOREM RowRevokedUpstream == Spec => []RevokedMeansUpstream
  <1>1. IInv => RevokedMeansUpstream
    BY DEF IInv, RowOK, RevokedMeansUpstream
  <1> QED BY <1>1, InvariantHolds, PTL

(* The revoke command reports only what the authority stands for, however  *)
(* long after the settlement it collects its result (MintResult).          *)
THEOREM CommandReportsTruth == Spec => []CLIReportsTruth
  <1>1. IInv => CLIReportsTruth
    BY DEF IInv, CliOK, Truthful, CLIReportsTruth
  <1> QED BY <1>1, InvariantHolds, PTL

-----------------------------------------------------------------------------
(* The transition table.                                                   *)

(* A page of events moves the row along the table or leaves its state.     *)
LEMMA PageMoves ==
    ASSUME IInv, NEW w \in Workers, ApplyPage(w)
    PROVE  pass'.state = pass.state \/ pass'.state \in passTransitions[pass.state]
<1> DEFINE from == work[w].from
           to == work[w].to
<1>1. CASE Applicable(from, to)
  <2>1. /\ MissionTypeOK /\ from \in Nat /\ to \in Nat /\ from =< to /\ to =< Len(log)
    BY DEF IInv, MissionOK, WorkOK, ProjectionTypeOK, Work, ApplyPage
  <2>2. pass' = RowAfter(from, to) /\ RowAfter(from, to) # Refused
    BY <1>1 DEF ApplyPage, Applicable
  <2>3. Follows(RowAfter(from, to), to)
    BY <2>1, <2>2, PageFollows
  <2> QED BY <2>2, <2>3 DEF Follows, EventMoves
<1>2. CASE ~Applicable(from, to)
  BY <1>2 DEF ApplyPage
<1> QED BY <1>1, <1>2

(* A verdict ends a pass that waits for its outcome, and no other.         *)
LEMMA VerdictMoves ==
    ASSUME IInv, NEW w \in Workers, StoreVerdict(w)
    PROVE  pass'.state = pass.state \/ pass'.state \in passTransitions[pass.state]
<1>1. pass \in PassRow
  BY DEF IInv, MissionOK, MissionTypeOK
<1>2. \/ pass' = pass
      \/ pass.state = "outcome_pending" /\ pass'.state \in {"completed", "failed"}
  BY <1>1 DEF StoreVerdict, PassRow
<1> QED BY <1>2 DEF passTransitions, PassState

(* A revocation settles in a revocable pass or one revoked already.        *)
LEMMA RevokerMoves ==
    ASSUME IInv, NEW a \in Actors, RevokerStep(a)
    PROVE  pass'.state = pass.state \/ pass'.state \in passTransitions[pass.state]
<1>1. pass \in PassRow
  BY DEF IInv, MissionOK, MissionTypeOK
<1>2. CASE settleRevocation(a)
  <2>1. \/ pass' = pass
        \/ (pass.state = "revoked" \/ Revocable(pass.state)) /\ pass'.state = "revoked"
    BY <1>1, <1>2 DEF settleRevocation, PassRow
  <2> QED BY <2>1 DEF Revocable, passTransitions, PassState
<1>3. CASE markRevokePending(a)
  BY <1>1, <1>3 DEF markRevokePending, PassRow
<1>4. CASE ~settleRevocation(a) /\ ~markRevokePending(a)
  <2>1. pass' = pass
    BY <1>4 DEF RevokerStep, RevokeLock, PutRevocationIntent, RevokeMissionAnswered,
                RevokeMissionFailed, ReconcileRevocation, ReadRevocationIntent,
                QueryRevocation, QueryRevocationFailed, missionVars
  <2> QED BY <2>1
<1> QED BY <1>2, <1>3, <1>4

(* Without expansions nothing is ever decided.                             *)
LEMMA DeciderMoves ==
    ASSUME Expansions = {}, IInv, NEW a \in Deciding, DeciderStep(a)
    PROVE  pass'.state = pass.state
<1>1. pass \in PassRow /\ ~Decides(decideReq[a].binding) /\ DecideReqOK(a)
  BY DEF IInv, MissionOK, MissionTypeOK, Decides, BindingsOK, Deciding
<1>2. ~settleDecision(a)
  BY <1>1 DEF settleDecision, DecideReqOK
<1>3. CASE markDecisionPending(a)
  BY <1>1, <1>3 DEF markDecisionPending, PassRow
<1>4. CASE ~markDecisionPending(a)
  <2>1. pass' = pass
    BY <1>2, <1>4 DEF DeciderStep, SyncPut, SyncResolve, BeginDecision, DecideLock,
                PutExpansionIntent, DecideExpansionAnswered, DecideExpansionFailed,
                ReadExpansionIntent, QueryExpansion, QueryExpansionFailed, missionVars
  <2> QED BY <2>1
<1> QED BY <1>3, <1>4

(* Without expansions a running mission implements the transition table of *)
(* model.go: requests, worker and replayed pages of events move the row    *)
(* only where the table goes, so an ended pass stays as it ended           *)
(* (settleRevocation, applyPageTx, VerifyReceipt).  With expansions it     *)
(* does not: settleDecision reopens an ended pass.                         *)
THEOREM RowFollowsLifecycle ==
    ASSUME Expansions = {}
    PROVE  Spec => FollowsLifecycle
<1>1. Init => L!Init
  BY DEF Init, MissionInit, L!Init, PassState, L!PassState
<1>2. ASSUME IInv, [Next]_vars PROVE [L!Next]_(pass.state)
  <2> SUFFICES pass'.state = pass.state \/ pass'.state \in passTransitions[pass.state]
    BY DEF L!Next, L!passTransitions, L!PassState, passTransitions, PassState
  <2>1. CASE pass' = pass
    BY <2>1
  <2>2. CASE UNCHANGED vars \/ Crash \/ Authority
    BY <2>1, <2>2 DEF vars, missionVars, Crash, Authority, RunnerStep, ActionChecked, RunEnds,
                      ReceiptReady, MissionExpires, RevokeCallArrivesLate, RequestExpansion,
                      ExpansionLapses, DecideCallArrivesLate
  <2>3. CASE RevokeRequest
    BY <2>1, <2>3 DEF RevokeRequest, RevokeBegin, handleRevokeFinish, RevokeFinish, CLIStep, Register,
                      RequestExpires, Exchange, CLIEnds,
                      missionVars
  <2>4. CASE DecideRequest
    BY <2>1, <2>4 DEF DecideRequest, StartSync, FinishDecision, missionVars
  <2>5. ASSUME NEW a \in Revokers \cup Workers, RevokeProgress(a)
        PROVE  pass'.state = pass.state \/ pass'.state \in passTransitions[pass.state]
    <3>1. CASE RevokerStep(a)
      BY <1>2, <2>5, <3>1, RevokerMoves DEF Actors
    <3>2. CASE AnswerFinish(a)
      BY <2>1, <3>2 DEF AnswerFinish, missionVars
    <3> QED BY <2>5, <3>1, <3>2 DEF RevokeProgress
  <2>6. ASSUME NEW a \in Deciders \cup Workers, DecideProgress(a)
        PROVE  pass'.state = pass.state
    BY <1>2, <2>6, DeciderMoves DEF DecideProgress, Deciding
  <2>7. ASSUME NEW w \in Workers, Sweep(w)
        PROVE  pass'.state = pass.state \/ pass'.state \in passTransitions[pass.state]
    <3>1. CASE ApplyPage(w)
      BY <1>2, <3>1, PageMoves
    <3>2. CASE StoreVerdict(w)
      BY <1>2, <3>2, VerdictMoves
    <3>3. CASE ~ApplyPage(w) /\ ~StoreVerdict(w)
      BY <2>1, <2>7, <3>3
      DEF Sweep, ProjectionStep, StartPoll, ReadEvents, ReadEventsFailed, VerifyReceipt,
          NoReceipt, ReconcileRevocations, WorkerReconcilesRevocation, ListExpansionIntents,
          ReconcileExpansions, WorkerReconcilesExpansion, missionVars
    <3> QED BY <3>1, <3>2, <3>3
  <2> QED BY <1>2, <2>2, <2>3, <2>4, <2>5, <2>6, <2>7 DEF Next
<1> QED BY <1>1, <1>2, InvariantHolds, PTL DEF Spec, FollowsLifecycle, L!Spec

=============================================================================
