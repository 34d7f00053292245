----------------------------- MODULE LaunchProofs -----------------------------
(***************************************************************************)
(* Proofs about Launch, for any number of authorizations, ceremonies,      *)
(* exchange requests, revisions and crashes.                               *)
(***************************************************************************)
EXTENDS Launch, TLAPS

-----------------------------------------------------------------------------
(* The inductive invariant, as named parts.                                *)

Request == [pc : PCs, code : Codes \cup {None}, rev : Nat, run : Codes \cup {None}]

Intent == [status : {"none", "in_flight", "completed", "failed", "expired"},
           run : Codes \cup {None}]

(* A code that was issued is the code of its authorization, and an         *)
(* authorization that is not approved has none.                            *)
AuthOK ==
    /\ \A c \in Codes :
           /\ ceremony[c].pc # "none" => AuthOf(c) \in Authorizations
           /\ ceremony[c].pc = "issued" => Found(c)
    /\ \A a \in Authorizations : auth[a].status # "approved" => auth[a].code = None

(* At most one request works on a code: it holds the lock of the code.     *)
LockOK ==
    \A g, h \in Exchanges : g # h => xreq[g].code = None \/ xreq[g].code # xreq[h].code

(* An authorization was called for once, and then its code has an intent.  *)
CallsOK ==
    \A a \in Authorizations :
        /\ calls[a] =< 1
        /\ calls[a] # 0 => auth[a].code \in Codes /\ intent[auth[a].code].status # "none"

(* What a request relies on at each of its steps.                          *)
RequestOK(r) ==
    /\ r.pc = "idle" <=> r.code = None
    /\ r.pc = "idle" => r = Idle
    /\ r.pc # "idle" => ceremony[r.code].pc = "issued"
    /\ r.pc \in {"take", "prepare"} => calls[AuthOf(r.code)] = 0
    /\ r.pc \in {"take", "prepare", "query", "adopt", "fail", "orphan"}
           => intent[r.code].status = "in_flight"
    /\ r.pc = "adopt" => r.run = r.code /\ mission.run = r.code
    /\ r.pc = "recover" => intent[r.code].status = "completed"

RequestsOK == \A h \in Exchanges : RequestOK(xreq[h])

(* The row, the intents and the authority agree on the run.                *)
RunsOK ==
    /\ LaunchedByOneCode
    /\ pass.state = "approved" => pass.run = None

(* What was delivered, or is cached for delivery, is the run of the row.   *)
AnswersOK ==
    \A c \in Codes :
        /\ answers[c] \subseteq {c}
        /\ answers[c] # {} => pass.run = c
        /\ delivery[c] # None => delivery[c] = c /\ pass.run = c

IInv == /\ TypeOK /\ AuthOK /\ LockOK /\ CallsOK
        /\ RequestsOK /\ RunsOK /\ AnswersOK

-----------------------------------------------------------------------------
(* A fresh pass, without authorizations, satisfies the invariant.          *)
LEMMA InitEstablishes == Init => IInv
  <1> SUFFICES ASSUME Init PROVE IInv
    OBVIOUS
  <1> USE NoneAssumption DEF Init, AuthorizationInit, Codes
  <1>1. TypeOK
    <2>1. AuthorizationTypeOK
      BY DEF AuthorizationTypeOK, LaunchRow, PassState, NoAuthorization, NoCeremony
    <2>2. Idle \in Request
      BY DEF Idle, Request, PCs
    <2>3. crashes \in 0 .. MaxCrashes
      BY LaunchAssumption
    <2> QED BY <2>1, <2>2, <2>3 DEF TypeOK, Request, NoIntent
  <1>2. AuthOK
    BY DEF AuthOK, NoAuthorization, NoCeremony
  <1>3. LockOK /\ RequestsOK
    BY DEF LockOK, RequestsOK, RequestOK, Idle
  <1>4. CallsOK /\ RunsOK /\ AnswersOK
    BY DEF CallsOK, RunsOK, LaunchedByOneCode, AnswersOK, NoIntent
  <1> QED BY <1>1, <1>2, <1>3, <1>4 DEF IInv

(* The code of a request is one that its authorization issued, and two     *)
(* codes that were issued belong to two authorizations.                    *)
LEMMA CodeOfRequest ==
    ASSUME IInv, NEW h \in Exchanges, xreq[h].pc # "idle"
    PROVE  /\ xreq[h].code \in Codes
           /\ ceremony[xreq[h].code].pc = "issued"
           /\ AuthOf(xreq[h].code) \in Authorizations
           /\ auth[AuthOf(xreq[h].code)].code = xreq[h].code
  <1>1. xreq[h].code \in Codes
    BY DEF IInv, TypeOK, RequestsOK, RequestOK
  <1>2. ceremony[xreq[h].code].pc = "issued"
    BY DEF IInv, RequestsOK, RequestOK
  <1> QED BY <1>1, <1>2 DEF IInv, AuthOK, Found

(* A step of a request that stays within its code keeps what the others    *)
(* rely on.                                                                *)
LEMMA OthersKept ==
    ASSUME IInv, NEW h \in Exchanges, xreq[h].pc # "idle",
           xreq' \in [Exchanges -> Request],
           \A g \in Exchanges : g # h => xreq'[g] = xreq[g],
           xreq'[h].code \in {xreq[h].code, None},
           RequestOK(xreq[h])',
           UNCHANGED <<auth, ceremony>>,
           \A d \in Codes : d # xreq[h].code => intent'[d] = intent[d],
           \A a \in Authorizations : a # AuthOf(xreq[h].code) => calls'[a] = calls[a],
           mission.run # None => mission'.run = mission.run
    PROVE  RequestsOK' /\ LockOK'
  <1> DEFINE c == xreq[h].code
  <1>1. c \in Codes /\ auth[AuthOf(c)].code = c
    BY CodeOfRequest
  <1>2. ASSUME NEW g \in Exchanges, g # h PROVE RequestOK(xreq[g])'
    <2> DEFINE d == xreq[g].code
    <2>1. xreq'[g] = xreq[g] /\ RequestOK(xreq[g])
      BY <1>2 DEF IInv, RequestsOK
    <2>2. CASE xreq[g].pc = "idle"
      BY <2>1, <2>2 DEF RequestOK, Idle
    <2>3. CASE xreq[g].pc # "idle"
      <3>1. /\ d \in Codes /\ AuthOf(d) \in Authorizations /\ auth[AuthOf(d)].code = d
        BY <2>3, CodeOfRequest
      <3>2. d # c
        BY <1>1, <1>2, <3>1, NoneAssumption DEF IInv, LockOK, Codes
      <3>3. AuthOf(d) # AuthOf(c)
        BY <1>1, <3>1, <3>2
      <3>4. intent'[d] = intent[d] /\ calls'[AuthOf(d)] = calls[AuthOf(d)] /\ AuthOf(d)' = AuthOf(d)
        BY <3>1, <3>2, <3>3 DEF AuthOf
      <3>5. d # None
        BY <3>1, NoneAssumption DEF Codes
      <3> QED BY <2>1, <2>3, <3>4, <3>5 DEF RequestOK
    <2> QED BY <2>2, <2>3
  <1>3. RequestsOK'
    BY <1>2 DEF RequestsOK
  <1>4. LockOK'
    BY DEF IInv, LockOK
  <1> QED BY <1>3, <1>4

(* A step that moves nothing but its request keeps the invariant when the  *)
(* request is in order and does not take a code another one works on.      *)
LEMMA RequestMoves ==
    ASSUME IInv, NEW h \in Exchanges,
           xreq' \in [Exchanges -> Request],
           \A g \in Exchanges : g # h => xreq'[g] = xreq[g],
           \A g \in Exchanges : g # h => xreq'[h].code = None \/ xreq[g].code # xreq'[h].code,
           RequestOK(xreq[h])',
           OnlyTheRequest
    PROVE  IInv'
  <1> USE DEF OnlyTheRequest, authorizationVars, upstreamVars
  <1>1. TypeOK'
    BY DEF IInv, TypeOK, AuthorizationTypeOK, Request
  <1>2. AuthOK' /\ CallsOK' /\ RunsOK' /\ AnswersOK'
    BY DEF IInv, AuthOK, AuthOf, Found, CallsOK, RunsOK, LaunchedByOneCode, AnswersOK
  <1>3. LockOK'
    BY DEF IInv, LockOK
  <1>4. RequestsOK'
    <2> SUFFICES ASSUME NEW g \in Exchanges, g # h PROVE RequestOK(xreq[g])'
      BY DEF RequestsOK
    <2>1. xreq'[g] = xreq[g] /\ RequestOK(xreq[g])
      BY DEF IInv, RequestsOK
    <2> QED BY <2>1 DEF RequestOK, AuthOf
  <1> QED BY <1>1, <1>2, <1>3, <1>4 DEF IInv

(* Goto and Return move one request.                                       *)
LEMMA GotoStep ==
    ASSUME TypeOK, NEW h \in Exchanges, NEW label \in PCs, Goto(h, label)
    PROVE  /\ xreq' \in [Exchanges -> Request]
           /\ xreq'[h] = [xreq[h] EXCEPT !.pc = label]
           /\ xreq'[h].pc = label /\ xreq'[h].code = xreq[h].code
           /\ \A g \in Exchanges : g # h => xreq'[g] = xreq[g]
  BY DEF TypeOK, Request, Goto

LEMMA ReturnStep ==
    ASSUME TypeOK, NEW h \in Exchanges, Return(h)
    PROVE  /\ xreq' \in [Exchanges -> Request]
           /\ xreq'[h].code = None
           /\ RequestOK(xreq[h])'
           /\ \A g \in Exchanges : g # h => xreq'[g] = xreq[g]
  <1>1. Idle \in Request
    BY DEF Idle, Request, PCs
  <1>2. xreq' \in [Exchanges -> Request] /\ xreq'[h] = Idle
    BY <1>1 DEF TypeOK, Request, Return
  <1>3. RequestOK(xreq[h])'
    BY <1>2 DEF RequestOK, Idle
  <1> QED BY <1>2, <1>3 DEF Return, TypeOK, Idle

(* The requests that only read: they take the lock, check the pass and the *)
(* mission, look an operation up, or end.                                  *)
LEMMA ReadingSteps ==
    ASSUME IInv, NEW h \in Exchanges,
           \/ \E c \in Codes : ExchangeAndPrepare(h, c)
           \/ validateForExchange(h) \/ IntrospectMission(h) \/ RequestEnds(h)
           \/ handlePrepareError(h) \/ adoptRefused(h) \/ reconcileOrphan(h)
    PROVE  IInv'
  <1>0. /\ TypeOK /\ LockOK /\ RequestOK(xreq[h])
        /\ xreq \in [Exchanges -> Request] /\ pass.rev \in Nat
    BY DEF IInv, RequestsOK, TypeOK, Request, AuthorizationTypeOK, LaunchRow
  <1>1. ASSUME NEW c \in Codes, ExchangeAndPrepare(h, c) PROVE IInv'
    <2> USE <1>1 DEF ExchangeAndPrepare
    <2>1. /\ xreq' \in [Exchanges -> Request]
          /\ xreq'[h].code = c /\ xreq'[h].pc \in {"validate", "row"}
          /\ \A g \in Exchanges : g # h => xreq'[g] = xreq[g]
      BY <1>0 DEF Request, PCs
    <2>2. RequestOK(xreq[h])'
      BY <2>1, NoneAssumption DEF RequestOK, OnlyTheRequest, authorizationVars, Codes
    <2>3. OnlyTheRequest /\ \A g \in Exchanges : xreq[g].code # xreq'[h].code
      BY <2>1
    <2> HIDE <1>1 DEF ExchangeAndPrepare
    <2> QED BY <1>0, <2>1, <2>2, <2>3, RequestMoves
  <1>2. CASE validateForExchange(h)
    <2> USE <1>2 DEF validateForExchange
    <2>1. /\ xreq' \in [Exchanges -> Request] /\ xreq'[h].code = xreq[h].code
          /\ xreq'[h].pc = "introspect"
      BY <1>0 DEF Request, PCs
    <2>2. RequestOK(xreq[h])'
      BY <1>0, <2>1 DEF RequestOK, OnlyTheRequest, authorizationVars
    <2> QED BY <1>0, <2>1, <2>2, RequestMoves DEF LockOK
  <1>3. CASE IntrospectMission(h)
    <2> USE <1>3 DEF IntrospectMission
    <2>0. "claim" \in PCs
      BY DEF PCs
    <2>1. /\ xreq' \in [Exchanges -> Request] /\ xreq'[h].code = xreq[h].code
          /\ xreq'[h].pc = "claim"
          /\ \A g \in Exchanges : g # h => xreq'[g] = xreq[g]
      BY <1>0, <2>0, GotoStep
    <2>2. RequestOK(xreq[h])'
      BY <1>0, <2>1 DEF RequestOK, OnlyTheRequest, authorizationVars
    <2> QED BY <1>0, <2>1, <2>2, RequestMoves DEF LockOK
  <1>4. CASE RequestEnds(h)
    BY <1>0, <1>4, ReturnStep, RequestMoves DEF RequestEnds
  <1>5. CASE handlePrepareError(h) \/ adoptRefused(h)
    <2>0. "fail" \in PCs
      BY DEF PCs
    <2>1. OnlyTheRequest /\ xreq[h].pc \in {"query", "adopt"}
      BY <1>5 DEF handlePrepareError, adoptRefused
    <2>2. CASE Goto(h, "fail")
      <3>1. /\ xreq' \in [Exchanges -> Request] /\ xreq'[h].code = xreq[h].code
            /\ xreq'[h].pc = "fail"
            /\ \A g \in Exchanges : g # h => xreq'[g] = xreq[g]
        BY <1>0, <2>0, <2>2, GotoStep
      <3>2. RequestOK(xreq[h])'
        BY <1>0, <2>1, <3>1 DEF RequestOK, OnlyTheRequest, authorizationVars
      <3> QED BY <1>0, <2>1, <3>1, <3>2, RequestMoves DEF LockOK
    <2>3. CASE /\ xreq[h].pc = "query" /\ mission.run = xreq[h].code
               /\ xreq' = [xreq EXCEPT ![h].pc = "adopt", ![h].run = mission.run]
      <3>0. mission.run \in Codes \cup {None}
        BY <1>0 DEF TypeOK
      <3>1. /\ xreq' \in [Exchanges -> Request] /\ xreq'[h].code = xreq[h].code
            /\ xreq'[h].pc = "adopt" /\ xreq'[h].run = xreq[h].code
            /\ \A g \in Exchanges : g # h => xreq'[g] = xreq[g]
        BY <1>0, <2>3, <3>0 DEF Request, PCs
      <3>2. RequestOK(xreq[h])'
        BY <1>0, <2>1, <2>3, <3>1 DEF RequestOK, OnlyTheRequest, authorizationVars, upstreamVars
      <3> QED BY <1>0, <2>1, <3>1, <3>2, RequestMoves DEF LockOK
    <2> QED BY <1>5, <2>2, <2>3 DEF handlePrepareError, adoptRefused
  <1>6. CASE reconcileOrphan(h)
    <2>0. mission.run \in Codes \cup {None}
      BY <1>0 DEF TypeOK
    <2>1. /\ xreq' \in [Exchanges -> Request] /\ xreq'[h].code = xreq[h].code
          /\ xreq'[h].pc = "adopt" /\ xreq'[h].run = xreq[h].code
          /\ \A g \in Exchanges : g # h => xreq'[g] = xreq[g]
      <3> DEFINE r == [xreq[h] EXCEPT !.pc = "adopt", !.run = mission.run, !.rev = pass.rev]
      <3>1. r \in Request /\ r.pc = "adopt" /\ r.run = mission.run /\ r.code = xreq[h].code
        BY <1>0, <2>0 DEF Request, PCs
      <3>2. xreq' = [xreq EXCEPT ![h] = r] /\ mission.run = xreq[h].code
        BY <1>0, <1>6 DEF reconcileOrphan
      <3> QED BY <1>0, <3>1, <3>2
    <2>2. OnlyTheRequest /\ mission.run = xreq[h].code /\ xreq[h].pc = "orphan"
      BY <1>6 DEF reconcileOrphan
    <2>3. RequestOK(xreq[h])'
      <3>1. xreq[h].code # None /\ ceremony[xreq[h].code].pc = "issued"
                /\ intent[xreq[h].code].status = "in_flight"
        BY <1>0, <2>2 DEF RequestOK
      <3>2. UNCHANGED <<ceremony, intent, mission>>
        BY <2>2 DEF OnlyTheRequest, authorizationVars, upstreamVars
      <3> QED BY <2>1, <2>2, <3>1, <3>2 DEF RequestOK
    <2> QED BY <1>0, <2>1, <2>2, <2>3, RequestMoves DEF LockOK
  <1> QED BY <1>1, <1>2, <1>3, <1>4, <1>5, <1>6

-----------------------------------------------------------------------------
(* A step of a request that writes within its own code and authorization.  *)
LEMMA WritingStep ==
    ASSUME IInv, TypeOK', NEW h \in Exchanges, xreq[h].pc # "idle",
           \A g \in Exchanges : g # h => xreq'[g] = xreq[g],
           xreq'[h].code \in {xreq[h].code, None},
           RequestOK(xreq[h])',
           UNCHANGED <<auth, ceremony>>,
           \A d \in Codes : d # xreq[h].code => intent'[d] = intent[d],
           \A a \in Authorizations : a # AuthOf(xreq[h].code) => calls'[a] = calls[a],
           mission.run # None => mission'.run = mission.run,
           CallsOK', RunsOK', AnswersOK'
    PROVE  IInv'
  <1>1. xreq' \in [Exchanges -> Request]
    BY DEF TypeOK, Request
  <1>2. RequestsOK' /\ LockOK'
    BY <1>1, OthersKept
  <1>3. AuthOK'
    BY DEF IInv, AuthOK, AuthOf, Found
  <1> QED BY <1>2, <1>3 DEF IInv

(* The claim: the first request of a code finds that its authorization was *)
(* not called for.                                                         *)
LEMMA ClaimStep ==
    ASSUME IInv, NEW h \in Exchanges, ClaimLaunchExchangeIntent(h)
    PROVE  IInv'
  <1> DEFINE c == xreq[h].code
  <1>0. /\ TypeOK /\ RequestOK(xreq[h]) /\ xreq[h].pc = "claim"
        /\ UNCHANGED <<pass, auth, ceremony, attested, aged, delivery, mission, late, calls, answers,
                       crashes>>
    BY DEF IInv, RequestsOK, ClaimLaunchExchangeIntent, authorizationVars, upstreamVars
  <1>1. /\ c \in Codes /\ ceremony[c].pc = "issued"
        /\ AuthOf(c) \in Authorizations /\ auth[AuthOf(c)].code = c
    BY <1>0, CodeOfRequest
  <1>2. c # None /\ "row" \in PCs /\ "take" \in PCs
    BY <1>1, NoneAssumption DEF Codes, PCs
  <1>3. CASE intent[c] # NoIntent
    <2>1. UNCHANGED intent /\ Goto(h, "row")
      BY <1>3 DEF ClaimLaunchExchangeIntent
    <2>2. /\ xreq' \in [Exchanges -> Request] /\ xreq'[h].code = c /\ xreq'[h].pc = "row"
          /\ \A g \in Exchanges : g # h => xreq'[g] = xreq[g]
      BY <1>0, <1>2, <2>1, GotoStep
    <2>3. RequestOK(xreq[h])'
      BY <1>0, <1>1, <1>2, <2>1, <2>2 DEF RequestOK
    <2>4. OnlyTheRequest
      BY <1>0, <2>1 DEF OnlyTheRequest, authorizationVars, upstreamVars
    <2> QED BY <2>2, <2>3, <2>4, RequestMoves DEF IInv, LockOK
  <1>4. CASE intent[c] = NoIntent
    <2>1. intent' = [intent EXCEPT ![c].status = "in_flight"] /\ Goto(h, "take")
      BY <1>4 DEF ClaimLaunchExchangeIntent
    <2>2. /\ xreq' \in [Exchanges -> Request] /\ xreq'[h].code = c /\ xreq'[h].pc = "take"
          /\ \A g \in Exchanges : g # h => xreq'[g] = xreq[g]
      BY <1>0, <1>2, <2>1, GotoStep
    <2>3. intent[c].status = "none" /\ calls[AuthOf(c)] = 0
      BY <1>1, <1>4 DEF NoIntent, IInv, CallsOK
    <2>4. /\ intent' \in [Codes -> Intent] /\ intent'[c].status = "in_flight"
          /\ \A d \in Codes : d # c => intent'[d] = intent[d]
      BY <1>0, <1>1, <2>1 DEF TypeOK, Intent
    <2>5. TypeOK'
      BY <1>0, <2>2, <2>4 DEF TypeOK, AuthorizationTypeOK, Request, Intent
    <2>6. RequestOK(xreq[h])'
      BY <1>0, <1>1, <1>2, <2>2, <2>3, <2>4 DEF RequestOK, AuthOf
    <2>7. CallsOK'
      BY <1>0, <2>4 DEF IInv, CallsOK
    <2>8. RunsOK' /\ AnswersOK'
      BY <1>0, <1>1, <2>3, <2>4 DEF IInv, RunsOK, LaunchedByOneCode, AnswersOK
    <2> QED BY <1>0, <2>2, <2>4, <2>5, <2>6, <2>7, <2>8, WritingStep
  <1> QED BY <1>3, <1>4

(* Taking the attestation: only its cache and the request change.          *)
LEMMA TakeStep ==
    ASSUME IInv, NEW h \in Exchanges, Take(h)
    PROVE  IInv'
  <1> DEFINE c == xreq[h].code
  <1>0. /\ TypeOK /\ RequestOK(xreq[h]) /\ xreq[h].pc = "take"
        /\ UNCHANGED <<pass, auth, ceremony, intent, aged, delivery, mission, late, calls, answers,
                       crashes>>
    BY DEF IInv, RequestsOK, Take, upstreamVars
  <1>1. /\ c \in Codes /\ ceremony[c].pc = "issued"
        /\ AuthOf(c) \in Authorizations /\ auth[AuthOf(c)].code = c
    BY <1>0, CodeOfRequest
  <1>2. PICK label \in {"prepare", "fail"} : Goto(h, label)
    BY DEF Take
  <1>3. /\ xreq' \in [Exchanges -> Request] /\ xreq'[h].code = c /\ xreq'[h].pc = label
        /\ \A g \in Exchanges : g # h => xreq'[g] = xreq[g]
    <2>1. label \in PCs
      BY DEF PCs
    <2> QED BY <1>0, <1>2, <2>1, GotoStep
  <1>4. attested' \in [Authorizations -> Codes \cup {None}]
    BY <1>0, <1>1 DEF Take, TypeOK, AuthorizationTypeOK
  <1>5. TypeOK'
    BY <1>0, <1>3, <1>4 DEF TypeOK, AuthorizationTypeOK, Request
  <1>6. RequestOK(xreq[h])'
    BY <1>0, <1>1, <1>3 DEF RequestOK, AuthOf
  <1>7. CallsOK' /\ RunsOK' /\ AnswersOK'
    BY <1>0 DEF IInv, CallsOK, RunsOK, LaunchedByOneCode, AnswersOK
  <1> QED BY <1>0, <1>3, <1>5, <1>6, <1>7, WritingStep

(* The authority applies a call: the mission had no run.                   *)
LEMMA PrepareApplied ==
    ASSUME TypeOK, NEW c \in Codes, Preparable, ApplyPrepare(c)
    PROVE  /\ mission' \in [revoked : BOOLEAN, ver : Nat, run : Codes \cup {None}]
           /\ mission.run = None /\ mission'.run = c
  <1>1. mission \in [revoked : BOOLEAN, ver : Nat, run : Codes \cup {None}]
    BY DEF TypeOK
  <1>2. mission.ver + 1 \in Nat
    BY <1>1
  <1> QED BY <1>1, <1>2 DEF Preparable, ApplyPrepare

(* The call: it is the first of its authorization, whose code has an       *)
(* intent in flight.                                                       *)
LEMMA PrepareSteps ==
    ASSUME IInv, NEW h \in Exchanges,
           PrepareLaunchAnswered(h) \/ PrepareLaunchDenied(h) \/ PrepareLaunchFailed(h)
    PROVE  IInv'
  <1> DEFINE c == xreq[h].code
             a == AuthOf(c)
  <1>0. /\ TypeOK /\ RequestOK(xreq[h]) /\ xreq[h].pc = "prepare" /\ Called(h)
        /\ UNCHANGED <<pass, auth, ceremony, attested, intent, aged, delivery, answers, crashes>>
    BY DEF IInv, RequestsOK, PrepareLaunchAnswered, PrepareLaunchDenied, PrepareLaunchFailed,
           authorizationVars
  <1>1. /\ c \in Codes /\ ceremony[c].pc = "issued"
        /\ a \in Authorizations /\ auth[a].code = c
    BY <1>0, CodeOfRequest
  <1>2. /\ calls[a] = 0 /\ intent[c].status = "in_flight" /\ c # None
        /\ xreq \in [Exchanges -> Request]
    BY <1>0, <1>1 DEF RequestOK, TypeOK, Request
  <1>3. /\ calls' \in [Authorizations -> Nat] /\ calls'[a] = 1
        /\ \A b \in Authorizations : b # a => calls'[b] = calls[b]
    BY <1>0, <1>1, <1>2 DEF Called, TypeOK
  <1>4. /\ mission' \in [revoked : BOOLEAN, ver : Nat, run : Codes \cup {None}]
        /\ mission.run # None => mission'.run = mission.run
        /\ late' \subseteq Codes
        /\ PrepareLaunchAnswered(h) => mission'.run = c
    <2>1. mission \in [revoked : BOOLEAN, ver : Nat, run : Codes \cup {None}] /\ late \subseteq Codes
      BY <1>0 DEF TypeOK
    <2>2. CASE Preparable /\ ApplyPrepare(c) /\ UNCHANGED late
      BY <1>1, <2>2, PrepareApplied, <1>0 DEF TypeOK
    <2>3. CASE UNCHANGED mission /\ late' \subseteq late \cup {c} /\ ~PrepareLaunchAnswered(h)
      BY <1>1, <2>1, <2>3
    <2>4. PrepareLaunchAnswered(h) => Preparable /\ ApplyPrepare(c) /\ UNCHANGED late
      BY DEF PrepareLaunchAnswered
    <2> QED BY <2>2, <2>3, <2>4 DEF PrepareLaunchDenied, PrepareLaunchFailed
  <1>5. /\ xreq' \in [Exchanges -> Request]
        /\ \A g \in Exchanges : g # h => xreq'[g] = xreq[g]
        /\ xreq'[h].code \in {c, None}
        /\ RequestOK(xreq[h])'
    <2>1. CASE PrepareLaunchAnswered(h)
      <3> DEFINE r == [xreq[h] EXCEPT !.pc = "adopt", !.run = c]
      <3>1. r \in Request /\ r.pc = "adopt" /\ r.run = c /\ r.code = c
        BY <1>1, <1>2 DEF Request, PCs
      <3>2. xreq' = [xreq EXCEPT ![h] = r]
        BY <1>2, <2>1 DEF PrepareLaunchAnswered
      <3> HIDE DEF r
      <3>3. xreq'[h] = r
        BY <1>2, <3>2
      <3>4. RequestOK(xreq[h])'
        BY <1>0, <1>1, <1>2, <1>4, <2>1, <3>1, <3>3 DEF RequestOK
      <3> QED BY <1>2, <3>1, <3>2, <3>3, <3>4
    <2>2. CASE Return(h)
      BY <1>0, <2>2, ReturnStep
    <2>3. ASSUME NEW label \in {"fail", "query"}, Goto(h, label)
          PROVE  /\ xreq' \in [Exchanges -> Request]
                 /\ \A g \in Exchanges : g # h => xreq'[g] = xreq[g]
                 /\ xreq'[h].code \in {c, None}
                 /\ RequestOK(xreq[h])'
      <3>1. label \in PCs
        BY DEF PCs
      <3>2. /\ xreq' \in [Exchanges -> Request] /\ xreq'[h].code = c /\ xreq'[h].pc = label
            /\ \A g \in Exchanges : g # h => xreq'[g] = xreq[g]
        BY <1>0, <2>3, <3>1, GotoStep
      <3>3. RequestOK(xreq[h])'
        BY <1>0, <1>1, <1>2, <3>2 DEF RequestOK
      <3> QED BY <3>2, <3>3
    <2> QED BY <2>1, <2>2, <2>3 DEF PrepareLaunchDenied, PrepareLaunchFailed
  <1>6. TypeOK'
    BY <1>0, <1>3, <1>4, <1>5 DEF TypeOK, AuthorizationTypeOK, Request
  <1>7. CallsOK'
    BY <1>0, <1>1, <1>2, <1>3 DEF IInv, CallsOK
  <1>8. RunsOK' /\ AnswersOK'
    BY <1>0, <1>4, NoneAssumption DEF IInv, RunsOK, LaunchedByOneCode, AnswersOK, Codes
  <1> QED BY <1>0, <1>3, <1>4, <1>5, <1>6, <1>7, <1>8, WritingStep

-----------------------------------------------------------------------------
(* SettleLaunchExchangeIntent on a row in flight.                          *)
LEMMA SettleStep ==
    ASSUME TypeOK, NEW c \in Codes, NEW status \in {"completed", "failed", "expired"},
           NEW run \in Codes \cup {None}, intent[c].status = "in_flight",
           SettleLaunchExchangeIntent(c, status, run)
    PROVE  /\ intent' \in [Codes -> Intent] /\ aged' \subseteq Codes
           /\ intent'[c].status = status /\ intent'[c].run = run
           /\ \A d \in Codes : d # c => intent'[d] = intent[d]
  BY DEF TypeOK, Intent, SettleLaunchExchangeIntent

(* The adoption: the pass was approved and without a run, so no intent was *)
(* completed and nothing was delivered before.                             *)
LEMMA AdoptStep ==
    ASSUME IInv, NEW h \in Exchanges, adoptArtifacts(h)
    PROVE  IInv'
  <1> DEFINE c == xreq[h].code
  <1>0. /\ TypeOK /\ RequestOK(xreq[h]) /\ xreq[h].pc = "adopt" /\ Return(h)
        /\ UNCHANGED <<auth, ceremony, attested, mission, late, calls, crashes>>
    BY DEF IInv, RequestsOK, adoptArtifacts, authorizationVars, upstreamVars
  <1>1. c \in Codes /\ c # None
    BY <1>0, CodeOfRequest DEF RequestOK
  <1>2. xreq[h].run = c /\ mission.run = c /\ intent[c].status = "in_flight"
    BY <1>0 DEF RequestOK
  <1>3. /\ intent' \in [Codes -> Intent] /\ aged' \subseteq Codes
        /\ intent'[c].status = "completed" /\ intent'[c].run = c
        /\ \A d \in Codes : d # c => intent'[d] = intent[d]
    BY <1>0, <1>1, <1>2, SettleStep DEF adoptArtifacts
  <1>4. pass.run = None
    BY DEF adoptArtifacts, checkPassBinding, IInv, RunsOK
  <1>5. pass' \in LaunchRow /\ pass'.run = c /\ pass'.state = "launching"
    <2>1. pass \in LaunchRow
      BY <1>0 DEF TypeOK, AuthorizationTypeOK
    <2>2. pass.mver + 1 \in Nat /\ pass.rev + 1 \in Nat
      BY <2>1 DEF LaunchRow
    <2>3. pass' = [pass EXCEPT !.state = "launching", !.run = c, !.mver = @ + 1, !.rev = @ + 1]
      BY <1>2 DEF adoptArtifacts, LaunchingRow
    <2> QED BY <1>1, <2>1, <2>2, <2>3 DEF LaunchRow, PassState
  <1>6. /\ delivery' \in [Codes -> Codes \cup {None}] /\ delivery'[c] = c
        /\ answers' \in [Codes -> SUBSET Codes] /\ answers'[c] = answers[c] \cup {c}
        /\ \A d \in Codes : d # c => delivery'[d] = delivery[d] /\ answers'[d] = answers[d]
    BY <1>0, <1>1, <1>2 DEF adoptArtifacts, TypeOK
  <1>7. /\ xreq' \in [Exchanges -> Request] /\ xreq'[h].code = None /\ RequestOK(xreq[h])'
        /\ \A g \in Exchanges : g # h => xreq'[g] = xreq[g]
    BY <1>0, ReturnStep
  <1>8. TypeOK'
    BY <1>0, <1>3, <1>5, <1>6, <1>7 DEF TypeOK, AuthorizationTypeOK, Request, Intent
  <1>9. CallsOK'
    BY <1>0, <1>3 DEF IInv, CallsOK
  <1>10. RunsOK'
    <2>1. \A d \in Codes : intent[d].status # "completed"
      BY <1>4, NoneAssumption DEF IInv, RunsOK, LaunchedByOneCode, Codes
    <2> QED BY <1>0, <1>2, <1>3, <1>5, <2>1 DEF RunsOK, LaunchedByOneCode
  <1>11. AnswersOK'
    <2>1. \A d \in Codes : answers[d] = {} /\ delivery[d] = None
      BY <1>4, NoneAssumption DEF IInv, AnswersOK, Codes
    <2> QED BY <1>5, <1>6, <2>1 DEF AnswersOK
  <1> QED BY <1>0, <1>3, <1>7, <1>8, <1>9, <1>10, <1>11, WritingStep

(* A failed exchange, an expired one and one that stays ambiguous: only a  *)
(* row in flight settles.                                                  *)
LEMMA SettleSteps ==
    ASSUME IInv, NEW h \in Exchanges, settleFailed(h) \/ settleOrphan(h)
    PROVE  IInv'
  <1> DEFINE c == xreq[h].code
  <1>0. /\ TypeOK /\ RequestOK(xreq[h]) /\ xreq[h].pc \in {"fail", "row"}
        /\ UNCHANGED <<pass, auth, ceremony, attested, delivery, mission, late, calls, answers,
                       crashes>>
    BY DEF IInv, RequestsOK, settleFailed, settleOrphan, authorizationVars, upstreamVars
  <1>1. c \in Codes /\ c # None /\ ceremony[c].pc = "issued"
    BY <1>0, CodeOfRequest DEF RequestOK
  <1>2. intent[c].status = "in_flight"
    BY <1>0 DEF RequestOK, settleFailed, settleOrphan
  <1>3. ASSUME NEW status \in {"failed", "expired"}, SettleLaunchExchangeIntent(c, status, None),
               Return(h)
        PROVE  IInv'
    <2>1. /\ intent' \in [Codes -> Intent] /\ aged' \subseteq Codes
          /\ intent'[c].status = status
          /\ \A d \in Codes : d # c => intent'[d] = intent[d]
      BY <1>0, <1>1, <1>2, <1>3, SettleStep
    <2>2. /\ xreq' \in [Exchanges -> Request] /\ xreq'[h].code = None /\ RequestOK(xreq[h])'
          /\ \A g \in Exchanges : g # h => xreq'[g] = xreq[g]
      BY <1>0, <1>3, ReturnStep
    <2>3. TypeOK'
      BY <1>0, <2>1, <2>2 DEF TypeOK, AuthorizationTypeOK, Request, Intent
    <2>4. CallsOK'
      BY <1>0, <2>1 DEF IInv, CallsOK
    <2>5. RunsOK' /\ AnswersOK'
      BY <1>0, <1>1, <1>2, <2>1 DEF IInv, RunsOK, LaunchedByOneCode, AnswersOK
    <2> QED BY <1>0, <2>1, <2>2, <2>3, <2>4, <2>5, WritingStep
  <1>4. CASE Goto(h, "orphan") /\ UNCHANGED <<intent, aged>>
    <2>0. "orphan" \in PCs
      BY DEF PCs
    <2>1. /\ xreq' \in [Exchanges -> Request] /\ xreq'[h].code = c /\ xreq'[h].pc = "orphan"
          /\ \A g \in Exchanges : g # h => xreq'[g] = xreq[g]
      BY <1>0, <1>4, <2>0, GotoStep
    <2>2. RequestOK(xreq[h])'
      BY <1>0, <1>1, <1>2, <1>4, <2>1 DEF RequestOK
    <2>3. OnlyTheRequest
      BY <1>0, <1>4 DEF OnlyTheRequest, authorizationVars, upstreamVars
    <2> QED BY <2>1, <2>2, <2>3, RequestMoves DEF IInv, LockOK
  <1> QED BY <1>3, <1>4 DEF settleFailed, settleOrphan

(* The repeated deliveries of a completed exchange.                        *)
LEMMA ReplaySteps ==
    ASSUME IInv, NEW h \in Exchanges, replayCompleted(h) \/ reconcileCompleted(h)
    PROVE  IInv'
  <1> DEFINE c == xreq[h].code
  <1>0. /\ TypeOK /\ RequestOK(xreq[h]) /\ xreq[h].pc \in {"row", "recover"}
        /\ UNCHANGED <<pass, auth, ceremony, attested, intent, aged, mission, late, calls, crashes>>
    BY DEF IInv, RequestsOK, replayCompleted, reconcileCompleted, authorizationVars, upstreamVars
  <1>1. c \in Codes /\ c # None /\ ceremony[c].pc = "issued"
    BY <1>0, CodeOfRequest DEF RequestOK
  <1>2. intent[c].status = "completed" /\ pass.run = c
    BY <1>0, <1>1 DEF RequestOK, replayCompleted, reconcileCompleted, IInv, RunsOK, LaunchedByOneCode
  <1>3. ASSUME Return(h), answers' = [answers EXCEPT ![c] = @ \cup {c}],
               UNCHANGED delivery \/ delivery' = [delivery EXCEPT ![c] = c]
        PROVE  IInv'
    <2>1. /\ xreq' \in [Exchanges -> Request] /\ xreq'[h].code = None /\ RequestOK(xreq[h])'
          /\ \A g \in Exchanges : g # h => xreq'[g] = xreq[g]
      BY <1>0, <1>3, ReturnStep
    <2>2. delivery' \in [Codes -> Codes \cup {None}] /\ answers' \in [Codes -> SUBSET Codes]
      BY <1>0, <1>1, <1>3 DEF TypeOK
    <2>3. TypeOK'
      BY <1>0, <2>1, <2>2 DEF TypeOK, AuthorizationTypeOK, Request
    <2>4. CallsOK' /\ RunsOK'
      BY <1>0 DEF IInv, CallsOK, RunsOK, LaunchedByOneCode
    <2>5. AnswersOK'
      BY <1>0, <1>1, <1>2, <1>3 DEF IInv, TypeOK, AnswersOK
    <2> QED BY <1>0, <2>1, <2>3, <2>4, <2>5, WritingStep
  <1>4. CASE Goto(h, "recover") /\ UNCHANGED <<answers, delivery>>
    <2>0. "recover" \in PCs
      BY DEF PCs
    <2>1. /\ xreq' \in [Exchanges -> Request] /\ xreq'[h].code = c /\ xreq'[h].pc = "recover"
          /\ \A g \in Exchanges : g # h => xreq'[g] = xreq[g]
      BY <1>0, <1>4, <2>0, GotoStep
    <2>2. RequestOK(xreq[h])'
      BY <1>0, <1>1, <1>2, <2>1 DEF RequestOK
    <2>3. OnlyTheRequest
      BY <1>0, <1>4 DEF OnlyTheRequest, authorizationVars, upstreamVars
    <2> QED BY <2>1, <2>2, <2>3, RequestMoves DEF IInv, LockOK
  <1>5. CASE reconcileCompleted(h)
    BY <1>3, <1>5 DEF reconcileCompleted
  <1>6. CASE replayCompleted(h)
    <2>1. delivery[c] # None => delivery[c] = c
      BY <1>1 DEF IInv, AnswersOK
    <2> QED BY <1>3, <1>4, <1>6, <2>1 DEF replayCompleted
  <1> QED BY <1>5, <1>6

-----------------------------------------------------------------------------
(* The steps of the browser hand-off: a code that was issued stays so, and *)
(* an authorization keeps its code.                                        *)
LEMMA AuthorizationMoves ==
    ASSUME IInv,
           auth' \in [Authorizations -> [status : {"none", "creating", "pending", "approved"},
                                         mver : Nat, code : Codes \cup {None}]],
           ceremony' \in [Ceremonies -> [pc : {"none", "begun", "verified", "issued", "dead"},
                                         auth : Authorizations \cup {None}]],
           attested' \in [Authorizations -> Codes \cup {None}],
           AuthOK',
           \A c \in Codes : ceremony[c].pc = "issued" => ceremony'[c] = ceremony[c],
           \A a \in Authorizations : auth[a].code # None => auth'[a].code = auth[a].code,
           UNCHANGED <<pass, intent, aged, delivery, xreq, mission, late, calls, answers, crashes>>
    PROVE  IInv'
  <1>1. TypeOK'
    BY DEF IInv, TypeOK, AuthorizationTypeOK
  <1>2. LockOK' /\ RunsOK' /\ AnswersOK'
    BY DEF IInv, LockOK, RunsOK, LaunchedByOneCode, AnswersOK
  <1>3. CallsOK'
    BY NoneAssumption DEF IInv, CallsOK, Codes
  <1>4. RequestsOK'
    <2> SUFFICES ASSUME NEW h \in Exchanges PROVE RequestOK(xreq[h])'
      BY DEF RequestsOK
    <2>1. RequestOK(xreq[h])
      BY DEF IInv, RequestsOK
    <2>2. CASE xreq[h].pc = "idle"
      BY <2>1, <2>2 DEF RequestOK, Idle
    <2>3. CASE xreq[h].pc # "idle"
      <3>1. ceremony'[xreq[h].code] = ceremony[xreq[h].code]
        BY <2>3, CodeOfRequest
      <3> QED BY <2>1, <2>3, <3>1 DEF RequestOK, AuthOf
    <2> QED BY <2>2, <2>3
  <1> QED BY <1>1, <1>2, <1>3, <1>4 DEF IInv

LEMMA AuthorizationSteps ==
    ASSUME IInv, AuthorizationStep, UNCHANGED <<exchangeVars, upstreamVars, answers, crashes>>
    PROVE  IInv'
  <1> DEFINE AuthRow == [status : {"none", "creating", "pending", "approved"},
                         mver : Nat, code : Codes \cup {None}]
             CeremonyRow == [pc : {"none", "begun", "verified", "issued", "dead"},
                             auth : Authorizations \cup {None}]
  <1>0. /\ UNCHANGED <<intent, aged, delivery, xreq, mission, late, calls, answers, crashes>>
        /\ AuthOK /\ pass.mver \in Nat
        /\ auth \in [Authorizations -> AuthRow]
        /\ ceremony \in [Ceremonies -> CeremonyRow]
        /\ attested \in [Authorizations -> Codes \cup {None}]
    BY DEF exchangeVars, upstreamVars, IInv, TypeOK, AuthorizationTypeOK, LaunchRow
  <1> USE DEF Codes
  <1>1. ASSUME NEW a \in Authorizations, CreateReads(a) \/ CreateInserts(a) PROVE IInv'
    <2>1. /\ auth' \in [Authorizations -> AuthRow] /\ UNCHANGED <<pass, ceremony, attested>>
          /\ \A b \in Authorizations : b # a => auth'[b] = auth[b]
          /\ auth[a].status \in {"none", "creating"} /\ auth[a].code = None /\ auth'[a].code = None
      BY <1>0, <1>1 DEF CreateReads, CreateInserts, AuthOK
    <2>2. AuthOK'
      BY <1>0, <2>1, NoneAssumption DEF AuthOK, AuthOf, Found
    <2> QED BY <1>0, <2>1, <2>2, AuthorizationMoves
  <1>2. ASSUME NEW c \in Ceremonies, NEW r \in CeremonyRow, ceremony' = [ceremony EXCEPT ![c] = r],
               ceremony[c].pc # "issued", r.pc # "issued", r.auth \in Authorizations,
               UNCHANGED <<pass, auth, attested>>
        PROVE  IInv'
    <2>1. /\ ceremony' \in [Ceremonies -> CeremonyRow] /\ ceremony'[c] = r
          /\ \A d \in Ceremonies : d # c => ceremony'[d] = ceremony[d]
      BY <1>0, <1>2
    <2> HIDE DEF CeremonyRow
    <2>2. AuthOK'
      BY <1>0, <1>2, <2>1 DEF AuthOK, AuthOf, Found
    <2> QED BY <1>0, <1>2, <2>1, <2>2, AuthorizationMoves DEF CeremonyRow
  <1>3. ASSUME NEW c \in Ceremonies, NEW a \in Authorizations, BeginBrowserDecision(c, a) PROVE IInv'
    <2> DEFINE r == [pc |-> "begun", auth |-> a]
    <2>1. /\ r \in CeremonyRow /\ r.pc # "issued" /\ r.auth \in Authorizations
          /\ ceremony[c].pc # "issued" /\ ceremony' = [ceremony EXCEPT ![c] = r]
          /\ UNCHANGED <<pass, auth, attested>>
      BY <1>3 DEF BeginBrowserDecision, NoCeremony
    <2> HIDE DEF r, CeremonyRow
    <2> QED BY <2>1, <1>2
  <1>4. ASSUME NEW c \in Ceremonies, NEW label \in {"verified", "dead"},
               ceremony[c].pc \in {"begun", "verified"},
               ceremony' = [ceremony EXCEPT ![c].pc = label], UNCHANGED <<pass, auth, attested>>
        PROVE  IInv'
    <2> DEFINE r == [ceremony[c] EXCEPT !.pc = label]
    <2>1. /\ r \in CeremonyRow /\ r.pc # "issued" /\ r.auth \in Authorizations
          /\ ceremony' = [ceremony EXCEPT ![c] = r]
      BY <1>0, <1>4 DEF AuthOK, AuthOf
    <2> HIDE DEF r, CeremonyRow
    <2> QED BY <1>4, <2>1, <1>2
  <1>5. ASSUME NEW c \in Ceremonies, ApproveCLIAuthorization(c) PROVE IInv'
    <2> DEFINE a == AuthOf(c)
    <2>0. a \in Authorizations /\ ceremony[c].pc = "verified"
      BY <1>0, <1>5 DEF ApproveCLIAuthorization, AuthOK, AuthOf
    <2>1. CASE auth[a].status # "pending"
      BY <1>4, <1>5, <2>0, <2>1 DEF ApproveCLIAuthorization, AuthOf
    <2>2. CASE auth[a].status = "pending"
      <3>1. /\ auth' = [auth EXCEPT ![a].status = "approved", ![a].code = c]
            /\ attested' = [attested EXCEPT ![a] = c]
            /\ ceremony' = [ceremony EXCEPT ![c].pc = "issued"]
            /\ UNCHANGED pass
        BY <1>5, <2>2 DEF ApproveCLIAuthorization, AuthOf
      <3>2. /\ auth' \in [Authorizations -> AuthRow]
            /\ auth'[a].status = "approved" /\ auth'[a].code = c
            /\ \A b \in Authorizations : b # a => auth'[b] = auth[b]
        BY <1>0, <2>0, <3>1
      <3>3. attested' \in [Authorizations -> Codes \cup {None}]
        BY <1>0, <2>0, <3>1
      <3>4. /\ ceremony' \in [Ceremonies -> CeremonyRow]
            /\ ceremony'[c].pc = "issued" /\ ceremony'[c].auth = a
            /\ \A d \in Ceremonies : d # c => ceremony'[d] = ceremony[d]
        BY <1>0, <2>0, <3>1 DEF AuthOf
      <3>5. auth[a].code = None
        BY <1>0, <2>0, <2>2 DEF AuthOK
      <3> HIDE DEF AuthRow, CeremonyRow
      <3>6. AuthOK'
        <4>1. ASSUME NEW d \in Codes
              PROVE  /\ ceremony'[d].pc # "none" => AuthOf(d)' \in Authorizations
                     /\ ceremony'[d].pc = "issued" => auth'[AuthOf(d)'].code = d
          <5>1. CASE d = c
            BY <2>0, <3>2, <3>4, <5>1 DEF AuthOf
          <5>2. CASE d # c
            <6>1. ceremony'[d] = ceremony[d]
              BY <3>4, <5>2
            <6>2. ceremony[d].pc = "issued" => AuthOf(d) # a /\ AuthOf(d) \in Authorizations
              BY <1>0, <3>5, NoneAssumption DEF AuthOK, Found
            <6> QED BY <1>0, <3>2, <6>1, <6>2 DEF AuthOK, AuthOf, Found
          <5> QED BY <5>1, <5>2
        <4>2. \A b \in Authorizations : auth'[b].status # "approved" => auth'[b].code = None
          BY <1>0, <3>2 DEF AuthOK
        <4> QED BY <4>1, <4>2 DEF AuthOK, Found
      <3>7. \A b \in Authorizations : auth[b].code # None => auth'[b].code = auth[b].code
        BY <3>2, <3>5
      <3> QED BY <1>0, <2>0, <3>1, <3>2, <3>3, <3>4, <3>6, <3>7, AuthorizationMoves
              DEF AuthRow, CeremonyRow
    <2> QED BY <2>1, <2>2
  <1> QED BY <1>1, <1>3, <1>4, <1>5 DEF AuthorizationStep, FinishBrowserDecision, FinishRefused

(* The steps of the world: time, the cache, the authority, a revocation.   *)
LEMMA EnvironmentSteps ==
    ASSUME IInv,
           \/ \E c \in Codes : IntentAges(c) \/ DeliveryEvicted(c) \/ PrepareArrivesLate(c)
           \/ RevokeMission \/ markRevokePending \/ settleRevocation
    PROVE  IInv'
  <1> USE DEF authorizationVars, exchangeVars, upstreamVars
  <1>0. TypeOK
    BY DEF IInv
  <1>1. ASSUME NEW c \in Codes, IntentAges(c) \/ DeliveryEvicted(c) PROVE IInv'
    <2>1. /\ UNCHANGED <<pass, auth, ceremony, attested, intent, xreq, mission, late, calls, answers,
                         crashes>>
          /\ aged' \subseteq Codes /\ delivery' \in [Codes -> Codes \cup {None}]
          /\ \A d \in Codes : delivery'[d] \in {delivery[d], None}
      BY <1>0, <1>1 DEF IntentAges, DeliveryEvicted, TypeOK
    <2>2. TypeOK' /\ AuthOK' /\ LockOK' /\ CallsOK'
      BY <2>1 DEF IInv, TypeOK, AuthorizationTypeOK, AuthOK, AuthOf, Found, LockOK, CallsOK
    <2>3. RequestsOK' /\ RunsOK'
      BY <2>1 DEF IInv, RequestsOK, RequestOK, AuthOf, RunsOK, LaunchedByOneCode
    <2>4. AnswersOK'
      BY <2>1 DEF IInv, AnswersOK
    <2> QED BY <2>2, <2>3, <2>4 DEF IInv
  <1>2. ASSUME mission' \in [revoked : BOOLEAN, ver : Nat, run : Codes \cup {None}],
               late' \subseteq Codes, mission.run # None => mission'.run = mission.run,
               UNCHANGED <<pass, auth, ceremony, attested, intent, aged, delivery, xreq, calls,
                           answers, crashes>>
        PROVE  IInv'
    <2>1. TypeOK' /\ AuthOK' /\ LockOK' /\ CallsOK' /\ AnswersOK'
      BY <1>2 DEF IInv, TypeOK, AuthorizationTypeOK, AuthOK, AuthOf, Found, LockOK, CallsOK, AnswersOK
    <2>2. RunsOK'
      BY <1>2, NoneAssumption DEF IInv, RunsOK, LaunchedByOneCode, Codes
    <2>3. RequestsOK'
      <3> SUFFICES ASSUME NEW h \in Exchanges PROVE RequestOK(xreq[h])'
        BY DEF RequestsOK
      <3>1. RequestOK(xreq[h])
        BY DEF IInv, RequestsOK
      <3>2. xreq[h].pc = "adopt" => mission.run # None
        BY <3>1 DEF RequestOK
      <3> QED BY <1>2, <3>1, <3>2 DEF RequestOK, AuthOf
    <2> QED BY <2>1, <2>2, <2>3 DEF IInv
  <1>3. ASSUME NEW c \in Codes, PrepareArrivesLate(c) PROVE IInv'
    <2>1. CASE Preparable
      BY <1>0, <1>2, <1>3, <2>1, PrepareApplied DEF PrepareArrivesLate, TypeOK
    <2>2. CASE ~Preparable
      BY <1>0, <1>2, <1>3, <2>2 DEF PrepareArrivesLate, TypeOK
    <2> QED BY <2>1, <2>2
  <1>4. CASE RevokeMission
    <2>1. /\ mission' \in [revoked : BOOLEAN, ver : Nat, run : Codes \cup {None}]
          /\ mission'.run = mission.run
      <3>1. mission \in [revoked : BOOLEAN, ver : Nat, run : Codes \cup {None}]
        BY <1>0 DEF TypeOK
      <3>2. mission.ver + 1 \in Nat
        BY <3>1
      <3>3. mission' = [mission EXCEPT !.revoked = TRUE, !.ver = @ + 1]
        BY <1>4 DEF RevokeMission
      <3> QED BY <3>1, <3>2, <3>3
    <2> QED BY <1>0, <1>2, <1>4, <2>1 DEF RevokeMission, TypeOK
  <1>5. CASE markRevokePending \/ settleRevocation
    <2>1. /\ UNCHANGED <<auth, ceremony, attested, intent, aged, delivery, xreq, mission, late, calls,
                         answers, crashes>>
          /\ pass' \in LaunchRow /\ pass'.run = pass.run /\ pass'.state \in {pass.state, "revoked"}
      <3>1. pass \in LaunchRow
        BY <1>0 DEF TypeOK, AuthorizationTypeOK
      <3>2. pass.rev + 1 \in Nat
        BY <3>1 DEF LaunchRow
      <3>3. CASE markRevokePending
        BY <3>1, <3>2, <3>3 DEF markRevokePending, LaunchRow
      <3>4. CASE settleRevocation
        BY <3>1, <3>2, <3>4 DEF settleRevocation, LaunchRow, PassState
      <3> QED BY <1>5, <3>3, <3>4
    <2>2. TypeOK' /\ AuthOK' /\ LockOK' /\ CallsOK' /\ AnswersOK'
      BY <2>1 DEF IInv, TypeOK, AuthorizationTypeOK, AuthOK, AuthOf, Found, LockOK, CallsOK, AnswersOK
    <2>3. RunsOK' /\ RequestsOK'
      BY <2>1 DEF IInv, RunsOK, LaunchedByOneCode, RequestsOK, RequestOK, AuthOf
    <2> QED BY <2>2, <2>3 DEF IInv
  <1> QED BY <1>1, <1>3, <1>4, <1>5

(* A restart forgets the requests, the cached results, the attestations    *)
(* and the ceremonies under way; the intents and the codes issued stay.    *)
LEMMA CrashStep == ASSUME IInv, Crash PROVE IInv'
  <1> DEFINE AuthRow == [status : {"none", "creating", "pending", "approved"},
                         mver : Nat, code : Codes \cup {None}]
             CeremonyRow == [pc : {"none", "begun", "verified", "issued", "dead"},
                             auth : Authorizations \cup {None}]
  <1> USE DEF Codes
  <1>0. /\ UNCHANGED <<pass, intent, aged, mission, late, calls, answers>>
        /\ AuthorizationsForgotten /\ TypeOK /\ AuthOK
        /\ auth \in [Authorizations -> AuthRow] /\ ceremony \in [Ceremonies -> CeremonyRow]
    BY DEF Crash, upstreamVars, IInv, TypeOK, AuthorizationTypeOK
  <1>1. /\ auth' \in [Authorizations -> AuthRow]
        /\ \A a \in Authorizations :
               /\ auth'[a].code = auth[a].code
               /\ auth'[a].status = "approved" <=> auth[a].status = "approved"
    BY <1>0 DEF AuthorizationsForgotten, NoAuthorization, AuthOK
  <1>2. /\ ceremony' \in [Ceremonies -> CeremonyRow]
        /\ \A c \in Ceremonies :
               /\ ceremony'[c].auth = ceremony[c].auth
               /\ ceremony'[c].pc = "issued" <=> ceremony[c].pc = "issued"
               /\ ceremony'[c].pc = "none" <=> ceremony[c].pc = "none"
    BY <1>0 DEF AuthorizationsForgotten
  <1>3. attested' \in [Authorizations -> Codes \cup {None}]
    BY <1>0 DEF AuthorizationsForgotten
  <1>4. Idle \in Request /\ xreq' = [h \in Exchanges |-> Idle] /\ delivery' = [c \in Codes |-> None]
    BY DEF Crash, Idle, Request, PCs
  <1>5. crashes' \in 0 .. MaxCrashes
    BY <1>0, LaunchAssumption DEF Crash, TypeOK
  <1> HIDE DEF AuthRow, CeremonyRow
  <1>6. TypeOK'
    BY <1>0, <1>1, <1>2, <1>3, <1>4, <1>5
    DEF TypeOK, AuthorizationTypeOK, Request, AuthRow, CeremonyRow
  <1>7. AuthOK'
    BY <1>0, <1>1, <1>2 DEF AuthOK, AuthOf, Found
  <1>8. LockOK' /\ RequestsOK'
    BY <1>4 DEF LockOK, RequestsOK, RequestOK, Idle
  <1>9. CallsOK'
    BY <1>0, <1>1 DEF IInv, CallsOK
  <1>10. RunsOK' /\ AnswersOK'
    BY <1>0, <1>4 DEF IInv, RunsOK, LaunchedByOneCode, AnswersOK
  <1> QED BY <1>6, <1>7, <1>8, <1>9, <1>10 DEF IInv

(* Every step keeps the invariant.                                         *)
LEMMA NextPreserves == IInv /\ [Next]_vars => IInv'
  <1> SUFFICES ASSUME IInv, [Next]_vars PROVE IInv'
    OBVIOUS
  <1>1. CASE AuthorizationStep /\ UNCHANGED <<exchangeVars, upstreamVars, answers, crashes>>
    BY <1>1, AuthorizationSteps
  <1>2. ASSUME NEW h \in Exchanges, ExchangeStep(h) PROVE IInv'
    BY <1>2, ReadingSteps, ClaimStep, TakeStep, PrepareSteps, AdoptStep, SettleSteps, ReplaySteps
    DEF ExchangeStep
  <1>3. CASE \/ \E c \in Codes : IntentAges(c) \/ DeliveryEvicted(c) \/ PrepareArrivesLate(c)
             \/ RevokeMission \/ markRevokePending \/ settleRevocation
    BY <1>3, EnvironmentSteps
  <1>4. CASE Crash
    BY <1>4, CrashStep
  <1>5. CASE UNCHANGED vars
    BY <1>5 DEF vars, authorizationVars, exchangeVars, upstreamVars, IInv, TypeOK,
                AuthorizationTypeOK, AuthOK, AuthOf, Found, LockOK, CallsOK, RequestsOK, RequestOK,
                RunsOK, LaunchedByOneCode, AnswersOK
  <1> QED BY <1>1, <1>2, <1>3, <1>4, <1>5 DEF Next

-----------------------------------------------------------------------------
(* The inductive invariant holds in every reachable state: the codes, the  *)
(* intents, the locks and the run at the authority fit together.           *)
THEOREM LaunchInvariant == Spec => []IInv
  BY InitEstablishes, NextPreserves, PTL DEF Spec

(* The row, the authorizations, the intents and the requests keep their    *)
(* types.                                                                  *)
THEOREM LaunchTypeOK == Spec => []TypeOK
  <1>1. IInv => TypeOK
    BY DEF IInv
  <1> QED BY <1>1, LaunchInvariant, PTL

(* One authorization leads to at most one PrepareLaunch call, however many *)
(* finishes, submits, retries and restarts there are (ExchangeAndPrepare). *)
THEOREM PreparedOnce == Spec => []OnePrepareCall
  <1>1. IInv => OnePrepareCall
    BY DEF IInv, CallsOK, OnePrepareCall
  <1> QED BY <1>1, LaunchInvariant, PTL

(* The row holds a run exactly when the intent of that code is completed   *)
(* with it, and the authority prepared it (adoptArtifacts).                *)
THEOREM RowAndIntentAgree == Spec => []LaunchedByOneCode
  <1>1. IInv => LaunchedByOneCode
    BY DEF IInv, RunsOK
  <1> QED BY <1>1, LaunchInvariant, PTL

(* Every answer for a code, first or replayed, is the run of the row       *)
(* (replayCompleted, reconcileCompleted).                                  *)
THEOREM OnlyTheOriginalResult == Spec => []OriginalResult
  <1>1. IInv => OriginalResult
    BY DEF IInv, AnswersOK, OriginalResult
  <1> QED BY <1>1, LaunchInvariant, PTL

(* Launch implements the transition table: its initial state is one of the *)
(* table, and every step of the row is a move of the table or leaves the   *)
(* state alone (adoptArtifacts, settleRevocation).                         *)
THEOREM LaunchImplementsLifecycle == Spec => LaunchFollowsLifecycle
  <1>1. Init => L!Init
    BY DEF Init, AuthorizationInit, L!Init, PassState, L!PassState
  <1>2. ASSUME IInv, [Next]_vars PROVE [L!Next]_(pass.state)
    <2>1. CASE UNCHANGED pass
      BY <2>1
    <2>2. ASSUME NEW h \in Exchanges, adoptArtifacts(h) PROVE L!Next
      <3>1. pass.state = "approved" /\ pass'.state = "launching"
        BY <1>2, <2>2
        DEF adoptArtifacts, checkPassBinding, LaunchingRow, IInv, TypeOK, AuthorizationTypeOK, LaunchRow
      <3> QED BY <3>1 DEF L!Next, L!passTransitions, L!PassState
    <2>3. CASE markRevokePending
      BY <1>2, <2>3 DEF markRevokePending, IInv, TypeOK, AuthorizationTypeOK, LaunchRow
    <2>4. CASE settleRevocation
      <3>1. Revocable(pass.state) /\ pass'.state = "revoked"
        BY <1>2, <2>4 DEF settleRevocation, IInv, TypeOK, AuthorizationTypeOK, LaunchRow
      <3> QED BY <3>1 DEF Revocable, L!Next, L!passTransitions, L!PassState
    <2>5. CASE UNCHANGED vars \/ Crash \/ RevokeMission
               \/ \E c \in Codes : IntentAges(c) \/ DeliveryEvicted(c) \/ PrepareArrivesLate(c)
      BY <2>1, <2>5 DEF vars, Crash, RevokeMission, IntentAges, DeliveryEvicted, PrepareArrivesLate
    <2>6. CASE AuthorizationStep
      BY <2>1, <2>6 DEF AuthorizationStep, CreateReads, CreateInserts, BeginBrowserDecision,
                        FinishBrowserDecision, FinishRefused, ApproveCLIAuthorization
    <2>7. ASSUME NEW h \in Exchanges, ExchangeStep(h), ~adoptArtifacts(h) PROVE UNCHANGED pass
      BY <2>7 DEF ExchangeStep, ExchangeAndPrepare, validateForExchange, IntrospectMission,
                  RequestEnds, ClaimLaunchExchangeIntent, Take, PrepareLaunchAnswered,
                  PrepareLaunchDenied, PrepareLaunchFailed, handlePrepareError, adoptRefused,
                  settleFailed, replayCompleted, reconcileCompleted, settleOrphan, reconcileOrphan,
                  OnlyTheRequest
    <2> QED BY <1>2, <2>1, <2>2, <2>3, <2>4, <2>5, <2>6, <2>7 DEF Next
  <1> QED BY <1>1, <1>2, LaunchInvariant, PTL DEF Spec, LaunchFollowsLifecycle, L!Spec

=============================================================================
