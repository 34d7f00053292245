---------------------------- MODULE GitHubProofs ----------------------------
(***************************************************************************)
(* Proofs about GitHubHandoff, for any number of requests, hand-offs,      *)
(* idempotency keys, codes, sessions, cached codes and crashes.            *)
(***************************************************************************)
EXTENDS GitHubHandoff, FiniteSetTheorems, TLAPS

-----------------------------------------------------------------------------
(* The inductive invariant, as named parts.                                *)

HandoffRow == [session : Sessions \cup {None}, up : Keys \cup {None},
               digest : Codes \cup {None}, consumed : BOOLEAN, expired : BOOLEAN]

IdemRow == [session : Sessions \cup {None}, handoff : Handoffs \cup {None},
            status : {"none", "inflight", "completed"}, result : Handoffs \cup Keys \cup {None}]

RequestRow == [pc : PCs, session : Sessions \cup {None}, key : Keys \cup {None},
               handoff : Handoffs \cup {None}, code : Codes \cup {None},
               replay : BOOLEAN, mutex : Mutexes \cup {0}, existing : SUBSET (Keys \cup Earlier)]

BindingRow == [key : Keys \cup {None}, code : Codes \cup {None}]

Calls == [key : Keys, up : Keys, code : Codes \cup {None}]

StoreTyped ==
    /\ row \in [Handoffs -> HandoffRow]
    /\ idem \in [Keys -> IdemRow]
    /\ connections \subseteq Keys \cup Earlier

LocksTyped ==
    /\ entry \in [Handoffs -> Mutexes \cup {0}]
    /\ holder \in [Mutexes -> Requests \cup {None}]

AuthorityTyped ==
    /\ begun \subseteq Keys
    /\ bound \in [Keys -> BindingRow]
    /\ late \subseteq Calls

(* A hand-off names the record of the Begin that made it, and the record   *)
(* names the hand-off.                                                     *)
RowOK(h) ==
    /\ row[h].up = None => row[h] = NoRow
    /\ row[h].up # None => /\ idem[row[h].up].status = "completed"
                           /\ idem[row[h].up].handoff = None
                           /\ idem[row[h].up].result = h

(* The record of a Finish is of a hand-off that exists.  A completed one   *)
(* agrees with the authority, the row and the connection.                  *)
RecordOK(k) ==
    /\ idem[k].handoff # None => row[idem[k].handoff].up # None
    /\ idem[k].status = "completed" /\ idem[k].handoff # None =>
           /\ idem[k].result = row[idem[k].handoff].up
           /\ bound[idem[k].result].key = k
           /\ row[idem[k].handoff].consumed
           /\ row[idem[k].handoff].session = idem[k].session

(* The record of key k is one of hand-off h (None: of a Begin).            *)
Opened(k, h) == idem[k].status # "none" /\ idem[k].handoff = h

(* The call finishes hand-off h with its recorded code.                    *)
FinishCall(k, u, c, h) ==
    Opened(k, h) /\ row[h].up = u /\ row[h].digest = c /\ c # None

(* A binding was made by a Finish with the recorded code.                  *)
BoundOK(u) ==
    /\ bound[u].key = None => bound[u] = NoBinding
    /\ bound[u].key # None =>
           \E h \in Handoffs : FinishCall(bound[u].key, u, bound[u].code, h)

(* What a call that timed out may still do.                                *)
CallOK(c) ==
    /\ c.code = None => Opened(c.key, None)
    /\ c.code # None => \E h \in Handoffs : FinishCall(c.key, c.up, c.code, h)

ConnectionsOK ==
    /\ connections \subseteq Keys \/ (connections = Earlier /\ \A h \in Handoffs : ~row[h].consumed)
    /\ \A u \in connections \ Earlier :
           \E h \in Handoffs : row[h].up = u /\ row[h].consumed /\ bound[u].key # None

BeginPCs    == {"reconcileBegin", "callBegin", "queryBegin", "settleBegin"}
CallbackPCs == {"cache", "record", "forget"}
FinishPCs   == {"lock", "wait", "release"} \cup Holding
CheckedPCs  == {"reconcile", "call", "query", "list", "settle"}

(* What a request under way may rely on.                                   *)
RequestOK(x) ==
    /\ x.pc \in BeginPCs \cup FinishPCs =>
           /\ x.key \in Keys
           /\ Opened(x.key, x.handoff) /\ idem[x.key].session = x.session
    /\ x.pc \in BeginPCs => x.handoff = None
    /\ x.pc \in CallbackPCs \cup FinishPCs => x.handoff \in Handoffs /\ row[x.handoff].up # None
    /\ x.pc \in CallbackPCs => x.code # None
    /\ x.pc = "lock" => x.mutex = 0
    /\ x.pc \in FinishPCs \ {"lock"} => x.mutex # 0
    /\ x.pc \in CheckedPCs => /\ row[x.handoff].session = x.session
                              /\ row[x.handoff].digest = x.code /\ x.code # None
    /\ x.pc \in {"list", "settle"} => bound[row[x.handoff].up].key = x.key
    /\ x.pc = "settle" => connections \subseteq Keys \/ Earlier \subseteq x.existing

(* A mutex is held by the request that is between Acquire and Unlock.      *)
HolderOK ==
    /\ \A r \in Requests : greq[r].pc \in Holding => holder[greq[r].mutex] = r
    /\ \A m \in Mutexes : holder[m] # None =>
           greq[holder[m]].pc \in Holding /\ greq[holder[m]].mutex = m

(* A cached code that was not recorded is one its callback will forget, or *)
(* record.                                                                 *)
CodeOK(h) ==
    \/ codes[h] \in {row[h].digest, None}
    \/ \E q \in Requests : /\ greq[q].pc \in {"record", "forget"}
                           /\ greq[q].handoff = h /\ greq[q].code = codes[h]

Cached == {h \in Handoffs : codes[h] # None}

StoreInv ==
    /\ StoreTyped /\ AuthorityTyped
    /\ \A h \in Handoffs : RowOK(h)
    /\ \A k \in Keys : RecordOK(k) /\ BoundOK(k)
    /\ \A k \in begun : Opened(k, None)
    /\ \A c \in late : CallOK(c)
    /\ ConnectionsOK

RequestsInv ==
    /\ greq \in [Requests -> RequestRow]
    /\ \A r \in Requests : RequestOK(greq[r])

CacheInv ==
    /\ codes \in [Handoffs -> Codes \cup {None}]
    /\ Cardinality(Cached) <= MaxCachedCodes
    /\ \A h \in Handoffs : CodeOK(h)

LocksInv == LocksTyped /\ HolderOK

CrashesOK == crashes \in 0 .. MaxCrashes

IInv == StoreInv /\ RequestsInv /\ CacheInv /\ LocksInv /\ CrashesOK

-----------------------------------------------------------------------------
(* Nothing has begun: the invariant holds.                                 *)
LEMMA InitEstablishes == Init => IInv
  <1> SUFFICES ASSUME Init PROVE IInv
    OBVIOUS
  <1> USE HandoffAssumption DEF Init
  <1>1. /\ NoRow \in HandoffRow /\ NoRow.up = None /\ NoRow.digest = None /\ ~NoRow.consumed
        /\ NoRecord \in IdemRow /\ NoRecord.handoff = None
        /\ NoBinding \in BindingRow /\ NoBinding.key = None
    BY DEF NoRow, HandoffRow, NoRecord, IdemRow, NoBinding, BindingRow
  <1>2. Idle \in RequestRow /\ Idle.pc = "idle"
    BY DEF Idle, RequestRow, PCs
  <1>3. StoreInv
    BY <1>1 DEF StoreInv, StoreTyped, AuthorityTyped, RowOK, RecordOK, BoundOK, ConnectionsOK
  <1>4. RequestsInv
    BY <1>2 DEF RequestsInv, RequestOK, BeginPCs, CallbackPCs, FinishPCs, CheckedPCs, Holding
  <1>5. CacheInv
    <2>1. Cached = {}
      BY DEF Cached
    <2>2. Cardinality(Cached) = 0
      BY <2>1, FS_EmptySet, Zenon
    <2> QED BY <2>2 DEF CacheInv, CodeOK
  <1>6. LocksInv
    BY <1>2 DEF LocksInv, LocksTyped, HolderOK, Holding
  <1> QED BY <1>3, <1>4, <1>5, <1>6 DEF IInv, CrashesOK

-----------------------------------------------------------------------------
(* What every step leaves true of the rows, the records, the bindings and  *)
(* the connections: they are only added to.                                *)
Grows ==
    /\ \A h \in Handoffs : row[h].up # None =>
           /\ row'[h].up = row[h].up /\ row'[h].session = row[h].session
           /\ row[h].digest # None => row'[h].digest = row[h].digest
           /\ row[h].consumed => row'[h].consumed
    /\ \A k \in Keys : idem[k].status # "none" =>
           /\ idem'[k].status # "none"
           /\ idem'[k].session = idem[k].session /\ idem'[k].handoff = idem[k].handoff
           /\ idem[k].status = "completed" => idem'[k] = idem[k]
    /\ \A u \in Keys : bound[u].key # None => bound'[u] = bound[u]
    /\ connections \subseteq Keys => connections' \subseteq Keys

LEMMA GrowsFrame ==
    ASSUME UNCHANGED <<store, bound>>
    PROVE  Grows
  BY DEF Grows, store

(* What a request relies on stays.                                         *)
LEMMA RequestStays ==
    ASSUME StoreInv, Grows, NEW x \in RequestRow, RequestOK(x)
    PROVE  RequestOK(x)'
  <1> USE HandoffAssumption
  <1>1. ASSUME x.pc \in BeginPCs \cup FinishPCs
        PROVE  /\ x.key \in Keys
               /\ Opened(x.key, x.handoff)' /\ idem'[x.key].session = x.session
    BY <1>1 DEF RequestOK, Grows, Opened
  <1>2. ASSUME x.pc \in CallbackPCs \cup FinishPCs
        PROVE  /\ x.handoff \in Handoffs /\ row[x.handoff].up # None
               /\ row'[x.handoff].up = row[x.handoff].up
               /\ row'[x.handoff].session = row[x.handoff].session
               /\ row[x.handoff].digest # None => row'[x.handoff].digest = row[x.handoff].digest
    BY <1>2 DEF RequestOK, Grows
  <1>3. CheckedPCs \subseteq FinishPCs /\ {"list", "settle"} \subseteq CheckedPCs
    BY DEF CheckedPCs, FinishPCs, Holding
  <1>4. ASSUME x.pc \in CheckedPCs
        PROVE  /\ row'[x.handoff].session = x.session
               /\ row'[x.handoff].digest = x.code /\ x.code # None
    BY <1>2, <1>3, <1>4 DEF RequestOK
  <1>5. ASSUME x.pc \in {"list", "settle"}
        PROVE  bound'[row'[x.handoff].up].key = x.key
    <2>1. x.handoff \in Handoffs /\ row[x.handoff].up # None /\ row'[x.handoff].up = row[x.handoff].up
      BY <1>2, <1>3, <1>5
    <2>2. row[x.handoff].up \in Keys
      BY <2>1 DEF StoreInv, StoreTyped, HandoffRow
    <2>3. bound[row[x.handoff].up].key = x.key /\ x.key \in Keys
      BY <1>3, <1>5 DEF RequestOK
    <2> QED BY <2>1, <2>2, <2>3 DEF Grows
  <1>6. x.pc = "settle" => connections' \subseteq Keys \/ Earlier \subseteq x.existing
    BY DEF RequestOK, Grows
  <1>7. /\ x.pc \in BeginPCs => x.handoff = None
        /\ x.pc \in CallbackPCs => x.code # None
        /\ x.pc = "lock" => x.mutex = 0
        /\ x.pc \in FinishPCs \ {"lock"} => x.mutex # 0
    BY DEF RequestOK
  <1> QED BY <1>1, <1>2, <1>4, <1>5, <1>6, <1>7 DEF RequestOK

(* One request moves.                                                      *)
LEMMA RequestMoves ==
    ASSUME StoreInv, RequestsInv, Grows, NEW r \in Requests, NEW x \in RequestRow,
           greq' = [greq EXCEPT ![r] = x], RequestOK(x)'
    PROVE  RequestsInv' /\ \A q \in Requests : greq'[q] = IF q = r THEN x ELSE greq[q]
  <1>1. /\ greq' \in [Requests -> RequestRow]
        /\ \A q \in Requests : greq'[q] = IF q = r THEN x ELSE greq[q]
    BY DEF RequestsInv
  <1>2. ASSUME NEW q \in Requests PROVE RequestOK(greq[q])'
    <2>1. CASE q = r
      <3>1. greq'[q] = x
        BY <1>1, <2>1
      <3> QED BY <3>1 DEF RequestOK, Opened
    <2>2. CASE q # r
      <3>1. PICK y \in RequestRow : y = greq[q]
        BY DEF RequestsInv
      <3>2. greq'[q] = y /\ RequestOK(y)
        BY <1>1, <2>2, <3>1 DEF RequestsInv
      <3>3. RequestOK(y)'
        BY <3>2, RequestStays
      <3> QED BY <3>2, <3>3 DEF RequestOK, Opened
    <2> QED BY <2>1, <2>2
  <1> QED BY <1>1, <1>2 DEF RequestsInv

(* The cache, when no code is cached and request r does not leave a        *)
(* callback.                                                               *)
LEMMA CacheKept ==
    ASSUME StoreInv, CacheInv, Grows, UNCHANGED codes, NEW r \in Requests, NEW x,
           \A q \in Requests : greq'[q] = IF q = r THEN x ELSE greq[q],
           greq[r].pc \in {"record", "forget"} =>
               /\ x.pc \in {"record", "forget"}
               /\ x.handoff = greq[r].handoff /\ x.code = greq[r].code
    PROVE  CacheInv'
  <1> SUFFICES ASSUME NEW h \in Handoffs PROVE CodeOK(h)'
    BY DEF CacheInv, Cached
  <1>0. CodeOK(h) /\ codes'[h] = codes[h]
    BY DEF CacheInv
  <1>1. CASE codes[h] = None
    BY <1>0, <1>1 DEF CodeOK
  <1>2. CASE codes[h] # None /\ codes[h] = row[h].digest
    <2>1. row[h].up # None
      BY <1>2 DEF StoreInv, RowOK, NoRow
    <2>2. row'[h].digest = row[h].digest
      BY <1>2, <2>1 DEF Grows
    <2> QED BY <1>0, <1>2, <2>2 DEF CodeOK
  <1>3. ASSUME NEW q \in Requests, greq[q].pc \in {"record", "forget"},
               greq[q].handoff = h, greq[q].code = codes[h]
        PROVE  CodeOK(h)'
    <2>1. greq'[q].pc \in {"record", "forget"} /\ greq'[q].handoff = h /\ greq'[q].code = codes[h]
      BY <1>3
    <2> QED BY <1>0, <2>1 DEF CodeOK
  <1> QED BY <1>0, <1>1, <1>2, <1>3 DEF CodeOK

(* The locks, when request r neither acquires nor releases one.            *)
LEMMA LocksKept ==
    ASSUME LocksInv, UNCHANGED <<entry, holder>>, NEW r \in Requests, NEW x,
           \A q \in Requests : greq'[q] = IF q = r THEN x ELSE greq[q],
           x.pc \in Holding <=> greq[r].pc \in Holding,
           x.pc \in Holding => x.mutex = greq[r].mutex
    PROVE  LocksInv'
  <1> USE HandoffAssumption
  <1>1. \A q \in Requests : /\ greq'[q].pc \in Holding <=> greq[q].pc \in Holding
                            /\ greq'[q].pc \in Holding => greq'[q].mutex = greq[q].mutex
    OBVIOUS
  <1>2. \A m \in Mutexes : holder[m] # None => holder[m] \in Requests
    BY DEF LocksInv, LocksTyped
  <1> QED BY <1>1, <1>2 DEF LocksInv, LocksTyped, HolderOK

(* Rows, records and the authority that do not change keep their part.     *)
LEMMA StoreFrame ==
    ASSUME StoreInv, UNCHANGED <<store, authority>>
    PROVE  StoreInv'
  BY DEF StoreInv, store, authority, StoreTyped, AuthorityTyped, RowOK, RecordOK, BoundOK, CallOK,
         FinishCall, Opened, ConnectionsOK

(* A request moves on in a step that keeps the store's part.               *)
LEMMA RequestStep ==
    ASSUME IInv, StoreInv', Grows, UNCHANGED <<codes, entry, holder, crashes>>,
           NEW r \in Requests, NEW x \in RequestRow,
           greq' = [greq EXCEPT ![r] = x], RequestOK(x)',
           greq[r].pc \in {"record", "forget"} =>
               /\ x.pc \in {"record", "forget"}
               /\ x.handoff = greq[r].handoff /\ x.code = greq[r].code,
           x.pc \in Holding <=> greq[r].pc \in Holding,
           x.pc \in Holding => x.mutex = greq[r].mutex
    PROVE  IInv'
  <1>1. StoreInv /\ RequestsInv /\ CacheInv /\ LocksInv /\ CrashesOK
    BY DEF IInv
  <1>2. RequestsInv' /\ \A q \in Requests : greq'[q] = IF q = r THEN x ELSE greq[q]
    BY <1>1, RequestMoves
  <1>3. CacheInv' /\ LocksInv'
    BY <1>1, <1>2, CacheKept, LocksKept
  <1> QED BY <1>1, <1>2, <1>3 DEF IInv, CrashesOK

(* A request that only moves on.                                           *)
LEMMA RequestOnly ==
    ASSUME IInv, OnlyTheRequest, NEW r \in Requests, NEW x \in RequestRow,
           greq' = [greq EXCEPT ![r] = x], RequestOK(x),
           greq[r].pc \in {"record", "forget"} =>
               /\ x.pc \in {"record", "forget"}
               /\ x.handoff = greq[r].handoff /\ x.code = greq[r].code,
           x.pc \in Holding <=> greq[r].pc \in Holding,
           x.pc \in Holding => x.mutex = greq[r].mutex
    PROVE  IInv'
  <1>1. UNCHANGED <<store, authority, codes, entry, holder, crashes>>
    BY DEF OnlyTheRequest
  <1>2. StoreInv' /\ Grows
    BY <1>1, StoreFrame, GrowsFrame DEF IInv, authority
  <1>3. RequestOK(x)'
    BY <1>2, RequestStays DEF IInv
  <1> QED BY <1>1, <1>2, <1>3, RequestStep

(* What Goto leaves of a request.                                          *)
SameRequest(x, y) ==
    /\ x.session = y.session /\ x.key = y.key /\ x.handoff = y.handoff /\ x.code = y.code
    /\ x.replay = y.replay /\ x.mutex = y.mutex /\ x.existing = y.existing

LEMMA GotoStep ==
    ASSUME RequestsInv, NEW r \in Requests, NEW label \in PCs, Goto(r, label)
    PROVE  \E x \in RequestRow : /\ greq' = [greq EXCEPT ![r] = x]
                                 /\ x.pc = label /\ SameRequest(x, greq[r])
  <1> DEFINE x == [greq[r] EXCEPT !.pc = label]
  <1>1. greq[r] \in RequestRow
    BY DEF RequestsInv
  <1>2. x \in RequestRow /\ x.pc = label /\ SameRequest(x, greq[r])
    BY <1>1 DEF RequestRow, SameRequest
  <1>3. greq' = [greq EXCEPT ![r] = x]
    BY DEF Goto, RequestsInv
  <1> QED BY <1>2, <1>3

(* An idle request relies on nothing.                                      *)
LEMMA ReturnStep ==
    ASSUME NEW r \in Requests, Return(r)
    PROVE  \E x \in RequestRow : /\ greq' = [greq EXCEPT ![r] = x]
                                 /\ x.pc = "idle" /\ x.mutex = 0
                                 /\ x.pc \notin Holding /\ RequestOK(x) /\ RequestOK(x)'
  <1>1. Idle \in RequestRow /\ Idle.pc = "idle" /\ Idle.mutex = 0
    BY DEF Idle, RequestRow, PCs
  <1>2. greq' = [greq EXCEPT ![r] = Idle]
    BY DEF Return
  <1>3. PICK x \in RequestRow : x = Idle
    BY <1>1
  <1>4. x.pc = "idle" /\ x.mutex = 0 /\ greq' = [greq EXCEPT ![r] = x]
    BY <1>1, <1>2, <1>3
  <1>5. x.pc \notin Holding /\ RequestOK(x) /\ RequestOK(x)'
    BY <1>4 DEF RequestOK, BeginPCs, CallbackPCs, FinishPCs, CheckedPCs, Holding
  <1> QED BY <1>4, <1>5

-----------------------------------------------------------------------------
(* The authority completed the key of a Finish: by binding the             *)
(* installation of its hand-off, under that key.                           *)
LEMMA CompletedFinish ==
    ASSUME StoreInv, NEW k \in Keys, NEW h \in Handoffs, Opened(k, h), Completed(k)
    PROVE  bound[row[h].up].key = k
  <1> USE HandoffAssumption
  <1>1. k \notin begun
    BY DEF StoreInv, Opened
  <1>2. PICK u \in Keys : bound[u].key = k
    BY <1>1 DEF Completed
  <1>3. PICK g \in Handoffs : FinishCall(k, u, bound[u].code, g)
    BY <1>2 DEF StoreInv, BoundOK
  <1>4. g = h /\ row[h].up = u
    BY <1>3 DEF FinishCall, Opened
  <1> QED BY <1>2, <1>4

(* The steps that read, and move nothing but their request.                *)
LEMMA ReadingSteps ==
    ASSUME IInv, NEW r \in Requests,
           \/ reconcileBegin(r) \/ beginUpstreamReplay(r) \/ CallbackFails(r)
           \/ reconcileFinish(r) \/ finishUpstreamReplay(r) \/ RequestFails(r)
    PROVE  IInv'
  <1> USE HandoffAssumption
  <1>0. /\ StoreInv /\ RequestsInv /\ greq[r] \in RequestRow /\ RequestOK(greq[r])
        /\ OnlyTheRequest
    BY DEF IInv, RequestsInv, reconcileBegin, beginUpstreamReplay, CallbackFails, reconcileFinish,
           finishUpstreamReplay, RequestFails
  <1>1. CASE RequestFails(r) /\ Return(r) /\ greq[r].pc \in BeginPCs
    <2>1. PICK x \in RequestRow : /\ greq' = [greq EXCEPT ![r] = x] /\ x.pc \notin Holding
                                  /\ RequestOK(x)
      BY <1>1, ReturnStep
    <2>2. greq[r].pc \notin Holding /\ greq[r].pc \notin {"record", "forget"}
      BY <1>1 DEF BeginPCs, Holding
    <2> QED BY <1>0, <2>1, <2>2, RequestOnly
  <1>2. ASSUME NEW label \in PCs, Goto(r, label),
               greq[r].pc \in {"record", "forget"} => label \in {"record", "forget"},
               label \in Holding <=> greq[r].pc \in Holding,
               label \in BeginPCs => greq[r].pc \in BeginPCs,
               label \in CallbackPCs => greq[r].pc \in CallbackPCs,
               label # "lock",
               label \in FinishPCs => greq[r].pc \in FinishPCs \ {"lock"},
               label \in CheckedPCs => greq[r].pc \in CheckedPCs,
               label \in {"list", "settle"} => bound[row[greq[r].handoff].up].key = greq[r].key,
               label # "settle"
        PROVE  IInv'
    <2>1. PICK x \in RequestRow : /\ greq' = [greq EXCEPT ![r] = x]
                                  /\ x.pc = label /\ SameRequest(x, greq[r])
      BY <1>0, <1>2, GotoStep
    <2>2. RequestOK(x)
      BY <1>0, <1>2, <2>1 DEF RequestOK, SameRequest
    <2>3. x.handoff = greq[r].handoff /\ x.code = greq[r].code /\ x.mutex = greq[r].mutex
      BY <2>1 DEF SameRequest
    <2> QED BY <1>0, <1>2, <2>1, <2>2, <2>3, RequestOnly
  <1> USE DEF PCs, Holding, BeginPCs, CallbackPCs, FinishPCs, CheckedPCs
  <1>3. CASE reconcileBegin(r) \/ beginUpstreamReplay(r)
    <2>1. PICK label \in {"callBegin", "settleBegin"} :
              Goto(r, label) /\ greq[r].pc \in {"reconcileBegin", "queryBegin"}
      BY <1>3 DEF reconcileBegin, beginUpstreamReplay
    <2> QED BY <1>2, <2>1
  <1>4. CASE CallbackFails(r)
    <2>1. Goto(r, "forget") /\ greq[r].pc = "record"
      BY <1>4 DEF CallbackFails
    <2> QED BY <1>2, <2>1
  <1>5. CASE reconcileFinish(r) \/ finishUpstreamReplay(r)
    <2>1. PICK label \in {"list", "call"} :
              /\ Goto(r, label) /\ greq[r].pc \in {"reconcile", "query"}
              /\ label = "list" => Completed(greq[r].key)
      BY <1>5 DEF reconcileFinish, finishUpstreamReplay
    <2>2. greq[r].key \in Keys /\ greq[r].handoff \in Handoffs /\ Opened(greq[r].key, greq[r].handoff)
      BY <1>0, <2>1 DEF RequestOK
    <2>3. label = "list" => bound[row[greq[r].handoff].up].key = greq[r].key
      BY <1>0, <2>1, <2>2, CompletedFinish
    <2> QED BY <1>2, <2>1, <2>3
  <1>6. CASE RequestFails(r) /\ Goto(r, "unlock") /\ greq[r].pc \in Holding
    BY <1>2, <1>6
  <1> HIDE DEF PCs, BeginPCs
  <1>7. ASSUME RequestFails(r)
        PROVE  \/ Goto(r, "unlock") /\ greq[r].pc \in Holding
               \/ Return(r) /\ greq[r].pc \in BeginPCs
    BY <1>7 DEF RequestFails, BeginPCs
  <1> QED BY <1>1, <1>3, <1>4, <1>5, <1>6, <1>7

(* RecordCallback opens a callback of a hand-off that exists.              *)
LEMMA CallbackStep ==
    ASSUME IInv, NEW r \in Requests, NEW h \in Handoffs, NEW c \in Codes, RecordCallback(r, h, c)
    PROVE  IInv'
  <1> USE HandoffAssumption
  <1>1. PICK x \in RequestRow : /\ x = [Idle EXCEPT !.pc = "cache", !.handoff = h, !.code = c]
                                /\ x.pc = "cache" /\ x.handoff = h /\ x.code = c
    <2> DEFINE y == [Idle EXCEPT !.pc = "cache", !.handoff = h, !.code = c]
    <2>1. y \in RequestRow /\ y.pc = "cache" /\ y.handoff = h /\ y.code = c
      BY DEF RequestRow, Idle, PCs
    <2> QED BY <2>1
  <1>2. /\ greq[r] = Idle /\ greq' = [greq EXCEPT ![r] = x] /\ OnlyTheRequest /\ row[h] # NoRow
    BY <1>1 DEF RecordCallback
  <1>3. row[h].up # None
    BY <1>2 DEF IInv, StoreInv, RowOK
  <1>4. RequestOK(x)
    <2> HIDE DEF RequestRow
    <2>1. /\ x.pc \notin BeginPCs \cup FinishPCs /\ x.pc \notin CheckedPCs
          /\ x.pc \notin {"lock", "list", "settle"}
      BY <1>1 DEF BeginPCs, FinishPCs, CheckedPCs, Holding
    <2>2. x.handoff \in Handoffs /\ row[x.handoff].up # None /\ x.code # None
      BY <1>1, <1>3
    <2> QED BY <2>1, <2>2 DEF RequestOK
  <1>5. /\ greq[r].pc = "idle" /\ greq[r].pc \notin Holding /\ x.pc \notin Holding
    BY <1>1, <1>2 DEF Idle, Holding
  <1> QED BY <1>2, <1>4, <1>5, RequestOnly

(* The checks of Finish, and the list of connections to replace.           *)
LEMMA CheckSteps ==
    ASSUME IInv, NEW r \in Requests, CheckHandoff(r) \/ ListConnections(r)
    PROVE  IInv'
  <1> USE HandoffAssumption
  <1> DEFINE h == greq[r].handoff
  <1>0. /\ StoreInv /\ greq[r] \in RequestRow /\ RequestOK(greq[r])
        /\ greq \in [Requests -> RequestRow]
    BY DEF IInv, RequestsInv
  <1>1. CASE CheckHandoff(r)
    <2>1. PICK label \in {"reconcile", "call"} :
              greq' = [greq EXCEPT ![r].code = codes[h], ![r].pc = label]
      BY <1>1 DEF CheckHandoff
    <2>2. /\ greq[r].pc = "check" /\ row[h].session = greq[r].session /\ OnlyTheRequest
          /\ codes[h] = row[h].digest /\ codes[h] # None
      BY <1>1 DEF CheckHandoff, cachedCode
    <2>3. /\ h \in Handoffs /\ row[h].up # None /\ greq[r].mutex # 0 /\ greq[r].key \in Keys
          /\ Opened(greq[r].key, greq[r].handoff) /\ idem[greq[r].key].session = greq[r].session
      BY <1>0, <2>2 DEF RequestOK, FinishPCs, Holding
    <2>4. codes[h] \in Codes
      BY <2>2, <2>3 DEF IInv, CacheInv
    <2>5. PICK x \in RequestRow :
              /\ x = [greq[r] EXCEPT !.code = codes[h], !.pc = label]
              /\ x.pc = label /\ x.code = codes[h] /\ x.handoff = h /\ x.session = greq[r].session
              /\ x.key = greq[r].key /\ x.mutex = greq[r].mutex
      <3> DEFINE y == [greq[r] EXCEPT !.code = codes[h], !.pc = label]
      <3>1. label \in PCs
        BY DEF PCs, Holding
      <3>2. /\ y \in RequestRow
            /\ y.pc = label /\ y.code = codes[h] /\ y.handoff = h /\ y.session = greq[r].session
            /\ y.key = greq[r].key /\ y.mutex = greq[r].mutex
        BY <1>0, <2>4, <3>1 DEF RequestRow
      <3> QED BY <3>2
    <2>6. greq' = [greq EXCEPT ![r] = x]
      BY <1>0, <2>1, <2>5
    <2>7. RequestOK(x)
      <3>1. /\ x.pc \notin BeginPCs \cup CallbackPCs \cup {"lock", "list", "settle"}
        BY <2>5 DEF BeginPCs, CallbackPCs
      <3>2. /\ x.key \in Keys /\ Opened(x.key, x.handoff) /\ idem[x.key].session = x.session
            /\ x.handoff \in Handoffs /\ row[x.handoff].up # None /\ x.mutex # 0
            /\ row[x.handoff].session = x.session
            /\ row[x.handoff].digest = x.code /\ x.code # None
        BY <2>2, <2>3, <2>5
      <3> QED BY <3>1, <3>2 DEF RequestOK
    <2>8. x.pc \in Holding /\ greq[r].pc \in Holding
      BY <2>2, <2>5 DEF Holding
    <2> QED BY <2>2, <2>5, <2>6, <2>7, <2>8, RequestOnly
  <1>2. CASE ListConnections(r)
    <2> DEFINE rest == connections \ {row[h].up}
    <2>1. /\ greq' = [greq EXCEPT ![r].pc = "settle", ![r].existing = rest]
          /\ greq[r].pc = "list" /\ OnlyTheRequest
      BY <1>2 DEF ListConnections
    <2>2. PICK x \in RequestRow :
              /\ x = [greq[r] EXCEPT !.pc = "settle", !.existing = rest]
              /\ x.pc = "settle" /\ x.existing = rest /\ x.code = greq[r].code /\ x.handoff = h
              /\ x.session = greq[r].session /\ x.key = greq[r].key /\ x.mutex = greq[r].mutex
      <3>1. rest \in SUBSET (Keys \cup Earlier)
        BY <1>0 DEF StoreInv, StoreTyped
      <3> HIDE DEF rest
      <3> DEFINE y == [greq[r] EXCEPT !.pc = "settle", !.existing = rest]
      <3>2. "settle" \in PCs
        BY DEF PCs, Holding
      <3>3. /\ y \in RequestRow
            /\ y.pc = "settle" /\ y.existing = rest /\ y.code = greq[r].code /\ y.handoff = h
            /\ y.session = greq[r].session /\ y.key = greq[r].key /\ y.mutex = greq[r].mutex
        BY <1>0, <3>1, <3>2 DEF RequestRow
      <3> QED BY <3>3
    <2>3. greq' = [greq EXCEPT ![r] = x]
      BY <1>0, <2>1, <2>2
    <2>4. h \in Handoffs /\ row[h].up \in Keys
      BY <1>0, <2>1 DEF RequestOK, FinishPCs, Holding, StoreInv, StoreTyped, HandoffRow
    <2>5. connections \subseteq Keys \/ Earlier \subseteq x.existing
      <3>1. connections \subseteq Keys \/ connections = Earlier
        BY <1>0 DEF StoreInv, ConnectionsOK
      <3>2. x.existing = connections \ {row[h].up}
        BY <2>2
      <3> HIDE DEF h
      <3>3. row[h].up \notin Earlier
        BY <2>4
      <3> QED BY <3>1, <3>2, <3>3
    <2>6. RequestOK(x)
      BY <1>0, <2>1, <2>2, <2>5
      DEF RequestOK, BeginPCs, CallbackPCs, FinishPCs, CheckedPCs, Holding
    <2>7. x.pc \in Holding /\ greq[r].pc \in Holding
      BY <2>1, <2>2 DEF Holding
    <2> QED BY <2>1, <2>2, <2>3, <2>6, <2>7, RequestOnly
  <1> QED BY <1>1, <1>2

-----------------------------------------------------------------------------
(* What the store and the authority say of each other stays.               *)
LEMMA FactsStay ==
    ASSUME StoreInv, Grows
    PROVE  /\ \A k \in Keys, h \in Handoffs \cup {None} : Opened(k, h) => Opened(k, h)'
           /\ \A k \in Keys, u \in Keys, c \in Codes \cup {None}, h \in Handoffs :
                  FinishCall(k, u, c, h) => FinishCall(k, u, c, h)'
           /\ \A k \in begun : Opened(k, None)'
           /\ \A c \in late : CallOK(c)'
           /\ \A u \in Keys : bound[u].key # None => BoundOK(u)'
           /\ \A k \in Keys : idem[k].status = "completed" => RecordOK(k)'
  <1> USE HandoffAssumption
  <1>1. ASSUME NEW k \in Keys, NEW h \in Handoffs \cup {None}, Opened(k, h) PROVE Opened(k, h)'
    BY <1>1 DEF Opened, Grows
  <1>2. ASSUME NEW k \in Keys, NEW u \in Keys, NEW c \in Codes \cup {None}, NEW h \in Handoffs,
               FinishCall(k, u, c, h)
        PROVE  FinishCall(k, u, c, h)'
    BY <1>1, <1>2 DEF FinishCall, Grows
  <1>3. \A k \in begun : Opened(k, None)'
    BY <1>1 DEF StoreInv, AuthorityTyped
  <1>4. ASSUME NEW c \in late PROVE CallOK(c)'
    <2>1. c.key \in Keys /\ c.up \in Keys /\ c.code \in Codes \cup {None} /\ CallOK(c)
      BY DEF StoreInv, AuthorityTyped, Calls
    <2> QED BY <1>1, <1>2, <2>1 DEF CallOK
  <1>5. ASSUME NEW u \in Keys, bound[u].key # None PROVE BoundOK(u)'
    <2>1. bound'[u] = bound[u]
      BY <1>5 DEF Grows
    <2>2. bound[u].key \in Keys /\ bound[u].code \in Codes \cup {None}
      BY <1>5 DEF StoreInv, AuthorityTyped, BindingRow
    <2>3. PICK k \in Keys, c \in Codes \cup {None} : k = bound[u].key /\ c = bound[u].code
      BY <2>2
    <2>4. PICK h \in Handoffs : FinishCall(k, u, c, h)
      BY <1>5, <2>3 DEF StoreInv, BoundOK
    <2>5. FinishCall(k, u, c, h)'
      BY <1>2, <2>4
    <2>6. k = bound'[u].key /\ c = bound'[u].code /\ k # None
      BY <2>1, <2>3
    <2> QED BY <2>5, <2>6 DEF BoundOK, FinishCall, Opened
  <1>6. ASSUME NEW k \in Keys, idem[k].status = "completed" PROVE RecordOK(k)'
    <2>1. idem'[k] = idem[k] /\ RecordOK(k)
      BY <1>6 DEF Grows, StoreInv
    <2>2. CASE idem[k].handoff = None
      BY <2>1, <2>2 DEF RecordOK
    <2>3. CASE idem[k].handoff # None
      <3> DEFINE h == idem[k].handoff
      <3>1. h \in Handoffs /\ row[h].up # None
        BY <2>1, <2>3 DEF RecordOK, StoreInv, StoreTyped, IdemRow
      <3>2. /\ row'[h].up = row[h].up /\ row'[h].session = row[h].session
            /\ row[h].consumed => row'[h].consumed
        BY <3>1 DEF Grows
      <3>3. row[h].up \in Keys
        BY <3>1 DEF StoreInv, StoreTyped, HandoffRow
      <3>4. /\ idem[k].result = row[h].up /\ bound[row[h].up].key = k
            /\ row[h].consumed /\ row[h].session = idem[k].session
        BY <1>6, <2>1, <2>3 DEF RecordOK
      <3>5. bound'[row[h].up] = bound[row[h].up]
        BY <3>3, <3>4 DEF Grows
      <3> QED BY <2>1, <3>1, <3>2, <3>4, <3>5 DEF RecordOK
    <2> QED BY <2>2, <2>3
  <1> QED BY <1>1, <1>2, <1>3, <1>4, <1>5, <1>6

(* A request claims its key, or resumes under it.                          *)
LEMMA ClaimStep ==
    ASSUME IInv, NEW r \in Requests, NEW k \in Keys, NEW s \in Sessions,
           NEW h \in Handoffs \cup {None}, NEW label \in {"callBegin", "reconcileBegin", "lock"},
           h = None <=> label # "lock", h # None => row[h] # NoRow,
           beginIdempotency(r, k, s, h, label)
    PROVE  IInv'
  <1> USE HandoffAssumption
  <1>0. /\ StoreInv /\ StoreTyped /\ AuthorityTyped
        /\ UNCHANGED <<row, connections, codes, entry, holder, begun, bound, late, crashes>>
        /\ greq[r] = Idle
    BY DEF IInv, StoreInv, beginIdempotency, authority
  <1>1. h # None => row[h].up # None
    BY <1>0 DEF StoreInv, RowOK
  <1>2. /\ idem' \in [Keys -> IdemRow]
        /\ idem'[k].status # "none" /\ idem'[k].session = s /\ idem'[k].handoff = h
        /\ idem'[k].status = "inflight"
        /\ idem[k].status = "none" \/ idem'[k] = idem[k]
        /\ \A j \in Keys : j # k => idem'[j] = idem[j]
    <2>1. CASE /\ idem[k] = NoRecord
               /\ idem' = [idem EXCEPT ![k] = [session |-> s, handoff |-> h,
                                               status |-> "inflight", result |-> None]]
      <3> DEFINE rec == [session |-> s, handoff |-> h, status |-> "inflight", result |-> None]
      <3>1. rec \in IdemRow /\ rec.status = "inflight" /\ rec.session = s /\ rec.handoff = h
        BY DEF IdemRow
      <3>2. idem[k].status = "none"
        BY <2>1 DEF NoRecord
      <3> HIDE DEF rec
      <3>3. idem' = [idem EXCEPT ![k] = rec]
        BY <2>1 DEF rec
      <3> QED BY <1>0, <3>1, <3>2, <3>3 DEF StoreTyped
    <2>2. CASE /\ idem[k].status = "inflight" /\ idem[k].session = s /\ idem[k].handoff = h
               /\ UNCHANGED idem
      BY <1>0, <2>2 DEF StoreTyped
    <2> QED BY <2>1, <2>2 DEF beginIdempotency
  <1>3. Grows
    BY <1>0, <1>2 DEF Grows
  <1>4. StoreInv'
    <2>1. StoreTyped' /\ AuthorityTyped' /\ ConnectionsOK'
      BY <1>0, <1>2 DEF StoreInv, StoreTyped, AuthorityTyped, ConnectionsOK
    <2>2. ASSUME NEW g \in Handoffs PROVE RowOK(g)'
      <3>1. RowOK(g) /\ row'[g] = row[g]
        BY <1>0 DEF StoreInv
      <3>2. row[g].up # None => row[g].up \in Keys
        BY <1>0 DEF StoreTyped, HandoffRow
      <3> QED BY <1>3, <3>1, <3>2 DEF RowOK, Grows
    <2>3. ASSUME NEW j \in Keys PROVE RecordOK(j)'
      <3>1. CASE j = k
        BY <1>0, <1>1, <1>2, <3>1 DEF RecordOK
      <3>2. CASE j # k
        <4>1. RecordOK(j) /\ idem'[j] = idem[j]
          BY <1>0, <1>2, <3>2 DEF StoreInv
        <4> QED BY <1>0, <4>1 DEF RecordOK
      <3> QED BY <3>1, <3>2
    <2>4. ASSUME NEW u \in Keys PROVE BoundOK(u)'
      <3>1. CASE bound[u].key # None
        BY <1>0, <1>3, <3>1, FactsStay
      <3>2. CASE bound[u].key = None
        BY <1>0, <3>2 DEF StoreInv, BoundOK
      <3> QED BY <3>1, <3>2
    <2>5. (\A j \in begun' : Opened(j, None)') /\ (\A c \in late' : CallOK(c)')
      BY <1>0, <1>3, FactsStay
    <2> QED BY <2>1, <2>2, <2>3, <2>4, <2>5 DEF StoreInv
  <1>5. PICK x \in RequestRow :
            /\ greq' = [greq EXCEPT ![r] = x]
            /\ x.pc = label /\ x.session = s /\ x.key = k /\ x.handoff = h /\ x.mutex = 0
    <2>1. PICK again \in BOOLEAN : again = (idem[k] # NoRecord)
      OBVIOUS
    <2> DEFINE y == [Idle EXCEPT !.pc = label, !.session = s, !.key = k, !.handoff = h,
                                 !.replay = again]
    <2>2. /\ y \in RequestRow
          /\ y.pc = label /\ y.session = s /\ y.key = k /\ y.handoff = h /\ y.mutex = 0
      BY DEF RequestRow, Idle, PCs
    <2>3. greq' = [greq EXCEPT ![r] = y]
      BY <2>1 DEF beginIdempotency
    <2> QED BY <2>2, <2>3
  <1>6. RequestOK(x)'
    <2>1. x.pc \in BeginPCs \cup {"lock"} /\ (x.pc = "lock" <=> h # None)
      BY <1>5 DEF BeginPCs
    <2>2. /\ x.pc \notin CallbackPCs \cup CheckedPCs \cup {"list", "settle"}
          /\ x.pc \notin FinishPCs \ {"lock"}
          /\ x.pc \in FinishPCs => x.pc = "lock"
          /\ x.pc \in BeginPCs => x.pc # "lock"
      BY <1>5 DEF CallbackPCs, CheckedPCs, FinishPCs, BeginPCs, Holding
    <2>3. Opened(k, h)'
      BY <1>2 DEF Opened
    <2> QED BY <1>0, <1>1, <1>2, <1>5, <2>1, <2>2, <2>3 DEF RequestOK, Opened
  <1>7. greq[r].pc = "idle" /\ greq[r].pc \notin Holding /\ x.pc \notin Holding
    BY <1>0, <1>5 DEF Idle, Holding
  <1> QED BY <1>0, <1>3, <1>4, <1>5, <1>6, <1>7, RequestStep

-----------------------------------------------------------------------------
(* The authority finishes an installation once.                            *)
LEMMA FinishBinds ==
    ASSUME StoreInv, NEW k \in Keys, NEW u \in Keys, NEW c \in Codes, FinishGitHubBinding(k, u, c)
    PROVE  /\ bound' \in [Keys -> BindingRow] /\ bound'[u].key = k
           /\ \A v \in Keys : v # u \/ bound[v].key # None => bound'[v] = bound[v]
           /\ bound[u].key = None => bound'[u].code = c
  <1> USE HandoffAssumption
  <1>1. PICK b \in BindingRow : b = [key |-> k, code |-> c] /\ b.key = k /\ b.code = c
    <2>1. [key |-> k, code |-> c] \in BindingRow
      BY DEF BindingRow
    <2> QED BY <2>1
  <1>2. /\ bound[u].key \in {None, k}
        /\ bound' = [bound EXCEPT ![u] = IF @ = NoBinding THEN b ELSE @]
    BY <1>1 DEF FinishGitHubBinding
  <1>3. bound \in [Keys -> BindingRow] /\ (bound[u].key = None <=> bound[u] = NoBinding)
    BY DEF StoreInv, AuthorityTyped, BoundOK, NoBinding
  <1> QED BY <1>1, <1>2, <1>3

(* The authority applies a call that the store knows of.                   *)
LEMMA AuthorityApplies ==
    ASSUME StoreInv, UNCHANGED store, late' \subseteq Calls, \A c \in late' : CallOK(c),
           \/ UNCHANGED <<begun, bound>>
           \/ \E k \in Keys : Opened(k, None) /\ BeginGitHubBinding(k)
           \/ \E k \in Keys, u \in Keys, c \in Codes, h \in Handoffs :
                  FinishCall(k, u, c, h) /\ FinishGitHubBinding(k, u, c)
    PROVE  StoreInv' /\ Grows
  <1> USE HandoffAssumption
  <1>0. UNCHANGED <<row, idem, connections>>
    BY DEF store
  <1>1. /\ StoreTyped' /\ (\A h \in Handoffs : RowOK(h)') /\ (\A c \in late' : CallOK(c)')
    BY <1>0 DEF StoreInv, StoreTyped, RowOK, CallOK, FinishCall, Opened
  <1>2. /\ begun' \subseteq Keys /\ (\A k \in begun' : Opened(k, None)')
    BY <1>0 DEF StoreInv, AuthorityTyped, Opened, BeginGitHubBinding, FinishGitHubBinding
  <1>3. /\ bound' \in [Keys -> BindingRow]
        /\ \A u \in Keys : bound[u].key # None => bound'[u] = bound[u]
        /\ \A u \in Keys : BoundOK(u)'
    <2>1. CASE UNCHANGED bound
      BY <1>0, <2>1 DEF StoreInv, AuthorityTyped, BoundOK, FinishCall, Opened
    <2>2. ASSUME NEW k \in Keys, NEW u \in Keys, NEW c \in Codes, NEW h \in Handoffs,
                 FinishCall(k, u, c, h), FinishGitHubBinding(k, u, c)
          PROVE  /\ bound' \in [Keys -> BindingRow]
                 /\ \A v \in Keys : bound[v].key # None => bound'[v] = bound[v]
                 /\ \A v \in Keys : BoundOK(v)'
      <3>1. /\ bound' \in [Keys -> BindingRow] /\ bound'[u].key = k
            /\ \A v \in Keys : v # u \/ bound[v].key # None => bound'[v] = bound[v]
            /\ bound[u].key = None => bound'[u].code = c
        BY <2>2, FinishBinds
      <3>2. ASSUME NEW v \in Keys PROVE BoundOK(v)'
        <4>1. CASE v = u /\ bound[v].key = None
          <5>1. FinishCall(k, u, c, h)'
            BY <1>0, <2>2 DEF FinishCall, Opened
          <5> QED BY <3>1, <4>1, <5>1 DEF BoundOK, FinishCall, Opened
        <4>2. CASE v # u \/ bound[v].key # None
          <5>1. bound'[v] = bound[v] /\ BoundOK(v)
            BY <3>1, <4>2 DEF StoreInv
          <5> QED BY <1>0, <5>1 DEF BoundOK, FinishCall, Opened
        <4> QED BY <4>1, <4>2
      <3> QED BY <3>1, <3>2
    <2> QED BY <2>1, <2>2 DEF BeginGitHubBinding
  <1>4. Grows
    BY <1>0, <1>3 DEF Grows
  <1>5. ASSUME NEW k \in Keys PROVE RecordOK(k)'
    <2>1. CASE idem[k].status = "completed"
      BY <1>4, <2>1, FactsStay
    <2>2. CASE idem[k].status # "completed"
      BY <1>0, <2>2 DEF StoreInv, RecordOK
    <2> QED BY <2>1, <2>2
  <1>6. ConnectionsOK'
    <2>1. connections' \subseteq Keys \/ (connections' = Earlier /\ \A h \in Handoffs : ~row'[h].consumed)
      BY <1>0 DEF StoreInv, ConnectionsOK
    <2>2. ASSUME NEW u \in connections \ Earlier
          PROVE  \E h \in Handoffs : row'[h].up = u /\ row'[h].consumed /\ bound'[u].key # None
      <3>1. u \in Keys
        BY DEF StoreInv, StoreTyped
      <3> QED BY <1>0, <1>3, <3>1 DEF StoreInv, ConnectionsOK
    <2> QED BY <1>0, <2>1, <2>2 DEF ConnectionsOK
  <1> QED BY <1>1, <1>2, <1>3, <1>4, <1>5, <1>6 DEF StoreInv, AuthorityTyped

(* The calls of Begin and Finish: answered, or timed out and under way.    *)
LEMMA CallSteps ==
    ASSUME IInv, NEW r \in Requests, beginUpstream(r) \/ finishUpstream(r)
    PROVE  IInv'
  <1> USE HandoffAssumption
  <1> DEFINE k == greq[r].key
  <1>0. /\ StoreInv /\ RequestsInv /\ greq[r] \in RequestRow /\ RequestOK(greq[r])
        /\ late \subseteq Calls /\ \A c \in late : CallOK(c)
    BY DEF IInv, RequestsInv, StoreInv, AuthorityTyped
  <1>1. CASE beginUpstream(r)
    <2>1. greq[r].pc = "callBegin" /\ UNCHANGED <<store, codes, entry, holder, crashes>>
      BY <1>1 DEF beginUpstream
    <2>2. k \in Keys /\ Opened(k, None) /\ greq[r].handoff = None
      BY <1>0, <2>1 DEF RequestOK, BeginPCs
    <2> DEFINE call == [key |-> k, up |-> k, code |-> None]
    <2>3. call \in Calls /\ CallOK(call)
      BY <2>2 DEF Calls, CallOK
    <2>4. PICK label \in {"settleBegin", "queryBegin"} :
              /\ Goto(r, label)
              /\ late' \subseteq late \cup {call}
              /\ UNCHANGED <<begun, bound>> \/ BeginGitHubBinding(k)
      BY <1>1 DEF beginUpstream
    <2>5. StoreInv' /\ Grows
      <3> HIDE DEF call, k
      <3>1. late' \subseteq Calls /\ \A c \in late' : CallOK(c)
        BY <1>0, <2>3, <2>4
      <3> QED BY <1>0, <2>1, <2>2, <2>4, <3>1, AuthorityApplies
    <2>6. PICK x \in RequestRow : /\ greq' = [greq EXCEPT ![r] = x]
                                  /\ x.pc = label /\ SameRequest(x, greq[r])
      BY <1>0, <2>4, GotoStep DEF PCs
    <2>7. RequestOK(x)
      BY <1>0, <2>1, <2>6
      DEF RequestOK, SameRequest, BeginPCs, CallbackPCs, FinishPCs, CheckedPCs, Holding
    <2>8. RequestOK(x)'
      BY <1>0, <2>5, <2>7, RequestStays
    <2>9. /\ greq[r].pc \notin {"record", "forget"} /\ greq[r].pc \notin Holding
          /\ x.pc \notin Holding
      BY <2>1, <2>6 DEF Holding
    <2> QED BY <2>1, <2>5, <2>6, <2>8, <2>9, RequestStep
  <1>2. CASE finishUpstream(r)
    <2> DEFINE h == greq[r].handoff
               u == row[h].up
               c == greq[r].code
    <2>1. greq[r].pc = "call" /\ UNCHANGED <<store, codes, entry, holder, crashes>>
      BY <1>2 DEF finishUpstream
    <2>2. /\ k \in Keys /\ h \in Handoffs /\ Opened(k, h) /\ u # None
          /\ row[h].digest = c /\ c # None
      BY <1>0, <2>1 DEF RequestOK, FinishPCs, CheckedPCs, Holding
    <2>3. u \in Keys /\ c \in Codes /\ FinishCall(k, u, c, h)
      BY <1>0, <2>2 DEF StoreInv, StoreTyped, HandoffRow, RequestRow, FinishCall
    <2> DEFINE call == [key |-> k, up |-> u, code |-> c]
    <2>4. call \in Calls /\ CallOK(call)
      BY <2>2, <2>3 DEF Calls, CallOK
    <2>5. PICK label \in {"list", "query"} :
              /\ Goto(r, label)
              /\ late' \subseteq late \cup {call}
              /\ \/ label = "query" /\ UNCHANGED <<begun, bound>>
                 \/ label = "list" /\ FinishGitHubBinding(k, u, c)
      BY <1>2 DEF finishUpstream
    <2>6. StoreInv' /\ Grows
      <3> HIDE DEF call, k, u, c, h
      <3>1. late' \subseteq Calls /\ \A d \in late' : CallOK(d)
        BY <1>0, <2>4, <2>5
      <3> QED BY <1>0, <2>1, <2>2, <2>3, <2>5, <3>1, AuthorityApplies
    <2>7. label = "list" => bound'[u].key = k
      <3> HIDE DEF k, u, c, h
      <3> QED BY <1>0, <2>2, <2>3, <2>5, FinishBinds
    <2>8. PICK x \in RequestRow : /\ greq' = [greq EXCEPT ![r] = x]
                                  /\ x.pc = label /\ SameRequest(x, greq[r])
      BY <1>0, <2>5, GotoStep DEF PCs, Holding
    <2>9. row' = row /\ idem' = idem
      BY <2>1 DEF store
    <2>10. RequestOK(x)'
      <3>1. /\ x.pc \in FinishPCs \ {"lock"} /\ x.pc \in CheckedPCs /\ x.pc # "settle"
            /\ x.pc \notin BeginPCs \cup CallbackPCs /\ x.pc # "lock"
        BY <2>8 DEF BeginPCs, CallbackPCs, FinishPCs, CheckedPCs, Holding
      <3>2. /\ idem[k].session = greq[r].session /\ row[h].session = greq[r].session
            /\ greq[r].mutex # 0
        BY <1>0, <2>1 DEF RequestOK, FinishPCs, CheckedPCs, Holding
      <3>3. /\ x.key = k /\ x.handoff = h /\ x.code = c /\ x.session = greq[r].session
            /\ x.mutex = greq[r].mutex
        BY <2>8 DEF SameRequest
      <3> HIDE DEF k, u, c, h
      <3>4. Opened(x.key, x.handoff)' /\ idem'[x.key].session = x.session
        BY <2>2, <2>9, <3>2, <3>3 DEF Opened
      <3>5. x.pc = "list" => bound'[row'[x.handoff].up].key = x.key
        BY <2>7, <2>8, <2>9, <3>3 DEF u, h
      <3>6. /\ x.handoff \in Handoffs /\ row'[x.handoff].up # None
            /\ row'[x.handoff].session = x.session /\ row'[x.handoff].digest = x.code
            /\ x.code # None /\ x.mutex # 0 /\ x.key \in Keys
        BY <2>2, <2>9, <3>2, <3>3 DEF u, h
      <3> QED BY <3>1, <3>4, <3>5, <3>6 DEF RequestOK
    <2>11. /\ greq[r].pc \notin {"record", "forget"} /\ greq[r].pc \in Holding
           /\ x.pc \in Holding /\ x.mutex = greq[r].mutex
      BY <2>1, <2>8 DEF Holding, SameRequest
    <2> QED BY <2>1, <2>6, <2>8, <2>10, <2>11, RequestStep
  <1> QED BY <1>1, <1>2

(* No request moves.                                                       *)
LEMMA QuietStep ==
    ASSUME IInv, StoreInv', Grows, UNCHANGED <<memory, crashes>>
    PROVE  IInv'
  <1>0. /\ StoreInv /\ RequestsInv /\ CacheInv /\ LocksInv /\ CrashesOK
        /\ UNCHANGED <<codes, entry, holder, greq, crashes>>
    BY DEF IInv, memory
  <1>1. RequestsInv'
    <2>1. ASSUME NEW q \in Requests PROVE RequestOK(greq[q])'
      <3>1. PICK y \in RequestRow : y = greq[q]
        BY <1>0 DEF RequestsInv
      <3>2. greq'[q] = y /\ RequestOK(y)
        BY <1>0, <3>1 DEF RequestsInv
      <3>3. RequestOK(y)'
        BY <1>0, <3>2, RequestStays
      <3> QED BY <3>2, <3>3 DEF RequestOK, Opened
    <2> QED BY <1>0, <2>1 DEF RequestsInv
  <1>2. CacheInv'
    <2>1. ASSUME NEW h \in Handoffs PROVE CodeOK(h)'
      <3>1. CodeOK(h)
        BY <1>0 DEF CacheInv
      <3>2. CASE codes[h] # None /\ codes[h] = row[h].digest
        <4>1. row[h].up # None
          BY <1>0, <3>2 DEF StoreInv, RowOK, NoRow
        <4> QED BY <1>0, <3>2, <4>1 DEF CodeOK, Grows
      <3> QED BY <1>0, <3>1, <3>2 DEF CodeOK
    <2> QED BY <1>0, <2>1 DEF CacheInv, Cached
  <1>3. LocksInv' /\ CrashesOK'
    BY <1>0 DEF LocksInv, LocksTyped, HolderOK, CrashesOK
  <1> QED BY <1>1, <1>2, <1>3 DEF IInv

(* A call lands after its timeout.                                         *)
LEMMA LandStep ==
    ASSUME IInv, NEW c \in late, Land(c)
    PROVE  IInv'
  <1> USE HandoffAssumption
  <1>0. StoreInv /\ UNCHANGED <<store, memory, crashes>> /\ late' \subseteq late
    BY DEF IInv, Land
  <1>1. c.key \in Keys /\ c.up \in Keys /\ c.code \in Codes \cup {None} /\ CallOK(c)
    BY <1>0 DEF StoreInv, AuthorityTyped, Calls
  <1>2. late' \subseteq Calls /\ \A d \in late' : CallOK(d)
    BY <1>0 DEF StoreInv, AuthorityTyped
  <1>3. \/ UNCHANGED <<begun, bound>>
        \/ \E k \in Keys : Opened(k, None) /\ BeginGitHubBinding(k)
        \/ \E k \in Keys, u \in Keys, d \in Codes, h \in Handoffs :
               FinishCall(k, u, d, h) /\ FinishGitHubBinding(k, u, d)
    BY <1>1 DEF Land, CallOK
  <1>4. StoreInv' /\ Grows
    BY <1>0, <1>2, <1>3, AuthorityApplies
  <1> QED BY <1>0, <1>4, QuietStep

-----------------------------------------------------------------------------
(* A step that writes rows, and completes records.                         *)
LEMMA StoreMoves ==
    ASSUME StoreInv, Grows, UNCHANGED authority, StoreTyped', ConnectionsOK',
           \A h \in Handoffs : RowOK(h)',
           \A k \in Keys : /\ idem'[k].handoff = idem[k].handoff
                           /\ idem'[k] = idem[k] \/ RecordOK(k)'
    PROVE  StoreInv'
  <1> USE HandoffAssumption
  <1>0. UNCHANGED <<begun, bound, late>> /\ AuthorityTyped'
    BY DEF authority, StoreInv, AuthorityTyped
  <1>1. (\A k \in begun' : Opened(k, None)') /\ (\A c \in late' : CallOK(c)')
    BY <1>0, FactsStay
  <1>2. ASSUME NEW u \in Keys PROVE BoundOK(u)'
    <2>1. CASE bound[u].key # None
      BY <2>1, FactsStay
    <2>2. CASE bound[u].key = None
      BY <1>0, <2>2 DEF StoreInv, BoundOK
    <2> QED BY <2>1, <2>2
  <1>3. ASSUME NEW k \in Keys PROVE RecordOK(k)'
    <2>1. CASE idem[k].status = "completed"
      BY <2>1, FactsStay
    <2>2. CASE idem[k].status # "completed" /\ idem'[k] = idem[k]
      <3>1. RecordOK(k)
        BY DEF StoreInv
      <3>2. idem[k].handoff # None => idem[k].handoff \in Handoffs
        BY DEF StoreInv, StoreTyped, IdemRow
      <3> QED BY <2>2, <3>1, <3>2 DEF RecordOK, Grows
    <2> QED BY <2>1, <2>2
  <1> QED BY <1>0, <1>1, <1>2, <1>3 DEF StoreInv

(* What CompleteIdempotency writes.                                        *)
LEMMA CompleteStep ==
    ASSUME StoreTyped, NEW k \in Keys, NEW v \in Handoffs \cup Keys, CompleteIdempotency(k, v)
    PROVE  /\ idem' \in [Keys -> IdemRow] /\ idem[k].status = "inflight"
           /\ idem'[k].status = "completed" /\ idem'[k].result = v
           /\ idem'[k].session = idem[k].session /\ idem'[k].handoff = idem[k].handoff
           /\ \A j \in Keys : j # k => idem'[j] = idem[j]
  <1> DEFINE rec == [idem[k] EXCEPT !.status = "completed", !.result = v]
  <1>1. /\ idem \in [Keys -> IdemRow] /\ idem[k] \in IdemRow /\ idem[k].status = "inflight"
    BY DEF StoreTyped, CompleteIdempotency
  <1>2. /\ rec \in IdemRow /\ rec.status = "completed" /\ rec.result = v
        /\ rec.session = idem[k].session /\ rec.handoff = idem[k].handoff
    BY <1>1 DEF IdemRow
  <1>3. idem' = [idem EXCEPT ![k] = rec]
    BY <1>1 DEF CompleteIdempotency
  <1> HIDE DEF rec
  <1> QED BY <1>1, <1>2, <1>3

(* settleBegin puts the row and completes the record.                      *)
LEMMA SettleBeginStep ==
    ASSUME IInv, NEW r \in Requests, NEW h \in Handoffs, settleBegin(r, h)
    PROVE  IInv'
  <1> USE HandoffAssumption
  <1> DEFINE k == greq[r].key
  <1>0. /\ StoreInv /\ StoreTyped /\ greq[r] \in RequestRow /\ RequestOK(greq[r])
        /\ greq[r].pc = "settleBegin" /\ row[h] = NoRow /\ Return(r)
        /\ UNCHANGED <<connections, codes, entry, holder, authority, crashes>>
    BY DEF IInv, RequestsInv, StoreInv, settleBegin
  <1>1. k \in Keys /\ Opened(k, None) /\ greq[r].session \in Sessions \cup {None}
    BY <1>0 DEF RequestOK, BeginPCs, RequestRow
  <1>2. /\ idem' \in [Keys -> IdemRow] /\ idem[k].status = "inflight"
        /\ idem'[k].status = "completed" /\ idem'[k].result = h
        /\ idem'[k].session = idem[k].session /\ idem'[k].handoff = None
        /\ idem[k].handoff = None
        /\ \A j \in Keys : j # k => idem'[j] = idem[j]
    <2>1. CompleteIdempotency(k, h)
      BY DEF settleBegin
    <2> HIDE DEF k
    <2> QED BY <1>0, <1>1, <2>1, CompleteStep DEF Opened
  <1>3. /\ row' \in [Handoffs -> HandoffRow] /\ row'[h].up = k /\ ~row'[h].consumed
        /\ row[h].up = None /\ \A g \in Handoffs : g # h => row'[g] = row[g]
    <2> DEFINE new == [row[h] EXCEPT !.session = greq[r].session, !.up = k]
    <2>1. /\ row[h].up = None /\ ~row[h].consumed /\ row[h] \in HandoffRow
          /\ row \in [Handoffs -> HandoffRow]
      <3>1. NoRow.up = None /\ ~NoRow.consumed
        BY DEF NoRow
      <3>2. row \in [Handoffs -> HandoffRow]
        BY <1>0 DEF StoreTyped
      <3> QED BY <1>0, <3>1, <3>2, Zenon
    <2>2. row' = [row EXCEPT ![h] = new]
      BY <2>1 DEF settleBegin
    <2>3. new \in HandoffRow /\ new.up = k /\ new.consumed = row[h].consumed
      <3> HIDE DEF k
      <3> QED BY <1>1, <2>1 DEF HandoffRow
    <2> HIDE DEF new
    <2> QED BY <2>1, <2>2, <2>3
  <1> HIDE DEF k
  <1>4. Grows
    BY <1>0, <1>2, <1>3 DEF Grows, authority
  <1>5. ASSUME NEW g \in Handoffs PROVE RowOK(g)'
    <2>1. CASE g = h
      BY <1>1, <1>2, <1>3, <2>1 DEF RowOK
    <2>2. CASE g # h
      <3>1. RowOK(g) /\ row'[g] = row[g]
        BY <1>0, <1>3, <2>2 DEF StoreInv
      <3>2. row[g].up # None => row[g].up \in Keys
        BY <1>0 DEF StoreTyped, HandoffRow
      <3>3. row[g].up # None => row[g].up # k
        BY <1>2, <3>1 DEF RowOK
      <3> QED BY <1>2, <3>1, <3>2, <3>3 DEF RowOK
    <2> QED BY <2>1, <2>2
  <1>6. ConnectionsOK'
    <2>1. \/ connections' \subseteq Keys
          \/ (connections' = Earlier /\ \A g \in Handoffs : ~row'[g].consumed)
      BY <1>0, <1>3 DEF StoreInv, ConnectionsOK
    <2>2. ASSUME NEW u \in connections \ Earlier
          PROVE  \E g \in Handoffs : row'[g].up = u /\ row'[g].consumed /\ bound'[u].key # None
      <3>1. u \in Keys
        BY <1>0 DEF StoreTyped
      <3>2. PICK g \in Handoffs : row[g].up = u /\ row[g].consumed /\ bound[u].key # None
        BY <1>0 DEF StoreInv, ConnectionsOK
      <3> QED BY <1>0, <1>4, <3>1, <3>2 DEF Grows, authority
    <2> QED BY <1>0, <2>1, <2>2 DEF ConnectionsOK
  <1>7. ASSUME NEW j \in Keys
        PROVE  /\ idem'[j].handoff = idem[j].handoff
               /\ idem'[j] = idem[j] \/ RecordOK(j)'
    BY <1>2 DEF RecordOK
  <1>8. StoreTyped'
    BY <1>0, <1>2, <1>3 DEF StoreTyped
  <1>9. StoreInv'
    BY <1>0, <1>4, <1>5, <1>6, <1>7, <1>8, StoreMoves
  <1>10. PICK x \in RequestRow : /\ greq' = [greq EXCEPT ![r] = x]
                                 /\ x.pc \notin Holding /\ RequestOK(x)'
    BY <1>0, ReturnStep
  <1>11. greq[r].pc \notin {"record", "forget"} /\ greq[r].pc \notin Holding
    BY <1>0 DEF Holding
  <1> QED BY <1>0, <1>4, <1>9, <1>10, <1>11, RequestStep

(* Rows that keep the name of their installation.                          *)
LEMMA RowsKept ==
    ASSUME StoreInv, Grows,
           \A g \in Handoffs : \/ row'[g] = row[g]
                               \/ row[g].up # None /\ row'[g].up = row[g].up
    PROVE  \A g \in Handoffs : RowOK(g)'
  <1> SUFFICES ASSUME NEW g \in Handoffs PROVE RowOK(g)'
    OBVIOUS
  <1>1. RowOK(g) /\ row'[g].up = row[g].up /\ (row[g].up = None => row'[g] = row[g])
    BY DEF StoreInv
  <1>2. row[g].up # None => row[g].up \in Keys
    BY DEF StoreInv, StoreTyped, HandoffRow
  <1> QED BY <1>1, <1>2 DEF RowOK, Grows

(* A hand-off expires.                                                     *)
LEMMA ExpireStep ==
    ASSUME IInv, NEW h \in Handoffs, HandoffExpires(h)
    PROVE  IInv'
  <1> DEFINE new == [row[h] EXCEPT !.expired = TRUE]
  <1>0. /\ StoreInv /\ StoreTyped /\ row[h] # NoRow
        /\ UNCHANGED <<idem, connections, memory, authority, crashes>>
    BY DEF IInv, StoreInv, HandoffExpires
  <1>1. row[h].up # None /\ row \in [Handoffs -> HandoffRow]
    BY <1>0 DEF StoreInv, RowOK, StoreTyped
  <1>2. /\ new \in HandoffRow /\ new.up = row[h].up /\ new.session = row[h].session
        /\ new.digest = row[h].digest /\ new.consumed = row[h].consumed
    BY <1>1 DEF HandoffRow
  <1>3. row' = [row EXCEPT ![h] = new]
    BY <1>1 DEF HandoffExpires
  <1> HIDE DEF new
  <1>4. /\ row' \in [Handoffs -> HandoffRow]
        /\ \A g \in Handoffs : /\ row'[g].up = row[g].up /\ row'[g].session = row[g].session
                               /\ row'[g].digest = row[g].digest
                               /\ row'[g].consumed = row[g].consumed
                               /\ g # h => row'[g] = row[g]
    BY <1>1, <1>2, <1>3
  <1>5. Grows
    BY <1>0, <1>4 DEF Grows, authority
  <1>6. StoreTyped' /\ ConnectionsOK'
    BY <1>0, <1>4 DEF StoreInv, StoreTyped, ConnectionsOK, authority
  <1>7. \A g \in Handoffs : RowOK(g)'
    BY <1>0, <1>1, <1>4, <1>5, RowsKept
  <1>8. StoreInv'
    BY <1>0, <1>5, <1>6, <1>7, StoreMoves
  <1> QED BY <1>0, <1>5, <1>8, QuietStep

(* A callback wins the row.                                                *)
LEMMA RecordStep ==
    ASSUME IInv, NEW r \in Requests, RecordGitHubHandoffCallback(r)
    PROVE  IInv'
  <1> USE HandoffAssumption
  <1> DEFINE h == greq[r].handoff
             c == greq[r].code
             new == [row[h] EXCEPT !.digest = c]
  <1>0. /\ StoreInv /\ StoreTyped /\ RequestsInv /\ CacheInv /\ LocksInv /\ CrashesOK
        /\ greq[r] \in RequestRow /\ RequestOK(greq[r])
        /\ greq[r].pc = "record" /\ row[h].digest = None /\ Return(r)
        /\ UNCHANGED <<idem, connections, codes, entry, holder, authority, crashes>>
    BY DEF IInv, StoreInv, RequestsInv, RecordGitHubHandoffCallback
  <1>1. h \in Handoffs /\ row[h].up # None /\ c \in Codes /\ row \in [Handoffs -> HandoffRow]
    BY <1>0 DEF RequestOK, CallbackPCs, RequestRow, StoreTyped
  <1>2. /\ new \in HandoffRow /\ new.up = row[h].up /\ new.session = row[h].session
        /\ new.digest = c /\ new.consumed = row[h].consumed
    <2>1. row[h] \in HandoffRow
      BY <1>1
    <2> HIDE DEF h, c
    <2> QED BY <1>1, <2>1 DEF HandoffRow
  <1>3. row' = [row EXCEPT ![h] = new]
    BY <1>1 DEF RecordGitHubHandoffCallback
  <1> HIDE DEF new
  <1>4. /\ row' \in [Handoffs -> HandoffRow]
        /\ \A g \in Handoffs : /\ row'[g].up = row[g].up /\ row'[g].session = row[g].session
                               /\ row'[g].consumed = row[g].consumed
                               /\ g # h => row'[g] = row[g]
        /\ row'[h].digest = c
    BY <1>1, <1>2, <1>3
  <1>5. Grows
    BY <1>0, <1>4 DEF Grows, authority
  <1>6. StoreTyped' /\ ConnectionsOK'
    BY <1>0, <1>4 DEF StoreInv, StoreTyped, ConnectionsOK, authority
  <1>7. \A g \in Handoffs : RowOK(g)'
    <2> HIDE DEF h, c
    <2> QED BY <1>0, <1>1, <1>4, <1>5, RowsKept
  <1>8. StoreInv'
    BY <1>0, <1>5, <1>6, <1>7, StoreMoves
  <1>9. PICK x \in RequestRow : /\ greq' = [greq EXCEPT ![r] = x]
                                /\ x.pc \notin Holding /\ RequestOK(x)'
    BY <1>0, ReturnStep
  <1>10. RequestsInv' /\ \A q \in Requests : greq'[q] = IF q = r THEN x ELSE greq[q]
    BY <1>0, <1>5, <1>9, RequestMoves
  <1>11. greq[r].pc \notin Holding
    BY <1>0 DEF Holding
  <1>12. LocksInv'
    BY <1>0, <1>9, <1>10, <1>11, LocksKept
  <1>13. ASSUME NEW g \in Handoffs PROVE CodeOK(g)'
    <2>1. CodeOK(g) /\ codes'[g] = codes[g]
      BY <1>0 DEF CacheInv
    <2>2. CASE codes[g] = None
      BY <2>1, <2>2 DEF CodeOK
    <2>3. CASE codes[g] # None /\ codes[g] = row[g].digest
      <3>1. g # h
        BY <1>0, <2>3
      <3> QED BY <1>4, <2>1, <2>3, <3>1 DEF CodeOK
    <2>4. ASSUME NEW q \in Requests, greq[q].pc \in {"record", "forget"},
                 greq[q].handoff = g, greq[q].code = codes[g]
          PROVE  CodeOK(g)'
      <3>1. CASE q = r
        BY <1>4, <2>1, <2>4, <3>1 DEF CodeOK
      <3>2. CASE q # r
        <4>1. greq'[q] = greq[q]
          BY <1>10, <3>2
        <4> QED BY <2>1, <2>4, <4>1 DEF CodeOK
      <3> QED BY <3>1, <3>2
    <2> QED BY <2>1, <2>2, <2>3, <2>4 DEF CodeOK
  <1>14. CacheInv'
    BY <1>0, <1>13 DEF CacheInv, Cached
  <1> QED BY <1>0, <1>8, <1>10, <1>12, <1>14 DEF IInv, CrashesOK

(* settleFinish replaces the connections, consumes the hand-off and        *)
(* completes the record.                                                   *)
LEMMA SettleFinishStep ==
    ASSUME IInv, NEW r \in Requests, settleFinish(r)
    PROVE  IInv'
  <1> USE HandoffAssumption
  <1> DEFINE h == greq[r].handoff
             k == greq[r].key
             u == row[h].up
             new == [row[h] EXCEPT !.consumed = TRUE]
  <1>0. /\ StoreInv /\ StoreTyped /\ RequestsInv /\ greq[r] \in RequestRow /\ RequestOK(greq[r])
        /\ greq[r].pc = "settle" /\ greq[r].existing \subseteq connections
        /\ connections' = (connections \ greq[r].existing) \cup {u}
        /\ CompleteIdempotency(k, u) /\ Goto(r, "drop")
        /\ UNCHANGED <<codes, entry, holder, authority, crashes>>
    BY DEF IInv, StoreInv, RequestsInv, settleFinish
  <1>1. /\ h \in Handoffs /\ k \in Keys /\ u # None /\ Opened(k, h)
        /\ idem[k].session = greq[r].session /\ row[h].session = greq[r].session
        /\ bound[u].key = k /\ (connections \subseteq Keys \/ Earlier \subseteq greq[r].existing)
    BY <1>0 DEF RequestOK, FinishPCs, CheckedPCs, Holding
  <1>2. u \in Keys /\ row \in [Handoffs -> HandoffRow]
    BY <1>0, <1>1 DEF StoreTyped, HandoffRow
  <1>3. /\ new \in HandoffRow /\ new.up = u /\ new.session = row[h].session
        /\ new.digest = row[h].digest /\ new.consumed = TRUE
    <2>1. row[h] \in HandoffRow
      BY <1>1, <1>2
    <2> HIDE DEF h
    <2> QED BY <2>1 DEF HandoffRow
  <1>4. row' = [row EXCEPT ![h] = new]
    BY <1>1, <1>2 DEF settleFinish
  <1> HIDE DEF new
  <1>5. /\ row' \in [Handoffs -> HandoffRow]
        /\ \A g \in Handoffs : /\ row'[g].up = row[g].up /\ row'[g].session = row[g].session
                               /\ row'[g].digest = row[g].digest
                               /\ g # h => row'[g] = row[g]
        /\ row'[h].consumed
    BY <1>1, <1>2, <1>3, <1>4
  <1>6. /\ idem' \in [Keys -> IdemRow] /\ idem[k].status = "inflight"
        /\ idem'[k].status = "completed" /\ idem'[k].result = u
        /\ idem'[k].session = idem[k].session /\ idem'[k].handoff = idem[k].handoff
        /\ \A j \in Keys : j # k => idem'[j] = idem[j]
    <2> HIDE DEF h, k, u
    <2> QED BY <1>0, <1>1, <1>2, CompleteStep
  <1>7. connections' \subseteq Keys
    <2>1. connections \subseteq Keys \/ connections = Earlier
      BY <1>0 DEF StoreInv, ConnectionsOK
    <2> HIDE DEF h, k, u
    <2> QED BY <1>0, <1>1, <1>2, <2>1
  <1>8. Grows
    <2>1. UNCHANGED bound
      BY <1>0 DEF authority
    <2> HIDE DEF k, u
    <2>2. \A g \in Handoffs : row[g].consumed => row'[g].consumed
      BY <1>5
    <2> HIDE DEF h
    <2> QED BY <1>5, <1>6, <1>7, <2>1, <2>2 DEF Grows
  <1>9. ConnectionsOK'
    <2>1. ASSUME NEW v \in connections' \ Earlier
          PROVE  \E g \in Handoffs : row'[g].up = v /\ row'[g].consumed /\ bound'[v].key # None
      <3>0. UNCHANGED bound
        BY <1>0 DEF authority
      <3>1. CASE v = u
        BY <1>1, <1>5, <3>0, <3>1
      <3>2. CASE v # u
        <4>1. v \in connections \ Earlier /\ v \in Keys
          BY <1>0, <1>7, <2>1, <3>2
        <4>2. PICK g \in Handoffs : row[g].up = v /\ row[g].consumed /\ bound[v].key # None
          BY <1>0, <4>1 DEF StoreInv, ConnectionsOK
        <4> QED BY <1>8, <3>0, <4>1, <4>2 DEF Grows
      <3> QED BY <3>1, <3>2
    <2> QED BY <1>7, <2>1 DEF ConnectionsOK
  <1>10. ASSUME NEW j \in Keys, j = k PROVE RecordOK(j)'
    <2>1. UNCHANGED bound /\ idem'[k].handoff = h
      BY <1>0, <1>1, <1>6 DEF authority, Opened
    <2>2. row'[h].up = u /\ row'[h].session = row[h].session
      BY <1>1, <1>5
    <2> HIDE DEF h, k, u
    <2> QED BY <1>1, <1>5, <1>6, <1>10, <2>1, <2>2 DEF RecordOK
  <1>11. StoreInv'
    <2> HIDE DEF h, k, u
    <2>1. StoreTyped'
      BY <1>5, <1>6, <1>7 DEF StoreTyped
    <2>2. \A j \in Keys : /\ idem'[j].handoff = idem[j].handoff
                          /\ idem'[j] = idem[j] \/ RecordOK(j)'
      BY <1>6, <1>10
    <2>3. row[h].up # None
      BY <1>1 DEF u
    <2>4. \A g \in Handoffs : RowOK(g)'
      BY <1>0, <1>5, <1>8, <2>3, RowsKept
    <2> QED BY <1>0, <1>8, <1>9, <2>1, <2>2, <2>4, StoreMoves
  <1>12. PICK x \in RequestRow : /\ greq' = [greq EXCEPT ![r] = x]
                                 /\ x.pc = "drop" /\ SameRequest(x, greq[r])
    BY <1>0, GotoStep DEF PCs, Holding
  <1>13. RequestOK(x)
    BY <1>0, <1>12
    DEF RequestOK, SameRequest, BeginPCs, CallbackPCs, FinishPCs, CheckedPCs, Holding
  <1>14. RequestOK(x)'
    BY <1>0, <1>8, <1>13, RequestStays
  <1>15. /\ greq[r].pc \notin {"record", "forget"} /\ greq[r].pc \in Holding
         /\ x.pc \in Holding /\ x.mutex = greq[r].mutex
    BY <1>0, <1>12 DEF Holding, SameRequest
  <1> QED BY <1>0, <1>8, <1>11, <1>12, <1>14, <1>15, RequestStep

-----------------------------------------------------------------------------
(* The cache.  evictCodes makes room for one code.                         *)
LEMMA EvictionMakesRoom ==
    ASSUME CacheInv, NEW kept \in SUBSET Handoffs, evictCodes(kept), NEW h \in Handoffs
    PROVE  Cardinality(kept \cup {h}) <= MaxCachedCodes /\ IsFiniteSet(kept \cup {h})
  <1> DEFINE live == {g \in Handoffs : codes[g] # None /\ ~row[g].expired}
  <1>1. live \subseteq Cached /\ Cached \subseteq Handoffs
    BY DEF Cached
  <1>2. IsFiniteSet(Cached)
    BY <1>1, FS_Subset, HandoffAssumption
  <1>3. IsFiniteSet(live) /\ Cardinality(live) <= Cardinality(Cached)
    BY <1>1, <1>2, FS_Subset
  <1>4. /\ kept \subseteq live
        /\ Cardinality(kept) = IF Cardinality(live) >= MaxCachedCodes
                               THEN Cardinality(live) - 1 ELSE Cardinality(live)
    BY DEF evictCodes
  <1> HIDE DEF live
  <1>5. IsFiniteSet(kept)
    BY <1>3, <1>4, FS_Subset
  <1>6. Cardinality(live) \in Nat /\ Cardinality(Cached) \in Nat /\ Cardinality(kept) \in Nat
    BY <1>2, <1>3, <1>5, FS_CardinalityType
  <1>7. Cardinality(kept) + 1 <= MaxCachedCodes
    BY <1>3, <1>4, <1>6, HandoffAssumption DEF CacheInv
  <1>8. /\ IsFiniteSet(kept \cup {h})
        /\ Cardinality(kept \cup {h}) = IF h \in kept THEN Cardinality(kept)
                                        ELSE Cardinality(kept) + 1
    BY <1>5, FS_AddElement
  <1> QED BY <1>6, <1>7, <1>8, HandoffAssumption

(* A set of hand-offs within one that has room has room.                   *)
LEMMA CacheBound ==
    ASSUME NEW S, IsFiniteSet(S), Cardinality(S) <= MaxCachedCodes, NEW T \in SUBSET S
    PROVE  Cardinality(T) <= MaxCachedCodes
  <1>1. Cardinality(T) <= Cardinality(S) /\ IsFiniteSet(T)
    BY FS_Subset
  <1>2. Cardinality(T) \in Nat /\ Cardinality(S) \in Nat
    BY <1>1, FS_CardinalityType
  <1> QED BY <1>1, <1>2, HandoffAssumption

(* The steps that change the cache.                                        *)
LEMMA CacheSteps ==
    ASSUME IInv, NEW r \in Requests, CacheCode(r) \/ ForgetCode(r) \/ dropCachedCode(r)
    PROVE  IInv'
  <1> USE HandoffAssumption
  <1> DEFINE h == greq[r].handoff
  <1>0. /\ StoreInv /\ RequestsInv /\ CacheInv /\ LocksInv /\ CrashesOK
        /\ greq[r] \in RequestRow /\ RequestOK(greq[r])
        /\ UNCHANGED <<store, entry, holder, authority, crashes>>
    BY DEF IInv, RequestsInv, CacheCode, ForgetCode, dropCachedCode
  <1>1. StoreInv' /\ Grows
    BY <1>0, StoreFrame, GrowsFrame DEF authority
  <1>2. h \in Handoffs
    BY <1>0 DEF CacheCode, ForgetCode, dropCachedCode, RequestOK, CallbackPCs, FinishPCs, Holding
  <1>3. ASSUME NEW x \in RequestRow, greq' = [greq EXCEPT ![r] = x], RequestOK(x),
               x.pc \in Holding <=> greq[r].pc \in Holding,
               x.pc \in Holding => x.mutex = greq[r].mutex,
               codes' \in [Handoffs -> Codes \cup {None}],
               Cardinality(Cached') <= MaxCachedCodes,
               codes'[h] = None \/ (x.pc = "record" /\ x.handoff = h /\ x.code = codes'[h]),
               \A g \in Handoffs : g # h => codes'[g] \in {codes[g], None}
        PROVE  IInv'
    <2>1. RequestOK(x)'
      BY <1>0, <1>1, <1>3, RequestStays
    <2>2. RequestsInv' /\ \A q \in Requests : greq'[q] = IF q = r THEN x ELSE greq[q]
      BY <1>0, <1>1, <1>3, <2>1, RequestMoves
    <2>3. LocksInv'
      BY <1>0, <1>3, <2>2, LocksKept
    <2>4. ASSUME NEW g \in Handoffs PROVE CodeOK(g)'
      <3>1. CASE g = h
        <4>1. CASE codes'[h] = None
          BY <3>1, <4>1 DEF CodeOK
        <4>2. CASE x.pc = "record" /\ x.handoff = h /\ x.code = codes'[h]
          <5>1. greq'[r] = x
            BY <2>2
          <5>2. greq'[r].pc \in {"record", "forget"} /\ greq'[r].handoff = g /\ greq'[r].code = codes'[g]
            BY <3>1, <4>2, <5>1
          <5> QED BY <5>2 DEF CodeOK
        <4> QED BY <1>3, <3>1, <4>1, <4>2
      <3>2. CASE g # h
        <4>1. CodeOK(g) /\ codes'[g] \in {codes[g], None} /\ row' = row
          BY <1>0, <1>3, <3>2 DEF CacheInv, store
        <4>2. ASSUME NEW q \in Requests, greq[q].pc \in {"record", "forget"},
                     greq[q].handoff = g, greq[q].code = codes[g]
              PROVE  CodeOK(g)'
          <5>1. greq'[q] = greq[q]
            BY <2>2, <3>2, <4>2
          <5> QED BY <4>1, <4>2, <5>1 DEF CodeOK
        <4> QED BY <4>1, <4>2 DEF CodeOK
      <3> QED BY <3>1, <3>2
    <2>5. CacheInv'
      BY <1>3, <2>4 DEF CacheInv
    <2> QED BY <1>0, <1>1, <2>2, <2>3, <2>5 DEF IInv, CrashesOK
  <1>4. CASE CacheCode(r)
    <2>1. PICK kept \in SUBSET Handoffs :
              /\ evictCodes(kept)
              /\ codes' = [g \in Handoffs |-> IF g = h THEN greq[r].code
                                              ELSE IF g \in kept THEN codes[g] ELSE None]
      BY <1>4 DEF CacheCode
    <2>2. greq[r].pc = "cache" /\ Goto(r, "record")
      BY <1>4 DEF CacheCode
    <2>3. PICK x \in RequestRow : /\ greq' = [greq EXCEPT ![r] = x]
                                  /\ x.pc = "record" /\ SameRequest(x, greq[r])
      BY <1>0, <2>2, GotoStep DEF PCs
    <2>4. RequestOK(x)
      BY <1>0, <2>2, <2>3
      DEF RequestOK, SameRequest, BeginPCs, CallbackPCs, FinishPCs, CheckedPCs, Holding
    <2>5. codes' \in [Handoffs -> Codes \cup {None}]
      BY <1>0, <2>1 DEF CacheInv, RequestRow
    <2>6. Cardinality(Cached') <= MaxCachedCodes
      <3>1. Cached' \subseteq kept \cup {h}
        BY <2>1 DEF Cached
      <3>2. Cardinality(kept \cup {h}) <= MaxCachedCodes /\ IsFiniteSet(kept \cup {h})
        BY <1>0, <1>2, <2>1, EvictionMakesRoom
      <3> QED BY <3>1, <3>2, CacheBound
    <2>7. /\ x.handoff = h /\ x.code = codes'[h]
          /\ \A g \in Handoffs : g # h => codes'[g] \in {codes[g], None}
      BY <1>2, <2>1, <2>3 DEF SameRequest
    <2>8. x.pc \notin Holding /\ greq[r].pc \notin Holding
      BY <2>2, <2>3 DEF Holding
    <2> QED BY <1>3, <2>3, <2>4, <2>5, <2>6, <2>7, <2>8
  <1>5. ASSUME codes' = [codes EXCEPT ![h] = None]
        PROVE  /\ codes' \in [Handoffs -> Codes \cup {None}]
               /\ Cardinality(Cached') <= MaxCachedCodes
               /\ codes'[h] = None
               /\ \A g \in Handoffs : g # h => codes'[g] \in {codes[g], None}
    <2>1. codes \in [Handoffs -> Codes \cup {None}] /\ Cardinality(Cached) <= MaxCachedCodes
      BY <1>0 DEF CacheInv
    <2>2. Cached' \subseteq Cached /\ Cached \subseteq Handoffs
      BY <1>2, <1>5, <2>1 DEF Cached
    <2>3. IsFiniteSet(Cached)
      BY <2>2, FS_Subset
    <2>4. Cardinality(Cached') <= MaxCachedCodes
      BY <2>1, <2>2, <2>3, CacheBound
    <2> QED BY <1>2, <1>5, <2>1, <2>4
  <1>6. CASE ForgetCode(r)
    <2>1. greq[r].pc = "forget" /\ codes' = [codes EXCEPT ![h] = None] /\ Return(r)
      BY <1>6 DEF ForgetCode
    <2>2. PICK x \in RequestRow : /\ greq' = [greq EXCEPT ![r] = x]
                                  /\ x.pc \notin Holding /\ RequestOK(x)
      BY <2>1, ReturnStep
    <2>3. greq[r].pc \notin Holding
      BY <2>1 DEF Holding
    <2> QED BY <1>3, <1>5, <2>1, <2>2, <2>3
  <1>7. CASE dropCachedCode(r)
    <2>1. greq[r].pc = "drop" /\ codes' = [codes EXCEPT ![h] = None] /\ Goto(r, "unlock")
      BY <1>7 DEF dropCachedCode
    <2>2. PICK x \in RequestRow : /\ greq' = [greq EXCEPT ![r] = x]
                                  /\ x.pc = "unlock" /\ SameRequest(x, greq[r])
      BY <1>0, <2>1, GotoStep DEF PCs, Holding
    <2>3. RequestOK(x)
      BY <1>0, <2>1, <2>2
      DEF RequestOK, SameRequest, BeginPCs, CallbackPCs, FinishPCs, CheckedPCs, Holding
    <2>4. x.pc \in Holding /\ greq[r].pc \in Holding /\ x.mutex = greq[r].mutex
      BY <2>1, <2>2 DEF Holding, SameRequest
    <2> QED BY <1>3, <1>5, <2>1, <2>2, <2>3, <2>4
  <1> QED BY <1>4, <1>6, <1>7

-----------------------------------------------------------------------------
(* The locks.  A request that has no mutex leaves one for itself: every    *)
(* mutex in use is named by an entry or by a request.                      *)
LEMMA MutexLeft ==
    ASSUME LocksInv, RequestsInv, NEW r \in Requests, greq[r].mutex = 0
    PROVE  \E n \in Mutexes : Unused(n)
  <1> USE HandoffAssumption
  <1> DEFINE E == {entry[h] : h \in Handoffs}
             M == [q \in Requests |-> greq[q].mutex]
             Q == {M[q] : q \in Requests}
  <1>1. Cardinality(Requests) \in Nat /\ Cardinality(Handoffs) \in Nat
    BY FS_CardinalityType
  <1>2. IsFiniteSet(E) /\ Cardinality(E) <= Cardinality(Handoffs)
    <2>1. entry \in Surjection(Handoffs, E)
      BY DEF Surjection, LocksInv, LocksTyped
    <2> HIDE DEF E
    <2> QED BY <2>1, FS_Surjection
  <1>3. IsFiniteSet(Q) /\ Cardinality(Q) <= Cardinality(Requests)
    <2>1. M \in Surjection(Requests, Q)
      BY DEF Surjection
    <2> HIDE DEF M, Q
    <2> QED BY <2>1, FS_Surjection
  <1>4. Cardinality(E) \in Nat /\ Cardinality(Q) \in Nat
    <2> HIDE DEF E, Q
    <2> QED BY <1>2, <1>3, FS_CardinalityType
  <1>5. /\ IsFiniteSet(E \cup Q)
        /\ Cardinality(E \cup Q) <= Cardinality(Handoffs) + Cardinality(Requests)
    <2> HIDE DEF E, Q
    <2>1. /\ IsFiniteSet(E \cup Q)
          /\ Cardinality(E \cup Q) = Cardinality(E) + Cardinality(Q) - Cardinality(E \cap Q)
      BY <1>2, <1>3, FS_Union
    <2>2. IsFiniteSet(E \cap Q)
      BY <1>2, FS_Subset
    <2>3. Cardinality(E \cap Q) \in Nat
      BY <2>2, FS_CardinalityType
    <2> QED BY <1>1, <1>2, <1>3, <1>4, <2>1, <2>3
  <1>6. SUFFICES ASSUME \A n \in Mutexes : ~Unused(n) PROVE FALSE
    OBVIOUS
  <1>7. ASSUME NEW n \in Mutexes PROVE n \in E \cup Q
    <2>1. \/ holder[n] # None
          \/ \E h \in Handoffs : entry[h] = n
          \/ \E q \in Requests : greq[q].mutex = n
      BY <1>6 DEF Unused
    <2>2. holder[n] # None => holder[n] \in Requests /\ greq[holder[n]].mutex = n
      BY DEF LocksInv, LocksTyped, HolderOK
    <2> QED BY <2>1, <2>2
  <1>8. 0 \in E \cup Q
    OBVIOUS
  <1> DEFINE N == Cardinality(Requests) + Cardinality(Handoffs)
  <1>9. N \in Nat /\ Mutexes = 1 .. N
    BY <1>1 DEF Mutexes
  <1> HIDE DEF E, Q, N
  <1>10. 0 .. N \subseteq E \cup Q
    <2>1. ASSUME NEW n \in 0 .. N PROVE n \in E \cup Q
      <3>1. n = 0 \/ n \in Mutexes
        BY <1>9
      <3> QED BY <1>7, <1>8, <3>1
    <2> QED BY <2>1
  <1>11. IsFiniteSet(0 .. N) /\ Cardinality(0 .. N) = N + 1
    BY <1>9, FS_Interval
  <1>12. Cardinality(0 .. N) <= Cardinality(E \cup Q)
    BY <1>5, <1>10, FS_Subset
  <1>13. Cardinality(E \cup Q) \in Nat /\ Cardinality(E \cup Q) <= N
    BY <1>1, <1>5, FS_CardinalityType DEF N
  <1> QED BY <1>9, <1>11, <1>12, <1>13

(* The store, the cache and the other requests, in a step of the locks.    *)
LEMMA LockFrame ==
    ASSUME IInv, UNCHANGED <<store, codes, authority, crashes>>, LocksInv',
           NEW r \in Requests, NEW x \in RequestRow, greq' = [greq EXCEPT ![r] = x], RequestOK(x),
           greq[r].pc \notin {"record", "forget"}
    PROVE  IInv'
  <1>0. StoreInv /\ RequestsInv /\ CacheInv /\ CrashesOK
    BY DEF IInv
  <1>1. StoreInv' /\ Grows
    BY <1>0, StoreFrame, GrowsFrame DEF authority
  <1>2. RequestOK(x)'
    BY <1>0, <1>1, RequestStays
  <1>3. RequestsInv' /\ \A q \in Requests : greq'[q] = IF q = r THEN x ELSE greq[q]
    BY <1>0, <1>1, <1>2, RequestMoves
  <1>4. CacheInv'
    BY <1>0, <1>1, <1>3, CacheKept
  <1> QED BY <1>0, <1>1, <1>3, <1>4 DEF IInv, CrashesOK

LEMMA LockSteps ==
    ASSUME IInv, NEW r \in Requests, lock(r) \/ Acquire(r) \/ Unlock(r) \/ Release(r)
    PROVE  IInv'
  <1> USE HandoffAssumption
  <1> DEFINE h == greq[r].handoff
             m == greq[r].mutex
  <1>0. /\ StoreInv /\ RequestsInv /\ LocksInv /\ HolderOK /\ greq \in [Requests -> RequestRow]
        /\ greq[r] \in RequestRow /\ RequestOK(greq[r])
        /\ entry \in [Handoffs -> Mutexes \cup {0}] /\ holder \in [Mutexes -> Requests \cup {None}]
        /\ UNCHANGED <<store, codes, authority, crashes>>
    BY DEF IInv, RequestsInv, LocksInv, LocksTyped, lock, Acquire, Unlock, Release
  <1>1. ASSUME greq[r].pc \in FinishPCs \ {"lock"} PROVE m \in Mutexes
    BY <1>0, <1>1 DEF RequestOK, RequestRow
  <1>2. \A n \in Mutexes : holder[n] # None =>
            /\ holder[n] \in Requests
            /\ greq[holder[n]].pc \in Holding /\ greq[holder[n]].mutex = n
    BY <1>0 DEF HolderOK
  <1>3. CASE lock(r)
    <2> DEFINE n == IF entry[h] # 0 THEN entry[h] ELSE CHOOSE k \in Mutexes : Unused(k)
    <2>1. /\ entry' = [entry EXCEPT ![h] = n]
          /\ greq' = [greq EXCEPT ![r].pc = "wait", ![r].mutex = n]
      BY <1>3, Zenon DEF lock
    <2>2. greq[r].pc = "lock" /\ UNCHANGED holder
      BY <1>3 DEF lock
    <2>3. h \in Handoffs /\ m = 0
      BY <1>0, <2>2 DEF RequestOK, FinishPCs
    <2>4. n \in Mutexes /\ n # 0
      <3>1. \E k \in Mutexes : Unused(k)
        BY <1>0, <2>3, MutexLeft
      <3>2. n \in Mutexes
        BY <1>0, <2>3, <3>1
      <3> HIDE DEF n
      <3>3. Cardinality(Requests) \in Nat /\ Cardinality(Handoffs) \in Nat
        BY FS_CardinalityType
      <3> QED BY <3>2, <3>3 DEF Mutexes
    <2> HIDE DEF n
    <2>5. PICK x \in RequestRow : /\ greq' = [greq EXCEPT ![r] = x]
                                  /\ x.pc = "wait" /\ x.mutex = n /\ x.handoff = h
                                  /\ x.key = greq[r].key /\ x.session = greq[r].session
      <3> DEFINE y == [greq[r] EXCEPT !.pc = "wait", !.mutex = n]
      <3>1. /\ y \in RequestRow /\ y.pc = "wait" /\ y.mutex = n /\ y.handoff = h
            /\ y.key = greq[r].key /\ y.session = greq[r].session
        BY <1>0, <2>4 DEF RequestRow, PCs
      <3>2. greq' = [greq EXCEPT ![r].pc = "wait", ![r].mutex = n]
        BY <2>1
      <3>3. greq' = [greq EXCEPT ![r] = y]
        BY <1>0, <3>2
      <3> QED BY <3>1, <3>3
    <2>6. RequestOK(x)
      BY <1>0, <2>2, <2>4, <2>5
      DEF RequestOK, BeginPCs, CallbackPCs, FinishPCs, CheckedPCs, Holding
    <2>7. \A q \in Requests : greq'[q] = IF q = r THEN x ELSE greq[q]
      BY <1>0, <2>5
    <2>8. x.pc \notin Holding /\ greq[r].pc \notin Holding /\ greq[r].pc \notin {"record", "forget"}
      BY <2>2, <2>5 DEF Holding
    <2>9. LocksInv'
      <3>1. entry' \in [Handoffs -> Mutexes \cup {0}]
        BY <1>0, <2>1, <2>3, <2>4
      <3> HIDE DEF h, m
      <3> QED BY <1>0, <1>2, <2>2, <2>7, <2>8, <3>1 DEF LocksInv, LocksTyped, HolderOK
    <2> QED BY <1>0, <2>5, <2>6, <2>8, <2>9, LockFrame
  <1>4. CASE Acquire(r)
    <2>1. /\ greq[r].pc = "wait" /\ holder[m] = None /\ holder' = [holder EXCEPT ![m] = r]
          /\ Goto(r, "check") /\ UNCHANGED entry
      BY <1>4 DEF Acquire
    <2>2. PICK x \in RequestRow : /\ greq' = [greq EXCEPT ![r] = x]
                                  /\ x.pc = "check" /\ SameRequest(x, greq[r])
      BY <1>0, <2>1, GotoStep DEF PCs, Holding
    <2>3. RequestOK(x)
      BY <1>0, <2>1, <2>2
      DEF RequestOK, SameRequest, BeginPCs, CallbackPCs, FinishPCs, CheckedPCs, Holding
    <2>4. \A q \in Requests : greq'[q] = IF q = r THEN x ELSE greq[q]
      BY <1>0, <2>2
    <2>5. m \in Mutexes /\ x.mutex = m /\ x.pc \in Holding
      BY <1>1, <2>1, <2>2 DEF FinishPCs, Holding, SameRequest
    <2> HIDE DEF h, m
    <2>6. LocksInv'
      <3>1. /\ holder' \in [Mutexes -> Requests \cup {None}] /\ holder'[m] = r
            /\ \A n \in Mutexes : n # m => holder'[n] = holder[n]
        BY <1>0, <2>1, <2>5
      <3>2. ASSUME NEW q \in Requests, greq'[q].pc \in Holding PROVE holder'[greq'[q].mutex] = q
        <4>1. CASE q = r
          BY <2>4, <2>5, <3>1, <4>1
        <4>2. CASE q # r
          <5>1. greq'[q] = greq[q] /\ holder[greq[q].mutex] = q
            BY <1>0, <2>4, <3>2, <4>2 DEF HolderOK
          <5>2. greq[q].mutex # m
            BY <2>1, <5>1
          <5> QED BY <1>0, <2>1, <5>1, <5>2
        <4> QED BY <4>1, <4>2
      <3>3. ASSUME NEW n \in Mutexes, holder'[n] # None
            PROVE  greq'[holder'[n]].pc \in Holding /\ greq'[holder'[n]].mutex = n
        <4>1. CASE n = m
          BY <2>4, <2>5, <3>1, <4>1
        <4>2. CASE n # m
          <5>1. holder'[n] = holder[n] /\ holder[n] # None
            BY <3>1, <3>3, <4>2
          <5>2. holder[n] \in Requests \ {r}
            BY <1>2, <2>1, <5>1 DEF Holding
          <5> QED BY <1>2, <2>4, <5>1, <5>2
        <4> QED BY <4>1, <4>2
      <3> QED BY <1>0, <2>1, <3>1, <3>2, <3>3 DEF LocksInv, LocksTyped, HolderOK
    <2>7. greq[r].pc \notin {"record", "forget"}
      BY <2>1
    <2> QED BY <1>0, <2>2, <2>3, <2>6, <2>7, LockFrame
  <1>5. CASE Unlock(r)
    <2>1. /\ greq[r].pc = "unlock" /\ holder' = [holder EXCEPT ![m] = None]
          /\ Goto(r, "release") /\ UNCHANGED entry
      BY <1>5 DEF Unlock
    <2>2. PICK x \in RequestRow : /\ greq' = [greq EXCEPT ![r] = x]
                                  /\ x.pc = "release" /\ SameRequest(x, greq[r])
      BY <1>0, <2>1, GotoStep DEF PCs
    <2>3. RequestOK(x)
      BY <1>0, <2>1, <2>2
      DEF RequestOK, SameRequest, BeginPCs, CallbackPCs, FinishPCs, CheckedPCs, Holding
    <2>4. \A q \in Requests : greq'[q] = IF q = r THEN x ELSE greq[q]
      BY <1>0, <2>2
    <2>5. m \in Mutexes /\ x.pc \notin Holding /\ holder[m] = r
      BY <1>0, <1>1, <2>1, <2>2 DEF FinishPCs, Holding, HolderOK
    <2> HIDE DEF h, m
    <2>6. LocksInv'
      <3>1. /\ holder' \in [Mutexes -> Requests \cup {None}] /\ holder'[m] = None
            /\ \A n \in Mutexes : n # m => holder'[n] = holder[n]
        BY <1>0, <2>1, <2>5
      <3>2. ASSUME NEW q \in Requests, greq'[q].pc \in Holding PROVE holder'[greq'[q].mutex] = q
        <4>1. q # r
          BY <2>4, <2>5, <3>2
        <4>2. greq'[q] = greq[q] /\ holder[greq[q].mutex] = q
          BY <1>0, <2>4, <3>2, <4>1 DEF HolderOK
        <4>3. greq[q].mutex # m
          BY <2>5, <4>1, <4>2
        <4> QED BY <1>0, <2>1, <4>2, <4>3
      <3>3. ASSUME NEW n \in Mutexes, holder'[n] # None
            PROVE  greq'[holder'[n]].pc \in Holding /\ greq'[holder'[n]].mutex = n
        <4>1. n # m /\ holder'[n] = holder[n] /\ holder[n] # None
          BY <3>1, <3>3
        <4>2. holder[n] # r
          BY <1>2, <4>1 DEF m
        <4> QED BY <1>2, <2>4, <4>1, <4>2
      <3> QED BY <1>0, <2>1, <3>1, <3>2, <3>3 DEF LocksInv, LocksTyped, HolderOK
    <2>7. greq[r].pc \notin {"record", "forget"}
      BY <2>1
    <2> QED BY <1>0, <2>2, <2>3, <2>6, <2>7, LockFrame
  <1>6. CASE Release(r)
    <2>1. /\ greq[r].pc = "release" /\ Return(r) /\ UNCHANGED holder
          /\ entry' = [entry EXCEPT ![h] = IF @ = m THEN 0 ELSE @]
      BY <1>6 DEF Release
    <2>2. PICK x \in RequestRow : /\ greq' = [greq EXCEPT ![r] = x]
                                  /\ x.pc \notin Holding /\ RequestOK(x)
      BY <2>1, ReturnStep
    <2>3. \A q \in Requests : greq'[q] = IF q = r THEN x ELSE greq[q]
      BY <1>0, <2>2
    <2>4. greq[r].pc \notin Holding /\ greq[r].pc \notin {"record", "forget"}
      BY <2>1 DEF Holding
    <2>5. LocksInv'
      <3>1. entry' \in [Handoffs -> Mutexes \cup {0}]
        BY <1>0, <2>1
      <3> HIDE DEF h, m
      <3> QED BY <1>0, <1>2, <2>1, <2>2, <2>3, <2>4, <3>1 DEF LocksInv, LocksTyped, HolderOK
    <2> QED BY <1>0, <2>2, <2>4, <2>5, LockFrame
  <1> QED BY <1>3, <1>4, <1>5, <1>6

(* The process stops.                                                      *)
LEMMA CrashStep == ASSUME IInv, Crash PROVE IInv'
  <1> USE HandoffAssumption
  <1>0. /\ StoreInv /\ crashes \in 0 .. MaxCrashes
        /\ UNCHANGED <<store, authority>> /\ greq' = [r \in Requests |-> Idle]
        /\ codes' = [h \in Handoffs |-> None] /\ entry' = [h \in Handoffs |-> 0]
        /\ holder' = [m \in Mutexes |-> None]
    BY DEF IInv, CrashesOK, Crash
  <1>1. StoreInv'
    BY <1>0, StoreFrame
  <1>2. Idle \in RequestRow /\ Idle.pc = "idle"
    BY DEF Idle, RequestRow, PCs
  <1>3. RequestsInv'
    BY <1>0, <1>2 DEF RequestsInv, RequestOK, BeginPCs, CallbackPCs, FinishPCs, CheckedPCs, Holding
  <1>4. CacheInv'
    <2>1. Cached' = {}
      BY <1>0 DEF Cached
    <2>2. Cardinality(Cached') = 0
      BY <2>1, FS_EmptySet, Zenon
    <2> QED BY <1>0, <2>2 DEF CacheInv, CodeOK
  <1>5. LocksInv'
    BY <1>0, <1>2 DEF LocksInv, LocksTyped, HolderOK, Holding
  <1>6. CrashesOK'
    <2>1. crashes < MaxCrashes /\ crashes' = crashes + 1
      BY DEF Crash
    <2> QED BY <1>0, <2>1 DEF CrashesOK
  <1> QED BY <1>1, <1>3, <1>4, <1>5, <1>6 DEF IInv

(* Every step keeps the invariant.                                         *)
LEMMA NextPreserves == IInv /\ [Next]_vars => IInv'
  <1> SUFFICES ASSUME IInv, [Next]_vars PROVE IInv'
    OBVIOUS
  <1>1. CASE UNCHANGED vars
    <2>1. UNCHANGED <<store, memory, authority, crashes>>
      BY <1>1 DEF vars
    <2>2. StoreInv' /\ Grows
      BY <2>1, StoreFrame, GrowsFrame DEF IInv, authority
    <2> QED BY <2>1, <2>2, QuietStep
  <1>2. ASSUME NEW r \in Requests, NEW k \in Keys, NEW s \in Sessions, Begin(r, k, s) PROVE IInv'
    <2>1. PICK label \in {"callBegin", "reconcileBegin"} : beginIdempotency(r, k, s, None, label)
      <3>1. CASE idem[k] = NoRecord
        BY <1>2, <3>1 DEF Begin
      <3>2. CASE idem[k] # NoRecord
        BY <1>2, <3>2 DEF Begin
      <3> QED BY <3>1, <3>2
    <2> QED BY <2>1, ClaimStep
  <1>3. ASSUME NEW r \in Requests, NEW k \in Keys, NEW s \in Sessions, NEW h \in Handoffs,
               Finish(r, k, s, h)
        PROVE  IInv'
    <2>1. row[h] # NoRow /\ beginIdempotency(r, k, s, h, "lock")
      BY <1>3 DEF Finish
    <2>2. h # None
      BY HandoffAssumption
    <2> QED BY <2>1, <2>2, ClaimStep
  <1>4. ASSUME NEW r \in Requests, NEW h \in Handoffs,
               settleBegin(r, h) \/ \E c \in Codes : RecordCallback(r, h, c)
        PROVE  IInv'
    BY <1>4, SettleBeginStep, CallbackStep
  <1>5. ASSUME NEW r \in Requests,
               \/ reconcileBegin(r) \/ beginUpstream(r) \/ beginUpstreamReplay(r)
               \/ CacheCode(r) \/ RecordGitHubHandoffCallback(r) \/ CallbackFails(r) \/ ForgetCode(r)
               \/ lock(r) \/ Acquire(r) \/ Unlock(r) \/ Release(r)
               \/ CheckHandoff(r) \/ reconcileFinish(r) \/ finishUpstream(r)
               \/ finishUpstreamReplay(r) \/ ListConnections(r) \/ settleFinish(r)
               \/ dropCachedCode(r) \/ RequestFails(r)
        PROVE  IInv'
    BY <1>5, ReadingSteps, CallSteps, CacheSteps, RecordStep, LockSteps, CheckSteps,
       SettleFinishStep
  <1>6. ASSUME NEW h \in Handoffs, HandoffExpires(h) PROVE IInv'
    BY <1>6, ExpireStep
  <1>7. ASSUME NEW c \in late, Land(c) PROVE IInv'
    BY <1>7, LandStep
  <1>8. ASSUME Crash PROVE IInv'
    BY <1>8, CrashStep
  <1> QED BY <1>1, <1>2, <1>3, <1>4, <1>5, <1>6, <1>7, <1>8 DEF Next

(* The invariant holds of the store, the memory of the process and the     *)
(* authority in every reachable state.                                     *)
THEOREM InvariantHolds == Spec => []IInv
  BY InitEstablishes, NextPreserves, PTL DEF Spec

-----------------------------------------------------------------------------
(* The rows, the cache, the lock table and the requests hold values of     *)
(* their types; the cache of raw codes never outgrows maxCachedCodes, and  *)
(* whoever is past lock holds the mutex it waited for.                     *)
THEOREM TypeCorrect == Spec => []TypeOK
  <1>1. IInv => TypeOK
    <2> SUFFICES ASSUME IInv PROVE TypeOK
      OBVIOUS
    <2>1. StoreTyped /\ AuthorityTyped /\ LocksTyped /\ HolderOK /\ CrashesOK
      BY DEF IInv, StoreInv, LocksInv
    <2>2. /\ codes \in [Handoffs -> Codes \cup {None}]
          /\ Cardinality({h \in Handoffs : codes[h] # None}) <= MaxCachedCodes
      BY DEF IInv, CacheInv, Cached
    <2>3. greq \in [Requests -> RequestRow]
      BY DEF IInv, RequestsInv
    <2> QED BY <2>1, <2>2, <2>3 DEF TypeOK, StoreTyped, AuthorityTyped, LocksTyped, HolderOK,
               CrashesOK, HandoffRow, IdemRow, RequestRow, BindingRow, Calls
  <1> QED BY <1>1, InvariantHolds, PTL

(* settleBegin leaves one hand-off for an installation, however many       *)
(* requests and retries its key saw.                                       *)
THEOREM HandoffsUnique == Spec => []OneHandoffPerInstallation
  <1>1. IInv => OneHandoffPerInstallation
    <2> SUFFICES ASSUME IInv, NEW h \in Handoffs, NEW g \in Handoffs, h # g, row[h] # NoRow
                 PROVE  row[h].up # row[g].up
      BY DEF OneHandoffPerInstallation
    <2>1. RowOK(h) /\ RowOK(g)
      BY DEF IInv, StoreInv
    <2> QED BY <2>1 DEF RowOK
  <1> QED BY <1>1, InvariantHolds, PTL

(* A code cached by a callback that lost the row is forgotten: between     *)
(* callbacks the cache holds the recorded code or none.                    *)
THEOREM CachedCodeRecorded == Spec => []FirstCodeOrNone
  <1>1. IInv => FirstCodeOrNone
    <2> SUFFICES ASSUME IInv, NEW h \in Handoffs,
                        \A r \in Requests : greq[r].handoff = h =>
                            greq[r].pc \notin {"cache", "record", "forget"}
                 PROVE  codes[h] \in {row[h].digest, None}
      BY DEF FirstCodeOrNone
    <2>1. CodeOK(h)
      BY DEF IInv, CacheInv
    <2> QED BY <2>1 DEF CodeOK
  <1> QED BY <1>1, InvariantHolds, PTL

(* finishUpstream binds with the recorded code, also when its call lands   *)
(* after the timeout.                                                      *)
THEOREM BindingsUseRecordedCode == Spec => []BoundByRecordedCode
  <1>1. IInv => BoundByRecordedCode
    <2> SUFFICES ASSUME IInv, NEW h \in Handoffs, row[h] # NoRow, bound[row[h].up] # NoBinding
                 PROVE  bound[row[h].up].code = row[h].digest
      BY DEF BoundByRecordedCode
    <2>1. RowOK(h) /\ row[h].up # None
      BY DEF IInv, StoreInv, RowOK
    <2>2. row[h].up \in Keys
      BY <2>1 DEF IInv, StoreInv, StoreTyped, HandoffRow
    <2>3. bound[row[h].up].key # None /\ BoundOK(row[h].up)
      BY <2>2 DEF IInv, StoreInv, BoundOK
    <2>4. PICK g \in Handoffs : row[g].up = row[h].up /\ row[g].digest = bound[row[h].up].code
      BY <2>3 DEF BoundOK, FinishCall
    <2>5. g = h
      BY <2>1, <2>4 DEF IInv, StoreInv, RowOK
    <2> QED BY <2>4, <2>5
  <1> QED BY <1>1, InvariantHolds, PTL

(* What Finish stored is what the authority did, under the same key and    *)
(* for the session that began, and only that became a connection.          *)
THEOREM FinishesAgree == Spec => []SettledAsBound
  <1>1. IInv => SettledAsBound
    <2> SUFFICES ASSUME IInv PROVE SettledAsBound
      OBVIOUS
    <2>1. \A k \in Keys : RecordOK(k)
      BY DEF IInv, StoreInv
    <2>2. ConnectionsOK /\ connections \subseteq Keys \cup Earlier
      BY DEF IInv, StoreInv, StoreTyped
    <2>3. ASSUME NEW u \in connections \ Earlier
          PROVE  \E h \in Handoffs : row[h].up = u /\ row[h].consumed /\ bound[u] # NoBinding
      <3>1. NoBinding.key = None
        BY DEF NoBinding
      <3> QED BY <2>2, <3>1 DEF ConnectionsOK
    <2>4. (\E h \in Handoffs : row[h].consumed) => connections \subseteq Keys
      BY <2>2 DEF ConnectionsOK
    <2> QED BY <2>1, <2>3, <2>4 DEF SettledAsBound, RecordOK
  <1> QED BY <1>1, InvariantHolds, PTL

=============================================================================
