--------------------------- MODULE GitHubHandoff ---------------------------
(***************************************************************************)
(* The GitHub connection of internal/github/handoff.go: Begin opens an     *)
(* installation at the authority, the redirect of the browser delivers a   *)
(* one-use binding code, and Finish exchanges it for a repository binding  *)
(* that becomes the connection of the workspace.                           *)
(*                                                                         *)
(* The rows are durable; the raw codes, the per-hand-off locks and the     *)
(* requests are lost in a crash.  The digest of a code is the code.  An    *)
(* installation at the authority is named by the idempotency key of its    *)
(* Begin, and so is the binding made of it.  A hand-off that has expired   *)
(* stays expired.  A request refused without an effect is no step.         *)
(***************************************************************************)
EXTENDS Naturals, FiniteSets

CONSTANTS Requests,        \* concurrent HTTP requests
          Handoffs,        \* identifiers of hand-offs
          Keys,            \* idempotency keys
          Codes,           \* binding codes
          Sessions,        \* founder sessions
          Earlier,         \* the connections an earlier hand-off left
          None,            \* no session, no key, no code
          MaxCachedCodes,  \* maxCachedCodes
          MaxCrashes       \* bound: how often the process may stop

ASSUME HandoffAssumption ==
    /\ None \notin Requests \cup Handoffs \cup Keys \cup Codes \cup Sessions
    /\ Earlier \cap Keys = {}
    /\ IsFiniteSet(Requests) /\ IsFiniteSet(Handoffs)
    /\ MaxCachedCodes \in Nat \ {0} /\ MaxCrashes \in Nat

VARIABLES row,          \* github_handoffs
          idem,         \* idempotency_records
          connections,  \* github_connections, each named by its binding
          codes,        \* memory: the raw codes, per hand-off
          entry,        \* memory: the mutex the lock table holds for a hand-off
          holder,       \* memory: the request that holds a mutex
          greq,         \* memory: the requests under way
          begun,        \* authority: the installations begun
          bound,        \* authority: the key and the code each was finished with
          late,         \* authority: calls that timed out and may still land
          crashes

store     == <<row, idem, connections>>
memory    == <<codes, entry, holder, greq>>
authority == <<begun, bound, late>>
vars      == <<store, memory, authority, crashes>>

(* A mutex nobody refers to any more is as good as a new one.              *)
Mutexes == 1 .. Cardinality(Requests) + Cardinality(Handoffs)

NoRow     == [session |-> None, up |-> None, digest |-> None,
              consumed |-> FALSE, expired |-> FALSE]
NoRecord  == [session |-> None, handoff |-> None, status |-> "none", result |-> None]
NoBinding == [key |-> None, code |-> None]
Idle      == [pc |-> "idle", session |-> None, key |-> None, handoff |-> None,
              code |-> None, replay |-> FALSE, mutex |-> 0, existing |-> {}]

Holding == {"check", "reconcile", "call", "query", "list", "settle", "drop", "unlock"}
PCs     == {"idle", "reconcileBegin", "callBegin", "queryBegin", "settleBegin",
            "cache", "record", "forget", "lock", "wait", "release"} \cup Holding

TypeOK ==
    /\ row \in [Handoffs -> [session : Sessions \cup {None}, up : Keys \cup {None},
                             digest : Codes \cup {None}, consumed : BOOLEAN, expired : BOOLEAN]]
    /\ idem \in [Keys -> [session : Sessions \cup {None}, handoff : Handoffs \cup {None},
                          status : {"none", "inflight", "completed"},
                          result : Handoffs \cup Keys \cup {None}]]
    /\ connections \subseteq Keys \cup Earlier
    /\ codes \in [Handoffs -> Codes \cup {None}]
    /\ Cardinality({h \in Handoffs : codes[h] # None}) <= MaxCachedCodes
    /\ entry \in [Handoffs -> Mutexes \cup {0}]
    /\ holder \in [Mutexes -> Requests \cup {None}]
    /\ greq \in [Requests -> [pc : PCs, session : Sessions \cup {None}, key : Keys \cup {None},
                              handoff : Handoffs \cup {None}, code : Codes \cup {None},
                              replay : BOOLEAN, mutex : Mutexes \cup {0},
                              existing : SUBSET (Keys \cup Earlier)]]
    /\ \A r \in Requests : greq[r].pc \in Holding => holder[greq[r].mutex] = r
    /\ begun \subseteq Keys
    /\ bound \in [Keys -> [key : Keys \cup {None}, code : Codes \cup {None}]]
    /\ late \subseteq [key : Keys, up : Keys, code : Codes \cup {None}]
    /\ crashes \in 0 .. MaxCrashes

Init ==
    /\ row = [h \in Handoffs |-> NoRow]
    /\ idem = [k \in Keys |-> NoRecord]
    /\ connections = Earlier
    /\ codes = [h \in Handoffs |-> None]
    /\ entry = [h \in Handoffs |-> 0]
    /\ holder = [m \in Mutexes |-> None]
    /\ greq = [r \in Requests |-> Idle]
    /\ begun = {} /\ late = {}
    /\ bound = [k \in Keys |-> NoBinding]
    /\ crashes = 0

Goto(r, label) == greq' = [greq EXCEPT ![r].pc = label]
Return(r)      == greq' = [greq EXCEPT ![r] = Idle]

(* A step that moves nothing but its own request.                          *)
OnlyTheRequest == UNCHANGED <<store, codes, entry, holder, authority, crashes>>

-----------------------------------------------------------------------------
(* beginIdempotency: the first use of a key inserts it; a later one must   *)
(* carry the same digest, of the operation, the session and the hand-off.  *)
(* A completed record answers with its stored result, which is no step.    *)
beginIdempotency(r, k, s, h, label) ==
    /\ greq[r] = Idle
    /\ \/ /\ idem[k] = NoRecord
          /\ idem' = [idem EXCEPT ![k] = [session |-> s, handoff |-> h,
                                          status |-> "inflight", result |-> None]]
       \/ /\ idem[k].status = "inflight"
          /\ idem[k].session = s /\ idem[k].handoff = h
          /\ UNCHANGED idem
    /\ greq' = [greq EXCEPT ![r] = [Idle EXCEPT
           !.pc = label, !.session = s, !.key = k, !.handoff = h,
           !.replay = idem[k] # NoRecord]]
    /\ UNCHANGED <<row, connections, codes, entry, holder, authority, crashes>>

(* A call: applied once per key; an installation is finished by one key.   *)
BeginGitHubBinding(k) == begun' = begun \cup {k} /\ UNCHANGED bound

FinishGitHubBinding(k, u, c) ==
    /\ bound[u].key \in {None, k}
    /\ bound' = [bound EXCEPT ![u] = IF @ = NoBinding THEN [key |-> k, code |-> c] ELSE @]
    /\ UNCHANGED begun

Completed(k) == k \in begun \/ \E u \in Keys : bound[u].key = k

(* A timed-out call lands after all, or is lost.                           *)
Land(c) ==
    /\ c \in late
    /\ late' = late \ {c}
    /\ \/ c.code = None /\ BeginGitHubBinding(c.key)
       \/ c.code # None /\ FinishGitHubBinding(c.key, c.up, c.code)
       \/ UNCHANGED <<begun, bound>>
    /\ UNCHANGED <<store, memory, crashes>>

-----------------------------------------------------------------------------
(* Begin.  A replay of an unsettled key looks the operation up first: an   *)
(* absent one is begun as new, a completed one is recovered by its key.    *)

Begin(r, k, s) ==
    beginIdempotency(r, k, s, None, IF idem[k] = NoRecord THEN "callBegin" ELSE "reconcileBegin")

reconcileBegin(r) ==
    /\ greq[r].pc = "reconcileBegin"
    /\ Goto(r, IF Completed(greq[r].key) THEN "settleBegin" ELSE "callBegin")
    /\ OnlyTheRequest

beginUpstream(r) ==
    /\ greq[r].pc = "callBegin"
    /\ \/ /\ BeginGitHubBinding(greq[r].key)
          /\ Goto(r, "settleBegin")
          /\ UNCHANGED late
       \/ /\ late' = late \cup {[key |-> greq[r].key, up |-> greq[r].key, code |-> None]}
          /\ Goto(r, "queryBegin")
          /\ UNCHANGED <<begun, bound>>
    /\ UNCHANGED <<store, codes, entry, holder, crashes>>

(* After a timeout only a completed operation goes on.                     *)
beginUpstreamReplay(r) ==
    /\ greq[r].pc = "queryBegin"
    /\ Completed(greq[r].key)
    /\ Goto(r, "settleBegin")
    /\ OnlyTheRequest

(* Mutant of CompleteIdempotency: a completed record is overwritten.       *)
CompleteAgain(k, result) ==
    idem' = [idem EXCEPT ![k].status = "completed", ![k].result = result]

CompleteIdempotency(k, result) ==
    /\ idem[k].status = "inflight"
    /\ idem' = [idem EXCEPT ![k].status = "completed", ![k].result = result]

(* The row, under a new random identifier, and the record in one           *)
(* transaction.                                                            *)
settleBegin(r, h) ==
    /\ greq[r].pc = "settleBegin"
    /\ row[h] = NoRow
    /\ CompleteIdempotency(greq[r].key, h)
    /\ row' = [row EXCEPT ![h].session = greq[r].session, ![h].up = greq[r].key]
    /\ Return(r)
    /\ UNCHANGED <<connections, codes, entry, holder, authority, crashes>>

(* handoffTTL passes.                                                      *)
HandoffExpires(h) ==
    /\ row[h] # NoRow /\ ~row[h].expired
    /\ row' = [row EXCEPT ![h].expired = TRUE]
    /\ UNCHANGED <<idem, connections, memory, authority, crashes>>

-----------------------------------------------------------------------------
(* RecordCallback: the row is read, the raw code is cached, and its digest *)
(* is recorded; whoever loses the race for the row forgets the code.       *)

RecordCallback(r, h, c) ==
    /\ greq[r] = Idle
    /\ row[h] # NoRow /\ ~row[h].expired
    /\ ~row[h].consumed /\ row[h].digest = None
    /\ greq' = [greq EXCEPT ![r] = [Idle EXCEPT !.pc = "cache", !.handoff = h, !.code = c]]
    /\ OnlyTheRequest

(* Mutant of evictCodes: a full cache grows.                               *)
evictNothing(kept) == kept = {h \in Handoffs : codes[h] # None}

(* The codes that stay when one is added to a full cache: expired ones go  *)
(* first, then an arbitrary one.                                           *)
evictCodes(kept) ==
    LET live == {h \in Handoffs : codes[h] # None /\ ~row[h].expired}
    IN  /\ kept \subseteq live
        /\ Cardinality(kept) = IF Cardinality(live) >= MaxCachedCodes
                               THEN Cardinality(live) - 1 ELSE Cardinality(live)

CacheCode(r) ==
    /\ greq[r].pc = "cache"
    /\ \E kept \in SUBSET Handoffs :
           /\ evictCodes(kept)
           /\ codes' = [h \in Handoffs |-> IF h = greq[r].handoff THEN greq[r].code
                                           ELSE IF h \in kept THEN codes[h] ELSE None]
    /\ Goto(r, "record")
    /\ UNCHANGED <<store, entry, holder, authority, crashes>>

RecordGitHubHandoffCallback(r) ==
    /\ greq[r].pc = "record"
    /\ row[greq[r].handoff].digest = None
    /\ row' = [row EXCEPT ![greq[r].handoff].digest = greq[r].code]
    /\ Return(r)
    /\ UNCHANGED <<idem, connections, codes, entry, holder, authority, crashes>>

(* The transaction fails, by a conflict or otherwise.                      *)
CallbackFails(r) ==
    /\ greq[r].pc = "record"
    /\ Goto(r, "forget")
    /\ OnlyTheRequest

(* Mutant of ForgetCode: the code of the loser stays cached.               *)
KeepLostCode(r) ==
    /\ greq[r].pc = "forget"
    /\ Return(r)
    /\ OnlyTheRequest

ForgetCode(r) ==
    /\ greq[r].pc = "forget"
    /\ codes' = [codes EXCEPT ![greq[r].handoff] = None]
    /\ Return(r)
    /\ UNCHANGED <<store, entry, holder, authority, crashes>>

-----------------------------------------------------------------------------
(* Finish, from the idempotency record to the lock of the hand-off.  The   *)
(* lock table gives the mutex of its entry, or a new one.  The record is   *)
(* inserted before the row is looked up; the id of a hand-off is random,   *)
(* so a record of one that does not exist is read by no other request.     *)

Finish(r, k, s, h) == row[h] # NoRow /\ beginIdempotency(r, k, s, h, "lock")

Unused(m) == /\ holder[m] = None
             /\ \A h \in Handoffs : entry[h] # m
             /\ \A r \in Requests : greq[r].mutex # m

lock(r) ==
    LET h == greq[r].handoff
        m == IF entry[h] # 0 THEN entry[h] ELSE CHOOSE n \in Mutexes : Unused(n)
    IN  /\ greq[r].pc = "lock"
        /\ entry' = [entry EXCEPT ![h] = m]
        /\ greq' = [greq EXCEPT ![r].pc = "wait", ![r].mutex = m]
        /\ UNCHANGED <<store, codes, holder, authority, crashes>>

Acquire(r) ==
    /\ greq[r].pc = "wait"
    /\ holder[greq[r].mutex] = None
    /\ holder' = [holder EXCEPT ![greq[r].mutex] = r]
    /\ Goto(r, "check")
    /\ UNCHANGED <<store, codes, entry, authority, crashes>>

(* The mutex is unlocked first; then the entry is dropped if it is still   *)
(* the one of this mutex, whoever waits on it.                             *)
Unlock(r) ==
    /\ greq[r].pc = "unlock"
    /\ holder' = [holder EXCEPT ![greq[r].mutex] = None]
    /\ Goto(r, "release")
    /\ UNCHANGED <<store, codes, entry, authority, crashes>>

Release(r) ==
    LET h == greq[r].handoff
    IN  /\ greq[r].pc = "release"
        /\ entry' = [entry EXCEPT ![h] = IF @ = greq[r].mutex THEN 0 ELSE @]
        /\ Return(r)
        /\ UNCHANGED <<store, codes, holder, authority, crashes>>

(* Mutant of cachedCode: the code is not compared with the recorded digest. *)
AnyCachedCode(h) == codes[h] # None

cachedCode(h) == codes[h] # None /\ codes[h] = row[h].digest

(* The checks under the lock.                                              *)
CheckHandoff(r) ==
    LET h == greq[r].handoff
    IN  /\ greq[r].pc = "check"
        /\ row[h].session = greq[r].session
        /\ ~row[h].expired /\ ~row[h].consumed
        /\ row[h].digest # None
        /\ cachedCode(h)
        /\ greq' = [greq EXCEPT ![r].code = codes[h],
                                ![r].pc = IF greq[r].replay THEN "reconcile" ELSE "call"]
        /\ OnlyTheRequest

(* Mutant of reconcileFinish: an operation the authority holds no record   *)
(* of counts as completed.                                                 *)
ReconcileAsCompleted(r) ==
    /\ greq[r].pc = "reconcile"
    /\ Goto(r, "list")
    /\ OnlyTheRequest

reconcileFinish(r) ==
    /\ greq[r].pc = "reconcile"
    /\ Goto(r, IF Completed(greq[r].key) THEN "list" ELSE "call")
    /\ OnlyTheRequest

finishUpstream(r) ==
    LET u == row[greq[r].handoff].up
    IN  /\ greq[r].pc = "call"
        /\ \/ /\ FinishGitHubBinding(greq[r].key, u, greq[r].code)
              /\ Goto(r, "list")
              /\ UNCHANGED late
           \/ /\ late' = late \cup {[key |-> greq[r].key, up |-> u, code |-> greq[r].code]}
              /\ Goto(r, "query")
              /\ UNCHANGED <<begun, bound>>
        /\ UNCHANGED <<store, codes, entry, holder, crashes>>

finishUpstreamReplay(r) ==
    /\ greq[r].pc = "query"
    /\ Completed(greq[r].key)
    /\ Goto(r, "list")
    /\ OnlyTheRequest

(* The connections to replace are listed before the transaction.           *)
ListConnections(r) ==
    /\ greq[r].pc = "list"
    /\ greq' = [greq EXCEPT ![r].pc = "settle",
                            ![r].existing = connections \ {row[greq[r].handoff].up}]
    /\ OnlyTheRequest

(* One transaction: the listed connections are deleted, the new one is     *)
(* put, the hand-off is consumed and the record completed.  Deleting a     *)
(* connection that is gone, consuming a consumed hand-off and completing a *)
(* completed record each fail it.                                          *)
settleFinish(r) ==
    LET h == greq[r].handoff
    IN  /\ greq[r].pc = "settle"
        /\ greq[r].existing \subseteq connections
        /\ connections' = (connections \ greq[r].existing) \cup {row[h].up}
        /\ ~row[h].consumed
        /\ row' = [row EXCEPT ![h].consumed = TRUE]
        /\ CompleteIdempotency(greq[r].key, row[h].up)
        /\ Goto(r, "drop")
        /\ UNCHANGED <<codes, entry, holder, authority, crashes>>

dropCachedCode(r) ==
    /\ greq[r].pc = "drop"
    /\ codes' = [codes EXCEPT ![greq[r].handoff] = None]
    /\ Goto(r, "unlock")
    /\ UNCHANGED <<store, entry, holder, authority, crashes>>

(* A check, a read, a call or the transaction fails.  The lock is released *)
(* on every way out.                                                       *)
RequestFails(r) ==
    /\ \/ greq[r].pc \in Holding \ {"drop", "unlock"} /\ Goto(r, "unlock")
       \/ greq[r].pc \in {"reconcileBegin", "callBegin", "queryBegin", "settleBegin"} /\ Return(r)
    /\ OnlyTheRequest

(* The process stops; the rows stay.                                       *)
Crash ==
    /\ crashes < MaxCrashes
    /\ crashes' = crashes + 1
    /\ codes' = [h \in Handoffs |-> None]
    /\ entry' = [h \in Handoffs |-> 0]
    /\ holder' = [m \in Mutexes |-> None]
    /\ greq' = [r \in Requests |-> Idle]
    /\ UNCHANGED <<store, authority>>

-----------------------------------------------------------------------------
Next ==
    \/ \E r \in Requests, k \in Keys, s \in Sessions :
           Begin(r, k, s) \/ \E h \in Handoffs : Finish(r, k, s, h)
    \/ \E r \in Requests, h \in Handoffs :
           settleBegin(r, h) \/ \E c \in Codes : RecordCallback(r, h, c)
    \/ \E r \in Requests :
           \/ reconcileBegin(r) \/ beginUpstream(r) \/ beginUpstreamReplay(r)
           \/ CacheCode(r) \/ RecordGitHubHandoffCallback(r) \/ CallbackFails(r) \/ ForgetCode(r)
           \/ lock(r) \/ Acquire(r) \/ Unlock(r) \/ Release(r)
           \/ CheckHandoff(r) \/ reconcileFinish(r) \/ finishUpstream(r) \/ finishUpstreamReplay(r)
           \/ ListConnections(r) \/ settleFinish(r) \/ dropCachedCode(r) \/ RequestFails(r)
    \/ \E h \in Handoffs : HandoffExpires(h)
    \/ \E c \in late : Land(c)
    \/ Crash

Spec == Init /\ [][Next]_vars

-----------------------------------------------------------------------------
(* Two Begin requests under one key, and its retries, leave one hand-off   *)
(* for the installation the authority began (settleBegin completes the     *)
(* record in the transaction that puts the row).                           *)
OneHandoffPerInstallation ==
    \A h, g \in Handoffs : h # g /\ row[h] # NoRow => row[h].up # row[g].up

(* When no callback of a hand-off is under way, the code cached for it is  *)
(* the one whose digest its row holds (RecordCallback caches before it     *)
(* wins the row, and a loser may have overwritten the code of the winner). *)
FirstCodeOrNone ==
    \A h \in Handoffs :
        (\A r \in Requests : greq[r].handoff = h =>
                                 greq[r].pc \notin {"cache", "record", "forget"})
            => codes[h] \in {row[h].digest, None}

(* The binding at the authority was made with the code recorded in the row *)
(* of its hand-off, also by a call that landed after its timeout.          *)
BoundByRecordedCode ==
    \A h \in Handoffs :
        row[h] # NoRow /\ bound[row[h].up] # NoBinding => bound[row[h].up].code = row[h].digest

(* A settled finish is the operation the authority completed under the     *)
(* same key, by the session that began the hand-off, and its hand-off is   *)
(* consumed; only such bindings become connections, and the first of them  *)
(* replaces what was connected before (Finish, settleFinish).              *)
SettledAsBound ==
    /\ \A k \in Keys :
           LET rec == idem[k]
           IN  rec.status = "completed" /\ rec.handoff # None =>
                   /\ rec.result = row[rec.handoff].up
                   /\ bound[rec.result].key = k
                   /\ row[rec.handoff].consumed
                   /\ row[rec.handoff].session = rec.session
    /\ (\E h \in Handoffs : row[h].consumed) => connections \subseteq Keys
    /\ \A u \in connections \ Earlier :
           \E h \in Handoffs : row[h].up = u /\ row[h].consumed /\ bound[u] # NoBinding

=============================================================================
