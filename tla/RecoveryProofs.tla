---------------------------- MODULE RecoveryProofs ----------------------------
(***************************************************************************)
(* Proofs about Recovery and the Identity module it extends, for any       *)
(* number of requests, ceremonies, passkeys, missions and codes.           *)
(***************************************************************************)
EXTENDS Recovery, FiniteSetTheorems, TLAPS

-----------------------------------------------------------------------------
(* The inductive invariant, as named parts.                                *)

CredentialRow == [founder : Founders \cup {None}, count : 0 .. MaxSignCount]

SessionRow == [founder : Founders \cup {None}, status : {"none", "live", "revoked"}]

BootRow == [code : 0 .. MaxCodes, first : Creds \cup {None},
            method : {"none", "passkey", "offline_key"}, verified : BOOLEAN,
            staged : SUBSET Creds, open : SUBSET {"first", "recovery"}]

RequestRow == [pc : {"fresh", "complete", "drop", "login", "decision", "done"},
               boot : Boots \cup {None}, cred : Creds \cup {None}, count : 0 .. MaxSignCount]

ProcessRow == [pc : {"idle", "refused", "attest", "baseline", "contain", "reconcile",
                     "acknowledged", "await", "empty", "reset", "deliver"},
               founder : Founders \cup {None}, typed : Bytes \cup {None}, count : Nat]

IdentityTyped == IdentityTypeOK /\ keyHash \in [Founders -> Bytes \cup {None}]

(* There is a founder or a code, never both.                               *)
FounderOK ==
    /\ founders # {} => code = NoCode /\ \E f \in Founders : founders = {f}
    /\ founders = {} /\ issued > 0 => code # NoCode
    /\ code.id = 0 => code = NoCode

(* What an enrolment ceremony has staged.                                  *)
BootOK(b) ==
    /\ IsFiniteSet(boot[b].staged)
    /\ boot[b].first # None => boot[b].first \in boot[b].staged
    /\ "recovery" \in boot[b].open => boot[b].first # None
    /\ boot[b].verified => \E c, d \in boot[b].staged : c # d

(* The ceremony may be completed: a passkey and an independent method.     *)
Ready(b) ==
    /\ boot[b].first # None
    /\ boot[b].method = "offline_key" \/ (boot[b].method = "passkey" /\ boot[b].verified)

(* A request has a session when it is done.  A ceremony that is dropped    *)
(* under a request that completes it was committed by another.             *)
RequestOK(r) ==
    /\ areq[r].pc \in {"fresh", "complete", "login", "decision"} => session[r] = NoSession
    /\ areq[r].pc \in {"complete", "drop"} => areq[r].boot \in Boots
    /\ areq[r].pc = "complete" => Ready(areq[r].boot) \/ founders # {}
    /\ areq[r].pc = "drop" => founders # {}
    /\ areq[r].pc \in {"login", "decision"}
           => areq[r].cred \in Creds /\ credential[areq[r].cred].founder \in founders

(* The memory of a server that does not run holds nothing.                 *)
MemoryOK ==
    /\ logins \subseteq founders
    /\ \A b \in Boots : BootOK(b)
    /\ \A r \in Requests : RequestOK(r)
    /\ lock # "server" => /\ logins = {}
                          /\ \A r \in Requests : areq[r].pc \in {"fresh", "done"}

(* Whoever is enrolled has a finite number of passkeys, and a way back.    *)
RecoverableOK ==
    \A f \in founders :
        /\ IsFiniteSet(founderCredentials(f))
        /\ founderCredentials(f) # {}
        /\ keyHash[f] # None \/ \E c, d \in founderCredentials(f) : c # d

RecoveryTyped ==
    /\ intent \in [Keys -> [state : IntentStates, attested : BOOLEAN, count : Nat]]
    /\ rproc \in ProcessRow
    /\ lock = "recover" <=> rproc.pc # "idle"
    /\ rproc.pc # "idle" => rproc.typed \in Bytes
    /\ handoffs \subseteq Requests
    /\ mission \in [Missions -> {"none", "active", "contained", "ended"}]
    /\ IsFiniteSet({m \in Missions : mission[m] # "none"})
    /\ containment \in [Keys -> [applied : BOOLEAN, covered : SUBSET Missions]]

(* What an intent says of the containment under its key.                   *)
IntentOK(k) ==
    /\ \A m \in containment[k].covered : mission[m] # "none"
    /\ intent[k].state \in {"contained", "verified_empty", "completed"}
           => containment[k].applied
    /\ intent[k].state \in {"verified_empty", "completed"}
           => \A m \in containment[k].covered : mission[m] = "ended"

(* What the recover process has seen of the authority.                     *)
ProcessOK ==
    /\ rproc.pc = "acknowledged" => containment[Key].applied
    /\ rproc.pc = "empty" => ActiveMissions = {}

IdentityInv == IdentityTyped /\ FounderOK /\ MemoryOK /\ RecoverableOK /\ NothingSurvivesRecovery
RecoveryInv == RecoveryTyped /\ (\A k \in Keys : IntentOK(k)) /\ ProcessOK
IInv == IdentityInv /\ RecoveryInv

-----------------------------------------------------------------------------
(* The empty store satisfies the invariant.                                *)
LEMMA InitEstablishes == Init => IInv
  <1> SUFFICES ASSUME Init PROVE IInv
    OBVIOUS
  <1> USE IdentityAssumption DEF Init, IdentityInit
  <1>1. IdentityTyped
    <2>1. NoCredential \in CredentialRow /\ NoSession \in SessionRow
      BY DEF CredentialRow, NoCredential, SessionRow, NoSession
    <2>2. NoBoot \in BootRow
      BY DEF BootRow, NoBoot
    <2>3. FreshRequest \in RequestRow
      BY DEF RequestRow, FreshRequest
    <2>4. code \in [id : 0 .. MaxCodes, expired : BOOLEAN] /\ issued \in 0 .. MaxCodes
      BY DEF NoCode
    <2> QED BY <2>1, <2>2, <2>3, <2>4
            DEF IdentityTyped, IdentityTypeOK, CredentialRow, SessionRow, BootRow, RequestRow
  <1>2. FounderOK /\ RecoverableOK /\ NothingSurvivesRecovery
    BY DEF FounderOK, RecoverableOK, NothingSurvivesRecovery, NoCode, NoSession
  <1>3. MemoryOK
    BY FS_EmptySet DEF MemoryOK, BootOK, RequestOK, NoBoot, FreshRequest
  <1>4. RecoveryTyped
    <2>1. IsFiniteSet({m \in Missions : mission[m] # "none"})
      <3>1. {m \in Missions : mission[m] # "none"} = {}
        OBVIOUS
      <3> QED BY <3>1, FS_EmptySet, Zenon
    <2>2. rproc \in ProcessRow /\ rproc.pc = "idle"
      BY DEF NoProcess, ProcessRow
    <2>3. intent \in [Keys -> [state : IntentStates, attested : BOOLEAN, count : Nat]]
      BY DEF NoIntent, IntentStates
    <2> QED BY <2>1, <2>2, <2>3 DEF RecoveryTyped, NoContainment
  <1>5. (\A k \in Keys : IntentOK(k)) /\ ProcessOK
    BY DEF IntentOK, ProcessOK, NoIntent, NoContainment, NoProcess
  <1> QED BY <1>1, <1>2, <1>3, <1>4, <1>5 DEF IInv, IdentityInv, RecoveryInv

(* The recovery part does not look at the founder's tables.                *)
LEMMA RecoveryFrame ==
    ASSUME RecoveryInv, UNCHANGED <<intent, rproc, mission, containment>>,
           handoffs' \subseteq Requests, lock' = "recover" <=> lock = "recover"
    PROVE  RecoveryInv'
  BY DEF RecoveryInv, RecoveryTyped, IntentOK, ProcessOK, Key, ActiveMissions

-----------------------------------------------------------------------------
(* The process: the server starts, with a code if there is no founder,     *)
(* stops and forgets, and a code expires.                                  *)
LEMMA ServerSteps ==
    ASSUME IdentityInv, StartServer \/ StopServer \/ CodeExpires, UNCHANGED handoffs
    PROVE  IdentityInv'
  <1> USE IdentityAssumption
  <1>0. /\ IdentityTyped /\ FounderOK /\ MemoryOK /\ RecoverableOK /\ NothingSurvivesRecovery
        /\ code \in [id : 0 .. MaxCodes, expired : BOOLEAN] /\ issued \in 0 .. MaxCodes
    BY DEF IdentityInv, IdentityTyped, IdentityTypeOK
  <1>1. CASE StartServer
    <2>0. UNCHANGED <<founders, credential, session, keyHash, boot, logins, areq>> /\ lock' = "server"
      BY <1>1 DEF StartServer, memory
    <2>1. /\ code' \in [id : 0 .. MaxCodes, expired : BOOLEAN] /\ issued' \in 0 .. MaxCodes
          /\ FounderOK'
      <3>1. CASE founders # {}
        BY <1>0, <1>1, <2>0, <3>1 DEF StartServer, EnsureBootstrapCode, FounderOK
      <3>2. CASE founders = {}
        <4>1. issued < MaxCodes /\ issued' = issued + 1 /\ code' = [id |-> issued + 1, expired |-> FALSE]
          BY <1>1, <3>2 DEF StartServer, EnsureBootstrapCode
        <4>2. /\ code' \in [id : 0 .. MaxCodes, expired : BOOLEAN] /\ issued' \in 0 .. MaxCodes
              /\ code'.id # 0
          BY <1>0, <4>1
        <4> QED BY <2>0, <3>2, <4>2 DEF FounderOK, NoCode
      <3> QED BY <3>1, <3>2
    <2>2. IdentityTyped'
      BY <1>0, <2>0, <2>1 DEF IdentityTyped, IdentityTypeOK
    <2>3. MemoryOK'
      BY <1>0, <2>0 DEF MemoryOK, BootOK, RequestOK, Ready
    <2>4. RecoverableOK' /\ NothingSurvivesRecovery'
      BY <1>0, <2>0 DEF RecoverableOK, founderCredentials, NothingSurvivesRecovery
    <2> QED BY <2>1, <2>2, <2>3, <2>4 DEF IdentityInv
  <1>2. CASE StopServer
    <2>0. /\ UNCHANGED <<founders, credential, session, code, issued, keyHash>>
          /\ lock' = "none" /\ logins' = {} /\ boot' = [b \in Boots |-> NoBoot]
          /\ areq' = [r \in Requests |-> IF areq[r] = FreshRequest THEN FreshRequest
                                         ELSE [FreshRequest EXCEPT !.pc = "done"]]
      BY <1>2 DEF StopServer, tables
    <2>1. boot' \in [Boots -> BootRow] /\ \A b \in Boots : boot'[b] = NoBoot
      <3>1. NoBoot \in BootRow
        BY DEF BootRow, NoBoot
      <3> QED BY <2>0, <3>1
    <2>2. /\ areq' \in [Requests -> RequestRow]
          /\ \A r \in Requests : areq'[r].pc = "done"
                                 \/ (areq'[r].pc = "fresh" /\ areq[r].pc = "fresh")
      <3>1. FreshRequest \in RequestRow /\ [FreshRequest EXCEPT !.pc = "done"] \in RequestRow
            /\ FreshRequest.pc = "fresh" /\ [FreshRequest EXCEPT !.pc = "done"].pc = "done"
        BY DEF RequestRow, FreshRequest
      <3> QED BY <2>0, <3>1
    <2>3. IdentityTyped'
      BY <1>0, <2>0, <2>1, <2>2 DEF IdentityTyped, IdentityTypeOK, BootRow, RequestRow
    <2>4. MemoryOK'
      <3>1. \A b \in Boots : BootOK(b)'
        <4>1. IsFiniteSet({})
          BY FS_EmptySet
        <4>2. /\ NoBoot.staged = {} /\ NoBoot.open = {}
              /\ NoBoot.first = None /\ NoBoot.verified = FALSE
          BY DEF NoBoot
        <4> QED BY <2>1, <4>1, <4>2 DEF BootOK
      <3>2. \A r \in Requests : RequestOK(r)'
        BY <1>0, <2>0, <2>2 DEF MemoryOK, RequestOK
      <3> QED BY <2>0, <2>2, <3>1, <3>2 DEF MemoryOK
    <2>5. FounderOK' /\ RecoverableOK' /\ NothingSurvivesRecovery'
      BY <1>0, <2>0 DEF FounderOK, RecoverableOK, founderCredentials, NothingSurvivesRecovery
    <2> QED BY <2>3, <2>4, <2>5 DEF IdentityInv
  <1>3. CASE CodeExpires
    <2>0. /\ UNCHANGED <<lock, founders, credential, session, issued, keyHash, boot, logins, areq>>
          /\ code' = [code EXCEPT !.expired = TRUE] /\ code # NoCode
      BY <1>3 DEF CodeExpires, memory
    <2>1. code' \in [id : 0 .. MaxCodes, expired : BOOLEAN] /\ code'.id = code.id /\ code'.id # 0
      BY <1>0, <2>0 DEF FounderOK
    <2>2. IdentityTyped' /\ FounderOK'
      BY <1>0, <2>0, <2>1 DEF IdentityTyped, IdentityTypeOK, FounderOK, NoCode
    <2>3. MemoryOK'
      BY <1>0, <2>0 DEF MemoryOK, BootOK, RequestOK, Ready
    <2>4. RecoverableOK' /\ NothingSurvivesRecovery'
      BY <1>0, <2>0 DEF RecoverableOK, founderCredentials, NothingSurvivesRecovery
    <2> QED BY <2>2, <2>3, <2>4 DEF IdentityInv
  <1> QED BY <1>1, <1>2, <1>3

-----------------------------------------------------------------------------
(* A step that moves one ceremony.                                         *)
LEMMA BootMoves ==
    ASSUME IdentityInv, NEW b \in Boots,
           boot' \in [Boots -> BootRow], \A a \in Boots : a # b => boot'[a] = boot[a],
           BootOK(b)', Ready(b) => Ready(b)',
           UNCHANGED <<lock, tables, logins, areq, handoffs>>
    PROVE  IdentityInv'
  <1> USE DEF tables
  <1>1. IdentityTyped'
    BY DEF IdentityInv, IdentityTyped, IdentityTypeOK, BootRow
  <1>2. MemoryOK'
    <2>1. \A a \in Boots : BootOK(a)' /\ (Ready(a) => Ready(a)')
      BY DEF IdentityInv, MemoryOK, BootOK, Ready
    <2>2. ASSUME NEW r \in Requests PROVE RequestOK(r)'
      <3>1. RequestOK(r)
        BY DEF IdentityInv, MemoryOK
      <3>2. areq[r].pc = "complete" => Ready(areq[r].boot)' \/ founders' # {}
        BY <2>1, <3>1 DEF RequestOK, Ready
      <3> QED BY <3>1, <3>2 DEF RequestOK, Ready
    <2> QED BY <2>1, <2>2 DEF IdentityInv, MemoryOK
  <1>3. FounderOK' /\ RecoverableOK' /\ NothingSurvivesRecovery'
    BY DEF IdentityInv, FounderOK, RecoverableOK, founderCredentials, NothingSurvivesRecovery
  <1> QED BY <1>1, <1>2, <1>3 DEF IdentityInv

(* The ceremony of an enrolment: it opens, registrations open, are refused *)
(* or staged, and the method of recovery is chosen once.                   *)
LEMMA BootSteps ==
    ASSUME IdentityInv, UNCHANGED handoffs,
           \/ \E b \in Boots : Begin(b) \/ BeginBootstrapRegistration(b)
           \/ \E b \in Boots : BeginRecovery(b, "passkey") \/ BeginRecovery(b, "offline_key")
           \/ \E b \in Boots, kind \in {"first", "recovery"} :
                  \/ RegistrationRefused(b, kind)
                  \/ \E c \in Creds : FinishRegistration(b, kind, c)
    PROVE  IdentityInv'
  <1> USE IdentityAssumption
  <1>0. /\ boot \in [Boots -> BootRow] /\ code \in [id : 0 .. MaxCodes, expired : BOOLEAN]
        /\ \A b \in Boots : BootOK(b)
    BY DEF IdentityInv, IdentityTyped, IdentityTypeOK, BootRow, MemoryOK
  <1>1. ASSUME NEW b \in Boots, Begin(b) PROVE IdentityInv'
    <2> USE <1>1 DEF Begin
    <2> DEFINE row == [boot[b] EXCEPT !.code = code.id]
    <2>1. boot' = [boot EXCEPT ![b] = row]
      BY <1>0
    <2>2. /\ row \in BootRow /\ row.staged = boot[b].staged /\ row.first = boot[b].first
          /\ row.open = boot[b].open /\ row.verified = boot[b].verified /\ row.method = boot[b].method
      BY <1>0 DEF BootRow
    <2> HIDE DEF row
    <2>3. /\ boot' \in [Boots -> BootRow] /\ boot'[b] = row
          /\ \A a \in Boots : a # b => boot'[a] = boot[a]
      BY <1>0, <2>1, <2>2
    <2>4. BootOK(b)' /\ (Ready(b) => Ready(b)')
      BY <1>0, <2>2, <2>3 DEF BootOK, Ready
    <2> QED BY <2>3, <2>4, BootMoves
  <1>2. ASSUME NEW b \in Boots, BeginBootstrapRegistration(b) PROVE IdentityInv'
    <2> USE <1>2 DEF BeginBootstrapRegistration
    <2> DEFINE row == [boot[b] EXCEPT !.open = @ \cup {"first"}]
    <2>1. boot' = [boot EXCEPT ![b] = row]
      BY <1>0
    <2>2. /\ row \in BootRow /\ row.staged = boot[b].staged /\ row.first = boot[b].first
          /\ row.open = boot[b].open \cup {"first"}
          /\ row.verified = boot[b].verified /\ row.method = boot[b].method
      BY <1>0 DEF BootRow
    <2> HIDE DEF row
    <2>3. /\ boot' \in [Boots -> BootRow] /\ boot'[b] = row
          /\ \A a \in Boots : a # b => boot'[a] = boot[a]
      BY <1>0, <2>1, <2>2
    <2>4. BootOK(b)' /\ (Ready(b) => Ready(b)')
      BY <1>0, <2>2, <2>3 DEF BootOK, Ready
    <2> QED BY <2>3, <2>4, BootMoves
  <1>3. ASSUME NEW b \in Boots, NEW method \in {"passkey", "offline_key"}, BeginRecovery(b, method)
        PROVE  IdentityInv'
    <2> USE <1>3 DEF BeginRecovery
    <2> DEFINE row == [boot[b] EXCEPT !.method = method,
                           !.open = IF method = "passkey" THEN @ \cup {"recovery"} ELSE @]
    <2>1. boot' = [boot EXCEPT ![b] = row]
      BY <1>0
    <2>2. /\ row \in BootRow /\ row.staged = boot[b].staged /\ row.first = boot[b].first
          /\ row.open \subseteq boot[b].open \cup {"recovery"}
          /\ row.verified = boot[b].verified /\ row.method = method
      BY <1>0 DEF BootRow
    <2> HIDE DEF row
    <2>3. /\ boot' \in [Boots -> BootRow] /\ boot'[b] = row
          /\ \A a \in Boots : a # b => boot'[a] = boot[a]
      BY <1>0, <2>1, <2>2
    <2>4. BootOK(b)' /\ (Ready(b) => Ready(b)')
      BY <1>0, <2>2, <2>3 DEF BootOK, Ready
    <2> QED BY <2>3, <2>4, BootMoves
  <1>4. ASSUME NEW b \in Boots, NEW kind \in {"first", "recovery"}, RegistrationRefused(b, kind)
        PROVE  IdentityInv'
    <2> USE <1>4 DEF RegistrationRefused
    <2> DEFINE row == [boot[b] EXCEPT !.open = @ \ {kind}]
    <2>1. boot' = [boot EXCEPT ![b] = row]
      BY <1>0
    <2>2. /\ row \in BootRow /\ row.staged = boot[b].staged /\ row.first = boot[b].first
          /\ row.open \subseteq boot[b].open
          /\ row.verified = boot[b].verified /\ row.method = boot[b].method
      BY <1>0 DEF BootRow
    <2> HIDE DEF row
    <2>3. /\ boot' \in [Boots -> BootRow] /\ boot'[b] = row
          /\ \A a \in Boots : a # b => boot'[a] = boot[a]
      BY <1>0, <2>1, <2>2
    <2>4. BootOK(b)' /\ (Ready(b) => Ready(b)')
      BY <1>0, <2>2, <2>3 DEF BootOK, Ready
    <2> QED BY <2>3, <2>4, BootMoves
  <1>5. ASSUME NEW b \in Boots, NEW kind \in {"first", "recovery"}, NEW c \in Creds,
               FinishRegistration(b, kind, c)
        PROVE  IdentityInv'
    <2> USE <1>5 DEF FinishRegistration, Stage
    <2> DEFINE row == [boot[b] EXCEPT !.open = @ \ {kind},
                           !.first = IF kind = "first" THEN c ELSE @,
                           !.verified = @ \/ kind = "recovery",
                           !.staged = @ \cup {c}]
    <2>1. boot' = [boot EXCEPT ![b] = row]
      BY <1>0
    <2>2. boot[b] \in BootRow
      BY <1>0
    <2>3. /\ row.staged = boot[b].staged \cup {c}
          /\ row.first = IF kind = "first" THEN c ELSE boot[b].first
          /\ row.open = boot[b].open \ {kind}
          /\ row.verified = (boot[b].verified \/ kind = "recovery")
          /\ row.method = boot[b].method
      BY <2>2 DEF BootRow
    <2>4. row \in BootRow
      <3>1. (boot[b].verified \/ kind = "recovery") \in BOOLEAN
        BY <2>2 DEF BootRow
      <3>2. (IF kind = "first" THEN c ELSE boot[b].first) \in Creds \cup {None}
        BY <2>2 DEF BootRow
      <3> QED BY <2>2, <3>1, <3>2 DEF BootRow
    <2> HIDE DEF row
    <2>0. /\ c \notin boot[b].staged /\ kind \in boot[b].open
          /\ UNCHANGED <<lock, tables, logins, areq, handoffs>>
      OBVIOUS
    <2> HIDE <1>5 DEF FinishRegistration, Stage
    <2>5. /\ boot' \in [Boots -> BootRow] /\ boot'[b] = row
          /\ \A a \in Boots : a # b => boot'[a] = boot[a]
      BY <1>0, <2>1, <2>4
    <2>6. IsFiniteSet(boot[b].staged \cup {c})
      <3>1. IsFiniteSet(boot[b].staged)
        BY <1>0 DEF BootOK
      <3> QED BY <3>1, FS_AddElement
    <2>7. kind = "recovery" => boot[b].first \in boot[b].staged /\ boot[b].first # c
      BY <1>0, <2>0 DEF BootOK
    <2>8. BootOK(b)'
      <3>1. IsFiniteSet(row.staged)
        BY <2>3, <2>6
      <3>2. row.first # None => row.first \in row.staged
        BY <1>0, <2>3 DEF BootOK
      <3>3. "recovery" \in row.open => row.first # None
        BY <1>0, <2>3 DEF BootOK
      <3>4. ASSUME row.verified PROVE \E x, y \in row.staged : x # y
        <4>1. CASE kind = "recovery"
          BY <2>3, <2>7, <4>1
        <4>2. CASE boot[b].verified
          BY <1>0, <2>3, <4>2 DEF BootOK
        <4> QED BY <2>3, <3>4, <4>1, <4>2
      <3> QED BY <2>5, <3>1, <3>2, <3>3, <3>4 DEF BootOK
    <2>9. Ready(b) => Ready(b)'
      BY <2>3, <2>5 DEF Ready
    <2> QED BY <2>0, <2>5, <2>8, <2>9, BootMoves
  <1> QED BY <1>1, <1>2, <1>3, <1>4, <1>5

-----------------------------------------------------------------------------
(* A step that moves one request, and ceremonies only when there is a      *)
(* founder.                                                                *)
LEMMA RequestMoves ==
    ASSUME IdentityInv, NEW r \in Requests,
           areq' \in [Requests -> RequestRow], \A q \in Requests : q # r => areq'[q] = areq[q],
           RequestOK(r)', lock = "server", logins' \subseteq founders,
           boot' \in [Boots -> BootRow], \A b \in Boots : BootOK(b)',
           founders # {} \/ boot' = boot,
           UNCHANGED <<lock, tables, handoffs>>
    PROVE  IdentityInv'
  <1> USE DEF tables
  <1>1. IdentityTyped'
    BY DEF IdentityInv, IdentityTyped, IdentityTypeOK, BootRow, RequestRow
  <1>2. MemoryOK'
    <2>1. ASSUME NEW q \in Requests, q # r PROVE RequestOK(q)'
      <3>1. RequestOK(q) /\ areq'[q] = areq[q]
        BY <2>1 DEF IdentityInv, MemoryOK
      <3>2. areq[q].pc = "complete" => Ready(areq[q].boot)' \/ founders' # {}
        BY <3>1 DEF RequestOK, Ready
      <3> QED BY <3>1, <3>2 DEF RequestOK, Ready
    <2> QED BY <2>1 DEF MemoryOK
  <1>3. FounderOK' /\ RecoverableOK'
    BY DEF IdentityInv, FounderOK, RecoverableOK, founderCredentials
  <1>4. NothingSurvivesRecovery'
    BY DEF IdentityInv, NothingSurvivesRecovery
  <1> QED BY <1>1, <1>2, <1>3, <1>4 DEF IdentityInv

(* Done ends a request.                                                    *)
LEMMA DoneStep ==
    ASSUME IdentityInv, NEW r \in Requests, Done(r)
    PROVE  /\ areq' \in [Requests -> RequestRow] /\ areq'[r].pc = "done"
           /\ \A q \in Requests : q # r => areq'[q] = areq[q]
  <1>1. areq \in [Requests -> RequestRow]
    BY DEF IdentityInv, IdentityTyped, IdentityTypeOK, RequestRow
  <1>2. /\ [FreshRequest EXCEPT !.pc = "done"] \in RequestRow
        /\ [FreshRequest EXCEPT !.pc = "done"].pc = "done"
    BY IdentityAssumption DEF RequestRow, FreshRequest
  <1> QED BY <1>1, <1>2 DEF Done

(* The steps of a request that do not write the tables.                    *)
LEMMA RequestSteps ==
    ASSUME IdentityInv, UNCHANGED handoffs,
           \/ \E r \in Requests, b \in Boots : CompleteChecks(r, b)
           \/ \E r \in Requests : CompleteFails(r) \/ CompleteDrops(r) \/ AssertionFails(r)
           \/ \E f \in Founders : BeginLogin(f) \/ LoginRefused(f)
           \/ \E r \in Requests, c \in Creds, n \in 0 .. MaxSignCount :
                  FinishLoginVerifies(r, c, n) \/ FinishDecisionVerifies(r, c, n)
    PROVE  IdentityInv'
  <1> USE IdentityAssumption
  <1>0. /\ areq \in [Requests -> RequestRow] /\ boot \in [Boots -> BootRow]
        /\ credential \in [Creds -> CredentialRow]
        /\ \A b \in Boots : BootOK(b)
        /\ \A r \in Requests : RequestOK(r)
        /\ logins \subseteq founders
        /\ lock # "server" => logins = {} /\ \A r \in Requests : areq[r].pc \in {"fresh", "done"}
    BY DEF IdentityInv, IdentityTyped, IdentityTypeOK, RequestRow, BootRow, CredentialRow, MemoryOK
  <1>1. ASSUME NEW r \in Requests, NEW b \in Boots, CompleteChecks(r, b) PROVE IdentityInv'
    <2> DEFINE row == [areq[r] EXCEPT !.pc = "complete", !.boot = b]
    <2>1. /\ areq' = [areq EXCEPT ![r] = row] /\ lock = "server" /\ areq[r].pc = "fresh" /\ Ready(b)
          /\ UNCHANGED <<lock, tables, boot, logins>>
      <3>1. /\ areq[r] = FreshRequest /\ lock = "server" /\ Ready(b)
            /\ UNCHANGED <<lock, tables, boot, logins>>
        BY <1>1 DEF CompleteChecks, LiveBoot, Serving, Ready
      <3>2. areq' = [areq EXCEPT ![r] = row]
        BY <1>0, <1>1 DEF CompleteChecks
      <3>3. FreshRequest.pc = "fresh"
        BY DEF FreshRequest
      <3> QED BY <3>1, <3>2, <3>3
    <2>2. row \in RequestRow /\ row.pc = "complete" /\ row.boot = b
      BY <1>0 DEF RequestRow
    <2> HIDE DEF row
    <2>3. /\ areq' \in [Requests -> RequestRow] /\ areq'[r] = row
          /\ \A q \in Requests : q # r => areq'[q] = areq[q]
      BY <1>0, <2>1, <2>2
    <2>4. RequestOK(r)'
      BY <1>0, <2>1, <2>2, <2>3 DEF RequestOK, Ready, tables
    <2>5. \A a \in Boots : BootOK(a)'
      BY <1>0, <2>1 DEF BootOK
    <2> QED BY <1>0, <2>1, <2>3, <2>4, <2>5, RequestMoves
  <1>2. ASSUME NEW r \in Requests, CompleteFails(r) \/ AssertionFails(r) PROVE IdentityInv'
    <2>1. /\ Done(r) /\ areq[r].pc \in {"complete", "login", "decision"} /\ lock = "server"
          /\ UNCHANGED <<lock, tables, boot, logins>>
      BY <1>0, <1>2 DEF CompleteFails, AssertionFails
    <2>2. RequestOK(r)' /\ \A a \in Boots : BootOK(a)'
      BY <1>0, <2>1, DoneStep DEF RequestOK, BootOK
    <2> QED BY <1>0, <2>1, <2>2, DoneStep, RequestMoves
  <1>3. ASSUME NEW r \in Requests, CompleteDrops(r) PROVE IdentityInv'
    <2>1. /\ Done(r) /\ areq[r].pc = "drop" /\ lock = "server" /\ founders # {}
          /\ boot' = [boot EXCEPT ![areq[r].boot] = NoBoot]
          /\ UNCHANGED <<lock, tables, logins>>
      BY <1>0, <1>3 DEF CompleteDrops, RequestOK
    <2>2. /\ NoBoot \in BootRow /\ NoBoot.staged = {} /\ NoBoot.open = {}
          /\ NoBoot.first = None /\ NoBoot.verified = FALSE
      BY DEF NoBoot, BootRow
    <2>3. boot' \in [Boots -> BootRow] /\ \A a \in Boots : boot'[a] = NoBoot \/ boot'[a] = boot[a]
      BY <1>0, <2>1, <2>2
    <2>4. IsFiniteSet({})
      BY FS_EmptySet
    <2>5. ASSUME NEW a \in Boots PROVE BootOK(a)'
      <3>1. CASE boot'[a] = boot[a]
        BY <1>0, <3>1 DEF BootOK
      <3>2. CASE boot'[a] = NoBoot
        BY <2>2, <2>4, <3>2 DEF BootOK
      <3> QED BY <2>3, <3>1, <3>2
    <2>6. RequestOK(r)'
      BY <2>1, DoneStep DEF RequestOK
    <2> QED BY <1>0, <2>1, <2>3, <2>5, <2>6, DoneStep, RequestMoves
  <1>4. ASSUME NEW f \in Founders, BeginLogin(f) \/ LoginRefused(f) PROVE IdentityInv'
    <2>1. /\ UNCHANGED <<lock, tables, boot, areq, handoffs>> /\ lock = "server"
          /\ logins' \subseteq founders
      BY <1>0, <1>4 DEF BeginLogin, LoginRefused, Serving
    <2> USE DEF tables
    <2>2. IdentityTyped'
      BY <2>1 DEF IdentityInv, IdentityTyped, IdentityTypeOK
    <2>3. MemoryOK'
      BY <2>1 DEF IdentityInv, MemoryOK, BootOK, RequestOK, Ready
    <2>4. FounderOK' /\ RecoverableOK' /\ NothingSurvivesRecovery'
      BY <2>1 DEF IdentityInv, FounderOK, RecoverableOK, founderCredentials, NothingSurvivesRecovery
    <2> QED BY <2>2, <2>3, <2>4 DEF IdentityInv
  <1>5. ASSUME NEW r \in Requests, NEW c \in Creds, NEW n \in 0 .. MaxSignCount,
               NEW pc \in {"login", "decision"}, verifyAssertion(r, pc, c, n),
               credential[c].founder \in founders, lock = "server",
               logins' \subseteq logins, UNCHANGED <<lock, tables, boot>>
        PROVE  IdentityInv'
    <2> DEFINE count == IF n > credential[c].count THEN n ELSE credential[c].count
               row == [areq[r] EXCEPT !.pc = pc, !.cred = c, !.count = count]
    <2>1. areq' = [areq EXCEPT ![r] = row] /\ areq[r].pc = "fresh"
      <3>1. areq[r] = FreshRequest
        BY <1>5 DEF verifyAssertion
      <3>2. areq' = [areq EXCEPT ![r] = row]
        BY <1>0, <1>5 DEF verifyAssertion
      <3>3. FreshRequest.pc = "fresh"
        BY DEF FreshRequest
      <3> QED BY <3>1, <3>2, <3>3
    <2>3. count \in 0 .. MaxSignCount
      BY <1>0 DEF CredentialRow
    <2> HIDE DEF count
    <2>4. row \in RequestRow /\ row.pc = pc /\ row.cred = c
      BY <1>0, <2>3 DEF RequestRow
    <2> HIDE DEF row
    <2>5. /\ areq' \in [Requests -> RequestRow] /\ areq'[r] = row
          /\ \A q \in Requests : q # r => areq'[q] = areq[q]
      BY <1>0, <2>1, <2>4
    <2>6. RequestOK(r)'
      BY <1>0, <1>5, <2>1, <2>4, <2>5 DEF RequestOK, tables
    <2>7. \A a \in Boots : BootOK(a)'
      BY <1>0, <1>5 DEF BootOK
    <2> QED BY <1>0, <1>5, <2>1, <2>5, <2>6, <2>7, RequestMoves
  <1>6. ASSUME NEW r \in Requests, NEW c \in Creds, NEW n \in 0 .. MaxSignCount,
               FinishLoginVerifies(r, c, n)
        PROVE  IdentityInv'
    <2>1. /\ verifyAssertion(r, "login", c, n) /\ credential[c].founder \in logins
          /\ logins' \subseteq logins /\ UNCHANGED <<lock, tables, boot>>
      BY <1>6 DEF FinishLoginVerifies
    <2>2. lock = "server" /\ credential[c].founder \in founders
      BY <1>0, <2>1
    <2> QED BY <1>5, <2>1, <2>2
  <1>7. ASSUME NEW r \in Requests, NEW c \in Creds, NEW n \in 0 .. MaxSignCount,
               FinishDecisionVerifies(r, c, n)
        PROVE  IdentityInv'
    <2>1. /\ verifyAssertion(r, "decision", c, n) /\ lock = "server"
          /\ logins' \subseteq logins /\ UNCHANGED <<lock, tables, boot>>
          /\ \E q \in Requests : session[q].status = "live" /\ session[q].founder = credential[c].founder
      BY <1>7 DEF FinishDecisionVerifies, LiveSession, Serving
    <2>2. credential[c].founder \in founders
      BY <2>1 DEF IdentityInv, NothingSurvivesRecovery
    <2> QED BY <1>5, <2>1, <2>2
  <1> QED BY <1>1, <1>2, <1>3, <1>4, <1>6, <1>7

-----------------------------------------------------------------------------
(* The transaction that enrols: its code was not consumed, so there was no *)
(* founder, no passkey and no recovery key before it.                      *)
LEMMA CompleteStep ==
    ASSUME IdentityInv, UNCHANGED handoffs, NEW r \in Requests, CompleteCommits(r)
    PROVE  IdentityInv'
  <1> USE IdentityAssumption
  <1> DEFINE b == areq[r].boot
             staged == boot[b].staged
  <1>0. /\ areq \in [Requests -> RequestRow] /\ boot \in [Boots -> BootRow]
        /\ session \in [Requests -> SessionRow] /\ credential \in [Creds -> CredentialRow]
        /\ keyHash \in [Founders -> Bytes \cup {None}]
        /\ code \in [id : 0 .. MaxCodes, expired : BOOLEAN]
        /\ areq[r].pc = "complete" /\ RequestOK(r) /\ MemoryOK /\ NothingSurvivesRecovery
    BY DEF CompleteCommits, IdentityInv, IdentityTyped, IdentityTypeOK, RequestRow, BootRow,
           SessionRow, CredentialRow, MemoryOK
  <1>1. /\ founders' = founders \cup {r} /\ code # NoCode /\ code.id = boot[b].code /\ code' = NoCode
        /\ UNCHANGED <<lock, issued, boot, logins, handoffs>>
    BY DEF CompleteCommits, createFounder, ConsumeBootstrapCode
  <1>2. founders = {} /\ code.id # 0 /\ lock = "server" /\ b \in Boots
    BY <1>0, <1>1 DEF IdentityInv, FounderOK, MemoryOK, RequestOK
  <1>3. Ready(b) /\ BootOK(b) /\ staged \subseteq Creds
    BY <1>0, <1>2 DEF RequestOK, MemoryOK, BootRow
  <1>4. /\ \A c \in Creds : credential[c] = NoCredential
        /\ \A f \in Founders : keyHash[f] = None
        /\ handoffs \cap Requests = {} /\ logins = {}
        /\ \A q \in Requests : session[q].status # "live"
    BY <1>0, <1>2 DEF NothingSurvivesRecovery, MemoryOK
  <1>5. /\ credential' \in [Creds -> CredentialRow]
        /\ \A c \in Creds : IF c \in staged THEN credential'[c].founder = r
                              ELSE credential'[c] = NoCredential
    <2>1. PICK count \in [staged -> 0 .. MaxSignCount] :
             credential' = [c \in Creds |-> IF c \in staged THEN [founder |-> r, count |-> count[c]]
                                            ELSE credential[c]]
      BY DEF CompleteCommits, putWebAuthnCredential
    <2>2. \A c \in staged : [founder |-> r, count |-> count[c]] \in CredentialRow
      BY DEF CredentialRow, Founders
    <2> QED BY <1>0, <1>4, <2>1, <2>2
  <1>6. \A c \in Creds : credential'[c].founder = IF c \in staged THEN r ELSE None
    BY <1>5 DEF NoCredential
  <1>7. /\ keyHash' \in [Founders -> Bytes \cup {None}]
        /\ \A f \in Founders : f # r => keyHash'[f] = None
        /\ boot[b].method = "offline_key" => keyHash'[r] # None
    <2>1. CASE boot[b].method # "offline_key"
      BY <1>0, <1>4, <2>1 DEF CompleteCommits
    <2>2. CASE boot[b].method = "offline_key"
      <3> DEFINE k == <<boot[b].code, b>>
      <3>1. DecodeString(Text(k)) = Raw(k)
        BY DEF DecodeString, Text
      <3>2. k \in Keys
        BY <1>0, <1>1, <1>2 DEF Keys
      <3>3. Raw(k) \in Bytes
        BY <3>2 DEF Raw, Bytes
      <3>4. keyHash' = [keyHash EXCEPT ![r] = Raw(k)]
        BY <2>2, <3>1 DEF CompleteCommits, putOfflineRecoveryKey
      <3> HIDE DEF k
      <3> QED BY <1>0, <1>4, <3>3, <3>4 DEF Founders
    <2> QED BY <2>1, <2>2
  <1>8. /\ session' \in [Requests -> SessionRow]
        /\ session'[r].founder = r /\ session'[r].status = "live"
        /\ \A q \in Requests : q # r => session'[q] = session[q]
    BY <1>0 DEF CompleteCommits, createSession, SessionRow, Founders
  <1>9. /\ areq' \in [Requests -> RequestRow]
        /\ areq'[r].pc = "drop" /\ areq'[r].boot = b
        /\ \A q \in Requests : q # r => areq'[q] = areq[q]
    BY <1>0 DEF CompleteCommits, RequestRow
  <1>10. IdentityTyped'
    <2>1. code' \in [id : 0 .. MaxCodes, expired : BOOLEAN]
      BY <1>1 DEF NoCode
    <2>2. founders' \subseteq Founders
      BY <1>1, <1>2 DEF Founders
    <2> QED BY <1>1, <1>5, <1>7, <1>8, <1>9, <2>1, <2>2
            DEF IdentityInv, IdentityTyped, IdentityTypeOK, CredentialRow, SessionRow, RequestRow
  <1>11. FounderOK'
    BY <1>1, <1>2 DEF FounderOK, Founders
  <1>12. MemoryOK'
    <2>1. \A a \in Boots : BootOK(a)'
      BY <1>0, <1>1 DEF MemoryOK, BootOK
    <2>2. ASSUME NEW q \in Requests PROVE RequestOK(q)'
      <3>1. CASE q = r
        BY <1>1, <1>2, <1>9, <3>1 DEF RequestOK
      <3>2. CASE q # r
        <4>1. RequestOK(q) /\ areq'[q] = areq[q] /\ session'[q] = session[q]
          BY <1>0, <1>8, <1>9, <3>2 DEF MemoryOK
        <4>2. areq[q].pc \notin {"login", "decision"}
          BY <1>2, <4>1 DEF RequestOK
        <4> QED BY <1>1, <4>1, <4>2 DEF RequestOK
      <3> QED BY <3>1, <3>2
    <2> QED BY <1>1, <1>2, <1>4, <2>1, <2>2 DEF MemoryOK
  <1>13. RecoverableOK'
    <2>1. founders' = {r}
      BY <1>1, <1>2
    <2>2. founderCredentials(r)' = staged
      BY <1>3, <1>6 DEF founderCredentials
    <2>3. IsFiniteSet(staged) /\ staged # {}
      BY <1>3 DEF BootOK, Ready
    <2>4. keyHash'[r] # None \/ \E c, d \in staged : c # d
      BY <1>3, <1>7 DEF BootOK, Ready
    <2> QED BY <2>1, <2>2, <2>3, <2>4 DEF RecoverableOK
  <1>14. NothingSurvivesRecovery'
    <2>1. founders' = {r}
      BY <1>1, <1>2
    <2>2. \A q \in Requests : session'[q].status = "live" => session'[q].founder \in founders'
      BY <1>4, <1>8, <2>1
    <2>3. \A q \in handoffs' : session'[q].founder \in founders'
      BY <1>0, <1>1, <1>2, <1>8, <2>1 DEF NothingSurvivesRecovery
    <2>4. \A c \in Creds : credential'[c] # NoCredential => credential'[c].founder \in founders'
      BY <1>5, <2>1
    <2>5. \A f \in Founders \ founders' : keyHash'[f] = None
      BY <1>7, <2>1
    <2> QED BY <2>2, <2>3, <2>4, <2>5 DEF NothingSurvivesRecovery
  <1> QED BY <1>10, <1>11, <1>12, <1>13, <1>14 DEF IdentityInv

(* The transaction that writes the counter of an assertion, with or        *)
(* without a session: the passkey belongs to a founder.                    *)
LEMMA AssertionStep ==
    ASSUME IdentityInv, UNCHANGED handoffs, NEW r \in Requests,
           areq[r].pc \in {"login", "decision"},
           UpdateWebAuthnCredentialSignCount(areq[r].cred, areq[r].count),
           session' = session \/ createSession(r, credential[areq[r].cred].founder),
           Done(r), UNCHANGED <<lock, founders, code, issued, keyHash, boot, logins>>
    PROVE  IdentityInv'
  <1> USE IdentityAssumption
  <1> DEFINE c == areq[r].cred
             f == credential[c].founder
  <1>0. /\ areq \in [Requests -> RequestRow]
        /\ session \in [Requests -> SessionRow] /\ credential \in [Creds -> CredentialRow]
        /\ RequestOK(r) /\ MemoryOK /\ NothingSurvivesRecovery /\ founders \subseteq Founders
    BY DEF IdentityInv, IdentityTyped, IdentityTypeOK, RequestRow,
           SessionRow, CredentialRow, MemoryOK
  <1>1. c \in Creds /\ f \in founders /\ lock = "server"
    BY <1>0 DEF RequestOK, MemoryOK
  <1>2. /\ credential' \in [Creds -> CredentialRow]
        /\ \A d \in Creds : credential'[d].founder = credential[d].founder
    <2>1. credential' = [credential EXCEPT ![c].count = IF areq[r].count > 0 THEN areq[r].count ELSE @]
      BY DEF UpdateWebAuthnCredentialSignCount
    <2>2. areq[r].count \in 0 .. MaxSignCount
      BY <1>0 DEF RequestRow
    <2> DEFINE row == [credential[c] EXCEPT !.count = IF areq[r].count > 0 THEN areq[r].count ELSE @]
    <2>3. credential[c] \in CredentialRow /\ credential' = [credential EXCEPT ![c] = row]
      BY <1>0, <1>1, <2>1
    <2>4. row \in CredentialRow /\ row.founder = f
      BY <2>2, <2>3 DEF CredentialRow
    <2> HIDE DEF row
    <2> QED BY <1>0, <1>1, <2>3, <2>4
  <1>3. /\ session' \in [Requests -> SessionRow]
        /\ session'[r] = session[r] \/ session'[r].founder = f
        /\ \A q \in Requests : q # r => session'[q] = session[q]
    BY <1>0, <1>1 DEF createSession, SessionRow
  <1>4. /\ areq' \in [Requests -> RequestRow] /\ areq'[r].pc = "done"
        /\ \A q \in Requests : q # r => areq'[q] = areq[q]
    BY <1>0, DoneStep
  <1>5. IdentityTyped' /\ FounderOK'
    BY <1>0, <1>2, <1>3, <1>4
    DEF IdentityInv, IdentityTyped, IdentityTypeOK, CredentialRow, SessionRow, RequestRow, FounderOK
  <1>6. MemoryOK'
    <2>1. \A a \in Boots : BootOK(a)'
      BY <1>0 DEF MemoryOK, BootOK
    <2>2. ASSUME NEW q \in Requests PROVE RequestOK(q)'
      <3>1. CASE q = r
        BY <1>4, <3>1 DEF RequestOK
      <3>2. CASE q # r
        <4>1. RequestOK(q) /\ areq'[q] = areq[q] /\ session'[q] = session[q]
          BY <1>0, <1>3, <1>4, <3>2 DEF MemoryOK
        <4> QED BY <1>0, <1>2, <4>1 DEF RequestOK, Ready
      <3> QED BY <3>1, <3>2
    <2> QED BY <1>0, <1>1, <2>1, <2>2 DEF MemoryOK
  <1>7. RecoverableOK'
    <2>1. \A g \in founders : founderCredentials(g)' = founderCredentials(g)
      BY <1>2 DEF founderCredentials
    <2>2. RecoverableOK
      BY DEF IdentityInv
    <2> HIDE DEF c, f
    <2> QED BY <1>0, <2>1, <2>2 DEF RecoverableOK
  <1>8. NothingSurvivesRecovery'
    <2>1. \A q \in Requests : session'[q].status = "live" => session'[q].founder \in founders'
      BY <1>0, <1>1, <1>3 DEF NothingSurvivesRecovery
    <2>2. \A q \in handoffs' : session'[q].founder \in founders'
      <3>1. handoffs' = handoffs
        OBVIOUS
      <3>2. ASSUME NEW q \in handoffs, q # r PROVE session'[q] = session[q]
        <4>1. CASE q \in Requests
          BY <1>3, <3>2, <4>1
        <4>2. CASE q \notin Requests
          <5>1. CASE createSession(r, f)
            BY <1>0, <3>2, <4>2, <5>1 DEF createSession
          <5> QED BY <5>1
        <4> QED BY <4>1, <4>2
      <3>3. \A q \in handoffs : session[q].founder \in founders
        BY <1>0 DEF NothingSurvivesRecovery
      <3>4. session'[r].founder \in founders \/ session'[r] = session[r]
        BY <1>1, <1>3
      <3> HIDE DEF f
      <3> QED BY <3>1, <3>2, <3>3, <3>4
    <2>3. \A d \in Creds : credential'[d] # NoCredential => credential'[d].founder \in founders'
      <3> SUFFICES ASSUME NEW d \in Creds, credential'[d] # NoCredential
                   PROVE  credential[d].founder \in founders
        BY <1>0, <1>2
      <3>1. CASE d = c
        BY <1>1, <3>1
      <3>2. CASE d # c
        <4>1. credential'[d] = credential[d]
          BY <1>0, <3>2 DEF UpdateWebAuthnCredentialSignCount
        <4> QED BY <1>0, <4>1 DEF NothingSurvivesRecovery
      <3> QED BY <3>1, <3>2
    <2> QED BY <1>0, <2>1, <2>2, <2>3 DEF NothingSurvivesRecovery
  <1> QED BY <1>5, <1>6, <1>7, <1>8 DEF IdentityInv

(* The steps of the server, the enrolment and the login.                   *)
LEMMA IdentitySteps ==
    ASSUME IInv, IdentityNext, UNCHANGED <<recoveryVars, handoffs, upstreamVars>>
    PROVE  IInv'
  <1>1. IdentityInv'
    <2>1. ASSUME NEW r \in Requests, FinishLoginCommits(r) \/ FinishDecisionCommits(r)
          PROVE  IdentityInv'
      BY <2>1, AssertionStep DEF FinishLoginCommits, FinishDecisionCommits, IInv
    <2> QED BY <2>1, ServerSteps, BootSteps, RequestSteps, CompleteStep DEF IInv, IdentityNext
  <1>2. lock' = "recover" <=> lock = "recover"
    BY DEF IdentityNext, StartServer, StopServer, Serving, CodeExpires, Begin,
           BeginBootstrapRegistration, BeginRecovery, RegistrationRefused, FinishRegistration,
           CompleteChecks, CompleteCommits, CompleteFails, CompleteDrops, FinishLoginCommits,
           FinishDecisionCommits, AssertionFails, BeginLogin, LoginRefused, FinishLoginVerifies,
           FinishDecisionVerifies
  <1>3. RecoveryInv'
    BY <1>2, RecoveryFrame DEF IInv, RecoveryInv, RecoveryTyped, recoveryVars, upstreamVars
  <1> QED BY <1>1, <1>3 DEF IInv

-----------------------------------------------------------------------------
(* The founder's tables and the memory of the server do not change when a  *)
(* recovery takes or frees the lock.                                       *)
LEMMA IdentityFrame ==
    ASSUME IdentityInv, UNCHANGED <<tables, memory>>,
           lock' = lock \/ (lock # "server" /\ lock' \in {"none", "recover"}),
           \A r \in handoffs' : r \in handoffs \/ session[r].founder \in founders
    PROVE  IdentityInv'
  <1> USE DEF tables, memory
  <1>1. IdentityTyped' /\ FounderOK'
    BY DEF IdentityInv, IdentityTyped, IdentityTypeOK, FounderOK
  <1>2. MemoryOK'
    BY DEF IdentityInv, MemoryOK, BootOK, RequestOK, Ready
  <1>3. RecoverableOK' /\ NothingSurvivesRecovery'
    BY DEF IdentityInv, RecoverableOK, founderCredentials, NothingSurvivesRecovery
  <1> QED BY <1>1, <1>2, <1>3 DEF IdentityInv

(* The workspace while the server runs: missions start and end, and        *)
(* hand-offs are opened by live sessions.                                  *)
LEMMA WorkspaceSteps ==
    ASSUME IInv,
           \/ \E m \in Missions : ApproveMission(m) \/ MissionEnds(m)
           \/ \E r \in Requests : OpenHandoff(r)
    PROVE  IInv'
  <1>0. /\ IdentityInv /\ RecoveryTyped /\ ProcessOK /\ \A k \in Keys : IntentOK(k)
    BY DEF IInv, RecoveryInv
  <1>1. ASSUME NEW r \in Requests, OpenHandoff(r) PROVE IInv'
    <2>1. /\ UNCHANGED <<lock, tables, memory, intent, rproc, mission, containment>>
          /\ handoffs' = handoffs \cup {r} /\ session[r].founder \in founders
      BY <1>0, <1>1 DEF OpenHandoff, LiveSession, identityVars, recoveryVars, upstreamVars,
                        IdentityInv, NothingSurvivesRecovery
    <2>2. handoffs' \subseteq Requests
      BY <1>0, <2>1 DEF RecoveryTyped
    <2>3. RecoveryInv'
      BY <2>1, <2>2, RecoveryFrame DEF IInv
    <2>4. IdentityInv'
      BY <1>0, <2>1, IdentityFrame
    <2> QED BY <2>3, <2>4 DEF IInv
  <1>2. ASSUME NEW m \in Missions, ApproveMission(m) \/ MissionEnds(m) PROVE IInv'
    <2>1. /\ UNCHANGED <<lock, tables, memory, intent, rproc, handoffs, containment>>
      BY <1>2 DEF ApproveMission, MissionEnds, identityVars, recoveryVars
    <2>2. PICK to \in {"active", "ended"} :
              /\ mission' = [mission EXCEPT ![m] = to]
              /\ to = "active" => mission[m] = "none" /\ lock = "server"
              /\ to = "ended" => mission[m] # "none"
      BY <1>2 DEF ApproveMission, MissionEnds, ActiveMissions, LiveSession, Serving
    <2>3. /\ mission' \in [Missions -> {"none", "active", "contained", "ended"}]
          /\ mission'[m] = to /\ \A n \in Missions : n # m => mission'[n] = mission[n]
      BY <1>0, <2>2 DEF RecoveryTyped
    <2>4. IsFiniteSet({n \in Missions : mission'[n] # "none"})
      <3> DEFINE S == {n \in Missions : mission[n] # "none"}
      <3>1. IsFiniteSet(S)
        BY <1>0 DEF RecoveryTyped
      <3>2. IsFiniteSet(S \cup {m})
        BY <3>1, FS_AddElement
      <3>3. {n \in Missions : mission'[n] # "none"} = S \cup {m}
        BY <2>2, <2>3
      <3> QED BY <3>2, <3>3
    <2>5. RecoveryTyped'
      BY <1>0, <2>1, <2>3, <2>4 DEF RecoveryTyped
    <2>6. ASSUME NEW k \in Keys PROVE IntentOK(k)'
      <3>1. IntentOK(k) /\ containment[k].covered \subseteq Missions
        BY <1>0 DEF RecoveryTyped
      <3>2. \A n \in containment[k].covered : mission'[n] = mission[n] \/ mission'[n] = "ended"
        BY <2>2, <2>3, <3>1 DEF IntentOK
      <3> QED BY <2>1, <3>1, <3>2 DEF IntentOK
    <2>7. ProcessOK'
      <3>1. rproc.pc = "empty" => to = "ended"
        BY <1>0, <2>2 DEF RecoveryTyped
      <3>2. to = "ended" => ActiveMissions' \subseteq ActiveMissions
        BY <2>3 DEF ActiveMissions
      <3> QED BY <1>0, <2>1, <3>1, <3>2 DEF ProcessOK, Key
    <2>8. IdentityInv'
      BY <1>0, <2>1, IdentityFrame
    <2> QED BY <2>5, <2>6, <2>7, <2>8 DEF IInv, RecoveryInv
  <1> QED BY <1>1, <1>2

-----------------------------------------------------------------------------
Intents == [Keys -> [state : IntentStates, attested : BOOLEAN, count : Nat]]

(* A step of the recover process that leaves the authority alone.          *)
LEMMA ProcessMoves ==
    ASSUME IInv, rproc' \in ProcessRow, UNCHANGED <<tables, memory, handoffs, upstreamVars>>,
           lock' = lock \/ (lock # "server" /\ lock' \in {"none", "recover"}),
           lock' = "recover" <=> rproc'.pc # "idle",
           rproc'.pc # "idle" => rproc'.typed \in Bytes,
           intent' \in Intents,
           \A k \in Keys : IntentOK(k)', ProcessOK'
    PROVE  IInv'
  <1>1. IdentityInv'
    BY IdentityFrame DEF IInv
  <1>2. RecoveryTyped'
    BY DEF IInv, RecoveryInv, RecoveryTyped, upstreamVars, Intents
  <1> QED BY <1>1, <1>2 DEF IInv, RecoveryInv

(* RGoto keeps what the process was started with.                          *)
LEMMA RGotoStep ==
    ASSUME rproc \in ProcessRow,
           NEW label \in {"baseline", "acknowledged", "reconcile", "await", "empty", "reset", "deliver"},
           RGoto(label)
    PROVE  /\ rproc' \in ProcessRow /\ rproc'.pc = label
           /\ rproc'.typed = rproc.typed /\ Key' = Key
  BY DEF RGoto, ProcessRow, Key

(* The command starts, with a key that is refused or verified, and ends.   *)
LEMMA CommandSteps ==
    ASSUME IInv,
           \/ \E typed \in Bytes : RecoverRefuses(typed) \/ RecoverVerifies(typed)
           \/ RecoverEnds
    PROVE  IInv'
  <1> USE IdentityAssumption
  <1>0. /\ RecoveryTyped /\ (\A k \in Keys : IntentOK(k)) /\ founders \subseteq Founders
        /\ intent \in Intents
        /\ lock = "recover" <=> rproc.pc # "idle"
    BY DEF IInv, RecoveryInv, RecoveryTyped, Intents, IdentityInv, IdentityTyped, IdentityTypeOK
  <1>1. ASSUME NEW typed \in Bytes, RecoverRefuses(typed) PROVE IInv'
    <2>1. PICK f \in founders : rproc' = [NoProcess EXCEPT !.pc = "refused", !.founder = f,
                                                          !.typed = typed]
      BY <1>1 DEF RecoverRefuses
    <2>2. rproc' \in ProcessRow /\ rproc'.pc = "refused" /\ rproc'.typed = typed
      BY <1>0, <2>1 DEF ProcessRow, NoProcess
    <2>3. /\ lock = "none" /\ lock' = "recover"
          /\ UNCHANGED <<tables, memory, intent, handoffs, upstreamVars>>
      BY <1>1 DEF RecoverRefuses
    <2>5. (\A k \in Keys : IntentOK(k)') /\ ProcessOK'
      BY <1>0, <2>2, <2>3 DEF IntentOK, ProcessOK, upstreamVars
    <2> QED BY <1>0, <2>2, <2>3, <2>5, ProcessMoves
  <1>2. ASSUME NEW typed \in Bytes, RecoverVerifies(typed) PROVE IInv'
    <2> DEFINE key == typed.key
               row == intent[key]
    <2>1. PICK f \in founders :
              /\ row.state # "completed"
              /\ rproc' = [pc |-> Resume(row.state), founder |-> f, typed |-> typed,
                           count |-> row.count]
      BY <1>2 DEF RecoverVerifies
    <2>2. key \in Keys
      BY DEF Bytes
    <2>3. row.state \in IntentStates /\ row.count \in Nat
      BY <1>0, <2>2 DEF Intents
    <2>4. Resume(row.state) \in {"attest", "await", "reset"}
      BY <2>1, <2>3 DEF Resume, IntentStates
    <2>5. /\ rproc' \in ProcessRow /\ rproc'.pc \in {"attest", "await", "reset"}
          /\ rproc'.typed = typed
      BY <1>0, <2>1, <2>3, <2>4 DEF ProcessRow
    <2>6. /\ lock = "none" /\ lock' = "recover"
          /\ UNCHANGED <<tables, memory, handoffs, upstreamVars>>
          /\ intent' = [intent EXCEPT ![key].state = IF @ = "none" THEN "pending" ELSE @]
      BY <1>2 DEF RecoverVerifies
    <2>8. /\ intent' \in Intents
          /\ \A k \in Keys : intent'[k].state = intent[k].state \/ intent'[k].state = "pending"
      <3> DEFINE new == [row EXCEPT !.state = IF @ = "none" THEN "pending" ELSE @]
      <3>1. /\ new \in [state : IntentStates, attested : BOOLEAN, count : Nat]
            /\ new.state = row.state \/ new.state = "pending"
        BY <1>0, <2>2 DEF Intents, IntentStates
      <3>2. intent' = [intent EXCEPT ![key] = new]
        BY <1>0, <2>2, <2>6 DEF Intents
      <3> HIDE DEF new
      <3> QED BY <1>0, <2>2, <3>1, <3>2 DEF Intents
    <2>9. (\A k \in Keys : IntentOK(k)') /\ ProcessOK'
      BY <1>0, <2>5, <2>6, <2>8 DEF IntentOK, ProcessOK, upstreamVars
    <2> HIDE DEF key, row
    <2> QED BY <1>0, <2>5, <2>6, <2>8, <2>9, ProcessMoves
  <1>3. CASE RecoverEnds
    <2>1. /\ rproc' = NoProcess /\ lock = "recover" /\ lock' = "none"
          /\ UNCHANGED <<tables, memory, intent, handoffs, upstreamVars>>
      BY <1>3 DEF RecoverEnds
    <2>2. rproc' \in ProcessRow /\ rproc'.pc = "idle"
      BY <2>1 DEF ProcessRow, NoProcess
    <2>3. (\A k \in Keys : IntentOK(k)') /\ ProcessOK'
      BY <1>0, <2>1, <2>2 DEF IntentOK, ProcessOK, upstreamVars
    <2> QED BY <1>0, <2>1, <2>2, <2>3, ProcessMoves
  <1> QED BY <1>1, <1>2, <1>3

(* The writes of the intent and the reads of the active missions.          *)
LEMMA IntentSteps ==
    ASSUME IInv,
           \/ SetRecoveryIntentAttestation \/ ListBaseline \/ SetRecoveryIntentContained
           \/ awaitEmptyActiveMissions \/ SetRecoveryIntentVerifiedEmpty
    PROVE  IInv'
  <1>0. /\ RecoveryTyped /\ (\A k \in Keys : IntentOK(k)) /\ ProcessOK
        /\ intent \in Intents /\ rproc \in ProcessRow
        /\ mission \in [Missions -> {"none", "active", "contained", "ended"}]
        /\ containment \in [Keys -> [applied : BOOLEAN, covered : SUBSET Missions]]
        /\ lock = "recover" <=> rproc.pc # "idle"
        /\ rproc.pc # "idle" => rproc.typed \in Bytes
    BY DEF IInv, RecoveryInv, RecoveryTyped, Intents
  <1>1. /\ rproc.pc # "idle" /\ lock = "recover" /\ rproc.typed \in Bytes
        /\ UNCHANGED <<lock, tables, memory, handoffs, upstreamVars>>
    BY <1>0 DEF SetRecoveryIntentAttestation, ListBaseline, SetRecoveryIntentContained,
                awaitEmptyActiveMissions, SetRecoveryIntentVerifiedEmpty, identityVars
  <1>2. Key \in Keys
    BY <1>1 DEF Key, Bytes
  <1>3. UNCHANGED <<mission, containment>> /\ ActiveMissions' = ActiveMissions
    BY <1>1 DEF upstreamVars, ActiveMissions
  <1>4. CASE SetRecoveryIntentAttestation
    <2>1. intent' = [intent EXCEPT ![Key].attested = TRUE] /\ RGoto("baseline")
      BY <1>4 DEF SetRecoveryIntentAttestation
    <2>2. rproc' \in ProcessRow /\ rproc'.pc = "baseline" /\ rproc'.typed = rproc.typed
      BY <1>0, <2>1, RGotoStep
    <2>3. intent' \in Intents /\ \A k \in Keys : intent'[k].state = intent[k].state
      BY <1>0, <1>2, <2>1 DEF Intents
    <2>4. (\A k \in Keys : IntentOK(k)') /\ ProcessOK'
      BY <1>0, <1>3, <2>2, <2>3 DEF IntentOK, ProcessOK
    <2> QED BY <1>0, <1>1, <2>2, <2>3, <2>4, ProcessMoves
  <1>5. CASE ListBaseline
    <2>1. /\ rproc' = [rproc EXCEPT !.pc = "contain", !.count = Cardinality(ActiveMissions)]
          /\ UNCHANGED intent
      BY <1>5 DEF ListBaseline
    <2>2. Cardinality(ActiveMissions) \in Nat
      <3>1. IsFiniteSet({m \in Missions : mission[m] # "none"})
        BY <1>0 DEF RecoveryTyped
      <3>2. ActiveMissions \subseteq {m \in Missions : mission[m] # "none"}
        BY DEF ActiveMissions
      <3>3. IsFiniteSet(ActiveMissions)
        BY <3>1, <3>2, FS_Subset
      <3> QED BY <3>3, FS_CardinalityType
    <2>3. rproc' \in ProcessRow /\ rproc'.pc = "contain" /\ rproc'.typed = rproc.typed
      BY <1>0, <2>1, <2>2 DEF ProcessRow
    <2>4. (\A k \in Keys : IntentOK(k)') /\ ProcessOK'
      BY <1>0, <1>3, <2>1, <2>3 DEF IntentOK, ProcessOK
    <2> QED BY <1>0, <1>1, <2>1, <2>3, <2>4, ProcessMoves
  <1>6. CASE awaitEmptyActiveMissions
    <2>1. RGoto("empty") /\ ActiveMissions = {} /\ UNCHANGED intent
      BY <1>6 DEF awaitEmptyActiveMissions
    <2>2. rproc' \in ProcessRow /\ rproc'.pc = "empty" /\ rproc'.typed = rproc.typed
      BY <1>0, <2>1, RGotoStep
    <2>3. (\A k \in Keys : IntentOK(k)') /\ ProcessOK'
      BY <1>0, <1>3, <2>1, <2>2 DEF IntentOK, ProcessOK
    <2> QED BY <1>0, <1>1, <2>1, <2>2, <2>3, ProcessMoves
  <1>7. ASSUME NEW to \in {"contained", "verified_empty"}, NEW label \in {"await", "reset"},
               RGoto(label), intent' = [intent EXCEPT ![Key].state = to],
               containment[Key].applied,
               to = "verified_empty" => \A m \in containment[Key].covered : mission[m] = "ended"
        PROVE  IInv'
    <2>1. rproc' \in ProcessRow /\ rproc'.pc = label /\ rproc'.typed = rproc.typed
      BY <1>0, <1>7, RGotoStep
    <2>2. /\ intent' \in Intents /\ intent'[Key].state = to
          /\ \A k \in Keys : k # Key => intent'[k] = intent[k]
      BY <1>0, <1>2, <1>7 DEF Intents, IntentStates
    <2>3. ASSUME NEW k \in Keys PROVE IntentOK(k)'
      <3>1. CASE k = Key
        BY <1>0, <1>2, <1>3, <1>7, <2>2, <3>1 DEF IntentOK
      <3>2. CASE k # Key
        BY <1>0, <1>3, <2>2, <3>2 DEF IntentOK
      <3> QED BY <3>1, <3>2
    <2>4. ProcessOK'
      BY <2>1 DEF ProcessOK
    <2> QED BY <1>0, <1>1, <2>1, <2>2, <2>3, <2>4, ProcessMoves
  <1>8. CASE SetRecoveryIntentContained
    BY <1>0, <1>7, <1>8 DEF SetRecoveryIntentContained, transitionRecoveryIntent, ProcessOK
  <1>9. CASE SetRecoveryIntentVerifiedEmpty
    <2>1. /\ RGoto("reset") /\ intent' = [intent EXCEPT ![Key].state = "verified_empty"]
          /\ ActiveMissions = {} /\ intent[Key].state = "contained"
      BY <1>0, <1>9 DEF SetRecoveryIntentVerifiedEmpty, transitionRecoveryIntent, ProcessOK
    <2>2. containment[Key].applied /\ \A m \in containment[Key].covered : mission[m] # "none"
      BY <1>0, <1>2, <2>1 DEF IntentOK
    <2>3. \A m \in Missions : mission[m] \in {"none", "ended"}
      BY <1>0, <2>1 DEF ActiveMissions
    <2>4. \A m \in containment[Key].covered : mission[m] = "ended"
      BY <1>0, <1>2, <2>2, <2>3
    <2> QED BY <1>7, <2>1, <2>2, <2>4
  <1> QED BY <1>4, <1>5, <1>6, <1>8, <1>9

-----------------------------------------------------------------------------
(* The authority contains the workspace once per key: what it covers was   *)
(* active, and no intent of the key is past containment yet.               *)
LEMMA ContainOK ==
    ASSUME IInv, Key \in Keys, ContainWorkspace, UNCHANGED intent
    PROVE  /\ mission' \in [Missions -> {"none", "active", "contained", "ended"}]
           /\ IsFiniteSet({m \in Missions : mission'[m] # "none"})
           /\ containment' \in [Keys -> [applied : BOOLEAN, covered : SUBSET Missions]]
           /\ containment'[Key].applied
           /\ \A k \in Keys : IntentOK(k)'
  <1>0. /\ mission \in [Missions -> {"none", "active", "contained", "ended"}]
        /\ IsFiniteSet({m \in Missions : mission[m] # "none"})
        /\ containment \in [Keys -> [applied : BOOLEAN, covered : SUBSET Missions]]
        /\ \A k \in Keys : IntentOK(k)
    BY DEF IInv, RecoveryInv, RecoveryTyped
  <1>1. CASE containment[Key].applied
    BY <1>0, <1>1 DEF ContainWorkspace, upstreamVars, IntentOK
  <1>2. CASE ~containment[Key].applied
    <2> DEFINE covered == {m \in Missions : mission[m] = "active"}
    <2>1. /\ containment' = [containment EXCEPT ![Key] = [applied |-> TRUE, covered |-> covered]]
          /\ mission' = [m \in Missions |-> IF m \in covered THEN "contained" ELSE mission[m]]
      BY <1>2 DEF ContainWorkspace
    <2>2. /\ mission' \in [Missions -> {"none", "active", "contained", "ended"}]
          /\ \A m \in Missions : mission'[m] # "none" <=> mission[m] # "none"
          /\ \A m \in Missions : mission[m] = "ended" => mission'[m] = "ended"
      BY <1>0, <2>1
    <2>3. {m \in Missions : mission'[m] # "none"} = {m \in Missions : mission[m] # "none"}
      BY <2>2
    <2>4. /\ containment' \in [Keys -> [applied : BOOLEAN, covered : SUBSET Missions]]
          /\ containment'[Key].applied /\ containment'[Key].covered = covered
          /\ \A k \in Keys : k # Key => containment'[k] = containment[k]
      BY <1>0, <2>1
    <2>5. ASSUME NEW k \in Keys PROVE IntentOK(k)'
      <3>1. IntentOK(k) /\ containment[k].covered \subseteq Missions
        BY <1>0
      <3>2. CASE k = Key
        <4>1. intent'[k].state \notin {"contained", "verified_empty", "completed"}
          BY <1>2, <3>1, <3>2 DEF IntentOK
        <4>2. \A m \in covered : mission'[m] # "none"
          BY <2>2
        <4> QED BY <2>4, <3>2, <4>1, <4>2 DEF IntentOK
      <3>3. CASE k # Key
        BY <2>2, <2>4, <3>1, <3>3 DEF IntentOK
      <3> QED BY <3>2, <3>3
    <2> QED BY <1>0, <2>2, <2>3, <2>4, <2>5
  <1> QED BY <1>1, <1>2

(* The calls that contain: answered, ambiguous, and ambiguous again.       *)
LEMMA ContainSteps ==
    ASSUME IInv, ContainAcknowledged \/ ContainAmbiguous \/ ReconcileAmbiguous
    PROVE  IInv'
  <1>0. /\ RecoveryTyped /\ (\A k \in Keys : IntentOK(k)) /\ rproc \in ProcessRow
        /\ lock = "recover" <=> rproc.pc # "idle"
        /\ rproc.pc # "idle" => rproc.typed \in Bytes
    BY DEF IInv, RecoveryInv, RecoveryTyped
  <1>1. /\ rproc.pc \in {"contain", "reconcile"} /\ lock = "recover" /\ rproc.typed \in Bytes
        /\ UNCHANGED <<tables, memory, handoffs, intent>>
    BY <1>0 DEF ContainAcknowledged, ContainAmbiguous, ReconcileAmbiguous, identityVars
  <1>2. Key \in Keys
    BY <1>1 DEF Key, Bytes
  <1>3. /\ mission' \in [Missions -> {"none", "active", "contained", "ended"}]
        /\ IsFiniteSet({m \in Missions : mission'[m] # "none"})
        /\ containment' \in [Keys -> [applied : BOOLEAN, covered : SUBSET Missions]]
        /\ ContainWorkspace => containment'[Key].applied
        /\ \A k \in Keys : IntentOK(k)'
    <2>1. CASE ContainWorkspace
      BY <1>1, <1>2, <2>1, ContainOK
    <2>2. CASE UNCHANGED upstreamVars /\ ~ContainWorkspace
      <3>1. UNCHANGED <<mission, containment>>
        BY <2>2 DEF upstreamVars
      <3> QED BY <1>0, <1>1, <2>2, <3>1 DEF RecoveryTyped, IntentOK
    <2> QED BY <2>1, <2>2 DEF ContainAcknowledged, ContainAmbiguous, ReconcileAmbiguous
  <1>4. /\ rproc' \in ProcessRow /\ ProcessOK'
        /\ lock' = "recover" <=> rproc'.pc # "idle"
        /\ rproc'.pc # "idle" => rproc'.typed \in Bytes
        /\ lock' = lock \/ lock' = "none"
    <2>1. CASE ContainAcknowledged
      <3>1. RGoto("acknowledged") /\ UNCHANGED lock /\ ContainWorkspace
        BY <2>1 DEF ContainAcknowledged, identityVars
      <3>2. /\ rproc' \in ProcessRow /\ rproc'.pc = "acknowledged"
            /\ rproc'.typed = rproc.typed /\ Key' = Key
        BY <1>0, <3>1, RGotoStep
      <3> QED BY <1>1, <1>3, <3>1, <3>2 DEF ProcessOK
    <2>2. CASE ContainAmbiguous
      <3>1. RGoto("reconcile") /\ UNCHANGED lock
        BY <2>2 DEF ContainAmbiguous, identityVars
      <3>2. /\ rproc' \in ProcessRow /\ rproc'.pc = "reconcile" /\ rproc'.typed = rproc.typed
        BY <1>0, <3>1, RGotoStep
      <3> QED BY <1>1, <3>1, <3>2 DEF ProcessOK
    <2>3. CASE ReconcileAmbiguous
      <3>1. rproc' = NoProcess /\ lock' = "none"
        BY <2>3 DEF ReconcileAmbiguous
      <3>2. rproc' \in ProcessRow /\ rproc'.pc = "idle"
        BY <3>1 DEF NoProcess, ProcessRow
      <3> QED BY <3>1, <3>2 DEF ProcessOK
    <2> QED BY <2>1, <2>2, <2>3
  <1>5. IdentityInv'
    BY <1>1, <1>4, IdentityFrame DEF IInv
  <1>6. RecoveryTyped'
    BY <1>0, <1>1, <1>3, <1>4 DEF RecoveryTyped
  <1> QED BY <1>3, <1>4, <1>5, <1>6 DEF IInv, RecoveryInv

(* The reset: it deletes the one founder, every passkey, key and hand-off, *)
(* revokes every session and hands out a code, in one transaction.         *)
LEMMA ResetStep == ASSUME IInv, resetLocalState PROVE IInv'
  <1> USE IdentityAssumption
  <1>0. /\ RecoveryTyped /\ (\A k \in Keys : IntentOK(k)) /\ rproc \in ProcessRow
        /\ rproc.pc = "reset" /\ lock = "recover" /\ rproc.typed \in Bytes
        /\ intent \in Intents /\ rproc.count \in Nat
        /\ IdentityTyped /\ FounderOK /\ MemoryOK
    BY DEF resetLocalState, IInv, RecoveryInv, RecoveryTyped, Intents, ProcessRow, IdentityInv
  <1>1. /\ UNCHANGED <<lock, memory, mission, containment>>
        /\ RGoto("deliver")
        /\ credential' = [c \in Creds |-> NoCredential] /\ handoffs' = {}
        /\ rproc.founder \in founders /\ founders' = founders \ {rproc.founder}
        /\ keyHash' = [keyHash EXCEPT ![rproc.founder] = None]
        /\ issued < MaxCodes /\ issued' = issued + 1
        /\ code' = [id |-> issued + 1, expired |-> FALSE]
        /\ intent[Key].state = "verified_empty"
        /\ intent' = [intent EXCEPT ![Key].state = "completed", ![Key].count = rproc.count]
    BY DEF resetLocalState, upstreamVars, resetLaunchHandoffs, deleteAllWebAuthnCredentials,
           consumeOfflineRecoveryKey, deleteFounder, IssueRecoveryBootstrapCodeTx
  <1>2. Key \in Keys
    BY <1>0 DEF Key, Bytes
  <1>3. founders = {rproc.founder} /\ founders' = {}
    BY <1>0, <1>1 DEF FounderOK
  <1>4. /\ rproc' \in ProcessRow /\ rproc'.pc = "deliver" /\ rproc'.typed = rproc.typed
    BY <1>0, <1>1, RGotoStep
  <1>5. /\ session' \in [Requests -> SessionRow]
        /\ \A r \in Requests : session'[r].status # "live"
        /\ \A r \in Requests : session[r] = NoSession => session'[r] = NoSession
    <2>1. session \in [Requests -> SessionRow]
      BY <1>0 DEF IdentityTyped, IdentityTypeOK, SessionRow
    <2>2. session' = [r \in Requests |-> IF session[r].status = "none" THEN session[r]
                                         ELSE [session[r] EXCEPT !.status = "revoked"]]
      BY DEF resetLocalState, revokeAllSessions
    <2> QED BY <2>1, <2>2 DEF SessionRow, NoSession
  <1>6. code' \in [id : 0 .. MaxCodes, expired : BOOLEAN] /\ issued' \in 0 .. MaxCodes /\ code'.id # 0
    <2>1. issued \in 0 .. MaxCodes
      BY <1>0 DEF IdentityTyped, IdentityTypeOK
    <2> QED BY <1>1, <2>1
  <1>7. credential' \in [Creds -> CredentialRow] /\ \A c \in Creds : credential'[c] = NoCredential
    <2>1. NoCredential \in CredentialRow
      BY DEF NoCredential, CredentialRow
    <2> QED BY <1>1, <2>1
  <1>8. keyHash' \in [Founders -> Bytes \cup {None}] /\ \A f \in Founders : keyHash'[f] = None
    <2>1. keyHash \in [Founders -> Bytes \cup {None}] /\ founders \subseteq Founders
      BY <1>0 DEF IdentityTyped, IdentityTypeOK
    <2>2. \A f \in Founders \ founders : keyHash[f] = None
      BY DEF IInv, IdentityInv, NothingSurvivesRecovery
    <2> QED BY <1>1, <1>3, <2>1, <2>2
  <1>9. IdentityTyped'
    BY <1>0, <1>1, <1>3, <1>5, <1>6, <1>7, <1>8
    DEF IdentityTyped, IdentityTypeOK, SessionRow, CredentialRow, memory
  <1>10. FounderOK' /\ RecoverableOK' /\ NothingSurvivesRecovery'
    BY <1>1, <1>3, <1>5, <1>6, <1>7, <1>8
    DEF FounderOK, RecoverableOK, NothingSurvivesRecovery, NoCode
  <1>11. MemoryOK'
    <2>1. /\ UNCHANGED <<lock, boot, logins, areq>> /\ logins = {}
          /\ \A r \in Requests : areq[r].pc \in {"fresh", "done"}
      BY <1>0, <1>1 DEF memory, MemoryOK
    <2>2. \A b \in Boots : BootOK(b)'
      BY <1>0, <2>1 DEF MemoryOK, BootOK
    <2>3. \A r \in Requests : RequestOK(r)'
      BY <1>0, <1>5, <2>1 DEF MemoryOK, RequestOK
    <2> QED BY <2>1, <2>2, <2>3 DEF MemoryOK
  <1>12. /\ intent' \in Intents /\ intent'[Key].state = "completed"
         /\ \A k \in Keys : k # Key => intent'[k] = intent[k]
    BY <1>0, <1>1, <1>2 DEF Intents, IntentStates
  <1>13. ASSUME NEW k \in Keys PROVE IntentOK(k)'
    <2>1. CASE k = Key
      BY <1>0, <1>1, <1>2, <1>12, <2>1 DEF IntentOK
    <2>2. CASE k # Key
      BY <1>0, <1>1, <1>12, <2>2 DEF IntentOK
    <2> QED BY <2>1, <2>2
  <1>14. RecoveryTyped' /\ ProcessOK'
    BY <1>0, <1>1, <1>4, <1>12 DEF RecoveryTyped, ProcessOK, Intents
  <1> QED BY <1>9, <1>10, <1>11, <1>13, <1>14 DEF IInv, IdentityInv, RecoveryInv

(* Every step keeps the invariant.                                         *)
LEMMA NextPreserves == IInv /\ [Next]_vars => IInv'
  <1> SUFFICES ASSUME IInv, [Next]_vars PROVE IInv'
    OBVIOUS
  <1>1. CASE UNCHANGED vars
    <2>1. /\ UNCHANGED <<lock, tables, memory, intent, rproc, handoffs, mission, containment>>
      BY <1>1 DEF vars, identityVars, recoveryVars, upstreamVars
    <2>2. handoffs' \subseteq Requests
      BY <2>1 DEF IInv, RecoveryInv, RecoveryTyped
    <2> QED BY <2>1, <2>2, IdentityFrame, RecoveryFrame DEF IInv
  <1>2. CASE IdentityNext /\ UNCHANGED <<recoveryVars, handoffs, upstreamVars>>
    BY <1>2, IdentitySteps
  <1>3. CASE \/ \E m \in Missions : ApproveMission(m) \/ MissionEnds(m)
             \/ \E r \in Requests : OpenHandoff(r)
    BY <1>3, WorkspaceSteps
  <1>4. CASE \/ \E typed \in Bytes : RecoverRefuses(typed) \/ RecoverVerifies(typed)
             \/ RecoverEnds
    BY <1>4, CommandSteps
  <1>5. CASE \/ SetRecoveryIntentAttestation \/ ListBaseline \/ SetRecoveryIntentContained
             \/ awaitEmptyActiveMissions \/ SetRecoveryIntentVerifiedEmpty
    BY <1>5, IntentSteps
  <1>6. CASE ContainAcknowledged \/ ContainAmbiguous \/ ReconcileAmbiguous
    BY <1>6, ContainSteps
  <1>7. CASE resetLocalState
    BY <1>7, ResetStep
  <1> QED BY <1>1, <1>2, <1>3, <1>4, <1>5, <1>6, <1>7 DEF Next

(* The invariant holds of the store, of the server's memory, of the        *)
(* recover process and of the authority in every reachable state.          *)
THEOREM InvariantHolds == Spec => []IInv
  BY InitEstablishes, NextPreserves, PTL DEF Spec

-----------------------------------------------------------------------------
(* The tables of store/authn.go, the ceremonies in memory and the recover  *)
(* process hold values of their types; the data directory is locked by the *)
(* recover command exactly while it runs.                                  *)
THEOREM TypeCorrect == Spec => []TypeOK
  <1>1. IInv => TypeOK
    <2> SUFFICES ASSUME IInv PROVE TypeOK
      OBVIOUS
    <2>1. IdentityTypeOK /\ RecoveryTyped
      BY DEF IInv, IdentityInv, IdentityTyped, RecoveryInv
    <2>2. (lock = "recover") = (rproc.pc # "idle")
      BY <2>1 DEF RecoveryTyped
    <2>3. rproc \in ProcessRow
      BY <2>1 DEF RecoveryTyped
    <2>4. /\ rproc.pc \in {"idle", "refused", "attest", "baseline", "contain", "reconcile",
                           "acknowledged", "await", "empty", "reset", "deliver"}
          /\ rproc.founder \in Founders \cup {None}
          /\ rproc.count \in Nat
      BY <2>3 DEF ProcessRow
    <2> QED BY <2>1, <2>2, <2>4 DEF TypeOK, RecoveryTyped
  <1> QED BY <1>1, InvariantHolds, PTL

(* The one-use bootstrap code keeps the workspace with a single founder    *)
(* (ConsumeBootstrapCode inside Complete's transaction), and a workspace   *)
(* without one has a code to enrol with once the server has started.       *)
THEOREM SingleFounder == Spec => []OneFounder
  <1>1. IInv => OneFounder
    <2> SUFFICES ASSUME IInv PROVE OneFounder
      OBVIOUS
    <2>1. FounderOK
      BY DEF IInv, IdentityInv
    <2>2. Cardinality(founders) <= 1
      <3>1. CASE founders = {}
        <4>1. Cardinality(founders) = 0
          BY <3>1, FS_EmptySet, Zenon
        <4> QED BY <4>1
      <3>2. CASE founders # {}
        <4>1. PICK f \in Founders : founders = {f}
          BY <2>1, <3>2 DEF FounderOK
        <4>2. Cardinality(founders) = 1
          BY <4>1, FS_Singleton, Zenon
        <4> QED BY <4>2
      <3> QED BY <3>1, <3>2
    <2> QED BY <2>1, <2>2 DEF OneFounder, FounderOK
  <1> QED BY <1>1, InvariantHolds, PTL

(* Two different elements make a finite set larger than one.               *)
LEMMA TwoElements ==
    ASSUME NEW S, IsFiniteSet(S), NEW c \in S, NEW d \in S, c # d
    PROVE  Cardinality(S) > 1
  <1>1. Cardinality(S) \in Nat
    BY FS_CardinalityType
  <1>2. Cardinality(S) # 0
    BY FS_EmptySet
  <1>3. Cardinality(S) # 1
    BY FS_Singleton
  <1> QED BY <1>1, <1>2, <1>3

(* Complete commits only ceremonies with an independent recovery method    *)
(* (bootstrap.go's checks on what was staged), so whoever is enrolled has  *)
(* a passkey and an offline key or a second passkey.                       *)
THEOREM NobodyLockedOut == Spec => []IndependentRecovery
  <1>1. IInv => IndependentRecovery
    <2> SUFFICES ASSUME IInv, NEW f \in founders
                 PROVE  /\ founderCredentials(f) # {}
                        /\ keyHash[f] # None \/ Cardinality(founderCredentials(f)) > 1
      BY DEF IndependentRecovery
    <2>1. /\ IsFiniteSet(founderCredentials(f)) /\ founderCredentials(f) # {}
          /\ keyHash[f] # None \/ \E c, d \in founderCredentials(f) : c # d
      BY DEF IInv, IdentityInv, RecoverableOK
    <2>2. ASSUME NEW c \in founderCredentials(f), NEW d \in founderCredentials(f), c # d
          PROVE  Cardinality(founderCredentials(f)) > 1
      BY <2>1, <2>2, TwoElements
    <2> QED BY <2>1, <2>2
  <1> QED BY <1>1, InvariantHolds, PTL

(* resetLocalState leaves nothing of the founder it removes: sessions,     *)
(* passkeys, recovery keys and CLI hand-offs belong to who is enrolled.    *)
THEOREM RecoveryResets == Spec => []NothingSurvivesRecovery
  <1>1. IInv => NothingSurvivesRecovery
    BY DEF IInv, IdentityInv
  <1> QED BY <1>1, InvariantHolds, PTL

(* A completed recovery contained the workspace first, whatever answers    *)
(* were lost and however often the command was run again.                  *)
THEOREM RecoveryContains == Spec => []ContainedBeforeReset
  <1>1. IInv => ContainedBeforeReset
    <2> SUFFICES ASSUME IInv, NEW k \in Keys, intent[k].state = "completed"
                 PROVE  containment[k].applied /\ containment[k].covered \cap ActiveMissions = {}
      BY DEF ContainedBeforeReset
    <2>1. IntentOK(k)
      BY DEF IInv, RecoveryInv
    <2>2. containment[k].applied /\ \A m \in containment[k].covered : mission[m] = "ended"
      BY <2>1 DEF IntentOK
    <2> QED BY <2>2 DEF ActiveMissions
  <1> QED BY <1>1, InvariantHolds, PTL

(* UpdateWebAuthnCredentialSignCount compares and writes in one            *)
(* transaction: an assertion that reported a counter grants a session, or  *)
(* carries a decision, only on one above the stored one, although another  *)
(* may have been verified against the same value.                          *)
THEOREM LoginsAdvanceCounter == Spec => CounterAdvances
  <1> DEFINE Advances(r) ==
                 /\ areq[r].count > 0
                 /\ \/ areq[r].pc = "login" /\ session'[r].status = "live"
                    \/ FinishDecisionCommits(r)
                 => credential'[areq[r].cred].count > credential[areq[r].cred].count
  <1>1. IInv /\ [Next]_vars => [\A r \in Requests : Advances(r)]_vars
    <2> SUFFICES ASSUME IInv, Next, NEW r \in Requests, areq[r].count > 0,
                        \/ areq[r].pc = "login" /\ session'[r].status = "live"
                        \/ FinishDecisionCommits(r)
                 PROVE  credential'[areq[r].cred].count > credential[areq[r].cred].count
      OBVIOUS
    <2>0. /\ session \in [Requests -> SessionRow] /\ credential \in [Creds -> CredentialRow]
          /\ areq[r].count \in 0 .. MaxSignCount /\ RequestOK(r)
      BY DEF IInv, IdentityInv, IdentityTyped, IdentityTypeOK, SessionRow, CredentialRow, MemoryOK
    <2>1. areq[r].pc \in {"login", "decision"} /\ areq[r].cred \in Creds
      BY <2>0 DEF FinishDecisionCommits, RequestOK
    <2>2. CASE FinishLoginCommits(r) \/ FinishDecisionCommits(r)
      <3> DEFINE c == areq[r].cred
                 n == areq[r].count
      <3>1. /\ credential[c].count < n
            /\ credential' = [credential EXCEPT ![c].count = IF n > 0 THEN n ELSE @]
        BY <2>2 DEF FinishLoginCommits, FinishDecisionCommits, UpdateWebAuthnCredentialSignCount
      <3>2. credential'[c].count = n
        BY <2>0, <2>1, <3>1 DEF CredentialRow
      <3>3. credential[c].count \in Nat /\ n \in Nat
        BY <2>0, <2>1 DEF CredentialRow
      <3> QED BY <3>1, <3>2, <3>3
    <2> SUFFICES ASSUME ~ FinishLoginCommits(r), ~ FinishDecisionCommits(r)
                 PROVE  FALSE
      BY <2>2
    <2>3. /\ areq[r].pc = "login" /\ session'[r].status = "live"
           /\ session[r].status = "none"
      BY <2>0 DEF RequestOK, NoSession
    <2>4. session' # session
      BY <2>3
    <2>5. ASSUME NEW q \in Requests, q # r, FinishLoginCommits(q) \/ CompleteCommits(q)
          PROVE  FALSE
      BY <2>0, <2>5, <2>3 DEF FinishLoginCommits, CompleteCommits, createSession
    <2>6. ~ CompleteCommits(r)
      BY <2>3 DEF CompleteCommits
    <2>7. ASSUME IdentityNext PROVE \E q \in Requests : FinishLoginCommits(q) \/ CompleteCommits(q)
      BY <2>4, <2>7 DEF IdentityNext, StartServer, StopServer, CodeExpires, Begin,
         BeginBootstrapRegistration, BeginRecovery, RegistrationRefused, FinishRegistration,
         CompleteChecks, CompleteFails, CompleteDrops, FinishDecisionCommits, AssertionFails,
         BeginLogin, LoginRefused, FinishLoginVerifies, FinishDecisionVerifies, tables
    <2>8. ~ resetLocalState
      BY <2>0, <2>3 DEF resetLocalState, revokeAllSessions, SessionRow
    <2>9. ASSUME \/ \E m \in Missions : ApproveMission(m) \/ MissionEnds(m)
                 \/ \E q \in Requests : OpenHandoff(q)
          PROVE  session' = session
      BY <2>9 DEF ApproveMission, MissionEnds, OpenHandoff, identityVars, tables
    <2>10. ASSUME \/ \E typed \in Bytes : RecoverRefuses(typed) \/ RecoverVerifies(typed)
                 \/ RecoverEnds \/ SetRecoveryIntentAttestation \/ ListBaseline
                 \/ ContainAcknowledged \/ ContainAmbiguous \/ ReconcileAmbiguous
                 \/ SetRecoveryIntentContained \/ awaitEmptyActiveMissions
                 \/ SetRecoveryIntentVerifiedEmpty
          PROVE  session' = session
      BY <2>10 DEF RecoverRefuses, RecoverVerifies, RecoverEnds, SetRecoveryIntentAttestation,
         ListBaseline, ContainAcknowledged, ContainAmbiguous, ReconcileAmbiguous,
         SetRecoveryIntentContained, awaitEmptyActiveMissions, SetRecoveryIntentVerifiedEmpty,
         identityVars, tables
    <2>11. ~ IdentityNext
      BY <2>5, <2>6, <2>7
    <2>12. ~ (\E m \in Missions : ApproveMission(m) \/ MissionEnds(m))
           /\ ~ (\E q \in Requests : OpenHandoff(q))
      BY <2>4, <2>9
    <2>13. ~ (\E typed \in Bytes : RecoverRefuses(typed) \/ RecoverVerifies(typed))
      BY <2>4, <2>10
    <2>14. ~ (\/ RecoverEnds \/ SetRecoveryIntentAttestation \/ ListBaseline
              \/ ContainAcknowledged \/ ContainAmbiguous \/ ReconcileAmbiguous
              \/ SetRecoveryIntentContained \/ awaitEmptyActiveMissions
              \/ SetRecoveryIntentVerifiedEmpty)
      BY <2>4, <2>10
    <2> QED BY <2>8, <2>11, <2>12, <2>13, <2>14 DEF Next
  <1> QED BY <1>1, InvariantHolds, PTL DEF Spec, CounterAdvances

=============================================================================
