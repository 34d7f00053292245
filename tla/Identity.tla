------------------------------ MODULE Identity ------------------------------
(***************************************************************************)
(* The founder's authentication, internal/authn over the tables of         *)
(* internal/store/authn.go: the one-use enrolment opened by a bootstrap    *)
(* code, the passkey registrations inside it, the independent recovery     *)
(* method, login and sessions.  Recovery adds the offline reset.           *)
(*                                                                         *)
(* A founder and a session are named by the request that created them, an  *)
(* offline recovery key by the code and the ceremony it was shown in.  The *)
(* hash of some bytes is those bytes.  A code may expire under an open     *)
(* ceremony, which lives longer.  A ceremony or a session that has expired *)
(* takes no step, and a request refused without an effect is none.         *)
(***************************************************************************)
EXTENDS Naturals, FiniteSets

CONSTANTS Requests,      \* Complete and FinishLogin requests
          Boots,         \* enrolment ceremonies open at the same time
          Creds,         \* passkeys
          None,          \* no founder, no passkey, no key
          MaxCodes,      \* bound: bootstrap codes generated
          MaxSignCount   \* bound: signature counters of authenticators

VARIABLES lock,        \* holder of the exclusive lock of the data directory
          founders,    \* founders
          credential,  \* webauthn_credentials: founder and sign_count
          session,     \* sessions: founder and status
          code,        \* bootstrap_codes: the row that is not consumed
          issued,      \* how many codes were generated
          keyHash,     \* offline_recovery_keys, per founder
          boot,        \* memory: the enrolment ceremonies
          logins,      \* memory: founders with an open login ceremony
          areq         \* memory: the requests under way

tables == <<founders, credential, session, code, issued, keyHash>>
memory == <<boot, logins, areq>>
identityVars == <<lock, tables, memory>>

Founders == Requests
Keys     == (1 .. MaxCodes) \X Boots

(* 32 random bytes, and the base64url text in which they are displayed.    *)
Bytes    == [form : {"raw", "text"}, key : Keys]
Raw(k)   == [form |-> "raw", key |-> k]
Text(k)  == [form |-> "text", key |-> k]
DecodeString(text) == Raw(text.key)

ASSUME IdentityAssumption ==
    /\ None \notin Requests \cup Creds /\ None \notin Bytes
    /\ MaxCodes \in Nat /\ MaxSignCount \in Nat

NoCode       == [id |-> 0, expired |-> FALSE]
NoCredential == [founder |-> None, count |-> 0]
NoSession    == [founder |-> None, status |-> "none"]
NoBoot       == [code |-> 0, first |-> None, method |-> "none", verified |-> FALSE,
                 staged |-> {}, open |-> {}]
FreshRequest == [pc |-> "fresh", boot |-> None, cred |-> None, count |-> 0]

IdentityTypeOK ==
    /\ lock \in {"none", "server", "recover"}
    /\ founders \subseteq Founders
    /\ credential \in [Creds -> [founder : Founders \cup {None}, count : 0 .. MaxSignCount]]
    /\ session \in [Requests -> [founder : Founders \cup {None},
                                 status : {"none", "live", "revoked"}]]
    /\ code \in [id : 0 .. MaxCodes, expired : BOOLEAN]
    /\ issued \in 0 .. MaxCodes
    /\ \A f \in Founders : keyHash[f] = None \/ keyHash[f] \in Bytes
    /\ boot \in [Boots -> [code : 0 .. MaxCodes, first : Creds \cup {None},
                           method : {"none", "passkey", "offline_key"}, verified : BOOLEAN,
                           staged : SUBSET Creds, open : SUBSET {"first", "recovery"}]]
    /\ logins \subseteq Founders
    /\ areq \in [Requests -> [pc : {"fresh", "complete", "drop", "login", "decision", "done"},
                              boot : Boots \cup {None}, cred : Creds \cup {None},
                              count : 0 .. MaxSignCount]]

IdentityInit ==
    /\ lock = "none" /\ founders = {} /\ code = NoCode /\ issued = 0 /\ logins = {}
    /\ credential = [c \in Creds |-> NoCredential]
    /\ session = [r \in Requests |-> NoSession]
    /\ keyHash = [f \in Founders |-> None]
    /\ boot = [b \in Boots |-> NoBoot]
    /\ areq = [r \in Requests |-> FreshRequest]

Serving       == lock = "server"
LiveBoot(b)   == Serving /\ boot[b] # NoBoot
LiveSession(r) == Serving /\ session[r].status = "live"
founderCredentials(f) == {c \in Creds : credential[c].founder = f}
Done(r)       == areq' = [areq EXCEPT ![r] = [FreshRequest EXCEPT !.pc = "done"]]

-----------------------------------------------------------------------------
(* The process.  The lock of the data directory is held while the server   *)
(* runs; a start without a founder generates a code that replaces the one  *)
(* not yet consumed.                                                       *)

EnsureBootstrapCode ==
    IF founders # {} THEN UNCHANGED <<code, issued>>
    ELSE /\ issued < MaxCodes
         /\ issued' = issued + 1
         /\ code' = [id |-> issued + 1, expired |-> FALSE]

StartServer ==
    /\ lock = "none"
    /\ lock' = "server"
    /\ EnsureBootstrapCode
    /\ UNCHANGED <<founders, credential, session, keyHash, memory>>

(* A shutdown or a crash: the ceremonies and the requests are gone.        *)
StopServer ==
    /\ Serving
    /\ lock' = "none"
    /\ boot' = [b \in Boots |-> NoBoot]
    /\ logins' = {}
    /\ areq' = [r \in Requests |-> IF areq[r] = FreshRequest THEN FreshRequest
                                   ELSE [FreshRequest EXCEPT !.pc = "done"]]
    /\ UNCHANGED tables

CodeExpires ==
    /\ code # NoCode /\ ~code.expired
    /\ code' = [code EXCEPT !.expired = TRUE]
    /\ UNCHANGED <<lock, founders, credential, session, issued, keyHash, memory>>

-----------------------------------------------------------------------------
(* Enrolment.  Begin checks the code and does not consume it.              *)

Begin(b) ==
    /\ Serving /\ founders = {}
    /\ code # NoCode /\ ~code.expired
    /\ boot[b] = NoBoot
    /\ boot' = [boot EXCEPT ![b].code = code.id]
    /\ UNCHANGED <<lock, tables, logins, areq>>

BeginBootstrapRegistration(b) ==
    /\ LiveBoot(b)
    /\ boot' = [boot EXCEPT ![b].open = @ \cup {"first"}]
    /\ UNCHANGED <<lock, tables, logins, areq>>

(* The method is chosen once; the offline key is displayed here.           *)
BeginRecovery(b, method) ==
    /\ LiveBoot(b)
    /\ boot[b].first # None
    /\ boot[b].method = "none"
    /\ boot' = [boot EXCEPT ![b].method = method,
                            ![b].open = IF method = "passkey" THEN @ \cup {"recovery"} ELSE @]
    /\ UNCHANGED <<lock, tables, logins, areq>>

(* The ceremony is consumed whatever becomes of the attestation: one the   *)
(* verifier refuses, or a passkey staged before, leaves nothing else.      *)
RegistrationRefused(b, kind) ==
    /\ LiveBoot(b) /\ kind \in boot[b].open
    /\ boot' = [boot EXCEPT ![b].open = @ \ {kind}]
    /\ UNCHANGED <<lock, tables, logins, areq>>

Stage(b, kind, c) ==
    boot' = [boot EXCEPT ![b].open = @ \ {kind},
                         ![b].first = IF kind = "first" THEN c ELSE @,
                         ![b].verified = @ \/ kind = "recovery",
                         ![b].staged = @ \cup {c}]

FinishRegistration(b, kind, c) ==
    /\ LiveBoot(b) /\ kind \in boot[b].open
    /\ c \notin boot[b].staged
    /\ Stage(b, kind, c)
    /\ UNCHANGED <<lock, tables, logins, areq>>

(* Mutant of CompleteChecks: a chosen recovery passkey counts as verified. *)
CompleteChecksMethod(r, b) ==
    /\ areq[r] = FreshRequest
    /\ LiveBoot(b)
    /\ boot[b].first # None
    /\ boot[b].method # "none"
    /\ areq' = [areq EXCEPT ![r].pc = "complete", ![r].boot = b]
    /\ UNCHANGED <<lock, tables, boot, logins>>

(* Complete reads the ceremony without its lock, commits everything in one *)
(* transaction and forgets the ceremony afterwards.  The offline method is *)
(* confirmed by the decoded text, whose bytes are what is stored.          *)
CompleteChecks(r, b) ==
    /\ areq[r] = FreshRequest
    /\ LiveBoot(b)
    /\ boot[b].first # None
    /\ boot[b].method = "offline_key" \/ (boot[b].method = "passkey" /\ boot[b].verified)
    /\ areq' = [areq EXCEPT ![r].pc = "complete", ![r].boot = b]
    /\ UNCHANGED <<lock, tables, boot, logins>>

(* The rows the transaction writes.                                        *)
createFounder(f) == founders' = founders \cup {f}

(* Each with the counter its registration reported.  The passkeys staged   *)
(* are distinct; one that is stored already rolls the transaction back.    *)
putWebAuthnCredential(cs, f) ==
    /\ \A c \in cs : credential[c] = NoCredential
    /\ \E count \in [cs -> 0 .. MaxSignCount] :
          credential' = [c \in Creds |-> IF c \in cs THEN [founder |-> f, count |-> count[c]]
                                         ELSE credential[c]]

putOfflineRecoveryKey(f, bytes) == keyHash' = [keyHash EXCEPT ![f] = bytes]

createSession(r, f) == session' = [session EXCEPT ![r] = [founder |-> f, status |-> "live"]]

(* Mutant of ConsumeBootstrapCode: a consumed code is accepted again.      *)
ConsumeAnyCode(id) == code' = IF code.id = id THEN NoCode ELSE code

ConsumeBootstrapCode(id) ==
    /\ code # NoCode /\ code.id = id /\ ~code.expired
    /\ code' = NoCode

CompleteCommits(r) ==
    LET b == areq[r].boot IN
    /\ areq[r].pc = "complete"
    /\ createFounder(r)
    /\ putWebAuthnCredential(boot[b].staged, r)
    /\ IF boot[b].method = "offline_key"
       THEN putOfflineRecoveryKey(r, DecodeString(Text(<<boot[b].code, b>>)))
       ELSE UNCHANGED keyHash
    /\ ConsumeBootstrapCode(boot[b].code)
    /\ createSession(r, r)
    /\ areq' = [areq EXCEPT ![r].pc = "drop"]
    /\ UNCHANGED <<lock, issued, boot, logins>>

(* The transaction was rolled back; the ceremony stays.                    *)
CompleteFails(r) ==
    /\ areq[r].pc = "complete"
    /\ Done(r)
    /\ UNCHANGED <<lock, tables, boot, logins>>

CompleteDrops(r) ==
    /\ areq[r].pc = "drop"
    /\ boot' = [boot EXCEPT ![areq[r].boot] = NoBoot]
    /\ Done(r)
    /\ UNCHANGED <<lock, tables, logins>>

-----------------------------------------------------------------------------
(* Login, and the assertions of the decision ceremonies of other modules.  *)

BeginLogin(f) ==
    /\ Serving /\ f \in founders
    /\ founderCredentials(f) # {}
    /\ logins' = logins \cup {f}
    /\ UNCHANGED <<lock, tables, boot, areq>>

LoginRefused(f) ==
    /\ f \in logins
    /\ logins' = logins \ {f}
    /\ UNCHANGED <<lock, tables, boot, areq>>

(* verifyAssertion: the counter an assertion reports is taken over only if *)
(* it advances the stored one that was read; a suspected clone keeps the   *)
(* stored one.                                                             *)
verifyAssertion(r, pc, c, n) ==
    /\ areq[r] = FreshRequest
    /\ areq' = [areq EXCEPT ![r].pc = pc, ![r].cred = c,
                            ![r].count = IF n > credential[c].count THEN n ELSE credential[c].count]

FinishLoginVerifies(r, c, n) ==
    LET f == credential[c].founder IN
    /\ f \in logins
    /\ logins' = logins \ {f}
    /\ verifyAssertion(r, "login", c, n)
    /\ UNCHANGED <<lock, tables, boot>>

(* A founder in session decides: a draft, a launch, a revocation or an     *)
(* expansion.                                                              *)
FinishDecisionVerifies(r, c, n) ==
    /\ credential[c].founder # None
    /\ \E s \in Requests : LiveSession(s) /\ session[s].founder = credential[c].founder
    /\ verifyAssertion(r, "decision", c, n)
    /\ UNCHANGED <<lock, tables, boot, logins>>

(* Mutant of UpdateWebAuthnCredentialSignCount: writes whatever was read.  *)
UpdateSignCountBlindly(c, n) == credential' = [credential EXCEPT ![c].count = n]

UpdateWebAuthnCredentialSignCount(c, n) ==
    /\ n > 0 => credential[c].count < n
    /\ credential' = [credential EXCEPT ![c].count = IF n > 0 THEN n ELSE @]

FinishLoginCommits(r) ==
    LET c == areq[r].cred IN
    /\ areq[r].pc = "login"
    /\ UpdateWebAuthnCredentialSignCount(c, areq[r].count)
    /\ createSession(r, credential[c].founder)
    /\ Done(r)
    /\ UNCHANGED <<lock, founders, code, issued, keyHash, boot, logins>>

FinishDecisionCommits(r) ==
    /\ areq[r].pc = "decision"
    /\ UpdateWebAuthnCredentialSignCount(areq[r].cred, areq[r].count)
    /\ Done(r)
    /\ UNCHANGED <<lock, founders, session, code, issued, keyHash, boot, logins>>

AssertionFails(r) ==
    /\ areq[r].pc \in {"login", "decision"}
    /\ Done(r)
    /\ UNCHANGED <<lock, tables, boot, logins>>

-----------------------------------------------------------------------------
IdentityNext ==
    \/ StartServer \/ StopServer \/ CodeExpires
    \/ \E b \in Boots : Begin(b) \/ BeginBootstrapRegistration(b)
    \/ \E b \in Boots : BeginRecovery(b, "passkey") \/ BeginRecovery(b, "offline_key")
    \/ \E b \in Boots, kind \in {"first", "recovery"} :
           \/ RegistrationRefused(b, kind)
           \/ \E c \in Creds : FinishRegistration(b, kind, c)
    \/ \E r \in Requests, b \in Boots : CompleteChecks(r, b)
    \/ \E r \in Requests : CompleteCommits(r) \/ CompleteFails(r) \/ CompleteDrops(r)
    \/ \E r \in Requests : FinishLoginCommits(r) \/ FinishDecisionCommits(r) \/ AssertionFails(r)
    \/ \E f \in Founders : BeginLogin(f) \/ LoginRefused(f)
    \/ \E r \in Requests, c \in Creds, n \in 0 .. MaxSignCount :
           FinishLoginVerifies(r, c, n) \/ FinishDecisionVerifies(r, c, n)

=============================================================================
