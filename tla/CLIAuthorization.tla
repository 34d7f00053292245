-------------------------- MODULE CLIAuthorization --------------------------
(***************************************************************************)
(* The browser hand-off of internal/authn/pkce.go: the CLI opens an        *)
(* authorization for an approved pass, the founder confirms it with a      *)
(* passkey ceremony, and the CLI receives a one-use code.  A code is named *)
(* by the ceremony that minted it.  Launch adds the exchange of the code.  *)
(*                                                                         *)
(* Of the values an authorization pins, the mission version is the only    *)
(* one that can move under an approved pass, so it stands for all of them. *)
(* Two-minute lifetimes, the PKCE verifier and the loopback redirect are   *)
(* checks that end a request: a request may always end early.              *)
(***************************************************************************)
EXTENDS Integers, PassStates

CONSTANTS Authorizations,  \* CLI authorizations opened for the pass
          Ceremonies,      \* passkey ceremonies, and the codes they mint
          None             \* no ceremony, no code, no run

ASSUME NoneAssumption == None \notin Authorizations \cup Ceremonies

VARIABLES pass,       \* the mission_passes row
          auth,       \* cli_authorizations: status, pinned version, code hash
          ceremony,   \* memory: the ceremonies and the finishes under way
          attested    \* memory: PendingDecisionAttestations, one per authorization

authorizationVars == <<auth, ceremony, attested>>

Codes == Ceremonies

LaunchRow == [rev : Nat, state : PassState, mver : Nat, run : Codes \cup {None}]

NoAuthorization == [status |-> "none", mver |-> 0, code |-> None]
NoCeremony      == [pc |-> "none", auth |-> None]

AuthorizationTypeOK ==
    /\ pass \in LaunchRow
    /\ auth \in [Authorizations -> [status : {"none", "creating", "pending", "approved"},
                                    mver : Nat, code : Codes \cup {None}]]
    /\ ceremony \in [Ceremonies -> [pc : {"none", "begun", "verified", "issued", "dead"},
                                    auth : Authorizations \cup {None}]]
    /\ attested \in [Authorizations -> Codes \cup {None}]

AuthorizationInit ==
    /\ pass = [rev |-> 1, state |-> "approved", mver |-> 1, run |-> None]
    /\ auth = [a \in Authorizations |-> NoAuthorization]
    /\ ceremony = [c \in Ceremonies |-> NoCeremony]
    /\ attested = [a \in Authorizations |-> None]

-----------------------------------------------------------------------------
(* Create reads the binding of the approved pass and inserts the record    *)
(* later.  A repeated request replays the record and changes nothing.      *)
CreateReads(a) ==
    /\ auth[a].status = "none"
    /\ pass.state = "approved"
    /\ auth' = [auth EXCEPT ![a] = [status |-> "creating", mver |-> pass.mver, code |-> None]]
    /\ UNCHANGED <<pass, ceremony, attested>>

CreateInserts(a) ==
    /\ auth[a].status = "creating"
    /\ auth' = [auth EXCEPT ![a].status = "pending"]
    /\ UNCHANGED <<pass, ceremony, attested>>

(* beginBinding: a pending authorization whose pinned values are those of  *)
(* the approved pass.                                                      *)
beginBinding(a) ==
    /\ auth[a].status = "pending"
    /\ pass.state = "approved"
    /\ pass.mver = auth[a].mver

BeginBrowserDecision(c, a) ==
    /\ ceremony[c] = NoCeremony
    /\ beginBinding(a)
    /\ ceremony' = [ceremony EXCEPT ![c] = [pc |-> "begun", auth |-> a]]
    /\ UNCHANGED <<pass, auth, attested>>

(* FinishBrowserDecision consumes the ceremony; the assertion verifies and *)
(* the binding read again afterwards is the one the challenge carried.     *)
FinishBrowserDecision(c) ==
    /\ ceremony[c].pc = "begun"
    /\ beginBinding(ceremony[c].auth)
    /\ ceremony' = [ceremony EXCEPT ![c].pc = "verified"]
    /\ UNCHANGED <<pass, auth, attested>>

FinishRefused(c) ==
    /\ ceremony[c].pc = "begun"
    /\ ceremony' = [ceremony EXCEPT ![c].pc = "dead"]
    /\ UNCHANGED <<pass, auth, attested>>

(* Mutant of ApproveCLIAuthorization: the update is not conditional on     *)
(* approved_at IS NULL.                                                    *)
ApproveCLIAuthorizationAgain(c) ==
    LET a == ceremony[c].auth IN
    /\ ceremony[c].pc = "verified"
    /\ auth' = [auth EXCEPT ![a].status = "approved", ![a].code = c]
    /\ attested' = [attested EXCEPT ![a] = c]
    /\ ceremony' = [ceremony EXCEPT ![c].pc = "issued"]
    /\ UNCHANGED pass

(* The conditional update admits one finish: it stores the code hash, the  *)
(* attestation goes into the cache and the code to the CLI.  The pass is   *)
(* not looked at again.                                                    *)
ApproveCLIAuthorization(c) ==
    LET a == ceremony[c].auth IN
    /\ ceremony[c].pc = "verified"
    /\ IF auth[a].status = "pending"
       THEN /\ auth' = [auth EXCEPT ![a].status = "approved", ![a].code = c]
            /\ attested' = [attested EXCEPT ![a] = c]
            /\ ceremony' = [ceremony EXCEPT ![c].pc = "issued"]
       ELSE /\ ceremony' = [ceremony EXCEPT ![c].pc = "dead"]
            /\ UNCHANGED <<auth, attested>>
    /\ UNCHANGED pass

AuthorizationStep ==
    \/ \E a \in Authorizations : CreateReads(a) \/ CreateInserts(a)
    \/ \E c \in Ceremonies, a \in Authorizations : BeginBrowserDecision(c, a)
    \/ \E c \in Ceremonies :
          FinishBrowserDecision(c) \/ FinishRefused(c) \/ ApproveCLIAuthorization(c)

(* The process stops: requests, ceremonies and attestations are memory.    *)
AuthorizationsForgotten ==
    /\ auth' = [a \in Authorizations |->
                   IF auth[a].status = "creating" THEN NoAuthorization ELSE auth[a]]
    /\ ceremony' = [c \in Ceremonies |->
                       IF ceremony[c].pc \in {"begun", "verified"}
                       THEN [ceremony[c] EXCEPT !.pc = "dead"] ELSE ceremony[c]]
    /\ attested' = [a \in Authorizations |-> None]

=============================================================================
