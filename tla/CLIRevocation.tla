--------------------------- MODULE CLIRevocation ---------------------------
(***************************************************************************)
(* The result-only hand-off of a revocation to the CLI: cli/revoke.go      *)
(* registers a request, the founder finishes the ceremony of module        *)
(* Revocation in the browser with the identifier of that request, the      *)
(* handler of the finish mints a one-use code over the result, and the CLI *)
(* exchanges the code for the containment it reports.                      *)
(*                                                                         *)
(* A request, and the one code minted for it, is named by the CLI run that *)
(* registered it.                                                          *)
(* The digest of a request is the mission version it covers.  Reading the  *)
(* pass and inserting a row that depends on it is one step: the row is not *)
(* read before.                                                            *)
(***************************************************************************)
EXTENDS Revocation

CONSTANTS CLIs,   \* runs of the revoke command
          NoCLI   \* the finish of a founder who came without one

ASSUME CLIAssumption == NoCLI \notin CLIs

VARIABLES cliRow,   \* cli_revocations
          cli,      \* the CLI runs: what each waits for, and what it reported
          serves    \* memory: the CLI request a finish request carries

cliVars == <<cliRow, cli, serves>>

NoCLIRow == [ver |-> 0, expired |-> FALSE, result |-> "none"]
NewCLI   == [pc |-> "start", report |-> "none"]

CLIRevocationTypeOK ==
    /\ cliRow \in [CLIs -> [ver : Nat, expired : BOOLEAN, result : Containment]]
    /\ cli \in [CLIs -> [pc : {"start", "listening", "code", "done"}, report : Containment]]
    /\ serves \in [Revokers -> CLIs \cup {NoCLI}]

CLIRevocationInit ==
    /\ cliRow = [c \in CLIs |-> NoCLIRow]
    /\ cli = [c \in CLIs |-> NewCLI]
    /\ serves = [h \in Revokers |-> NoCLI]

-----------------------------------------------------------------------------
(* The CLI listens on a loopback port and registers the pass; the answer   *)
(* may be lost, which ends the run.                                        *)
Register(c) ==
    /\ cli[c].pc = "start"
    /\ Revocable(pass.state)
    /\ cliRow' = [cliRow EXCEPT ![c].ver = pass.mver]
    /\ \E label \in {"listening", "done"} : cli' = [cli EXCEPT ![c].pc = label]
    /\ UNCHANGED <<missionVars, revocationVars, serves>>

RequestExpires(c) ==
    /\ cliRow[c].ver > 0 /\ ~cliRow[c].expired
    /\ cliRow' = [cliRow EXCEPT ![c].expired = TRUE]
    /\ UNCHANGED <<missionVars, revocationVars, cli, serves>>

(* The request a finish carries is looked up before anything is revoked.   *)
Lookup(c) == cliRow[c].ver > 0 /\ ~cliRow[c].expired

(* handleRevokeFinish up to the end of the ceremony.  A finish that fails  *)
(* there answers its error at once.                                        *)
handleRevokeFinish(h, challenge, c) ==
    /\ c # NoCLI => Lookup(c)
    /\ RevokeFinish(h, challenge)
    /\ serves' = [serves EXCEPT ![h] = IF revokeReq'[h].pc = "idle" THEN NoCLI ELSE c]
    /\ UNCHANGED <<cliRow, cli>>

(* MintResult: the request still covers the mission version of the pass,   *)
(* and the update affects only a row without a result.                     *)
MintCLIRevocationResult(c, containment) ==
    /\ Lookup(c)
    /\ cliRow[c].ver = pass.mver
    /\ cliRow[c].result = "none"
    /\ cliRow' = [cliRow EXCEPT ![c].result = containment]

(* Mutant of resultContainment: an uncertain revocation counts as done.    *)
AcknowledgeUncertain(outcome) == IF outcome = "unknown" THEN "acknowledged" ELSE outcome

(* ErrRevokePending is handed over as a pending containment.               *)
resultContainment(outcome) == IF outcome = "unknown" THEN "pending" ELSE outcome

(* The finish answers.  With a CLI request the code goes to the loopback   *)
(* callback in a redirect the browser may not follow.  A nil result is     *)
(* dereferenced, which ends the handler as an error does.                  *)
AnswerFinish(h) ==
    LET c == serves[h]
        outcome == revokeReq[h].cont
    IN  /\ revokeReq[h].pc = "answer"
        /\ \/ /\ c # NoCLI /\ outcome \notin {"error", "null"}
              /\ MintCLIRevocationResult(c, resultContainment(outcome))
              /\ \/ cli[c].pc = "listening" /\ cli' = [cli EXCEPT ![c].pc = "code"]
                 \/ UNCHANGED cli
           \/ UNCHANGED <<cliRow, cli>>
        /\ revokeReq' = [revokeReq EXCEPT ![h] = RevokeIdle]
        /\ serves' = [serves EXCEPT ![h] = NoCLI]
        /\ UNCHANGED <<missionVars, revokeBegun, revokeIntent, revokeCalls, revokeLate>>

(* Exchange: until the row expires its code gives the same result again    *)
(* and again (result_consumed_at is written and never read).  The answer   *)
(* may be lost.                                                            *)
Exchange(c) ==
    /\ cli[c].pc = "code"
    /\ ~cliRow[c].expired
    /\ \E report \in {cliRow[c].result, "none"} :
           cli' = [cli EXCEPT ![c] = [pc |-> "done", report |-> report]]
    /\ UNCHANGED <<missionVars, revocationVars, cliRow, serves>>

(* The CLI is cancelled, or the wait for the callback times out.           *)
CLIEnds(c) ==
    /\ cli[c].pc \in {"listening", "code"}
    /\ cli' = [cli EXCEPT ![c].pc = "done"]
    /\ UNCHANGED <<missionVars, revocationVars, cliRow, serves>>

CLIStep(c) == Register(c) \/ RequestExpires(c) \/ Exchange(c) \/ CLIEnds(c)

=============================================================================
