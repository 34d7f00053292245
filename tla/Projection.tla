---------------------------- MODULE Projection ----------------------------
(***************************************************************************)
(* Event projection: the worker pages the authority's log and ApplyPage    *)
(* (internal/missionpass/events.go) applies each page to the row and the   *)
(* projection in one transaction, or not at all.                           *)
(***************************************************************************)
EXTENDS Mission

VARIABLES proj,    \* mission_projections: cursor and projected mission version
          work     \* per worker, where it is in its sweep and the page it holds

projectionVars == <<proj, work>>

(* poll works through the phases in this order.                            *)
Phases == {"idle", "project", "apply", "receipts", "verdict", "revocations",
           "list", "expansions"}

Work == [phase : Phases, from : Nat, to : Nat, verdict : {"none", "verified", "unverifiable"}]
Resting == [phase |-> "idle", from |-> 0, to |-> 0, verdict |-> "none"]

ProjectionTypeOK ==
    /\ proj \in [cursor : 0 .. Len(log), ver : Nat]
    /\ work \in [Workers -> Work]

ProjectionInit ==
    /\ proj = [cursor |-> 0, ver |-> 0]
    /\ work = [w \in Workers |-> Resting]

Phase(w, phase) == work' = [work EXCEPT ![w] = [Resting EXCEPT !.phase = phase]]

-----------------------------------------------------------------------------
(* The effect of one event on the row.                                     *)

Refused == [state |-> "refused"]

(* movePass: a pass already there, or already terminal, stays as it is; an *)
(* illegal move is an error.                                               *)
movePass(p, to) ==
    IF p.state = to \/ isTerminalPassState(p.state) THEN p
    ELSE IF ~Transition(p.state, to) THEN Refused
    ELSE [p EXCEPT !.state = to,
                   !.recon = IF to = "outcome_pending" THEN "settled" ELSE @]

applyReceipt(p) ==
    IF isTerminalPassState(p.state) \/ p.state = "outcome_pending" THEN p ELSE Refused

applyEventEffect(p, type) ==
    CASE type \in {"run_succeeded", "run_failed"} -> movePass(p, "outcome_pending")
      [] type = "mission_revoked" -> movePass(p, "revoked")
      [] type = "mission_expired" -> movePass(p, "expired")
      [] type = "expansion_requested" ->
            IF p.state = "running" THEN movePass(p, "awaiting_expansion") ELSE p
      [] type = "receipt_ready" -> applyReceipt(p)
      [] OTHER -> p

Larger(a, b) == IF a >= b THEN a ELSE b

(* The row after the events from + 1 .. n of the log: events up to the     *)
(* durable cursor are replays and have no effect, and an error is final.   *)
RowAfter(from, to) ==
    LET row[n \in from .. to] ==
          IF n = from THEN pass
          ELSE IF row[n - 1] = Refused \/ n =< proj.cursor THEN row[n - 1]
          ELSE applyEventEffect(row[n - 1], log[n].type)
    IN row[to]

versionFloor == Larger(proj.ver, pass.mver)

(* applyPageTx commits: no event of the page, replayed ones included, is   *)
(* below the version floor, and every effect is legal.                     *)
Applicable(from, to) ==
    /\ \A n \in from + 1 .. to : log[n].ver >= versionFloor
    /\ RowAfter(from, to) # Refused

(* Mutant of maxVersion: the floor is set past the last version seen.      *)
maxVersionPast(from, to) ==
    IF from = to THEN versionFloor ELSE Larger(versionFloor, log[to].ver) + 1

(* Versions in the log never decrease, so the last event has the largest.  *)
maxVersion(from, to) == IF from = to THEN versionFloor ELSE Larger(versionFloor, log[to].ver)

(* advanceProjection: cursor and version move forward only.                *)
advanceProjection(cursor, ver) ==
    proj' = [cursor |-> Larger(proj.cursor, cursor), ver |-> Larger(proj.ver, ver)]

-----------------------------------------------------------------------------
(* poll, one pass.                                                         *)

reconcilableState(s) == s \in {"running", "awaiting_expansion", "outcome_pending"}

StartPoll(w) ==
    /\ work[w].phase = "idle"
    /\ Phase(w, IF reconcilableState(pass.state) THEN "project" ELSE "receipts")
    /\ UNCHANGED <<missionVars, proj>>

(* The cursor is read, then the authority answers with the events after    *)
(* it, up to some point.                                                   *)
ReadEvents(w) ==
    /\ work[w].phase = "project"
    /\ \E to \in proj.cursor .. Len(log) :
          /\ to = proj.cursor => proj.cursor = Len(log)
          /\ work' = [work EXCEPT ![w].phase = "apply",
                                  ![w].from = proj.cursor, ![w].to = to]
    /\ UNCHANGED <<missionVars, proj>>

(* An error, or the limit of pages per sweep, ends this part of the sweep. *)
ReadEventsFailed(w) ==
    /\ work[w].phase = "project"
    /\ Phase(w, "receipts")
    /\ UNCHANGED <<missionVars, proj>>

(* A page that cannot be applied leaves no trace and ends the sweep of     *)
(* this pass; a page with events is followed by the next one.              *)
ApplyPage(w) ==
    LET from == work[w].from
        to == work[w].to IN
    /\ work[w].phase = "apply"
    /\ IF Applicable(from, to)
       THEN /\ pass' = RowAfter(from, to)
            /\ advanceProjection(to, maxVersion(from, to))
            /\ Phase(w, IF from = to THEN "receipts" ELSE "project")
       ELSE Phase(w, "receipts") /\ UNCHANGED <<pass, proj>>
    /\ UNCHANGED <<mission, log>>

ProjectionStep(w) ==
    StartPoll(w) \/ ReadEvents(w) \/ ReadEventsFailed(w) \/ ApplyPage(w)

=============================================================================
