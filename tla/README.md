# A TLA+ model of AuthScope OPE

AuthScope OPE is a single-founder server: the founder turns a GitHub issue into
a *mission pass*, approves it with a passkey, launches a governed agent run from
a CLI, decides the agent's requests for more authority, may revoke the mission,
and receives a signed receipt at the end. The authority over a mission is an
external service, AuthScope; the server keeps a SQLite database of what it
knows, and reconciles it with the authority after timeouts, crashes and races.

This directory models that core: the protocols between concurrent HTTP
requests, the reconciliation worker, the database and the authority, and around
it how a founder enrols, recovers and connects a repository.

## 1. Inventory

Paths are under `src/internal/` unless they start with `cmd/` or `web/`.

| Component | State it keeps | Operations | What makes it hard | What makes it correct |
|---|---|---|---|---|
| Pass lifecycle (`missionpass/model.go`) | `PassState`, `ReconciliationState` | `Transition`, `Revocable` | written by six services, only some of which ask `Transition` | terminal states stay, moves follow the table |
| Drafting (`missionpass/proposal.go`, `template.go`) | pass row, request-key claim, create intent | `CreateProposal`, `ReviseProposal`, `createUpstream`, `reconcileOperation` | no lock; the row is read before two remote calls and written after them | limits only narrow; the row holds the proposal the authority holds |
| Approval (`missionpass/approval.go`) | pass row, idempotency record, approval intent, `begun` map in memory | `Begin`, `Finish`, `approveOnce`, `settleApproval`, `ReconcileApproval` | two ceremonies, a revision and a reconciliation interleave; ambiguous answers | the approved mission is the one that was reviewed; three records settle together; approval is final |
| CLI authorization (`authn/pkce.go`, `store/cli_authorization.go`) | `cli_authorizations`, ceremonies and attestations in memory | `Create`, `BeginBrowserDecision`, `FinishBrowserDecision` | two browser finishes; restart loses the attestation | one code per authorization |
| Launch exchange (`launch/service.go`, `store/launch_exchange.go`) | `launch_exchange_intents`, delivery cache | `ExchangeAndPrepare`, `adoptArtifacts`, `reconcileOrphan`, replays | double submit, lost answer, client that disconnects, stale reservation, revocation under way | one `PrepareLaunch`, one run, only the original result is answered |
| Event projection (`missionpass/events.go`) | `mission_projection` cursor, timeline, pass row | `ApplyPage`, `applyEventEffect`, `movePass`, `applyReceipt` | events arrive after the row has moved on | the mission's end reaches the pass; versions never go back |
| Revocation (`missionpass/revoke.go`) | revocation intent, per-pass mutex, pass row | `Begin`, `Finish`, `revokeOnce`, `settleRevocation`, `ReconcileRevocation` | web, CLI and worker act on one intent; the worker takes no mutex | one call; containment is never overstated |
| CLI revocation hand-off (`missionpass/revoke.go`, `cli/revoke.go`) | `cli_revocations` | `Register`, `MintResult`, `Exchange` | two finishes carry one request; a lost answer of the exchange | one result per request; what the CLI reports is true |
| Expansions (`expansion/`) | `expansions`, expansion intents, per-expansion mutex | `syncExpansions`, `BeginDecision`, `FinishDecision`, `decideOnce`, `settleDecision`, `reconcileLocked` | a listing that is stale when it is applied; one pending row per mission; settlement racing sync, expiry and receipt | one decision; the record is the decision taken; what is pending is shown |
| Receipt (`receipt/`) | receipt view, `check_publications`, pass row | `VerifyReceipt`, `PublishVerifiedCheck`, `ReconcilePublication` | phase 1 reads, phase 3 writes; the first verdict is final; a publish call may land late | an ended pass agrees with the receipt; one check per receipt, accounted for by an intent that settles |
| Reconciliation worker (`reconcile/worker.go`) | worker lease, backoff | `Run`, `poll` and its steps | the order of a sweep; the lease | everything pending is settled in the end |
| Store (`store/`) | SQLite, one transaction per `WithTx` | compare-and-swap, upserts, guarded completions | which statement guards what | atomicity of each settlement |
| Passkeys, sessions, bootstrap (`authn/`, `store/authn.go`) | ceremonies in memory; codes, founders, credentials, sessions, offline key | `EnsureBootstrapCode`, `Begin`, registration, `BeginRecovery`, `Complete`, login, decision assertions | several ceremonies under one code; two assertions on one counter | one founder, with two independent ways in; counters advance |
| Recovery (`recovery/service.go`, `store/recovery.go`, `cli/recover.go`) | recovery intent, key, event | `ResetOffline` step by step | the command ends after any step and is run again | containment before the reset; nothing of the old founder survives; nobody is locked out |
| GitHub connection (`github/handoff.go`) | hand-off rows, idempotency records, connections, code cache, lock table | `Begin`, `RecordCallback`, `Finish` and their reconciliation | racing callbacks, late calls, a full cache, a lost cache | the recorded code makes the binding; a settled finish is what the authority did |
| GitHub source (`github/source.go`) | posture | reading issues | I/O | |
| Compatibility gate (`coreapi/compatibility.go`) | last verification, latch, in memory | `Verify`, `NoteProjectionIncompatible`, `GatedAuthority` | a latch that only the process remembers | no mutation while a projection is incompatible |
| Trust, attestation (`trust/`, `identity/`) | pinned keys | verify, attest | cryptography | signatures |
| AuthScope client (`coreapi/`) | none | one call per operation, 15 s timeout | a call that fails may be applied, now or later | idempotency keys |
| HTTP API, CLI, telemetry, config, main, `web/` | none of a mission | decode, route, render | I/O | |

Interaction. HTTP handlers call the services; each service reads and writes the
pass row in the store and calls the authority; the worker calls the same
services from its sweep. All of them meet in one row of `mission_passes`, and
in the intent tables that mark a call that may have been sent.

## 2. Modules

```
PassStates <- Lifecycle                      (abstract specification)
PassStates <- Approval <- ApprovalProofs
                       <- MCApproval
PassStates <- CLIAuthorization <- Launch <- LaunchProofs
                                         <- MCLaunch
PassStates <- Mission <- Projection, Expansion <- Receipt
              Mission <- Revocation <- CLIRevocation
                         Receipt, CLIRevocation <- MissionRun <- MCMissionRun
                                                   MissionRun <- MissionRunProofs <- ExpansionProofs
Identity <- Recovery <- RecoveryProofs
                     <- MCRecovery
GitHubHandoff <- GitHubProofs
              <- MCGitHub
Gate, WorkerLease <- Publication <- PublicationProofs
                                 <- MCPublication
```

* **PassStates** is `model.go`: states, transition table, `Revocable`, terminal
  states. **Lifecycle** is what the services promise of them: the state moves
  along the table and in no other way. `MissionRun` (without expansions) and
  `Launch` refine it, with `state <- pass.state`.
* **Approval** has one pass and any number of handlers. `req[h]` is a request
  with its program counter and the row it read; each action is what happens
  between two points where another request can interleave (a store transaction,
  a remote call). `pass` carries `store_revision`, so `PutMissionPass` is the
  compare-and-swap of `putMissionPass`. `idem` and `intent` are the two other
  records of `settleApproval`; `shown` and `begun` are the ceremonies; `created`
  and `ops` are what the authority holds under each idempotency key; `late`
  holds calls whose caller gave up.
* **CLIAuthorization** is the browser hand-off: `auth` is the
  `cli_authorizations` row, `ceremony` the passkey ceremony together with the
  finish request that consumes it, `attested` the one-use attestation cache. A
  code is named by the ceremony that minted it.
* **Launch** adds the exchange: `intent` is `launch_exchange_intents`, `xreq` a
  request under the lock of its code, `aged` says which rows are older than
  `launchExchangeStaleAfter`, `delivery` is the cache, `mission` and `late` the
  authority. `RequestEnds` is a request that fails a check, or whose client went
  away: with its context done no transaction begins, so the best-effort
  `settleInTx` writes nothing and the row stays in flight. The two writes of
  the row a revocation makes are this module's environment.
* **Mission** holds what the services of a running mission share: the row, the
  mission at the authority and its event log. **Projection**, **Revocation**,
  **Expansion** and **Receipt** are one service each. **MissionRun** composes
  them: requests, `Sweep` (the worker, in the order of `poll`: project, verify
  receipts, reconcile revocations, reconcile expansions), the authority, `Crash`.
  A transaction of these services reads the row before it writes it, so
  `store_revision` never refuses a write there and is left out. In Expansion a
  sync is three steps: it reads the list, stores what is pending, resolves what is
  not any more. `SyncPut` keeps the unique index on pending rows, so it may end
  the sync with a conflict; `ExpansionLapses` is a request of `Lapsing` that
  expires at the authority. A read of the timeline reconciles a revocation without
  the mutex, as the worker does, and counts as a member of `Workers` in this.
* **CLIRevocation** puts the hand-off of `cli/revoke.go` around Revocation:
  `cliRow` is the `cli_revocations` row, `cli` a run of the command, `serves` the
  CLI request a finish carries. `AnswerFinish` is the end of `handleRevokeFinish`,
  where the result code is minted; the browser may or may not follow the redirect
  that delivers it.
* **Identity** is the founder's authentication: bootstrap codes, enrolment
  ceremonies with the passkeys they stage, the offline key, `Complete`, login,
  sessions, and the assertions of decisions, which write the same counter as a
  login (what is decided is in the other modules). `lock` is the exclusive lock of
  the data directory. Bytes and the text
  that displays them are different values, and the hash of a value is the value.
  **Recovery** adds the `recover` command, `rproc`, one action per write or
  call of `ResetOffline`, with `RecoverEnds` after any of them, and the missions
  and containments of the authority.
* **GitHubHandoff** is `handoff.go`: `row`, `idem` and `connections` are durable,
  `codes`, `entry` and `holder` (the lock table with its mutexes) and the requests
  are memory, `begun`, `bound` and `late` are the authority.
* **Gate** is the compatibility gate, **WorkerLease** the lease. **Publication**
  composes them with the worker's sweep over several passes: an event of an
  unknown type rolls its page back, marks the projection and latches the gate in
  three steps; a verified receipt gets its intent, its gated call, its settlement; the
  end of the sweep reconciles the intents in flight. The process may crash or
  shut down between any two steps.

A remote call that changes state has these outcomes everywhere: it is answered;
it fails after it was applied; it fails while it is under way and is applied
later; it is lost or refused. A crash drops requests, ceremonies, caches and
locks, and keeps the store and the authority.

Operators whose comment begins with "Mutant of" are altered forms of the
definition that follows them. They are not used by any specification; each shows
that a property notices the bug it describes.

### Abstractions

* The two editable limits of a draft are one number, and a revision lowers it.
* Names stand for content: a proposal is its draft version and limits, a mission
  is its proposal, a run is its code, an attestation is its ceremony.
* Of the values an authorization pins, the mission version is the one that can
  move; the others are immutable once the pass is approved.
* Checks that only read (template, GitHub source, posture, agent kit, lifetimes,
  verifier, signature of a receipt, isolation profile) are a request that may
  end early.
* No code moves a pass from `launching` to `running` in this version, so
  `MissionRun` starts at `running`, the state its services expect.
* `disputed` is declared for passes and never written. Backoff, the page limit
  and the worker's set of incompatible passes only delay a sweep.
* Unknown event types and the gate are in Publication. In the other modules a
  call the gate refuses is a call that fails without effect, which every call may.
* Of a pass, Publication keeps its way to the receipt; revocations and expansions
  are in MissionRun. A verification of the gate succeeds or fails; what it
  compares is left out.
* A transaction of the store does not fail.
* A request refused without an effect is not a step in Identity and GitHubHandoff,
  and a ceremony, session or hand-off that has expired takes none.
* The receipt of a mission does not change once it is ready, so reading it and
  reading the binding are one step. All receipts of the model are genuine.
* The authority numbers its events; how the store compares cursors as strings is
  left to the hazard list.
* The stripe lock of the launch exchange is a lock per code: a collision of two
  codes only removes interleavings.

## 3. Runs

| Run | Instance | Shows |
|---|---|---|
| MCApproval | 2 handlers, 2 ceremonies, 3 draft versions, requests on 2 row revisions, 1 crash | `TypeOK`, `ApprovedAsReviewed`, `SettledTogether`, `KeyMeansOneProposal`, `RowHoldsUpstreamProposal`, `ApprovalIsFinal`, `RevisionsNarrow` |
| MCLaunch | 2 authorizations, 3 ceremonies, 2 exchanges, 1 crash | `TypeOK`, `OnePrepareCall`, `LaunchedByOneCode`, `OriginalResult`, `LaunchFollowsLifecycle` |
| MCRevoke | 2 revokers, 2 ceremonies, 1 CLI, worker, 1 crash | `TypeOK`, `OneRevokeCall`, `ContainmentHonest`, `RevokedMeansUpstream`, `CLIReportsTruth`, `FollowsLifecycle` |
| MCExpansions | 2 deciders, 2 ceremonies, 2 expansions, worker | `OneDecideCall`, `DecisionRecordedAsDecided`, `EndedPassAgrees`, `MissionVersionAdvances` |
| MCMissionEnd | 1 revoker, 1 expansion that may lapse, worker, fairness | `MissionEndEndsPass` |
| MCRecovery | 3 requests, 2 enrolments, 2 passkeys with counters up to 1, 3 codes, 1 mission | `TypeOK`, `OneFounder`, `IndependentRecovery`, `NothingSurvivesRecovery`, `ContainedBeforeReset`, `CounterAdvances` |
| MCGitHub | 2 requests, 2 hand-offs, 3 keys, 2 codes, 1 session, cache of 1, 1 crash | `TypeOK`, `OneHandoffPerInstallation`, `FirstCodeOrNone`, `BoundByRecordedCode`, `SettledAsBound` |
| MCPublication | 2 passes, 1 restart, fairness | `TypeOK`, `CheckIsAccountedFor`, `OneCheckPerReceipt`, `PublicationSettles` |
| MCTerminal | 1 decider, 1 expansion, worker | violation of `TerminalStaysTerminal` |
| MCDisplayedKey | 1 enrolment, 1 recovery | violation of `DisplayedKeyRecovers` |
| MCApplied | 2 handlers, 2 ceremonies, 1 crash, fairness | violation of `AppliedApprovalReconciles` |
| MCPendingShown | 1 decider, 2 expansions that may lapse, fairness | violation of `PendingIsShown` |

Bounds. Every race of the code is between two requests, or a request and the
worker, over one row; two of each actor, and two ceremonies where a second one
matters, make each race happen. Three ceremonies over two authorizations let one
authorization be finished twice while the other competes for the pass. Two draft
versions let an approval meet a revision; the third lets two revisions follow one
another. One crash is enough to separate any two steps of a request; a second one
would only repeat the empty memory of the first. `MaxRevision` stops new requests
on a row that has been written often, `MaxEvents` stops routine events; neither
cuts a request short.

In MCExpansions `Syncers` holds one of the two deciders: it lists and begins, both
finish. So the two finishes race with each other, with the listing and with the
worker; two listings at once, a crash in a decision and a request that lapses beside
decisions are left to the proofs, which have any set of `Syncers` and `Lapsing` and
any number of crashes.

In MCRecovery three requests complete two enrolments and log in beside each
other, or one enrols and two are verified against the same counter. Three codes
allow an enrolment, a recovery and the enrolment after it, since the next start
replaces the code the command printed, or restarts that replace the first one; the
command may be run any number of times. A ceremony that is still open when another one has enrolled the founder
can only fail, as its code is consumed; the state constraint `LeftOversEnd` follows
it until there is a mission or a CLI hand-off. In MCGitHub
a cache of one code makes every second callback evict, two hand-offs share it,
and three keys allow two begins and a finish, or a begin and two finishes; a
second session would only be refused by the comparison with the row, and two
hand-offs that both finish need a fourth key, which is out of reach (the effect
is described below). In MCPublication one pass can latch the gate while the other
publishes, and one restart leaves a lease behind.

Deadlock is not checked in the runs of Approval, Launch, Recovery and
GitHubHandoff: a pass that is approved, and requests, codes and keys that are
used up, have nothing left to do.

### Fairness

* A request that was started runs on, because every remote call has a timeout:
  weak fairness of its steps.
* The worker polls for as long as the server runs: weak fairness of `Sweep`.
* An authority that is asked again and again answers again and again: strong
  fairness of the reads the worker repeats in every sweep (events, receipt,
  revocation and expansion lookups), and of the lookup of a pending approval.
* A pending draft is read again, since the pass page reconciles when it is
  shown. Requests do not wait for one another: a handler of the model that is busy
  with another request is no reason for the reading not to come. So strong
  fairness of `ReconcileApproval`.
* In MCPendingShown the founder lists the expansions again and again: strong
  fairness of `ListPending` in addition. The property fails even so.
* In Publication: a server that stopped is started again, a lease that nobody
  renews expires, an operation the authority has begun ends, and
  `ReconcileOperation` does not fail for ever. `Run` chooses among ready ticks at
  random, so a heartbeat that keeps losing its lease does not keep it from
  polling for ever: strong fairness of `StartPoll`.

Nothing else is assumed of founders, and nothing of runners, mutating calls, the
gate or crashes.

### What the violations show

* **MCTerminal.** `settleDecision` writes `running` for every approval with a
  newer version. When the mission expired while the decision was in flight, the
  expired pass runs again.
* **MCDisplayedKey.** Enrolment stores the hash of the raw bytes of the offline
  key and displays them in base64url. The `recover` command hashes the text that
  is typed. The founder who types what was displayed is refused; only the decoded
  bytes would pass. The other runs of Recovery therefore let any bytes be typed.
* **MCApplied.** The intent is written before the call so that a crash after it
  reconciles. But the row is marked `pending` only after the call failed, and
  `ReconcileApproval` returns unless it is (`approval.go:560`): after a crash
  between the two the row is still `settled`, no reading looks at the intent, and
  the mission is not adopted. A row that was marked is no safer with two ceremonies
  over the draft: the second writes its attestation into the intent while the call
  of the first may have been applied, the replay carries the second under the key of
  the first, and an authority that compares refuses it.
* **MCPendingShown.** `syncExpansions` stores pending requests before it resolves
  the rows that are pending no longer. If a request lapses at the authority and
  another follows, the insert conflicts with the old row, the sync ends with an
  error before it resolves that row, and so does every sync after it. The second
  request is neither listed nor decided.

### Further behaviour of the models

These are traces of the modules of section 2, kept here because no run states them:

* A denied expansion settles and leaves the pass in `awaiting_expansion`; only
  later events move it.
* A revocation call that was lost leaves an intent which is looked up and not
  issued again, by the worker and by a second ceremony.
* A revocation settled by the worker records containment `pending` and completes
  the intent; no event effect updates it when the authority acknowledges.
* A listing of expansions read before a request was stored resolves the row of
  that request, although it is pending at the authority.
* After a failed approval and a revision, the approval intent has the
  attestation of the new draft and the idempotency key of the old one.
* A draft whose approval was applied and answered by an error can be revised
  and approved again.
* An approval that settles a newer mission version before older events are
  projected puts those events below the version floor.
* A `PrepareLaunch` whose answer and whose lookup both fail settles the exchange
  as failed, although the run may exist.
* A sync that sees a decided expansion resolves the local row first;
  `settleDecision` then refuses the row in every sweep (`expansion/service.go:771`)
  and the intent stays in flight.
* A sweep verifies the receipt before it reconciles expansion intents
  (`worker.go:301`). A decision in flight is missing from the binding, so a
  genuine receipt gets the final verdict `unverifiable`.
* `ReconcileRevocation` returns neither a result nor an error when the outcome is
  unknown, and a finish that joins such an intent answers success without a
  result; with a CLI request the handler dereferences it.
* A crash between the verdict and the publication intent leaves a completed pass
  without a check: `verifyReceipts` looks only at passes that are
  `outcome_pending`, and `reconcileCheckPublications` only at intents
  (`worker.go:352`).
* A publish call that the gate refused, or that was lost, has no operation
  upstream. `ReconcilePublication` gets a 404 and disputes the intent, so it is not
  published again; a call that lands later makes a check whose intent is disputed.
* The latch of the gate is memory. After a restart the page of a marked pass is
  refused without latching again, so mutations pass although the projection is
  incompatible (`compatibility.go:291`, `events.go:250`).
* An attempt to recover that resumes from `verified_empty` resets without listing
  the missions again (`recovery/service.go:430`); a mission approved between the
  two attempts is active after the recovery, and `ContainedBeforeReset` speaks only
  of those the containment covered. A containment replayed under its key does not
  cover it either.
* The code a recovery prints is replaced at the next start of the server
  (`main.go:247`).
* `Complete` reads the ceremony without its lock: a registration staged after its
  transaction is acknowledged and lost. A recovery passkey whose registration
  failed leaves the ceremony unable to choose another method (`bootstrap.go:207`).
* The loser of two concurrent callbacks clears the cached code of the winner, and
  the hand-off has to be begun again (`handoff.go:592`).
* The lock table of hand-offs (`entry` of GitHubHandoff) drops a mutex while a
  waiter holds it (`handoff.go:217`), so two finishes with different keys can be in
  the upstream call together; the authority's own one-use rule decides.
* `settleFinish` replaces connections listed outside its transaction: two
  hand-offs finishing at once can leave two connections.

### Behaviour outside the models

Read in the code, and in no module:

* `worker.Run` returns when a lease transaction fails, and `runServe` does not
  look at it until shutdown: the server then runs without a worker. A transaction
  of the models does not fail.
* Two requests that find the same dangling claim of a request key can both take
  it over, since the delete names only the key (`proposal.go:321`); the claim is
  not modelled.

## 4. Proofs

Every safety invariant, every action property and both refinements that a
passing run checks are also proved, for every value of the constants: any number
of requests, ceremonies, passes, expansions, events and crashes. The run shows a
property on an instance where its hazard happens; the theorem says that the
instance was not too small.

All proofs have one shape. The property is not inductive. An invariant says what
each record means and what each request may rely on between two of its steps;
`Init` establishes it, every action preserves it (one lemma per action or group
of actions, named in the proof of the theorem), and the property follows from it.
Each inductive invariant was model-checked as well before it was proved.

| Module | Theorem | States |
|---|---|---|
| ApprovalProofs | `ApprovalInvariant`, `ApprovalTypeOK` | `[]IInv`, `[]TypeOK` |
| | `ApprovedMissionIsReviewed` | `[]ApprovedAsReviewed` |
| | `ApprovalSettlesTogether` | `[]SettledTogether` |
| | `RowProposalIsUpstream` | `[]RowHoldsUpstreamProposal` |
| | `IdempotencyNeverMismatches` | `[]KeyMeansOneProposal` |
| | `ApprovedRowIsFinal` | `ApprovalIsFinal` |
| | `DraftsOnlyNarrow` | `RevisionsNarrow` |
| LaunchProofs | `LaunchInvariant`, `LaunchTypeOK` | `[]IInv`, `[]TypeOK` |
| | `PreparedOnce` | `[]OnePrepareCall` |
| | `RowAndIntentAgree` | `[]LaunchedByOneCode` |
| | `OnlyTheOriginalResult` | `[]OriginalResult` |
| | `LaunchImplementsLifecycle` | `LaunchFollowsLifecycle` |
| MissionRunProofs | `InvariantHolds`, `TypeCorrect` | `[]IInv`, `[]TypeOK` |
| | `RevokedOnce` | `[]OneRevokeCall` |
| | `RowContainmentHonest` | `[]ContainmentHonest` |
| | `RowRevokedUpstream` | `[]RevokedMeansUpstream` |
| | `CommandReportsTruth` | `[]CLIReportsTruth` |
| | `RowFollowsLifecycle` | `FollowsLifecycle`, where `Expansions = {}` |
| ExpansionProofs | `DecisionsHold`, `VersionsHold`, `ReceiptHolds` | `[]DecisionsOK`, `[]VersionsOK`, `[]ReceiptOK` |
| | `DecidedOnce` | `[]OneDecideCall` |
| | `RecordedAsDecided` | `[]DecisionRecordedAsDecided` |
| | `RowVersionAdvances` | `MissionVersionAdvances` |
| | `EndedPassHasReceipt` | `[]EndedPassAgrees` |
| RecoveryProofs | `InvariantHolds`, `TypeCorrect` | `[]IInv`, `[]TypeOK` |
| | `SingleFounder` | `[]OneFounder` |
| | `NobodyLockedOut` | `[]IndependentRecovery` |
| | `RecoveryResets` | `[]NothingSurvivesRecovery` |
| | `RecoveryContains` | `[]ContainedBeforeReset` |
| | `LoginsAdvanceCounter` | `CounterAdvances` |
| GitHubProofs | `InvariantHolds`, `TypeCorrect` | `[]IInv`, `[]TypeOK` |
| | `HandoffsUnique` | `[]OneHandoffPerInstallation` |
| | `CachedCodeRecorded` | `[]FirstCodeOrNone` |
| | `BindingsUseRecordedCode` | `[]BoundByRecordedCode` |
| | `FinishesAgree` | `[]SettledAsBound` |
| PublicationProofs | `InvariantHolds`, `TypeCorrect` | `[]IInv`, `[]TypeOK` |
| | `ChecksAccountedFor` | `[]CheckIsAccountedFor` |
| | `ChecksMadeOnce` | `[]OneCheckPerReceipt` |

### Assumptions

Beside bounds that are natural numbers and null values that are not members of the
sets they stand beside, the proofs assume: `MaxLimit` and `MaxCachedCodes` are
positive, as the constants of the code are; `Requests` and `Handoffs` of
GitHubHandoff are finite, as a process has finitely many of each (the bound of the
code cache counts its entries). `RowFollowsLifecycle` has the hypothesis
`Expansions = {}`, and needs it: with an expansion `settleDecision` makes an
expired pass run again, which is what MCTerminal shows. The rest are the
abstractions of section 2. One of them carries an argument: the authority keeps
one expansion open per mission (`MaxPendingExpansions` in `template.go`, and the
note on `list_expansions` in `contracts/ope-required-capabilities.json`);
`RowVersionAdvances` rests on it.

### Approval

* `Snapshot`: what a request read is no newer than the row, and is the row itself
  when the revisions agree. This is what the compare-and-swap buys, and with it
  every write of a stale request is refused.
* `GoodCall`: an approval, whether it is recorded at the authority, still under
  way or about to be sent, names the proposal the authority holds under its key,
  and its ceremony showed that proposal to the founder.
* `DraftingOK`: a drafting request moves to the next version with narrower
  limits; `ver + lim =< MaxLimit + 1` bounds versions by the limits left.
* `RecordsOK`, `CallsOK`: idempotency records and recorded calls agree with the
  proposals created.

What the authority has created and shown only grows (`Mono`), so the facts about
requests other than the moving one are stable (`OtherRequests`, `RequestStable`);
each action then has to establish its own request and the part of the store it
writes.

### Launch

`AuthOK` names a code by its authorization and `LockOK` gives each code one
request. So a request at `take` or `prepare` may rely on no call having been made
(`RequestOK`), and once there was a call the code has an intent, which sends every
later request elsewhere (`CallsOK`). `RunsOK` ties the row, the completed intent
and the authority's run to one code; a run is adopted only while the row is still
approved, and adoption writes row and intent in one transaction. `AnswersOK`
extends this to what was delivered or is cached. The refinement needs of it only
the types: each write of the row checks the state that it replaces.

### A running mission

`IInv` of MissionRunProofs is built on what the authority never takes back
(`Forward`: revoked stays revoked, acknowledged stays acknowledged).

* `RevokeOK`: at most one request is between the mutex and the call, it finds no
  intent when it writes one and no call when it calls, and no intent means no
  call. The worker takes no mutex but never issues a call.
* `Truthful`: a containment that anyone holds (a request that is answering, a
  result row, a report of the command) is backed by an intent and by the
  authority. Since the authority only moves forward, it stays true however late
  it is read.
* `RowOK`, `MissionOK`: the row is revoked only when the mission is, and an event
  `mission_revoked` exists only then.
* `BindingsOK`: what is decided has a name and a decision.

A page of events is applied by the recursive function `RowAfter`. That it only
moves the row along the table, and makes it revoked only by an event of the page
(`PageFollows`), is an induction over the length of the page. It is proved by
least counterexample: `LeastMember` takes the smallest event number at which the
claim fails, from the well-foundedness of `<` on the naturals, and `StepFollows`
contradicts it. `MovesCompose` is the fact about the table that makes moves by
several events one move.

### Expansions and the receipt

ExpansionProofs adds three invariants, each inductive relative to `IInv`.

* `DecisionsOK`: the mutex of an expansion has one holder; a holder that calls
  wrote the intent and found no call; what the authority decided is what the
  intent says; a completed intent is recorded in the expansions row.
* `VersionsOK`: `settleDecision` overwrites the mission version whenever the pass
  is not running, so nothing local keeps it from moving back. What does is the
  order of decisions: a binding was requested at a version that the row had
  reached (`CoverOK`), of two expansions the one approved first was approved
  before the other was requested (`InOrder`), and the version of an approval that
  is not settled is ahead of the row (`Dated`).
* `ReceiptOK`: the log holds one outcome (`OutcomesOK`), and a verdict of
  `verified`, in the worker's hand or stored, means that every decision of the
  authority has a completed intent and no other intent is completed (`Complete`).
  A mission with a receipt takes no more decisions, so this is stable through late
  calls and settlements.

### Recovery

`FounderOK` says that from the first start on a workspace has either one founder
or a code to enrol with, and never both. `BootOK`, `Ready` and `RequestOK` follow an enrolment
through its two passkeys or its offline key up to `Complete`, so that what is
committed has an independent method (`RecoverableOK`). A request whose ceremony
was dropped under it lost to another that committed, so its code is gone.
`IntentOK` and `ProcessOK` say what each state of the recovery intent has seen of
the authority: contained, then verified empty, then completed. A login or a decision
that was verified is of a passkey whose founder is enrolled (`RequestOK`), and what it
was verified against may be stale: `LoginsAdvanceCounter` rests on the comparison in
the transaction that writes. The counts in the
properties are finite because what a founder enrolled is (`IsFiniteSet` in
`BootOK` and `RecoverableOK`); the sets of requests and passkeys need not be.

### GitHub hand-off

`RowOK` and `RecordOK` give every hand-off row the completed record of the begin
that made it, hence one row per installation. `FinishCall` is what a finish may
send: the recorded code of the row under a record of that row; it holds of calls in
flight and late calls alike, and so of every binding (`BoundOK`). `CodeOK` allows a
cached code that was not recorded only while the callback that cached it will still
record or forget it. `HolderOK` ties a mutex to the request that holds it. It does
not say that a hand-off has one mutex, because the lock table drops mutexes that
are waited for; `FinishesAgree` holds without it, by the authority's one-use rule.

### Publication

`WorkerOK` says what the worker relies on in each phase of its sweep: in `publish`
and `republish` the pass in hand has an intent, in `settle` with the result
`settled` its check exists. `CallsOK` says that checks, late calls and operations
carry the key of an intent, and that the key of a pass is one
(`PublicationIDKey`).

### Model-checked only

* The liveness properties `MissionEndEndsPass` and `PublicationSettles`: they need
  fairness and `ENABLED`, which the prover does not handle.
* The four violations: a counterexample is a trace.

## 5. What is not modelled

* Cryptography (receipt and envelope signatures, key history, attestations) and
  encodings: a signed value is what it says.
* GitHub reads, HTTP routing, rendering, CLI, telemetry, configuration, web UI:
  input and output around the modelled services.
* Store migrations. That one process owns the data directory is the `lock` of
  Identity, and assumed elsewhere.
* The claim of a request key when a draft is opened (`claimRequestKey`,
  `awaitPassRow`).
* `BeginSessionRegistration`, `RevokeSession`, `SetGitHubHandoffUpstream`,
  `MarkProjectionCompatible`, `ClearProjectionIncompatible` and
  `MarkCheckPublicationsDisputedExcept`: no code calls them.
* Posture checks of a connected repository (`source.go`): a slow check that
  overwrites a newer result is outside the modelled state.

## 6. Plan

Modelled and checked: every module of section 2. Proved: every safety property,
action property and refinement of the passing runs.

Next:

1. An abstract specification of the intent protocol that `revokeOnce`,
   `decideOnce` and the launch exchange share (intent, call, lookup, settlement:
   at most one call, settled as applied), with Revocation and Expansion shown to
   implement it.
2. The lifecycle with expansions: a weaker abstract specification which names the
   one extra move that `settleDecision` makes, refined by MissionRun without the
   hypothesis `Expansions = {}`.
3. The claim of a request key when a draft is opened, as a module of its own
   beside Approval.
