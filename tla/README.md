# Signatures.gallery: models and proofs

Signatures.gallery sells one thing with care: a mint of a handle's signature.
For a handle somebody proves a wallet, the server pays for one X lookup and one
Grok assessment, prepares an artwork from the answer, and signs a voucher that a
contract redeems once. Money is spent at providers that can neither be rolled
back nor asked what they did, and a voucher that was given away cannot be taken
back by the server. The modules here model the code that has to get this right,
TLC checks them on small instances, and TLAPS proves the properties that matter
for every value of the constants.

## 1. Inventory

Paths are relative to `src/src/` unless they begin with `contracts/`.

### The open mint on one machine (`openMint/`)

| Part | State | Operations | What must hold |
|---|---|---|---|
| `assessmentOperations.ts`, the paid ledger | one file per key: `attempt:`, `receipt:`, `budget:paid_v1`, `budget:<day>`, `recovery:`, `recoverylink:`, `recoveryattempt:`, `recoveryhead:` | `admit`, `execution` (before a dispatch, receipt, identity, outcome, link), `fail`, `artifactOutcome`, `previewRecovery`, `stageRecovery` | no leg is called twice; every call is on record before it is made; spending stays within the exposure limit; nothing that is written makes a later reader fail |
| `assessment.ts`, `assessmentStore.ts` | the published assessment of a handle | `assess`: identity, Grok, receipt, outcome, `putIfAbsent`, link | the first result is the last one; a paid result is not lost |
| `service.ts` | requests, reservations (`issuance:`), running jobs | `request`, `#startAssessment`, `#complete`, `recoverInterruptedRequests`, `authorize` | a handle has at most one redeemable voucher; start-up settles what a crash left |
| `security.ts` | sessions, challenges, proofs, generations | challenge, `verify`, `logout` | a proof answers the latest challenge and nothing older |
| `storage.ts` | files, `writer.lock`, one queue per key | `put`, `get`, `SerialKeys.run` | a failed operation releases the next one |
| `network.ts`, `localChain.ts` | none (reads a chain) | `now`, `state`, `sign`, `transaction` | one block per answer; the authorizer is the configured key |
| `main.ts`, `scripts/open-mint-recovery.mjs` | process life | start, serve, stop; the operator's command while stopped | recovery before serving |
| `contracts/src/OpenSignatures.sol` | nonces, minted handles, provenance, key, pause | `mint`, `revokeNonce`, `setTrustedAuthorizer`, pause | one token per handle, permanent provenance |

They meet in three ways. The service calls the ledger and the coordinator, and
passes the coordinator an `AssessmentExecution`, through which it calls the ledger
back around each provider call. All of them write to one store; a lock per key, and
the two locks `request-budget` and `admission`, order the writers inside the one
process that `writer.lock` admits. The service and the contract share only a
signed voucher and the chain's clock.

Hard: every awaited write can throw with or without having taken effect, and the
process can die between any two; a provider call can time out and still be
billed; sessions change while `authorize()` awaits; two clocks that may differ by
a minute decide whether a reservation has expired; an operator's recovery is six
writes that must be resumable.

### The open mint on PostgreSQL (`openMint/persistence/`)

| Part | State | Operations | What must hold |
|---|---|---|---|
| `writer.ts` | advisory lock, epoch | `acquire`, `transaction`, `close` | an owner that lost the lock, or the reply to a COMMIT, writes nothing more |
| `assessmentWorker.ts`, `repository.ts` | attempts, claims, fences per leg, receipts | `run`: claim, fence, dispatch, record, interrupt | a leg is dispatched only behind a durable fence; the deadline never closes another run's attempt |
| `authorizations.ts` and its on-chain and generative forms | reserved, signing, unknown, signed, with the signing epoch | `reserve`, `issue`, release | one signature per handle for ever; an unclear signer is never asked again |
| `sessions.ts`, `requests.ts`, `mintAdmission.ts` | session generations, requests, admissions | as in `security.ts`, in transactions | the same, across processes |
| `walletSubmissions.ts` | plans per wallet nonce, dispatches, reports | `stage`, `begin`, `report` | a second submission only after a reported rejection |
| `publication.ts`, `onchainArtifacts.ts` | publication journal | prepare, verify | an authorization commits to verified bytes |
| `generativeRecovery.ts`, `stagingRecovery*` | retired requests | inspect, retire | no live authority is retired |

### Chain projection (`openMint/projection/`)

A validated batch of blocks replaces a suffix of the stored chain (`postgres.ts`),
a boundary is promoted on finality evidence, a contradiction halts for good, and a
single-use poller with a deadline drives passes. What must hold: the projection
equals a replay of the canonical blocks; nothing at or below the promoted boundary
changes; a late pass is not authority.

### The Sepolia test site (`scripts/pulse-sepolia*`, `contracts/src/release/`)

| Part | State | Operations | What must hold |
|---|---|---|---|
| `pulse-sepolia-site.mjs`, mint journal | one row per handle, in memory and in `web-records.json` | prepare, begin, report, recover, retire | an authorization is retired only when it can never mint; one live attempt per handle |
| `pulse-sepolia-client.mjs`, mint page | submissions in progress, saved reference, polls, recovery | prepare, send, report, poll, recover, mint another | nothing is sent twice; what was sent is found again after a reload |
| `pulse-sepolia.mjs`, `pulse-sepolia-admin.mjs` | journal of signed transactions per run directory, `operation.lock` | deploy, pause, configure, resume | a step is signed once, and its bytes are durable before delivery |
| `pulse-sepolia-admin-web-service.mjs` and its page | intent journal, reviews, checkpoint, `free-config.json` | review, prepare, cancel, report, reconcile | what is applied is what was reviewed; no request is stranded |
| the relay: observer, fast refresh, owners, store, cache, halt file | snapshot, history, halts | observe, advance, publish, restore | what is shown as minted is final; a halt answers a contradiction and survives |
| `pulse-sepolia-rpc.mjs`, `-recovery.mjs`, the read queue | validations, lanes, two queues | read, fall back, reset, cancel | late or contradicted reads commit nothing; no lane starves |

Hard: every save can fail, the chain moves between the two reads of one report, the
process dies between signing and delivery, a node forgets what it was sent, and three
programs sign with one wallet.

### The gallery (`v2/`, `v1/`, `store/`, `local/`, `contracts/src/GalleryOfSignatures.sol`)

| Part | State | Operations | What must hold |
|---|---|---|---|
| `v2/service.ts`, `v2/memoryStore.ts` with `v1/` claims | wallet challenges and bindings, frozen metadata, authorizations | begin, choose and confirm a wallet, authorize, withdraw | one live authorization per signature, for the wallet and claim that were reviewed |
| `v2/indexer/` | observed blocks, gallery, control state | scan, promote, revoke, mint attempt | the gallery is the replay of the final chain |
| `v2/publication/` | leases, fences, pointers, suppressions, erasure case | begin, activate, suppress, erase | nothing gated, revoked or erased is published |
| `v2/content/` | write leases, references, metadata, guards | prepare, put, collect, erase | bytes stay as long as anyone refers to them |
| `store/migrations/` | the tables, their triggers and constraints | any statement of any writer | the same, whatever the writer does |
| `local/` | snapshot in one durable row, indexer cursor | mint operations, reconciler polls, withdrawal | what was handed out is on record after a restart |
| the contract | roles, epochs, pause, minted tokens | mint, administration | the indexer's replay of its events is its state |

### Outside the models

`algorithm*/`, `brand/` and `reference/` are pure rendering and page studies,
`api/server.ts` routes requests to the services above, `contracts/tools` and
`contracts/script` deploy and verify, and the providers are external.

`PROJECT.json` lists every part with its status, and every hazard with its line
and the properties that would catch it.

## 2. Structure and plan

One module per component, parameterised by constants; the `MC...` modules put the
components of one area into one model-checking run. In such a pack the variable `part`
is chosen in the initial state and never changes: *a behaviour of a run is a
behaviour of one of its components, which share no state*. A pack is a way to
check several independent instances in one run, not a composition. Real
compositions are listed below it.

| Area | Modules | Run | Proofs |
|---|---|---|---|
| paid ledger | `AssessmentLedger`, `PaidAssessment` | `ledger` | `AssessmentLedger_proofs` |
| local mint | `MintIssuance`, `MintPromise`, `OpenSignatures` | `issuance` | `MintIssuance_proofs` |
| PostgreSQL | `DurableIssuance`, `DurableAssessment` | `durable` | `DurableIssuance_proofs` |
| around the open mint | `OpenSignatures`, `ExclusiveWriter`, `WalletSubmission`, `AdmissionGate`, `ChainProjection` | `openmint` | `OpenMint_proofs` |
| gallery contract, indexer | `GalleryOfSignatures`, `ContractControl`, `ChainIndexer` | `indexing` | `Gallery_proofs`, of the contract and its replay |
| gallery service | `MintService`, `LocalRehearsal` | `mintrequests` | in `MintService` |
| tables of the gallery | `EvidenceTables`, `AuthorityTables`, `PublicationTables`, `ContentTables` | `tables`, `authority_expired` | `Gallery_proofs` |
| publication, content | `PublicationControl`, `ContentCoordinator` | `publication` | `PublicationControl_proofs` |
| test site | `PulseSite`, `PulseBrowser`, `PulseQueue`, `PulseReads` | `pulsemint` | in `PulseSite` |
| test site, operators | `PulseOperator`, `PulseAdmin`, `PulseRelay` | `pulseoperation` | |
| what must end | `AssessmentLedger`, `DurableAssessment`, `MintIssuance`, `PulseQueue`, `ChainProjection` | `liveness` | |

Compositions: `MintIssuance` instantiates `OpenSignatures` as the chain its vouchers are
redeemed on and implements `MintPromise`; `AssessmentLedger` implements
`PaidAssessment`; `GalleryOfSignatures` folds its own events with `ContractControl`. Elsewhere a module states in its header what it takes from
another: `DurableIssuance` and `DurableAssessment` run their transactions as
`ExclusiveWriter` allows, `PulseBrowser` meets the server that `PulseSite` is.

Modules that theorems are about, and the modules they use, declare no recursive operator.

A theorem about a pack is about the same formula the run checks, so the pack leaves the
bounds and sets of the component it is about as CONSTANTS of its own, and the
configuration gives them their small values. Where one instance serves several parts of a
run, as in `MCPublication`, an operator `Within` says who acts in which part; the
theorem covers all of them at once and every larger instance.

Beside a definition there may be an operator `Bad...` with a comment that begins
with "slip": what the definition would be after a plausible mistake (a
reservation kept in memory, a generation not compared, the clock read after the
state, a budget that counts receipts so far). No specification uses them. Each
property is paired in `PROJECT.json` with one that violates it in the same run, so
that a property that nothing can break would show.

Most runs set `CHECK_DEADLOCK FALSE`: clocks, blocks and attempts are bounded, sessions
end, and then nothing is left to do.

## 3. The paid ledger (`AssessmentLedger`, run `ledger`)

`AssessmentLedger.tla` models `assessmentOperations.ts` and its callers as they
run in one process. The variables are the files: `budget`, `day` (the day of a
reservation), `daily`, `saved` (attempt records), `receipt`, `canonical` (the
published assessment), `audit`, `link` and `head` (the recovery keys); then
`adm`, the admission under its locks; `job`, one `#startAssessment` per handle;
`completion`, the `#complete` of the request that started the job and of one that
reuses the result; and `calls` and `charge`, the history of what the providers did.

| Actions | Code |
|---|---|
| `RequestAdmission`, `RequestRecovery`, `AdmitAccount`, `AdmitRefuse`, `AdmitBudget`, `AdmitDaily`, `AdmitAttempt`, `PutRequest`, `WalletChanged`, `StartAssessment` | `request()` with `admit()` |
| `BeforeX`, `CallX`, `ReceiptX`, `VerifyX`, `BeforeGrok`, `CallGrok`, `ReceiptGrok`, `StampGrok`, `RecordOutcome`, `Persist`, `Link`, `RefuseDispatch`, `JobFailed` | the coordinator's `#invoke` and `execution()`, up to the catch block of `#startAssessment` |
| `Reconcile`, `PrepareArtifact`, `ArtifactPrepared`, `ArtifactFailed`, `RequestReuse` | `#complete()` |
| `Start`, `RecoverHandle`, `Serve`, `Stop`, `Crash` | `main.ts` and `recoverInterruptedRequests()`; `Start` after a crash includes the operator who removes the stale `writer.lock` |
| `OperatorBegin`, `StageAudit` to `StageHead`, `OperatorEnd` | the recovery command and `stageRecovery()`, one action per write |
| `ToggleGeneration`, `NextDay` | the kill switch and the clock |

A write is `ok`, `lost` (it threw before the rename) or `kept` (it threw after it).
A handler that holds a per-handle lock while it reads, checks and writes one key is
one step. `admit()` is not: it reads the attempts at its start and the receipts one
by one, so a job of another handle can move between them; the model keeps what the
admission has seen in `adm.seen` and reads the receipts in a later step. This can
only refuse an admission that would have been allowed, never the reverse.

`PaidAssessment.tla` is the promise without files and faults: a reservation is
granted, each leg is called at most once under it, a recovery replaces an attempt
that never reached Grok, and one result is published. The mapping reads `granted`
off the budget file, `called` off the history of calls and `published` off the
assessment store.

The run has two handles, since the shared budget, counter and `admission` lock need two; a
handle never has more than two attempts, because a recovery cannot be recovered
(`#sourceEvidence` refuses an attempt with a `recovery`). Part `recovery` has an X
lookup, recoveries and one fault (a failed write or a crash) anywhere; part `limits`
has daily and active limits of one across a midnight, with two faults: a failed write
and the crash of the process that recovers from it. `OneCallPerLeg`, `RecordsReadBack`
and the refinement `KeepsPromise` are about the money spent twice or off the record;
`LimitsHold` is exposure, daily and active limit; `TerminalOutcomeFinal` says that
no step takes back an outcome.

**Proved** (`AssessmentLedger_proofs`): the safety properties are not inductive: that
a leg is not called twice needs that the mark on disk precedes the call, that a job
past the mark is the one whose attempt is on disk, and that nobody else writes that
record. `Inv` says so in five parts: `RecordOK` (a record, its reservation, its
receipts and the calls it admits to), `StageOK` (a staging rests on its evidence, and
the budget and counter below it have not moved), `CanonicalOK`, `JobOK` (what each
step of a job knows of its record) and `AdmissionInv` (an admission's snapshot, and
that no staging is open while it runs). The step proof has one lemma per action;
lemmas on the common effects (`SaveEffect`, `SettleEffect`, `AdmitEffect`,
`StageEffect`) carry what most of them share. From `Inv` follow `RecordsReadBack`,
`CallsOnRecord`, `OneCallPerLeg`, `LinkedIsCanonical`, `RetryNeedsRejection` and
`StagingCanFinish`. `EveryStep` classifies steps by what they do to calls, outcomes
and publication, and gives `TerminalOutcomeFinal` and the refinement. Assumed are the
four named assumptions on the constants: the absent handle is not a handle, the
resolver flag is a Boolean, the limits are natural numbers (most of them positive),
and a reservation covers what one attempt can cost.

**Model-checked only**: `LimitsHold`, which compares sums and cardinalities of sets
of any size (the sum over a set is a fold, about which nothing can be proved by
induction here), and liveness.

## 4. The local mint (`MintIssuance`, run `issuance`)

`OpenSignatures.tla` is the contract: the guards of `_validate`, the two replay
guards and the provenance that change together, and the operators.
`MintIssuance.tla` instantiates it and adds the server: `session` and `checking`
(`security.ts`; `verify()` is `VerifyBegin` and `VerifyEnd`, cut at its await),
`request`, `issuance` (the stored reservation), `call` (the `authorize()` calls in
flight), `queue` (`SerialKeys`) and both clocks. `authorize()` is `Submit`, then
under the lock `Enter`, `ReadClock`, `ReadState`, `Issue`, `Confirm`, `Sign`,
`Transact` and `Answer`, one action per stretch of code between two awaits that
matter, and `RpcFails` for a chain read that throws. `released` is the history of
vouchers that reached a browser, and `Redeem` any browser's use of one. `Restart`
forgets sessions, calls and queues, and keeps what was put.

`MintPromise.tla` is the promise: a handle is reserved for one voucher, until it has
expired on the chain's clock; it is minted from the standing reservation only; a
minted handle is done.

Differences to the code: a chain read with its `requireStable()` is one step, since
a block that was replaced under it makes it throw; the local chain does not
reorganise. The digests of a voucher are a function of its handle and are left out,
as are CSRF and origin checks. A nonce is the next number, since 32 random bytes do
not repeat. A unit of time is the longest life of a voucher, and a request and a proof
live two; the theorems hold for any lifetimes.

The three parts: `session` (one browser, two wallets and scopes, two challenges, two
calls), `race` (two browsers with a request each, two calls) and `operators` (key
rotation, revocation, pause, a crash or a failed write). One handle is enough: locks,
reservations and vouchers of different handles share only nonces, which never
repeat. Two browsers and two calls are a holder and a rival; a third is a second
rival. Time runs to three, so that a reservation expires and is replaced inside the
life of a request.

**Proved** (`MintIssuance_proofs`): `OneRedeemable` is about vouchers that were
answered, which are history; it holds because an answered voucher is the reservation
on record or has expired, because a reservation is replaced only when it has expired
on a clock read under the lock and its handle was then still unminted, and because
one call per handle is past the lock. So `Inv` has `CallInv` (what a call knows at
each step), `LockInv` (the queue of a handle is duplicate-free, holds the calls in
flight and only its head is inside), `IssuanceInv` (a stored reservation fits its
request and its nonce is used up), `ReleasedInv` and `MintMatchesReservation`. The
lemma `LockLeave` carries the queue through the end of a call, the rest has one lemma
per action. The refinement maps `Issue` to a reservation, `Redeem` to a mint, `Block` to
time, and all others to stutters. Assumed: the service's key is a key, challenge
scopes are request codes or the general one, lifetimes are natural numbers and
`MinWindow < Window <= ContractWindow`, the absent value is none of the values.

## 5. The open mint on PostgreSQL (run `durable`)

`DurableIssuance.tla` is `generativeAuthorizations.ts` with the retirement of
`generativeRecovery.ts`: one handle, rows `auth` in the order they were written, the
`head` that holds the handle, `retired` rows, the process and its `epoch`, the calls
of that process, what the signer was asked and made, and a chain with a clock, a latest
and a finalized block. `Reserve`, `Claim`, `Store`, `MarkUnknown` and `Release` are transactions
with three ends each (acknowledged; reply lost with effect; reply lost without), after
which the process is unusable; `Ask`, `Sign`, `Answer`, `TimeOut` are the call to the
signer, which may make the signature at any time before or after the deadline;
`Plan` and `Apply` are the operator's.

`DurableAssessment.tla` is `repository.ts` with `assessmentWorker.ts`: admission, claim, a
fence per leg, receipts, acceptance, interruption, with each transaction split into
guards-to-COMMIT and COMMIT-to-reply so that a deadline can pass between them.

Two requests and two calls are a rival and a retry; two runs are the claimer and the
one that finds the attempt interrupted; two to three epochs are a successor and its own
successor. `SignedOnce`, `OneUsable` and `OwnedReservations` are about authorizations, `SpentOnce`
(seven named conjuncts) about paid runs of one handle, with limits that one attempt exhausts
and no midnight; the days and daily limits are exercised in the run `ledger`, and the theorem
below holds for any number of days.

**Proved** (`DurableIssuance_proofs`), for authorizations: `DurableInv` is types; `RowsInv` (a row that was ever
written is the head or retired, and never both); `SignerInv` (the signer was asked
only about claimed rows, once, and what is stored as signed was signed); `CallsInv` (a
call that has claimed a row is alone in it, in the process and epoch of the claim);
`ChainInv` (the finalized block trails the latest, and what is retired is past its
deadline at the finalized block); and `ReleasedToOwner`. The key is that a claim
carries the epoch: after a restart nobody may treat a `signing` row as its own, so
`asked` cannot grow twice. Every transaction is one of three row effects (`RowStep`: a row
is added, moved forward or retired), from which `RowsKept`, `SignerKept` and `ChainKept` follow without
looking at the actions again. From the invariant: `SignedOnce`, `OneUsable`,
`OwnedReservations`; as action properties: an authorization leaves the service
only in a step that sees the wallet proof (`ReleasedWhileProved`), and a row never
moves back (`ForwardOnly`).

**Proved**, for paid runs: `SpentOnceAlways`, for any handles, runs, writers, days, limits,
deadlines and lost replies. What makes it hard is that there are two databases in play: the one that is
durable and the one an open transaction will leave, or has left without the worker knowing. So the
invariant speaks of tables as a value `d` and is claimed of each:

* `TablesOK(d)`: evidence is in order (a receipt behind its fence, Grok's fence behind X's, an identity behind
  X's receipt) and an outcome agrees with it;
* `RunOK(r)`: what a run still relies on at its step, as far as it `Stands` in any tables (the job
  is its own, what it answered is there) and is `Current` (its writer lives: the fence it is about to
  use is its own and the leg is uncalled);
* `TxOK`: a transaction that was begun leaves tables that are a `Successor` of these, and what its
  acknowledgement gives the run holds in them; `DoubtOK`: a COMMIT whose reply was lost left such
  tables too. `Successor` is what survives anybody's transaction: evidence, outcomes and
  claims never go back;
* `SpentInv`: providers charged at most half a reservation per call, `2 * spent <= Reservation *
  Cardinality(Called)`. A call rests on a fence and a fence on an attempt, which is reserved, and an attempt has
  two legs, so the sum needs no fold.

The lemmas follow that order: a successor keeps what stands (`Successor...`), each kind of transaction
is a successor, COMMIT and its lost reply carry the invariant, then one lemma per step of the worker.
Assumed are, of issuance, that bounds are naturals and that the absent request is not a request; of
assessment, `PolicyAssumption` (limits are naturals, one attempt is active at a time, a charge is at
most half a reservation, and the absent handle and run are none of the real ones).

**Model-checked only**: that admission keeps what is reserved within the exposure (`SpentWithinExposure`,
checked in the run `liveness`): the reservations are summed by a fold over a set, about which nothing can be
proved by induction here. With the theorem what is spent is at most what was reserved.

## 6. Around the open mint (run `openmint`)

* `OpenSignatures` alone, with any voucher of any key, two handles, wallets, nonces
  and keys: `NoncesMatchTokens` and `ProvenanceIsFinal`.
* `ExclusiveWriter` (`writer.ts`) keeps the client and its session at the server
  apart. With two owners: an answer "committed" is durable, "rejected" never becomes so,
  and nothing is written behind a successor.
* `WalletSubmission` (`walletSubmissions.ts`, `clientScript.ts`): two tabs of one
  request, two attempts, one lying wallet: a second prompt only after a reported rejection, with
  the same nonce.
* `AdmissionGate` (`staging/admission.ts`): three executions of two permits; a paid effect is started
  at most once, under a review current at that moment, and whoever is told that nothing
  was started is told the truth.
* `ChainProjection` (`projection/`): a chain is the sequence of what its blocks do to
  one token, and a block hash is the chain up to it. Parts `reads` (pages with their
  grant), `chain` (height three, a failing pass) and `replicas` (two coordinators); a
  chain that replaces a finalized block is the fault the projection must halt for.
  `ProjectionHolds` is a temporal property: tables equal the projected chain in every state, no late
  pass is authority, promoted blocks stay and a halt is final.

`EffectsHold` collects the states of the writer, the wallet and the gate, `NothingBehindAFence`
what none of their steps may do.

**Proved** (`OpenMint_proofs`): `NoncesMatchTokens` (inductive with the types), `ProvenanceIsFinal`,
`EffectsHold` and `NothingBehindAFence`, for any owners, transactions, requests, tabs, permits and
executions. `PackInv` has three parts, one per component:

* `GateInv`: a consumed permit is of the one execution that got past its check (`PermitOK`); what an
  execution was told of its fence is true, and an effect starts, and its call is made, only behind that
  fence (`FencedOK`);
* `WriterInv`: nothing that may still be rolled back is durable (`TxOK`), and whoever holds the advisory
  lock, or the row lock of the epoch, knows the newest epoch (`OwnerOK`): so an owner that lost the lock
  finds a newer epoch before it can write;
* `WalletInv`: only the last dispatch of a request can be unsettled (`DispatchOK`); a prompt and a
  submission belong to one (`PromptOK`, `SentOK`); what a tab has in hand - permit, nonce, the
  answer of the wallet - is of that dispatch or of one already reported (`PermitsOK`,
  `MemoryOK`). A wallet that lies is in it: what it sent behind a rejection is counted in `lies`.

Assumed (`PackAssumption`): an execution has a permit, a tab a request and a transaction an owner,
nobody is no execution and no owner, and bounds are naturals.

**Model-checked only**: `ProjectionHolds`. `TablesMatchChain` compares the tables with a fold of the
blocks' effects.

## 7. The gallery (runs `indexing`, `mintrequests`, `tables`, `publication`)

`GalleryOfSignatures` is the contract with the access control it inherits, beside
`ContractControl` (`controlState.ts`), which folds the events of every transaction:
`ReplayMirrors` compares the result with the contract in every reachable state. `ChainIndexer` (`reducer.ts`) sees a tree of up to five blocks
through two providers that may be honest, lie, or omit logs; authorizations of one epoch may name another
authorizer than the epoch's, which `Positioned` compares as the code does; the gallery must be what the
promoted chain minted with good evidence, and what it shows leaves only by revocation
after a halt.

`MintService` is `v2/service.ts` with the requests that race at its awaits;
`LocalRehearsal` is the serialized queue of `mintRuntime.ts` over one durable row, with
the reconciler's reads of a moving chain. Two signatures of one account share a wallet
binding; two requests are a request and its rival; the parts `claims` and `deadlines`
withdraw and repeat a claim, and let an authorization expire.

`RequestsHold` is checked of `MintService` in part `wallets`, and by `EveryPartHolds` in the other
parts, of both modules.

**Proved** (in `MintService`): `OneLiveAuthorizationAlways` and `RequestsAlwaysHold`, for any
accounts, signatures, sessions, requests at a time and bounds. That one authorization
of a signature can be redeemed follows from two facts: while an authorization is
unresolved its account keeps the binding it was made for, and a binding has one
authorization. Neither is inductive, because linking and revoking a wallet do not take
the claim's lock, and because a request goes on after its awaits with what it read before
them. `ServiceInv` is types with

* `AuthInv`: an authorization rests on an accepted proof of its own claim, which no
  other authorization uses, and while it is unresolved that proof is the account's
  binding;
* `DraftInv`, `ChoiceInv`: a draft is of a proof its session gave, and one for which no
  authorization is noted has none; challenges are numbered in order, and what a session
  selects is the latest. So a draft that is used again cannot make a second authorization;
* `ProofInv`: a proof in processing belongs to one request, so it is accepted once;
* `HoldInv`: a request past `StartIssue` is the one the claim's lock names, and the claim
  and the authorization it read are still those on record. `HoldMoves` carries it through every
  step of another request (two holders of one signature are the same, `HoldersDiffer`);
* `ProjectionInv`: a projection follows an issued authorization, and the gallery is the
  finalized ones;
* `ClaimInv`: authorizations and metadata are of the standing claim, but for a withdrawal that
  holds the lock and has yet to forget the metadata;
* `ReleasedInv`: what was handed out is on record as issued, for the proof reviewed.

TLC checked `ServiceInv` on the four parts before it was proved. Assumed are
`ClaimantAssumption` (every signature has its claimant) and `ServiceAssumption`: bounds are naturals,
and the absent value is no signature, slot, account, number or record.

The four `...Tables` modules ask a different question: not what this code does, but
what migration 002 lets *any* writer do, since no production writer exists in the
repository. Every trigger and deferred constraint is a guard; a writer may try any
INSERT, UPDATE or DELETE of a row, also of rows that no trigger guards: of the indexer's checkpoint, an
outbox item, a lease, a guard, a deployment, where only foreign keys forbid it. (TRUNCATE fires no
row trigger and is left out.) So `FenceNamesOneOwner` speaks of a checkpoint as long as its row lives:
a writer that deletes it and inserts it again starts the fencing tokens at any number, and
`promoted` may fall; `held` begins again with the row. In `AuthorityTables` what counts as finalized
coverage is `reached`, the height of the row that is there now. `MCTables` instantiates each of them once (`Evidence`, `Authority`, `Publication`, `Content`);
`Authorities` with `Permitted`, and `Stores` with `Within`, say
which statements and how many rows occur in which part: `rows` and `fence` of the
evidence; `wallets` (two wallets and authorizations beside reorganizations), `erasure`
(administrators), `checkpoint` (administrators while the checkpoint is deleted and written again) and
`records` (every kind of record) of the authority; `leases` of the
publication; `shared`, `owners` and `workers` of a stored object. Chains of three blocks suffice for an
authorization that expires, one that is minted, and a reorganization between them.

`PublicationControl` (`publication/control.ts`) and `ContentCoordinator` are in-memory
state machines whose methods stand for one transaction each, with what a worker does
between them left to happen at any time.

**Proved** (`Gallery_proofs`): `EvidenceHolds` and `FinalEvidenceStays`, of `Evidence!Spec`, for any set of
blocks, owners and fences. `EvidenceInv` adds to types that a finalized log is supported by its
finalized canonical block and receipt (`SupportInv`), that one height has one
canonical block (`HeightInv`), and that under the present checkpoint row a fence was held by at most one
owner and none that is to come was held (`FenceInv`). `FinalStays` is the lemma that makes it inductive: the
triggers never let the row of a finalized block change what a log rests on.

**Proved** (`Gallery_proofs`, too): `AuthorityHolds`, of every behaviour of the authority's tables
(`Authority!Spec`, without the scopes of the run), for any wallets, authorizations, window and height of
the chain. `AuthorityHolds` speaks of what the chain could still do with an attestation, while a trigger
sees only the rows and the finalized observations. `AuthorityInv` relates them:

* `ChainTypes`: what was promoted is below the final block, where chain and observations agree for
  ever;
* `MintInv`: what the contract allows: one mint of the signature, of an attestation, within its deadline
  and before its revocation;
* *spent*: nothing pending and nothing attested, or past its deadline at a promoted block, or revoked in
  one. It is stable under every step, reorganizations included, so `StateInv` can say what each terminal
  state of a row proves (`consumed`: the mint is promoted; `expired`: the deadline is);
* `HeadInv`, `OneInv`: a live authorization is a row of the head's active binding, and there is one.
  A change of the head needs every row resolved, and a resolved row is not live (`ResolvedIsDead`); a row outside the unresolved slot is not live either, so `Prepare` adds the only one
  (`OutsideTheSlot`);
* `RecordInv`: what mints on the chain is a row, and rows keep the metadata frozen;
* `GoneInv`: while the signature is unclaimed or erased nothing is minted and every authorization is
  spent: the erasure evidence covers every deadline, and a withdrawal finds no rows.

TLC checked `AuthorityInv` on the parts of the run before it was proved.

**Proved** (`Gallery_proofs`, too): `RetentionHolds`, of `Publication!Spec` and `Content!Spec`, for any
deployments, items, leases, signatures and workers. `PublicationInv` is types with: an unclaimed
signature has no live item, no live lease and no gallery entry. `ContentInv` keeps the three conjuncts
about references and writers together, because each is what another needs (a reference is made by a lease
whose object is present, and the object goes only when neither is left), and adds `LeaseInv` (a lease has
a guard row) and `WorkerInv`: preparation fences are of control versions up to the present one, a
version in which nothing was prepared yet has none, and the newest fence is that of the row
and names its worker.

Assumed (`TablesAssumption`, which joins what the four modules say of their constants): every block has a height; a window of at least one block; kinds are among `v1` and `v2`; finitely many
signatures, as the migration visits each in turn; bounds are naturals; the absent row is no record.

**Proved** (`PublicationControl_proofs`): `PublicationHolds` and `NothingGoesBack` for any deployments,
leases and number of revocations. `PublicationInv` adds `LeaseOK` (a lease at work was
begun after the last revocation), `PointerOK` (so is an active pointer) and `ErasureOK`
(once an erasure began nothing is issued, and what its snapshot saw as never issued or dead
stays so), without which a lease begun before a revocation could activate after it.

`ContentCoordinator` runs in four parts: artifacts of two signatures with the same bytes (`sharing`), two
collectors of one object and its grace (`grace`), two pins of one preparation (`pins`), two writers of one
pin (`writers`). They are one instance of the module, of which `Within` lets some signatures, objects,
writers and collectors act.

**Proved** (`PublicationControl_proofs`, too): `ContentHolds` and `GraceHonored`, for any signatures,
objects, references, owners, collectors and bounds. `ContentInv` adds to types and to the three
conjuncts of `ContentHolds` that a lease at work has a reference whose signature is not erased
(`WritersOK`). An erasure cannot complete before leases and references are gone, and cannot be
followed by new ones; a collector deletes only what nobody refers to and nobody writes, and a late writer, whose
lease expired, can neither commit nor make a reference: that no commit finds its object collected is what
the proof of `CommitWrite` has to show. `releaseReference` deletes any reference by its name, a pin of verified
or frozen metadata too; the model lets it, at any time and of any reference, and records such pins in
`released`. `FrozenKeepsReplicas` says that settled metadata keeps all its replicas except those: no lease,
collector, sweep, erasure or late writer takes one. `ContentAssumption` says that every reference has a signature and an object, and that bounds are naturals.

**Proved** (`Gallery_proofs`, too): `ReplayMirrors`, and of the properties the run joins to others,
`GenuineMintsPass` and `OneRedemptionEach` (theorems `ReplayAlwaysMirrors`, `GenuineMintsAlwaysPass`,
`SignaturesAreRedeemedOnce`), for any accounts, epochs, authorizations and instants. `ReplayInv` adds to types that
one account holds the admin role (`OneAdmin`): accepting a transfer revokes it from one holder and grants it to
the other, and with a second holder the grant could be of a role already held, which the replay takes for
impossible. `EffectIs` says what each kind of event does, so that the proof of an operation has two
questions: is its event possible after those before it, and is its effect that of the operation. Assumed is
`DistinctNames` (`ContractAssumption`, which the run evaluates): the zero
address is no account, and the four roles differ (they are hashes of different names).

**Model-checked only**: the indexer over its tree of blocks (`GalleryHolds`, `MintsStay`) and
`LocalRehearsal` (`RehearsalHolds`).

## 8. The test site (runs `pulsemint`, `pulseoperation`)

| Module | Code | Parts |
|---|---|---|
| `PulseSite` | journal of mint attempts in `pulse-sepolia-site.mjs` | `faults`: two handles with failing saves and crashes; `contended`: two wallets of one handle across reorganizations and changing sessions |
| `PulseBrowser` | `pulse-sepolia-client.mjs` | `storage`: failing storage, lossy network, reload, return from the back/forward cache; `lock`: late answers and another tab; `reorg`: the same with reorganizations; `overlap`: mints of two handles in progress at once |
| `PulseQueue` | the two lanes in `pulse-sepolia.mjs` | five callers, two in flight, burst of four |
| `PulseReads` | `-rpc.mjs`, `-recovery.mjs` | two lanes over two sources |
| `PulseOperator` | the command-line operators | `journal`: two run directories of one wallet, crashes, forgetful nodes; `configure`: beside the admin page |
| `PulseAdmin` | the admin page and its journal | `reorgs`, `competing`, `policy`, `reports` |
| `PulseRelay` | observer, fast refresh, owners, store, cache, halt | `observe`, `receipts`, `restart`, `owners` |

The page checks `busy` before it begins a submission, but a page that returns from the
back/forward cache while its wallet has not answered polls at once, and a reveal then leads to "Mint another",
which asks for nothing but the reveal and clears `busy`. So `PulseBrowser` keeps each
submission in a slot of `flows`, and every step of one goes on beside the others; `overlap` has two handles, two
slots and one poll (`MaxFlows`, `MaxPolls`; `Short` leaves out final receipts, deadlines and recovery there,
which the other parts have). In it the first mint's line 734 writes its reference over the second's, or
a reveal clears it. `displaced` is the history of the mints that lost their saved reference to a step of
another mint; `LockHeld` and `SentIsRemembered` are claimed of all others, `NeverResent` of all.

In `PulseSite` a block's timestamp is its number, while a test against the server's
clock may go either way. A save succeeds, or throws with or without effect. Each pack
bounds blocks at two to six and reorganizations at one: a journal entry is
prepared, mined, replaced and mined again within that. What was not claimed for a part, because the
code does not provide it, is listed in section 10.

**Proved** (`SiteInvariance`, `AttemptsAlwaysHold`): `AttemptsHold` for every behaviour
of `PulseSite`, with any handles, wallets, bounds and faults. `SiteAssumption` asks that
the bounds are naturals and that `None` is no row, authorization or number. The
property is not inductive: it speaks of what was released and of the file, while the code
decides by the row in memory and by reads it made before an await. `SiteInv` adds

* `ChainInv`: what is in a block was released and got in before its deadline. With it a
  retirement at the finalized block is a proof (`RetiredIsDead`): had the
  authorization been used, a block at or below the finalized one would show it;
* `IdsInv`: numbers are given out in order, and an unused one was never sent;
* `RowsInv`: a row names an authorization of its handle, an expired one a dead authorization, a
  prepared one an unsent one; and the file is never behind memory: where a save threw
  after its rename, the authorization memory still names is dead (`PairOK`);
* `ReleasedInv`: what a browser has is what memory names, or dead;
* `JobInv`, `GateInv`: what a task may still rely on after its awaits, and that only
  the open site prepares and begins.

*Dead*, unmined and past its deadline at a finalized block, is stable under every
step of the chain, reorganizations included (`ChainKept`): that carries the argument.
`PulseBrowser`, `PulseQueue`, `PulseReads` and the operators' modules are model-checked only.

## 9. Liveness (run `liveness`)

`WorkEnds`: a started server serves or stops and an assessment settles, a durable run ends, an
authorization call is answered, a queued background read is sent. `PromisesAreKept`: in
behaviours without a fault what was accepted and paid is prepared, and a projection catches up with
a chain that has stopped changing. Fairness is stated per module and justified by the
code:

* ledger: the event loop runs what is ready, and each provider call ends because each
  `fetch` has a timeout. No fairness of users, operators, crashes, restarts or the clock;
* durable runs: the timers of the deadline fire and a server that was asked answers or
  the link breaks;
* mint calls: the event loop proceeds and a chain read returns or throws at its
  timeout; `RpcFails` itself gets no fairness, since no read has to fail;
* queue: timers fire and the transport ends (it is killed after 25 s);
* projection: the poller's timer starts a pass and its steps go on.

`AcceptedIsPrepared` is stated for behaviours without a fault, since a failed write
legitimately ends a job. Liveness under fairness, and ENABLED, cannot be proved with
the tools used and stay with TLC.

## 10. What the models say about the code

**A disagreement** (`authority_expired`, a run of `MCTables` restricted to the part `wallets`, that TLC must
find violated).
`v2_has_finalized_expiry_evidence` asks that no finalized mint of the signature exists, so
an authorization that was proven expired counts as live authority again once a *later*
authorization of the same signature is minted and finalized. Its state has no way out, so
the wallet binding can never change, against the comments at
`002_v2_minting.sql:325-328` and `:405-409`.

Observations, each met while a property was looked for, none of them claimed by a run:

* **The message of the active limit.** A second user is told "Another assessment is
  running. Wait for it to finish" (`service.ts:142`) when the limit counts pending
  records (`assessmentOperations.ts:583`). `request()` compares the session again
  after the admission was written and leaves with `WALLET_CHANGED`
  (`service.ts:153`) before it starts a job. The record then holds the slot until the
  next start-up, and waiting does not help.
* **Spurious refusal.** `admit()` compares attempts read at its start with receipts
  read later; a receipt that arrives in between makes it throw
  `ASSESSMENT_OPERATIONS_CORRUPT` for one request. Nothing is written, and the next
  request succeeds.
* **Key rotation.** Rotating the contract's key from A to B and back to A makes
  unexpired vouchers of A redeemable again. The promise holds all the same, because it
  is about reservations and not keys.
* **Restart and reservations.** A restart forgets sessions but not reservations, so
  an unexpired reservation of a forgotten session blocks its handle until the
  deadline (at most ten minutes). This is safe and intended.
* **Order in `authorize()`.** Reading the clock before the state is not a matter of
  taste: with the two swapped, a reservation that is redeemed in between looks expired
  and unminted, and is replaced.
* **Render jobs** of accepted results are never completed in this code, so each counts
  against the queue limit of `repository.ts` for ever.
* **Lost COMMIT reply at a withdrawal** (`withdrawClaim.ts`, `mintRuntime.ts:48`): `withdraw()`
  throws, the in-memory state still has the claim's frozen metadata, and the
  checkpoint stores it over the snapshot the withdrawal had cleaned, against
  `postgresStore.ts:268`. `NothingResurrected` is therefore checked in a part
  where every commit is answered.
* **The tables.** Suppression rows may be deleted, also while a signature is in
  erasure or erased, against `002_v2_minting.sql:1087`; after block and enable, frozen metadata
  carries a stale control version and nothing can be issued until an erasure cycle;
  erasure evidence has an immutable key, so a later authorization makes a second
  erasure impossible; a re-claim of an erased signature is not blocked; a log that turns
  `finality_revoked` does not make the gallery entry follow; references may be
  deleted unguarded; a lease of the first version may name another storage target and is not
  drained by an erasure; a foreign key makes the "drained" condition of an erasure
  redundant; the indexer's checkpoint may be deleted, and inserted again with an older token or height.
* **Content.** `releaseReference` (`memoryContentCoordinator.ts:700-702`) takes any reference, also a pin of
  verified or frozen metadata, after which `assertInvariants` (`:817-823`) throws. Its callers release
  references of artifacts only.
* **The indexer** halts for good when a scan batch begins above a fork
  (`NO_COMMON_ANCESTOR`), and when the receipt of a block without logs is first
  reported below finality.
* **Publication.** A new lease raises the fence and so hides what is published until
  the new one activates; `completeControlledErasure` does not read the projections
  again.
* **The relay.** A source whose finalized tag lags below a receipt already shown as minted raises a
  permanent safety halt (`supersededReceiptHints`); a receipt saved with an older anchor
  blocks the observer at every restart (`pulse-sepolia-site.mjs:358`); an owner pass
  published after a reorganization of equal height halts the index
  (`pulse-sepolia-relay-store.mjs:181`); a slow observer may replace a newer checkpoint
  by its ancestor (`:81`). The relay's parts claim only what holds beside these.
* **The admin page.** An abandoned row that is reported after its nonce was consumed
  stays open for ever and blocks further actions; a reorganization between the two reads of
  one report hides an orphaned earlier request; a crash between the saves of a report does
  the same, so `NoneStranded` is not claimed in part `reports`; with reorganizations
  a pruned settled row may become executable again unknown to the journal, so
  `ExecutableIsRemembered` is not claimed in `reorgs`; a lost answer to an action leaves a
  prepared intent that the page has no control to cancel.
* **The operators.** An operation that was recorded and never signed blocks `configure` for good once
  the admin page moved the revision two ahead; a lock left by a crash needs an operator; a
  reverted step blocks its name by design; the first journal does not look at other rows.
* **The mint page** polls a reported transaction whose receipt never appears for ever, and that
  hides the recovery control. After a return from the back/forward cache with the wallet still open, a reveal and
  "Mint another" (`pulse-sepolia-client.mjs:662`) start a second mint while the first is in progress;
  the first one's hash then replaces the second's reference (`:734`), although the
  comments at `:76` and `:93` let a newer attempt's reference win. While the second mint is
  unresolved, the page can then release its lock and begin a third.
* **The claim flow** was read and is not modelled: a crash between `putVerified` and the
  claim leaks references, as does the error path of a new card renderer.

## 11. Not modelled, and why

* Pure functions of strings: renderers, encodings, decoders (`decoder.ts`, projection decoding),
  HTML, brand pages; `promotionBlockage` and `cutoverBlockers`, which only report.
* External: provider clients and the agreement of two chain readers, whose answers the
  modules take as inputs.
* Run by hand: deployment, verification and preparation scripts; `sendStep`'s verification of
  bytecode.
* Inside the modelled parts: fixture mode and fixture seeding, version-0
  attempts, preview and page reads, rate limits on sessions and requests, CSRF and
  origin checks, ERC-721 transfers and role administration of `OpenSignatures`, the
  payloads that distinguish the older authorization services, the approval of X posts,
  OAuth, `setMintIntent`, back-off times, and the failing disk of the relay's halt file.
* The tables assume what is reported of finality and of the signer to be true; one
  signature and one deployment stand for all, whose rows do not meet except in stored
  bytes (`ContentTables`) and suppressions (`PublicationTables`).
* `MintService` reaches only the projection states of the fixture mode
  (`validation_pending`, `quarantined` and `finality_revoked` belong to the indexer), and expiry
  belongs to the reconciler of `LocalRehearsal`.
