# Verification of the procurement and escrow platform

TLA+ models of the backend of this repository (`src/`, a modular monolith in
TypeScript on Node, Postgres and Hyperledger Fabric), the TLC configurations
that check them on small instances, and TLAPS proofs of what matters most for
every instance. Paths below are relative to `src/src/modules/` unless they
start with `src/`.

## 1. The system

### Parts

| Part | State it keeps | Operations that change it | Where it is hard |
|---|---|---|---|
| escrow | `escrows` (status, last event hash, anchor status) | create, fund, release, hold, dispute, arbitrate | up to nine awaited calls without a transaction, then a write of the whole row from the snapshot read first |
| source-to-award, orders | cases, `procurement_orders` | requisition, RFQ, quotation, award, order | check-then-act on quotations and awards; an order is saved before its case |
| acknowledgement, evidence, invoices, closeout | orders, `delivery_evidence`, invoices, closeouts | acknowledge, submit, match, approve, close | whole rows written back; two racing closeouts |
| lifecycle event store | `procure_to_pay_lifecycle_events` | append | its check of the previous hash |
| blockchain | `blockchain_anchor_metadata`, the ledger | anchor, proof, verification | the ledger may have committed what the gateway reports as failed; a gateway in memory forgets |
| chaincode `audit-anchor` | proof records on the ledger | `anchorEvent`, `verifyEvent` | a submission that commits though its answer was lost |
| payments | `payment_instructions` | create, reconcile | acts on an escrow status read before the adapter call |
| onboarding (KYC/AML) | cases, decisions | submit, decide | two reviewers at once; the case updated last decides eligibility |
| organization network | organizations, users, requests, relationships, invitations | register, invite, request, decide, profile | multi-row operations whose BEGIN and COMMIT go through a pool |
| contracts | contract rows | draft, offer, accept | acceptances kept in a list that is written back whole |
| financing | PLS contracts, distributions | activate, distribute, simulate | activation relies on what was read before; money in minor units |
| Shariah review and certification | reviews, checklists, certificates | submit, edit, decide, register, revoke | a checklist edit racing a decision |
| auth, access control | sessions, roles, assignments | login, logout, expiry; assign, remove, change | expiry overwriting a revocation; a change is two writes |
| membership | member organizations | register, set a status | check and INSERT are two queries |
| documents | files, `document_metadata`, extractions | upload, read | three writes, no transaction |
| integration | API keys, idempotency keys, ERP jobs | external proofs, export, import | the key is stored after the work |
| reporting | export bundles | create, sign | proof and signature come after the first save; the signing key is in memory |
| productivity | tasks, views, exports in memory | complete a task, save a view | summaries are read by separate queries; a restart forgets |
| deployment | schema, seeded rows | migrate, seed, start | runs again on every start, and goes on after a failure |
| ops, security, shared, server wiring, frontend | - | - | section 6 |

### How the parts interact

All backend modules run in one Node process (`src/src/app/server.ts`) and call
each other through repository and gateway interfaces; nothing is sent between
them by message. A request is handled by one asynchronous function. Node runs it
without interruption between two `await`s, so the interleaving points are
exactly the awaited queries, ledger submissions and adapter calls. Each SQL
statement is atomic by itself. Only the organization network opens transactions,
and those through a pool (`src/src/infrastructure/database/postgres-client.ts:11-20`),
one query at a time. Parallel requests, a query that throws, and the death of the
process can therefore separate any two writes of a handler.

The central flow: a case is awarded and becomes an order; the supplier accepts it;
the buyer creates an escrow for it; the escrow is funded; the supplier delivers
evidence; a release is requested and approved, or the escrow is held, disputed and
arbitrated; each step records a lifecycle event whose `previousEventHash` names the
event before it, has it anchored on the ledger, and stores hash and anchor status in
the row. Payment instructions start where the escrow is
`settlementInstructionReady`; invoices are matched and approved, and the case is
closed. Onboarding eligibility, reviews and certificates are asked for on the way.

### What makes each part correct

- escrow: at most one active escrow per order; a release only when its conditions
  hold; row, trail and ledger agree.
- lifecycle events: append-only, each a legal continuation of the one it names.
- anchoring: an `anchored` status is backed by the ledger; proofs and verifications
  tell what the trail and the gateway hold; a failure fails no business operation.
- payments: at most one active instruction per escrow, only for an escrow that was
  ready; the settlement events tell what happened.
- onboarding, Shariah governance: one open case per organization; a decision stands,
  was taken on a complete checklist, and is in the history and the audit trail.
- source-to-award, fulfilment: a case and its order agree, the trail tells the status,
  a match is backed by an accepted order and evidence, one closeout per case.
- financing: a contract is activated only when it is covered; the shares of a
  distribution add up to the result, signs included. The code keeps this except for a
  profit that is reported negative (section 5).
- access control and auth: an ended session stays ended; what is stored of a role is
  what the audit trail says.
- membership, organization network: unique registrations, no half-written operation.
- contracts: an agreement is of the terms both accepted.
- integration, reporting, documents: a key stands for finished work; a bundle keeps its
  hash, proof and signature; a document has its object and its extraction.
- deployment: no server runs on half a schema; what was recorded outlives a restart.

## 2. Modules

| Module | What it is | Code |
|---|---|---|
| `EscrowDomain` | statuses, commands, source and target statuses, who may act | `escrow/domain/escrow.ts`, `transitionSpec` and `canActorPerform` of `escrow/application/transition-escrow.ts` |
| `EscrowHistory` | abstract specification of the escrow module's rows and audit trail | the contract the two escrow handlers keep together |
| `EscrowWorkflow` | the escrow module on Postgres, with event store and anchoring | `escrow/`, the lifecycle event repository, `blockchain/application/` |
| `EscrowLoad` | `EscrowWorkflow` under a load chosen once: one request at a time, or several in flight | how clients send their requests |
| `PaymentInstruction` | payments beside an escrow module that keeps to `EscrowHistory` | `payments/` |
| `SourceToAward` | requisition to award, and the order | `procurement/application/source-to-award-service.ts`, `create-procurement-order.ts` |
| `RequestHandling` | what the services below share: arrival, awaiting a query, answers, audited refusals, failing queries, crashes | the route helpers, `access-audit` |
| `Onboarding` | submission, decision, eligibility, history | `kyc-aml-onboarding/` |
| `ShariahGovernance` | reviews and certificates | `shariah-review/`, `shariah-certification/` |
| `PlsFinancing` | activation and distribution, composed with the two modules above | `financing/` |
| `Fulfilment` | acknowledgement, evidence, invoices, closeout | `procurement/application/` |
| `ConnectionPool` | Postgres as a handler meets it through pg's pool: connections, transactions, locks | `src/src/infrastructure/database/postgres-client.ts`; pg and Postgres are external |
| `OrganizationNetwork` | registration, invitation, network requests on that pool | `organization-network/` |
| `AccessControl` | roles, assignments, sessions | `access-control/`, `auth/` |
| `Membership` | member organizations | `membership/` |
| `ContractRecord` | contracts | `contracts/` |
| `ExternalApi` | signed external calls, ERP export and import | `integration/` |
| `ExportBundles` | bundles with their proof and signature, the chaincode | `reporting/`, `src/chaincode/audit-anchor/` |
| `AnchorProofs` | the choice of a gateway, anchoring, proof and verification | `blockchain/` |
| `Documents` | uploads and reads | `documents/` |
| `Workspace` | summaries, tasks, views and exports of a company | `productivity/` |
| `Deployment` | migrations, seed and server of each start | `src/scripts/db/`, `src/Dockerfile.backend` |
| `MC...` | instances for TLC; `MCEscrowLoad` bounds `EscrowLoad`, `MCPaymentLoad` lets a behaviour choose its load, `MCServices` composes the nine services without shared tables | - |
| `...Proofs` | theorems about the module they are named after; `ServicesProofs` is about eight of the nine services of `MCServices`, each under its own specification, `DeploymentProofs` about the ninth | - |

### The scheme of every module

A request is a number in order of arrival, and a row has the number of the request
that inserted it as its identity (the code draws UUIDs). `pc[r]` is the awaited call
the handler is at, `job[r]` what its local variables hold. An action is the code from
the answer of one awaited call to the answer of the next; a check without a query
belongs to the action before or after it. A request whose query fails ends `failed`;
a crash ends every request in flight. Where a route audits its refusals, the refusal
is a query of its own (`Refuse`, `RecordRefusal`); elsewhere a request refused before
its first write ends, or is left out when it changes nothing. Modules that extend
`RequestHandling` start after `Seeded` requests, which stand for the seed script, and
choose `limit`, the number of requests handled at a time, once: one module then says
both what holds under any overlap and what holds while each client waits for its answer.

Only the Postgres wiring is modelled. The in-memory repositories resolve at once, and
a handler on them runs without another request's step in between unless it waits for
the ledger. Every query is taken to be committed by itself, as Postgres does without
`BEGIN`.

`EscrowWorkflow`:

| Step | Action | Code |
|---|---|---|
| arrival, first read | `CreateEscrow`, `TransitionEscrow` | validation, authorization, `findById`, `transitionSpec` |
| `readOrder` ... `readSupplier` | `ReadOrder`, `ReadEvidence`, `ReadBuyerEligibility`, `ReadSupplierEligibility` | `evaluateReleaseConditions`; a creation makes the last two |
| `findActive` | `FindActiveEscrow` | `findActiveByOrderId` |
| `insert` | `InsertEscrow` | `PostgresEscrowRepository.create`, decided by the unique index |
| `recordEvent` | `RecordEvent` | `recordProcureToPayLifecycleEvent`, `assertLifecycleConstraints` |
| `anchor` | `AnchorEvent` | `gateway.anchorEvent`, which never throws |
| `saveMetadata` | `SaveAnchorMetadata` | `metadataRepository.save` |
| `update` | `UpdateEscrow` | the whole-row `update` |

Its environment actions stand for acknowledgements (begin and save are separate, as
in the code), submitted evidence and changing eligibility.

`PaymentInstruction`: arrival and first read, `findActiveByEscrowId`
(`FindActiveInstruction`), the event (`RecordSettlement`), INSERT or whole-row UPDATE
(`SaveInstruction`). The adapters compute without I/O, so their answer belongs to the
step before the event. The escrow module is `EscrowHistory`, whose `HistoryNext` may
take a step at any time: since `EscrowWorkflow` is proved to implement it, what holds
here holds beside the real handlers.

`SourceToAward`: the handlers up to their first awaited call after the read, with the
case as it will be saved in `job[r].row`; `RecordEvent` is `appendSourceEvent`,
`SaveCase` the upsert. An award goes through `createProcurementOrder` in between:
`CheckEligibility`, `RecordOrder`, `SaveOrder`, then `RecordEvent` for
`purchaseOrderGenerated`. The chain check is left out, as the events of a case continue
one trail (`TrailTellsTheCase`).

`Fulfilment` starts from orders with their events. An order's amount is TEXT and an
invoice's NUMERIC, so the match compares two spellings of a number (`Numeric`), and a
whole amount typed without decimals never matches. Evidence is saved twice, before and
after its event. `Score` computes the closeout's metrics in the code's integer steps.

`Onboarding`, `ShariahGovernance`: `updated` is a reading of a clock, since the case
updated last is the eligibility. `PlsFinancing` asks for eligibility, review and
certificate in the handler's order; `late` holds the certificates that had expired when
the handler read the time. `Allocation` is the stored distribution, `Scenario` the
simulator's own computation; amounts are in minor units with their sign. `StoredResult`
is the gross amount a distribution stores: a loss as a negative amount, a profit as it was
sent, a negative one included, while its shares come from the size. The simulator refuses
a negative result.

`ConnectionPool`, `OrganizationNetwork`: a query takes a connection and gives it back;
the pool hands out the one freed last and queues requests when none is free. What a
handler writes between `BEGIN` and `COMMIT` is one transaction only while it keeps its
connection. A transaction holds its unique entries until it ends, a second one that
needs them waits, and a circle of waiting is broken by Postgres (`DeadlockDetected`). A
failed query may cost its connection (`AnswerFailed`), and a connection that idles for
`idleTimeoutMillis` is closed, also with a transaction open, which the server then rolls
back (`IdleConnectionCloses`); after a failed query the handler's next one, its `ROLLBACK`, goes
to another connection (`ContinueAnew`). Neither the pool nor the number of requests in flight has
a bound but those of TLC's instance.

`AccessControl`: a login copies the user's roles into the session row, and `Authenticate`
judges a request by that copy; expiry and logout write back the row they read.
`Membership`, `Documents`, `ContractRecord`, `ExternalApi` (the delivery routes differ in
how they map a body only; a replay does not compare bodies), `ExportBundles` (what a
bundle collects is its hash): one action per query. `AnchorProofs`: `RuntimeGateway` is
the composition of the gateway from the environment, `NewProcess` a restart with
another one, `CommitsLate` a Fabric transaction whose answer was lost. The seed's metadata
rows are chosen at the start (`SeededRow`): one says `anchored` of an event that no ledger
has; `Recorded` tells the events of requests from those of the seed. `Workspace`:
`OthersWrite` are the modules whose tables a summary reads, one query per table; a company
sees the deals it trades (`TradedBy`) and those it finances (`FinancedBy`); an order counts
as one unit of money. `Deployment`: containers and an operator run the
migrations and the seed, in any overlap, and the server starts whatever came of them;
one row stands for the seeded rows of its kind (`SeededAs`), and `BeginMove`, `AnnounceMove`,
`SaveMove` for the handlers that work on it meanwhile.

### Abstraction and composition

`EscrowHistory` says: events are append-only; each starts a trail or legally
continues a recorded event of the same escrow; a row stands at an event of its
own trail, in the status that event announced; and no order has two active rows.
It deliberately does not say that the trail is one chain or that a row only moves
forward along it: the code keeps neither. `EscrowWorkflow` implements it
(`ImplementsHistory`, also proved), `PaymentInstruction` is composed with it,
`PlsFinancing` with `Onboarding` and `ShariahGovernance`, `OrganizationNetwork` with
`ConnectionPool`.

## 3. Runs

All runs are small by two bounds, the number of requests in a behaviour and the number
in flight. None reports deadlock, because a behaviour ends when its requests are used up.

| Run | Bounds | What it asks |
|---|---|---|
| `escrow_concurrent` | 3 requests, one at a time or all in flight, all commands, query faults, crashes, ledger faults | row and event agree, anchors are proven, the event store refuses no event of this module, refinement of `EscrowHistory`; one at a time, the trail forks only at failed requests |
| `escrow_settlement` | 5 requests, 2 in flight, no faults | a settlement-ready escrow has its funding, request, approval and evidence, or an arbitration, behind it; one active escrow per order while escrows are cancelled, created again and hit by late writes |
| `escrow_liveness` | 3 requests, 2 in flight, all faults, fairness, changing eligibility and acknowledgements | each recorded event ends with a known anchor status |
| `payment_concurrent` | 4 requests, 1 or 2 in flight, both adapters, query faults, crashes; 2 escrow identities and events | one active instruction per escrow, each backed by the escrow's trail and its own events |
| `source_to_award` | 6 requests, 1 case, 1 or 2 in flight, query faults, crashes, 2 suppliers (symmetric) | a stored case agrees with its trail, its quotations and its order; one at a time, awards are final |
| `pls_financing` | 2 seeds and 3 requests to three services, 1 or 2 in flight, query faults, crashes, expiry | one open case; decisions that are told and, one at a time, stand; covered activations; shares that add up to the signed result |
| `fulfilment` | 5 seeds and 3 requests, 2 orders, 1 or 2 in flight, query faults, crashes | matches and closeouts backed by records, rows that tell their trail, nothing before an acceptance, no duplicates |
| `organization_network` | 2 seeds and 2 requests, 1 or 2 connections, which break or time out idle, crashes, fairness | operations whole or absent, unique entries, accepted relationships, every handler answers |
| `services` | 1 seed and up to 3 requests to one of nine services, 1 or 2 in flight, query faults, crashes, restarts, late ledger commits; 2 container starts | the properties of `AccessControl`, `ContractRecord`, `ExternalApi`, `ExportBundles`, `Deployment`, `Documents`, `Membership`, `Workspace` and `AnchorProofs` |
| `escrow_stale_release`, `escrow_metadata_failure`, `deployment_reseed` | as small as shows it | one statement of a document that the code does not keep (section 5) |

Why the bounds are enough for the questions: a conflict between two whole-row
writes needs two requests in flight, and a third shows a write that arrives
between two others. Reaching settlement takes four requests (create, fund,
request, approve), and the fifth is the one that interferes. Reopening takes
create, hold, cancel and create, and a late write. A payment race takes two
creations, a reconciliation and one more; two escrow events suffice to make an
escrow ready, a third takes it out again. A source-to-award case takes five requests to
its order, and the sixth interferes; `CaseBound` keeps TLC to one case, because requests
of two cases share no variable but the event set. The other modules start from seeded
rows, so that a race on a row in use needs no requests to create it. `services` chooses
one service per behaviour: the nine share no table, so running two of them
together would only interleave them. `FewRequests` bounds the requests of the services
with the most inputs, and elsewhere those that overlap; `FinancierLast` lets the financing
company ask for a summary only, and as the last request, since it differs from a trading one
only in the deals it is shown; `MaxStarts`, `MaxMoves` and `MaxRestarts` bound container starts,
writes of the server between them, and restarts of its process. `PlainCreations` bounds
overlapping escrow creations to those without an accepted-order reference. The safety
properties proved below do not depend on any of these numbers.

**Fairness.** `FairSpec` of `EscrowWorkflow` has weak fairness of `Step(r)` for every
request: Node resumes the continuation of every awaited call that answers. `FairSpec` of
`OrganizationNetwork` says the same of every handler, with the breaking of a deadlock by
Postgres among the steps; that the pool serves its queue in order and hands a freed
connection on is part of the model. Nothing is assumed about arrivals, faults or the
environment.

## 4. Proofs

Checked by TLAPS for every number of requests, orders, organizations, escrows, contracts,
amounts and actors. The assumptions are the named `ASSUME`s of the modules, which say what
the constants are and that `None` is none of the values; TLC evaluates them on every run.

| Module | Theorems |
|---|---|
| `EscrowWorkflowProofs` | `TypeCorrect`, `InvariantHolds`, `OneActiveEscrow`, `RowsAreConsistent`, `TrailIsLegal`, `AnchorsAreProven`, `NoEventIsRefused`, `WorkflowImplementsHistory`, `SettlementsAreBacked`, `SerialForksAreFailures` |
| `PaymentInstructionProofs` | `TypeCorrect`, `InvariantHolds`, `OneActiveInstruction`, `InstructionsAreBacked`, `StatusesAreAnnounced` |
| `SourceToAwardProofs` | `TypeCorrect`, `InvariantHolds`, `AwardsHaveTheirOrder`, `TrailsTellTheCase`, `OrdersComeFromAwards`, `QuotationsAreAnswers`, `AwardsAreFinal` |
| `PlsFinancingProofs` | `TypeCorrect`, `InvariantHolds`, `OneCaseIsOpen`, `DecisionsAreShown`, `DecisionsAreComplete`, `DistributionsConserve`, `DecisionsAreFinal`, `ActivationsAreCovered` |
| `FulfilmentProofs` | `InvariantHolds`, `MatchesAreBacked`, `RowsAreTold`, `AcceptanceComesFirst`, `EntriesAreSingle` |
| `OrganizationNetworkProofs` | `SharedHolds`, `EntriesAreUnique`, `InvariantHolds`, `TransactionsAreWhole`, `RelationshipsAreDecided` |
| `ServicesProofs` | `AccessInvariantHolds`, `SessionsEnd`, `AccountInvariantHolds`, `AssignmentsAreTold`, `MembershipInvariantHolds`, `TrailIsTrue`, `DocumentsInvariantHolds`, `UploadsAreWhole`, `ExternalInvariantHolds`, `KeysAreKept`, `AnchorInvariantHolds`, `VerdictsAreTrue`, `ContractInvariantHolds`, `AgreementsAreNegotiated`, `ExportInvariantHolds`, `BundlesAreTold`, `WorkspaceInvariantHolds`, `SummariesTellAlike` |
| `DeploymentProofs` | `DeploymentInvariantHolds`, `DatabaseStaysWhole`, `HistoryIsKept` |

**Escrow.** None of the properties is inductive: a
row can be overwritten by a request whose snapshot is arbitrarily old. The
invariant `IInv` therefore says what a request in flight carries
(`RequestInvariant`): its snapshot is a version of its row that was once
consistent (`StandsAt`), and stays so because events are never changed; what it
has not written is not there, what it has written is what it carries. The last
event of a snapshot belongs to a request that is done (`LastIsDone`), so its
anchor status is final, which is why a late write cannot pair a row with an
anchor status of another event. Every event names an existing escrow. Each action
then has a lemma per group of conjuncts it can disturb. The refinement maps an
INSERT to `Open`, the recording of an event to `Append` and the last update to
`StandAt`; all else stutters. What is behind a settlement needs one more invariant
(`EvidenceFits`): an approval that has found the evidence goes on with it on record, as
evidence is never taken back; the rest follows backwards along the trail, whose commands
leave only one way to each status. `SerialForksAreFailures` is about `EscrowLoad` with
`limit = 1`: the snapshot in flight has the last event of the stored row (`Current`), and
whatever continues the event a row names belongs to the request in flight or to one that has
failed (`ContinuesUnfailed`). Together they are `SerialTrail`, kept because a request that
ends well has moved the row to its own event.

**Payments.** Events of the escrow trail and settlement events
only accumulate (`TablesGrow`), so what was true of a snapshot remains true of the
row it becomes: its escrow was once ready, its list names recorded events of its
own, and after the recording the last of them tells its status. The escrow row
must be at an event of its trail (`HeadStandsAtEvent`), an invariant of
`EscrowHistory` proved along the way.

**Source-to-award.** A late write may replace a case by any older
version, so the invariant must hold of every version a handler carries, not only
of the stored ones. `RowFits` is what a complete version satisfies; `Recording`
says how the version of a request that is about to record an event falls short
of it (its status is one event ahead of its trail), and `Ordering` the same of an
award without its order. Events and orders only accumulate (`TablesGrow`), so
a version that fits fits forever (`RowStays`), whenever it is written back.
For `AwardIsFinal`, `AwardInv` adds what holds with one request in flight: nobody else can
save (`Alone`), a case exists only once the request that created it has arrived
(`CasesHaveArrived`), and the version the handler carries keeps the award of the stored one
(`KeepsAward`).

**Onboarding, Shariah governance, financing.** The invariant has two layers.
`RequestFits` says what a handler keeps at each query it awaits, under any overlap: the row
a reviewer will write carries the reviewer and an outcome, the review an edit will write is
consistent in itself, the certificate of an activation is of the contract's template. It
survives the steps of others because rows are never removed and some of their columns never
change (`TablesGrow`). `SerialFits` adds what holds only when `limit = 1`: what was
read before is still so, because nobody else is in flight (`Alone`); an expiring certificate
is the exception, and is why a handler compares `late`, the certificates expired when it
read the time. `DecisionsAreFinal` and `ActivationsAreCovered` follow at the step that
writes; that a revocation is final needs only that a pending save of an existing certificate
revokes it. The shares of a distribution rest on one lemma about truncating division
(`Truncation`): they add up to the signed result for every amount and percentage, except
for a profit reported negative, which the theorem excludes by name (`NegativeProfit`).

**Fulfilment.** `RowsFit` is what stored rows satisfy among each other, and `JobOk` what a
handler's local variables satisfy at each query it awaits. A match reads the
invoice, the order and the evidence by separate queries and then writes back the whole
invoice, so `MatchOk` says of the row in hand, at every one of them, what is said of a stored
one; between recording its event and saving, the row falls short of its trail by that one
event (`Recorded`, `DraftFits`). Acceptances, evidence and events are never taken back, so
neither a stale row nor a stale count is ever wrong, only old. `NoDuplicates` needs
`EntriesAreUnique`, and that the metrics a closeout computes from sets it read earlier never
exceed what there is now (`MetricsFit`).

**Organization network.** The invariant has four parts. `SharedInv` holds on any pool, also
one on which handlers commit and roll back each other's writes: the rows written by open
transactions (`HeldBy`) keep their unique entries apart from those of every other, which is
what `Free` and the locks give, so any subset of them may be committed, and `UniqueEntries`
follows. It also says that versions of a network request differ in their state only and that
a decision is one of the target (`DecidedByTarget`). `OwnedInv` needs a connection for
every request (`~Saturable`): nobody queues, every handler in flight holds a connection of
its own (`ConnectionsOwned`), a transaction belongs to the handler that began it
(`TransactionsOwned`), and what it wrote with what it has still to write is all it was asked
for (`WritesFit`, `ProgressFits`). Hence `WholeOrNothing`. `SerialInv` adds, for
`limit = 1`, that the request a handler decides is still undecided (`DecidesSent`).
`LimitsOk` is the choice made at the start. The assumptions on the seeds say that they keep
the unique entries themselves. The proof is for every `MaxInFlight` and every size of the
pool, with connections that break or are closed idle: closing one leaves nothing open on it
(`Closes`), which `SharedInv` survives; after a failed query a handler has only its
`ROLLBACK` left, on whatever connection it gets (`ContinueAnew`); and an idle connection is
nobody's while every handler has one of its own, so `OwnedInv` survives as well.

**Services.** What these proofs share is how a handler moves: it goes to one next query with
new local variables or ends (`Goes`), touches no other handler, and with `limit = 1` every
earlier request is answered (`InTurn`). The rest is particular to each.

- *Sessions.* A pending save either opens a session of the handler's own or ends one, with the
  roles the session had, so an ended session stays ended whichever stale row is written last.
- *Assignments* (`AccountInv`). A row names its last writer (`WrittenBy`), and how far that
  writer has come says how the row may differ from its event (`RowAccounted`): a change has
  revoked the old role before it saves the new one and records both after. With `limit = 1`
  the event is the last word on its user and role until a later request writes (`LastWord`).
- *Membership.* A number is unique because of the index (`NumbersAreUnique`), a request that
  is about to audit a success has written its row and one about to audit a refusal has
  met the holder of the number (`RequestFits`), and whoever last wrote a row audits it before
  it answers (`WritersAreKnown`).
- *Documents.* `UploadFits` follows an upload through its three writes: what is there at each
  awaited call is what has been written so far. A read that goes on to the extraction was
  allowed the document, whose owner never changes (`ReadFits`).
- *Integration API* (`ExternalInv`). A handler reaches the query that stores its key only with
  its own work complete (`ResultsFit`), and completed work is never undone, so a key keeps its
  result. That one request after another repeats work only after a failure needs that
  whoever goes on to work has found no key (`Begun`) and that whoever got past storing it left
  one (`KeyIsStored`).
- *Anchoring* (`AnchorInv`), whatever metadata rows the seed left. Nothing but the prefixed
  hash of a recorded event of its own is ever on a ledger or in a gateway's memory
  (`EventFits`), a seeded row is not taken for a recorded one (`Recorded`), and the ledger only grows, across restarts and late commits
  (`WorldGrows`). What a handler has read of it is therefore still so when it answers
  (`AnchorJobFits`).
- *Contracts* (`ContractInv`). The row a handler is about to write back tells its own
  negotiation, however old (`SavesNegotiation`). With `limit = 1` it also extends the stored
  history, so nothing is lost.
- *Export bundles* (`ExportInv`). The two saves of a creation and the save of a signer write
  whole rows. Proof, ledger and metadata agree at every query in between (`CreationFits`), and
  a signer can only have read a bundle whose creation had ended (`SigningFits`), so it cannot
  take the proof away. With `limit = 1` signers save in the order they arrived.
- *Workspace* (`WorkspaceInv`). Acceptances and evidence are not taken back, so what each of
  the four reads has found still holds when the summary is computed (`SnapshotTold`,
  `FactsGrow`), and a later read finds no less than an earlier one. Marks only grow within a
  process, and answers of an earlier process have a smaller epoch (`AnswerFits`); with
  `limit = 1` a snapshot has every mark of an earlier request (`EarlierDone`). What is left is
  about the pure computations: one lemma for each part of the summary says when it shows a
  failed match.

**Deployment.** The files applied are an interval `1..n`: a run that has come to a file has
found or applied all before it, on every path through its scripts (`FilesApplied`,
`RunFits`). The seed is one transaction of many statements, which are followed one by one
(`Stage`, `SeedAllStage`), so that in every state the data is absent or whole
(`NothingSeeded`, `AllSeeded`). The status of a row that names an event is that of the event
or that of the seed (`RowTold`), and between the two writes of the server its event is the
last of its kind (`MoveFits`), which no seed in between changes; so the escrow's reference
never goes back.

**Only model-checked:** of the properties that the passing runs check, the two liveness
properties `AnchorStatusIsSettled` and `EveryHandlerAnswers`: liveness under fairness and
`ENABLED` are not supported by the backends. Every safety invariant, every action property
and the refinement is proved.

## 5. Disagreements between the code and its documents

1. `escrow_stale_release` (`escrow/application/transition-escrow.ts:351`): a release
   judged on an old snapshot lifts a hold; `ESCROW_WORKFLOW_CONTRACT.md:242`.
2. `escrow_metadata_failure` (`blockchain/application/anchor-procure-to-pay-lifecycle-event.ts:108`):
   the save is returned without `await`, so its failure escapes the `try` and fails the
   request; `ESCROW_WORKFLOW_CONTRACT.md:346`.
3. `deployment_reseed` (`src/scripts/db/seed-demo-data.ts:1715`): every start of the
   container writes the seeded escrow's status again, also of a refunded one;
   `ESCROW_WORKFLOW_CONTRACT.md:94`. `POSTGRES_PERSISTENCE_DECISION.md:32` and `:174` ask
   for seeds that are idempotent or safely repeatable.

Seen on the way, without a run of its own. The properties are stated so that they say what
the code does keep: some for one request at a time (`AwardIsFinal`, `DecisionsStand`,
`ActivationIsCovered`), which excludes the overlaps below, others of what is stored rather
than of what it was at an instant (`InstructionIsBacked`, `MatchIsBacked`).

- `escrow/application/create-escrow.ts:285`: the second write of a creation undoes a
  funding handled since its INSERT. `transition-escrow.ts:155`: any reference text
  satisfies the accepted-order condition (`ESCROW_WORKFLOW_CONTRACT.md:239`). An order
  may be rejected, by a second acknowledgement under way, after the escrow that relies on
  its acceptance (`procurement/application/acknowledge-procurement-order.ts:67`).
- `payments/application/payment-instruction-service.ts:169`: an instruction may be saved
  for an escrow that is no longer ready (`PAYMENT_ADAPTER_CONTRACT.md:88`). Creation and
  reconciliation file their events under different cases (`:198` the order, `:294` the
  escrow).
- Two overlapping awards of an RFQ create two orders; a quotation or an approval saved
  late erases a stored award or RFQ; of two quotations submitted at once one is lost. An
  award whose case could not be saved leaves its order behind, and the RFQ can be
  awarded again (`source-to-award-service.ts:438`).
- `invoice-service.ts`: an amount typed without decimals never matches its order, whose
  amount is text. Verifying a match again takes an approved invoice back to its match
  status, one request after another suffices. An order can be closed under two case
  identities; a second closeout of one case ends in a 500 by the constraint.
- Financing (`pls-contract-service.ts:252-266`): the sign of a profit is not checked. One
  reported as -1.99 is stored with a gross amount of -1.99 and, at 60 to 40, shares of
  +1.19 and +0.80, so its shares do not add up to it; the simulator refuses the same input
  (`pls-scenario-simulator.ts:43-51`). `DistributionConserves` excepts this case by name.
  A contract is activated although its review or certificate is withdrawn between the
  read and the save (`:171`).
- Onboarding: two overlapping decisions are both stored, the later one is the case's
  (`STATE_MODELS.md:357-358`). Shariah reviews: a checklist edit that read the review
  before a decision undoes it (`shariah-review/api/routes.ts:596`). A deleted member
  organization may be set to any status (`STATE_MODELS.md:34`). Of two racing
  registrations of one number the loser gets a 500 without an audit event. Two decisions
  of one network request may overlap, since the UPDATE has no condition on the state.
- Organization network: `BEGIN` and `COMMIT` are queries of a pool. With more requests in
  flight than connections, the statements of one transaction run on several connections,
  and what one request began another commits or rolls back.
- Access control: a change of roles that fails after its first write leaves the user
  without the old role and without the new one
  (`access-control/application/change-role-assignment.ts:90`); its audit event names the
  new role only. An expiry saved late replaces a revocation of the session
  (`auth/api/authenticated-request.ts:40`). `server.ts` wires none of `userStatusLookup`,
  `memberStatusLookup` and `userExistenceLookup`, so the checks behind them never happen.
- Contracts: an acceptance names neither version nor terms, so it accepts whatever is
  offered when it is handled. Integration: a replay under a known key does not compare
  the bodies; a concurrent duplicate ERP request ends in a 500; the key of an ERP job
  belongs to its profile, not to its client.
- Documents: JSON with an escaped NUL in a key leaves a row that says `extracted` without
  an extraction; the files are on no volume of `docker-compose.app.yml`.
- Anchoring, seeded rows: `src/scripts/db/seed-demo-data.ts:1739` and `:1897-1917` write a
  row with status `anchored` and chaincode `audit-anchor` for `demo-delivery-event-002`,
  which is never submitted, while `BLOCKCHAIN_ANCHOR_CONTRACT.md:65` says that `anchored`
  means that Fabric accepted the transaction. Its proof says `anchored`; its verification
  answers `notFound` or `unavailable`. `ProofsAreTold` asks an anchored row to be on the
  ledger of the events that requests recorded.
- Anchoring: the in-memory gateway labels its rows as anchored on `fabric-local` but
  forgets them at a restart, after which verification answers `notFound`. Verifying the
  bare hash that the trail shows gives `mismatch` in memory and `unavailable` on Fabric,
  where only the prefixed form verifies. The ledger may hold an event whose row says
  `failed`.
- The key that signs export bundles and all productivity state live in the process.

## 6. Not modelled

- **ops**: health, readiness and incident records; one insert after a check, of a log
  that nothing else reads.
- **security, shared**: rate limiting in memory, errors, formatting, identifiers; what
  other modules rely on (hashing, audit events) is modelled with them.
- **server wiring**: decides what each module assumes: Postgres, no transactions, a pool
  of the default size, optional lookups left out.
- **frontend**: keeps no state the backend relies on.
- Read models: dashboards, the transaction-history view, the company graph and its
  projections. They only read, in several queries; what such a read can show is modelled
  once, in `Workspace`, whose deal-based scorecards and checklists are left out.
- The ISO 20022 mapper, reports and exports as files: formatting.
- The Fabric network, Postgres, pg and Node are external: modelled by what the code uses.
- In `ShariahGovernance` the error event of a failing history read; in
  `OrganizationNetwork` the active relationships of the seed, which no request decided.
