# TGR-CRM: verification project

TGR-CRM is the sales, post-sales and finance system of a timeshare operator: a
TypeScript server (tRPC over Express, Drizzle over MySQL) with background jobs and
bridges to other systems (Relationship, Sales Command, Financial, Recovery, GuestPass,
Asaas, ClickSign), and a web client. This directory models the parts of the server that
carry money, stock, personal data and events between actors that do not wait for each
other, checks the models with TLC and proves some of their properties with TLAPS.

Paths below are relative to the root of the repository. A state of a model is the rows
of the tables involved and what a process keeps in memory; an action is one database
transaction, one remote call, or one awaited read or write where the code reads first
and writes later. `map` in `PROJECT.json` gives the source lines of each definition;
definitions marked `mutant` are plausible bugs: replacing the definition they follow
by them must break the property named in `mutants`. They are in no specification.

## 1. The system

| Component | State | Operations | Interacts with | What is hard |
|---|---|---|---|---|
| Sale formalization and fraction stock (`server/formalizationInventory.ts`, `holdSweep.ts`, `holdExpiryJob.ts`, `routers/inventory.ts`, `saleOrderGate.ts`) | `commercial_fractions`, their holds and history; two flags read from the environment by each process | reserve at creation, settle at the conferences, negotiate, block, sweep lapsed holds, mark contracts as lost | contract creation, final validation, cancellation | a sweep of several transactions; deadlines that pass between two conferences; flags that change with a restart |
| Final validation (`saleValidationService.ts`, `saleValidation.ts`) | `sale_validations`, `contracts.status` | confirmPayment, confirmDocuments, validateSale | stock, documents, envelopes, commissions | gates read from four places; segregation of duties |
| Contract lifecycle (`routers/contracts.ts`, `cancellationExecution.ts`, `shared/contractLifecycle.ts`) | `contracts`, `contract_cancellation_requests` | create, updateStatus, request, decide and execute a cancellation | everything a contract owns | one transaction undoes stock, debt, charges and commissions |
| Sales Command ingestion (`salesCommandBridge.ts`), opportunities (`routers/sales.ts`) | customers, sheets, opportunities, proposals, contracts | ingest a sale, update an opportunity, create a proposal | stock, reception | retries of a confirmed sale at two entrances; reads of an old snapshot |
| Visits received (`attendanceReceiver.ts`) | history of visits, registry of last visits | receive a revision of an encounter | Sales Command | events late, repeated, out of order, corrected |
| Outbox and bridges (`relationshipBridge.ts`, `financialBridge.ts`, `bridgeRewind.ts`, `integrationResend.ts`, `txOutbox.ts`) | `domain_events`, receipts in `audit_logs`; cursor, backoff, pager in memory | tick, drain in order, retry, refuse, give up, resend, rewind | every handler that writes an event; three consumers | ids are allocated before rows are visible; lost answers; memory lost at a restart |
| Installments, charges, renegotiation (`routers/finance.ts`, `paymentGatewayWebhook.ts`, `gatewayIssueRecovery.ts`), adjustments (`routers/monetaryAdjustments.ts`) | `installments`, `billing_records`, `payment_gateway_issue_intents`, webhook events, agreements, `financial_transactions` | pay by hand, issue at the gateway, register by hand, receive webhooks, recover orphans, renegotiate, adjust | Asaas, contract, commissions | remote calls inside a transaction; events before the row they are about; snapshots older than locks |
| Commissions (`routers/commissions.ts`, `installmentCommissions.ts`, `commissionAutomation.ts`) | `sales_commissions`, policy versions | create at a payment, hold, block, skip, release at the validation, reprocess, approve, pay, cancel, review | payments, validation, cancellation | two generations of rules; payment, validation and cancellation in any order |
| Electronic signature (`eSignatureService.ts`) | envelopes, documents | set up (a chain of remote calls), reconcile, webhook | contract documents, final validation | a webhook during the setup, a stop between two calls |
| Sales room (`routers/captures.ts`, `routers/captureSheet.ts`, `salesRoomDomain.ts`) | capture sheets | create, check in, present, record the outcome, record a visit without tour | eligibility, erasure | decisions on a sheet read without a lock |
| Reservations (`routers/operations.ts`) | reservations, guests, waiting list, maintenance blocks, units | book, offer, convert, block, change a unit | points | a snapshot older than the lock |
| Points (`routers/pointsLedger.ts`) | the statement of an entitlement | credit, use, adjust, reverse, expire | reservations | several transactions per entry; the year turns between them |
| Non-buyers (`nonBuyerEligibilityService.ts`, `nonBuyerDelivery.ts`) | projection of eligibility, its events, book of deliveries | reevaluate, reconcile, discover, claim, revalidate, post | every fact of a customer; Recovery | snapshots, hooks that fail, leases that elapse |
| Privacy erasure (`privacyErasure.ts`, `privacyErasureFeed.ts`, `captureErasure.ts`, `routers/customers.ts`) | requests, orders of the feed, personal data | complete, reject, pull, claim, erase, answer | every writer of personal data; GuestPass | a writer that read before the erasure |
| Rescue queue (`rescueShadow.ts`) | cases of contracts in arrears | sweep, call, dismiss | installments, contract | one transaction per contract; a contract that fails |
| Vouchers, imports, revenue quality, permissions, dashboards, blobs, client, schema | see section 6 | | | |

`PROJECT.json` lists every component with its sources, what is modelled of it, and,
under `hazards`, each place where the code can go wrong in a way a test would hardly
reach, with the property that covers it or the reason none does.

What makes the components correct:

- *Stock*: no fraction is sold twice, kept for a dead contract or given back except by
  a cancellation; a validated sale owns its quotas; a reservation never stays for ever.
- *Contract*: what is active went through the final validation.
- *Intake*: one sale is one contract and closes one opportunity, however often it comes.
- *Bridges*: every committed event ends with a receipt, in order per contract, and
  nothing is sent under a receipt.
- *Receivables*: money is booked once per payment or handed to a person, the debt does
  not grow, what is closed is not collected, no intent of a charge stays pending.
- *Commissions*: nobody is owed more than the due, before it is earned, or by a
  cancelled contract; no payment of a valid sale goes by.
- *Couples*: a couple that opted out is not offered, what was offered is revoked, the
  projection comes to the facts, and what was erased does not come back.
- *House*: a visit ends once, a unit has room for who sleeps in it, a balance is
  covered, a signature is one the associate gave.

## 2. The modules

| Module | Role |
|---|---|
| `FractionStock` | abstract: what the stock promises a seller |
| `SaleFormalization` | contracts, conferences, holds, sweep, cancellation; implements `FractionStock` |
| `SaleIntake` | a confirmed sale becomes a contract, beside reception and desk |
| `AttendanceRegistry` | the receiver of visits |
| `OutboxDelivery` | abstract: at-least-once delivery that stops at the receipt |
| `BridgePump` | the pump of one target, with its memory; implements `OutboxDelivery` |
| `RescueQueue` | the sweep of contracts in arrears, with calls and dismissals |
| `Receivables` | one contract's installments, charges, webhook, recovery job, agreements, adjustment, cancellation |
| `Commissions` | what paid installments earn, by both rules, and the life of a commission |
| `ESignature` | the setup of an envelope, its webhooks and reconciliation, and the signature the administration confirms |
| `SalesRoom` | the visit of a couple |
| `Stays` | reservations, waiting list, maintenance, units |
| `PointsLedger` | the statement of points and its settlements |
| `NonBuyerEligibility` | the projection of who did not buy, select by select |
| `NonBuyerDelivery` | the book of deliveries to Recovery and its workers |
| `Erasure` | requests, orders of the feed, writers of personal data, an import and its undoing |
| `SaleFormalizationProofs`, `SalesProofs`, `JobsProofs`, `ReceivablesProofs`, `CouplesProofs`, `ErasureProofs`, `HouseProofs` | theorems |
| `Recursion` | lemmas about recursive functions and sums, for the theorems |
| `MCSales`, `MCJobs`, `MCHouse`, `MCCouples` | several components in one run of TLC |
| `MCSaleFormalization`, `MCBridgePump`, `MCReceivables`, `MCAttendance` | symmetry, bounds and constant functions for TLC |

The four composing modules extend theirs with a variable (`office`, `job`): a behaviour
is one of the component it starts in, the others stand still in a first state. What
one component does to another is an action of the other, so that nothing is lost by
this: a reevaluation is `Reevaluate` of `NonBuyerDelivery` and `NonBuyerEligibility` opens
it select by select; a sale that closes a sheet during an erasure is `MarkSold` of
`Erasure`, a formalization that read its customer before one is `FormalizeSale` of it, and the erasure of a sheet in the room is `Erase` of `SalesRoom`; the
cancellation of a stay is `CancelStay` of `PointsLedger`; an open envelope is
`envelopeOpen` of `SaleFormalization`; payment, validation and cancellation are actions of
both `Receivables` and `Commissions`.

### SaleFormalization

State: `status`, `lost`, `payment`, `conferred`, `validated` are columns of `contracts`
and `sale_validations`; `paper`, `stored`, `envelopeOpen` what documents and envelopes
tell the gates; `fstatus`, `owner`, `hold`, `expired` the stock; `quotas` and `viaHold`
what the history says of the creation; `lostQueue` the list the sweep keeps in memory;
`holdFlag`, `orderGate` the flags of the running process. Actions: the ways a contract
is born (`CreateContract`, `IngestSale`, `ImportContract`), the conferences
(`ConfirmPayment`, `ConfirmDocuments`, both through `Settle`, as in the code), papers and
envelopes, `ValidateSale`, `UpdateStatus`, the three steps of a cancellation, the four
handlers of the inventory router, the passing of a deadline, the two transactions of the
sweep and `Restart`. The code locks the rows it decides on, so a transaction is atomic;
what is not atomic is the sweep, whose first transaction frees the stock and whose later
ones mark contracts. Time is reduced to what is compared: a hold has lapsed or not, a
paper is early or late.

### SaleIntake

An entrance is a call of the route: it looks for the sale with a plain read, which
opens the snapshot of its transaction, waits for the lock of the resort, and then is one
step that reads customers and stages of sheets in the snapshot and the sheet and the
opportunity it uses as they are. Beside it run the reception, which opens sheets of the
same couple, and the desk, whose `updateOpportunity` is a read and a conditional write.

### AttendanceRegistry

`history` has a row per revision of an encounter, `registry` one per couple; `call` is
what each receiver has read. A receiver looks for the event outside its transaction and
writes event, history and registry inside, behind the lock of the resort. The content of
an event is its project, which is what the hash and the resort depend on.

### BridgePump

One target with one consumer; the Financial pump is a target whose refusals carry codes
and whose receipts are one per event. A row of `domain_events` is `open` between its
insert and the commit, when its id is taken and nobody sees it; `recent` is the window a
tick reads again. `queue`, `fresh`, `isDue`, `posted` are the tick in progress, `cursor`,
`retry`, `due`, `rejections`, `after`, `rewind`, `asking` the memory a restart clears.
The actions follow the outcomes of `attempt` and `drainOrdered`, each with its effect on
backoff, receipts and cursor. `pending` is an auxiliary variable: what the tick could see.

### RescueQueue

Time is a day. The sweep takes one contract per transaction: `sweep` is where it is and
the snapshot the transaction has. The case is locked after the snapshot was opened, so
the case is as it is and the debt as it was. Calls and dismissals lock the case only; a
payment, a new bar, a change of the settings and the turn of the day happen at any
step. A contract may fail, which leaves it to the next round, and the process may stop.

### Receivables

State: the installments of one contract (`inst`), what was booked for them (`income`,
`commission`), the Asaas row and the rows by hand of `billing_records` (`billing`,
`manual`), agreements, intents and webhook events, the charges at Asaas (`remote`), and
the memory of what is running. `issueGatewayBilling` is one transaction around remote
calls: it is split into its calls, and the locks it holds on installment and contract
keep out whoever takes them (`ContractFree`, `InstallmentFree`). `applyAdjustment` and
`registerBilling` read from a snapshot opened before their locks: begin and end are
separate. The webhook reads its charge before its transaction; the recovery job asks
the gateway, then opens a transaction, then calls the webhook's code, then marks the
intent, each a step of its own. `booked` and `reviewed` are the audit trail of money.
Money is in units: an adjustment adds one, a remote charge keeps the value it was
created with, and a row the amount it was recorded with.

### Commissions

State: the installments (`inst`) and the agreements that replaced some (`agreed`), the
rows of commissions (`line`), what is told of an installment without one (`trace`: held,
blocked or skipped, with the reason), the rate of the first rules and the release of the
second (`rated`, `released`), how the second rules pay (`payout`), and the contract. Payment, validation, reprocess and
cancellation hold the lock of the contract and are one action each; `setStatus` reads
first and writes later (`deciding`). An installment is worth one unit; the policy is
complete; overdue counts as open; an installment is paid in whole; one counter gives the
order of payments. Agreements propose any date of `Dates`, those of the schedule included.

### ESignature, SalesRoom, Stays, PointsLedger

`ESignature`: a setup is the chain document, signers, requirements, activation, notice,
each recorded as it goes; the service's view of an envelope is apart from the row of it,
and its webhooks are in flight until delivered, in any order and again; the document may
be cancelled there before the envelope closes. The row is inserted from what was read
before the file was fetched, and an error of the audit after the last transaction undoes
the setup as one before it does. Beside it the administration confirms the signature of
the document without any envelope (`ConfirmSignature`) and uploads the signed file
(`StoreSignedFile`), which the validation of the sale waits for. `SalesRoom`: a
host reads a sheet (`act`) and writes by an update that repeats a part of what was
read; `updateStatus` writes the reason it is given, or none, with any status but `no_tour`;
a submission of a device is resent until it has its answer. `Stays`: a desk that
books has read the customer first, and with it the snapshot its conflict query sees;
everything else decides under its locks. `PointsLedger`: an entry is the settlement of
what lapsed, the audit of each expiration, the row and its audit, each a transaction;
the year turns and the process stops between any two.

### NonBuyerEligibility, NonBuyerDelivery, Erasure

`NonBuyerEligibility`: the facts of a customer, the row of state of each capture, and
every select of a reevaluation as a step under the isolation it has: the snapshot of its
first read, its own writes, the second reading of the hook on another connection, READ
COMMITTED for the reconciliation. `NonBuyerDelivery`: each awaited call of the worker is a
step; rows have leases, which elapse only under a worker that was paused; posts may be
lost before or after Recovery has them. `Erasure`: two runners share the orders of the
feed by claims; clerks read a sheet or a customer and write later; the writers that lock
the customer first are one step. The formalization of a sale does not lock it: it finds the
customer in its snapshot (`MatchForSale`) and later writes contract and sheet without
looking again (`FormalizeSale`). An import reads the rows of the customers it replaces
before its transaction and copies them for `undoLast`, which reads the copies before it
locks the customers (`imports`).

## 3. The runs

Bounds are constants named in the modules: the sizes of the sets, and the `Max...`
constants that appear in guards.

| Run | Instance | Shows |
|---|---|---|
| `sales` | 2 contracts, 1 fraction, order gate on, both hold flags over restarts, negotiation holds; 2 sales of a couple at 2 entrances, up to 3 rows of each kind, 1 act of the desk; 2 encounters with 2 revisions at 2 receivers, corrected forward | `SalesTypeOK`, `StockIsBacked`, `ActiveIsValidated`, `QuotasFollowTheSale`, `SoldReturnsOnlyByCancellation`; `EachSaleClosesItsDeal`; `LastIsNewest` |
| `sale_quotas` | 1 contract of up to 2 quotas, all flags, 2 administrators with segregation | `ReservedSoldAfterConferences`, `ImplementsStock`, `LapsedHoldsAreReleased` |
| `pump_outbox` | 3 events of one contract: a contract-state pump whose batch is never full, one with batches of 2 and a restart, the Financial pump with a restart | `NothingForgotten`, `DeliveredInOrder`, `ImplementsOutbox` |
| `jobs` | 2 contracts with one event each, the first refused for ever, batches of 1, a restart; 1 contract in arrears with 2 installments over 4 days, 1 move and 1 halt, 3 cases | `JobsTypeOK`, `EventuallyHandled`; `CaseIsDecidedOnce`, `QueueFollowsTheDebt` |
| `receivables` | at the desk, in an active contract: 1 installment and room for the one that replaces it, 1 adjustment, 1 registration, 1 issuance, 1 crash; at the gateway, from the formalization on: 1 installment, 2 issuances, all events of payment, 2 attempts of the recovery | `TypeOK`, `DebtIsConserved`, `ClosedIsNotCollected`; `ReceiptsAreBookedOnce`, `CommissionsFollowTheSale`, `IntentsAreResolved` |
| `couples` | 1 sheet, 2 business transactions and the reconciliation; 1 couple, 2 transitions, 2 workers, 2 attempts, 2 faults; 1 customer with 2 sheets and 1 clerk, who imports and undoes imports, or beside whom 2 runners have 1 order and 1 mishap | `CouplesTypeOK`; `EventsTellTheProjection`, `OptOutIsSeen`, `ProjectionConverges`; `RevokedAfterEligible`, `RevocationArrives`; `ErasureHolds`, `FeedIsAnswered` |
| `house` | 2 couples and 2 hosts; 1 unit, 1 night, 2 reservations, 1 item of the list; 3 years, 5 rows, 1 stop; 1 envelope, 1 reconciliation; 3 installments of which 2 are the entry, 1 agreement, due on a day of the schedule or not, 2 turns | `HouseTypeOK`; `VisitEndsOnce`; `StaysFindTheUnitFree`; `BalanceIsCovered`, `SettlementTakesWhatLapsed`, `LapsesAreSettled`; `SignatureIsReal`; `CommissionsAreDue`, `PaymentsEarnTheirCommission` |
| `sale_race` | 1 contract, order gate off | **violation** of `ValidatedOwnsItsQuotas` |
| `receivables_trace` | as the gateway of `receivables` | **violation** of `MoneyLeavesTrace` |
| `stays_overlap` | 1 unit, 2 nights, 2 desks | **violation** of `NoDoubleBooking` |
| `erasure_stale_sale` | as `couples` | **violation** of `NothingComesBack` |
| `attendance_moved_back` | 2 encounters with 2 revisions, corrected anywhere, 1 receiver | **violation** of `LastIsNewest` |

What the properties of the passing runs say, beyond their names:

- `StockIsBacked`: a held fraction has an active hold, of a contract still being formalized
  when the hold is of a formalization; a sold one a live owner; a free one nobody.
  `QuotasFollowTheSale`: a validated sale owns its quotas and a lost one nothing (with the
  order gate on).
- `EachSaleClosesItsDeal`: each formalized sale has an opportunity of its own; a sheet that
  is erased or leads to a won opportunity keeps what it leads to, and another gets one
  only from the sale that is formalized in that step, of its own customer.
- `LastIsNewest`: the registry shows the most recent encounter of a couple in its most
  recent revision, in whatever order events come, when corrections do not move back.
- `ReceiptsAreBookedOnce`: the income of an installment is what was paid of it, and an
  event of payment that found its charge is booked or in review.
  `CommissionsFollowTheSale`: no commission waits for a validation that came, and none is
  due by a cancelled contract.
- `CommissionsAreDue`: the lines in force of a role never sum above the due of their rule,
  all are of one rule, an installment has one for a role, and a commission of a cancelled
  contract is cancelled or was paid and is in review. `PaymentsEarnTheirCommission`: of a
  valid sale in force each payment, those made before the validation included, ends in its
  commission, in the trace that the reprocess selects (`commission.automatic.skipped`), or
  in nothing the rule of the contract owes for it, except in `LeftBetweenRules`; and each
  line of the second rules is on a payment of the entry that they owe for, the one that
  completed the entry where the whole of it is what pays, unless an agreement is due on a
  day of the schedule. A payment made while the contract is not active is outside of it:
  it is told as `contract_not_active`, which no one looks for later.
- `VisitEndsOnce`: a recorded outcome stays and belongs to a presentation, an ended
  visit does not return to the queue, a motive of the list is there for a visit without a
  tour only and with its label, whatever `updateStatus` wrote before, and a submission
  makes one sheet.
- `SignatureIsReal`: a document is signed only if the associate signed it, the service
  closed its envelope or the administration confirmed it; a contract is dated as signed
  only with a stored signed file or a closed envelope, and then its document is signed
  unless it was cancelled at the service; the document is announced once at most.
- `EventsTellTheProjection`: the events of a capture alternate and are numbered without
  gap. `OptOutIsSeen`: no hook offers a couple whose opt-out was committed when it locked
  the row. `ProjectionConverges`: whatever failed, the projection comes to the facts.
- `ErasureHolds`: after an erasure no writer brings personal data back, except by a sheet
  that a formalization which had read the customer before opened later, all other sheets
  stay erased, and no sold sheet is erased. `FeedIsAnswered`: each order gets one verdict and its receipt.
- `SettlementTakesWhatLapsed`, `BalanceIsCovered`, `LapsesAreSettled`: a settlement of
  however many years leaves what did not lapse; no balance is negative or holds a point of
  a settled year; what lapsed is settled and audited again and again.
- `CaseIsDecidedOnce`, `QueueFollowsTheDebt`: one open case per contract, one decision per
  case, an ended case stays; and the queue comes to what the debt says.

Why these bounds are enough for what they show. Two contracts and one fraction give
every pair of competitors; a third adds no kind of conflict, as transactions are
serialized per fraction. Two quotas give a sale that is partly swept. Three events of
one contract are an event, one that overtakes it and one that pushes the page on.
One installment has every race of issuance, webhook, recovery, hand, adjustment
and cancellation, because no transaction of these decides on another installment; the
second is there for the agreement. Two issuances give the reuse of a remote charge and
the answer that comes after the intent was registered again. Two transitions of a
projection are an eligible and its revocation, the unit the delivery decides on; two
workers give every lease taken from under another. Two business transactions and the
reconciliation are a hook, the one it does not see, and what repairs it. Three years
are the fewest in which a settlement takes two. Three installments of which two are the
entry have a payment before, at and after the end of the entry. Four days are a
due day, the end of its window, the end of a dismissal, and one more. Of one document there
is one envelope at a time in TLC's instance; for any number of them `SignatureIsReal` is
proved. At the desk of `receivables` no charge expires and no call of the recovery fails,
as both do at the gateway, where the amount stays; its invariants are proved with all of
them at once.

`CHECK_DEADLOCK FALSE` is set where a model runs out of work: a contract whose
installments are closed and whose counters are used up, and the offices of `couples`,
`house`, `stays_overlap` and `erasure_stale_sale`, which have no event of their own left.

### What the violations are

- `sale_race`: `validateSale` looks for `inventoryLostAt` and for fractions still held.
  The sweep frees the fraction first and marks the contract later, or never if the
  process stops: in between a contract that lost its reservation is validated. With the
  order gate on this cannot happen, which `sales` shows.
- `receivables_trace`: the shortest behaviour has the customer pay between the creation
  of the remote charge and the commit of its row. Others, found with that one removed:
  an issuance reuses a paid remote charge; the status the recovery remembers is old; its
  late "not found" abandons an intent registered again.
- `stays_overlap`: `createReservation` reads the customer before it locks the unit; under
  repeatable read, MySQL's default, its conflict query does not see a reservation
  committed in between.
- `erasure_stale_sale`: a sale finds its customer by phone and name in the snapshot of its
  transaction; the erasure commits; the sale inserts a sheet that is not anonymized for the
  erased customer, and `updateExtras`, which looks at the sheet only, writes the birth date
  back. `customerAnonymization.ts:7` says no path does. Everything else of the erasure
  holds, which `couples` shows (`ErasureHolds`).
- `attendance_moved_back`: a correction that moves the end of the last encounter back
  before another's leaves the corrected one shown, since an event is compared with the
  last visit only.

Other interleavings TLC found while the models were built have no run of their own. They
are hazards in `PROJECT.json` with a note, and the passing runs leave them out, by a
bound or by a clause of the property:

- a pager that goes on after a full batch lets a newer event of a contract overtake an
  older one that commits late (`relationshipBridge.ts:142`; the code's batch is 500);
- an intake decides on the stage of a candidate sheet in its snapshot
  (`salesCommandBridge.ts:275`);
- an agreement due on the day of a later installment of the same amount: `resolveEntry`
  knows the new installment by amount and date only and takes the later one for it, so the
  entry counts as whole and its commission is made while the agreed installment is open
  (`AgreementsApart`, `commissionAutomation.ts:115`);
- a contract of the first rules whose rates are zero once the second rules are released
  earns nothing and leaves no reason (`LeftBetweenRules`, `installmentCommissions.ts:64`);
- a payment made while the contract is overdue leaves the reason `contract_not_active`
  (`commissionAutomation.ts:164`); neither the return to active (`routers/contracts.ts:388`) nor the
  reprocess evaluates it again;
- the round of the rescue queue rehearses a decision on the debt of its snapshot
  (`rescueShadow.ts:140`; it is shadow mode, no contract changes);
- the delivery to Recovery reevaluates without the second reading and under repeatable
  read (`nonBuyerDelivery.ts:176`), and a lost answer of the last attempt leaves a couple
  at Recovery that the book does not call delivered (`nonBuyerDelivery.ts:120`).

### Fairness

- *Holds* (`FairSpec` of `SaleFormalization`): the job runs at start and every five
  minutes, so a lapsed hold that stays is swept, and the loop over the marks waits for
  nobody.
- *Pump*: the timer ticks for ever, what was read is drained, backoffs end. Strong
  fairness of `ReadBatch`, of an accepted POST and of its receipt says that retries which
  never stop are not refused for ever, except for events in `Poison`, of which nothing is
  assumed. Restarts are bounded.
- *Receivables*: the recovery job runs on a timer and its calls time out
  (`WF` of `Recovery`); an issuance ends with a commit or an abort, and an adjustment has
  no remote call. `RecoverySettle` is strongly fair since the transaction waits in the
  queue of a lock that others keep releasing. `IntentsAreResolved` needs no remote call to
  succeed: failures are counted and the last one hands the intent to a person.
- *Eligibility*: a transaction in flight goes on, and the reconciliation, which runs on a
  timer, comes to each capture (strong, because other transactions hold the row now and
  then).
- *Delivery, erasure*: a worker or runner that is on goes on, as a job on a timer does; a
  lease or a claim that is due elapses. Faults and crashes are bounded.
- *Points*: the expiry job sweeps and writes its audits.
- *Rescue*: `Round`, the next step of the sweep, is weakly fair; contracts that fail and
  restarts are bounded.

Nothing is assumed of users, customers, the gateway's events, or the consumers.

## 4. What is proved

Every invariant that a passing run checks is proved, and the action properties and the
refinements with it, for every value of the constants that the named assumptions allow.
The assumptions are in the modules that declare the constants, TLC evaluates them in
every run, and they say three kinds of things: null values are not rows (`NullsAreNotRows`,
`NoRowIsNoRow`, `NoSheetIsNoSheet`, `NoEnvelopeIsNoRow`, `NothingIsNoRow`, `NoRowsOfIntake`,
`NobodyIsNoWorker`, part of the others), bounds and amounts are numbers (`BoundsAreNat`,
`AmountsAreNat`, `TotalsAreNat`, `BoundsOfCommissions`, `BoundsAreCounts`, `ErasureBounds`,
`DaysOfRescue`, `StaysAssumption`, `PointsAssumption`, `IntakeAssumption`,
`EligibilityAssumption`), and sets that the code keeps in tables are finite where something
of theirs is counted or summed (`InstallmentsAreFinite`, `RolesAreFinite`).

`Recursion` has the lemmas the others share. A recursive function of TLA+ is a CHOOSE, so
that nothing is known of it until a function with its equations is known to exist:
`ByRecursion` shows one over `0 .. N`, `BySetRecursion` one over a finite set, `CountingUp` and
`OneByOne` are the inductions that go with them, from the well-foundedness of the naturals
because the library's induction theorems take an operator for parameter. `SumIs`,
`SumGrows`, `SumOfBoth` and `SumOfSame` say what a sum over a finite set does when the
function changes.

### The sale (`SaleFormalizationProofs`)

For any sets of contracts, fractions and administrators and any values of the flags:

| Theorem | Statement |
|---|---|
| `TypeCorrect` | `Spec => []TypeOK` |
| `SaleInvariant` | `Spec => []SaleInv` |
| `ReservationsBacked`, `SoldOwned`, `StockBacked` | `Spec => []StockIsBacked` and its two parts |
| `ActiveValidated` | `Spec => []ActiveIsValidated` |
| `SoldReturns` | `Spec => SoldReturnsOnlyByCancellation` |
| `ReservedSoldLate` | `Spec => []ReservedSoldAfterConferences` |
| `StockImplemented` | `Spec => ImplementsStock` |
| `QuotasKept` | `GateIsOn /\ Spec => []QuotasFollowTheSale` |

The safety properties are not inductive one by one. A cancellation frees what the
contract owns, so it keeps the reservations backed only if every hold belongs to the owner
of its fraction; a validation leaves the formalization, so it keeps them only if the
contract has nothing held, which is one of its gates; and `ActiveIsValidated` needs that
a validated contract is past its formalization, because only contracts still being
formalized are marked as lost. `SaleInv` puts these together: types,
`ContractShape`, `HoldShape` and `SoldHasLiveOwner`. The proof treats one group of
actions per lemma. `ReservedSoldLate` adds `ConferenceInv`: a contract enters `viaHold` at
its birth and never leaves it, so a restart with the flag off does not change what its
fractions wait for.

For the refinement, `PlaceOf` maps each fraction to its place in `FractionStock` from its
row, its hold and its owner. `PlaceNow` and `PlaceNext` read that place off `SaleInv` before
and after a step: held with a formalization hold is reserved for the owner, held with
another hold is negotiated, sold is sold to the owner. Each action is then one move of the
stock, of the fractions of one contract (`Putting`, `Moving`, `GivingBack`), or a stutter
(`Stutters`). What a sale asks for is what the stock accepts because a request names
fractions (`RequestShape`).

`GateIsOn` is what `QuotasFollowTheSale` needs: the order gate on in every run of the process,
no exempt contract, one quota to a sale. Without the gate, a sale is validated between
the sweep's two steps (`sale_race` is that counterexample); two quotas of a sale lapse one
at a time, and between the two the sale owns a part. `QuotaInv` says of each contract that
while it has not expired it owns its quota, that once expired it owns nothing, that only an
expired one is lost or waits to be, and that past both conferences nothing of it is left
that could expire.

### Sales and visits that come in (`SalesProofs`)

For any couples, encounters, revisions, projects and receivers, any sales, entrances and
rows:

| Theorem | Statement |
|---|---|
| `AttendanceTypeCorrect` | `AttendanceSpec => []AttendanceTypeOK` |
| `HistoryCounted` | `AttendanceSpec => []HistoryIsCounted`: the count of a couple is the number of its encounters in the history |
| `LastVisitIsShown` | if `CorrectionsMoveForward`, `AttendanceSpec => []LastIsNewest` |
| `IntakeTypes` | `IntakeSpec => []IntakeTypeOK` |
| `SalesCloseTheirDeals` | `IntakeSpec => EachSaleClosesItsDeal` |
| `SalesTypesKept` | `SalesSpec => []SalesTypeOK`, of the three components of the run |

`RegistryInv` says that the history has each revision once and under the project of the
resort, that a couple is registered as soon as it has a history and with a visit of it,
and that its count is a cardinality. `LastIsNewest` is inductive beside it
(`NothingNewer`) only when a later revision of an encounter does not close before an
earlier one: the comparison with the last visit alone is then as good as one with the
whole history. Without the hypothesis it is false, which `attendance_moved_back` shows.

`IntakeInv` says that an opportunity, and the code of the couple, is on one sheet at most
(`FoldersOK`), that the opportunity of a sale is won and of no other sale, and that what the
desk is about to write does not reopen one (`DealsOK`), and that the stock is what the sales
that keep their quota leave of it (`StockOK`). What an entrance read in its snapshot is
arbitrary: the proof relies on what is read again under the locks only.

### Pump and queue (`JobsProofs`)

For any number of events, any targets, batches, exclusions, limits of rejections and
restarts, any contracts, due days and cases:

| Theorem | Statement |
|---|---|
| `PumpTypeCorrect` | `Spec => []TypeOK` |
| `PumpForgetsNothing` | `Spec => []NothingForgotten` |
| `PumpKeepsOrder` | `Spec => DeliveredInOrder` |
| `OutboxImplemented` | `Spec => ImplementsOutbox` |
| `QueueTypes` | `QueueSpec => []QueueTypeOK` |
| `CasesDecidedOnce` | `QueueSpec => CaseIsDecidedOnce` |
| `JobsTypesKept` | `JobsSpec => []JobsTypeOK` |

`NothingForgotten` is not inductive: when the cursor follows the batch, what lies between
the old cursor and the new one must be in the batch or known already. `BatchIsWhole` says
so, and holds when the batch is read because it takes the smallest ids (`SmallestIsWhole`,
by cardinalities); an event that commits later under an id the cursor passed is in the
window, because `RowsInHand` keeps every open row there. `PendingKept` says of a pump whose
batch is never full that what the tick could see is still in its queue, done with, in the
backoff or sent again, so that nothing older of a contract is left when an event is sent.
For the refinement, `PostedIsCurrent` says that the receipt about to be written is of the
current event, which the consumer has, and that no other receipt exists under its key.

`QueueInv` ties the status of a case to what was told of it (`CaseOK`): one that is open has
not been decided, one that was told to run is not in review and the reverse, and one was
told to be resolved exactly when it ended. A round may then decide on a debt of its snapshot
and still decide once, because the case is read under its lock.

### Receivables (`ReceivablesProofs`)

For any finite set of installments, any payments, amounts and bounds:

| Theorem | Statement |
|---|---|
| `ReceivablesTypeCorrect` | `Spec => []TypeOK` |
| `ReceiptsBookedOnce` | `Spec => []ReceiptsAreBookedOnce` |
| `ClosedNotCollected` | `Spec => []ClosedIsNotCollected` |
| `CommissionsFollow` | `Spec => []CommissionsFollowTheSale` |
| `DebtConserved` | `Spec => []DebtIsConserved` |

Two conjuncts carry the first ones. `MemoryInv` says what a call in progress may rely on: an
issuance between its calls to Asaas holds an installment that is still open, which is what
its locks are for, and no adjustment of the contract is running meanwhile. `MoneyInv` ties
charges to debts: an installment has nothing credited before its one charge is recorded,
and a charge never brings more than is owed, because what is owed of an open installment
only grows (`ChargesFit`). Without that, the webhook could credit less than it books.

`DebtIsConserved` is a sum over the installments. It needs of an agreement that it is for no
more than the balance it was made for (`AgreementsFit`): when it is applied, the installment
it replaces goes on owing what was paid of it, the new one what was agreed. Each action
changes what one installment owes, two, or, for an adjustment, all, and the sum follows by
the lemmas of `Recursion`.

### Couples (`CouplesProofs`, `ErasureProofs`)

For any captures, workers, transactions, customers, sheets, orders, runners, clerks and
bounds:

| Theorem | Statement |
|---|---|
| `TypeCorrect` | `Spec => []TypeOK`, of the delivery |
| `RevocationsFollow` | `Spec => []RevokedAfterEligible` |
| `DeliveriesAreTrue` | what the book calls delivered, Recovery has accepted |
| `RowsLeaveForGood` | a row that left the queue never changes again |
| `EligibilityTypeCorrect` | `EligibilitySpec => []EligibilityTypeOK` |
| `EventsTell` | `EligibilitySpec => []EventsTellTheProjection` |
| `NobodyEligibleOverAnOptOut` | `EligibilitySpec => OptOutIsSeen` |
| `ErasureTypeCorrect` | `ErasureSpec => []ErasureTypeOK` |
| `ErasureIsFinal` | `ErasureSpec => []ErasureHolds` |
| `CouplesTypesKept` | `CouplesSpec => []CouplesTypeOK` |

`RevokedAfterEligible` speaks of what Recovery has, which no worker can read. Its
invariant `IInv` ties it to the book: a delivered row was accepted, and a worker past its
revalidation with a revocation in hand has seen an earlier delivered row of the couple
(`PostFollowsDelivery`). That stays true while the worker is paused, whoever takes its
lease, because delivered rows leave the queue for good, which is proved first as an action
property. `RoomToRevoke` keeps the bound on transitions from cutting an eligible couple
off from its revocation.

`EligInv` says of every transaction in flight (`TxOK`) that what it will write is the next
number of a row whose lock it holds, with the opposite of what the row says, and that once
it has read all, an opt-out that was there when it got the lock is among what it read. What
makes the second true is that a business transaction reads as of now or by a second
connection, never in its own snapshot.

`ErasureInv` adds what the rows are, and that a sheet belongs to a customer once it is
opened (`Unopened`), without which an erasure would not know its sheets. What a clerk or a
runner holds in memory is arbitrary in the invariant, but for the sheet of a sale, which is
an opened one (`Hands`): the proof needs nothing of what was read before, because each writer
locks what it writes and looks again, but for the formalization, whose customer may be
erased by the time it writes: the sheet it opens then is the only live one of an erased
customer, which is what `ErasureHolds` allows (`FormalizationKeeps`). Two places carry it: `AnonymizeKeeps`, which erases all
sheets of the customer at once and needs that none is sold, which `Blocked` keeps out of the
erasure; and `ImportKeeps`, where the copy of a batch is cleared with the customer and not
restored.

### The house (`HouseProofs`)

For any couples and hosts, units, nights and desks, envelopes, years, stays and points,
schedules, roles, rates and clerks:

| Theorem | Statement |
|---|---|
| `RoomTypes`, `VisitsEndOnce` | `RoomSpec => []RoomTypeOK`, `RoomSpec => VisitEndsOnce` |
| `StaysTypes`, `UnitsAreFree` | `StaysSpec => []StaysTypeOK`, `StaysSpec => StaysFindTheUnitFree` |
| `SignTypes`, `SignaturesAreReal` | `SignSpec => []SignTypeOK`, `SignSpec => []SignatureIsReal` |
| `PointsTypes`, `BalancesAreCovered` | `PointsSpec => []PointsTypeOK`, `PointsSpec => []BalanceIsCovered` |
| `SettlementsTakeWhatLapsed` | `PointsSpec => SettlementTakesWhatLapsed` |
| `FeesTypes`, `CommissionsNeverExceedTheDue` | `FeesSpec => []FeesTypeOK`, `FeesSpec => []CommissionsAreDue` |
| `PaymentsAreNoticed` | `FeesSpec => NoPaymentGoesBy` |
| `PaymentsEarn` | `FeesSpec => PaymentsEarnTheirCommission` |
| `HouseTypesKept` | `HouseSpec => []HouseTypeOK` |

- *Room*: what a host is about to write was admitted for the status it repeats in its
  condition (`Fits`), so that a visit moves only as the table of moves allows, whatever the
  other host did between the reading and the write. That is also why the reason
  `updateStatus` writes never meets a visit without a tour, whose reason stays.
- *Stays*: what a desk has read still names rows (`Knows`), an offer that became a
  reservation is confirmed for good (`OffersTaken`), and what is read under the locks of unit
  and item is what is written. A reservation without an offer is left out of the property:
  `stays_overlap` is its counterexample.
- *Signature*: `SignatureIsReal` speaks of the service, which the CRM does not see.
  `EnvelopesAreKnown` says that what is active, signed or cancelled there has its document on
  record, that a document cancelled in the CRM was cancelled there and an envelope closed in
  the CRM closed there; `WordsAreTrue` that each webhook and each reading under way tells
  what happened at the service. Both hold in the middle of a setup and after one that
  stopped. What the service did stays done (`Later`), and so the signature that rests on it
  does (`RealStays`).
- *Points*: a settlement is a recursion over years, each of which counts the rows that the
  years before it added. `SettleYear` carries one year to the next, and `SettledIs` says what
  the whole leaves. The invariant `StatementOK` is that keys are of one row (`KeysApart`), what
  the statement says of a year is either settled or can still be spent (`YearsOK`), that the
  balance is covered by the credits of years not settled and by what is not a credit
  (`Covered`), and that a stay has one usage at most and none once it is cancelled
  (`StaysHold`). `HasRoom` keeps the bound on rows from cutting a settlement short.
- *Commissions*: `LinesOK` says that the lines in force of a role never sum above the due of
  their rule, of which there is one, and that an installment has one line for a role.
  `Reevaluated` makes several lines in one transaction, each seeing those before it, and
  keeps it by induction over the installments (`ReevaluatedFits`). A decision is of a line that
  was not decided when it was read (`DecisionsOK`), so a cancellation that comes between is
  not written over.
- *Payments*: lines only grow behind those there were, by the rule in force (`Grown`), and a
  role that is owed no part has been paid all (`PartsOK`), so what one evaluation noticed
  stays noticed through the rest of a run (`RunsNotice`). For the entry, agreements lead each
  installment to one end (`Ends`), which `resolveEntry` finds again by value and date
  (`SuccessorsMatch`); the entry counts as paid when as many ends are paid as it has
  installments (`FullyPaidIs`), and since later payments come after (`PaymentsInOrder`),
  what a line found whole stays whole (`WholeEntry`). The property says so only of contracts
  without an agreement due on a day of the schedule (`AgreementsApart`), since with one
  `resolveEntry` may take the wrong installment. `OwingIs`
  ties the entry of the property (`EntryOwes`) to these ends, so that a payment that leaves
  neither line nor trace is one the rule owes nothing for.

### Only model-checked

Every liveness property, since TLAPS does not reason about fairness here: `LapsedHoldsAreReleased`,
`EventuallyHandled`, `QueueFollowsTheDebt`, `IntentsAreResolved`, `ProjectionConverges`,
`RevocationArrives`, `FeedIsAnswered`, `LapsesAreSettled`.


## 5. Abstractions all models share

- Idempotency keys of users' requests are modelled where a retry meets something that
  changed (`Submissions`, `Requests`, events of webhooks and feeds); elsewhere a repeated
  call finds its row and changes nothing.
- Audit rows and events written inside a transaction are left out, except where a property
  is about them (receipts, reviews, traces of commissions, events of the projection, audits
  of expirations); those written after it are steps or hazards.
- Database deadlocks: an aborted transaction changes nothing, and the handlers that retry
  start again.
- Clocks are what is compared: due or not, lapsed or not, a year, a day.
- Money and points are units; index series, factors and cents are left out.

## 6. Not modelled, and why

The map covers the transactions, jobs and bridges of the server. About a third of the
implementation is the web client (presentation and form state), and most of the rest
that is left is of kinds that have no behaviour to check: dashboards, reports and exports
(read-only queries), the infrastructure under `server/_core` (HTTP, sessions, storage,
language models, maps), contracts of messages under `shared/contracts` (schemas and their
validation), the parsing of CSV files and sheets, and the fields of forms. A definition
for these would repeat their text.

| Part | Why |
|---|---|
| Vouchers, tasks | status changes of one row under its lock; nothing else decides on them |
| Revenue quality ledger | a projection recomputed after the commits of others; read by dashboards |
| Authentication and permissions | sessions and a table lookup; the models take an administrator as given |
| Dashboards, intelligence, indicators | queries |
| Blob storage and orphan sweep | files, local storage only, off by default; a day of age separates an upload from its sweep |
| Imports | the contracts they create and the customers they replace are modelled; other rows are single inserts, what refers to a created row keeps its batch from being undone; parsing, units and resorts are left out |
| Opportunities and proposals | later statuses of a proposal, discounts, goals and campaigns are fields of one row |
| Cancellation inbox, times of an encounter | an insert under a unique key; nothing decides on the row |
| Contract addenda, entitlements, penalty and refund of a cancellation | rows beside the contract that no modelled operation reads |
| Database schema | read for its keys and columns, to which the state variables are mapped |
| Policy of commissions by date, an incomplete policy, goals | which version applies is a lookup |

## 7. Plan

1. Models: vouchers with the audit a retry writes; the orphan sweep beside an upload.
2. An abstract specification of the delivery to Recovery (what was offered is revoked), and
   `NonBuyerDelivery` shown to implement it.
