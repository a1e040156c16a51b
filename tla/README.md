# Billji backend: verification development

TLA+ modules, TLC configurations and TLAPS proofs kept beside the code of the
Billji backend (an invoicing and payments API: Express, MongoDB through Mongoose,
socket.io). Paths below are relative to `src/` of the repository; `payments/service.js`
is `src/modules/payments/service.js`, and so on.

## 1. The system: an inventory

Every API request runs as one asynchronous function on Node's event loop; the only
shared state is MongoDB. Writes of one document are atomic. A workflow that writes
several runs inside `withTransaction` (`utils/transaction.js`): a snapshot
transaction when the deployment supports sessions, and otherwise, where `NODE_ENV`
allows it, the same callback with no session, each round trip on its own. Much of the
code (accounts, team, two-factor, billing, quotas, notices) uses no transaction at all:
there, requests interleave at every `await`. Background work (outbox dispatcher,
scheduler, reconciliation) runs on timers in every instance.

| Component | State it keeps | What is hard | What makes it correct | Modules |
|---|---|---|---|---|
| Settlement (`payments/`) | `Payment`, `SettlementAllocation`, `Invoice.settledAmount`, `appliedAmount` of a credit note, `LedgerEntry`, `CustomerBalance` | two sources settle one invoice; failure after some rows landed; undo racing a cancellation | an invoice is never over-settled; a source is short of exactly what it settles; the ledger says the same | `SettlementBook` `Settlement` `SettlementTx` `SettlementPromise` `Ledger` |
| Invoices (`invoices/service.js`) | `Invoice.documentStatus` | settlements and notes in flight while it is cancelled | only its own receipts' cash stays on it, flagged | the same, `Trade` |
| Credit notes, quotations, challans (`documents/service.js`) | documents, `Invoice.creditedAmount` | claim before the document, racing cancellation and application | notes fit in the invoice; a cancelled note settles nothing; one invoice per quotation or challan | the same, `Trade` |
| Transactions (`utils/transaction.js`) | none | the same code under two atomicity regimes | both keep `SettlementPromise` | `Settlement` `SettlementTx` `Expenses` |
| Outbox, dispatcher, exports (`services/eventBus.js`, `eventDispatcher.js`, `exports/`) | `OutboxEvent`, `DataExport`, an order's cached payment view | overlapping ticks, several instances, crash while `processing` | one dispatcher at a time; attempts bounded; one live archive | `Outbox` `DeliveryPromise` |
| Scheduler (`services/scheduler.js`) | `ScheduledJobRun` | several instances; time captured once per tick | one run of a job per window | `Scheduler` |
| Idempotency, push (`middlewares/idempotency.js`, `sync/service.js`) | `IdempotencyKey`, `clientId` | a retry while the first attempt runs; crash before the record | a sale makes one document, with the number on the customer's copy | `SyncPush` |
| Pull (`sync/protocol.js`) | `updatedAt` of each row | commits later than stamps, pages, purged tombstones | a pull misses no row | `SyncPull` |
| Numbering (`numberingService.js`, `sync/deviceRegistry.js`) | `NumberSequence`, `DeviceSeries` | registration races, prefix and year changed while offline, the 16-character limit | numbers are unique; what fits a series is accepted | `DeviceSeries` `Numbering` |
| Billing (`billingService.js`, `billing/`) | `SubscriptionPayment`, `Subscription` | events in any order, duplicated, late, crashes | captured money grants exactly its period | `Billing` |
| Autopay (`autopayService.js`) | the mandate's mirror | events of an older mandate; requests overlapping at the provider | cancelled means no further debits | `Mandate` |
| Plans and entitlements (`subscriptionService.js`, `entitlementService.js`) | `Subscription`, the mirror on `Business`, a cache | stale copies, status by date | access is what was bought; its end is told | `Access` |
| Coupons, referrals | counters, `Referral`, days granted | crash between record and grant | the cap holds; a reward is granted once | `Perks` |
| Usage (`usageService.js`) | a counter per month and source | first insert, release after the month turned | usage never passes a hard limit | `Quota` |
| Team (`teamController.js`, `teamLimitService.js`) | members, invitations | count, then save | an owner remains; seats hold | `Team` |
| Accounts (`authController.js`) | sessions, reset codes | sign-in, refresh and reset overlap | the cap holds; a reset signs everybody out | `Sessions` |
| Two-factor (`twoFactorController.js`) | methods, codes, remembered devices | stale copies of the user | a code works once; turned off means off | `TwoFactor` |
| Orders, purchases, stock | `Order`, bills, `Product`, `StockMovement` | stale saves, absolute edits, reversals | stock equals its movements; one invoice per order; the vendor is owed what bills ask | `Trade` |
| Expenses (`expenses/service.js`) | expense, postings | postings deleted and posted again | an expense is in the ledger once | `Expenses` |
| GST (`utils/invoiceMath.js`, `gst/`) | tax summary of a document | rounding, sections, settings changed under way | figures add up; a supply is in one section | `TaxReturn` |
| Customer book, imports (`customerController.js`, `imports/`) | records with a version | form, push and import overlap | no unseen edit is overwritten without a report | `Records` |
| Notices (`notificationService.js`) | `Notification` | events out of order, sweep | what is settled is not announced | `Notices` |
| PDF cache (`invoicePdfCache.js`) | objects, `pdfCacheKey` | edit while rendering | a download shows the current document | `PdfCache` |

They interact through documents (a receipt, an order and an invoice share rows and
counters), through outbox events (exports, notices, the order's payment view are
handlers) and through direct calls inside a transaction (cancelling an invoice calls the
settlement service; pushing a mutation calls the handler of the API). `PROJECT.json`
lists each component with its status, and under `hazards` the places where the code is
hard to test, each with the properties that cover it.

## 2. The settlement modules

| Module | Role |
|---|---|
| `MoneySum` | Totals of amounts (`$sum` over rows), defined as a cardinality so that their laws are provable. |
| `SettlementBook` | The documents and the single-document updates of `payments/repository.js`: `CanX` is the filter of a `findOneAndUpdate`, `X` its update. Also the book at the start and its assumptions. |
| `Settlement` | The workflows without a transaction: one action per round trip, any interleaving, writes that throw, requests that crash. |
| `SettlementTx` | The workflows with transactions: one action per committed workflow, any sequence. |
| `Ledger` | `SettlementTx` with what each workflow posts to the ledger and the balance of the customer it leaves. |
| `SettlementPromise` | The abstract specification both implement: capacity of an invoice is taken only while it is open and up to its total; a receipt's money is in one place; what is owed back stays so. |
| `SettlementInv` | The inductive invariant behind the safety of `Settlement`. |
| `MoneySumProofs`, `BookProofs` | The laws of totals; what the two settlement specifications share: finite sets, the book at the start, the moves of a receipt's money, what rows weigh. |
| `SettlementProofs` | The proofs about `Settlement`, its refinement of `SettlementPromise` included. |
| `SettlementTxProofs` | The proofs about `SettlementTx`, its refinement of `SettlementPromise` and the ledger included. |
| `MCBook`, `MCSettlement`, `MCSettlementTx` | The instances TLC checks. |

The other components: `Outbox`, `DeliveryPromise` and `Billing` stand alone, with
`OutboxProofs`, `BillingProofs` and the instance `MCBilling`. The eighteen small protocols are
composed by `Protocols`, which instantiates each module over variables of its own;
`MCProtocols` is the instance TLC checks, `ProtocolProofs` (scheduler, pull, page cache, device
series, numbering, push, customer book, stock, expenses and quota) and `AccountProofs` (team,
two-factor, mandate, coupons and referrals, access, notices, sessions) hold the proofs.

`status`, `settled`, `credited` are `documentStatus`, `settledAmount`, `creditedAmount`
of an invoice (`Missing` = the field is absent, as on documents older than it);
`noteStatus`, `applied` are `documentStatus` and `appliedAmount` of a credit note; `pay`
holds receipts (`inv` is the invoice a receipt is booked against: the last of its list);
`alloc` holds allocation rows, keyed by writer, invoice and source, each with a flag
`stamped` that says whether its ledger pair is written. In `Settlement` each request
has a label `pc` and the local variables its code carries across an `await`: what it
asked (`job`), the live total it read (`seen`), what it means to take (`share`, `plan`),
the claims it must hand back on failure (`claimed`, `drawn`), the bounded loops
(`stored`, `tries`, `passes`, `found`) and the sweep (`rows`, `row`, `holding`). `held`
is a history variable: the capacity that the unfinished work of a request accounts for.
`twice` is another: the rows whose draw and reservation were given back twice.

| Actions of `Settlement` | Code |
|---|---|
| `StartReceipt ReadBalance Baseline Raise Claim Receive Allocate Release` | `recordInvoicePaymentWorkflow`, `recordCustomerPaymentWorkflow`, `invoiceSettlementClaims`, `rehydrateSettlementBaseline`, `claimSettlementOnInvoice` |
| `StartApply ReadForCredit PlanCredit DrawCredit CreditRow Stamp EndApply Undo GiveBackDrawn UndoNothing` | `applyCreditWorkflow` and its catch block |
| `StartReverse Mark GiveSource GiveRoom` | `reverseCreditApplicationWorkflow`, `reverseOneApplication` |
| `StartCancel Close Recheck Reopen ListRows Sweep ListCross MarkCross CrossRoom RefundCross Restore EndPass ReadPool TakePool MarkPending` | `cancelInvoiceWorkflow`, `reverseCreditApplicationsForInvoice`, `refundCrossInvoiceAllocationsForInvoice`, `withdrawUnappliedCreditForInvoice` |
| `StartNote ClaimRoom Issue ReleaseRoom StartCancelNote CloseNote Stranded` | `createDocumentWorkflow`, `cancelDocumentWorkflow` for credit notes |
| `WriteFails` | a write inside a `try` throws and its `catch` runs |

Choices a reader should know of:

- A request that never steps again has crashed. A throw outside a `try` block leaves
  what a crash at that point leaves, so it is not a separate action. Releases inside
  `.catch(() => null)` are taken to succeed.
- `StartCancel` reads the invoice and counts its notes in one step: `Close` decides
  again on the status, `Recheck` on the notes.
- `Sweep` and `MarkCross` read the ledger pair of a row and flag the row in one step.
  A pair is never removed and writing it does not look at the row, so the two orders
  give the same states.
- `Stamp` writes the ledger pair of one row. `LedgerEntry.create` with an array saves one
  document after another (payments/repository.js:18), and a row counts as stamped from its first
  entry (`ledgerEntriesForAllocation`, repository.js:518), so between two `Stamp`s, and before
  `EndApply`, a reversal by the user or the sweep of a cancellation may take a row of the batch.
  If a later save then throws, the `catch` (payments/service.js:683-694) gives the reservation and
  the draw of that row back although the reversal did. This is real and `twice` records it. What
  the code still keeps is stated with two named exceptions: the invoices of such rows (`Spoiled`)
  in `NoOverSettlement` and `CapacityCovered`, their sources (`Refilled`) in `CancelledNoteUnspent`
  and `NotesExact`, and in `SettlementPromise` the variable `excused`, the invoices whose
  capacity is promised no longer. A `Refilled` note may be cancelled though rows draw on it; the
  cancellation's check after the fact (documents/service.js:366-389) then finds it `Stranded` and
  opens it again.
- A deleted row keeps its amount in `alloc`, since another request may hold a copy of
  it; no total counts it.
- In `SettlementTx` a workflow that throws leaves no trace, so only committing paths are
  actions. Two workflows of one customer rewrite a common document, so MongoDB's
  write-conflict check serialises them; that is why one action per workflow is faithful.
- `Ledger` keeps accounts as net amounts per document. Original rows are not stored:
  a receipt's rows follow from its amount and its allocation rows, which keep their
  amounts when reversed, so what a mirror reverses can be computed.
- Left out: `paidAmount`, `creditApplied` and `balanceDue` of an invoice (recomputed
  from the rows; without transactions an older figure may overwrite a newer one,
  payments/service.js:700), events, rounding. Without transactions a throw between
  flagging an application reversed and giving its source back (payments/service.js:723)
  leaves the credit nowhere, and a row written after the last pass of a cancellation's
  sweep stays live: both are stated by no property, as the code accepts them.

## 3. The other modules

One paragraph each: the state, what a step is, what holds, and where the code says more
than it does.

**`Outbox`, `DeliveryPromise`.** Two dispatchers (each tick of each instance is one), a
publisher, an export user, an order whose payment view the dispatcher recomputes. A step
is one round trip. `ExclusiveDispatch`: an event is dispatched by one tick at a time
and inside its attempts. `DeliveryPromised`: what was published is delivered unless every
attempt failed or a process died holding it, and never taken back.

**`SyncPush`, `DeviceSeries`, `Numbering`.** A device prints numbers offline and pushes batches;
answers get lost, requests overlap, locks expire, processes die. `OneDocumentPerClaim`: as many
documents as times the idempotency key was really executed. `PrintedIsKept`: what was acknowledged
is written under the printed number, and that number is burned. `Numbering` holds the formats:
prefixes, years, four digits, sixteen characters; a business may still have a prefix from before
the limit of three characters, which only the settings form enforces. `NumbersExact`: issued
numbers differ and fit, and a pushed number is refused only when the prefix changed meanwhile,
when it has grown past four digits, or when its place was already passed. What it records of the
code: prefixes of one or two characters can issue sequence 10000 and more, although
numberingService.js:33-36 says the guard fires past 9999, and a number printed offline past 9999
is refused for good since the parser reads four digits; a changed prefix makes invoices already
printed be refused (OUT_OF_SERIES); pushing out of order refuses the earlier sale; an invoice
prefix set to `CN` gives an invoice and a credit note the same number, against the comment at
127-128 ("series stay separate as GST requires"); the date of the sale decides the financial year,
not "the server's clock" (deviceRegistry.js:176).

**`SyncPull`.** One page is one read. `CopiesExact` (with the same statement for cached
pages): a device that has pulled up to the horizon holds every row as it is, deletions
included, given that a write commits within the safety lag of its stamp.

**`Billing`.** Payments from checkout or recurring charge to activation, by client,
webhook and sweep, of two paid plans. A payment for the running plan extends its period; one for
the other plan starts a period of its own (billingService.js:577, subscriptionService.js:188-192)
and cuts off what was left, which its price credited: `NeverShortened` excepts that step
(`ChangesPlan`) and overlapping writers. `OnePeriodPerPayment` has two named exceptions: a sweep
that takes a slow activation for a dead one after ten minutes (`slow`), and a payment whose plan
was written and whose history row was not, when the second signal of `alreadyApplied` fails too
(`missed`): the plan has been changed since (billingReconciliation.js:67 compares plan keys), or
the period began before the row was created, as with a charge recorded by a task that began
earlier (the comment at 50-55 says the second signal covers a lost history row).
A charge of an unexpected amount is flagged and "left unlinked" for review
(autopayService.js:144-146, tests/billingAutopayWebhook.test.js:182-203), but the sweep ignores
`failureReason` and activates it; `EveryChargeLinked` speaks of the charges that are not flagged.
Also seen: a backfill over a trial links without a period; partially refunded unlinked payments
are never swept. One sweep runs at a time (the scheduler's window is longer than a sweep). Left
out: the refusal of a second order that carries a credit, and how a price is computed.

**`Mandate`.** Mandates at the provider and the mirror. `CancelledStopsDebits`: once a
customer's cancellation succeeded, the mandates he had are not debited, unless a request
to the provider failed or the mirror was misled. Misled: an event of an older mandate is
attributed through its notes to the current mirror, whose status then reads cancelled, and
the next cancellation skips the provider (billingService.js:820), against the comment
805-809.

**`Access`.** Status follows the dates; the mirror and the cached default plan lag.
`AccessExact`: access never exceeds what was bought beyond the cache's age, and
running plans are told of their end while a sweep has room. Recorded: notices of
renewal and grace are not withdrawn on renewal; trials carry no `currentPeriodEnd`, so the
`trialing` branch of the filter never matches and trials end unannounced; a sweep takes
200 rows and told ones still match, so the next may never be told; the mirror "must never
drift" (subscriptionService.js:135-137) but does with time and when transitions overlap.

**`Perks`.** One capped coupon and one referrer. `PerksExact`: slots claimed never exceed the cap,
a referral is rewarded once, nothing is lost but by a crash or overlap that is recorded. The
discount is priced at the quote and the slot claimed after capture, so more than the cap may get
the discount (COUPON_EXHAUSTED is swallowed). The reward row, the days, the mirror and the record
of the days are written one after another (referrals/service.js:145,146,194): a crash after the
days leaves them granted with no record (`added` without `honoured`). The period is read and
written in two steps, so two requests may blend theirs (`blended`), and a payment for another plan
starts a period anew and cuts the free days off (`forfeited`; they cost nothing, so nothing is
credited for them). `releaseCoupon` is said to serve abandoned checkouts (couponService.js:107)
but only full refunds call it.

**`Quota`, `Team`.** `QuotaExact`: the counter is the documents that stand plus what was
wasted, and never passes an enforced limit. Recorded: two first documents of a bucket at
once, one is refused below the limit; a unit released after the month turned comes off
the new month. `TeamGoverned`: while no two changes raced, an owner remains and seats hold;
two owners unmaking each other leave none, against teamController.js:55.

**`Sessions`, `TwoFactor`.** The order of `lastUsedAt` is a relation on the sessions opened
(`recent`), which using one rewrites (`Touched`). `SessionsSound`: the cap holds whenever no
sign-in is under way, a token is good for one rotation, after a reset only sign-ins that
overlapped it remain. Two overlapping reset requests leave two live codes (authController.js:487
says "only the freshest one works"); a lost refresh answer signs the device out. `FactorSound`:
what keeps overlapping enable, disable and regenerate apart is Mongoose's version check on array
writes; a staged method is not versioned, so a method can be switched without being disabled first
(twoFactorController.js:72), devices remembered by a sign-in that overlaps a disable stay trusted,
and overlapping uses accept a backup code twice.

**`Scheduler`.** `WindowHeld`: two claims of a job are a period apart by the times they
carry, two runs of a job overlap only when one has outlived its window, and a tick leaves
no due job out. `now` is captured once per tick, so a job that starts late in a tick opens
its next window early by that lateness; a process that dies in a job loses that window.

**`Trade`, `Expenses`.** Papers with one product and one unit each; what is owed is a total of
`MoneySum`. `StockExact`: stock is
what its movements say. `BooksExact`: one live invoice per order, quotation or challan
unless a cancellation raced; the vendor is owed what open bills ask; an undisturbed expense
is in the ledger once. Recorded: deleting the invoice made from a challan leaves the goods
out (invoices/service.js:360-362); the availability check refuses converting a
challan that took the last unit, and a credit note for a product that sold out; switching
tracking between a sale and its cancellation gains or loses stock; a stale product form
saves an absolute quantity; `cancelOrder` (orders/service.js:97) races invoicing.

**`TaxReturn`.** The code's rounding, its doubles included where they decide: `Under` holds the
triples (weight, target, total) of the instance whose product (`(weight / total) * target * 100`,
utils/invoiceMath.js:14) falls below a whole number of paise in doubles, so that the floor
takes one paisa more. `ReturnExact`: lines, summary and sections add up and each supply is in one
section. A share of the discount may exceed its line by a paisa when the discount takes
everything: lines of 29 and 171 rupees at 100 % have shares 28.99 and 171.01, and what is taxed
and the discount make 200.01 of a subtotal of 200. `AddsUp` says this happens only then, and by
fewer paise than there are lines (`excess`). A note that takes everything back nets
to zero only if the business did not move or switch tax-inclusive pricing in between;
the remainder of a split goes to the largest row, not "the last non-zero row"
(invoiceMath.js:5-6). Left out: documents without a tax summary.

**`Records`.** Customers with the phones of the instance as they are written, and the number each
stands for (`NumberOf`). The form and the push compare numbers (`Look`), the unique index and an
import compare phones as written (`Holder`); an update writes the phone too. `RecordsSound`: an
overwritten edit that the device had not seen is an import's, or one made between the check of the
version and the write (`meanwhile`); two live customers never have the same phone, and have the
same number only when one was last written by an import, is spaced, or took the phone while
another request had looked for it (`raced`). What it records of the code: an import's
`bulkWrite` does not move `version`, so a later push overwrites it silently (syncable.js:6-7 says
every write moves it) and matches trimmed strings (imports/service.js:23-45), so that
`+91 98765 43210` comes in beside `9876543210`; the form's second lookup is the pattern `digits$`,
which does not match a number stored with spaces (customerController.js:57-91, against
the comment at 57).

**`Notices`.** `NoticesExact`: with nothing under way, settled invoices are not announced
and due ones are, and the product's notice is that of its level; a notice is pushed once.
A receipt over several invoices names only the last in its event
(payments/service.js:482-499) and credit applications publish none; those notices stay
(`unnamed`). Purchases and their cancellation move stock and publish nothing
(modules/purchases/service.js:82-112, 214-282), so the notice of low stock stays open after a
restock (`untold`). Going from below zero to low writes the one notice and leaves the other
(`outgrown`). The push follows the insert without being awaited, and its error or the death of
the process loses it (`unsent`); the event of a dispatcher that dies stays
claimed and is not taken up again.

**`PdfCache`.** Part of `CopiesExact`: a download shows the current document, unless two
edits fell in one millisecond; what is not pointed to is an object the bucket's lifecycle
rule removes. The business's own details are not in the key, so a cached page keeps
old ones until the next edit.

**`Ledger`.** `LedgerExact`: `customer_credits` per source is the credit it still offers,
cash is what came in less what is owed back, an open invoice has exactly its settlements
posted to it and a cancelled one nothing, the stored balance agrees, and debits are
credits. Issuing an invoice posts nothing, so the receivable is only ever credited, and
it does not refresh `CustomerBalance` either: the stored dues of a customer are stale
from issuing an invoice until the next settlement (the invoices of the model stand when
it begins).

## 4. Runs

| Run | Question | Result |
|---|---|---|
| `settlement_steps` | Without transactions, do any two of receipt, application, reversal, cancellation, note and note cancellation, interleaved round trip by round trip with failing writes, over-settle an invoice, over-spend a note, lose or double a reservation, or hang? | No. `NoOverSettlement`, `CapacityCovered`, `CancelledNoteUnspent`, `NotesExact`, `RoomExact`, `EveryRequestEnds` and the refinement `PromiseKept` hold, with the exceptions `Spoiled` and `Refilled`, and so does the proof's invariant `IInv`. |
| `settlement_tx` | With transactions, are counters, ledger and balance exactly what the rows say after any sequence of workflows? | `CapacityKept SourcesKept NotesBacked OwnCashKept LedgerExact` and the refinement `PromiseKept` hold. |
| `settlement_note` | Does an issued note stand on an open invoice without transactions, as the comment of the recheck says? | No: the note's room is claimed before the close and its document written after the recheck. |
| `settlement_refund` | Is refundable cash never spendable too, without transactions? | No: an application whose ledger write fails gives back what a cancellation already made refundable. |
| `settlement_tx_withdraw` | Does cancelling an invoice withdraw all its receipts' unspent credit, with transactions? | No, when an earlier cancellation had flagged the receipt. |
| `settlement_legacy` | Is an invoice written before `settledAmount` existed safe too, without transactions? | No: a reversal that flagged its row before the baseline was raised gives back capacity the counter never held. |
| `outbox` | Do dispatchers that overlap and die keep to one dispatch at a time, one archive, an exact cache, and deliver? | Yes, and every event settles. |
| `protocols` | The small protocols side by side (see below). | Seventeen invariants hold. |
| `pull_age` | Is the cursor a bootstrap hands out usable? | No, when the collection was quiet for longer than tombstones are kept. |
| `billing` | One period per payment, refunds counted once, no running time taken away, every recorded charge linked? | Yes, with the named exceptions: a payment swept while it was applied or judged by a period that shows it no more, a change of plan, a flagged charge. |
| `billing_capture` | Is a captured payment honoured? | Not when an attempt of the same order failed before. |
| `billing_recovery` | Is a payment whose activation died recovered? | Not a checkout payment: its row already names the subscription. |

**Parts of one run.** `Protocols` holds parts that share no state side by side: the initial
state picks a part, its variables start, all others stay empty, and a property speaks of
its part only. The parts are `SyncPull SyncPush DeviceSeries Numbering Mandate Perks Team
Quota Sessions TwoFactor Scheduler Notices Records PdfCache Trade Expenses Access
TaxReturn`; `Quota` starts from each of `Policies`, an enforced plan and an unlimited one.
Each part's type invariant is a conjunct of its property. `MCProtocols` gives the constants
their values, the symmetry of `Requests`, and a next-state relation that is `Next` with
the cuts named below; the theorems are about `Next` itself.

**Bounds.** Settlement: two concurrent requests (every claim, undo and sweep is a race between two
actors); three invoices of total 3 with one unit left to settle, so that any two settlements
compete; a note applied in full, one untouched, one that may be raised; a receipt that settles two
invoices and keeps credit, and (without transactions) an overpayment. Amounts 1 and 2 separate
what fits from what does not. `MaxTries` and `MaxPasses` are the code's 3. In `settlement_tx` one
invoice has no `settledAmount` (`Legacy`) and two requests write rows, while reversals,
cancellations, refunds and notes are unlimited. Elsewhere: two requests at a time (`Slots`), up to
three to five in all (`MaxRequests`), one crash or lost answer (`MaxCrashes`, `MaxFaults`), a
clock that covers two periods (`MaxTime`); limits of two or three, so that they are reached;
`FirstNumbers` starts a series at 0 or 9998, so that it passes the fourth digit. A few parts are
cut where states would only repeat: `MandateBound` and `TeamBound` stop once nothing is claimed
any more, `PerkBound` takes payments in order, refunds one at most and stops at a blended period,
`NoticeBound` has one push under way at a time, `PushBound` lets one sale be printed, `TradeBound`
pays vendors with a bill in the books, `TaxBound` edits settings once between two documents and
gives two lines away, and only these, `AccessBound` overlaps two requests only as the first two,
and `MCBilling` gives two payments, of one plan or of two, the customer's actions, and one payment
the failures. The three `MCCarts` have taxes that need rounding, a line of nothing, and two lines
whose doubles fall short. Phones are one number in three spellings and another number; files have
one line or three. `Requests` is a symmetric set where a module does not tell its slots apart.

Deadlock is not checked: each of these systems may stop, when its requests are served and
its bounds used up.

**Fairness.** `FairSpec` of `Settlement` gives each request weak fairness on its own steps:
the event loop keeps running and each round trip returns or throws. `Outbox` gives it to
ticks and the clock of the backoff, `Billing` to the clock, to the steps of requests under
way and to the sweep. Nothing waits for another request, so no strong fairness is used. It
is not assumed that a request starts, that a write fails, or that a process dies.

## 5. Proofs

The assumptions, which TLC evaluates in the runs of their modules: `BookShape`, `RequestShape`
and `WorkflowShape` (finite sets, typed constants), `BookSound` (the book was
consistent before: nothing over-settled, over-applied or over-credited, each receipt's money in
one place, no refund processed yet, what is owed back flagged), `OutboxAssumption`,
`BillingShape` (typed constants, payments numbered above 0, a period and a price above 0), and
`ProtocolShape`, the conjunction of what each small protocol asks of its own constants
(`PullShape`, `QuotaShape`, `SessionsShape` and so on): types, finite sets of what is counted,
and what the code guarantees, such as a lag longer than a transaction (`PullShape`).

- `MoneySumProofs`: the laws of totals. A total is a natural number, at least each term, moves by
  what one term moves by, is monotonic, splits over disjoint parts, adds, groups, and does not
  depend on names. That the parts of a grouped total add up (`SumGrouped`) is a bijection of
  coins. `Sum` is the cardinality of a set of coins because a recursive sum could not be reasoned
  about. `BookProofs` holds what both settlement specifications start from, how rewriting the sums
  kept on a receipt moves its money, and what rows weigh: `Worth(w, C)` is the weight of the rows
  of `C`, so what an invoice is settled by and what a source spent are two slices of the same
  weights.
- `SettlementProofs`, first part: `Spec => []TypeOK` for any sets of invoices, notes and requests.
  `TypeOK` alone is not inductive: a natural-number counter may be decremented only because a
  label implies the right kind of request with the right inputs, so the proof carries `Shape`
  (`KindOf`, `Inputs`). `Frame` and `OthersKeep` say once which action writes which variable; each
  typing lemma looks at the writers only. Then `Spec => []Ownership`, and the step lemmas of two
  more parts of the invariant. `Ownership`: at most one request may reopen an invoice, and never
  while another unwinds it, which is why an invoice whose cash was refunded is never open again.
  `Fresh`: a row is written once, by its writer, and only the sweep of an invoice that stays
  cancelled reverses a row without a ledger pair. `Holds`: what each request must account for at
  each label. `OthersHold` covers the steps of others, `OwnReserves`, `OwnReceiptHolds`,
  `OwnApplyHolds` and `OwnReverseHolds` a request's own.
- Then `Capacity`, and with it `Spec => []IInv`, `Spec => []NoOverSettlement` and `Spec =>
  []CapacityCovered`. The capacity property alone is not inductive: a release subtracts `share`
  from the counter, and only `Holds` knows that `share` was added and is still unused. Each writer
  of the rows or the counter falls under one of three lemmas: `Exchange` (a row changes against
  what is held), `Returns` (a reservation goes back) and `LetsGo` (less is held), besides
  `ClaimCovers` and `RaiseCovers`. The first save that throws after a reversal took a row of the
  batch leaves them for that row's invoice: `Undo` is the one step that adds to `twice`, and from
  then on `Capacity` says nothing of that invoice and `NotesKept` nothing of that source.
- The refinement of `SettlementPromise` by `Settlement`, `PromiseKeptAlways` in
  `SettlementProofs`. The promise speaks of a receipt's whole money, the requests of the part they
  move, so the invariant has a conjunct `Purses`: a receipt's amount is what is allocated,
  unapplied and owed back of it, a request has a receipt only once it wrote one, and a withdrawal
  holds only receipts that were written. One lemma per kind of write then shows where the money
  goes (`DrawWithin`, `GiveBackWithin`, `RefundWithin`, `WithdrawWithin`, `FlagWithin`), and
  `MovedMoney` that such a write is a step of the promise. On the side of invoices, what is live
  or held grows only under a claim (`Capacity`) or stays; those of `Spoiled` are `excused`, a set
  that only grows.
- Credit notes, in `SettlementProofs` too: `CancelledNoteUnspent`, `NotesExact` and `RoomExact`
  follow from `NotesInv`, the invariant without `Capacity`. Two accounts carry it. What a note
  gave up is what its live rows settle plus what requests have drawn and not yet written, or taken
  back and not yet returned (`NotesKept`); the room of an invoice is its issued notes plus what is
  claimed for a note not written or still to be given back by a cancellation (`RoomKept`). A
  cancelled note is unspent because its close decides on the same counter as a draw, and one
  request at most works on a note whose cancellation is to be decided again (`NoteJob`).
  `CancelledNoteUnspent` and `NotesExact` except `Refilled`. These hold whatever the age of the
  book: no theorem about notes assumes `Legacy = {}`.
- `SettlementTxProofs`: `CapacityKept`, `SourcesKept`, `NotesBacked` and `OwnCashKept` are
  inductive only together (`Safe`), and hold with legacy invoices too, since a transaction reads
  the baseline it writes. A workflow writes many rows at once; the lemmas `Writing` and
  `Reversing` move both slices of their weights at once. `PromiseKeptAlways` is the refinement of
  `SettlementPromise`: in every step each invoice takes capacity while it is open and up to its
  total, or gives some back (`CapacityMoves`), and each receipt stays, arrives whole, or moves its
  money between the places it can be in, never out of what is owed back (`MoneyMoves`).
- The ledger, in the last part of `SettlementTxProofs`: `LedgerExactAlways`, that `LedgerSpec =>
  []LedgerExact`. The invariant is `LedgerInv == Safe /\ Booked /\ Backed`. `Backed` is the three
  accounts, exact document by document. They are not inductive alone, because a mirror is computed
  from the rows as they were written and not from what is left of them: `Booked` says that a row
  is written once and carries a ledger pair exactly when its source is not its writer, that the
  own cash of a receipt is reversed only on a cancelled invoice and with a refund flagged, that a
  receipt never settled more than it brought, and that a note which does not stand settles
  nothing. TLC checked `Booked` before it was proved. The hard step is `CancelBooks`: two entries
  of a receipt belong to all its invoices and are mirrored in part, and `CancelMirrors` shows both
  caps of the code (`Least` in `CreditMirrored`, `CashMirrored`) to be slack: what is withdrawn
  never exceeds what was overpaid, and that plus the cash kept on the invoice never exceeds the
  receipt. `BalanceAgrees` (the stored balance, and debits equal credits) is no part of the
  induction: it follows in any state from the accounts (`BalanceFollows`), by summing the same
  weights by source and by invoice.
- `OutboxProofs`: the three invariants of `outbox` and the refinement of `DeliveryPromise`, for
  any sets of events and workers, any batch size, attempts and crashes. `Exclusive` adds to the
  property that a worker knows the attempts its event had when it was claimed; candidates are only
  ever pending or failed, so a claim cannot take an event from another worker. `OneLiveArchive`
  says nothing of exports that still run; `Archived` does: an export is past the archive of
  another once its sweep has taken it or did not find it (`Past`), two exports are never past each
  other's archive with both in place, and a completed export is not run again (`Completed`), which
  would store a second archive after its sweep. `Cached`: without overlap the recomputation about
  to write has read all that the figure shows, and its own payment. Every step of the queue is a
  step of `DeliveryPromise` or none (`PromiseMoves`); `Exclusive` is what makes a failure count
  one.

- `BillingProofs`: `OnePeriodPerPayment`, `NeverShortened` and `RefundExact`, for any number of
  payments, tasks, webhooks, sweeps and crashes, each with an invariant of its own on top of the
  former. `Core`: a payment is in the hands of one task at most (`Hand`: what it activates, and
  what its sweep has still to judge), and that task found it without a period; only captured money
  is activated, and a task at an activation step has its payment captured. `OnePeriodPerPayment`
  itself says nothing of tasks in flight, so it is not inductive. `Plans`: a task whose copy of
  the subscription is not stale knows its end and plan exactly, so what it writes extends the
  period that runs, or starts the one of another plan. `Exacts`: the ids recorded on a row name
  refunds the provider made, the amount recorded is their total, and all the provider made are
  within the price; so the cap at `netAmount` in `applyRefund` never hides a difference. Trying to
  prove the first of these is how its second exception got its present form: with two payments and
  a crash TLC found a period granted twice which a narrower exception did not cover.
- `ProtocolProofs` and `AccountProofs`: the safety invariant of every small protocol except
  `TaxReturn`, for any number of requests, documents and crashes (`WindowHeldAlways`,
  `CopiesExactAlways`, ..., `SessionsSoundAlways`). Each is a theorem of `Protocols!Spec`: a step
  of `Next` is a step of the part that runs (`PullRuns`, `PagesRuns` and so on), and each such
  step keeps the part's invariant. These properties speak of documents and not of what requests
  carry across an `await`, so they are seldom inductive. The invariants say what a request may
  still rely on:

| Part | Invariant | What it adds to the property |
|---|---|---|
| `Scheduler` | `SchedulerInv` | the row holds the last claim; a tick runs only what it claimed |
| `SyncPull` | `PullInv` | a write under way is younger than `MaxCommit`, and the cursor is behind every such write; what is at or before the cursor is on the device in its current version |
| `PdfCache` | `PagesInv` | without edits in one millisecond a copy's time tells its edit and an object is of its time; a cancellation under way is alone and writes the next edit; every object is pointed to, in the hands of a request, or `adrift` |
| `DeviceSeries` | `SeriesInv` | an attempt that failed was outrun by a row that landed |
| `Numbering` | `NumbersInv` | a paper's number is within its series and its position its own; for each sale, why its number will be accepted or not (`Covered`) |
| `SyncPush` | `PushInv` | documents, plus requests past the claim, plus claims the key still allows, are at most one more than the locks that expired (`ClaimsCounted`); what a request knows stays true, since documents, stamps and keys move one way |
| `Records` | `BookInv` | a copy a device knows is no newer than the record, and at the same version is the same edit or an import's; a request that has looked for a phone knows every holder of its number but those that came meanwhile |
| `Trade` | `TradeInv` | every paper fits its source, stock is its movements, and what the vendor is owed moves by one bill at a time, by the laws of totals |
| `Expenses` | `SpendingInv` | a request that met no other knows what it leaves in the ledger |
| `Team` | `TeamInv` | two owners while a change that unmakes one is about to save; what was counted covers the seats taken |
| `TwoFactor` | `FactorInv` | a copy of the user at the same version has the same method; one request accepts a code |
| `Mandate` | `MandateInv` | a mandate that can be debited is the mirror's, an orphan, or being enrolled |
| `Quota` | `QuotaInv` | the counter is documents, wasted units and units in the hands of requests; a refusal below the ceiling is in a bucket another request created |
| `Perks` | `PerkInv` | a slot or a reward in the hands of one errand is in no other's; a period read and not yet written is as it was, unless blended |
| `Access` | `AccessInv` | outside overlapping transitions one request alone knows the plan; a running plan is told, or ends beyond the last sweep |
| `Notices` | `NoticesInv` | whoever tells of what is settled is followed by an event to come or a dispatcher under way that corrects it, or no event was published; a push is under way, lost, or was made once |
| `Sessions` | `SessionsInv` | one request at most hands out the next token; an old password means a reset that has still to sign out; sessions not about to be dropped are at most the cap plus the sign-ins arriving (`CapSound`) |

  The exceptions named in the properties (`raced`, `crowded`, `unnamed`, `doubled` and the
  others) are history variables set by the step that meets another, never by what follows. In
  `Sessions` the sign-in keeps the freshest sessions: that dropping the others leaves no more than
  the cap is a counting argument over a relation, `FreshestFit`.

The theorems `InvariantAlways`, `NoOverSettlementAlways`, `CapacityCoveredAlways` and the
`PromiseKeptAlways` of `SettlementProofs` assume `Legacy = {}`: every invoice carries its counter
from the start, as invoices written by this code do. An invoice without the field is initialised
from a live total read earlier (`rehydrateSettlementBaseline`); with transactions the theorems of
`SettlementTxProofs` cover it, without them they are false: `settlement_legacy` finds the
over-settlement. `IInv` is also checked by TLC in `settlement_steps`, where it was found.

Model-checked only:

- every liveness property (`EveryRequestEnds`, `EventsSettle`, `EveryChargeLinked`): the
  provers have no rule for fairness;
- `ReturnExact`: `TaxReturn` computes over sequences by recursion on data, and what such a
  definition yields for every input needs an induction the provers cannot instantiate;
- the settlement of books with invoices older than the counter, without transactions, as said
  above.

## 6. Not modelled

- Plain create, update and delete of records nothing else decides on: vendors, business
  profile, custom roles, reminder texts, device tokens, coupon administration.
- Reports, the export manifest, PDF layout, e-mail texts: formatting of what is stored.
- Storage, sockets, the payment provider and the driver of MongoDB: external; where the
  code depends on their answers they are actions of the environment.
- Rate limits, wrong codes and passwords and their counters.
- Duplicating an invoice (it issues like any other), the manual status of an invoice,
  proration between paid plans, prices, legacy documents without a tax summary.
