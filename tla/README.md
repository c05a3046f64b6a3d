# TCG Market Chile: a formal model of its core

TCG Market Chile is a marketplace for card sellers and buyers: a NestJS API over PostgreSQL
(`apps/api`, Prisma schema in `prisma/schema.prisma`), with web, admin and mobile clients.
This directory models the part where an error costs money (stock, checkout, Mercado Pago payments
and webhooks, refunds, ledger, payouts) action by action, and then what stands around it: listings
and moderation, carts, price alerts, collections, the import and review of catalog cards, sessions,
seller plans, the background jobs, reconciliation, and the clients' pages.
TLC checks small instances; TLAPS proves the main invariants for every instance.

To run: `tlc -config OneOrder.cfg MC_OrderPayments` (the module of each `.cfg` is in the table of
runs), `tlapm OrderMoneyProofs.tla`.

## The system: components

| Component (under `apps/api/src` unless said) | State | Operations | What makes it correct |
|---|---|---|---|
| **Orders, checkout, stock** `orders/` | `Checkout.status/expiresAt`, `Order.status`, `Listing.quantity/quantityReserved/status` | createCheckout, expire, cancel, prepare, ship, deliver, confirm, dispute; reserve, release, consume, restore | a reservation is neither lost nor released twice; nothing is sold twice; a checkout agrees with its orders |
| **Payments and webhooks** `payments/payments.service.ts` | `Payment`, `WebhookEvent.processedAt`, the preference | createPreference, handleWebhook (approved, rejected, refunded, or only acknowledged) | an event is applied once; money taken ends with a sale or with a refund |
| **Refunds** `payments/refunds.service.ts` | `Refund.status`, `providerRefundId` | execute, complete, markFailed, syncProviderRefunded | COMPLETED means the money is back, once, and the stock with it |
| **Ledger** `ledger/` | append-only `LedgerEntry` by idempotency key | capture, release, refund, payout and adjustment entries; balances; backfill | entries match payments and payouts; balances are what a seller is owed |
| **Payouts** `payouts/` | `Payout.status`, `PayoutItem.locksOrder` | create, approve, process, pay, fail, cancel; reactions to disputes and refunds | an order is paid out once at most, never while disputed or refunded |
| **Disputes** `trust/disputes.service.ts` | `Dispute.status`, `Order.status` | open, message, evidence, assign, resolve | freezes the order's money while it is active |
| **Listings, moderation** `listings/`, `trust/` | the listing's columns, suspensions, reports | publish, edit, pause, activate, cancel; suspend, restore, pause, report, resolve | an edit never contradicts a reservation; a suspended seller has nothing on sale |
| **Cart, inquiries** `cart/`, `inquiries/` | carts of guests and users, inquiries | put, remove, merge, claim, checkout | what is bought was asked for |
| **Wishlist, notifications** `wishlist/`, `notifications/` | wishes, market snapshots, preferences, inbox | scan, emit, preferences | a person is told once |
| **Collections** `collections/` | lots of owned cards, what a collection was worth each day | list, add, edit, delete, summary, sets, capture; deduction by a confirmed sale | no deduction lost; the answers about the same lots agree; pages show what is there |
| **Catalog, submissions** `catalog/` | sets, cards, variants, submissions | importers, prune, submit, review | one card per submission; a re-run repairs and renames nothing |
| **Auth, users** `auth/`, `users/` | sessions, reset tokens, identities | login, refresh, revoke, reset, link, unlink, delete | what ends sessions ends them; someone can still enter |
| **Seller plans and fees** `seller-plans/` | assignments | fee quote, assignment | a fee is of a plan in force when priced |
| **Jobs** `jobs/` | `JobRun`, the Redis leader key, timers, audit rows | expire-checkouts, refund-retry, reconciliation, housekeeping, shutdown | one leader; a job is not refused for ever |
| **Reconciliation** `reconciliation/` | runs, issues | compare payments, refunds, ledger, provider | reports what is wrong and nothing else |
| **Search** `search/`, `catalog/game-filters.service.ts`, `packages/config` | the table of filters, copied in the API and both clients | filters of a game, search, suggestions | a form fits the table, and what it sends is accepted |
| **Shipping, addresses** `shipping/`, `users/` | rates, places, addresses | quote | the same price to the page and to the checkout |
| **Clients** `apps/web`, `apps/admin`, `apps/mobile` | tokens; what a page last read; what was chosen on it | refresh and retry; the buttons a page offers; checkout, search, collection | what a page offers the API accepts; what it shows is what is charged |
| Prices, files, flags, health, other pages, shared types | | | reads, layout: see "What is not modelled" |

How they interact. A transaction that touches money calls `lockCheckoutGraph` (row locks on the
listings, the checkout, its orders and payments, in that order) and reads again under the lock.
Payments call orders inside the webhook's transaction; refunds call stock, ledger and payouts
inside `finalizeInTx`; confirm calls the ledger and the collections; a dispute calls payouts. After
the webhook's transaction the same request executes the open refunds. The jobs call expiry and refund
execution on a timer; the admin module calls the same cancel and execute. PostgreSQL rows are the only
shared memory, with one Redis key for the jobs' leader.

What is hard. Several processes serve requests; the provider repeats, overlaps and delays
notifications, and may decide a payment after it was notified; it is asked between two transactions and may answer
late, twice or never; many
operations decide on a row they read without a lock; processes die between two writes; clients act
on what they read earlier, and lose answers. `PROJECT.json` lists each hazard at its line.

## Modules

| Module | What it is |
|---|---|
| `Stock` | the stock columns and the four conditional UPDATEs of `orders/stock.ts`, as guards (`Can...`) and row functions |
| `StockReservation` | abstract: what a purchase promises about stock, with no payment in it |
| `OrderPayments` | the money path; EXTENDS `Stock`; safety, liveness, and the refinement mapping to `StockReservation` |
| `Ledger` | entries with their keys and amounts, and a seller's balance, as operators |
| `ReconRules` | the comparisons of reconciliation, as operators |
| `Payouts` | payouts, their orders, disputes, refunds, suspensions and adjustments over `Ledger` and `ReconRules` |
| `Listings` | a seller's edits, moderation and suspension against sales; uses `Stock` |
| `Reports`, `Carts`, `Alerts`, `Lots` | reports; carts, their merge and inquiries; price alerts and notifications; a collection's lots |
| `CatalogImports`, `Submissions` | the importers of card data, their crashes and re-runs; the review of a submitted card |
| `Sessions`, `Plans` | refresh tokens and what ends them; plans and the fee of an order |
| `RowPages` | the pages that show an order, listing, payout, refund, dispute, report, submission or issue and what they offer |
| `CheckoutPages`, `SearchPages`, `Collections` | one visit from the cart to the outcome of a purchase; the form, the screen and the box that search cards; a collection, its values, and the pages that list and edit it |
| `Scheduler`, `RefundRetries` | the leader's lease and the job rows; the refund-retry job |
| `ReconReads`, `ReconRuns` | what a reconciliation run reads and when; how it stores its issues |
| `Market`, `Operations` | the components around listings and accounts, and the platform's own work: INSTANCEs side by side, with the properties of each |
| `MC_OrderPayments`, `MC_Payouts`, `MC_Market` | the instances (that of `Operations` is in its `.cfg` alone) |
| `OrderPaymentsProofs`, `OrderMoneyProofs` | types, stock, checkouts and sales, the refinement; stock against the ledger, the charge of a sale, refunds and their payments |
| `PayoutsProofs`, `Totals` | payouts against orders, disputes, refunds and the ledger, and a seller's balance; sums over finite sets, for whoever proves something about one |
| `TradeProofs`, `AccountProofs`, `CollectionsProofs`, `OperationsProofs` | the components of `Market` and of `Operations` |

`Market` and `Operations` hold several components. Their properties tell apart no state that
two of them share, so a behaviour is one of the component in `focus`: the variables of the others are
`Nothing`, and a run is the union of the components' state spaces, never their product. `Payouts`
EXTENDS `Ledger` and `ReconRules`, `Listings` uses `Stock`, `OrderPayments` EXTENDS it: these compose.

### State and code: the money path

| Variable | In the code |
|---|---|
| `checkout`, `order`, `listing` | the status columns, and `quantity`, `quantity_reserved`, `status` of a listing; `"NONE"` is a row that does not exist yet |
| `due` | checkouts with `expiresAt` in the past |
| `asking`, `preference` | createPreference between its check and the provider's answer; a preference that can be paid |
| `payment` | one row per order: status and `providerPaymentId` |
| `refund` | refund rows of an order by reason: asked for by cancel(), or by a payment that came too late |
| `ledger` | ledger entries of an order, a set because the idempotency key is unique |
| `request` | prepare, ship, deliver or dispute between their read and their write |
| `delivery`, `processed` | webhook requests between `getPayment` and their transaction; events with `processedAt` |
| `worker` | `RefundsService.execute` between its read, the provider's call and the write of the answer |
| `provider`, `providerRefund` | external: the provider's payments, and its refunds by idempotency key |
| `early`, `overtaken` | no code: what a property has to remember, the events processed while their payment was pending, and the late writes that undid a refund |

A transaction under `lockCheckoutGraph` is one action, with every call it makes: `ApplyApproved`
consumes stock, writes HELD, enters the capture and closes the checkout in one step. Whatever the
code does outside the lock is split where something can happen in between. `Claim` keeps one
transaction per event: a second delivery waits on the row and then finds `processedAt`. A request
that dies, a transaction rolled back and a delivery of an event already processed leave nothing
behind: all three are `DropDelivery`.

A payment may be decided when it is made or later (`pending`, `in_process`). An event tells whatever the provider
answers when it is asked, and one fetched while the payment is pending is processed with no effect
(`AcknowledgePending`). `EventKind` says which notifications have an id of their own: those without one share the
event `payment:<dataId>` (`payments.service.ts:145`).

A step that writes without the lock (`WriteStatus`, `KeepPending`, `MarkFailedWrites`) overwrites
whatever the row has become. `CompleteRefund` and `SyncProviderRefunded` share `FinalizeRefunds`,
as in the code. The provider may refund at once, defer, lose the answer, repeat it for a known key,
answer "already refunded" with the id of another refund, or fail; a refund settles later or is made
in the provider's panel.

Definitions named `X_Y` (such as `CanExpire_NotReread`) are `X` with a plausible bug. Nothing uses
them; each is there to show that a property finds that bug (`mutants` in `PROJECT.json`).


### State and code: the other modules

One convention runs through them. A call that reads first and writes later is a row of a table
(`editing`, `calls`, `checking`, `confirming`, `request`, `click`, `review`...): the row keeps what the
code's local variables keep, the step that ends the call decides again only where the code does
(`updateMany` with a condition, a lock and a second read, a unique index), and a row may be dropped at any
point, which is the call that throws or the process that dies. A transaction under a lock is one step. The
header of each module says what its variables stand for.

* `Payouts`. `payout`, `paysFor` and `dispute` are rows; PAID stands for PREPARING too, DELIVERED for
  SHIPPED, READY_FOR_MEETUP and DELIVERED, PENDING for a FAILED refund that is tried again, and a dispute is
  ACTIVE or CLOSED: no guard of these components tells them apart.
* `Listings` has one seller; revisions and price snapshots are written and never read by a guard.
* `Carts` has a listing's own counts change between two puts, by sales elsewhere.
* `Alerts` has a threshold per wish in place of `notifyBelow` with a price, and no watchers by favourite.
* `Scheduler` has one call in flight per process and job. SKIPPED is a stutter; COMPLETED and FAILED are ENDED.
* `Sessions` leaves out `isBanned`, which nothing sets, and the verification of an email, which no session reads.
* `Plans` has one seller.
* `RowPages` serves a request in one step, the races between requests being in the modules of the API; `version`
  counts the changes of a row since the page was opened. A page opened for the first time reads the row. A page of
  the app that is left and opened again within `staleTime` (20 s, `query.tsx:14`) shows the row it showed, and
  later reads again besides (`Return`). A dispute opened on the app puts a screen over the purchase, which stays
  mounted with the row it had (`Push`, `purchases/[id].tsx:66`).
* `CheckoutPages` has one listing of each seller in the cart; CHILEXPRESS stands for BLUE_EXPRESS, and the
  comunas for one in each zone and one that the table lacks. One change by somebody else happens in a visit.
* `SearchPages` has two games with a filter both have, one that one has, and one shown for some types of card;
  a range is one value. The controls of the web's form are the browser's: one that stays mounted keeps what was
  entered.
* `Collections` has one variant of a card, a day for a month, and no filter by set or game; what a sale does to a
  lot under its lock is in `Lots`, and here a change made elsewhere.
* `CatalogImports` has the cards of one set; the prune runs with no import at the same time, as its script says.

## What the runs show

`CHECK_DEADLOCK` is off everywhere: a purchase, a payout, a card or a page really ends, with no next step.

| Run (module) | Instance | Shows |
|---|---|---|
| `OneOrder` (`MC_OrderPayments`) | one order, one piece, one payment, decided at once or later, or the order paid twice; deliveries, refund executions and unlocked writes in flight (1.8 M states) | types; reservations are exact; a paid order is exactly a captured one; stock leaves with a capture and comes back once, with its refund, unless late writes undid both the refund and the order's status; one refund per order; payments and ledger agree as reconciliation demands; COMPLETED is money really given back; an approved charge is accounted for once an event fetched after its decision is processed; a refunded seller is never released; a second payment never replaces the one that bought |
| `TwoCheckouts` (`MC_OrderPayments`) | a checkout of two sellers, one order of two pieces of a listing of three, and another buyer after the last piece of the second seller; one payment, fair (36 k) | reservations are exact; a checkout agrees with its orders when one withdraws; the stock promise is implemented; every open checkout is decided; every approved charge, however late it is decided, is accounted for |
| `Settlement` (`MC_Payouts`) | two captured orders of one seller, two payouts, two disputes, a refund, an adjustment, a suspension, two calls in flight (0.4 M) | an order is in one live payout; the ledger says what payouts, refunds and releases say; the balance, its four parts, is what is owed; a payout that can still be cancelled holds no refunded order; a dispute takes its order out of open payouts |
| `Market` (`MC_Market`) | the components around the listings and the accounts, one at a time (1.6 M) | see below |
| `Operations` (`Operations`) | jobs, reconciliation, submissions, one at a time, fair (0.3 M) | see below |
| `ShippedRefund`, `LateTwice`, `CancelledCharge`, `ReopenedRefund`, `LateRefund`, `SharedEvent` (`MC_OrderPayments`), `DisputedOrder` (`RowPages`) | the same small instances, and in `SharedEvent` notifications without an id | seven statements of the documentation that the code does not keep |

The properties of `Market`, by component:

| Property | Says |
|---|---|
| `ReservedWithinStock` | a listing holds exactly the pieces of its live reservations, and has them, whatever its seller enters meanwhile |
| `SuspendedIsOffline` | the listings of a suspended seller are off sale, but for those that a call in flight, or a refund, puts there |
| `ClosedStaysClosed` | a SOLD or cancelled listing leaves that status by a refund, a payment, or a call that had read it before |
| `ReportsBounded` | the limit of reports is exceeded by no more than the calls that counted together; a target has one open report per reason |
| `BoughtWasAsked` | what is in the carts and was bought was put in a cart, once, through merges, unless two checkouts overlapped |
| `HitMailedOnce` | a user is mailed about a listing at a price once, however many checks find it together |
| `LotMatchesSales` | no confirmation loses the deduction of another from a lot, whatever its owner edits |
| `ReimportRepairs` | an import leaves every card the slug it had; a full one that ended leaves each card of its source on sale, but for the conflicts it reports, however many died before it |
| `SessionsEnded` | what ends a login's sessions ends them for good, but for a refresh in flight; a login has one live session, unless two calls refreshed one token together |
| `FeeOfPlan` | an order pays the fee of a plan its seller had when it was priced |
| `PagesFitApi` | a page that shows the row as it is offers nothing that the API refuses, but for a list of offers named one by one (`OffersTooMuch`); no row waits for a step that no page offers; when its requests have ended a page shows what they did, but for a dispute opened on the app, and unless they crossed or an answer was lost |
| `CheckoutAsShown` | a checkout charges the total its page showed, unless what the page had read has changed since, or a quote was missing, still on its way or refused; a buyer told how the purchase ended is not told later that it is still being confirmed, unless two reads of the web's page crossed |
| `SearchFits` | the filters on the form are of the game chosen on it; what it sends the API accepts, but for the links of a search without its game, and a word where a number is due, or "Con publicaciones", on the app; a page just loaded shows every filter that narrowed its results; the suggestions are of the text in the box |
| `CollectionFits` | the summary, the sets, the list and its filter of duplicates agree about the same lots; the change of a month is from what the collection was worth on a captured day, unless nothing had a price then; when its requests have ended the list shows the lots of the query in the address, and a lot's page the lot, but for what changed elsewhere, requests that crossed or were lost, and the sets after a deletion or, on the app, a save |

Those of `Operations`: `LeaderHoldsLease` (a process whose job timers run without the lease stops them, or
gets it back), `StaleRunEnds` (a run that a crash left RUNNING ends, unless one of housekeeping is left
so), `RefundRetried` (an open refund completes or uses up its attempts, unless others that are out of them
crowd it out), `ReportIsTrue` (a run of reconciliation reports no entry of the ledger as missing; with the provider
configured it reports nothing of a charge of one order on which books and provider agreed while it read them, and
reports a difference that lasted; of a charge of several orders, and without a token, see Observations),
`FoundIsShown` (what a completed run found was in an OPEN
issue while it ran, and in one at most) and `CardOnce` (a submission has its one card exactly if it is
approved).

### Where the code and the documentation disagree

* `RefundedIsNotShipped`. docs/07-PAYMENTS.md:112 says state is re-read under the lock. prepare, ship,
  deliver and dispute read first and write later without it: a refund completes in between and the
  refunded order, its stock on sale again, is shipped.
* `LateChargeIsRefunded`. docs/07-PAYMENTS.md:99 gives every approved payment of a closed checkout a
  refund. The second such payment overwrites the row of the first, finds its refund, and gets none.
* `CancelledIsNotCharged`. docs/07-PAYMENTS.md:124: an unpaid order is cancelled at no cost. The
  preference still charges the whole checkout, and the cancelled order is skipped.
* `RestockedOnce`. docs/07-PAYMENTS.md:141 has "no duplica refund ni stock", `refund.integration.spec.ts:221` "does
  not restore stock twice". An execution whose answer is late writes PENDING or FAILED over COMPLETED, a late
  prepare writes PREPARING over REFUNDED, and the next execution puts the piece on sale again.
* `RefundTakesBackACapture`. The refund of a late payment is entered as `-neto` for a seller who never had
  the `+neto` (docs/FINANCIAL-LEDGER.md:23, :26).
* `ApprovedIsAccounted`, where notifications carry no id (`SharedEvent`). docs/07-PAYMENTS.md:97 and :99 have an
  approved payment sell the checkout or ask for its refund. An event `payment:<dataId>` that was processed while the
  payment was pending is processed for good, and the approval is dropped with it.
* `DisputedLeadsOut`. docs/TRUST-AND-MODERATION.md:29, docs/07-PAYMENTS.md:127 and
  docs/06-MARKETPLACE.md:121 have a DISPUTED order end in a refund or a completion. Once its dispute is
  closed no operation of the API takes the order out of DISPUTED.

### Bounds

*Money path.* `Checkout`, `Order`, `Listing`, `Piece`, `ProviderPayment` are the entities of an instance;
`Delivery`, `Request`, `Worker` are the calls in flight at once, at most three together; each slot is
reused without limit, so retries, redeliveries and repeated requests are unlimited in number and limited
only in how many overlap. Two overlapping calls are enough for every race of the code, which is between a
read and a write of one call and a transaction of another. Two orders are needed for partial
cancellation, two checkouts of one listing for the race for stock, two pieces of one listing in one
order and a listing that keeps one to tell a quantity from a presence. After a second payment is tried
in `OneOrder` there is one call of a kind and no request: the state the second payment reaches has
been explored with all of them before. An event is a payment and a kind: with ids of their own `created` and
`decided`, and in `TwoCheckouts` `refunded`, applied in any order, each telling whatever the provider answers when
fetched; without, one. An undecided payment is tried in `OneOrder` with a single payment, and a second one with
both decided at once, the instance growing too large with both.
Where `LedgerMatchesPayment`, `CompletedRefundIsReal` and `ChargeAccounted` say which payment a row names or
gives back they speak of a checkout that is paid once (`PaidOnce`); with two payments `LateTwice` shows one
that nothing refunds.

*Settlement.* One order is refunded; at most three at a time of: a call in flight, a refund under way
or completed, a payout. An adjustment, which touches only the ledger, counts for two; a suspension, which
only keeps a payout from being created, comes first. Two orders, one with commission and one
without, of different amounts, tell sums from each other.

*Market and Operations.* Two overlapping calls in each component, and: one open report's limit of one
(`MaxReports`); two instants of a clock (`MaxTime`); three versions of a row (`MaxChange`); one submitted card, one
card already ordered, one import command with an option, three card rows and four slugs; one crash or
outage (`MaxFaults`); one new `tokenVersion` (`MaxVersion`); two attempts and a batch of one in
the retry job (`Take`, `MaxAttempts`); three touches of a form between two searches (`MaxTouches`), two
copies of a listing and two choices by hand on a page of checkout (`MaxQuantity`, `MaxChoices`); a collection
of three lots at most, a page of two, three offers, and two turns of its owner, one of which may be somebody
else's (`MaxTurns`, `MaxChanges`); one finding in the store of issues. Calls are symmetric.

Definitions named `MC_Bound`, `MC_Visit` and `MC_Lists` hold the bounds that are not constants; they are constraints of
the runs. `MC_Visit` has one seller and one address vary, the other being plain, which is enough to tell a sum
from a part of it, and looks at the page of the outcome after the simplest purchase, as nothing there depends on
which it was.

### Fairness

`FairSpec` of the money path assumes: time passes (`BecomeDue`); the expire-checkouts job, every 60 s
(`jobs/job-scheduler.ts:71`), reaches each due checkout (`ExpireCheckout`); a webhook request ends
(`DropDelivery`); and the provider delivers each notification of a payment again until a delivery of it succeeds, so
that a fetch and a processing that are possible again and again do happen (strong fairness, as another
delivery may occupy the slot). A delivery that finds a pending payment does succeed: what then brings the approval
is the notification of it, an event of its own in `TwoCheckouts` and the same one in `SharedEvent`. The provider
need not decide a payment: the properties speak of those it approved. Buyers, sellers, refunds and the retry job have
no fairness: they may stop
at any time. That is also why refunds have no liveness property there: the retry job is off by default.

`Operations` assumes that a process' timers fire and its runs go on while it is up, and that the host
starts a process that died (`Boot`); faults are finitely many. `RefundRetries`, the retry job turned on,
assumes that its runs and the back-offs between attempts end. Administrators have no fairness.

## What is proved

For any number of everything, overlapping calls included and without the bounds above. The assumptions on
constants are named where the constants are declared, and each run evaluates those of its module:

* money path: `PieceAssumption` (finitely many pieces, each of one order and one listing) and
  `OrderPaymentsAssumption` (each order in a checkout, each checkout with an order, quantities natural);
* payouts: `MoneyAssumption` (an order has a seller and natural amounts), `CorrectionAssumption` (corrections
  are integers), and, as a hypothesis of the theorems, `Apart` (`Nothing` is not the name of a payout). The
  balance is a sum, so that its theorem also has orders and payouts finite in number;
* `Market`: `TradeAssumption` (calls, reports and sales finite in number, natural limits and quantities, and
  there is a call, a listing and a price), `LotsAssumption` (an order takes natural quantities of lots),
  `CartsAssumption` (carts finite in number, none of them `Nothing`), `ImportsAssumption` (the bounds of the
  model allow each row a slug of the same base, and no printing is the absence of one), `PlansAssumption` (natural
  times and
  amounts, and the holders of the seller's row told apart), `SessionsAssumption` (what
  stands for no session is not the name of one), `SearchAssumption` and `PagesAssumption`
  (what a person does on a page, and the changes of the row it shows, are counted), `VisitsAssumption` (a cart may
  hold a copy of something), `CollectionAssumption` (offers are finitely many and have natural prices; a collection
  starts from
  numbered lots, no more than there may be, and there is a day);
* `Operations`: `OperationsAssumption` (there is something to find; what stands for no submission is not the name of
  one), `ReadsAssumption` (payments finite in number, an integer price, and no payment or charge named as the absence
  of one).

| Theorem | Property |
|---|---|
| `TypeCorrect` | `TypeOK` of the money path |
| `ReservationsAreBacked`, `CheckoutsAreCoherent`, `SalesAreCaptured` | `ReservationBacked`, `CheckoutCoherent`, `SaleIsCaptured` |
| `StockPromiseKept` | `ImplementsStockReservation` |
| `StockIsAccounted`, `ChargesKeepTheirPayment`, `RefundedStaysUnreleased` | `StockAccounted`, `ChargeKeepsItsPayment`, `RefundedIsNeverReleased` |
| `RefundsTellTheirStory`, `LedgersMatchPayments` | `OneRefundPerOrder`, `LedgerMatchesPayment` |
| `CompletedRefundsAreReal`, `ChargesAreAccounted` | `CompletedRefundIsReal`, `ChargeAccounted` |
| `NoOrderPaidTwice`, `NoRefundedOrderWaits`, `DisputedOrdersAreWithdrawn` | `OrderInOnePayout`, `RefundedIsNotPayable`, `DisputedIsWithdrawn` of `Payouts` |
| `LedgerLacksNothing`, `BalancesAreOwed` | `LedgerIsComplete`, `BalanceIsWhatIsOwed` of `Payouts` |
| `ReservedIsWithinStock`, `SuspendedStaysOffline`, `ClosedListingsStayClosed` | `ReservedWithinStock`, `SuspendedIsOffline`, `ClosedStaysClosed` of `Market` |
| `ReportsStayBounded`, `HitsAreMailedOnce` | `ReportsBounded`, `HitMailedOnce` of `Market` |
| `LotsMatchSales`, `BoughtIsAsked`, `ReimportsRepair` | `LotMatchesSales`, `BoughtWasAsked`, `ReimportRepairs` of `Market` |
| `EndedStaysEnded`, `FeesAreOfThePlan` | `SessionsEnded`, `FeeOfPlan` of `Market` |
| `SearchesFit`, `PagesFit`, `CheckoutsAreAsShown` | `SearchFits`, `PagesFitApi`, `CheckoutAsShown` of `Market` |
| `CollectionsFit` | `CollectionFits` of `Market` |
| `CardMadeOnce`, `FindingsAreShown`, `ReportsAreTrue` | `CardOnce`, `FoundIsShown`, `ReportIsTrue` of `Operations` |

*Stock and sales.* `ReservationBacked` is not inductive alone: a late unlocked write could move an order out of
PENDING_PAYMENT. `StockInv` adds `CheckoutCoherent` and `SaleIsCaptured`, whose second part says that a write
in flight is always about a captured order, hence never about a reservation. Four shapes of step change
stock (reserve, release, consume, restore), and the lemmas on `Pieces`, a cardinality, say what it is of
disjoint unions, differences and subsets; every other step leaves `order` of pending orders and `listing`
alone. The refinement maps each action to `Open`, `Withdraw`, `Win`, `Lose`, `TakeBack` or a stutter, under
`StockInv`. `StockAccounted` needs one more invariant, `UnpaidIsClean`: an unpaid order has no refund, no
ledger entry and no refund execution, so that its account starts from nothing when it is captured. Its upper bound
needs what late writes did to each order (`OvertakenInv`): one whose refund is in the ledger is PAID or PREPARING again
only if a late write put it there, and its refund is open again only if another did, so that a completion that gives
stock back is the first of its order, or both were overtaken. The two
action properties hold because a captured order's checkout is PAID, which no approval or rejection passes
(`ChargeKeepsItsPayment`), and because a refunded payment is not HELD, nor can it become HELD again
(`RefundedIsNeverReleased`).

*Refunds.* These rest on what the calls in flight know (`RefundInv`). What a delivery fetched may be old, but the
provider only moves forward (`FetchedIsTrue`). The payment an order names was taken for its checkout
(`PaymentTraced`), and so was the one an execution asks to be refunded, which has been given back once the
provider said so (`ExecutionTraced`); where a checkout is paid once the two are the same payment. A charge is
accounted for by the events that were
processed after the provider decided (`Settled`): the pending ones left everything as it was.

*Payouts.* An order joins a payout under the locks of both, and only when no live payout has it; a call that was
overtaken reads the status again before it writes, so that it never revives a payout that was withdrawn. For
that the invariant carries what each call in flight may still write. `NoRefundedOrderWaits` adds that an order
with a completed refund has left the open payout it was in, which rests on the first: `releaseOpenForOrder`
takes one payout, and one is all there can be. For the ledger and the balance the invariant (`ExactInv`) is that
the entries about orders and payouts are exactly those of what happened to them, and that a payout was made of
released orders of its seller, for what they net. `Totals` shows that the folds the model sums with are determined
by a sum over nothing and a sum with one element more, so that a sum over entries is one over orders and payouts,
which is then split by who holds, refunded or disputes what.

*Listings, reports, alerts, lots.* Of what a call in flight read about a listing some still is so, and that is what
its write rests on: a row that exists goes on existing, and one found to have an unsuspended seller is excused. A
call that has counted the reports of the window is as good as a report of it. A hit that was mailed is in
the inbox, and stops the next one. What a running confirmation read of a lot it has locked is the lot, less what
its items took until then, and nobody else holds that lock: so what it commits is what was entered less
what was sold.

*Carts.* The invariant says what was put in covers: what was bought and is in both carts; what a checkout in flight
will buy, with the guest's cart; and what a merge in flight will make of the two carts, also when the checkout that
runs beside it has bought, as long as the guest's cart is there. A merge that read an item row which is gone
will put nothing there, since its update fails.

*Imports.* A row keeps its slug, what it is of and its variant for as long as a command runs: the editions' importer
finds by slug only rows of the same printing, and a prune runs alone. So what a command has passed is reported or on
sale, and the slugs it read at its start are still taken. The subtle case is the upsert of the APIs' importers,
which computes a slug and may find a row made since: slugs of a base are numbered without gaps, so the number
it chose is that row's, or taken by another row and refused by the index.

*Accounts.* For fees the invariant is about the assignments a pricing call has read: they were in force at its
instant and no later write takes that back, the lock on the seller's row keeping them as they are between the
two reads. For sessions it is that nothing live, or about to be replaced by a refresh in flight, is of a login that
ended, and that a login nobody forked is held by one live session or by one refresh that has read it.

*Searches.* What the form holds is of the controls that are mounted, which are those of the game whose filters
arrived (`form.meta`), and those are of the game chosen or not there yet. An address with a game holds only that
game's filters, since the API's list of them is the one the form is drawn from; one without a game came of a link,
or says nothing the API refuses. A page nobody touched shows its address, as the filters of a game that are not
there yet are not mounted. The box asks for one text at a time: the answers in flight are of the text in it, or it
waits to ask again and drops them when it does.

*Pages of a row.* What a button offers is compared with what the API accepts page by page and kind by kind, over every
row of the kind with any marks: of all that a row has been through only one fact is needed, that an order with an
active dispute is DISPUTED, which makes `RowOK` inductive. A request pressed on a page that showed every change was
offered on the row as it was; it still is when nothing has changed until it is served, and `ClickFits` carries that. For
what a person did, `OwnInv` says where the newest change made from the page is: on it, in a view on its way to it, or to
come with a read that has not started. That two requests on one page uncrossed are both of a kind whose reads give up
the older ones, or of one that puts a screen over it, is what rules out the older view coming last; a page of the app
that is opened again reads only what has been done by then.

*Pages of checkout.* What the page read is what the server has, or the change is in `behind`, or the cart was bought
(`ReadsFit`). The quotes on it fit the methods and the destination they were asked for; on the web, which shows the last
that came whatever they are of, either a quote is on its way or those shown are of what is chosen now, because each
change of the choice cancels what was asked before and asks anew (`QuotesFit`). So what is shown when the button is
pressed, seller by seller, is what the API would charge, the region that only the API falls back to making no
difference where a quote was found; and two sums by seller, of lines and of shipping, are the sum of both (`SumOfBoth`,
from `Totals`). From then on until the answer `behind` only grows (`PlacingFits`). On the page of the outcome every
answer
that says the purchase ended says the same, and without a crossing there is one at a time (`PollsFit`).

*Collections.* That the change of a month is from what the collection was worth rests on a day being captured once, with
the value of its lots then. That the answers about the same lots agree needs nothing but the lots' types: the cards
held are those
of the sets, which have none in common, so that a count and a sum over them are the sums of the sets' (`SetsAgree`,
from `Totals`); copies with a price and without are all copies (`CopiesAdd`); and with every lot priced each gain is a
value less a cost, the median of natural prices being one (`MedianIs`, as there is an n-th lowest price). The pages need
an invariant: unless requests crossed or were lost, each part of the list is as it is now, or is being read, or is in
`behind` or about to be asked for again by a save or a deletion (`ListCurrent`); what a load got is as it is now, or
the load knows that something changed since (`LoadsCurrent`); and the page of a lot has the row as it is, or as it was
before the save it has not shown yet (`SeenFits`). What an answer says depends on the lots, what is on sale and the
days captured before this one, and so stays as it is while these do (`NowStays`).

*Operations.* The card of a submission is written in the transaction that leaves its reviewable states, under a
lock one review holds. Every OPEN issue has been shown to every run that goes on, failed as stale or not, and
what a run has dealt with is in an issue that was shown to it. What a run reads of the ledger covers what it had
read of the books (`LedgerRead`), as entries are written with the rows they are of and the ledger is read last. While
books and provider agree, neither the charge nor the refund of the one payment can move without the other, so each
read says the same of both (`AgreedRead`); while they differ and nothing moves, what was read is what there is, and
the rules, taken row by row, cannot match a return that the books have not completed without reporting the row.

Model-checked only. Liveness (`CheckoutIsDecided`, `ApprovedIsAccounted`, `LeaderHoldsLease`, `StaleRunEnds`,
`RefundRetried`) is beyond the prover. Every safety property that a run checks is stated by a theorem; those of the
runs that expect a violation are not.

## What is not modelled

* *Data that no guard reads*: notes, tracking, audit, metrics, texts, layout. In the money path SHIPPED
  stands for READY_FOR_MEETUP too, which has the same transitions; CONFIRMED is never written.
* *Prices and search*: aggregates of prices, the SQL of a search, ranking and paging: reads.
* *Catalog*: what maps a source's record to a card, images, demo sellers and listings.
* *Accounts*: the ways to sign in, and the tokens a client keeps. Nothing orders two removals, or two refreshes, and
  what a property could say would leave out the cases that matter (Observations).
* *Users, files*: profiles (single-row writes of one owner), storage.
* *Platform*: flags and configuration only refuse requests; health and metrics only read.
* *Other pages*: lists, forms, labels. Of the clients the pages that act on a row are modelled, checkout, search and
  collections.
* *Shared packages*: types and validation schemas are constants of the inputs chosen in each module.
* *The development payment* (`simulate`, local provider), signatures, mails, the exchange with Google and
  Apple.
* *Deadlock between locks*: PostgreSQL ends one of the transactions, whose request fails and leaves nothing,
  which is the step that drops a call.
* A refund the provider answers "rejected" stays PENDING in the code, and here as one in process. The
  batches of 200 and 50 of the jobs: one checkout, and `Take`, stand for them.

## Observations

Behaviours the models have, or that showed while they were written, beside those of the runs that expect a violation.
The properties state them as they are, or leave them out by name.

### That a document contradicts

* *Sign-in*: two unlinks at once remove the last method (`auth/auth.service.ts:360`), against docs/05-AUTH.md:39 and
  docs/AUTH-IDENTITY-AND-SESSIONS.md:44 ("Unlink solo si queda al menos un método"); two resets with one token both go
  through (`auth/auth.service.ts:203`, `:208`), against docs/05-AUTH.md:44 ("un solo uso"). No property speaks
  of either.
* *Reconciliation*: an unconfigured provider makes every payment PAYMENT_MISSING_PROVIDER, against
  docs/RECONCILIATION.md:74 (such a run "solo revisa ledger/payouts locales"); every checkout of several sellers is
  reported CRITICAL (DUPLICATE_PROVIDER_PAYMENT, AMOUNT_MISMATCH), against docs/RECONCILIATION.md:87
  ("MP approved + local HELD → OK").
  `ReportIsTrue` says nothing of either.
* *Collections*: a day on which nothing had a price is stored as 0 (`collections/collections.service.ts:124`), and a
month
  later the change is the whole value, against docs/COLLECTIONS.md:33 ("No se trata un faltante de mercado como
  $0"). `ChangeIsOfValues` leaves such days out.
* *Imports*: the pack, then the TOR, then the pack make duplicates, the TOR renumbering the row found by its slug, and
so
  does an import after a prune or beside a submission, against docs/19-CATALOG-IMPORT.md:9 ("re-correr un set no
  duplica cartas"). `ReimportRepairs` does not say it. The reference fixtures, run after the TOR, stop at the
  unique slug (`reference-catalog/seed.ts:19` has "Idempotent upsert").
* *Pages*: the route of the mobile confirm-receipt does not exist, and rate is offered on DELIVERED, against
  docs/release/MOBILE-BETA-QA.md:71 ("Confirmar recepción y valorar cuando aplique"); mobile offers ship for a
  meetup without a place, and prepare and ship, as the web does too, with a refund open, against `:77` ("según estado").
  `OffersTooMuch` lists them.
* *Listings*: a refund restocks and reactivates the SOLD listing of a suspended seller (`orders/stock.ts:75`), where
  docs/TRUST-AND-MODERATION.md:14 has a suspended seller reactivate none. `SuspendedIsOffline` leaves it out.

### That no document speaks of

* *Checkout*: prices come from the cart as read before the lock (`orders/orders.service.ts:92`, `:213`); the
  cart is emptied at `:222` with what was put in it since; two checkouts of one cart both buy.
* *Cart*: a crash between the merge and the claim of inquiries (`cart/cart.service.ts:185`) leaves the
  inquiries of the guest unclaimed.
* *Listings*: an edit's revision is of what was read (`listings/listing-revision.service.ts:45`).
* *Alerts*: a scan finds no cheapest listing when the first is fully reserved; a PRICE_DROP with the inbox
  off and the mail on is mailed at each scan.
* *Collections*: confirmations of two orders with the same lots in another order can deadlock. A box checked stays
  checked when the filter changes, and may be of a lot that is gone; saving a lot writes back the copies a sale
  took meanwhile; the web's list shows its first page only; the sets are not read again after a deletion.
* *Jobs*: a housekeeping row orphaned by a crash refuses later housekeeping until a graceful shutdown; the
  oldest 50 refunds, when exhausted, starve the others; a run failed as stale ends COMPLETED if it was alive.
* *Reconciliation*: an ACKNOWLEDGED issue gets a second, OPEN row.
* *Sessions*: two refreshes at once issue two sessions or end all (mobile `api.ts:62`, web `api.ts:68`), and
  so does a lost answer; a login or refresh in flight survives a password reset; a sign-out
  during a refresh leaves a live token stored; nothing sets `isBanned` nor calls `invalidateAccess`.
* *Plans*: an assignment that starts in the future leaves its seller FREE until then; cancelling one
  overwrites its end.
* *Pages*: a purchase whose dispute was opened on the app goes on not showing it; mobile offers a dispute of an unpaid
  or already disputed order, messages and evidence on a closed dispute; admin offers a review again, and the actions of
  closed submissions; web "Cancelar" and mobile "Reactivar" on SOLD and CANCELLED, and activation while
  suspended; the form that marks a payout paid is never disabled; an action is shown failed when only the
  reload failed; an older answer overwrites a newer one; the mobile return page stops asking after one
  failure.
* *Imports*: TOR printings that share a slug are one row; `--missing-only` never makes the variant of a card whose
  import crashed before it; the pack overwrites a card approved meanwhile. The prune fails for ever when a
  listing has an inquiry or a card has an ordered variant beside an unordered one, deletes items of
  collections, and can delete a card that got its image after the read.
* *Pages of checkout*: the total is shown, and the button works, while quotes are missing or refused; the page
  quotes by comuna alone and the checkout by region too (`shipping.service.ts:32`, `chile.ts:486`); the quote of
  a deleted seller is refused (`shipping.service.ts:24`) and the checkout is not, as a deletion leaves the
  listings on sale (`users.service.ts:226`); the app puts the default address back when the cart or the addresses
  change (`mobile/app/checkout.tsx:31`); every press has its own Idempotency-Key (`web/lib/orders.ts:10`), so that
  after a lost answer the cart is empty and no page pays the checkout made; deleting an address takes it from the
  orders sent to it (`shippingAddressId` SET NULL); reads of the web's return page overlap and go on after the
  outcome is final.
* *Search*: the app sends "Con publicaciones" as an attribute, which is refused, and has free text for languages,
  finishes, conditions and numbers; removing the game's chip leaves its filters in the address, which is refused;
  an order by `retreatCost` is offered and dropped (`web/lib/search.ts:52`), one by `powerNumeric` accepted and
  ignored; links leave the form as it was; a suggestion in flight reopens the list of a text now too short.

## Plan for what is left

1. Prices and their daily points, the forms that publish and submit cards, the rest of accounts and profiles.
2. Lock order: the sequences of locks as steps, with who waits for whom.
3. Proofs, with what 1 and 2 add: an order of the locks that no call goes against.
