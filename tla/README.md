# A verification project for the billing platform

TLA+ models of what a shop sells, buys, is paid and has in stock, what a
restaurant cooks and bills, what a till, a printer and a browser session do about
it, and what a tenant pays for the platform. TLC checks the models on small
instances; TLAPS proves every safety property they check, the refinements and
the type invariants, for every size. Paths are relative to `src/`; `modules/...` means `backend/app/modules/...`,
`features/...` means `billing-app/src/features/...`.

## 1. Inventory of the system

One FastAPI process (or serverless function) per request, one SQLAlchemy session
per request, PostgreSQL (SQLite in development) behind it. Sessions are opened
with `autoflush=False` (`backend/app/core/db.py:27`); no query locks the rows it
reads; every service function commits itself, most of them once. A request whose
handler raises is rolled back. All state is in tables with a `tenant_id`; tenants
never share rows, so each model has one tenant. The billing app (React) keeps a
query cache and a few stores; it repeats nothing by itself except a request that
was answered 401, after a refresh. The print agent is a process of its own on the
till's computer, reached by a WebSocket.

| component | state | operations | correct when | module |
|---|---|---|---|---|
| sales (`modules/sales`) | invoices, returns | create, void, return, cancel a return | money columns agree, a voided invoice stays closed, one checkout is one invoice | `Sales`, `Checkout` |
| payments (`modules/payments`) | payments, allocations, ledger adjustments | pay at the sale, pay later, adjust, ledger | what is outstanding is what was not paid; ledger and invoices agree but for the tolerance | `Sales` |
| inventory (`modules/inventory`) | stock, its history | adjust; written by sales, returns, purchases | stock can be rebuilt from the documents | `Sales`, `Procurement` |
| restaurant (`modules/restaurant`) | tables, orders, lines, kitchen tickets | open, add, change, transfer, merge, split, bill, cancel; tickets; release | one tab per table, the board tells the truth, the kitchen cooks what is on a tab, a tab becomes one invoice | `Restaurant`, `RestaurantBilling` |
| restaurant screens (`features/restaurant`) | what each screen last read | every button, print bookkeeping | no food fired twice, no tab discarded unknowingly | `OrderScreen` |
| till (`features/pos`, `modules/pos`) | cart, idempotency key, held bills, table mode | ring, hold, resume, move to a table, check out | one invoice per sale, no held bill lost | `Till` |
| procurement (`modules/procurement`, `features/procurement`) | purchases, returns, vendor payments, balances, stock | enter, confirm, cancel, send back, pay, adjust | balances, ledger and stock can be rebuilt from the documents | `Procurement` |
| commerce (`modules/commerce`, `features/commerce`) | online orders, SKU mappings, their invoices | webhook, mock order, retry billing, map a SKU | an order is billed once, or says why not | `Commerce` |
| subscription (`subscription_billing`, `internal_cron`, `admin_subscriptions`, `core/subscription_access.py`, the gate and the operator's page) | the tenant's billing row, payment orders, the gate | order, verify, webhook, trial expiry, operator's changes | money is honoured, nobody is active for nothing | `Subscription` |
| printing (`billing-app/src/lib/printing`) | connection, waiting calls, device mode | print a receipt or ticket, pair | no second print; every print ends | `Printing` |
| print-agent (`print-agent/src`) | job table, sessions, rate limiter | authenticate, print, report, recover | a job is on paper at most once | `PrintAgent` |
| auth and session (`modules/auth`, `billing-app/src/lib/api-client.ts`) | token pairs, the browser's store | login, refresh, logout, password | a request is repeated safely, a replayed token ends its chain | `Session` |
| catalog, customers, settings, promotion, analytics, search, activity, notifications, invoice designer, rest of the admin console | rows of their own | create, read, update, delete, reports | - | not modelled |

How they interact. Everything that sells calls `create_invoice`: the till,
`bill_order` of the restaurant, and commerce's `invoice_bridge`. Stock is written
by sales, returns, procurement and manual adjustment, always as *read the row,
compute, write the absolute value*. Outstanding amounts are written by
`create_invoice`, `void_invoice`, both return paths and `create_payment`. The till
supplies the idempotency keys (`features/pos/pages/POSPage.tsx:78-81`); the
restaurant's order page and commerce supply none. The till's table mode is the
restaurant's open order. All printing goes through `printerManager`. Every request
passes the subscription check and may be answered 402.

What is hard: (1) long sequences of legal calls on one row through functions that
each look at a part of it; (2) requests that interleave between a read and a
commit; (3) functions that commit twice (`bill_order`, the commerce webhook,
`create_mapping`) and may die in between; (4) retries with and without a key, and
answers that are lost or late; (5) copies of state (a table's status,
`sent_quantity`, `returned_quantity`, vendor balances, what a screen shows);
(6) webhooks that come twice and in any order; (7) two processes and a wire
between a receipt and its paper. `PROJECT.json` lists the hazards with their lines
and the properties that watch them.

## 2. The modules

| module | models | kind |
|---|---|---|
| `Sales` | sales, payments, inventory | one action per service function |
| `Checkout` | `create_invoice`, statement by statement, concurrent | refines `IdempotentCheckout` |
| `IdempotentCheckout` | what `create_invoice` promises its callers | abstract specification |
| `Restaurant` | tables, orders, lines, tickets | one action per service function |
| `RestaurantBilling` | rounds, bills, releases of one table, concurrent | composes `IdempotentCheckout` |
| `OrderScreen` | the restaurant's screens and ticket printing | extends `Restaurant` |
| `Till` | the POS page over held bills, tables and invoices | requests served late or never |
| `Procurement` | buying, over backend and screens | requests served late or never |
| `Commerce` | online orders, from commit to commit | concurrent, with deaths |
| `Subscription` | billing row, job, operator, browser, Razorpay | transactions from read to commit |
| `PrintAgent`, `Printing` | the agent; the browser that prints through it | two processes, composed |
| `Session` | browser and refresh tokens | concurrent requests |
| `SumLemmas` | sums over finite sets, which the ledgers are made of | TLAPS |
| `SalesProofs`, `ProcurementProofs`, `CommerceProofs` | theorems about the module of that name | TLAPS |
| `RestaurantProofs` | theorems about `Restaurant` and `OrderScreen` | TLAPS |
| `BillingProofs` | theorems about `Checkout` and `RestaurantBilling` | TLAPS |
| `TillProofs` | theorems about `Till`, `Printing` and `PrintAgent` | TLAPS |
| `AccessProofs` | theorems about `Session` and `Subscription` | TLAPS |
| `MC...` | values of the constants for TLC | - |

How state and actions correspond to the code, and what is abstracted:

- **Sales.** `inv` and `ret` are the tables with their items, `stock` is
  `inventory.quantity`; `manualStock`, `received`, `allocated` and `adjusted` are
  sums over append-only tables, of which only sums matter; `allocations` counts the
  payment's rows of an invoice. A function is one step, because it is one
  transaction. Money is in hundredths, so the 0.01 by which `create_payment` lets an
  allocation exceed what is owed, ignores a remainder and forgives a balance is
  `Tolerance == 1`. A payment may spread itself oldest first or name its invoices,
  settled and cancelled ones included, and name one twice. The replay of a key is a
  stutter.
- **Checkout.** `pc` walks through `create_invoice`: key, stock check, number,
  insert and flush (`modules/sales/service.py:407`), per line read and write of the
  stock, commit. `Readable` says what an unlocked read may return; the database
  (external) makes requests wait for locks and ends a deadlock by failing one;
  `Crash` loses a request anywhere. `ChecksOutOnce` is the refinement mapping.
- **Restaurant.** `tables`, `order`, `item`, `kot` are the tables of
  `models/restaurant.py`. Foreign keys are the constant `ForeignKeys` (PostgreSQL
  enforces them, SQLite does not), plan features the constant `Features`.
  `quick_bill_table` is `CreateOrder` or `AddItems`, then `BillOrder`.
- **RestaurantBilling.** A bill reads the order and its lines, sells through
  `IdempotentCheckout`, and closes the order in a second transaction, without
  looking at it again. Any bill may carry any key: the till keeps its key until a
  receipt is closed (`POSPage.tsx:323`), so after a lost answer the next order it bills,
  the same or another, is sent with the old one.
- **OrderScreen.** A press takes its content from a screen of any age and is
  served any time later or never; the server's part is `Restaurant`'s own action.
  `print_count` and the paper are two variables.
- **Till.** Two carts (the counter's and the table's), the key and the held bill
  in hand are kept exactly as long as the page keeps them; a cart is a set of
  products. Answers come late, in any order, or not at all.
- **Procurement.** A purchase is one line of one product at a unit price of one
  hundredth, so quantity, total and refund are one number, and the 0.01 of
  `create_vendor_payment` is `Tolerance == 1`. A call is one transaction; calls whose
  answer was lost are pressed again. The dialog's payments name no purchases; the
  vendors in `PaidByName` are also paid by other callers of the API, which name
  purchases of any status, also twice (`NamedPayment`).
- **Commerce.** A step is what lies between two commits. The platform (external)
  delivers either status of an order any number of times. `marks` remembers
  whether two billings of an order overlapped or one died, for the properties.
- **Subscription.** Every backend function is a transaction in `txn` from its read
  to its commit, which writes the columns it changed over whatever was committed
  meanwhile. Razorpay (external) keeps the money and repeats its events.
- **PrintAgent, Printing.** The job table and the configuration survive a crash;
  connections, running jobs and the rate limiter do not. A job can put bytes on
  paper and still fail. `Printing` keeps the waiting calls of one tab, the shared
  connecting promise and the sockets.
- **Session.** A token pair is its number in the order of issue, which serves as
  the clock. `rotate_refresh_token` is a read and a commit with no lock between.

## 3. What TLC checks

| run | instance | shows |
|---|---|---|
| `sales` | 1 product, 1 credit customer and walk-ins, 2 invoices, 2 returns, quantities to 2, amounts {0, 1, 2, 4} at a price of 2, payments that name an invoice twice, 2 allocations an invoice | `AmountsAgree`, `LedgerWithinOutstanding`, `ReturnsAccountedFor`, `StockReconciles`, `CancelledIsFinal` |
| `restaurant_tables` | 2 tables, 3 orders, 2 lines, 1 ticket, all features, foreign keys | `OneOpenOrderPerTable`, `BoardMatchesOrders`, `KitchenFoodIsOnATab`, `TicketLinesResolve`, `ClosedOrdersAreFrozen` |
| `checkout` | 3 requests, 2 with one key, 2 products in opposite order, 2 may crash | `ChecksOutOnce` (refinement), `EveryRequestEnds`, `StockIsNeverUnderstated`, `TypeOK` |
| `restaurant_billing` | 2 rounds, 2 orders, 2 bills with one key (one may crash) beside one without, 1 release | `BilledOrderHasItsInvoice`, `SoldOrderIsClosed`, `BillsAreFinished` |
| `printing` | 2 connections, 1 receipt, 1 ticket, agent mode, 1 crash, 1 edit of the settings | `NeverASecondPrint`, `DoneIsOnPaper`, `EveryPrintEnds` |
| `session` | 2 requests at once, 1 account, 3 token pairs | `ExecutedAtMostOnce`, `ReplayedChainIsDead` |
| `till` | 1 product, 2 tables, 2 keys, 1 order, 1 held bill, 3 calls of which 2 in flight | `OneInvoicePerSale`, `HeldBillsOutliveFailures`, `CarriedLinesReachTheTable` |
| `orders` | 2 tables, 2 orders, 3 lines, 2 tickets, 6 calls of which 2 in flight | `CountedPrintsAreOnPaper`, `FoodFiredOnce`, `TabsAreDiscardedKnowingly` |
| `procurement` | 2 vendors (one paid by name too), 2 purchases, 2 returns, 2 screens, quantities to 3, payments to 2, 6 calls | `PayablesReconcile`, `LedgerAgreesUntilCancelled`, `LedgerWithinBalance`, `StockReconciles`, `ReturnsFitThePurchase`, `CancelledIsOver` |
| `commerce` | a webhook's or a mock order (one exists at a time) of 2 SKUs, 2 requests, 1 page, 3 invoices | `BilledOnceUnlessRaced`, `UnbilledSaysWhy`, `BilledStaysBilled` |
| `subscription` | 1 payment order, a priced and an unpriced plan, 1 press of the operator, 2 open transactions | `NoFreeRide`, `CapturedIsHonoured`, `BlockedStaysAtTheGate` |
| `subscription_stale_suspension` | the same | violation of `PaidIsNotSuspended` |

Bounds and why they are enough. Two documents of a kind reach every pair that can
disturb each other (two returns of one invoice, a payment spread over two); a
quantity of 2 gives partial and full returns; manual movements of stock are limited to
one, of stock that a cancelled return took below zero. The tolerance is one hundredth, so totals
of 2 to 4 hundredths already have balances below, at and above it, and two
allocations of an invoice are enough to overpay it, or to pay it when it is settled or
cancelled. Three orders are the least for a
chain of merges. Three requests are two rivals for a key and a third that locks the
same rows the other way round. Two requests in flight are enough for an overtaking
answer and for a lost one that is repeated; two connections for a socket that is
replaced while its close event is on the way; three token pairs for a replay of a
predecessor after its successor was itself rotated. `MaxCalls`, `MaxInFlight`,
`MaxPresses`, `MaxOpen`, `MaxOrders`, `MaxPairs`, `Burst`, `MaxRepeats`,
`MaxAllocations`, `MaxNamings`, `MaxPayment`, `MaxQty`, `StockLevels`, `MaxAdjusted` and
`Money` bound what would otherwise be unbounded. In `sales`, `checkout`,
`restaurant_billing`, `printing`, `till`, `orders` and `procurement` ids, calls or
requests run out, so these say `CHECK_DEADLOCK FALSE`: the end of the instance, not
of the program. The other runs check deadlock. Whether a request, a bill or a print
can hang is a liveness property of its own.

Fairness. `Checkout`: weak fairness of the steps of a request: the server runs what
it accepted and the database resolves every deadlock. `RestaurantBilling`: weak
fairness of what follows the first read; nobody is obliged to order or to bill.
`Printing`: weak fairness of connecting, of the agent taking and answering a job and
of message delivery; not of crashes, restarts, timeouts or people. `Subscription`:
weak fairness of commits and answers; strong fairness of the webhook, which Razorpay
repeats until acknowledged, and of the browser's next request, both because
`MaxOpen` may keep them out again and again, which the backend does not. The other
modules have no liveness in their specifications: nothing there has to happen.

### Where the code disagrees with what it says

`subscription_stale_suspension`: `core/subscription_access.py:62-63` calls the
expiry of trials safe to run from the daily job. The job reads the trialing tenants
first and commits after all tenants were counted (`internal_cron/service.py:112`),
so a tenant activated in between is suspended.

Other statements the models refute are kept as definitions, some with a `.cfg` of
their own that is not among the runs. The first two are promises of comments and
docstrings that matter most:

`EveryBilledOrderIsCharged` (`MCRestaurantBilling_EveryBilledOrderIsCharged.cfg`):
`restaurant/service.py:921` says that `bill_order` turns the order into exactly one
invoice, and `POSPage.tsx:78-80` calls the key one id per checkout attempt. The key is
drawn anew only when a receipt is closed or a bill is held (`:323`): if the answer is
lost, the next order billed carries the old key, `create_invoice` returns the first
order's invoice, and the second order is closed with it and never charged.

`HeldBillsAreSold` (`MCTill_HeldBillsAreSold.cfg`): `POSPage.tsx:73-75` and `:255-256`
say that a held bill is deleted only once the resumed bill's checkout succeeds.
`handleCheckout` deletes the bill in hand after *any* counter checkout (`:379-381`), and
neither clearing or replacing the cart nor resuming in table mode lets go of it. What
does hold is weaker, `HeldBillsOutliveFailures`: a checkout that was refused, lost or
cut off deletes nothing.

| `.cfg`, or property and the `.cfg` to put it in | what happens |
|---|---|
| `MCSales_MoneyPaidIsNotOwedAgain` | cancelling a return of an invoice paid in money makes the refund outstanding again (`modules/sales/service.py:773-776`) |
| `MCCheckout_DuplicateGetsTheInvoice` | the loser of two requests with one key fails in the flush, outside the handler, with a server error (`:482-486`) |
| `MCCheckout_InvoiceNumbersUnique` | two checkouts take one invoice number (`:46-48`) |
| `MCRestaurant_SentIsReachable` | after a split, cancelling the ticket does not lower the moved line's sent quantity (`modules/restaurant/service.py:753-754`) |
| `OneOpenOrder` in `MCRestaurantBilling_AllRoundsOnTheBill` | two rounds open two tabs on one table (`:393-394`) |
| `MCRestaurantBilling_AllRoundsOnTheBill` | a round appended during billing is on a billed order and on no invoice (`:869-871`) |
| `NeverSilent` in `MCPrinting`, `HandReceipts = {}`, `MaxEdits = 0` | the agent dies with a request in hand and nobody is told |
| `AutoPrintFollowsTheSetting` in `MCPrinting`, `HandReceipts = {}`, `MaxEdits = 0`, `Modes = {"agent", "web"}` | the receipt dialog keeps the device mode it found when the page opened |
| `MCOrderScreen_FailedPrintIsShown` | a failed ticket whose mark is lost looks printed |
| `ReleaseSaysWhatItPulls` in the `.cfg` above, `MaxCalls = 5`, `MaxInFlight = 2` | the release dialog names other tickets than it pulls |
| `ThePlanPaidFor` in `MCSubscription`, both plans priced | money for one plan activates another, after the operator changed it |
| `MCSubscription_ActiveGetsIn` | a late 402 closes the gate of an active tenant |
| `MCCommerce_NoLineIsStranded` | an order that arrives while its SKU is being mapped keeps an unmapped line |
| `RetriedOnVisit` in `MCCommerce`, `FairSpec`, no symmetry, 1 order, 1 SKU, 1 request, 1 invoice | nothing retries unbilled orders on the next visit, as the notice says |
| `NeverTwoInvoices` in `MCCommerce` | overlapping billings, or a death between two commits, bill an order twice |
| `NothingPaidIsOwedAgain`, `LedgerAgrees` in `MCProcurement` | cancelling a return makes a paid purchase owed again; after a cancellation the ledger page and the balance differ |
| `SuccessorSurvivesReplay` in `MCSession` | a replay ends a session that was since rotated again |
| `ChargedOnce` in `MCTill` | leaving the page renews the key while the cart stays: the same cart is charged twice |

`MCRestaurantKitchen.cfg` (two tickets, requests that name a line twice, no splitting:
`SentMatchesTickets`, `MergedOrdersAreHistory`) passes and is larger than the runs need.

Hazards seen while reading that no property states, or only in passing:

- Sales: a payment that names an invoice twice overpays it (`modules/payments/service.py:137`);
  a settled invoice takes another 0.01, and a cancelled one too, again and again (`:136`);
  a balance of 0.01 is forgiven while the ledger still claims it (`:185`) - the properties
  are stated with these in. The last unit is sold twice by
  concurrent checkouts or by two lines of one product (`sales/service.py:290`), which
  is why `StockIsNeverUnderstated` is an inequality; cancelling a return may take
  stock below zero (`:757`).
- Restaurant: a ticket request that names a line twice sends more than was ordered
  (`restaurant/service.py:672`); a line of a cancelled ticket cannot be removed on
  PostgreSQL (`:490`); a split order has sent lines and no ticket, so it can be
  cancelled (`:625`); order and ticket numbers race (`:104`); `quick_bill_table`
  leaves the items on the tab when billing is refused (`:884`); `bill_order` sends the
  price of every line and so needs the permission to override prices (`:931`); the order
  page bills without a key (`RestaurantOrderPage.tsx:444`) and charges what a stale
  screen never showed; a quantity is set from a stale view (`:339`); each added item
  is a row of its own while the cart addresses lines by product.
- Till: "Clear" keeps the key as well as the held bill, although `POSPage.tsx:77-80`
  says otherwise, so after a lost answer the next guest gets the old invoice; what is rung while a move, a hold or a checkout is pending is wiped
  (`:215`); a resumed bill held again is there twice.
- Session: refresh is not shared, so two 401s present one token twice and sign the
  account out everywhere (`api-client.ts:102`); a refresh answered after the next
  sign-in overwrites the newer tokens (`:84`); `modules/auth/service.py:396` reads and
  commits without a lock; a 402 of the last account closes the next one's gate
  (`subscriptionGateStore.ts:30`).
- Printing: kitchen tickets follow the device's mode only; each retry of the cashier
  draws a fresh id, so the agent cannot recognise it; `onclose` of an old socket clears
  the new one (`printAgentClient.ts:156`); pairing compares two clocks (`:101`).
- Procurement: a payment that names purchases looks at no status and pays a cancelled
  one (`vendor_payments_service.py:92-113`); paying 0.01 less settles the purchase and not
  the balance (`:158`), paying 0.01 more takes the ledger below zero (`:138`); no idempotency key (`features/procurement/api.ts:214`); `cancel` subtracts
  the full quantity although some was sent back (`purchases_service.py:311`); balances
  are floored at zero (`:335`).
- Commerce: once an order exists, later webhooks of it, also its cancellation, are
  ignored; a retry can bill a cancelled order.
- Subscription: a failed attempt reported late can overwrite a paid order with "failed"
  while both transactions are open (`subscription_billing/service.py:146`); a lost
  answer of verify says that the payment failed, and the tenant pays again.

## 4. What is proved

Every theorem is for any number of rows, requests and screens, any prices, carts,
keys and plans, from the named assumption of the module only. Each safety property
of the passing runs is stated by a theorem, so TLC's part is to find mistakes early and
to check liveness.

The assumptions say that bounds are numbers, that the "none" values are none of the
rows, and that tables which are summed (`Invoices`, `Returns`, `Purchases`, `Items`,
`Kots`) are finite, as a database's are. None restricts what the code does. Three
theorems have a hypothesis of their own, which says when the code keeps the promise:
`KeylessBillsCharge` (bills carry no key, as on the page of an order),
`TicketsNameRealLines` (foreign keys are enforced), `SentIsOnTickets` (the plan has no
table splitting). `PayablesReconcile` and `LedgerAgreesUntilCancelled` speak of the
vendors who are paid from the dialog, which names no purchases.

**`SumLemmas`**. Stock, ledgers and balances are sums over sets of any size
(`SumFunction`, a recursion over the set). `AddsExists` and `AddsAgree` show that the
recursion has exactly one solution, by `SubsetInduction` (a smallest counterexample, from
the well-foundedness of set inclusion); an induction is stated with the *set* of the
subsets that have a property, since the provers take no predicate. From that:
`SumUpdate` (one term changes), `SumSame`, `SumPlus`, `SumAtMost`, `SumNat`,
`SumOfSome` (a sum over part of a set is one over the set, with noughts), `SumByGroup`
and `SumSwap` (grouping, exchanging two sums) and `SumInjected`. The proofs below keep
every sum over a fixed domain, so that a step changes one term or none.

**`SalesProofs`** (`SalesAssumption`). `TypeCorrect`; `InvoicesConsistent`
(`CancelledIsClosed`, `ReturnsAccountedFor`); `AmountsConsistent` (`AmountsAgree`);
`CancellationIsFinal` (`CancelledIsFinal`); `StockIsDocumented`
(`StockReconciles`); `LedgerNeverOverclaims` (`LedgerWithinOutstanding`). `IInv` is
stated invoice by invoice: `Amounts`, `Closed` and `Accounted` are the checked
invariants, `WellFormed` adds that an unused id has no returns and an issued invoice at
least one unit. None is inductive alone: that a voided invoice has no standing returns
follows, when voiding, from its status and so from `Accounted`; that `cancel_return`
never touches a voided invoice follows from `Closed`. `returned_quantity` is compared
with a cardinality, so a return adds a block of units. `StockInv` adds the stock,
product by product: what a sale or a return moves is what its row contributes to the
sum from then on. `LedgerInv` adds, invoice by invoice (`Funded`), that what was taken
off its outstanding amount is covered by what payments allocated to it, its standing
returns refunded, and one tolerance for each of its allocations, the most that one can
have forgiven. A payment that names an invoice twice, or one that owes nothing, only
takes off less than it allocates. Summed over the invoices of a customer it gives the
ledger, and the number of allocations is in the bound: forgiven hundredths add up.

**`ProcurementProofs`** (`ProcurementAssumption`). `TypeCorrect`; `ReturnsFit`
(`ReturnsFitThePurchase`); `CancellationIsFinal` (`CancelledIsOver`);
`StockIsDocumented` (`StockReconciles`); `DebtsAreCovered` (`PayablesReconcile`);
`LedgersAgree` (`LedgerAgreesUntilCancelled`); `LedgerNeverExceeds`
(`LedgerWithinBalance`). `Kept` says what a call under way may
hold and, purchase by purchase, that `returned` is the sum of the completed returns and
no more than was bought: a press of a stale dialog is harmless because the backend
looks again. `StockInv` and `BalanceInv` add the stock and the balances; every
operation that moves money is one of five effects (`Entered`, `Withdrawn`, `SentOff`,
`TakenIn`, `Settled`), each with one lemma on what it does to the sums. `BalanceInv`
needs `PaidOnTheSpot`, that a purchase paid at once owes nothing until a return of it is
taken back: the ledger page already leaves out what was paid at once, so a payment must
not fall on such a purchase too. The upper bounds of both properties have
room for one tolerance per payment. A payment that names purchases can break them at
will, since it takes from the balance what it does not take from a purchase; what is left is one-sided and has no
hypothesis: `ClaimInv`, that a vendor's balance is never below what its received
purchases claim, less what was forgone by returns and what was paid.

**`RestaurantProofs`**, tables to tickets (`RestaurantAssumption`). `OneTabPerTable`,
`FloorBoardTellsTheTruth`, `KitchenCooksForATab`, `MergesLeaveHistory`,
`ClosedIsFrozen`, `RestaurantTypeCorrect`, `TicketsNameRealLines` where foreign keys
are enforced, and `SentIsOnTickets` where tabs are not split.
`RestaurantInv` is built in layers. `FloorInv` speaks of tables and orders only:
`Synced` shows that `SyncTables` restores the board when it is called for every table
whose orders changed, and each action is an `OpensOrder`, a `ClosesOrders` or a
transfer. `LinesInv` and `TicketsInv` add lines and tickets: new lines take rows
no ticket names, deleted ones are not named (the foreign key), merges move both.
`MergedOrdersAreHistory` is preserved because an order merged into is open, so a
circle would need a merged order that is not. `RowsInv` types the columns and says that
a line still there is on the order of every ticket that names it, with or without
foreign keys. From it follows, without splitting, that the sent quantity of a line is
the sum over the tickets that count: firing raises both, cancelling lowers both, and
every other step leaves both (`SumsGrow`, `SumsShrink`, `SumsStay`).

**`RestaurantProofs`**, the screens (`OrderScreenAssumption`). `ScreensUseTheService`:
`OrderScreen` implements `Restaurant`, step by step, so its theorems hold of the
screens. `ScreenTypeCorrect`; `PrintsAreOnPaper` (`CountedPrintsAreOnPaper`);
`NoFoodTwice` (`FoodFiredOnce`); `DiscardedKnowingly` (`TabsAreDiscardedKnowingly`).
`ScreenInv` adds three parts to `RestaurantInv`. `FoodInv`: no line has sent more than
ordered, and the tickets not cancelled hold no more than the lines have sent; not as
much, since cancelling a ticket does not lower a line that a split moved away. Firing adds the same amount
to both sums, which is where `SumSwap` and `SumInjected` come in. `PressInv`: a press
under way names rows that exist. `PrintInv`: the marks under way for a ticket and the
prints counted are together no more than its paper.

**`BillingProofs`**, `create_invoice` (`CheckoutAssumption`). `CheckoutTypeCorrect`;
`CheckoutImplements`: `Checkout` implements `IdempotentCheckout`; `KeyIsChargedOnce`;
`StockOnlyTooHigh` (`StockIsNeverUnderstated`).
`Running` ties what a client got to the statement its request is at; `Exclusive` says
that a request past its insert is the only one with its key in a transaction or
committed. The insert, which waits for whoever holds the key, establishes it. The
stock's `StockInv` speaks of what is *about* to be written: a row is never below the
opening stock less the committed sales (`Floor`), and neither is the uncommitted
value of a transaction, nor what it has read, once its own lines are counted. A commit
that overwrites another's loses a subtraction, which only raises the row.

**`BillingProofs`**, tabs. `BillingTypeCorrect`; `BilledOrdersAreInvoiced`
(`BilledOrderHasItsInvoice`: the order carries an invoice of its own or one of the
checkout whose key its bill repeated); `SoldOrdersAreClosed` (`SoldOrderIsClosed`: a
charged order is closed, is about to be, or its server died); `KeylessBillsCharge`
(`EveryBilledOrderIsCharged`, which TLC refutes when a key is repeated). `Held` says what a bill holds at each stage, `InvoiceInHand` that a bill
about to close has the committed invoice it was answered with.

**`TillProofs`**, the till (`TillAssumption`). `TillTypeCorrect`; `SaleIsInvoicedOnce`
(`OneInvoicePerSale`); `FailedCheckoutsDeleteNothing` (`HeldBillsOutliveFailures`);
`CartReachesItsTable` (`CarriedLinesReachTheTable`). `TillInv` has four parts.
`TillShape`: requests name orders and held bills that exist. `OneKey`: everything
stamped with a key, request or invoice, carries the same key if it is of one sale and
visit, and the page's own key if it is of the present ones; the backend answers a key
it has seen with the invoice it has, so no key has two. `HeldInv`: a deletion on its
way for a checkout, not by hand, is for a key that is charged; it is what makes
`HeldBillsOutliveFailures` inductive; whose sale that is, nothing ensures (`HeldBillsAreSold`). `CarryInv`: the cart in a request to move it holds
every line but those marked late, and once answered those lines are on the table;
while a table is shown the local cart is empty, and one transfer at a time is under
way. The page's steps are proved first (`PageKeepsInv`), from what any of them leaves
of the requests in flight and the one it may send; then the backend's
(`BackendKeepsInv`).

**`TillProofs`**, printing (`AgentAssumption`, `PrintingAssumption`). `PrintingTypeCorrect`;
`PrintedOnce` (`NeverASecondPrint`); `DoneMeansPaper` (`DoneIsOnPaper`). `JobOK` says
that a job being printed is not on paper yet, and one whose bytes are out is there
once: a status of the job table alone cannot say it, since a failed or cancelled job
may be on paper. `CallOK` says that the job id of a print the agent has not seen is
unused, so only a fresh id starts a job. A crash between
bytes and record is covered by `Recovered`, which never records a job as completed.

**`AccessProofs`**, the session (`SessionAssumption`). `SessionTypeCorrect`;
`RetriedIsNotRepeated`: a request refreshed and sent again was not executed before;
`ReplayIsFinal`: after a token is presented twice, every pair issued up to then stays
dead. `Grows` (no pair disappears, a revoked one stays revoked) carries the second.

**`AccessProofs`**, the subscription. `SubscriptionTypeCorrect`; `NobodyRidesFree`. The
invariant is about what a transaction is *about to* write (`TransactionOK`): it pays
only an order whose money was taken, and activates only if it pays or is the
operator's, so that its late commit is harmless over any row.

**`CommerceProofs`**. `CommerceTypeCorrect`; `OrdersBilledOnce`
(`BilledOnceUnlessRaced`); `UnbilledIsExplained` (`UnbilledSaysWhy`); `BilledIsFinal`
(`BilledStaysBilled`). `JobsOK` says which stage holds what, `OrderOK` that an order
nobody raced for has at most the invoice that its row names or its one biller holds.

Only model-checked: liveness (`EveryRequestEnds`, `BillsAreFinished`,
`EveryPrintEnds`, `CapturedIsHonoured`, `BlockedStaysAtTheGate`), which needs
fairness and ENABLED, out of the prover's reach. No module uses RECURSIVE
operators.

## 5. Not modelled

- Read-only components (analytics, search, reports, dashboards), single-row master
  data (catalog, customers, settings, floors, promotion, the operator's console
  except subscriptions), append-only logs and notifications: nothing there takes
  two steps to go wrong.
- Presentation: most of the two web applications is layout, forms, tables and the
  composition of receipts (`escpos.ts`, receipt PDFs, the invoice designer). The map
  therefore covers a small share of the TypeScript lines: it names the hooks,
  handlers and stores that decide something, not the markup around them. The control
  of the system is mostly in the Python backend, and that is where most of the map
  points.
- Within modelled components: prices, discounts, taxes and rounding; requests with
  amounts below a hundredth, which the API accepts and the columns round; the average
  cost price and several lines on one purchase; registration, verification codes and
  staff accounts; wire protocols of network, USB and Bluetooth printers; the platform
  adapters of commerce, which are stubs; reminders and mail.
- Concurrency not taken apart: the two commits of `change_password`, whose refusal of a
  wrong current password is left out too; a payment and a return of one invoice at once (both
  write absolute amounts, `modules/payments/service.py:184`), the monthly invoice limit
  (`modules/sales/service.py:263`, the same look-then-insert as the stock check), two
  procurement transactions at once.
- Type invariants of most modules are not repeated in a run, since a theorem proves
  them for every size; add them to the `.cfg` to check them.

What would come next: the lost updates of the money columns as a statement-level
module beside `Checkout`, and a statement-level `Procurement`.
