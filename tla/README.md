# esim-backend: a TLA+ model of its money, its eSIMs and its accounts

This directory models the parts of the NestJS backend (`src/src`) whose
correctness depends on the order in which requests, payment callbacks, supplier
webhooks, admins and cron jobs touch the same database rows: the eXu wallet and
its ledger, checkouts and the life of an order, the delivery of eSIMs from four
suppliers and from the local stock, top-ups and payment links, accounts with
their sessions and one-time codes, and the prices of the catalogue. TLC checks
small instances; TLAPS proves every safety property that these runs pass, for any
number of users, orders, documents, handlers and polls. Liveness stays with TLC.

## 1. The system

A shop for travel eSIMs. A buyer checks out a cart, pays at OnePay (cash) and/or
with eXu (credit in a wallet of the shop), the suppliers deliver eSIM profiles,
the buyer gets cashback in eXu, the referrer of the buyer a reward. Admins
refund orders, adjust wallets, import stock and enter margins. State is in
PostgreSQL through TypeORM; the server is one Node process or several, so any two
requests interleave between any two awaited statements. The database runs at its
default READ COMMITTED and no statement of the code takes a lock when it reads.

| component | state | operations | who calls it | module |
|---|---|---|---|---|
| wallet and ledger (`wallets/`) | `user_wallet`, `wallet_transaction` (unique `idempotencyKey`) | createTransaction, adminAdjust, cancelBalance, updateStatus, nightly `expireWallets` | orders, admins, cron | WalletLedger |
| holds and referrals (`wallets/`) | `wallet_hold`, `order_referral` (each unique by order) | createHold, capture, release, `expireHolds`, createOrderReferral, complete / reverse | orders, cron | OrderLifecycle, Checkout |
| orders (`orders/`) | `order`, `order_item`, `order_refund` | pricing, createPendingOrder, finalizePaidOrder, submitProviders, cancelOrder, refundOrder, `failExpiredPendingOrders` | payment, buyers, admins, cron | OrderLifecycle, Checkout, and the suppliers' branches below |
| coupons (`coupons/`) | `coupon.usageCount` | validate, apply, release | orders | Checkout, OrderLifecycle |
| payment (`payment/`) | none | createCheckout, handleIpn (OnePay repeats it until acknowledged) | buyers, OnePay | OrderLifecycle, PaymentDesk |
| top-ups (`topup/`) | orders with prefix TOPUP- | checkout, executeTopup, markManualIntervention | buyers, OnePay | PaymentDesk |
| custom payment links | `custom_payment_link` | create, finalizeFromIpn, edit, remove | admins, OnePay | PaymentDesk |
| JapanTravelSim sync | `order_item.orderRequestId`, `esim` | submission, timer poll, cron poll | orders, cron | JtsFulfilment |
| webhooks and the other suppliers (`webhooks/`, `esim-providers/`) | the same rows | submission, webhook, cancellation, usage poll | orders, suppliers | ProviderDelivery |
| eSIM inventory (`esims/`) | `esim` (unique `iccid`, soft-deleted) | import, allocation, recall, clean-up, restore | admins, orders, cron | LocalInventory |
| accounts (`auth/`, `users/`, `session/`) | `user`, `session.hash`, `otp` | register, confirm, profile, password, login, refresh, logout, codes | users | Accounts |
| catalogue (`plans/`, `profit-margins/`) | `plan`, `profit_margin_tier` | synchronisation, imports, entered plans and prices, recalculation, VND prices, cheapest marks, tiers | crons, admins | PlanPrices |
| chat, carts, invoices, overview, mail, content | single rows | CRUD, reports, I/O | users, admins | none, see section 5 |

How they interact: `payment` calls `orders`, `topup` and the links by the prefix
of the callback's reference; `orders` calls wallets, coupons and the suppliers'
clients, one after the other and outside a transaction; the suppliers answer
through `webhooks` (or are polled), which complete order items and write eSIM
rows; refunds and cancels walk the same rows backwards; crons select ids and act
on them later. All of it meets in the database rows, nothing else is shared.

What is hard about it:

* **Interleavings without locks.** `OrderRepository.update`, `UsersService.update`,
  the plan's and the eSIM's repositories find a row, merge a payload and save the
  entity. TypeORM's `save` writes the columns that differ, so it can put stale
  columns back. Balances, free eXu, coupon uses, live referrals and available
  eSIMs are read, judged and used later.
* **Unreliable callbacks.** OnePay and the suppliers may deliver a call several
  times, at the same time, or before the row it refers to was saved; answers of
  suppliers get lost.
* **Partial failure.** Each handler is a chain of statements outside a
  transaction (except `createTransaction`, `captureHoldForOrder` and
  `createHold`). A process that stops leaves a prefix of it; repeated callbacks
  of an order that is not pending do nothing.
* **Crons** that act on ids they selected earlier, and overlap each other.

What makes it correct: money moves once per cause and the ledger explains every
balance; a failed order moved nothing, a paid one gets all of its benefits, a
refunded one gives them back; an eSIM goes to one buyer, its own; what was
reserved, accepted or paid ends; a request about one thing does not undo another;
a buyer pays the price with its margin.

## 2. The modules

A model keeps every statement that reads or writes a shared row, in the order of the
code, as an action. Variables called history (`raced`, `crossed`, `hurt`, `late`,
...) record that something overlapped or failed; no guard or effect depends on them,
except bounds (of faults, edits); they let a property say exactly under which
interleavings the code keeps its promise. Operators whose comment starts with
"Mutant" are variants of the definition after them, each a plausible bug. No
specification uses them; the runs find each one when it takes the place of the
original.

### WalletLedger (with WalletLedgerProofs, MCWalletLedger)

`createTransactionWithManager` statement by statement: `CheckKey` (the key is
looked up), `ReadWallet`, `CreateWallet` (the INSERT that waits for, and fails
after, a concurrent one), `SaveWallet` (UPDATE: takes the row lock),
`InsertRow` (the ledger row and the COMMIT). `ent[p]` is the entity the call
holds, `lock[u]` the transaction that wrote the wallet row and has not ended.
The callers are actions that start such a transaction: `Post` for the order
flows and the admin, `CancelBalance`, `ListExpired` and `ExpireNext` for the
nightly job; `ReadForStatus` and `SaveStatus` are `updateWalletStatus`, which
saves a row it read earlier. `Abort` is any failure, with its rollback. In the
code one `save` may write a stale column or keep the current one, depending on
when its re-read happens: `\E base \in {ent[p], current}`.

The variables `stale`, `lost` and `overwritten` are history: they say that a
writer of the wallet overlapped another one, and appear in properties only.

### OrderLifecycle (with OrderLifecycleProofs, MCOrderLifecycle)

Checkout, the IPN, `finalizePaidOrder` with the benefits, `cancelOrder`,
`failExpiredPendingOrders`, `expireHolds` and `refundOrder`, one action per
statement that reads or writes a shared row. A slot `p` is a handler: `pc[p]` its
place, `job[p]` its order, `seen[p]` the order row it read and still trusts. `Bases`
are the rows `OrderRepository.update` may write its payload on. The ledger is the
set of its keys (`posted`): that a key is redeemed once and atomically is what
WalletLedger shows; `Post` lets the unique index fail the second of two handlers
that both missed the key. An order with nothing left to pay in money (`PaidAtOnce`:
all of it in eXu, or made free by its codes) is finalized by `Offer` itself; one
made free by its codes has no cashback and nothing to refund (`Value`). `payment[o]`
is what OnePay knows, `age[o]` the 30 minutes of the order and of its hold,
`delivered[o]` how often the goods were ordered from the suppliers.

| handler | actions |
|---|---|
| createCheckout, createPendingOrder | CreateOrder, CreateReferral, CreateHold, Offer |
| OnePay | Pay, Ipn (any number of times) |
| finalizePaidOrder, completePaidOrderBenefits | MarkRead, MarkWrite, CaptureRead, CaptureSave, Cashback, CashbackId, RewardRead, Reward, RewardSave, Submit, ApplyCoupon |
| cancelOrder | Cancel, CancelRead, FailRead, FailWrite, ReleaseRead, ReleaseSave, ReleaseCoupon, ReverseRead, ReverseSave |
| failExpiredPendingOrders | SelectExpired, FailExpired, FailNext, then as cancelOrder without coupon |
| expireHolds | ExpireHolds |
| refundOrder | Refund, Recall, RefundRow, ReverseCashback, ReverseCashbackId, RefundReferral, ReverseReward, RefundReferralSave, GiveBack, CreditCash, Refunded |
| failures | Stop (an exception or the process), Skip (an error caught step by step), Conflict (unique index) |

### JtsFulfilment (with MCJtsFulfilment; proofs at the end of ProviderDeliveryProofs)

How a paid JapanTravelSim item becomes an eSIM and an e-mail. `Submit`,
`SaveRequest`, `Schedule` and `GiveUp` are the supplier's branch of
`submitProviders`; `TimerFires` is the `setTimeout` of
`scheduleCallbackAfterSubmit`, `Tick` the 30-second cron. Both start a poll, a
process of its own: `AskResults` (one call of the callback API), `Take` (the next
result that has an iccid), `More` (the next batch), then `handleOrderComplete`
as `Look`, `Create`, `MailEsim`, `Complete`. `@Cron` does not wait for the last
tick, so `Ticks` may have several members. `esim[i]` is the row with the item's
iccid, which UNIQUE keeps single; `jts[i]` is what the supplier made of the
item. `RefundItems` is what a refund does to these rows, `Break` an exception that
leaves a poll, `Restart` the end of the process with its timers.

Taken as one batch: a submission of at most ten items. Buyers have an e-mail
address; for those without one `sendPurchaseEmail` says sent.

### OrderPromise (proofs in OrderLifecycleProofs)

What a buyer and the shop may rely on, without handlers: an order is settled
only by its buyer's payment, is failed or settled but never both, benefits and
goods go out once and only for settled orders, and the eXu reserved for an order
is debited or given free. `OrderLifecycle!KeepsPromise` is
`OrderPromise!Spec` under the mapping stage = `order.status`, bought = paid at
OnePay, reserve = `hold` with released and expired as "free", effects =
`posted`, sent = `delivered`.

### Checkout (with CheckoutProofs, MCCheckout)

What several orders do to each other. `Price` is `calculateOrderPricing` with
`validateCoupon` and `validateReferralForOrder`; `CouponDiscount`, `AfterCodes`,
`WalletSpent`, `Payable` and `Cashback` are its arithmetic, in VND with its rounding
to thousands; `UsesOf` is what `validateCoupon` counts for a user: orders in status
`paid`. `createPendingOrder` is CreateOrder, CreateReferral, ReadBalance, ReadHolds,
SaveHold, CreateItem (one step per unit), Offer; then `Ipn`, `MarkPaid`, `Capture`,
`Benefits`, `Count`, or `Cancel`, `FailExpired`, `ExpireHolds`. `Refund` is
`refundOrder` as far as other orders feel it: it takes the cashback and a credited
reward back, gives eXu back, reverses the referral and takes the order out of
`paid`, which frees the use of the coupon for its user. `AdjustWallet` is
`adminAdjustWallet`, `cancelWalletBalance` and the nightly `expireWallets`: all
lower a balance without a look at the holds, as a refund does. `UpdateWalletStatus`
is an admin at the status. What OrderLifecycle splits into statements of one order
(capture, benefits, release) is one step here; what OrderLifecycle takes as given
(the validations, the sum of the holds, the items) is split here. `Stop` ends a
checkout or a callback anywhere.

### PaymentDesk (with PaymentDeskProofs, MCPaymentDesk)

The callbacks that have a prefix. `Ipn` reads the document and decides, `Write`
is the save of the outcome (`WriteGone` when the link was removed meanwhile);
a top-up goes on in the background as `Execute`, `Submit` (the call of the
provider; its answer may be lost after it applied the top-up), `Complete` or
`Manual`. `pc[d][c]` is one of two calls under way for a document. `closer[t]` is
a cancel, the expiry cron or a refund between its read and its write; `Edit` is
an admin's update or removal of a link. `Stop` ends a call after its
acknowledgement.

### ProviderDelivery (with ProviderDeliveryProofs, MCProviderDelivery)

How Airalo, eSIM Access and Gadget Korea deliver. `Ask`, `Save`, `SaveFails`,
`NextProvider` are the loops of `submitProviders`: Airalo is asked item by item,
eSIM Access once for all items of an order, Gadget Korea once per unit; a request
id is saved after the answer. `Deliver` is the webhook call (the supplier repeats
it), then `CompleteItem`, `List` (the eSIMs of the supplier's order), `Find`
(which item of the order fits the eSIM's package; is the iccid there), `Upsert`,
`Mail`; the slots' records `href`, `hitems`, `hleft`, `hgiven`, `hcur` are the
handler's local variables. The handlers complete the items before they write
eSIMs. `Refund`, `CancelItem`, `MarkRefunded` are `refundOrder` on these rows;
`ReadUsage`, `SaveUsage` are `getDataUsage`, which writes back a row it read.

### LocalInventory (with LocalInventoryProofs, MCLocalInventory)

The stock that is sold without a supplier. `Import`, `Restore`, `Overwrite` and
`OverwriteFails` are the branches of the Excel import for one iccid; `Find`,
`Assign`, `Close`, `ItemFails`, `Mail` the local branch of `submitProviders`;
`Resend` the admin's e-mail; `Refund`, `RecallRead`, `RecallSave`, `RecallFails`,
`RecallGone` (the row was deleted meanwhile, and the update throws), `MarkRefunded`
the refund; a fault in `Mail` may come after some of the e-mails; `Clean` the
nightly soft deletion. `Stock` is `findAvailableByPlanId`: its filters on `userId`
and `orderItemId` are given as `undefined`, which TypeORM drops, so that only status
and plan select.

### Accounts (with AccountsProofs, MCAccounts)

One account. `proc[p]` is a request of AuthService: what it does (`op`), its
place, and the row it read. `UsersService.update` is Compare (the password that
was handed over is hashed unless it equals the current one), Find and Save;
`Meant` is what the request's own payload meant, as opposed to the row it hands
over: ConfirmEmail, ConfirmNewEmail, ResetPassword and a social login hand over
the whole row. `EndSessions` is `deleteByUserId`, `Open` the insert of a session,
`Refresh` the compare-and-set on `session.hash` and `Load` the read behind it.
SendOtp, Clear, CreateOtp, VerifyOtp, CountAttempt and Drop are the one-time
codes. A token is a session and the number of its hash; `held` is what the
client received.

### PlanPrices (with PlanPricesProofs, MCPlanPrices)

The catalogue of one provider and one group. `source` says where its plans come
from: the synchronisation (Airalo, eSIM Access), the JapanTravelSim sheet or the
Gadget Korea sheet. Each starts with `Fill` and goes through the list by ReadPlan /
SavePlan or CreatePlan (or UpsertFails); the imports take all plans off sale first
(`AllOff`), the synchronisation those it has not seen at the end (`Deactivate`;
`stale` of a row is the set of jobs that started after its last synchronisation,
`lastSyncedAt < syncStartedAt`). `Filled` is where they part: synchronisation and
JapanTravelSim go on to ReadTiers, Recalculate, UpdateVnd, ResetCheapest, Mark,
while Gadget Korea, which wrote price = cost, only marks and makes VND prices of
that. Nothing keeps two of them from working off their lists at a time, and the
model does not either. `Hourly` and `MarkCron` are the crons.

An admin enters plans (`Enter`, also a row of the plain Excel import, which
recalculates nothing), edits them (`Edit` reads, `SaveEdit` writes any of cost,
price, VND price and `isActive`, and puts the `isCheapest` back that was read), and
creates, updates and removes tiers; each of these validates first and recalculates
after. `PriceOf` and `VndOf` translate the CASE expression of
`recalculatePricesByTiers`: the tier is chosen by the cost in VND, a percentage is
added, or a fixed amount in VND divided by the rate (as integers when the rate is
whole); VND prices round to thousands. Money is in cents.

## 3. The runs

| run | instance | shows |
|---|---|---|
| wallet_ledger | 1 wallet that expires, 2 calls and the cron, a credit, a cashback and its reversal, 1 rollback, 2 rows, fairness | OneRowPerKey, BalanceIsLastRow, LedgerAddsUp, AuditTrail, ExpiredIsDrained |
| order_races | 1 order with eXu and a referral, 2 handlers and the cron, 1 fault, 1 refund | NoPaymentNoBenefit, RewardBeforeReversal |
| order_serial | 2 orders (eXu in part with a referral; free by its coupon), one handler at a time, 1 fault, 2 refunds each of nothing, a part or all | KeepsPromise (refinement), RestIsComplete |
| order_liveness | 1 order, 1 handler and the crons, 2 faults, fairness | LeftoversEnd, MoneyIsAnswered |
| cancel_paid | as small as shows it | PaidIsNotCancelled is violated, see Findings |
| jts_polls | 1 order of 2 items, its timer, 2 ticks, pages and batches of 1, 1 fault, fairness | OneMail, CompletedByMail, RequestsEnd |
| provider_delivery | 1 order of 2 items of one plan (both at eSIM Access, or at Airalo and Gadget Korea), 2 webhook calls at a time, 1 repeated, 1 fault, a refund, a usage poll, fairness | AcceptedIsCompleted, EsimsFindTheirBuyer, CompletedIsDelivered, RefundIsRecalled |
| local_inventory | 2 orders (one placed by an admin) for 1 and 2 eSIMs of a stock of 2, imports, refunds, clean-up, 1 fault, fairness | AvailableIsFree, SoldOnce, CompletedIsDelivered, RefundedIsNotSold, PaidIsServed |
| checkout | 1 buyer with 2 carts, no code, a coupon or a referral code each, a referrer; the coupon has one use in all and two for the user, or two in all and one for the user; 1 refund, debit, expiry or change of a wallet, 1 fault | HeldIsCovered, LimitsHold, OfferIsComplete, PaidIsDebited |
| payment_desk | 1 top-up, 1 link, 2 callbacks each at a time, 1 document hit by faults, 1 edited link, fairness | AppliedOnce, StatusTells, MoneySettles |
| accounts | 2 requests at a time, 4 in all, 2 sessions, 2 codes, 1 request that dies, 1 attempt | TypeOK, UpdatesSurvive, PasswordOwnsSessions, TokensRotate, CodesServeOnce |
| plan_prices | 2 plans of a synchronisation, a JapanTravelSim or a Gadget Korea sheet, 2 lists, a tier with a percentage and a fixed amount that may be entered twice or updated, 2 rates, 2 edits (off sale; on sale below cost), 2 jobs at a time, 3 in all, 1 that dies | TypeOK, MarginIsCharged, BuyersPayTheMargin, OneCheapest, OnSaleIsOffered |

The type invariant of every module is a theorem; those of Accounts and PlanPrices,
whose records have the most fields, are checked by TLC as well.

Why the bounds are enough:

* Wallets are independent but for the keys, so one wallet with three processes
  shows every overlap of two writers with the cron; two rows and one rollback
  reach the retry of a key after a failure, and a night that was cut short.
* Handlers of different orders share only what Checkout is about, so one order
  under two handlers and the cron shows the races of one order; a third handler
  repeats a race of two (and the safety properties of that run are proved for any
  number). The crons recover orders whatever else runs, so one handler that stops
  at any two places is enough for the liveness properties. A referral stays open
  for ever when its handler dies between two statements, so LeftoversEnd excepts
  behaviours with a fault there. Two refunds are the first that can add up to too
  much. A unit of eXu is enough for the sums, as only their comparison matters. No
  run has an order paid in eXu alone (`WalletOnly`): it takes the path of the free
  one, with a hold as the other has; the proofs cover it.
* Two checkouts of one user are the first that can hold one balance twice, be
  referred twice or pass a limit of one, in all or for each user, and the first
  whose refund can meet a hold; the funds cover either hold and not both. Prices are
  chosen so that every rounding and the minimum of the coupon occur. An admin's
  debit leaves less than the larger hold, a balance set to 0 less than either. One refund or debit is enough to
  lower a balance beside a hold; that further ones change nothing is proved.
* A JapanTravelSim item meets at most its timer and the ticks: two ticks and the
  timer are three polls of one item; two items in one answer let the poll of the
  timer lose the one it had not reached, and a page of one puts one item behind
  another.
* One order with two items of one plan is where an eSIM can be given to the wrong
  item; both shapes of a supplier's order (many items, one item) and both shapes
  of the handlers occur. Two slots and one repetition overlap a webhook with
  itself and with the save of its request id.
* Two orders and two eSIMs with quantities one and two make the stock too small
  for both and large enough for either.
* Top-ups and links share nothing, so one of each shows what can happen to it.
* Two requests are the least that race and four let a third and a fourth find
  what they left (a login after a password change beside a confirmation, a
  refresh after a lost answer).
* Two plans are the least that can both be cheapest; two jobs race, and a third
  reads what they left: two lists at a time and an edit, or an import and two crons.
  One range is enough for two tiers, as nothing keeps two admins from entering the
  same; an update that leaves the fixed amount out makes the percentage count, and
  one cost lies outside. Three jobs do not show a fourth, which is the weakest bound
  of the project; the proofs have no such bound.

Handlers are interchangeable where a run uses symmetry; runs with liveness do
without it.

Serial runs. With `Overlap = FALSE` one handler of OrderLifecycle runs at a time,
and may die half way. This answers a question of its own: whether the handlers, each
correct or cut short, compose to the promise. OrderPromise has no run of its own:
TLC checks and TLAPS proves that the handlers implement it (KeepsPromise), and the
three properties it states are proved of the handlers. With overlapping handlers the
promise does not hold; the observations below say where.

### Fairness

A handler that was started takes its next statement (the server awaits it), crons
fire on schedule and time passes. Nothing is assumed of buyers, admins or faults,
and a handler may stop at any statement while faults are left.

* OrderLifecycle, WalletLedger: weak fairness of `Statement(p)`, the crons, time.
  Nothing of OnePay.
* JtsFulfilment: the cron fires (`Tick`), a poll takes its next statement
  (`Step`), the supplier makes what it accepted (`Produce`). The last one is an
  assumption about the supplier: without it a full page of items that are never
  answered hides the items behind it for ever. Nothing is assumed of the timer,
  of e-mails or of submissions.
* PaymentDesk: OnePay repeats its callback until it is acknowledged (WF of `Ipn`
  per document), and a call goes on (`Work`).
* ProviderDelivery: `Progress`: submissions and handlers go on, and a supplier
  calls at least once for an order it made. No repetition is assumed.
* LocalInventory: a started submission or refund goes on (`Selling`, `Refunding`).
* Checkout, Accounts and PlanPrices state safety only.

### Findings

One run shows the code doing other than its own text says. `cancel_paid`:
`cancelOrder` saves `failed` over a row that became paid after its check,
against "only orders in PENDING status are cancellable".

### Observations

What the models make visible, stated where a property excepts a case by name:

* `reversePendingReferralForOrder` may reverse a referral that was credited after
  its check; a cancel takes a use off a coupon the order never counted in; two
  refunds may pass the check of the remaining amount on the same row.
* After a failed JapanTravelSim e-mail the cron finds the eSIM of the failed
  attempt and completes the item without e-mail; the eSIM of an item that was
  pending at the refund is created afterwards, as available. A submission whose
  answer is lost is not repeated, and its items are never polled.
* A payment later than the expiry of its order is acknowledged and delivers
  nothing; a hold that expired before the callback is not debited although the
  order counts its amount as paid; a handler that dies after `paid` is never
  continued; a refused refund has already told the suppliers to cancel.
* A webhook that overtakes the save of its request id leaves eSIMs without item
  and buyer, or an item pending (`early`); a webhook that overlaps itself stops
  at the iccid the other inserted (`crossed`); a refund beside a webhook, a
  submission or a usage poll leaves eSIMs available (`late`).
* Two submissions may find the same eSIM of the local stock (`raced`); an item
  for which the stock is too small stays pending and is never taken up again
  (`short`).
* Two checkouts of a user may hold one balance or be referred both (`exposed`,
  `again`); the coupon's limit is judged at checkout and counted at payment
  (`loose`).
* A refund, an admin's debit and the expiry of a wallet do not look at the holds of
  its user: they may leave less than the holds reserve, and the capture then makes
  the balance negative, as `createTransaction` has no lower bound (`exposed`).
* A refund takes the order out of the count of its user's uses of the coupon (and
  out of the user's paid orders and live referrals), so a buyer who was refunded may
  use the coupon or a referral code again; the use stays counted in the coupon's
  limit for all.
* A refund takes the cashback back whether or not it was credited yet.
* Two callbacks that read a top-up pending both ask the provider (`twice`); a
  crash after the acknowledgement leaves it paid and not executed (`hurt`).
* A request that hands over the whole user row undoes what changed since
  (`raced`), and an older password hash is then hashed as if it were a password.
* An update of a tier that leaves out the fixed amount stores 0, and one beside
  the tier's removal restores it.
* A plan that costs less than 500 VND may be rounded to a price of 0 VND for good
  (BuyersPayTheMargin asks for a price in VND from there on).
* A fixed margin at a whole exchange rate is cut to whole dollars (`cut`). Any job
  that makes VND prices beside a synchronisation or an import that has not made
  its prices yet (the hourly job, a change of tiers, another import) sells at cost
  (`beside`) until the next one.
* A Gadget Korea import leaves its plans on sale at cost, in dollars and in VND,
  until another job or a change of tiers recalculates them (`Unpriced`): its comment
  leaves that to a separate call.
* A new plan has a VND price of 0 until the prices are made; when the exchange
  rate does not answer at the end of a Gadget Korea import, it stays there until
  the hourly job.
* Two synchronisations or imports that work off different lists at a time may
  leave plans on sale that the later list lacks, or take off what it has (`list`
  in `crossed`).
* Prices an admin enters, and rows of the plain Excel import, carry no margin and
  last until the next recalculation (`own`).

## 4. The proofs

Every proof has the same shape: a strengthening of the property that TLC checked
first on the run's instance, one lemma per action or group of actions that it is
kept, and theorems that draw the properties from it. Most lemmas are of one kind:
what a step leaves alone, for every request or order but the one that moves.
Assumptions are those the modules name for their constants. They ask for types,
for sets that are finite where the code counts their members, and for marks
(`none`, `keep`, ...) that are not values themselves.

`WalletLedgerProofs` proves, for any sets of users, calls, keys and any bounds
(`ConstantsAssumption`), type correctness, OneRowPerKey, BalanceIsLastRow,
LedgerAddsUp and AuditTrail. None of them is inductive. `IInv` adds what the
transactions know: a slot that is at `insert` holds the lock of its wallet; the
entity it is about to commit has the balance of the wallet plus the amount unless
`stale` says that somebody committed in between; an entity read and not stale is
the committed wallet. One lemma per kind of statement (`WriterStep`,
`CommitStep`, `StatusStep`, `StatementStep`, `LockStep`), and `Split` says what
the commit of one wallet leaves alone.

`OrderLifecycleProofs` has two parts. The first proves, for any orders, any number
of handlers and any bounds, with overlap or without: type correctness,
NoPaymentNoBenefit and RewardBeforeReversal. The properties speak of ledger, rows
and payments; a handler acts on what it read before. So `IInv` says what a handler
may rely on at its place: a checkout is the only one of its order and its buyer
cannot have paid before it ends (`CheckoutIsAlone`); a handler that finalizes or
refunds works on an order its buyer paid, also when it still trusts an old row
(`WorkIsPaid`); a referral is credited, or about to be saved so, only with its
reward in the ledger (`RewardIsPosted`). One lemma per handler.

The second part is about serial handlers and has the hypothesis `Overlap = FALSE`
(with overlap its conclusions are false, as the observations say). `SerialInv`
relates the status, the hold, the referral and the ledger keys of each order
(`OrderOK`) and says what the one handler that runs finds at each of its places
(`PlaceOK`), also when it continues what an earlier one left half done.
`CompleteInv` adds, while nothing died, that an order nobody works on has all
effects of its status (`Complete`) and which of them the handler has done at its
place (`DoneAt`). RestIsComplete follows. `SerialKeepsPromise` is the refinement:
initial states map to initial states, and each statement maps to the step of
OrderPromise it performs (`MarkWrite` to the settlement, `CaptureSave` to the
debit, `Submit` to the delivery, ...) or changes nothing the promise speaks of
(`Stutters`); `SerialInv` supplies the guards of the abstract steps. The promise's
own properties (FailedMovedNothing, NothingForFree, DebitIsReservation) are proved
of the handlers; NothingForFree also with overlap.

`CheckoutProofs` proves, for any users, orders, prices, limits and discounts, type
correctness, OfferIsComplete, PaidIsDebited, LimitsHold and HeldIsCovered. `Staged`
says which rows are there at each place of a checkout, `Marked` that `paid` is set
by the payment and stays until a refund, `Reserved` that the hold of a payable order
is still held; `ReferralInv` and `CouponInv` add the checkout that was validated and
has not written yet: beside a live referral none is on its way, and an unsettled
order with the coupon has a use left, of the coupon and, until it is paid, of its
user; a refund only lowers what the user's paid orders count. For HeldIsCovered,
`CoverInv` says that the active holds of a user, with the one a checkout has judged
and not saved yet, are within the balance, unless the user is in `exposed`; every
step that lowers a balance beside a hold, be it a refund, an admin or the expiry,
puts the user there, as does a second `createHold` side by side or the capture of a
hold that had expired. The sum of the holds is a fold over a set, so it cannot be
handled by the library's induction: the lemmas on sums take a least counterexample
(the smallest size of a set for which the claim fails, by well-ordering) instead.

`PaymentDeskProofs` proves, for any documents, faults and edits, type correctness,
AppliedOnce and StatusTells. `Bounded` counts what was applied together with what
the calls under way may still apply; `Unexecuted` and `InStep` tie the place of a
call to the status.

`LocalInventoryProofs` proves, for any finite stock and any orders, type
correctness, AvailableIsFree, SoldOnce, RefundedIsNotSold and CompletedIsDelivered
(the last two are action properties). `RowAgrees` relates the columns of a row to
its holders; `InHandStays` says that what a submission or a refund has in hand is
still as it found it, unless the eSIM is in `raced`. For CompletedIsDelivered,
`Served` counts: a completed item of an undisturbed order has as many eSIMs as were
bought, one in work has them with what the submission still has in hand
(`Running` is that submission at its place), and any other lacked stock; `RowRests`
says that neither the clean-up nor an import takes away what was sold.

`ProviderDeliveryProofs` proves, for any orders, providers, quantities and calls,
type correctness, EsimsFindTheirBuyer, RefundIsRecalled and CompletedIsDelivered.
`HookInv` says that a call keeps to the eSIMs and items of its own supplier's
order at every place of the handler. `RecallInv` says which eSIMs and supplier
orders a refund that nothing crossed has still to mark or cancel. `DealInv` follows
the handler as it deals the eSIMs of one answer out to items of equal packages:
what an item has, what the handler has given in this call and what is left add up
to its quantity. It rests on `MadeAssumption`: a supplier makes as many eSIMs for
an item as were ordered. That is an assumption about the suppliers, as an answer
with fewer eSIMs completes the items all the same.

The same module ends with the proofs about JapanTravelSim, the fourth supplier. It
extends JtsFulfilment beside ProviderDelivery; the two share nothing, and the names
that would clash have the supplier's prefix (`JtsSpec`, `jtsEsim`, ...). They hold
for any orders, items, overlapping ticks and any number of faults and restarts:
type correctness, OneMail and CompletedByMail. Only the poll whose INSERT succeeded
is at `mail` for its item (`Mailer`), an eSIM never disappears, and without faults
every eSIM was mailed or has such a poll (`MailIsDue`). `QuietPoll` covers every
step that leaves eSIMs, items and e-mails alone.

`AccountsProofs` proves, for any finite set of requests at a time, any number of
them in all, any passwords, sessions and codes: type correctness, UpdatesSurvive,
PasswordOwnsSessions, TokensRotate and CodesServeOnce. `RowInv` says that a request
about to save hands over the row as it is and its own change, unless somebody saved
in between; `OwnerInv` that a request about to open a session holds the password of
the row, or its session is excused, and that a change of password has ended the
others before it saves; `TokenInv` that the current hash of a session, and those to
come, were never redeemed; `GuessInv` counts the guesses of a code with the requests
that read it and have not counted yet; `ServeInv` and `ClearInv` that a code that
was not read twice has one request that opens a session for it, and is gone before
that request does. The assumption keeps the marks of the model (`keep`, `code`,
`social`, ...) out of the passwords.

`PlanPricesProofs` proves, for any plans, lists of offers, ranges of tiers, rates
and jobs: type correctness, MarginIsCharged, BuyersPayTheMargin, OneCheapest and
OnSaleIsOffered, for any number of lists worked off at a time, any edits and all
three sources. `FillerInv` says that, unless two lists met, a synchronisation finds
current what it has written from its list, and of what was ever synchronised only
plans on its list; `BuyerInv` that a bare cost or a missing VND price has a job due
that will write it, unless an admin entered it or a Gadget Korea import wrote it;
`TierInv` that tiers, with the one a request has checked and not written, do not
overlap unless two requests crossed; `PriceInv` that every price that is neither raw
nor an admin's is the one of the formula for the current tiers at some rate. Lemmas
on the formula carry the arithmetic: which tier fits a cost and that only one does,
what rounding to cents and to thousands may add or lose (`RoundShift`), that a price
covers its cost (`PriceCovers`). The tier the code takes is the least one that fits,
found by well-ordering.

Only model-checked: the liveness properties (ExpiredIsDrained, LeftoversEnd,
MoneyIsAnswered, RequestsEnd, AcceptedIsCompleted, PaidIsServed, MoneySettles).
They rest on fairness and ENABLED, which are out of the prover's reach. And the
run `cancel_paid` shows a violation, which needs no proof.

## 5. Not modelled

* Chat, carts, invoices, overview, mail and the content modules are CRUD of
  single rows, read-only reports and I/O: they have no protocol between rows or
  processes. Together with controllers, DTOs, mappers, entities, migrations and
  the parsing of the suppliers' answers they are most of the code's lines, which
  is why the models cover about a tenth of them and cannot cover much more.
* `submitOrder` (`POST /orders/submit`). The handler's own
  `@Roles(user, admin)` (orders.controller.ts:57-59) opens it to every signed-in
  user: it creates a pending order, orders or assigns the goods and counts the
  coupon at once, and no step asks for a payment. NoPaymentNoBenefit speaks of the
  orders that come from the checkout. Its counterpart for admins,
  `submitManualOrder`, is in LocalInventory as an order without e-mail (`Muted`).
* In the modelled parts: an admin's direct edits of orders, users, coupons and
  eSIMs, `cleanupFailedOrders`, the webhooks that only log, the switch that
  deactivates a tier, the removal and restoring of a plan, an admin's edit of
  `lastSyncedAt`, the jobs of other providers (which make prices and VND prices of
  these plans too, as a change of tiers or the hourly job does here), the prices of
  local plans, the removal of an account, the referral profile and reports. The
  signatures of OnePay and of the webhooks are taken as checked. E-mails are events
  that succeed or fail.

`PROJECT.json` lists every component with its reason.

## 6. Plan

Done: the nine models above, and proofs of all safety and action properties that
their runs pass, with the refinement of OrderPromise by the serial handlers.

Next, in this order:

1. An admin's updates of orders and `cleanupFailedOrders` beside the handlers of
   OrderLifecycle, with their cases in its proofs.
2. A composition of Checkout's coupon with OrderLifecycle's statements.
3. An abstract specification of the delivery that JtsFulfilment, ProviderDelivery
   and LocalInventory all implement: an item gets its eSIMs once, and one mail each.
4. An abstract ledger that WalletLedger implements where nothing is `stale`.
