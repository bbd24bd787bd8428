# Aloha Shop: TLA+ models and proofs

Aloha Shop is a web shop on Node.js and MongoDB that sells the stock of a
point-of-sale system, KiotViet (KV). This directory holds TLA+ models of the
backend's core, the TLC configurations that check them, and theorems checked by
the TLA+ proof system. Paths are relative to the repository.

Run, in this directory:

    tlc -workers 2 -config MCOrderPaymentRaces.cfg MCOrderPayment.tla
    tlc -workers 2 -config MCBackOffice.cfg MCBackOffice.tla
    tlapm OrderPaymentProofs.tla

The other runs are listed under "Runs", the other modules with proofs under "Proofs".

## The system

The backend is one or more Node processes behind Express, with background
workers (the campaign worker's tick, the KiotQR reconciler, the wholesale sync)
in the same code. Everything durable lives in MongoDB, standalone, so **no
transactions**: an operation is a sequence of single-document updates, each
atomic and conditional on its filter, with awaits in between. KV and the bank
are reached over HTTP, can time out after having acted, and call back through
webhooks that are delivered at least once.

| Component | State | Operations | Talks to |
|---|---|---|---|
| Settlement (`backend/shopOrders/markPaid.ts`) | an order's `paymentStatus`, `paymentClaimId`, `kvInvoice*`, `stockApplied` | `markShopOrderPaid`, `expireUnpaidShopOrders` | KV invoices, stock, holds, promotions |
| Customer actions (`orderCustomerActionRoutes.ts`) | `expiresAt`, `paymentRenewCount` of the same order | renew payment, cancel | KV invoices, holds, promotions |
| Payment review (`paymentReview.ts`) | `paymentStatus`, alerts | `flagPaymentForReview` | the bank's webhook |
| KiotQR reconciler (`kvPaymentReconcile.ts`) | attempts per order | poll KV, settle | settlement |
| KV invoices (`shopInvoices/invoiceService.ts`, `kvPush.ts`) | invoices held by KV | ensure, collect, cancel | KV |
| Promotion redemptions (`shopPromotions/redemptionService.ts`) | redemptions; held and used counters and budgets of promotions, codes, customers | hold, use, release | checkout, settlement, cancellation |
| Flash-sale quotas (`shopCampaigns/flash`, `orderCampaign.ts`, `worker`) | counters per product and customer; `campaignHolds` of an order | hold, settle with markers, resume, reconcile, reclaim | checkout, redemptions, worker |
| Voucher wallet (`shopPromotions/wallet`) | one entry per voucher and account, claim slots | save, hold, use, release | checkout, redemptions |
| First-purchase claims (`claimService.ts`) | claims on an account and a phone, with leases | hold, consume, release | checkout, redemptions |
| Checkout (`orderCreateRoutes.ts`, `backorder.ts`) | the lease lock; new orders | price, reserve, insert, roll back | all of the above |
| Stock (`stockApply.ts`, `stockHold.ts`) | product stock per branch, soft holds | deduct, hold, extend, drop | settlement, checkout, KV's poller |
| Fulfilment (`completeDelivered.ts`, `completeReturned.ts`, `kvOrderMoneySync.ts`) | `orderStatus`, `deliveredAt` | deliver, return, sync money | stock, promotions, commissions |
| Wholesale sync (`wholesaleSync*.ts`) | `kvPushStatus`, leases of a worker and of an edit, revision | send an order to KV once, guard edits, queue again, reconcile an unknown result | KV orders and customers |
| Commissions (`billSettlement.ts`, `commission*.ts`) | rows, bills, accounts with a debt, ledger, one finance lock | lock a bill, pay it, cancel and claw back on a return, reconcile | fulfilment, staff |
| Cart (`shopCart/writes.ts`, `frontend/lib/cartSync.ts`) | the account's lines, revision and merge receipts; each browser's disk and tabs | merge a guest's cart, save, resolve a conflict | front end |
| Accounts (`shopAuth`) | refresh token families | rotate, revoke | front end |

What is hard here, and where the properties are aimed:

- **interleaving and stale reads**: two handlers read one order and both act;
  a handler acts on what it read before an await;
- **partial failure and crashes**: an operation of several writes stops in the
  middle, and nothing but the state it left tells the next one;
- **unknown outcomes**: a KV request that timed out may have taken effect;
- **time**: an order expires, or is renewed, while someone settles it;
- **counters at their limit**: promotions, codes, quotas, claim slots;
- **recovery**: campaign operations, commission bills, wholesale orders and cart
  merges are resumed by whoever comes next, from what the dead process wrote.

`PROJECT.json` lists each hazard at its line with the properties that cover it
or the reason none does yet.

## What is modelled

### PaymentLifecycle.tla: the promise

The abstract life of an order's payment. `status` is `paymentStatus`, `owner`
the call that last claimed the order, `settler` the call that settled it. A
call claims an order once, only from a claimable status; only the claim's owner
settles or rejects it; expiry, renewal and cancellation leave only unpaid or
expired orders; a short transfer may be noticed in any status.

### OrderPayment.tla: the handlers

The handlers that move a transfer order, one action between two awaits.

| State | Code |
|---|---|
| `order[o]` | the order document: `status` = paymentStatus, `stage` = orderStatus, `claim` = paymentClaimId, `paidBy` = confirmedBy, `tx` = sepayTransactionId, `inv`/`mode`/`voided` = kvInvoiceId / kvInvoiceMode / kvInvoiceCancelledAt, `applied` = stockApplied, `renews` = paymentRenewCount, `due` = expiresAt has passed |
| `holds[o]` | sets of stock holds with status held |
| `promo[o]` | the redemption of the order: none, held, used, released |
| `invoice[i]` | the invoice on KV, named after what created it |
| `pay`, `sweep`, `renew`, `cancel`, `review` | program counter and locals of each call |
| `crashes` | how many handlers died (bounded by `MaxCrashes`) |
| `deducted`, `broken` | history: who deducted an order's goods, which reviews overwrote a claim |

| Actions | Code |
|---|---|
| `PayRequest` ... `PayRedeem` | `markShopOrderPaid`: proof and first read, claim, KV invoice, saving it, stock, holds, settling, redemption |
| `PayFail` | its catch around the KV calls and the writing of the invoice |
| `SweepFind` ... `SweepReleasePromo` | `expireUnpaidShopOrders`: find a batch, cancel each invoice, update, release |
| `RenewRead` ... `RenewHold` | POST renew-payment |
| `CancelOrder` ... `CancelNote` | POST cancel (transfer orders) |
| `ReviewRead`, `ReviewWrite` | `flagPaymentForReview` with reason underpaid |
| `PayCrash`, `SweepCrash` | the process dies |
| `TimePasses`, `CustomerPays` | expiresAt passes; KV collects on a KiotQR invoice |

The callers of `markShopOrderPaid` differ in what they pass: the admin button
chooses `allowExpired`, the bank webhook and the KiotQR reconciler always pass
it, the webhook a transaction id, the reconciler the invoice it saw collected.
`PayRequest` takes these as parameters. Today's checkout writes review-first
orders (method Pending); the orders of this model are the transfer orders that
the code still settles, sweeps and renews.

Abstractions, and what they leave out:

- Amounts are gone: a transfer equals the total (settled) or is smaller
  (reviewed). Stock is who deducted it, and whether it fell short.
- An exception of the database inside a call is the same as a crash there: the
  order stays processing, as in the code. Only the write of the invoice is inside
  the try, and may fail the order (`PayWriteInvoice`). Calls whose failure the code
  swallows (`DropHolds`, `MovePromo`, `VoidInvoice`) may fail.
- A batch is every order found, not the first hundred. `updateMany` is one
  step per order, as MongoDB promises no more.
- KV refuses to collect on a cancelled invoice; a collection may fail before
  or after it took effect. These are assumptions about KV.
- The read of the transaction id belongs to the first read; the unique index
  decides again in the claim.
- `nowDate` is taken when a call begins, so a call remembers whether the order
  had run out then (`ranOut`). A call is taken to end before a renewed order
  runs out a second time (`TimePasses`).
- The sweep that the routes run before they act is one of `Sweeps`.

### PromotionLedger.tla: the promise

What a promotion's redemptions promise, without the counters that enforce it: a
redemption is held only while the promotion's uses and budget, its code's uses
and its buyer's share have room for it, and it is spent or given back once.

### PromotionHolds.tla: redemptions and their counters

Standalone MongoDB makes a hold a sequence of up to four writes: the buyer's
count, the promotion's counters, the code's counters, the redemption. The
module has a checkout hold the promotion on its goods and then the one on its
shipping, while handlers that settle, cancel or deliver move the redemptions.

| State | Code |
|---|---|
| `promo[p]` | heldCount, usedCount, budgetHeld, budgetUsed |
| `code[p]` | heldCount, usedCount of the promotion's code |
| `usage[<<p, b>>]` | `count` of the customer's usage document |
| `red[<<p, r>>]` | the redemption whose _id hashes promotion, buyer and idempotency key (a request `r` is a buyer and a key) |
| `order[c]` | which code the order has: `"web"`, `"kv"` once renamed |
| `hold[c]` | pc and locals of a checkout; `undo` is what a failed hold still has to give back |
| `move[w]` | pc and locals of `transitionHeldRedemptions`, called by an ending or by a checkout that rolls back |

| Actions | Code |
|---|---|
| `Lookup`, `ReserveUsage`, `HoldPromo`, `HoldCode`, `Insert`, `Undo` | `holdPromotion`; `Undo` is any of its three rollbacks |
| `Begin`, `Abort`, `Place`, `PushOrder`, `Fail` | the checkout around it: `holdOrderPromotions`, the insert of the order, the push to KV, `rollbackOrder` |
| `RenameRedemption`, `PatchOrder` | `pushCodOrReviewOrder` when KV gives the order a code |
| `EndingRead`, `EndingFind`, `ReleaseFind`, `Flip`, `MovePromo`, `MoveCode`, `MoveUsage` | `markRedemptionUsed` and `releasePromotionHold` |
| `CheckoutCrash`, `EndingCrash` | a handler dies |

Abstractions:

- A promotion without a limit or a budget is one whose limit is never reached;
  a negative or zero discount holds nothing and is left out.
- The staff may pause a promotion or withdraw a code: a conditional update may
  fail to match although there is room.
- A new order's code is new, so a reservation found by the lookup is another
  order's, and `reservationReplay` refuses it. A resend that finds the placed
  order is answered before it gets here.
- An ending may be called on any placed order, to spend or to release; which of
  them the payment status allows is OrderPayment's matter.
- The rows a `find` returns are read in one step and looped over in any order.
- The database does not fail; a release whose error the callers swallow is a
  handler that died. An order purged by the staff is not modelled.
- The claims, wallet entries and campaign holds that follow a transition are
  in VoucherRights and CampaignHolds.

### CampaignLedger.tla: the promise

An order takes its uses of products on offer and gifts when every counter has
room, and they are sold or given back once; a payment that comes after they were
given back sells them only if the products still have room. Such a late payment is
not held against the customer's limit (`late`): the code raises the customer's share
whatever it is, because the money is there.

Two things the code does not prevent are part of the promise's wording. An order whose
late payment is cut short, or overlaps with someone else settling the order, goes
`astray`; a counter that the reconciler lowers while a use of it is being sold is
`miscounted`. Of the counters of either nothing more is promised, of all others
everything is (`Reliable`).

### CampaignHolds.tla: quotas, operations and the worker

A checkout raises `held` in each of its counters, then saves the order. Whoever
ends the order writes an operation record together with the new state, applies
it to one counter after the other leaving a marker in each, and removes markers
and record. The worker resumes operations, settles orphans and lowers counters
that hold too much.

| State | Code |
|---|---|
| `counter[c]` | a document of the flash counters or of the customers' shares: held, sold, quota, `ops` = its markers |
| `order[o]` | `campaignHolds.state` and `.operation`, how the order stands, `needsReview`; `n` numbers its operations |
| `buy[o]` | locals of the checkout's `holdCampaignPlan` |
| `call[k]` | locals of `settleCampaignHolds` and of the reclaim of a late payment |
| `run[w]` | locals of `runHoldOperation` |
| `work[w]` | locals of the worker's tick, with what its queries returned |

| Actions | Code |
|---|---|
| `Start`, `Ensure`, `Take`, `Undo`, `Save`, `SaveFails` | taking the uses, giving them back when one is refused or the insert fails |
| `Request`, `CallBegin`, `CallReturns` | a payment or a cancellation that begins an operation |
| `Apply`, `ToCleanup`, `Pull`, `Unset` | the operation, step by step |
| `Flip`, `TakeBack`, `TakeBackUndo`, `Manual`, `TakeShare` | `reclaimAfterLatePayment` |
| `ResumeFind`, `Resume`, `OrphansFind`, `OrphanSettle` | resuming, and settling orders left held |
| `ReconcileFind`, `ReconcileAsk`, `ReconcileFix` | `reconcileFlashCounters`, whose two queries run at once |
| `BuyCrash`, `CallCrash`, `WorkerCrash` | the process dies |

The code waits two minutes before it takes an operation for dead and three before
it takes a counter for quiet, and enforces neither. Three assumptions say that the
waiting was long enough: `QuietCounters` (no checkout takes three minutes; it is part
of `ReconcileFind`), `OneTick` (the lease of the worker's lock outlives the tick, so
one worker ticks at a time) and `Timely` (only operations of dead processes are
resumed). `CalmSpec` has the last two.

What else can go wrong is in the model, and its cost is tracked by three history
variables, which no action reads:

| History | When |
|---|---|
| `torn` | orders of which a late payment died while it took their uses back, or was overlapped by another operation, such as the worker's orphan pass (`Torn`) |
| `stirred` | counters from which a use was taken, or on which an operation began, since the reconciler found them |
| `wrong` | those of them that the reconciler then lowered |

A counter is `Clean` if it is not wrong and no order of it is torn. The promises about
what was sold (`SoldOnce`, `Balanced`, the ledger) are claimed of clean counters and
are false of the others: a torn reclaim leaves some of the order's counters raised and
others not, the order may be sold all the same, and no document of the repository
speaks of it; the reconciler's race is the finding `campaign_reconcile`. That run takes a specification
in which every reclaim runs to its end alone (`WholeSpec`), so that the race is the only
thing that can break `NeverOversold`. `PutRight` is claimed of torn orders too: their
operations are finished, nobody keeps uses merely held, and no counter holds more than
the orders do. Amounts, prices, several campaigns on a product, and changes of a quota
by staff are left out.

### VoucherRights.tla: first purchases and the wallet

| State | Code |
|---|---|
| `claim[i]` | the claim on an account or a phone number: state, order, whether `leaseUntil` is ahead |
| `redemption[o]` | the order's redemption, as the quote reads it |
| `promo[p]` | `claimedCount` of a voucher and what is left of each mystery tier |
| `entry[<<p, a>>]` | the wallet entry of an account, with the order that holds it and the tier drawn |
| `order[o]` | how the order stands: open, paid, expired, cancelled |
| `buy[o]`, `save[k]` | locals of the checkout and of the save |
| `move[o]`, `back[o]` | locals of `transitionHeldRedemptions`, called by a payment or a failed checkout, and by a cancellation or the sweep: the two may run at once |
| `found`, `endings` | orders the sweep has found; cancellations and sweeps so far (bounded by `MaxEndings`) |
| `stripped` | history: orders whose rights a cancellation or the sweep began to give back |

| Actions | Code |
|---|---|
| `Start`, `QuoteOrders`, `QuoteConsumed`, `QuoteHeld`, `QuoteRedemption` | `checkIsNewWebBuyer`, four queries |
| `HoldConsumed`, `HoldHeld`, `HoldAccount`, `HoldPhone`, `RollbackAccount` | `holdFirstPurchaseClaims` |
| `Redeem`, `HoldVoucher`, `Insert` | the rest of the checkout |
| `Settle`, `Flip`, `MoveClaim`, `MoveVoucher`, `Record` | a payment: use what was held, consume the claims, record a first purchase; the middle three also for a checkout that failed |
| `Cancel`, `SweepFind`, `SweepExpire`, `BackFlip`, `BackClaim`, `BackVoucher` | a cancellation or the sweep, and what they give back; `SweepExpire` gives back although the order was settled after it was found |
| `Renew`, `Review` | an expired order is renewed; a transfer of too little makes an expired or cancelled one payable again |
| `SaveFind`, `SaveSlot`, `SaveDraw`, `SaveInsert`, `SaveOpen` | `insertWalletEntry`, `openSavedMystery` |
| `Lapse`, `BuyCrash`, `MoveCrash`, `BackCrash`, `SaveCrash` | the hour's lease ends; a process dies |

An end is not final in the code. Renewing (`orderCustomerActionRoutes.ts:162-194`)
holds the stock again and nothing else: neither the claims nor the redemption nor the
voucher, and the order keeps its discount. A review takes none of them again either, and
the order may be settled after it. And the sweep gives back by the codes it found (`markPaid.ts:390-392`), also
those of an order that was settled meanwhile. Such an order (`stripped`) then lives
beside another one with the same right or the same voucher: TLC finds it at once if
`OneFirstPurchase`, `VoucherSpentOnce` or the second half of `AllOrNothing` are stated of
all orders. They are stated of the orders that are not stripped (`Whole`); the rest is
the code as it is. `NotNewAgain`, and the half of `AllOrNothing` that says that an order
that ended keeps nothing, hold of all.

The limit of eight renewals is left out; so is a delivered order that comes back, whose
rights were used when it was delivered. A cancellation by staff and the return of an
order that was never delivered are `Cancel`. `Lapse` assumes that no checkout runs for
the hour of a lease. Which limits the redemption itself has is PromotionHolds' matter;
an update that finds nothing to match is a refusal with the same outcome whatever the
reason. Renaming the order's code and vouchers that staff change or withdraw are left out.

### CommissionBills.tla: bills, payments and clawbacks

Everything runs under one lock document that nobody steals; the state between
two sections is what a section that stopped after any of its writes left. Every
section begins with `recover` and reconciles all bills before and after its work.

| State | Code |
|---|---|
| `row[c]` | a commission row: status, `billingPeriod`, `paymentOperationId` |
| `bill[p]`, `order` | a period's bill and the order the bills were locked in: status, revision, a line per collaborator, the pending payment |
| `account[t]` | `commissionDebt` with the entries and payments already counted |
| `entry[c]`, `ledger`, `offsets` | the clawback of a row, their order, debt offsets |
| `section`, `req[k]` | the lock's owner and where it is; what each request has seen |

| Actions | Code |
|---|---|
| `Ask`, `Acquire`, `Busy`, `Break`, `Unlock` | `withCommissionFinanceLock`; a section stops, its lock stays or not, and staff remove it |
| `Recover`, `BillRows`, `LockBill`, `AddDebt`, `FlagEntry` | `recover`: clawbacks, then payments, then bills being locked |
| `PayRows`, `Settle`, `OffsetEntry`, `Recovered`, `CloseBill` | `finishPayment` |
| `Reconcile`, `Reconciles` | `reconcileAll` |
| `CreateBill`, `ConfirmPayment`, `CancelRow`, `Clawback`, `Refresh` | the sections' work |

A payment is of a whole bill: the option to pay a single collaborator of it
(`billSettlement.ts:204-205`) is left out. How a commission is earned, its hold
period, its fraud flags and its payout to a bank are left out, and so is a purge of billed rows by staff, which would make a
pending payment throw for good.

### WholesaleSync.tla: an order posted once

The order document is the outbox. A worker leases it, checks the buyer with KV,
compares the order with what it read in the update that starts the POST, and
posts it; a POST that was started is never repeated. Edits hold a lease of their
own. `sale` is the order, `buyer` the account, `wire` and `posts` the request on
its way and what KV made of it, `sync` and `edit` the workers' and the editors'
locals. The actions follow `syncWholesaleOrder` (`Tick`, `Claim`, `Check`,
`Lookup`, `ReadAgain`, `Send`, `Answer`, `NoAnswer`, `Stop`, `Fail`, `Expire`),
the guard (`EditStart`, `EditWrite`, `EditEnd`, `EditLapse`) and staff
(`StaffQueue`, `StaffReconcile`); `Arrives`, `BuyerChanges`, `Lapse` and `Die` are
the network, the account, time and crashes. Orders do not meet, so the module is about one;
it names the reasons for which an order stops or waits by one status each.

`Lapse` assumes that a worker prepares an order within its lease of ten minutes:
the update before the POST asks for the owner and the revision, not for the lease.
Under that assumption the two leases already keep every edit away, so the
comparison in that update never refuses: it is the second fence. Likewise no
section of CommissionBills ever throws, which is what `PaymentCanFinish` says.

### CartSync.tla: a cart on two tabs and a server

`tab` is the memory of each tab, `disk` the localStorage they share, `lock` the
Web Lock, `cart` the account's cart with its receipts, `handler` a request on the
server. The tab's actions follow `onShopUserChanged` (`Start`, `UserGone`,
`ClearLines`, `ClearIntent`, `ClearMeta`), `pullOrMerge` (`Locked`, `Fetch`,
`Merge`, `NoMerge`, `Merged`, `Remember`, `Replace`, `Forget`, `Edits`) and
`pushCartToServerNow` (`SaveStart`, `Save`, `Saved`, `SaveRefused`); the
server's `ReadCart` and `WriteCart` are `shopCart/writes.ts`. `RequestFails` and
`CloseTab` lose an answer or a tab while the server may still act.

A cart is the quantity of one product, and a customer only adds to it. The
receipts' window of thirty days is never reached.

Signing out may come at any time, with any tabs open. Each tab then clears the disk
for itself (`cartSync.ts:222-228`), and with a second tab open this goes wrong: one that
still has the account's cart in memory persists it after the metadata is gone, and the
next sign-in merges it once more. The history variable `crowded` says that a sign-out
met another open tab, or one that did not know of the session yet, or that a tab was
opened while another was still clearing. `NothingDoubled` is claimed of the behaviours
in which that has not happened, and is false of the others; `NoLostUpdate` is claimed of
all.

### MC modules

- `MCOrderPayment` declares the symmetry of orders and of calls; the run with
  liveness properties does not use it.
- `MCPromotionHolds`: `g` is a promotion on goods applied by a code, `s` one on
  shipping that a buyer may use once; `r1` and `r2` come from one buyer, `r3`
  from another.
- `MCCampaignHolds`: order `big` takes two uses of product `p` and two gifts, `o2` two
  of the three gifts, and `alone` the product and its share `s`. `Scenes` lets either
  `alone` or the other two come; `Asked` has `o2` only buy: nobody pays or cancels it and
  its checkout does not die.
- `MCVoucherRights`: `first` and `friend` ask for a first-purchase promotion
  with one phone number, `again` is a later order of the first buyer with the voucher of
  `first`. `MCTogether` names the requests that come in one behaviour: any two of the
  checkouts, or `again` and two saves.
- `MCBackOffice` puts three components that share nothing side by side;
  `part` says which of them a behaviour is about.

Some definitions are faulty variants of the one beside them, marked "Mutant";
no specification uses them. Each property has one that TLC finds it violated by.

## Runs

| Run (cfg) | Instance | What it shows |
|---|---|---|
| `order_settle` (MCOrderPaymentSettle) | 2 orders, 2 calls, 1 review, 1 bank transaction, 1 crash; 6.6 M states | `ClaimExclusive`, `DeductOnce`, `PaidIsBooked`, `OneOrderPerTx`, `ImplementsLifecycle` |
| `order_races` (MCOrderPaymentRaces) | 1 order, 1 call, sweep, renewal, cancellation, 1 crash, fair; 1.4 M | `TypeOK`, `ProcessingHasOwner`, `UsedPromoWasPaid`, `NoLateClaim`, `ImplementsLifecycle`, `ClaimResolves`, `ExpiryHappens` |
| `order_double_deduct` (MCOrderPaymentDoubleDeduct) | 1 order, 2 calls, 1 review | violation of `DeductAtMostOnce` |
| `order_sweep_promo` (MCOrderPaymentSweepPromo) | 1 order, 1 call, 1 sweep | violation of `PaidKeepsPromo` |
| `promo_races` (MCPromotionHoldsRaces) | 2 checkouts, 1 ending, 3 requests; one use of `s`, one of `g`'s code; 0.3 M | `Balanced`, `FailedHoldsNothing`, `ImplementsLedger` |
| `promo_crash` (MCPromotionHoldsCrash) | 2 checkouts, 2 endings, 2 buyers, a budget for one of two discounts, 1 crash; 2.0 M | `TypeOK`, `EndedHoldsNothing`, `CountersCover`, `ImplementsLedger` |
| `promo_rename` (MCPromotionHoldsRename) | 1 checkout, 1 ending | violation of `RenamedIsFound` |
| `promo_recovery` (MCPromotionHoldsRecovery) | 1 checkout, 1 ending, 1 crash | violation of `RecoversFromCrash` |
| `campaign_holds` (MCCampaignHolds) | 2 orders that want more gifts than there are, or 1 with a share, 2 calls, 1 worker, 1 crash, calm and fair; 1.2 M | `TypeOK`, `SoldOnce`, `Balanced`, `ImplementsCampaignLedger`, `PutRight` |
| `campaign_reconcile` (MCCampaignHoldsReconcile) | 2 orders for the last use of a product, 2 calls, 1 worker | violation of `NeverOversold` |
| `vouchers` (MCVoucherRights) | 2 of 3 checkouts, or 1 and 2 saves; 2 cancellations or sweeps, any number of renewals and reviews; 2 accounts, 1 phone, 1 mystery voucher with two tiers of one, 1 crash; 2.5 M | `TypeOK`, `OneFirstPurchase`, `AllOrNothing`, `NotNewAgain`, `VoucherSpentOnce`, `SavesCounted` |
| `back_office` (MCBackOffice) | commissions: 3 bills of one collaborator, 2 payments, 2 returns, the page, 1 section that stops; wholesale: 2 workers, 2 editors, 2 revisions, 1 death, fair; cart: 2 tabs, 2 handlers, 2 faults, 1 sign-out; 1.0 M | `BackOfficeTypeOK`; `MoneyBalances`, `PaymentCanFinish`, `DebtReservedOnce`, `ReturnSettled`; `PostedOnce`, `SentAsItStands`, `SendingEnds`; `NothingDoubled`, `NoLostUpdate` |

Why the bounds are enough. In all runs a call or request is used once, so the
system stops when they are spent: deadlock is not checked.

OrderPayment: every filter in the code names one order, except the unique index
on the transaction, which `order_settle` has two orders for. Two calls are what
one claim can be disputed by. One sweep runs any number of rounds; one renewal
brings an expired order back once, so a sweep or a call can hold a stale view of
it; one crash lets each handler stop at each of its steps.

PromotionHolds: a counter is shared by the checkouts of one promotion, and two
of them are enough to contend for its last use; each run has one kind of limit
bind (the code, the promotion's uses and the buyer's share in `promo_races`, the
budget in `promo_crash`). Two checkouts may carry one key, the race for the
unique _id. Two endings on one order are a payment and a cancellation at once; a
checkout's own release is a third mover.

CampaignHolds: two orders contend for a counter that has room for one and a half,
so one of several steps of a hold is refused. Two calls are a payment and a
cancellation, or a late payment after one. One crash leaves an operation, or a late
payment's reclaim, after any of its steps, and the worker, which ticks any number of
times, resumes the one and settles the other. The orphan pass overlaps with a reclaim,
and the reconciler with a sale, without any crash. The order with a share is alone
because what it adds is one more counter of another kind, which `TakeShare` raises.

VoucherRights: a right and a voucher are disputed by two orders at a time: one holds
it, loses its lease or has it given back, the other takes it, and the first is paid. An
account and a phone that two orders share are the two ways to be the same buyer. Two
endings are a sweep and a cancellation of one order, or one of each order; one that is
renewed may be swept again. The two saves are one request twice.

CommissionBills: the debt of the first bill is more than the second can take off,
so the third must take the rest. Every section recovers all that is left, so one
that stops leaves everything that any number would, one after the other.

WholesaleSync: two workers contend for a lease, two editors for the other;
two failed preparations stand for the five of the code.

CartSync: a lost answer and a closed tab are the two faults a merge can be sent
again after, and two tabs are what a revision can be borrowed between. A behaviour in
which a sign-out meets the second tab has no fault (`CrowdedFaults`): `NothingDoubled`
says nothing of it, and `NoLostUpdate` needs none to be tested there.

The theorems need none of these bounds.

Fairness. `order_races`: a handler that has started runs on (Node schedules its
continuations) and the worker calls the sweep again and again
(`campaignWorker.ts`), so each handler's steps are weakly fair. `campaign_holds`:
checkouts, calls, operations and the worker's ticks likewise (a crashed worker
starts again). `back_office`: a wholesale worker's timer ticks, its HTTP call has
a timeout, and a lease runs out. Nothing is assumed of customers, staff, banks,
KV, or crashes, nor of the requests of commissions and carts.

### Disagreements found

1. `order_double_deduct`: `flagPaymentForReview` reads the order, then writes
   underpaid with `{ _id }`. If a call has claimed the order in between, the
   order becomes claimable again and a second call deducts the goods again.
   `docs/MARK_PAID_CONCURRENCY.md` and the comment at `markPaid.ts:168` promise
   that only the winner of the claim reaches KV and the stock.
2. `order_sweep_promo`: the sweep releases the promotions of every order it
   found, though the comment at `markPaid.ts:372` limits it to the orders it
   moved. An order settled in between loses its promotion: released, so its
   call no longer marks it used.
3. `promo_rename`: when KV gives an order a code of its own, its redemptions are
   moved to that code before the order is. A cancellation or settlement that
   read the order in between looks for redemptions under the web code, finds
   none, and the order ends with its promotion held. The comment at
   `redemptionService.ts:315` has the rename exist so that they are found.
4. `promo_recovery`: the test AB19 (`tests/anti-abuse-ab-2.test.ts:43`) is named
   after a process that stops after any write and a restart that makes counters
   and redemptions agree. Its body stops nothing, and no code compares the two:
   a checkout that dies after it raised a counter leaves it raised. What does
   survive a crash is `CountersCover`: the error is on the safe side.
5. `campaign_reconcile`: the reconciler asks for the orders' holds and for the
   pending operations at the same time (`reconcileCounters.ts:93`). If the second
   answer is older than an operation and the first newer, the order being sold is
   in neither: its use is taken from the counter, not counted as sold, and sold
   again. `settleOperation.ts:29` says that the reconciler passes over counters
   with an operation, `flashCounters.ts:7` that `sold + held <= quota` always holds,
   `orderCampaign.ts:186` that nothing is sold beyond the quantity.

### Races outside the models

Met while reading the code; no document speaks of them, or they fall under an
assumption named above, so no run has them.

- Two workers at once (the tick's lock is a lease of 25 s).
- A process that dies between the hold of a wallet voucher and the insert of the
  order: the entry stays held.
- A purge of billed commission rows: the pending payment throws, and with it every
  later section. `clearCommissionFraudFlag` writes a row by _id outside the lock.
- A wholesale request that fails after staff settled the unknown result marks the
  order unknown again.
- A tab that dies during a merge leaves an intent that a tab with older lines takes
  up. A change made less than 700 ms before a tab is closed is not sent, and a
  conflict drops the tab's changes.
- A delivery that stops after `hoan_thanh`, before it deducts the stock, is
  skipped by the next poll; the money sync writes paid by _id over a claim.

Three more are in the models, where a history variable keeps what they spoil out of a
property that is false of it: a late payment's reclaim that dies or is overlapped
(`torn` in CampaignHolds), an order that is settled or renewed after its rights were
given back (`stripped` in VoucherRights), and a sign-out with two tabs (`crowded` in
CartSync).

## Proofs

The theorems hold for every value of the constants that meets the assumptions
named below. TLC evaluates the assumptions in every run and checks each property on
the bounds of one. `PROJECT.json` lists the theorems with the property each one states.

| Module | Proves |
|---|---|
| `OrderPaymentProofs` | `TypeCorrect`, `ClaimsExclude`, `HandlersImplementLifecycle`, `SettledOrdersBooked`, `ClaimsAreOwned`, `TransfersSettleOnce`, `PromosFollowPayment`, `GoodsLeaveOnce`, `ClaimsAreInTime` |
| `PromotionHoldsProofs` | `TypeCorrect`, `RedemptionsCovered`, `BooksBalance`, `FailuresHoldNothing`, `EndingsHoldNothing`, `HoldsImplementLedger` |
| `CampaignHoldsProofs` | `TypeCorrect`, `UsesSoldOnce`, `CountersBalance`, `LedgerImplemented` |
| `VoucherRightsProofs` | `TypeCorrect`, `RightGivenOnce`, `BuyersStayKnown`, `VouchersSpentOnce`, `ClaimsTogether`, `SavesStayCounted` |
| `CartSyncProofs` | `CartTypeCorrect`, `NothingAddedTwice`, `SavesLoseNothing` |
| `WholesaleSyncProofs` | `SyncTypeCorrect`, `NeverPostedTwice`, `NeverSentStale` |
| `CommissionBillsProofs` | `BillsTypeCorrect`, `ReturnsSettled`, `DebtsReservedOnce`, `PaymentsCanFinish`, `MoneyAlwaysBalances` |
| `Sums` | the lemmas about sums over finite sets on which the counters' proofs rest |

### OrderPayment

For any finite or infinite sets of orders, calls, sweeps, requests, reviews and
transactions, from `NoneAssumption` (null is no value), `DisjointAssumption`
(invoices of orders, calls and renewals differ) and `BoundAssumption`:

- `TypeCorrect`. `TypeOK` is not inductive: an action that indexes by a call's
  order needs it to have one. `Typed` adds `PayHasOrder`.
- `ClaimsExclude`: `ClaimExclusive` and `DeductOnce`. The inductive invariant is
  `Safe`: `Typed`, `ClaimExclusive`, `CallKnowsStock` (a call that owns the claim
  saw the current `stockApplied`), `DeductedByOwner` (goods of an order not yet
  booked were deducted only by the call that still holds the claim, or died with it)
  and `DeductOnce`. `ClaimExclusive` alone does not give `DeductOnce`: a call that
  fails after an earlier deduction must find it booked. `GoodsLeaveOnce` is the
  second half by itself.
- `HandlersImplementLifecycle`. Each action maps to one abstract step or a stutter;
  `Fresh` (a call that has not claimed appears as no order's claim) gives the
  abstract guard that a call claims once.
- `PaidIsBooked`, `ProcessingHasOwner`, `OneOrderPerTx` and `UsedPromoWasPaid`
  are proved together. They hold even of orders whose claim a review overwrote,
  so they cannot rest on `Safe`. `Booked` joins them with `AppliedIsDeducted` and
  `CallBooked`: what a call may conclude from where it is (the goods are out once
  it is past the stock; it has settled its order once it redeems).
- `NoLateClaim` is a property of steps. A call claims on what it read; `Remembered`
  says what that reading is still worth: an order read as expired, underpaid or
  failed is never unpaid again.

The proofs go action by action: effect lemmas say which parts of an order an
action touches, and `OtherIsQuiet` disposes of the actions that touch none.

### PromotionHolds

For any finite sets of checkouts, endings and requests and any sets of promotions
and buyers, from `KindAssumption` and `LimitAssumption`. The sets are finite
because the totals are sums over them.

The counters are looked at one by one as **accounts**: seven kinds, for uses and
budget, held or held and used, of a promotion, its code and its buyers.
`Stands` is what the counter says; `Charged` is the sum of what three kinds of owner
are charged: redemptions, handlers that moved a redemption and still owe its counters,
and checkouts that raised a counter and have no redemption yet. The inductive
invariant `Booked` says that every account covers its charges, and equals them
until a handler dies. Every step but a crash moves a charge from one owner to
another, or the counter with the charges (`StepEven`, one lemma per step and kind
of account); a crash drops an owner, which only leaves more in the counter.

`TypeOK` (no counter falls below zero), `CountersCover` and `Balanced` follow. So does
the refinement: the code checks limits on the counters in the update that raises
them (`LimitsKept`), and what the redemptions add up to is no more. The two
properties about endings rest on codes instead: which codes have redemptions at all
(`Fresh`), which an ending can have read (`Reading`) and that a loop still has
whatever is held under its code (`Finding`). `EndedHoldsNothing` is about the code
that the ending was given; that a redemption may have moved to another code by then
is the finding `promo_rename`.

### CampaignHolds

For any finite set of orders and any counters, calls, workers and crashes, from
`CampaignAssumption` (the lines of an order are different counters, a quote is at
most the largest quota) and `NoneAssumption`, of `CalmSpec`, that is, under `OneTick`
and `Timely`; of its fairness nothing is used. Handlers die anywhere, reclaims are
overlapped, and the reconciler races with sales. The inductive invariant `Sound` has
four layers:

1. `Typed`: types, and indices within an order's lines.
2. `HistoryTyped`: the history variables.
3. `Kept`: who may be at work on what. A runner applies the operation its order
   carries, in that phase, and alone (`Timely`); a late payment has the order it takes
   back to itself, and held, unless the order is `torn`; one worker ticks (`OneTick`),
   and the operations it is to resume are still as it found them.
4. `Tallied`: who is counted in a counter that is `Clean`. A line (an order and one of its counters)
   is in `held` while the checkout has taken it, the order holds it, or the order's
   operation is still to be applied to it (`BuyHolds`, `OrderHolds`, `OpHolds`), and in
   `sold` once the order is sold and its operation has been applied. `sold` equals the
   sum of the second; `held` covers the sum of the first, and equals it until a process
   has died. `FirstSum` counts what was not taken back and stays within the customer's
   limit. `Found` says what the reconciler's readings are still worth of a counter that
   is not `stirred`; one that is stirred and lowered all the same is `wrong` from then on.

A step moves at most one line of one order from one owner to another, so each lemma
compares two sums that differ in one term (`Sums`). A step that is resumed finds the marker and does
not count a line twice; markers go only when all lines have been applied.

`UsesSoldOnce` and `CountersBalance` are these sums when no operation is pending. For
`LedgerImplemented`, `Save` is the abstract `Hold`, the step that begins an operation
is `Settle`, the step with which a late payment finishes its last share is `Reclaim`,
the one that tears a reclaim is `GoAstray` (until its end, a reclaim appears as released
in the ledger), the reconciler's lowering of a stirred counter is `Miscount`, and every
other step stutters. That `Hold` has room follows from the counters' checks,
made at different times: what the earlier lines were granted still stands in `held`.
The ledger's `late` was found in this proof. A first ledger held every order against
the customer's limit, which two orders of one customer refute when one is paid late;
the instance that TLC runs has them compete for a gift, and did not show it.

### VoucherRights

For any finite sets of orders and saves and any number of vouchers, tiers, entries
and crashes, from `VoucherAssumption`. Finiteness is used where entries are counted.
The proof is built in layers, each inductive relative to the ones
before it:

1. `Phases`: where the handlers of an order can be, given how the order stands.
2. `Rights`: whoever counts on a claim holds it, or a payment has used it up, and
   no two orders count on one (`Shared`). An order counts on its claims from its checkout
   until a cancellation or the sweep strips it, in the step that begins to give back.
   `PastQuote` says what the four queries
   of the quote have established, query by query, while others write between
   them. It gives `OneFirstPurchase`.
3. `Settled`: the claims that the handler of a paid order has dealt with are used
   up, and stay so; of a stripped order those that the last step recorded. It gives
   `NotNewAgain`.
4. `VouchersGiven`: entries held while the checkout runs, given once the order is
   there and until it is stripped. It gives `VoucherSpentOnce`.
5. `NothingLeft`: what an order that is not alive holds is in the hands of its
   checkout or of a handler giving it back (`OwedBy`), until someone dies. It gives
   `AllOrNothing`.
6. `Counted`, apart from the orders: entries and the slots of saves at work make up
   `claimedCount`, drawn tiers and draws at work make up what is missing from a tier.
   It gives `SavesCounted`.

### CartSync

For any sets of tabs and handlers and any numbers of edits, faults and sign-outs,
from `CartAssumption`. `NothingDoubled` compares the server's cart with everything the
customer put in, and is far from inductive: the same quantity can be on the disk, in
the memory of several tabs, in a merge on its way and in the cart, and the keys decide
which of these are one. `CartInv` has five layers:

- `Typed` and `Tidy`: types, who holds the lock, and what a tab under the lock knows
  of the disk.
- `Calls`: a tab waits for a handler exactly while it merges or saves, and nobody
  else waits for that one.
- `Versions`: a copy of the cart with the row's revision has the row's quantity.
- `Books`: there is a function `f` from merge keys to quantities such that every
  intent, request and receipt with key `k` stands for `f[k]` (`Claims`), and whatever
  the cart may still become, with what a tab or the disk has besides it and with
  what the keys stand for that the server has not seen, is at most what the customer
  put in (`Balance`). `Books` and `Tidy` are claimed, and inductive, as long as the tabs
  were not `crowded` at a sign-out (`Undoubled`). When a tab mints a key, the proof extends `f`; the server's
  receipt moves `f[k]` from the unseen keys to the cart.

`SavesLoseNothing` (`NoLostUpdate`, a property of steps) follows from `Calls` and
`Versions`: a save that is accepted replaces exactly the cart its tab last saw.

### WholesaleSync

For any sets of workers and editors and any number of attempts, changes and deaths,
from `SyncAssumption`. `SyncTypeOK` is inductive as it stands; `PostedOnce` and
`SentAsItStands` are not: that no second POST is started depends on who may still
write the order. `SyncInv` adds `Outbox` (the status tells whether a POST was started,
and an order that has not started one has none on the wire or at KV), `Owned` (the
owner prepares under a live lease, or has posted) and `Apart` (an edit at work holds
the edit lease, and then nothing is being prepared or sent). There is a lemma for each
kind of step; in `Send` the comparison of the revision and `Apart` together give the
new `SentAsItStands`.

### CommissionBills

For any finite set of commissions and any requests and number of sections that
stop, from `BillsAssumption` and `NoneAssumption` (null is no payment). Collaborators
and periods are those of the commissions, so they are finite too. What an action
does to named bills, payments and rows is stated once (`<Action>Done`), and the
invariants are built on each other:

1. `Typed`: types, with where the locals of a section point (`Placed`): a payment
   under way has the bill it is recorded in, a line that is being settled is one of it.
2. `Control`: bills that exist are the ones that were locked, in order (`Covered`);
   which step goes with which phase of a section (`Staged`); what may be left unfinished
   at each step, at most one payment in all, and nothing once the section's own work
   begins (`Unfinished`); and that a clawback is of a commission that was paid, and
   stays (`Kept`). It gives `ReturnSettled`: the second section of a return always
   finds the commission cancelled or paid.
3. `DebtReservedOnce` is about every set of waiting bills at once. Once nothing is left to
   reconcile, each bill's offset is what the bills before it left of the debt. The induction
   takes the bill that was locked last out of a set (`LastOfSome`); the code keeps a
   running sum of offsets where the model sums what the earlier bills are worth, and a bill
   that could not take its whole worth leaves nothing, so both leave the same.
4. `Finishing`: work begins on books in order, and a recorded payment may finish
   (`MayFinish`). When it is confirmed, the offset is no more than the debt; from then on
   nothing lowers the debt of its collaborators but the payment itself, because no other
   payment is pending, and nobody cancels its rows, because whoever enters first
   finishes it. It gives `PaymentCanFinish`, so that no section ever throws.
5. `MoneyBalances` speaks of the books at rest; between two writes they do not
   balance. Four invariants say, for each pair of books, by how much they are apart
   when a section stops. All are about `Due`, the debt a line takes off: what its
   payment says while it is recorded, what the line says once it is paid.
   - `PaidLines`: cash and `Due` of a paid line come to its commissions that are paid
     out; while the payment is recorded, to the commissions it pays, paid out or not yet.
   - `NotedDebts`: an account's settled ids and the ledger's offsets are of lines with a
     `Due`; a paid line with one has both, and the section that finishes a payment
     knows which of its lines have (`todo`).
   - `DebtsTally`: an account's debt, and the `Due` of its settled lines, come to the
     clawbacks entered in it, and those are the ones applied, or about to be.
   - `RecoveredTally`: what has come back of a collaborator's clawbacks comes to all the
     `Due` of their lines or, while a payment is recorded, will when each clawback has
     been told. At the confirmation this is `SharedOut`: an offset shared out over the
     clawbacks, the oldest first, is given out whole, because it is no more than the
     debt, and the debt is exactly what the clawbacks still owe (`DebtIsOwed`).

   At rest no payment is recorded, and the three equations of `MoneyBalances` follow by
   summing over periods and commissions (`BooksAlways`, `RestBalances`).

### Sums

The totals of the models are `SumFunctionOnSet`, a fold, so what they compute is a
matter of induction over finite sets. The induction theorems of the library take an
operator as a parameter, which the provers cannot instantiate. `Sums` proves
induction in first-order form, with the fact to be shown given as a **set** (`Good`,
the subsets that have it): `LeastSet` and `SetInduction`, from the well-foundedness of
strict inclusion on finite sets. From it come the lemmas the other modules cite: a
sum changes by what one term changes, is monotone, is a natural number, and splits
over a disjoint union.

### Only model-checked

- `BackOfficeTypeOK` as a whole, which joins the type invariants of three modules; its
  three parts are `BillsTypeCorrect`, `SyncTypeCorrect` and `CartTypeCorrect`.
- Every liveness property: fairness and ENABLED are out of TLAPS's reach.
- The runs that expect a violation, which are TLC's by nature.

## Plan

Done: PaymentLifecycle and OrderPayment, PromotionLedger and PromotionHolds,
CampaignLedger and CampaignHolds, VoucherRights, WholesaleSync, CartSync and
CommissionBills, all with their proofs. Next:

1. `OrderFulfilment`, extending OrderPayment with delivery, return and the money
   sync, and `StockDeduct`, the two updates of a product.
2. The checkout's lease lock with the stock check; refresh token families.

## Not modelled, and why

`PROJECT.json` has a component for each part left out. Pricing, the promotion
evaluator and shipping are calculations without shared state. Catalogue,
articles, chatbot, plant doctor, analytics, push, recruitment and the front end
are input and output around outside services. Cache, sync bus and rate limits
are infrastructure whose loss the code tolerates. Delivery, returns and the stock's
two updates, the checkout's lock and the token families are in the plan.
