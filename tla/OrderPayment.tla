---------------------------- MODULE OrderPayment ----------------------------
(***************************************************************************)
(* Settling a shop order paid by bank transfer (backend/shopOrders).       *)
(*                                                                         *)
(* markShopOrderPaid (calls in Payers) races with other calls of itself,   *)
(* with the expiry sweep (Sweeps), the customer's renewals and             *)
(* cancellations (Renewals, Cancels) and the webhook that flags a short    *)
(* transfer (Reviews).  Each of these is an async handler: one action here *)
(* is what happens between two awaits.  There are no transactions; what    *)
(* orders the handlers is the filter of each MongoDB update.               *)
(*                                                                         *)
(* A KiotViet (KV) invoice is named after what created it: the order for   *)
(* the one it was placed with, the call for one made while settling, the   *)
(* renewal for one made while renewing.  A paymentClaimId is the call.     *)
(***************************************************************************)
EXTENDS Naturals

CONSTANTS
  Orders,      \* orders with method "Transfer"
  Payers,      \* calls of markShopOrderPaid
  Sweeps,      \* processes running expireUnpaidShopOrders, over and over
  Renewals,    \* POST renew-payment requests
  Cancels,     \* POST cancel requests
  Reviews,     \* flagPaymentForReview calls with reason "underpaid"
  Txs,         \* SePay transaction ids
  RenewLimit,  \* renewals an order may have (8 in the code)
  MaxCrashes,  \* bound: how many handlers may die half way
  None         \* null

ASSUME NoneAssumption ==
  None \notin Orders \cup Payers \cup Renewals \cup Txs

ASSUME DisjointAssumption ==
  /\ Orders \cap Payers = {}
  /\ Orders \cap Renewals = {}
  /\ Payers \cap Renewals = {}

ASSUME BoundAssumption == RenewLimit \in Nat /\ MaxCrashes \in Nat

VARIABLES
  order,     \* aloha_shop_orders: order -> the fields the handlers test
  holds,     \* aloha_shop_stock_holds: order -> hold sets with status "held"
  promo,     \* promotion_redemptions: order -> state of its redemption
  invoice,   \* KiotViet: invoice -> state of the remote invoice
  pay,       \* Payers -> locals of the call
  sweep,     \* Sweeps -> locals
  renew,     \* Renewals -> locals
  cancel,    \* Cancels -> locals
  review,    \* Reviews -> locals
  crashes,   \* handlers that have died
  deducted,  \* history: order -> calls that took its goods out of stock
  broken     \* history: order -> reviews that overwrote a claim

vars == <<order, holds, promo, invoice, pay, sweep, renew, cancel, review,
          crashes, deducted, broken>>

-----------------------------------------------------------------------------
(* State *)

Status == {"unpaid", "processing", "underpaid", "failed", "paid",
           "expired", "cancelled"}

Claimable == {"unpaid", "underpaid", "failed"}

Stage == {"cho_thanh_toan", "cho_xu_ly", "thieu_hang", "huy"}

Invoices == Orders \cup Payers \cup Renewals

Order == [status  : Status,                    \* paymentStatus
          stage   : Stage,                     \* orderStatus
          claim   : Payers \cup {None},        \* paymentClaimId
          paidBy  : Payers \cup {None},        \* confirmedBy
          due     : BOOLEAN,                   \* expiresAt <= now
          tx      : Txs \cup {None},           \* sepayTransactionId
          inv     : Invoices \cup {None},      \* kvInvoiceId
          mode    : {"none", "awaiting", "paid"},  \* kvInvoiceMode
          voided  : BOOLEAN,                   \* kvInvoiceCancelledAt # null
          applied : BOOLEAN,                   \* stockApplied
          renews  : Nat]                       \* paymentRenewCount

Sources == {"admin", "sepay", "kiotqr"}

PayPc == {"start", "proof", "claim", "invoice", "write", "fail", "stock",
          "consume", "finish", "redeem", "done", "crashed"}

PayCall == [pc : PayPc, o : Orders \cup {None}, src : Sources,
            late : BOOLEAN,                    \* opts.allowExpired
            ranOut : BOOLEAN,                  \* expiresAt <= nowDate
            tx : Txs \cup {None},
            saw : Status,                      \* paymentStatus as first read
            inv : Invoices \cup {None},        \* kvInvoiceId it works with
            mode : {"none", "awaiting", "paid"},
            applied : BOOLEAN]                 \* claimed.stockApplied

SweepRun == [pc : {"idle", "cancel", "update", "holds", "promo"},
             batch : SUBSET Orders,            \* orders found expired
             todo : SUBSET Orders,             \* left for the loop to visit
             inv : [Orders -> Invoices \cup {None}]]

RenewReq == [pc : {"start", "create", "void", "renew", "extend", "hold",
                   "done"},
             o : Orders \cup {None}, old : Invoices \cup {None},
             new : Renewals \cup {None}, voided : BOOLEAN, renews : Nat]

CancelReq == [pc : {"start", "holds", "promo", "kv", "note", "done"},
              o : Orders \cup {None}, inv : Invoices \cup {None}]

ReviewCall == [pc : {"start", "write", "done"}, o : Orders \cup {None}]

TypeOK ==
  /\ order \in [Orders -> Order]
  /\ holds \in [Orders -> Nat]
  /\ promo \in [Orders -> {"none", "held", "used", "released"}]
  /\ invoice \in [Invoices -> {"absent", "awaiting", "paid", "cancelled"}]
  /\ pay \in [Payers -> PayCall]
  /\ sweep \in [Sweeps -> SweepRun]
  /\ renew \in [Renewals -> RenewReq]
  /\ cancel \in [Cancels -> CancelReq]
  /\ review \in [Reviews -> ReviewCall]
  /\ crashes \in 0..MaxCrashes
  /\ deducted \in [Orders -> SUBSET Payers]
  /\ broken \in [Orders -> SUBSET Reviews]

\* The locals of a handler that has not begun; one that has returned keeps
\* nothing but its pc.
NewCall == [pc |-> "start", o |-> None, src |-> "admin", late |-> FALSE,
            ranOut |-> FALSE, tx |-> None, saw |-> "unpaid", inv |-> None, mode |-> "none",
            applied |-> FALSE]
NewRun == [pc |-> "idle", batch |-> {}, todo |-> {},
           inv |-> [o \in Orders |-> None]]
NewRenew == [pc |-> "start", o |-> None, old |-> None, new |-> None,
             voided |-> FALSE, renews |-> 0]
NewCancel == [pc |-> "start", o |-> None, inv |-> None]
NewReview == [pc |-> "start", o |-> None]

PayEnds(c) == pay' = [pay EXCEPT ![c] = [NewCall EXCEPT !.pc = "done"]]
SweepEnds(s) == sweep' = [sweep EXCEPT ![s] = NewRun]
RenewEnds(r) == renew' = [renew EXCEPT ![r] = [NewRenew EXCEPT !.pc = "done"]]
CancelEnds(k) ==
  cancel' = [cancel EXCEPT ![k] = [NewCancel EXCEPT !.pc = "done"]]
ReviewEnds(r) ==
  review' = [review EXCEPT ![r] = [NewReview EXCEPT !.pc = "done"]]

\* An order waiting for its transfer, placed with or without an awaiting
\* invoice and with or without a promotion, its goods held.
Init ==
  /\ \E withInv \in SUBSET Orders :
       /\ order = [o \in Orders |->
            [status |-> "unpaid", stage |-> "cho_thanh_toan",
             claim |-> None, paidBy |-> None, due |-> FALSE, tx |-> None,
             inv |-> IF o \in withInv THEN o ELSE None,
             mode |-> IF o \in withInv THEN "awaiting" ELSE "none",
             voided |-> FALSE, applied |-> FALSE, renews |-> 0]]
       /\ invoice = [i \in Invoices |->
            IF i \in withInv THEN "awaiting" ELSE "absent"]
  /\ holds = [o \in Orders |-> 1]
  /\ promo \in [Orders -> {"none", "held"}]
  /\ pay = [c \in Payers |-> NewCall]
  /\ sweep = [s \in Sweeps |-> NewRun]
  /\ renew = [r \in Renewals |-> NewRenew]
  /\ cancel = [k \in Cancels |-> NewCancel]
  /\ review = [r \in Reviews |-> NewReview]
  /\ crashes = 0
  /\ deducted = [o \in Orders |-> {}]
  /\ broken = [o \in Orders |-> {}]

-----------------------------------------------------------------------------
(* Storage operations shared by the handlers *)

\* Mutant: each call takes one hold set off a counter.
DropHoldsByOne(S) ==
  holds' = [o \in Orders |-> IF o \in S THEN holds[o] - 1 ELSE holds[o]]

\* releaseShopStockHolds and consumeShopStockHolds: no hold stays "held".
\* Every caller swallows a failure.
DropHolds(S) ==
  \/ holds' = [o \in Orders |-> IF o \in S THEN 0 ELSE holds[o]]
  \/ UNCHANGED holds

\* transitionHeldRedemptions: only a held redemption moves.  Every caller
\* swallows a failure.
MovePromo(S, to) ==
  \/ promo' = [o \in Orders |->
       IF o \in S /\ promo[o] = "held" THEN to ELSE promo[o]]
  \/ UNCHANGED promo

\* cancelInvoiceForOrder: DELETE /invoices voids the payment with the
\* invoice; a failure is swallowed and leaves the invoice alone.
VoidInvoice(i) ==
  \/ UNCHANGED invoice
  \/ /\ i # None
     /\ invoice[i] \in {"awaiting", "paid"}
     /\ invoice' = [invoice EXCEPT ![i] = "cancelled"]

\* Mutant: the writes of a settling call do not name its claim.
OwnedClaimAny(c) == order[pay[c].o].status = "processing"

\* The filter { _id, paymentStatus: "processing", paymentClaimId }.
OwnedClaim(c) ==
  LET o == pay[c].o
  IN order[o].status = "processing" /\ order[o].claim = c

-----------------------------------------------------------------------------
(* markShopOrderPaid *)

\* Webhook, admin button or reconciler calls markShopOrderPaid, which reads
\* the order and refuses it or goes on to claim it.  The reconciler has read
\* the order once already: it passes the invoice it saw collected on KV.
PayRequest(c, o, src, late, tx) ==
  /\ pay[c].pc = "start"
  /\ src # "admin" => late
  /\ (src = "sepay") <=> (tx # None)
  /\ src = "kiotqr" => /\ order[o].inv # None
                       /\ invoice[order[o].inv] = "paid"
                       /\ order[o].status \notin {"paid", "cancelled"}
  /\ pay' = [pay EXCEPT ![c] =
                 [@ EXCEPT !.pc = "proof", !.o = o, !.src = src,
                           !.late = late, !.ranOut = order[o].due,
                           !.tx = tx, !.inv = order[o].inv]]
  /\ UNCHANGED <<order, holds, promo, invoice, sweep, renew, cancel, review,
                 crashes, deducted, broken>>

\* Mutant: the expiry is compared the wrong way round.
OutOfTime(c) == pay[c].ranOut

\* expiresAt > nowDate, the time the call began: an order that ran out since
\* is in time, and so is one renewed since.
InTime(c) == ~(pay[c].ranOut /\ order[pay[c].o].due)

\* The checks on the document read first: the reconciler's proof names the
\* invoice of the order, the transaction is not another order's, and an
\* unpaid order has not run out of time.
MayClaim(c) ==
  LET o == pay[c].o
  IN /\ pay[c].src = "kiotqr" => pay[c].inv = order[o].inv
     /\ order[o].status \in Claimable
     /\ pay[c].tx # None =>
          \A p \in Orders \ {o} : order[p].tx # pay[c].tx
     /\ pay[c].late \/ InTime(c) \/ order[o].status # "unpaid"

PayRead(c) ==
  /\ pay[c].pc = "proof"
  /\ \/ /\ MayClaim(c)
        /\ pay' = [pay EXCEPT ![c] =
                       [@ EXCEPT !.pc = "claim",
                                 !.saw = order[pay[c].o].status,
                                 !.inv = order[pay[c].o].inv]]
     \/ ~MayClaim(c) /\ PayEnds(c)
  /\ UNCHANGED <<order, holds, promo, invoice, sweep, renew, cancel, review,
                 crashes, deducted, broken>>

\* Mutant: a call that loses the claim goes on with the processing order, as
\* markPaid.ts did before docs/MARK_PAID_CONCURRENCY.md.
ClaimFilterTakesProcessing(c) ==
  LET o == pay[c].o
  IN /\ order[o].status \in Claimable \cup {"processing"}
     /\ pay[c].src = "kiotqr" => order[o].inv = pay[c].inv
     /\ (~pay[c].late /\ pay[c].saw = "unpaid") => InTime(c)

\* Mutant: no unique index on sepayTransactionId.
ClaimFilterSharesTx(c) ==
  LET o == pay[c].o
  IN /\ order[o].status \in Claimable
     /\ pay[c].src = "kiotqr" => order[o].inv = pay[c].inv
     /\ (~pay[c].late /\ pay[c].saw = "unpaid") => InTime(c)

\* claimFilter; the unique index on sepayTransactionId makes the update
\* throw when the transaction has settled another order meanwhile.
ClaimFilter(c) ==
  LET o == pay[c].o
  IN /\ order[o].status \in Claimable
     /\ pay[c].src = "kiotqr" => order[o].inv = pay[c].inv
     /\ (~pay[c].late /\ pay[c].saw = "unpaid") => InTime(c)
     /\ pay[c].tx # None =>
          \A p \in Orders \ {o} : order[p].tx # pay[c].tx

PayClaim(c) ==
  LET o == pay[c].o
  IN /\ pay[c].pc = "claim"
     /\ \/ /\ ClaimFilter(c)
           /\ order' = [order EXCEPT ![o] =
                            [@ EXCEPT !.status = "processing", !.claim = c,
                                      !.tx = IF pay[c].tx = None
                                             THEN order[o].tx ELSE pay[c].tx]]
           /\ pay' = [pay EXCEPT ![c] =
                          [@ EXCEPT !.pc = "invoice", !.inv = order[o].inv,
                                    !.mode = order[o].mode,
                                    !.applied = order[o].applied]]
        \/ /\ ~ClaimFilter(c)
           /\ PayEnds(c)
           /\ UNCHANGED order
     /\ UNCHANGED <<holds, promo, invoice, sweep, renew, cancel, review,
                    crashes, deducted, broken>>

\* A KiotQR invoice KV has collected, or one already marked paid, is kept.
KeepsInvoice(c) ==
  pay[c].inv # None /\ (pay[c].src = "kiotqr" \/ pay[c].mode = "paid")

PayKeepInvoice(c) ==
  /\ pay[c].pc = "invoice"
  /\ KeepsInvoice(c)
  /\ pay' = [pay EXCEPT ![c].pc = "write"]
  /\ UNCHANGED <<order, holds, promo, invoice, sweep, renew, cancel, review,
                 crashes, deducted, broken>>

\* ensurePaidInvoice: collect on the order's invoice, or create a paid one.
\* KV refuses to collect on a cancelled invoice; a request that times out
\* may have taken effect.
PayCollect(c) ==
  LET i == IF pay[c].inv = None THEN c ELSE pay[c].inv
      Collected == /\ invoice[i] # "cancelled"
                   /\ invoice' = [invoice EXCEPT ![i] = "paid"]
      Ends(pc) == pay' = [pay EXCEPT ![c] = [@ EXCEPT !.pc = pc, !.inv = i]]
  IN /\ pay[c].pc = "invoice"
     /\ ~KeepsInvoice(c)
     /\ \/ Collected /\ Ends("write")
        \/ Collected /\ Ends("fail")
        \/ UNCHANGED invoice /\ Ends("fail")
     /\ UNCHANGED <<order, holds, promo, sweep, renew, cancel, review,
                    crashes, deducted, broken>>

\* Saving the invoice; without the claim the call stops before the stock.
\* The update may throw, whether it took effect or not.
PayWriteInvoice(c) ==
  LET o == pay[c].o
  IN /\ pay[c].pc = "write"
     /\ \/ /\ OwnedClaim(c)
           /\ order' = [order EXCEPT ![o] =
                            [@ EXCEPT !.inv = pay[c].inv, !.mode = "paid",
                                      !.voided = FALSE]]
           /\ \E pc \in {"stock", "fail"} : pay' = [pay EXCEPT ![c].pc = pc]
        \/ /\ ~OwnedClaim(c)
           /\ PayEnds(c)
           /\ UNCHANGED order
        \/ /\ pay' = [pay EXCEPT ![c].pc = "fail"]
           /\ UNCHANGED order
     /\ UNCHANGED <<holds, promo, invoice, sweep, renew, cancel, review,
                    crashes, deducted, broken>>

\* Mutant: the error is returned and the order left "processing".
PayFailSilent(c) ==
  /\ pay[c].pc = "fail"
  /\ PayEnds(c)
  /\ UNCHANGED <<order, holds, promo, invoice, sweep, renew, cancel, review,
                 crashes, deducted, broken>>

PayFail(c) ==
  LET o == pay[c].o
  IN /\ pay[c].pc = "fail"
     /\ order' = IF OwnedClaim(c)
                 THEN [order EXCEPT ![o].status = "failed"]
                 ELSE order
     /\ PayEnds(c)
     /\ UNCHANGED <<holds, promo, invoice, sweep, renew, cancel, review,
                    crashes, deducted, broken>>

\* applyShopOrderStockDeduct, unless the claimed document says it was done.
PayDeduct(c) ==
  LET o == pay[c].o
  IN /\ pay[c].pc = "stock"
     /\ deducted' = IF pay[c].applied
                    THEN deducted
                    ELSE [deducted EXCEPT ![o] = @ \cup {c}]
     /\ pay' = [pay EXCEPT ![c].pc = "consume"]
     /\ UNCHANGED <<order, holds, promo, invoice, sweep, renew, cancel,
                    review, crashes, broken>>

\* Mutant: the promotion is spent before the order is settled.
PayConsumeHoldsAndPromo(c) ==
  /\ pay[c].pc = "consume"
  /\ DropHolds({pay[c].o})
  /\ MovePromo({pay[c].o}, "used")
  /\ pay' = [pay EXCEPT ![c].pc = "finish"]
  /\ UNCHANGED <<order, invoice, sweep, renew, cancel, review, crashes,
                 deducted, broken>>

PayConsumeHolds(c) ==
  /\ pay[c].pc = "consume"
  /\ DropHolds({pay[c].o})
  /\ pay' = [pay EXCEPT ![c].pc = "finish"]
  /\ UNCHANGED <<order, promo, invoice, sweep, renew, cancel, review,
                 crashes, deducted, broken>>

\* Mutant: stockApplied is not recorded.
PayFinishUnbooked(c) ==
  LET o == pay[c].o
  IN /\ pay[c].pc = "finish"
     /\ \/ /\ OwnedClaim(c)
           /\ order' = [order EXCEPT ![o] =
                            [@ EXCEPT !.status = "paid",
                                      !.stage = "cho_xu_ly",
                                      !.inv = pay[c].inv, !.mode = "paid",
                                      !.paidBy = c]]
           /\ pay' = [pay EXCEPT ![c].pc = "redeem"]
        \/ /\ ~OwnedClaim(c)
           /\ PayEnds(c)
           /\ UNCHANGED order
     /\ UNCHANGED <<holds, promo, invoice, sweep, renew, cancel, review,
                    crashes, deducted, broken>>

\* Settling; an order whose stock fell short waits for goods.
PayFinish(c) ==
  LET o == pay[c].o
  IN /\ pay[c].pc = "finish"
     /\ \/ /\ OwnedClaim(c)
           /\ \E stage \in {"cho_xu_ly", "thieu_hang"} :
                /\ pay[c].applied => stage = "cho_xu_ly"
                /\ order' = [order EXCEPT ![o] =
                                 [@ EXCEPT !.status = "paid", !.stage = stage,
                                           !.applied = TRUE,
                                           !.inv = pay[c].inv,
                                           !.mode = "paid", !.paidBy = c]]
           /\ pay' = [pay EXCEPT ![c].pc = "redeem"]
        \/ /\ ~OwnedClaim(c)
           /\ PayEnds(c)
           /\ UNCHANGED order
     /\ UNCHANGED <<holds, promo, invoice, sweep, renew, cancel, review,
                    crashes, deducted, broken>>

PayRedeem(c) ==
  /\ pay[c].pc = "redeem"
  /\ MovePromo({pay[c].o}, "used")
  /\ PayEnds(c)
  /\ UNCHANGED <<order, holds, invoice, sweep, renew, cancel, review,
                 crashes, deducted, broken>>

\* The server process dies inside the handler; nobody takes the claim over.
InFlight == {"invoice", "write", "fail", "stock", "consume", "finish"}

PayCrash(c) ==
  /\ pay[c].pc \in InFlight \cup {"redeem"}
  /\ crashes < MaxCrashes
  /\ crashes' = crashes + 1
  /\ pay' = [pay EXCEPT ![c].pc = "crashed"]
  /\ UNCHANGED <<order, holds, promo, invoice, sweep, renew, cancel, review,
                 deducted, broken>>

PayStep(c) ==
  \/ PayRead(c)
  \/ PayClaim(c)
  \/ PayKeepInvoice(c)
  \/ PayCollect(c)
  \/ PayWriteInvoice(c)
  \/ PayFail(c)
  \/ PayDeduct(c)
  \/ PayConsumeHolds(c)
  \/ PayFinish(c)
  \/ PayRedeem(c)

-----------------------------------------------------------------------------
(* expireUnpaidShopOrders *)

\* Mutant: only orders with an invoice are swept.
SweepFindInvoiced(s) ==
  LET found == {o \in Orders : /\ order[o].status = "unpaid"
                               /\ order[o].due
                               /\ order[o].inv # None}
  IN /\ sweep[s].pc = "idle"
     /\ found # {}
     /\ sweep' = [sweep EXCEPT ![s] =
                      [@ EXCEPT !.pc = "cancel", !.batch = found,
                                !.todo = found,
                                !.inv = [o \in Orders |->
                                  IF o \in found THEN order[o].inv
                                                 ELSE None]]]
     /\ UNCHANGED <<order, holds, promo, invoice, pay, renew, cancel, review,
                    crashes, deducted, broken>>

\* Orders found expired, each with the invoice it had when it was found.
SweepFind(s) ==
  LET found == {o \in Orders : order[o].status = "unpaid" /\ order[o].due}
  IN /\ sweep[s].pc = "idle"
     /\ found # {}
     /\ sweep' = [sweep EXCEPT ![s] =
                      [@ EXCEPT !.pc = "cancel", !.batch = found,
                                !.todo = found,
                                !.inv = [o \in Orders |->
                                  IF o \in found THEN order[o].inv
                                                 ELSE None]]]
     /\ UNCHANGED <<order, holds, promo, invoice, pay, renew, cancel, review,
                    crashes, deducted, broken>>

\* One iteration of a loop over the batch; the last one moves on to pc.
SweepNext(s, o, pc, todo) ==
  sweep' = IF sweep[s].todo = {o}
           THEN [sweep EXCEPT ![s] = [@ EXCEPT !.pc = pc, !.todo = todo]]
           ELSE [sweep EXCEPT ![s].todo = @ \ {o}]

SweepCancelInvoice(s, o) ==
  /\ sweep[s].pc = "cancel"
  /\ o \in sweep[s].todo
  /\ VoidInvoice(sweep[s].inv[o])
  /\ SweepNext(s, o, "update", sweep[s].batch)
  /\ UNCHANGED <<order, holds, promo, pay, renew, cancel, review, crashes,
                 deducted, broken>>

\* Mutant: the update does not test the status again.
SweepUpdateBlind(s, o) ==
  /\ sweep[s].pc = "update"
  /\ o \in sweep[s].todo
  /\ order' = [order EXCEPT ![o] =
                   [@ EXCEPT !.status = "expired", !.stage = "huy",
                             !.voided = TRUE]]
  /\ SweepNext(s, o, "holds", {})
  /\ UNCHANGED <<holds, promo, invoice, pay, renew, cancel, review, crashes,
                 deducted, broken>>

\* updateMany, atomic one document at a time: the filter asks for "unpaid"
\* again, not for expiresAt.
SweepUpdate(s, o) ==
  /\ sweep[s].pc = "update"
  /\ o \in sweep[s].todo
  /\ order' = IF order[o].status = "unpaid"
              THEN [order EXCEPT ![o] =
                        [@ EXCEPT !.status = "expired", !.stage = "huy",
                                  !.voided = TRUE]]
              ELSE order
  /\ SweepNext(s, o, "holds", {})
  /\ UNCHANGED <<holds, promo, invoice, pay, renew, cancel, review, crashes,
                 deducted, broken>>

\* Holds and promotions of every order found, not of those updated.
SweepReleaseHolds(s) ==
  /\ sweep[s].pc = "holds"
  /\ DropHolds(sweep[s].batch)
  /\ sweep' = [sweep EXCEPT ![s].pc = "promo"]
  /\ UNCHANGED <<order, promo, invoice, pay, renew, cancel, review, crashes,
                 deducted, broken>>

SweepReleasePromo(s) ==
  /\ sweep[s].pc = "promo"
  /\ MovePromo(sweep[s].batch, "released")
  /\ SweepEnds(s)
  /\ UNCHANGED <<order, holds, invoice, pay, renew, cancel, review, crashes,
                 deducted, broken>>

\* The process dies and, restarted, sweeps again from the top.
SweepCrash(s) ==
  /\ sweep[s].pc # "idle"
  /\ crashes < MaxCrashes
  /\ crashes' = crashes + 1
  /\ SweepEnds(s)
  /\ UNCHANGED <<order, holds, promo, invoice, pay, renew, cancel, review,
                 deducted, broken>>

SweepStep(s) ==
  \/ SweepFind(s)
  \/ \E o \in Orders : SweepCancelInvoice(s, o) \/ SweepUpdate(s, o)
  \/ SweepReleaseHolds(s)
  \/ SweepReleasePromo(s)

-----------------------------------------------------------------------------
(* POST renew-payment, after its own sweep *)

RenewRead(r, o) ==
  /\ renew[r].pc = "start"
  /\ order[o].status \in {"unpaid", "expired"}
  /\ order[o].renews < RenewLimit
  /\ renew' = [renew EXCEPT ![r] =
                   [@ EXCEPT !.pc = "create", !.o = o, !.old = order[o].inv,
                             !.voided = order[o].voided,
                             !.renews = order[o].renews]]
  /\ UNCHANGED <<order, holds, promo, invoice, pay, sweep, cancel, review,
                 crashes, deducted, broken>>

\* A new awaiting invoice when KiotQR is on; a failure, of it (which may
\* have created one all the same) or of the stock check, ends the request.
RenewCreateInvoice(r) ==
  /\ renew[r].pc = "create"
  /\ \/ /\ invoice' = [invoice EXCEPT ![r] = "awaiting"]
        /\ \/ renew' = [renew EXCEPT ![r] =
                            [@ EXCEPT !.pc = "void", !.new = r]]
           \/ RenewEnds(r)
     \/ /\ UNCHANGED invoice
        /\ \/ renew' = [renew EXCEPT ![r].pc = "void"]
           \/ RenewEnds(r)
  /\ UNCHANGED <<order, holds, promo, pay, sweep, cancel, review, crashes,
                 deducted, broken>>

\* The old invoice is cancelled before the order is known to be unpaid yet.
RenewVoidOld(r) ==
  /\ renew[r].pc = "void"
  /\ IF renew[r].voided THEN UNCHANGED invoice ELSE VoidInvoice(renew[r].old)
  /\ renew' = [renew EXCEPT ![r].pc = "renew"]
  /\ UNCHANGED <<order, holds, promo, pay, sweep, cancel, review, crashes,
                 deducted, broken>>

RenewOrder(r) ==
  LET o == renew[r].o
  IN /\ renew[r].pc = "renew"
     /\ \/ /\ order[o].status \in {"unpaid", "expired"}
           /\ order' = [order EXCEPT ![o] =
                            [@ EXCEPT !.status = "unpaid",
                                      !.stage = "cho_thanh_toan",
                                      !.due = FALSE, !.inv = renew[r].new,
                                      !.mode = IF renew[r].new = None
                                               THEN "none" ELSE "awaiting",
                                      !.voided = \/ renew[r].old # None
                                                 \/ renew[r].voided,
                                      !.renews = renew[r].renews + 1]]
           /\ renew' = [renew EXCEPT ![r].pc = "extend"]
        \/ /\ order[o].status \notin {"unpaid", "expired"}
           /\ RenewEnds(r)
           /\ UNCHANGED order
     /\ UNCHANGED <<holds, promo, invoice, pay, sweep, cancel, review,
                    crashes, deducted, broken>>

\* extendShopStockHoldExpiry; with nothing held any more, or when it fails,
\* hold again.
RenewExtend(r) ==
  /\ renew[r].pc = "extend"
  /\ \/ holds[renew[r].o] > 0 /\ RenewEnds(r)
     \/ renew' = [renew EXCEPT ![r].pc = "hold"]
  /\ UNCHANGED <<order, holds, promo, invoice, pay, sweep, cancel, review,
                 crashes, deducted, broken>>

RenewHold(r) ==
  /\ renew[r].pc = "hold"
  /\ \/ holds' = [holds EXCEPT ![renew[r].o] = @ + 1]
     \/ UNCHANGED holds
  /\ RenewEnds(r)
  /\ UNCHANGED <<order, promo, invoice, pay, sweep, cancel, review, crashes,
                 deducted, broken>>

RenewStep(r) ==
  \/ RenewCreateInvoice(r)
  \/ RenewVoidOld(r)
  \/ RenewOrder(r)
  \/ RenewExtend(r)
  \/ RenewHold(r)

-----------------------------------------------------------------------------
(* POST cancel *)

CancelOrder(k, o) ==
  /\ cancel[k].pc = "start"
  /\ order[o].status \in {"unpaid", "expired"}
  /\ order' = [order EXCEPT ![o] =
                   [@ EXCEPT !.status = "cancelled", !.stage = "huy"]]
  /\ cancel' = [cancel EXCEPT ![k] =
                    [@ EXCEPT !.pc = "holds", !.o = o,
                              !.inv = IF order[o].voided
                                      THEN None ELSE order[o].inv]]
  /\ UNCHANGED <<holds, promo, invoice, pay, sweep, renew, review, crashes,
                 deducted, broken>>

CancelReleaseHolds(k) ==
  /\ cancel[k].pc = "holds"
  /\ DropHolds({cancel[k].o})
  /\ cancel' = [cancel EXCEPT ![k].pc = "promo"]
  /\ UNCHANGED <<order, promo, invoice, pay, sweep, renew, review, crashes,
                 deducted, broken>>

CancelReleasePromo(k) ==
  /\ cancel[k].pc = "promo"
  /\ MovePromo({cancel[k].o}, "released")
  /\ IF cancel[k].inv = None
     THEN CancelEnds(k)
     ELSE cancel' = [cancel EXCEPT ![k].pc = "kv"]
  /\ UNCHANGED <<order, holds, invoice, pay, sweep, renew, review, crashes,
                 deducted, broken>>

CancelVoidInvoice(k) ==
  /\ cancel[k].pc = "kv"
  /\ \/ /\ VoidInvoice(cancel[k].inv)
        /\ cancel' = [cancel EXCEPT ![k].pc = "note"]
     \/ UNCHANGED invoice /\ CancelEnds(k)
  /\ UNCHANGED <<order, holds, promo, pay, sweep, renew, review, crashes,
                 deducted, broken>>

CancelNote(k) ==
  /\ cancel[k].pc = "note"
  /\ order' = [order EXCEPT ![cancel[k].o] =
                   [@ EXCEPT !.voided = TRUE, !.mode = "none"]]
  /\ CancelEnds(k)
  /\ UNCHANGED <<holds, promo, invoice, pay, sweep, renew, review, crashes,
                 deducted, broken>>

CancelStep(k) ==
  \/ CancelReleaseHolds(k)
  \/ CancelReleasePromo(k)
  \/ CancelVoidInvoice(k)
  \/ CancelNote(k)

-----------------------------------------------------------------------------
(* flagPaymentForReview, for a transfer smaller than the total *)

ReviewRead(r, o) ==
  /\ review[r].pc = "start"
  /\ IF order[o].status = "paid"
     THEN ReviewEnds(r)
     ELSE review' = [review EXCEPT ![r] = [@ EXCEPT !.pc = "write", !.o = o]]
  /\ UNCHANGED <<order, holds, promo, invoice, pay, sweep, renew, cancel,
                 crashes, deducted, broken>>

\* updateOne({ _id }): whatever the order has become.
ReviewWrite(r) ==
  LET o == review[r].o
  IN /\ review[r].pc = "write"
     /\ order' = [order EXCEPT ![o].status = "underpaid"]
     /\ broken' = IF order[o].status = "processing"
                  THEN [broken EXCEPT ![o] = @ \cup {r}]
                  ELSE broken
     /\ ReviewEnds(r)
     /\ UNCHANGED <<holds, promo, invoice, pay, sweep, renew, cancel,
                    crashes, deducted>>

-----------------------------------------------------------------------------
(* The world outside the server *)

\* expiresAt passes.  A call outlives no renewal: one that began on an order
\* already out of time ends before the renewed order runs out again.
TimePasses(o) ==
  /\ ~order[o].due
  /\ \A c \in Payers :
       (pay[c].o = o /\ pay[c].ranOut) => pay[c].pc = "crashed"
  /\ order' = [order EXCEPT ![o].due = TRUE]
  /\ UNCHANGED <<holds, promo, invoice, pay, sweep, renew, cancel, review,
                 crashes, deducted, broken>>

\* The customer scans the KiotQR code and KV collects on the invoice.
CustomerPays(i) ==
  /\ invoice[i] = "awaiting"
  /\ invoice' = [invoice EXCEPT ![i] = "paid"]
  /\ UNCHANGED <<order, holds, promo, pay, sweep, renew, cancel, review,
                 crashes, deducted, broken>>

Next ==
  \/ \E c \in Payers : \/ \E o \in Orders, src \in Sources, late \in BOOLEAN,
                             tx \in Txs \cup {None} :
                               PayRequest(c, o, src, late, tx)
                       \/ PayStep(c)
                       \/ PayCrash(c)
  \/ \E s \in Sweeps : SweepStep(s) \/ SweepCrash(s)
  \/ \E r \in Renewals : (\E o \in Orders : RenewRead(r, o)) \/ RenewStep(r)
  \/ \E k \in Cancels : (\E o \in Orders : CancelOrder(k, o)) \/ CancelStep(k)
  \/ \E r \in Reviews : (\E o \in Orders : ReviewRead(r, o)) \/ ReviewWrite(r)
  \/ \E o \in Orders : TimePasses(o)
  \/ \E i \in Invoices : CustomerPays(i)

Spec == Init /\ [][Next]_vars

\* A handler that has started runs on unless it crashes, and the worker
\* calls the sweep on every tick.  Customers, staff and banks owe nothing.
Fairness ==
  /\ \A c \in Payers : WF_vars(PayStep(c))
  /\ \A s \in Sweeps : WF_vars(SweepStep(s))
  /\ \A r \in Renewals : WF_vars(RenewStep(r))
  /\ \A k \in Cancels : WF_vars(CancelStep(k))
  /\ \A r \in Reviews : WF_vars(ReviewWrite(r))

FairSpec == Spec /\ Fairness

-----------------------------------------------------------------------------
(* Safety *)

\* While no review has overwritten a claim on the order, a call that has
\* claimed it and not yet ended is the only one allowed to touch KV, the
\* stock and the status: the order is still "processing" under its claim.
ClaimExclusive ==
  \A c \in Payers :
    LET o == pay[c].o
    IN (pay[c].pc \in InFlight /\ broken[o] = {}) => OwnedClaim(c)

\* However many calls settle an order, and whatever they crashed in, its
\* goods leave the stock once, unless a review took a claim away.
DeductOnce ==
  \A o \in Orders : broken[o] = {} =>
    \A c, d \in deducted[o] : c = d

\* A paid order has had its goods deducted, is marked so, and is open again.
PaidIsBooked ==
  \A o \in Orders : order[o].status = "paid" =>
    /\ order[o].applied
    /\ deducted[o] # {}
    /\ order[o].stage \in {"cho_xu_ly", "thieu_hang"}

\* "processing" is never an orphan: the call that holds the claim is still
\* at work, or died there and left the order for a person to reconcile.
ProcessingHasOwner ==
  \A o \in Orders : order[o].status = "processing" =>
    /\ order[o].claim # None
    /\ pay[order[o].claim].o = o
    /\ pay[order[o].claim].pc \in InFlight \cup {"crashed"}

\* One bank transfer settles one order.
OneOrderPerTx ==
  \A o, p \in Orders :
    (order[o].tx # None /\ order[o].tx = order[p].tx) => o = p

\* A promotion counts as used only on an order some call has settled.
UsedPromoWasPaid ==
  \A o \in Orders : promo[o] = "used" => order[o].paidBy # None

\* Staff who did not ask for it never settle an unpaid order that had run
\* out when they pressed the button, whatever the order was when first read.
NoLateClaim ==
  [][\A o \in Orders, c \in Payers :
       (/\ order[o].status = "unpaid"
        /\ order'[o].status = "processing"
        /\ order'[o].claim = c
        /\ ~pay[c].late)
         => ~(pay[c].ranOut /\ order[o].due)]_vars

\* The handlers implement the payment lifecycle: claims exclude each other
\* and only the claim's owner settles the order.
Lifecycle == INSTANCE PaymentLifecycle WITH
  status <- [o \in Orders |-> order[o].status],
  owner <- [o \in Orders |-> order[o].claim],
  settler <- [o \in Orders |-> order[o].paidBy]

ImplementsLifecycle == Lifecycle!Spec

-----------------------------------------------------------------------------
(* Liveness *)

\* A claim is given up in the end, settled or failed, unless its call dies.
ClaimResolves ==
  \A o \in Orders, c \in Payers :
    (order[o].status = "processing" /\ order[o].claim = c) ~>
      \/ order[o].status # "processing"
      \/ order[o].claim # c
      \/ pay[c].pc = "crashed"

\* An order whose time ran out does not stay unpaid.
ExpiryHappens ==
  \A o \in Orders :
    (order[o].status = "unpaid" /\ order[o].due) ~>
      (order[o].status # "unpaid" \/ ~order[o].due)

-----------------------------------------------------------------------------
(* What the documentation says and the handlers do not keep *)

\* docs/MARK_PAID_CONCURRENCY.md: however many calls race, an order's goods
\* are deducted by one of them.
DeductAtMostOnce ==
  \A o \in Orders : \A c, d \in deducted[o] : c = d

\* markPaid.ts, the sweep's comment: only the orders claimed in the batch
\* change state.  A paid order has not lost the promotion it was priced with.
PaidKeepsPromo ==
  \A o \in Orders : order[o].status = "paid" => promo[o] # "released"
=============================================================================
