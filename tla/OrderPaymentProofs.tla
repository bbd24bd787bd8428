------------------------- MODULE OrderPaymentProofs -------------------------
(***************************************************************************)
(* Proofs about OrderPayment, for any number of orders, calls, sweeps,     *)
(* renewals, cancellations, reviews and crashes:                           *)
(*   TypeCorrect                TypeOK is an invariant;                    *)
(*   ClaimsExclude              so is ClaimExclusive,                      *)
(*   SettledOrdersBooked        PaidIsBooked,                              *)
(*   ClaimsAreOwned             ProcessingHasOwner,                        *)
(*   TransfersSettleOnce        OneOrderPerTx,                             *)
(*   PromosFollowPayment        UsedPromoWasPaid                           *)
(*   GoodsLeaveOnce             and DeductOnce;                            *)
(*   ClaimsAreInTime            NoLateClaim holds of every step;           *)
(*   HandlersImplementLifecycle the handlers implement PaymentLifecycle.   *)
(*                                                                         *)
(* The first part has a lemma per action on the type invariant.  The       *)
(* second says what the steps that matter do to an order (the "effect"     *)
(* lemmas) and that the sweep, renewals and cancellations stay away from   *)
(* claimed orders (OtherIsQuiet); the parts on exclusion and the lifecycle *)
(* use these facts and never open the actions again.                       *)
(*                                                                         *)
(* Unlike ClaimExclusive the last part's properties hold even of orders    *)
(* whose claim a review overwrote.  What carries them is Booked: a call    *)
(* past the stock knows that the goods are out, and one that redeems has   *)
(* settled its order.  NoLateClaim needs Remembered: an order that was     *)
(* underpaid or failed when a call read it is never unpaid again.          *)
(***************************************************************************)
EXTENDS OrderPayment, TLAPS

\* A call at work has an order.
PayHasOrder ==
  \A c \in Payers : pay[c].pc \notin {"start", "done"} => pay[c].o \in Orders

Typed == TypeOK /\ PayHasOrder

\* Typed holds when the handlers start.
LEMMA TypeInit == Init => Typed
  BY NoneAssumption, BoundAssumption
  DEF Init, Typed, PayHasOrder, TypeOK, Order, Status, Stage, Invoices,
      NewCall, PayCall, PayPc, Sources, NewRun, SweepRun, NewRenew,
      RenewReq, NewCancel, CancelReq, NewReview, ReviewCall

LEMMA EndedCall == [NewCall EXCEPT !.pc = "done"] \in PayCall
  BY DEF NewCall, PayCall, PayPc, Sources, Status

LEMMA EndedRenew == [NewRenew EXCEPT !.pc = "done"] \in RenewReq
  BY DEF NewRenew, RenewReq

LEMMA EndedCancel == [NewCancel EXCEPT !.pc = "done"] \in CancelReq
  BY DEF NewCancel, CancelReq

LEMMA EndedReview == [NewReview EXCEPT !.pc = "done"] \in ReviewCall
  BY DEF NewReview, ReviewCall

LEMMA EndedRun == NewRun \in SweepRun
  BY DEF NewRun, SweepRun

LEMMA CallMoves ==
  ASSUME Typed, NEW c \in Payers, NEW pc \in PayPc \ {"start", "done"},
         pay[c].pc \notin {"start", "done"},
         pay' = [pay EXCEPT ![c].pc = pc]
  PROVE  pay' \in [Payers -> PayCall] /\ PayHasOrder'
<1>1. pay[c] \in PayCall
  BY DEF Typed, TypeOK
<1>2. [pay[c] EXCEPT !.pc = pc] \in PayCall
  BY <1>1 DEF PayCall
<1>3. pay' = [pay EXCEPT ![c] = [pay[c] EXCEPT !.pc = pc]]
  OBVIOUS
<1>4. pay' \in [Payers -> PayCall]
  BY <1>2, <1>3 DEF Typed, TypeOK
<1>5. PayHasOrder'
  BY <1>1 DEF Typed, TypeOK, PayHasOrder, PayCall
<1> QED BY <1>4, <1>5

LEMMA CallEnds ==
  ASSUME Typed, NEW c \in Payers, PayEnds(c)
  PROVE  pay' \in [Payers -> PayCall] /\ PayHasOrder'
<1>1. pay' \in [Payers -> PayCall]
  BY EndedCall DEF Typed, TypeOK, PayEnds
<1>2. PayHasOrder'
  BY DEF Typed, TypeOK, PayHasOrder, PayEnds, NewCall
<1> QED BY <1>1, <1>2

LEMMA HoldsDrop ==
  ASSUME Typed, NEW S, DropHolds(S)
  PROVE  holds' \in [Orders -> Nat]
  BY DEF Typed, TypeOK, DropHolds

LEMMA PromoMoves ==
  ASSUME Typed, NEW S, NEW to \in {"used", "released"}, MovePromo(S, to)
  PROVE  promo' \in [Orders -> {"none", "held", "used", "released"}]
  BY DEF Typed, TypeOK, MovePromo

LEMMA InvoiceVoided ==
  ASSUME Typed, NEW i, VoidInvoice(i)
  PROVE  invoice' \in [Invoices -> {"absent", "awaiting", "paid", "cancelled"}]
  BY DEF Typed, TypeOK, VoidInvoice

LEMMA TypePayRequest ==
  ASSUME Typed, NEW c \in Payers, NEW o \in Orders, NEW src \in Sources,
         NEW late \in BOOLEAN, NEW tx \in Txs \cup {None},
         PayRequest(c, o, src, late, tx)
  PROVE  Typed'
<1> DEFINE r == [pay[c] EXCEPT !.pc = "proof", !.o = o, !.src = src,
                              !.late = late, !.ranOut = order[o].due,
                              !.tx = tx, !.inv = order[o].inv]
<1>1. pay[c] \in PayCall /\ order[o] \in Order
  BY DEF Typed, TypeOK
<1>2. r \in PayCall /\ r.o = o
  BY <1>1 DEF PayCall, PayPc, Order
<1>3. pay' = [pay EXCEPT ![c] = r]
  BY DEF PayRequest
<1> HIDE DEF r
<1>4. pay' \in [Payers -> PayCall] /\ PayHasOrder'
  BY <1>2, <1>3 DEF Typed, TypeOK, PayHasOrder
<1> QED BY <1>4 DEF Typed, TypeOK, PayRequest

LEMMA TypePayRead ==
  ASSUME Typed, NEW c \in Payers, PayRead(c)
  PROVE  Typed'
<1>1. CASE ~MayClaim(c)
  BY <1>1, CallEnds DEF PayRead, Typed, TypeOK
<1>2. CASE MayClaim(c)
  <2> DEFINE r == [pay[c] EXCEPT !.pc = "claim",
                                 !.saw = order[pay[c].o].status,
                                 !.inv = order[pay[c].o].inv]
  <2>1. pay[c] \in PayCall
    BY DEF Typed, TypeOK
  <2>2. pay[c].o \in Orders
    BY DEF Typed, PayHasOrder, PayRead
  <2>3. order[pay[c].o] \in Order
    BY <2>2 DEF Typed, TypeOK
  <2>4. r \in PayCall /\ r.o \in Orders
    BY <2>1, <2>2, <2>3 DEF PayCall, PayPc, Order
  <2>5. pay' = [pay EXCEPT ![c] = r]
    BY <1>2 DEF PayRead
  <2> HIDE DEF r
  <2>6. pay' \in [Payers -> PayCall] /\ PayHasOrder'
    BY <2>4, <2>5 DEF Typed, TypeOK, PayHasOrder
  <2> QED BY <2>6 DEF PayRead, Typed, TypeOK
<1> QED BY <1>1, <1>2

LEMMA TypePayClaim ==
  ASSUME Typed, NEW c \in Payers, PayClaim(c)
  PROVE  Typed'
<1>1. CASE ~ClaimFilter(c)
  BY <1>1, CallEnds DEF PayClaim, Typed, TypeOK
<1>2. CASE ClaimFilter(c)
  <2> DEFINE o == pay[c].o
             r == [pay[c] EXCEPT !.pc = "invoice", !.inv = order[o].inv,
                                 !.mode = order[o].mode,
                                 !.applied = order[o].applied]
             d == [order[o] EXCEPT !.status = "processing", !.claim = c,
                                   !.tx = IF pay[c].tx = None
                                          THEN order[o].tx ELSE pay[c].tx]
  <2>1. pay[c] \in PayCall
    BY DEF Typed, TypeOK
  <2>2. o \in Orders
    BY DEF Typed, PayHasOrder, PayClaim
  <2>3. order[o] \in Order
    BY <2>2 DEF Typed, TypeOK
  <2>4. r \in PayCall /\ r.o \in Orders
    BY <2>1, <2>2, <2>3 DEF PayCall, PayPc, Order
  <2>5. d \in Order
    BY <2>1, <2>3 DEF PayCall, Order, Status
  <2>6. pay' = [pay EXCEPT ![c] = r] /\ order' = [order EXCEPT ![o] = d]
    BY <1>2 DEF PayClaim
  <2> HIDE DEF r, d
  <2>7. pay' \in [Payers -> PayCall] /\ PayHasOrder'
    BY <2>4, <2>6 DEF Typed, TypeOK, PayHasOrder
  <2>8. order' \in [Orders -> Order]
    BY <2>5, <2>6 DEF Typed, TypeOK
  <2> QED BY <2>7, <2>8 DEF PayClaim, Typed, TypeOK
<1> QED BY <1>1, <1>2

LEMMA TypePayKeepInvoice ==
  ASSUME Typed, NEW c \in Payers, PayKeepInvoice(c)
  PROVE  Typed'
  BY CallMoves DEF PayKeepInvoice, PayPc, Typed, TypeOK

LEMMA TypePayCollect ==
  ASSUME Typed, NEW c \in Payers, PayCollect(c)
  PROVE  Typed'
<1> DEFINE i == IF pay[c].inv = None THEN c ELSE pay[c].inv
<1>1. pay[c] \in PayCall /\ pay[c].o \in Orders
  BY DEF Typed, TypeOK, PayHasOrder, PayCollect
<1>2. i \in Invoices
  BY <1>1 DEF PayCall, Invoices
<1>3. PICK pc \in {"write", "fail"} :
        pay' = [pay EXCEPT ![c] = [@ EXCEPT !.pc = pc, !.inv = i]]
  BY DEF PayCollect
<1>4. invoice' = invoice \/ invoice' = [invoice EXCEPT ![i] = "paid"]
  BY DEF PayCollect
<1> DEFINE r == [pay[c] EXCEPT !.pc = pc, !.inv = i]
<1>5. r \in PayCall /\ r.o \in Orders
  BY <1>1, <1>2 DEF PayCall, PayPc
<1>6. pay' = [pay EXCEPT ![c] = r]
  BY <1>3
<1> HIDE DEF r, i
<1>7. pay' \in [Payers -> PayCall] /\ PayHasOrder'
  BY <1>5, <1>6 DEF Typed, TypeOK, PayHasOrder
<1>8. invoice' \in [Invoices -> {"absent", "awaiting", "paid", "cancelled"}]
  BY <1>4 DEF Typed, TypeOK
<1> QED BY <1>7, <1>8 DEF PayCollect, Typed, TypeOK

LEMMA TypePayWriteInvoice ==
  ASSUME Typed, NEW c \in Payers, PayWriteInvoice(c)
  PROVE  Typed'
<1>1. CASE PayEnds(c) /\ UNCHANGED order
  BY <1>1, CallEnds DEF PayWriteInvoice, Typed, TypeOK
<1>3. CASE pay' = [pay EXCEPT ![c].pc = "fail"] /\ UNCHANGED order
  BY <1>3, CallMoves DEF PayWriteInvoice, PayPc, Typed, TypeOK
<1>2. CASE ~(PayEnds(c) /\ UNCHANGED order) /\ ~(pay' = [pay EXCEPT ![c].pc = "fail"] /\ UNCHANGED order)
  <2> DEFINE d == [order[pay[c].o] EXCEPT !.inv = pay[c].inv, !.mode = "paid",
                                          !.voided = FALSE]
  <2>1. pay[c] \in PayCall /\ pay[c].o \in Orders
    BY DEF Typed, TypeOK, PayHasOrder, PayWriteInvoice
  <2>2. order[pay[c].o] \in Order
    BY <2>1 DEF Typed, TypeOK
  <2>3. d \in Order
    BY <2>1, <2>2 DEF PayCall, Order
  <2>4. /\ order' = [order EXCEPT ![pay[c].o] = d]
        /\ \E pc \in {"stock", "fail"} : pay' = [pay EXCEPT ![c].pc = pc]
    BY <1>2 DEF PayWriteInvoice
  <2> HIDE DEF d
  <2>5. order' \in [Orders -> Order]
    BY <2>3, <2>4 DEF Typed, TypeOK
  <2>6. pay' \in [Payers -> PayCall] /\ PayHasOrder'
    BY <2>4, CallMoves DEF PayWriteInvoice, PayPc
  <2> QED BY <2>5, <2>6 DEF PayWriteInvoice, Typed, TypeOK
<1> QED BY <1>1, <1>2, <1>3

LEMMA TypePayFail ==
  ASSUME Typed, NEW c \in Payers, PayFail(c)
  PROVE  Typed'
<1>1. pay[c].o \in Orders
  BY DEF Typed, PayHasOrder, PayFail
<1>2. order[pay[c].o] \in Order
  BY <1>1 DEF Typed, TypeOK
<1>3. [order[pay[c].o] EXCEPT !.status = "failed"] \in Order
  BY <1>2 DEF Order, Status
<1>4. order' \in [Orders -> Order]
  BY <1>3 DEF Typed, TypeOK, PayFail
<1>5. pay' \in [Payers -> PayCall] /\ PayHasOrder'
  BY CallEnds DEF PayFail
<1> QED BY <1>4, <1>5 DEF PayFail, Typed, TypeOK

LEMMA TypePayDeduct ==
  ASSUME Typed, NEW c \in Payers, PayDeduct(c)
  PROVE  Typed'
<1>1. pay' \in [Payers -> PayCall] /\ PayHasOrder'
  BY CallMoves DEF PayDeduct, PayPc
<1>2. deducted' \in [Orders -> SUBSET Payers]
  BY DEF Typed, TypeOK, PayDeduct
<1> QED BY <1>1, <1>2 DEF PayDeduct, Typed, TypeOK

LEMMA TypePayConsumeHolds ==
  ASSUME Typed, NEW c \in Payers, PayConsumeHolds(c)
  PROVE  Typed'
<1>1. pay' \in [Payers -> PayCall] /\ PayHasOrder'
  BY CallMoves DEF PayConsumeHolds, PayPc
<1>2. holds' \in [Orders -> Nat]
  BY HoldsDrop DEF PayConsumeHolds
<1> QED BY <1>1, <1>2 DEF PayConsumeHolds, Typed, TypeOK

LEMMA TypePayFinish ==
  ASSUME Typed, NEW c \in Payers, PayFinish(c)
  PROVE  Typed'
<1>1. CASE ~OwnedClaim(c)
  BY <1>1, CallEnds DEF PayFinish, Typed, TypeOK
<1>2. CASE OwnedClaim(c)
  <2>1. pay[c] \in PayCall /\ pay[c].o \in Orders
    BY DEF Typed, TypeOK, PayHasOrder, PayFinish
  <2>2. order[pay[c].o] \in Order
    BY <2>1 DEF Typed, TypeOK
  <2>3. PICK stage \in {"cho_xu_ly", "thieu_hang"} :
          order' = [order EXCEPT ![pay[c].o] =
                        [@ EXCEPT !.status = "paid", !.stage = stage,
                                  !.applied = TRUE, !.inv = pay[c].inv,
                                  !.mode = "paid", !.paidBy = c]]
    BY <1>2 DEF PayFinish
  <2> DEFINE d == [order[pay[c].o] EXCEPT
                      !.status = "paid", !.stage = stage, !.applied = TRUE,
                      !.inv = pay[c].inv, !.mode = "paid", !.paidBy = c]
  <2>4. d \in Order
    BY <2>1, <2>2 DEF PayCall, Order, Status, Stage
  <2>5. order' = [order EXCEPT ![pay[c].o] = d]
    BY <2>3
  <2> HIDE DEF d
  <2>6. order' \in [Orders -> Order]
    BY <2>4, <2>5 DEF Typed, TypeOK
  <2>7. pay' \in [Payers -> PayCall] /\ PayHasOrder'
    BY <1>2, CallMoves DEF PayFinish, PayPc
  <2> QED BY <2>6, <2>7 DEF PayFinish, Typed, TypeOK
<1> QED BY <1>1, <1>2

LEMMA TypePayRedeem ==
  ASSUME Typed, NEW c \in Payers, PayRedeem(c)
  PROVE  Typed'
<1>1. pay' \in [Payers -> PayCall] /\ PayHasOrder'
  BY CallEnds DEF PayRedeem
<1>2. promo' \in [Orders -> {"none", "held", "used", "released"}]
  BY PromoMoves DEF PayRedeem
<1> QED BY <1>1, <1>2 DEF PayRedeem, Typed, TypeOK

LEMMA TypePayCrash ==
  ASSUME Typed, NEW c \in Payers, PayCrash(c)
  PROVE  Typed'
<1>1. pay' \in [Payers -> PayCall] /\ PayHasOrder'
  BY CallMoves DEF PayCrash, InFlight, PayPc
<1>2. crashes' \in 0..MaxCrashes
  BY BoundAssumption DEF Typed, TypeOK, PayCrash
<1> QED BY <1>1, <1>2 DEF PayCrash, Typed, TypeOK

\* No other handler touches the calls.
LEMMA PayKept ==
  ASSUME Typed, pay' = pay
  PROVE  PayHasOrder'
  BY DEF Typed, PayHasOrder

LEMMA TypeSweepFind ==
  ASSUME Typed, NEW s \in Sweeps, SweepFind(s)
  PROVE  Typed'
<1> DEFINE found == {o \in Orders : order[o].status = "unpaid" /\ order[o].due}
           inv == [o \in Orders |-> IF o \in found THEN order[o].inv ELSE None]
           r == [sweep[s] EXCEPT !.pc = "cancel", !.batch = found,
                                 !.todo = found, !.inv = inv]
<1>1. sweep[s] \in SweepRun /\ sweep' = [sweep EXCEPT ![s] = r]
  BY DEF SweepFind, Typed, TypeOK
<1>2. inv \in [Orders -> Invoices \cup {None}]
  BY DEF Typed, TypeOK, Order
<1>3. found \in SUBSET Orders
  OBVIOUS
<1> HIDE DEF found, inv
<1>4. r \in SweepRun
  BY <1>1, <1>2, <1>3 DEF SweepRun
<1> HIDE DEF r
<1>5. sweep' \in [Sweeps -> SweepRun]
  BY <1>1, <1>4 DEF Typed, TypeOK
<1> QED BY <1>5, PayKept DEF SweepFind, Typed, TypeOK

LEMMA RunMoves ==
  ASSUME Typed, NEW s \in Sweeps, NEW o, NEW todo \in SUBSET Orders,
         NEW pc \in {"update", "holds"}, SweepNext(s, o, pc, todo)
  PROVE  sweep' \in [Sweeps -> SweepRun]
<1>1. sweep[s] \in SweepRun
  BY DEF Typed, TypeOK
<1>2. [sweep[s] EXCEPT !.pc = pc, !.todo = todo] \in SweepRun
  BY <1>1 DEF SweepRun
<1>3. [sweep[s] EXCEPT !.todo = @ \ {o}] \in SweepRun
  BY <1>1 DEF SweepRun
<1>4. \/ sweep' = [sweep EXCEPT ![s] =
                     [sweep[s] EXCEPT !.pc = pc, !.todo = todo]]
      \/ sweep' = [sweep EXCEPT ![s] = [sweep[s] EXCEPT !.todo = @ \ {o}]]
  BY DEF SweepNext
<1> QED BY <1>2, <1>3, <1>4 DEF Typed, TypeOK

LEMMA TypeSweepCancelInvoice ==
  ASSUME Typed, NEW s \in Sweeps, NEW o \in Orders, SweepCancelInvoice(s, o)
  PROVE  Typed'
<1>1. sweep[s].batch \in SUBSET Orders
  BY DEF Typed, TypeOK, SweepRun
<1>2. sweep' \in [Sweeps -> SweepRun]
  BY <1>1, RunMoves DEF SweepCancelInvoice
<1>3. invoice' \in [Invoices -> {"absent", "awaiting", "paid", "cancelled"}]
  BY InvoiceVoided DEF SweepCancelInvoice
<1> QED BY <1>2, <1>3, PayKept DEF SweepCancelInvoice, Typed, TypeOK

LEMMA TypeSweepUpdate ==
  ASSUME Typed, NEW s \in Sweeps, NEW o \in Orders, SweepUpdate(s, o)
  PROVE  Typed'
<1>1. sweep' \in [Sweeps -> SweepRun]
  BY RunMoves DEF SweepUpdate
<1>2. order[o] \in Order
  BY DEF Typed, TypeOK
<1>3. [order[o] EXCEPT !.status = "expired", !.stage = "huy", !.voided = TRUE]
        \in Order
  BY <1>2 DEF Order, Status, Stage
<1>4. order' \in [Orders -> Order]
  BY <1>3 DEF SweepUpdate, Typed, TypeOK
<1> QED BY <1>1, <1>4, PayKept DEF SweepUpdate, Typed, TypeOK

LEMMA TypeSweepReleaseHolds ==
  ASSUME Typed, NEW s \in Sweeps, SweepReleaseHolds(s)
  PROVE  Typed'
<1>1. sweep[s] \in SweepRun
  BY DEF Typed, TypeOK
<1>2. sweep' \in [Sweeps -> SweepRun]
  BY <1>1 DEF SweepReleaseHolds, SweepRun, Typed, TypeOK
<1>3. holds' \in [Orders -> Nat]
  BY HoldsDrop DEF SweepReleaseHolds
<1> QED BY <1>2, <1>3, PayKept DEF SweepReleaseHolds, Typed, TypeOK

LEMMA TypeSweepReleasePromo ==
  ASSUME Typed, NEW s \in Sweeps, SweepReleasePromo(s)
  PROVE  Typed'
<1>1. sweep' \in [Sweeps -> SweepRun]
  BY EndedRun DEF SweepReleasePromo, SweepEnds, Typed, TypeOK
<1>2. promo' \in [Orders -> {"none", "held", "used", "released"}]
  BY PromoMoves DEF SweepReleasePromo
<1> QED BY <1>1, <1>2, PayKept DEF SweepReleasePromo, Typed, TypeOK

LEMMA TypeSweepCrash ==
  ASSUME Typed, NEW s \in Sweeps, SweepCrash(s)
  PROVE  Typed'
<1>1. sweep' \in [Sweeps -> SweepRun]
  BY EndedRun DEF SweepCrash, SweepEnds, Typed, TypeOK
<1>2. crashes' \in 0..MaxCrashes
  BY BoundAssumption DEF Typed, TypeOK, SweepCrash
<1> QED BY <1>1, <1>2, PayKept DEF SweepCrash, Typed, TypeOK

LEMMA TypeRenewRead ==
  ASSUME Typed, NEW r \in Renewals, NEW o \in Orders, RenewRead(r, o)
  PROVE  Typed'
<1> DEFINE q == [renew[r] EXCEPT !.pc = "create", !.o = o,
                                 !.old = order[o].inv,
                                 !.voided = order[o].voided,
                                 !.renews = order[o].renews]
<1>1. renew[r] \in RenewReq /\ order[o] \in Order
  BY DEF Typed, TypeOK
<1>2. q \in RenewReq
  BY <1>1 DEF RenewReq, Order
<1>3. renew' = [renew EXCEPT ![r] = q]
  BY DEF RenewRead
<1> HIDE DEF q
<1>4. renew' \in [Renewals -> RenewReq]
  BY <1>2, <1>3 DEF Typed, TypeOK
<1> QED BY <1>4, PayKept DEF RenewRead, Typed, TypeOK

LEMMA RenewMoves ==
  ASSUME Typed, NEW r \in Renewals,
         NEW pc \in {"void", "renew", "extend", "hold"},
         renew' = [renew EXCEPT ![r].pc = pc]
  PROVE  renew' \in [Renewals -> RenewReq]
<1>1. renew[r] \in RenewReq
  BY DEF Typed, TypeOK
<1>2. [renew[r] EXCEPT !.pc = pc] \in RenewReq
  BY <1>1 DEF RenewReq
<1> QED BY <1>2 DEF Typed, TypeOK

LEMMA RenewStops ==
  ASSUME Typed, NEW r \in Renewals, RenewEnds(r)
  PROVE  renew' \in [Renewals -> RenewReq]
  BY EndedRenew DEF RenewEnds, Typed, TypeOK

LEMMA TypeRenewCreateInvoice ==
  ASSUME Typed, NEW r \in Renewals, RenewCreateInvoice(r)
  PROVE  Typed'
<1>1. renew[r] \in RenewReq
  BY DEF Typed, TypeOK
<1>2. [renew[r] EXCEPT !.pc = "void", !.new = r] \in RenewReq
  BY <1>1 DEF RenewReq
<1>3. renew' \in [Renewals -> RenewReq]
  <2>1. CASE RenewEnds(r)
    BY <2>1, RenewStops
  <2>2. CASE renew' = [renew EXCEPT ![r].pc = "void"]
    BY <2>2, RenewMoves
  <2>3. CASE renew' = [renew EXCEPT ![r] = [renew[r] EXCEPT !.pc = "void",
                                                            !.new = r]]
    BY <1>2, <2>3 DEF Typed, TypeOK
  <2> QED BY <2>1, <2>2, <2>3 DEF RenewCreateInvoice
<1>4. invoice' \in [Invoices -> {"absent", "awaiting", "paid", "cancelled"}]
  BY DEF RenewCreateInvoice, Typed, TypeOK
<1> QED BY <1>3, <1>4, PayKept DEF RenewCreateInvoice, Typed, TypeOK

LEMMA TypeRenewVoidOld ==
  ASSUME Typed, NEW r \in Renewals, RenewVoidOld(r)
  PROVE  Typed'
<1>1. renew' \in [Renewals -> RenewReq]
  BY RenewMoves DEF RenewVoidOld
<1>2. invoice' \in [Invoices -> {"absent", "awaiting", "paid", "cancelled"}]
  BY InvoiceVoided DEF RenewVoidOld, Typed, TypeOK
<1> QED BY <1>1, <1>2, PayKept DEF RenewVoidOld, Typed, TypeOK

LEMMA TypeRenewOrder ==
  ASSUME Typed, NEW r \in Renewals, RenewOrder(r)
  PROVE  Typed'
<1> DEFINE o == renew[r].o
<1>1. CASE order[o].status \notin {"unpaid", "expired"}
  BY <1>1, RenewStops, PayKept DEF RenewOrder, Typed, TypeOK
<1>2. CASE order[o].status \in {"unpaid", "expired"}
  <2> DEFINE d == [order[o] EXCEPT
                      !.status = "unpaid", !.stage = "cho_thanh_toan",
                      !.due = FALSE, !.inv = renew[r].new,
                      !.mode = IF renew[r].new = None
                               THEN "none" ELSE "awaiting",
                      !.voided = renew[r].old # None \/ renew[r].voided,
                      !.renews = renew[r].renews + 1]
  <2>1. renew[r] \in RenewReq
    BY DEF Typed, TypeOK
  <2>2. /\ order' = [order EXCEPT ![o] = d]
         /\ renew' = [renew EXCEPT ![r].pc = "extend"]
    BY <1>2 DEF RenewOrder
  <2>3. ASSUME o \in Orders PROVE d \in Order
    <3>1. order[o] \in Order
      BY <2>3 DEF Typed, TypeOK
    <3>2. /\ renew[r].new \in Invoices \cup {None}
          /\ renew[r].renews + 1 \in Nat
      BY <2>1 DEF RenewReq, Invoices
    <3>3. ASSUME NEW inv \in Invoices \cup {None}, NEW n \in Nat,
                 NEW mode \in {"none", "awaiting"}, NEW voided \in BOOLEAN
          PROVE  [order[o] EXCEPT
                     !.status = "unpaid", !.stage = "cho_thanh_toan",
                     !.due = FALSE, !.inv = inv, !.mode = mode,
                     !.voided = voided, !.renews = n] \in Order
      BY <3>1 DEF Order, Status, Stage
    <3>4. (IF renew[r].new = None THEN "none" ELSE "awaiting")
             \in {"none", "awaiting"}
      OBVIOUS
    <3>5. (renew[r].old # None \/ renew[r].voided) \in BOOLEAN
      OBVIOUS
    <3> QED BY ONLY <3>2, <3>3, <3>4, <3>5 
  <2> HIDE DEF d
  <2>4. order' \in [Orders -> Order]
    BY <2>2, <2>3 DEF Typed, TypeOK
  <2>5. renew' \in [Renewals -> RenewReq]
    BY <2>2, RenewMoves
  <2> QED BY <2>4, <2>5, PayKept DEF RenewOrder, Typed, TypeOK
<1> QED BY <1>1, <1>2

LEMMA TypeRenewExtend ==
  ASSUME Typed, NEW r \in Renewals, RenewExtend(r)
  PROVE  Typed'
<1>1. renew' \in [Renewals -> RenewReq]
  BY RenewMoves, RenewStops DEF RenewExtend
<1> QED BY <1>1, PayKept DEF RenewExtend, Typed, TypeOK

LEMMA TypeRenewHold ==
  ASSUME Typed, NEW r \in Renewals, RenewHold(r)
  PROVE  Typed'
<1>1. renew' \in [Renewals -> RenewReq]
  BY RenewStops DEF RenewHold
<1>2. holds' \in [Orders -> Nat]
  BY DEF RenewHold, Typed, TypeOK
<1> QED BY <1>1, <1>2, PayKept DEF RenewHold, Typed, TypeOK

LEMMA TypeCancelOrder ==
  ASSUME Typed, NEW k \in Cancels, NEW o \in Orders, CancelOrder(k, o)
  PROVE  Typed'
<1> DEFINE q == [cancel[k] EXCEPT !.pc = "holds", !.o = o,
                                  !.inv = IF order[o].voided
                                          THEN None ELSE order[o].inv]
<1>1. cancel[k] \in CancelReq /\ order[o] \in Order
  BY DEF Typed, TypeOK
<1>2. q \in CancelReq
  BY <1>1 DEF CancelReq, Order
<1>3. [order[o] EXCEPT !.status = "cancelled", !.stage = "huy"] \in Order
  BY <1>1 DEF Order, Status, Stage
<1>4. cancel' = [cancel EXCEPT ![k] = q]
  BY DEF CancelOrder
<1> HIDE DEF q
<1>5. cancel' \in [Cancels -> CancelReq]
  BY <1>2, <1>4 DEF Typed, TypeOK
<1>6. order' \in [Orders -> Order]
  BY <1>3 DEF CancelOrder, Typed, TypeOK
<1> QED BY <1>5, <1>6, PayKept DEF CancelOrder, Typed, TypeOK

LEMMA CancelMoves ==
  ASSUME Typed, NEW k \in Cancels,
         \/ CancelEnds(k)
         \/ \E pc \in {"promo", "kv", "note"} :
              cancel' = [cancel EXCEPT ![k].pc = pc]
  PROVE  cancel' \in [Cancels -> CancelReq]
<1>1. CASE CancelEnds(k)
  BY <1>1, EndedCancel DEF CancelEnds, Typed, TypeOK
<1>2. ASSUME NEW pc \in {"promo", "kv", "note"},
             cancel' = [cancel EXCEPT ![k].pc = pc]
      PROVE  cancel' \in [Cancels -> CancelReq]
  <2>1. cancel[k] \in CancelReq
    BY DEF Typed, TypeOK
  <2>2. [cancel[k] EXCEPT !.pc = pc] \in CancelReq
    BY <2>1 DEF CancelReq
  <2> QED BY <1>2, <2>2 DEF Typed, TypeOK
<1> QED BY <1>1, <1>2

LEMMA TypeCancelStep ==
  ASSUME Typed, NEW k \in Cancels, CancelStep(k)
  PROVE  Typed'
<1>1. cancel' \in [Cancels -> CancelReq]
  BY CancelMoves DEF CancelStep, CancelReleaseHolds, CancelReleasePromo,
                     CancelVoidInvoice, CancelNote
<1>2. CASE CancelReleaseHolds(k)
  BY <1>1, <1>2, HoldsDrop, PayKept DEF CancelReleaseHolds, Typed, TypeOK
<1>3. CASE CancelReleasePromo(k)
  BY <1>1, <1>3, PromoMoves, PayKept DEF CancelReleasePromo, Typed, TypeOK
<1>4. CASE CancelVoidInvoice(k)
  BY <1>1, <1>4, InvoiceVoided, PayKept DEF CancelVoidInvoice, Typed, TypeOK
<1>5. CASE CancelNote(k)
  <2> DEFINE o == cancel[k].o
             d == [order[o] EXCEPT !.voided = TRUE, !.mode = "none"]
  <2>1. ASSUME o \in Orders PROVE d \in Order
    <3>1. order[o] \in Order
      BY <2>1 DEF Typed, TypeOK
    <3> QED BY <3>1 DEF Order
  <2>2. order' = [order EXCEPT ![o] = d]
    BY <1>5 DEF CancelNote
  <2> HIDE DEF d
  <2>3. order' \in [Orders -> Order]
    BY <2>1, <2>2 DEF Typed, TypeOK
  <2> QED BY <1>1, <1>5, <2>3, PayKept DEF CancelNote, Typed, TypeOK
<1> QED BY <1>2, <1>3, <1>4, <1>5 DEF CancelStep

LEMMA TypeReview ==
  ASSUME Typed, NEW r \in Reviews,
         (\E o \in Orders : ReviewRead(r, o)) \/ ReviewWrite(r)
  PROVE  Typed'
<1>1. review[r] \in ReviewCall
  BY DEF Typed, TypeOK
<1>2. CASE ReviewWrite(r)
  <2> DEFINE o == review[r].o
             d == [order[o] EXCEPT !.status = "underpaid"]
  <2>1. ASSUME o \in Orders PROVE d \in Order
    <3>1. order[o] \in Order
      BY <2>1 DEF Typed, TypeOK
    <3> QED BY <3>1 DEF Order, Status
  <2>2. order' = [order EXCEPT ![o] = d]
    BY <1>2 DEF ReviewWrite
  <2>3. broken' \in [Orders -> SUBSET Reviews]
    BY <1>2 DEF ReviewWrite, Typed, TypeOK
  <2>4. review' \in [Reviews -> ReviewCall]
    BY <1>2, EndedReview DEF ReviewWrite, ReviewEnds, Typed, TypeOK
  <2> HIDE DEF d
  <2>5. order' \in [Orders -> Order]
    BY <2>1, <2>2 DEF Typed, TypeOK
  <2> QED BY <1>2, <2>3, <2>4, <2>5, PayKept DEF ReviewWrite, Typed, TypeOK
<1>3. ASSUME NEW o \in Orders, ReviewRead(r, o)
      PROVE  Typed'
  <2>1. [review[r] EXCEPT !.pc = "write", !.o = o] \in ReviewCall
    BY <1>1 DEF ReviewCall
  <2>2. review' \in [Reviews -> ReviewCall]
    BY <1>3, <2>1, EndedReview DEF ReviewRead, ReviewEnds, Typed, TypeOK
  <2> QED BY <1>3, <2>2, PayKept DEF ReviewRead, Typed, TypeOK
<1> QED BY <1>2, <1>3

LEMMA TypeWorld ==
  ASSUME Typed,
         \/ \E o \in Orders : TimePasses(o)
         \/ \E i \in Invoices : CustomerPays(i)
  PROVE  Typed'
<1>1. ASSUME NEW o \in Orders, TimePasses(o)
      PROVE  Typed'
  <2>1. order[o] \in Order
    BY DEF Typed, TypeOK
  <2>2. [order[o] EXCEPT !.due = TRUE] \in Order
    BY <2>1 DEF Order
  <2>3. order' \in [Orders -> Order]
    BY <1>1, <2>2 DEF TimePasses, Typed, TypeOK
  <2> QED BY <1>1, <2>3, PayKept DEF TimePasses, Typed, TypeOK
<1>2. ASSUME NEW i \in Invoices, CustomerPays(i)
      PROVE  Typed'
  BY <1>2, PayKept DEF CustomerPays, Typed, TypeOK
<1> QED BY <1>1, <1>2

LEMMA TypeStutter ==
  ASSUME Typed, UNCHANGED vars
  PROVE  Typed'
  BY PayKept DEF vars, Typed, TypeOK

LEMMA TypeNext == Typed /\ [Next]_vars => Typed'
<1> SUFFICES ASSUME Typed, [Next]_vars
             PROVE  Typed'
  OBVIOUS
<1>1. ASSUME NEW c \in Payers, PayStep(c) PROVE Typed'
  BY <1>1, TypePayRead, TypePayClaim, TypePayKeepInvoice, TypePayCollect,
     TypePayWriteInvoice, TypePayFail, TypePayDeduct, TypePayConsumeHolds,
     TypePayFinish, TypePayRedeem DEF PayStep
<1>2. ASSUME NEW s \in Sweeps, SweepStep(s) PROVE Typed'
  BY <1>2, TypeSweepFind, TypeSweepCancelInvoice, TypeSweepUpdate,
     TypeSweepReleaseHolds, TypeSweepReleasePromo DEF SweepStep
<1>3. ASSUME NEW r \in Renewals, RenewStep(r) PROVE Typed'
  BY <1>3, TypeRenewCreateInvoice, TypeRenewVoidOld, TypeRenewOrder,
     TypeRenewExtend, TypeRenewHold DEF RenewStep
<1> QED
  BY <1>1, <1>2, <1>3, TypePayRequest, TypePayCrash, TypeSweepCrash,
     TypeRenewRead, TypeCancelOrder, TypeCancelStep, TypeReview, TypeWorld,
     TypeStutter DEF Next

\* Every field, local and counter of the handlers keeps its type; the
\* inductive invariant is Typed, since a call writes to the order it names.
THEOREM TypeCorrect == Spec => []TypeOK
<1>1. Init => Typed
  BY TypeInit
<1>2. Typed /\ [Next]_vars => Typed'
  BY TypeNext
<1>3. Typed => TypeOK
  BY DEF Typed
<1> QED BY <1>1, <1>2, <1>3, PTL DEF Spec

-----------------------------------------------------------------------------
(* Steps of the handlers other than markShopOrderPaid and the review. *)

\* They leave the calls alone, and an order's claim, settlement, transaction
\* and stock too; they move only an order nobody has claimed or flagged.
Quiet ==
  /\ pay' = pay /\ deducted' = deducted /\ broken' = broken
  /\ \A o \in Orders :
       /\ order'[o].claim = order[o].claim
       /\ order'[o].paidBy = order[o].paidBy
       /\ order'[o].tx = order[o].tx
       /\ order'[o].applied = order[o].applied
       /\ \/ /\ order'[o].status = order[o].status
             /\ order'[o].stage = order[o].stage
          \/ /\ order[o].status \in {"unpaid", "expired"}
             /\ order'[o].status \in {"unpaid", "expired", "cancelled"}

\* A step touches one order.
OneAtATime == \E o : \A p \in Orders \ {o} : order'[p] = order[p]

OtherStep ==
  \/ \E s \in Sweeps : SweepStep(s) \/ SweepCrash(s)
  \/ \E r \in Renewals : (\E o \in Orders : RenewRead(r, o)) \/ RenewStep(r)
  \/ \E k \in Cancels : (\E o \in Orders : CancelOrder(k, o)) \/ CancelStep(k)
  \/ \E r \in Reviews : \E o \in Orders : ReviewRead(r, o)
  \/ \E o \in Orders : TimePasses(o)
  \/ \E i \in Invoices : CustomerPays(i)
  \/ UNCHANGED vars

LEMMA OtherIsQuiet == Typed /\ OtherStep => Quiet
<1> SUFFICES ASSUME Typed, OtherStep PROVE Quiet
  OBVIOUS
<1> USE DEF Quiet, Typed, TypeOK
<1>1. ASSUME NEW s \in Sweeps, SweepStep(s) \/ SweepCrash(s) PROVE Quiet
  <2>1. CASE \E o \in Orders : SweepUpdate(s, o)
    <3>1. PICK o \in Orders : SweepUpdate(s, o)
      BY <2>1
    <3>2. order[o] \in Order
      OBVIOUS
    <3> DEFINE d == [order[o] EXCEPT !.status = "expired", !.stage = "huy",
                                     !.voided = TRUE]
    <3>3. /\ d.status = "expired" /\ d.claim = order[o].claim
          /\ d.paidBy = order[o].paidBy /\ d.tx = order[o].tx
          /\ d.applied = order[o].applied
      BY <3>2 DEF Order
    <3>4. \/ order' = order
          \/ order[o].status = "unpaid" /\ order' = [order EXCEPT ![o] = d]
      BY <3>1 DEF SweepUpdate
    <3> HIDE DEF d
    <3> QED BY <3>1, <3>3, <3>4 DEF SweepUpdate
  <2>2. CASE ~\E o \in Orders : SweepUpdate(s, o)
    BY <1>1, <2>2 DEF SweepStep, SweepCrash, SweepFind, SweepCancelInvoice,
                      SweepReleaseHolds, SweepReleasePromo
  <2> QED BY <2>1, <2>2
<1>2. ASSUME NEW r \in Renewals,
             (\E o \in Orders : RenewRead(r, o)) \/ RenewStep(r)
      PROVE  Quiet
  <2>1. CASE RenewOrder(r)
    <3> DEFINE o == renew[r].o
               d == [order[o] EXCEPT
                        !.status = "unpaid", !.stage = "cho_thanh_toan",
                        !.due = FALSE, !.inv = renew[r].new,
                        !.mode = IF renew[r].new = None
                                 THEN "none" ELSE "awaiting",
                        !.voided = renew[r].old # None \/ renew[r].voided,
                        !.renews = renew[r].renews + 1]
    <3>1. o \in Orders =>
            /\ d.status = "unpaid" /\ d.claim = order[o].claim
            /\ d.paidBy = order[o].paidBy /\ d.tx = order[o].tx
            /\ d.applied = order[o].applied
      BY DEF Order
    <3>2. \/ order' = order
          \/ /\ order[o].status \in {"unpaid", "expired"}
             /\ order' = [order EXCEPT ![o] = d]
      BY <2>1 DEF RenewOrder
    <3> HIDE DEF d
    <3> QED BY <2>1, <3>1, <3>2 DEF RenewOrder
  <2>2. CASE ~RenewOrder(r)
    BY <1>2, <2>2 DEF RenewRead, RenewStep, RenewCreateInvoice, RenewVoidOld,
                      RenewExtend, RenewHold
  <2> QED BY <2>1, <2>2
<1>3. ASSUME NEW k \in Cancels,
             (\E o \in Orders : CancelOrder(k, o)) \/ CancelStep(k)
      PROVE  Quiet
  <2>1. ASSUME NEW o \in Orders, CancelOrder(k, o) PROVE Quiet
    BY <2>1 DEF CancelOrder, Order
  <2>2. CASE CancelNote(k)
    BY <2>2 DEF CancelNote, Order
  <2>3. CASE CancelStep(k) /\ ~CancelNote(k)
    BY <2>3 DEF CancelStep, CancelReleaseHolds, CancelReleasePromo,
                CancelVoidInvoice
  <2> QED BY <1>3, <2>1, <2>2, <2>3
<1>4. ASSUME NEW r \in Reviews, NEW o \in Orders, ReviewRead(r, o) PROVE Quiet
  BY <1>4 DEF ReviewRead
<1>5. ASSUME NEW o \in Orders, TimePasses(o) PROVE Quiet
  BY <1>5 DEF TimePasses, Order
<1>6. ASSUME NEW i \in Invoices, CustomerPays(i) PROVE Quiet
  BY <1>6 DEF CustomerPays
<1>7. ASSUME UNCHANGED vars PROVE Quiet
  BY <1>7 DEF vars
<1> QED BY <1>1, <1>2, <1>3, <1>4, <1>5, <1>6, <1>7 DEF OtherStep

LEMMA OtherIsSingle == Typed /\ OtherStep => OneAtATime
<1> SUFFICES ASSUME Typed, OtherStep PROVE OneAtATime
  OBVIOUS
<1> USE DEF OneAtATime, Typed, TypeOK
<1>1. ASSUME NEW s \in Sweeps, SweepStep(s) \/ SweepCrash(s) PROVE OneAtATime
  <2>1. ASSUME NEW o \in Orders, SweepUpdate(s, o) PROVE OneAtATime
    BY <2>1 DEF SweepUpdate
  <2>2. CASE ~\E o \in Orders : SweepUpdate(s, o)
    BY <1>1, <2>2 DEF SweepStep, SweepCrash, SweepFind, SweepCancelInvoice,
                      SweepReleaseHolds, SweepReleasePromo
  <2> QED BY <2>1, <2>2
<1>2. ASSUME NEW r \in Renewals,
             (\E o \in Orders : RenewRead(r, o)) \/ RenewStep(r)
      PROVE  OneAtATime
  <2>1. CASE RenewOrder(r)
    BY <2>1 DEF RenewOrder
  <2>2. CASE ~RenewOrder(r)
    BY <1>2, <2>2 DEF RenewRead, RenewStep, RenewCreateInvoice, RenewVoidOld,
                      RenewExtend, RenewHold
  <2> QED BY <2>1, <2>2
<1>3. ASSUME NEW k \in Cancels,
             (\E o \in Orders : CancelOrder(k, o)) \/ CancelStep(k)
      PROVE  OneAtATime
  <2>1. ASSUME NEW o \in Orders, CancelOrder(k, o) PROVE OneAtATime
    BY <2>1 DEF CancelOrder
  <2>2. CASE CancelNote(k)
    BY <2>2 DEF CancelNote
  <2>3. CASE CancelStep(k) /\ ~CancelNote(k)
    BY <2>3 DEF CancelStep, CancelReleaseHolds, CancelReleasePromo,
                CancelVoidInvoice
  <2> QED BY <1>3, <2>1, <2>2, <2>3
<1>4. ASSUME NEW r \in Reviews, NEW o \in Orders, ReviewRead(r, o)
      PROVE  OneAtATime
  BY <1>4 DEF ReviewRead
<1>5. ASSUME NEW o \in Orders, TimePasses(o) PROVE OneAtATime
  BY <1>5 DEF TimePasses
<1>6. ASSUME NEW i \in Invoices, CustomerPays(i) PROVE OneAtATime
  BY <1>6 DEF CustomerPays
<1>7. ASSUME UNCHANGED vars PROVE OneAtATime
  BY <1>7 DEF vars
<1> QED BY <1>1, <1>2, <1>3, <1>4, <1>5, <1>6, <1>7 DEF OtherStep

-----------------------------------------------------------------------------
(* What each step of a call does to its order. *)

LEMMA ClaimEffect ==
  ASSUME Typed, NEW c \in Payers, PayClaim(c), ClaimFilter(c)
  PROVE  LET o == pay[c].o
         IN /\ o \in Orders
            /\ order' = [order EXCEPT ![o] = order'[o]]
            /\ order'[o].status = "processing" /\ order'[o].claim = c
            /\ order'[o].tx = IF pay[c].tx = None
                               THEN order[o].tx ELSE pay[c].tx
            /\ order'[o].paidBy = order[o].paidBy
            /\ order'[o].applied = order[o].applied
            /\ \A d \in Payers \ {c} : pay'[d] = pay[d]
            /\ pay[c].pc = "claim" /\ pay'[c].pc = "invoice"
            /\ pay'[c].o = o /\ pay'[c].applied = order[o].applied
<1> DEFINE o == pay[c].o
           r == [pay[c] EXCEPT !.pc = "invoice", !.inv = order[o].inv,
                               !.mode = order[o].mode,
                               !.applied = order[o].applied]
           q == [order[o] EXCEPT !.status = "processing", !.claim = c,
                                 !.tx = IF pay[c].tx = None
                                        THEN order[o].tx ELSE pay[c].tx]
<1>1. pay[c] \in PayCall /\ o \in Orders /\ order[o] \in Order
  BY DEF Typed, TypeOK, PayHasOrder, PayClaim
<1>2. /\ r.pc = "invoice" /\ r.o = o /\ r.applied = order[o].applied
      /\ q.status = "processing" /\ q.claim = c
      /\ q.applied = order[o].applied /\ q.paidBy = order[o].paidBy
      /\ q.tx = IF pay[c].tx = None THEN order[o].tx ELSE pay[c].tx
  BY <1>1 DEF PayCall, Order
<1>3. /\ pay' = [pay EXCEPT ![c] = r] /\ order' = [order EXCEPT ![o] = q]
      /\ pay[c].pc = "claim"
  BY DEF PayClaim
<1> HIDE DEF r, q
<1>4. /\ \A d \in Payers \ {c} : pay'[d] = pay[d]
      /\ pay'[c] = r /\ order'[o] = q
      /\ order' = [order EXCEPT ![o] = order'[o]]
  BY <1>1, <1>3 DEF Typed, TypeOK
<1> QED BY <1>1, <1>2, <1>3, <1>4

LEMMA WriteInvoiceEffect ==
  ASSUME Typed, NEW c \in Payers, PayWriteInvoice(c)
  PROVE  /\ \A p \in Orders :
              /\ order'[p].status = order[p].status
              /\ order'[p].stage = order[p].stage
              /\ order'[p].claim = order[p].claim
              /\ order'[p].tx = order[p].tx
              /\ order'[p].paidBy = order[p].paidBy
              /\ order'[p].applied = order[p].applied
         /\ \A d \in Payers \ {c} : pay'[d] = pay[d]
         /\ \/ pay'[c].pc = "done" /\ ~OwnedClaim(c)
            \/ /\ pay'[c].pc \in {"stock", "fail"}
               /\ pay'[c].o = pay[c].o /\ pay'[c].applied = pay[c].applied
<1> DEFINE o == pay[c].o
           q == [order[o] EXCEPT !.inv = pay[c].inv, !.mode = "paid",
                                 !.voided = FALSE]
<1> USE DEF Typed, TypeOK
<1>1. pay[c] \in PayCall /\ o \in Orders /\ order[o] \in Order
  BY DEF PayHasOrder, PayWriteInvoice
<1>2. /\ \A d \in Payers \ {c} : pay'[d] = pay[d]
      /\ \/ pay'[c].pc = "done" /\ ~OwnedClaim(c)
         \/ /\ pay'[c].pc \in {"stock", "fail"}
            /\ pay'[c].o = pay[c].o /\ pay'[c].applied = pay[c].applied
  BY <1>1 DEF PayWriteInvoice, PayEnds, NewCall, PayCall
<1>3. /\ q.status = order[o].status /\ q.stage = order[o].stage
      /\ q.claim = order[o].claim /\ q.tx = order[o].tx
      /\ q.paidBy = order[o].paidBy /\ q.applied = order[o].applied
  BY <1>1 DEF Order
<1>4. order' = order \/ order' = [order EXCEPT ![o] = q]
  BY DEF PayWriteInvoice
<1> HIDE DEF q
<1> QED BY <1>1, <1>2, <1>3, <1>4

LEMMA FailEffect ==
  ASSUME Typed, NEW c \in Payers, PayFail(c)
  PROVE  LET o == pay[c].o
         IN /\ \/ ~OwnedClaim(c) /\ order' = order
               \/ /\ OwnedClaim(c)
                  /\ order' = [order EXCEPT ![o] = order'[o]]
                  /\ order'[o].status = "failed"
                  /\ order'[o].claim = order[o].claim
                  /\ order'[o].tx = order[o].tx
                  /\ order'[o].paidBy = order[o].paidBy
                  /\ order'[o].applied = order[o].applied
            /\ o \in Orders /\ pay[c].pc = "fail" /\ pay'[c].pc = "done"
            /\ \A d \in Payers \ {c} : pay'[d] = pay[d]
<1> DEFINE o == pay[c].o
           q == [order[o] EXCEPT !.status = "failed"]
<1> USE DEF Typed, TypeOK
<1>1. o \in Orders /\ order[o] \in Order
  BY DEF PayHasOrder, PayFail
<1>2. /\ pay[c].pc = "fail" /\ pay'[c].pc = "done"
      /\ \A d \in Payers \ {c} : pay'[d] = pay[d]
  BY DEF PayFail, PayEnds, NewCall
<1>3. /\ q.status = "failed"
      /\ q.claim = order[o].claim /\ q.tx = order[o].tx
      /\ q.paidBy = order[o].paidBy /\ q.applied = order[o].applied
  BY <1>1 DEF Order
<1>4. \/ ~OwnedClaim(c) /\ order' = order
      \/ OwnedClaim(c) /\ order' = [order EXCEPT ![o] = q]
  BY DEF PayFail
<1> HIDE DEF q
<1>5. order' = [order EXCEPT ![o] = q]
        => order'[o] = q /\ order' = [order EXCEPT ![o] = order'[o]]
  BY <1>1
<1> QED BY <1>1, <1>2, <1>3, <1>4, <1>5

LEMMA FinishEffect ==
  ASSUME Typed, NEW c \in Payers, PayFinish(c)
  PROVE  LET o == pay[c].o
         IN /\ \/ ~OwnedClaim(c) /\ order' = order /\ pay'[c].pc = "done"
               \/ /\ OwnedClaim(c)
                  /\ order' = [order EXCEPT ![o] = order'[o]]
                  /\ order'[o].status = "paid"
                  /\ order'[o].stage \in {"cho_xu_ly", "thieu_hang"}
                  /\ order'[o].claim = order[o].claim
                  /\ order'[o].tx = order[o].tx
                  /\ order'[o].paidBy = c
                  /\ order'[o].applied
                  /\ pay'[c].pc = "redeem" /\ pay'[c].o = o
            /\ o \in Orders /\ pay[c].pc = "finish"
            /\ \A d \in Payers \ {c} : pay'[d] = pay[d]
<1> DEFINE o == pay[c].o
<1> USE DEF Typed, TypeOK
<1>1. pay[c] \in PayCall /\ o \in Orders /\ order[o] \in Order
  BY DEF PayHasOrder, PayFinish
<1>2. /\ pay[c].pc = "finish"
      /\ \A d \in Payers \ {c} : pay'[d] = pay[d]
  BY DEF PayFinish, PayEnds
<1>3. CASE ~OwnedClaim(c)
  BY <1>1, <1>2, <1>3 DEF PayFinish, PayEnds, NewCall
<1>4. CASE OwnedClaim(c)
  <2>1. PICK stage \in {"cho_xu_ly", "thieu_hang"} :
          order' = [order EXCEPT ![o] =
                        [@ EXCEPT !.status = "paid", !.stage = stage,
                                  !.applied = TRUE, !.inv = pay[c].inv,
                                  !.mode = "paid", !.paidBy = c]]
    BY <1>4 DEF PayFinish
  <2> DEFINE q == [order[o] EXCEPT
                      !.status = "paid", !.stage = stage, !.applied = TRUE,
                      !.inv = pay[c].inv, !.mode = "paid", !.paidBy = c]
  <2>2. /\ q.status = "paid" /\ q.stage = stage /\ q.applied /\ q.paidBy = c
        /\ q.claim = order[o].claim /\ q.tx = order[o].tx
    BY <1>1 DEF Order
  <2>3. order' = [order EXCEPT ![o] = q]
    BY <2>1
  <2>4. pay'[c].pc = "redeem" /\ pay'[c].o = o
    BY <1>1, <1>4 DEF PayFinish, PayCall
  <2> HIDE DEF q
  <2>5. order'[o] = q /\ order' = [order EXCEPT ![o] = order'[o]]
    BY <1>1, <2>3
  <2> QED BY <1>1, <1>2, <1>4, <2>2, <2>4, <2>5
<1> QED BY <1>3, <1>4

LEMMA ReviewEffect ==
  ASSUME Typed, NEW r \in Reviews, ReviewWrite(r)
  PROVE  LET o == review[r].o
         IN /\ o \in Orders =>
                 /\ order'[o].status = "underpaid"
                 /\ order'[o].claim = order[o].claim
                 /\ order'[o].tx = order[o].tx
                 /\ order'[o].paidBy = order[o].paidBy
                 /\ order'[o].applied = order[o].applied
            /\ order' = [order EXCEPT ![o] = order'[o]]
            /\ pay' = pay
<1> DEFINE o == review[r].o
           q == [order[o] EXCEPT !.status = "underpaid"]
<1>1. order' = [order EXCEPT ![o] = q] /\ pay' = pay
  BY DEF ReviewWrite
<1>2. o \in Orders =>
        /\ q.status = "underpaid"
        /\ q.claim = order[o].claim /\ q.tx = order[o].tx
        /\ q.paidBy = order[o].paidBy /\ q.applied = order[o].applied
  BY DEF Typed, TypeOK, Order
<1> HIDE DEF q
<1>3. o \in Orders => order'[o] = q
  BY <1>1 DEF Typed, TypeOK
<1>4. order' = [order EXCEPT ![o] = order'[o]]
  BY <1>1, <1>3 DEF Typed, TypeOK
<1> QED BY <1>1, <1>2, <1>3, <1>4

-----------------------------------------------------------------------------
(* A claim is exclusive, and the goods leave the stock once. *)

\* A call at work on an order nobody has flagged knows whether the goods of
\* the order are already out.
CallKnowsStock ==
  \A c \in Payers :
    (pay[c].pc \in InFlight /\ broken[pay[c].o] = {})
      => pay[c].applied = order[pay[c].o].applied

BeforeStock == {"start", "proof", "claim", "invoice", "write", "fail", "stock"}

\* Goods are out only if the order says so or the call that took them still
\* holds its claim.
DeductedByOwner ==
  \A o \in Orders : broken[o] = {} =>
    \A d \in deducted[o] :
      \/ order[o].applied
      \/ /\ order[o].status = "processing"
         /\ order[o].claim = d
         /\ pay[d].pc \notin BeforeStock

Safe ==
  /\ Typed
  /\ ClaimExclusive
  /\ CallKnowsStock
  /\ DeductedByOwner
  /\ DeductOnce

LEMMA SafeInit == Init => Safe
<1> SUFFICES ASSUME Init PROVE Safe
  OBVIOUS
<1>1. Typed
  BY TypeInit
<1>2. ClaimExclusive /\ CallKnowsStock
  BY DEF Init, NewCall, ClaimExclusive, CallKnowsStock, InFlight
<1>3. DeductedByOwner /\ DeductOnce
  BY DEF Init, DeductedByOwner, DeductOnce
<1> QED BY <1>1, <1>2, <1>3 DEF Safe

LEMMA SafeQuiet ==
  ASSUME Safe, Typed', Quiet
  PROVE  Safe'
<1> USE DEF Safe, Typed, Quiet
<1>1. ClaimExclusive'
  BY DEF ClaimExclusive, OwnedClaim, PayHasOrder, InFlight
<1>2. CallKnowsStock'
  BY DEF CallKnowsStock, PayHasOrder, InFlight
<1>3. DeductedByOwner'
  <2> SUFFICES ASSUME NEW p \in Orders, broken[p] = {}, NEW d \in deducted[p],
                      ~order[p].applied
               PROVE  /\ order'[p].status = "processing"
                      /\ order'[p].claim = d
                      /\ pay[d].pc \notin BeforeStock
    BY DEF DeductedByOwner
  <2> QED BY DEF DeductedByOwner
<1>4. DeductOnce'
  BY DEF DeductOnce
<1> QED BY <1>1, <1>2, <1>3, <1>4

\* The steps of a call that only move it on.
LEMMA SafeMove ==
  ASSUME Safe, Typed', NEW c \in Payers,
         \/ PayKeepInvoice(c) \/ PayCollect(c)
         \/ PayConsumeHolds(c) \/ PayCrash(c)
  PROVE  Safe'
<1>1. UNCHANGED <<order, deducted, broken>>
  BY DEF PayKeepInvoice, PayCollect, PayConsumeHolds, PayCrash
<1>2. /\ \A d \in Payers \ {c} : pay'[d] = pay[d]
      /\ pay'[c].o = pay[c].o /\ pay'[c].applied = pay[c].applied
      /\ pay[c].pc \in InFlight \/ pay'[c].pc = "crashed"
      /\ pay[c].pc \notin BeforeStock => pay'[c].pc \notin BeforeStock
  <2>1. pay[c] \in PayCall
    BY DEF Safe, Typed, TypeOK
  <2> USE <2>1 DEF PayCall, BeforeStock, InFlight, Safe, Typed, TypeOK
  <2>2. CASE PayKeepInvoice(c)
    BY <2>2 DEF PayKeepInvoice
  <2>3. CASE PayCollect(c)
    <3> DEFINE i == IF pay[c].inv = None THEN c ELSE pay[c].inv
               r(pc, j) == [pay[c] EXCEPT !.pc = pc, !.inv = j]
    <3>1. PICK pc \in {"write", "fail"} : pay' = [pay EXCEPT ![c] = r(pc, i)]
      BY <2>3 DEF PayCollect
    <3>2. /\ r(pc, i).pc = pc /\ r(pc, i).o = pay[c].o
          /\ r(pc, i).applied = pay[c].applied
      BY DEF PayCall
    <3>3. pay[c].pc = "invoice"
      BY <2>3 DEF PayCollect
    <3> HIDE DEF r
    <3> QED BY <3>1, <3>2, <3>3
  <2>4. CASE PayConsumeHolds(c)
    BY <2>4 DEF PayConsumeHolds
  <2>5. CASE PayCrash(c)
    BY <2>5 DEF PayCrash
  <2> QED BY <2>2, <2>3, <2>4, <2>5
<1> USE DEF Safe, Typed
<1>9. deducted \in [Orders -> SUBSET Payers]
  BY DEF TypeOK
<1>3. ClaimExclusive'
  BY <1>1, <1>2 DEF ClaimExclusive, OwnedClaim, InFlight
<1>4. CallKnowsStock'
  BY <1>1, <1>2 DEF CallKnowsStock, InFlight
<1>5. DeductedByOwner' /\ DeductOnce'
  BY <1>1, <1>2, <1>9 DEF DeductedByOwner, DeductOnce, BeforeStock
<1> QED BY <1>3, <1>4, <1>5

LEMMA SafePayRequest ==
  ASSUME Safe, Typed', NEW c \in Payers, NEW o \in Orders,
         NEW src, NEW late, NEW tx,
         PayRequest(c, o, src, late, tx)
  PROVE  Safe'
<1>1. /\ UNCHANGED <<order, deducted, broken>>
      /\ \A d \in Payers \ {c} : pay'[d] = pay[d]
      /\ pay[c].pc = "start" /\ pay'[c].pc = "proof"
  BY DEF PayRequest, Safe, Typed, TypeOK, PayCall
<1> USE DEF Safe, Typed
<1>9. deducted \in [Orders -> SUBSET Payers]
  BY DEF TypeOK
<1>2. ClaimExclusive'
  BY <1>1 DEF ClaimExclusive, OwnedClaim, InFlight
<1>3. CallKnowsStock'
  BY <1>1 DEF CallKnowsStock, InFlight
<1>4. DeductedByOwner' /\ DeductOnce'
  BY <1>1, <1>9 DEF DeductedByOwner, DeductOnce, BeforeStock
<1> QED BY <1>2, <1>3, <1>4

LEMMA SafePayRead ==
  ASSUME Safe, Typed', NEW c \in Payers, PayRead(c) \/ PayRedeem(c)
  PROVE  Safe'
<1>1. /\ UNCHANGED <<order, deducted, broken>>
      /\ \A d \in Payers \ {c} : pay'[d] = pay[d]
      /\ pay'[c].pc \in {"claim", "done"}
      /\ pay[c].pc = "proof" \/ pay'[c].pc = "done"
  <2>1. pay[c] \in PayCall
    BY DEF Safe, Typed, TypeOK
  <2>2. CASE PayEnds(c)
    BY <2>2 DEF PayRead, PayRedeem, PayEnds, NewCall, Safe, Typed, TypeOK
  <2>3. CASE PayRead(c) /\ ~PayEnds(c)
    <3> DEFINE r == [pay[c] EXCEPT !.pc = "claim",
                                   !.saw = order[pay[c].o].status,
                                   !.inv = order[pay[c].o].inv]
    <3>1. r.pc = "claim"
      BY <2>1 DEF PayCall
    <3>2. pay' = [pay EXCEPT ![c] = r]
      BY <2>3 DEF PayRead
    <3> HIDE DEF r
    <3> QED BY <2>3, <3>1, <3>2 DEF PayRead, Safe, Typed, TypeOK
  <2> QED BY <2>2, <2>3 DEF PayRedeem
<1> USE DEF Safe, Typed
<1>9. deducted \in [Orders -> SUBSET Payers]
  BY DEF TypeOK
<1>2. ClaimExclusive'
  BY <1>1 DEF ClaimExclusive, OwnedClaim, InFlight
<1>3. CallKnowsStock'
  BY <1>1 DEF CallKnowsStock, InFlight
<1>4. DeductedByOwner'
  BY <1>1, <1>9 DEF DeductedByOwner, BeforeStock
<1>5. DeductOnce'
  BY <1>1 DEF DeductOnce
<1> QED BY <1>2, <1>3, <1>4, <1>5

LEMMA SafePayClaim ==
  ASSUME Safe, Typed', NEW c \in Payers, PayClaim(c)
  PROVE  Safe'
<1> USE DEF Safe, Typed
<1>9. /\ deducted \in [Orders -> SUBSET Payers]
      /\ broken \in [Orders -> SUBSET Reviews]
      /\ broken' \in [Orders -> SUBSET Reviews]
  BY DEF TypeOK
<1> USE <1>9
<1> DEFINE o == pay[c].o
<1>2. CASE ~ClaimFilter(c)
  <2>1. /\ UNCHANGED <<order, deducted, broken>>
        /\ \A d \in Payers \ {c} : pay'[d] = pay[d]
        /\ pay'[c].pc = "done"
    BY <1>2 DEF PayClaim, PayEnds, NewCall, TypeOK
  <2>2. ClaimExclusive' /\ CallKnowsStock'
    BY <2>1 DEF ClaimExclusive, CallKnowsStock, OwnedClaim, InFlight
  <2>3. DeductedByOwner' /\ DeductOnce'
    BY <2>1 DEF DeductedByOwner, DeductOnce, BeforeStock
  <2> QED BY <2>2, <2>3
<1>3. CASE ClaimFilter(c)
  <2>1. /\ o \in Orders /\ order[o].status \in Claimable
        /\ UNCHANGED <<deducted, broken>>
        /\ \A p \in Orders \ {o} : order'[p] = order[p]
        /\ order'[o].status = "processing" /\ order'[o].claim = c
        /\ order'[o].applied = order[o].applied
        /\ \A d \in Payers \ {c} : pay'[d] = pay[d]
        /\ pay[c].pc = "claim" /\ pay'[c].pc = "invoice"
        /\ pay'[c].o = o /\ pay'[c].applied = order[o].applied
    <3>1. order[o].status \in Claimable /\ UNCHANGED <<deducted, broken>>
      BY <1>3 DEF PayClaim, ClaimFilter
    <3>2. o \in Orders /\ order' = [order EXCEPT ![o] = order'[o]]
      BY <1>3, ClaimEffect
    <3>3. \A p \in Orders \ {o} : order'[p] = order[p]
      BY <3>2 DEF TypeOK
    <3> QED BY <1>3, <3>1, <3>2, <3>3, ClaimEffect
  <2> HIDE DEF o
  <2>2. \A d \in Payers \ {c} :
          ~(pay[d].pc \in InFlight /\ broken[o] = {} /\ pay[d].o = o)
    BY <2>1 DEF ClaimExclusive, OwnedClaim, Claimable
  <2>3. ClaimExclusive'
    BY <2>1, <2>2 DEF ClaimExclusive, OwnedClaim, InFlight, PayHasOrder
  <2>4. CallKnowsStock'
    BY <2>1, <2>2 DEF CallKnowsStock, InFlight, PayHasOrder
  <2>5. DeductedByOwner'
    BY <2>1 DEF DeductedByOwner, BeforeStock, Claimable
  <2>6. DeductOnce'
    BY <2>1 DEF DeductOnce
  <2> QED BY <2>3, <2>4, <2>5, <2>6
<1> QED BY <1>2, <1>3

LEMMA SafePayWriteInvoice ==
  ASSUME Safe, Typed', NEW c \in Payers, PayWriteInvoice(c)
  PROVE  Safe'
<1>1. /\ \A p \in Orders : /\ order'[p].status = order[p].status
                           /\ order'[p].claim = order[p].claim
                           /\ order'[p].applied = order[p].applied
      /\ \A d \in Payers \ {c} : pay'[d] = pay[d]
      /\ \/ pay'[c].pc = "done"
         \/ /\ pay'[c].pc \in {"stock", "fail"}
            /\ pay'[c].o = pay[c].o /\ pay'[c].applied = pay[c].applied
      /\ UNCHANGED <<deducted, broken>> /\ pay[c].pc = "write"
  <2>1. UNCHANGED <<deducted, broken>> /\ pay[c].pc = "write"
    BY DEF PayWriteInvoice
  <2>2. Typed
    BY DEF Safe
  <2> QED BY <2>1, <2>2, WriteInvoiceEffect
<1> USE DEF Safe, Typed
<1>9. /\ deducted \in [Orders -> SUBSET Payers]
      /\ broken \in [Orders -> SUBSET Reviews]
      /\ broken' \in [Orders -> SUBSET Reviews]
  BY DEF TypeOK
<1> USE <1>9
<1>2. ClaimExclusive'
  BY <1>1 DEF ClaimExclusive, OwnedClaim, InFlight, PayHasOrder
<1>3. CallKnowsStock'
  BY <1>1 DEF CallKnowsStock, InFlight, PayHasOrder
<1>4. DeductedByOwner'
  <2> SUFFICES ASSUME NEW p \in Orders, broken[p] = {}, NEW d \in deducted[p],
                      ~order[p].applied
               PROVE  /\ order[p].status = "processing" /\ order[p].claim = d
                      /\ pay'[d].pc \notin BeforeStock
    BY <1>1 DEF DeductedByOwner
  <2>1. /\ order[p].status = "processing" /\ order[p].claim = d
        /\ pay[d].pc \notin BeforeStock
    BY DEF DeductedByOwner
  <2>2. d \in Payers \ {c}
    BY <1>1, <2>1 DEF BeforeStock
  <2> QED BY <1>1, <2>1, <2>2
<1>5. DeductOnce'
  BY <1>1 DEF DeductOnce
<1> QED BY <1>2, <1>3, <1>4, <1>5

LEMMA SafePayFail ==
  ASSUME Safe, Typed', NEW c \in Payers, PayFail(c)
  PROVE  Safe'
<1> USE DEF Safe, Typed
<1>9. /\ deducted \in [Orders -> SUBSET Payers]
      /\ broken \in [Orders -> SUBSET Reviews]
      /\ broken' \in [Orders -> SUBSET Reviews]
  BY DEF TypeOK
<1> USE <1>9
<1> DEFINE o == pay[c].o
<1>1. /\ pay[c].pc = "fail" /\ o \in Orders
      /\ UNCHANGED <<deducted, broken>>
      /\ \A d \in Payers \ {c} : pay'[d] = pay[d]
      /\ pay'[c].pc = "done"
  BY FailEffect DEF PayFail
<1>2. \A p \in Orders : /\ order'[p].claim = order[p].claim
                        /\ order'[p].applied = order[p].applied
                        /\ \/ order'[p].status = order[p].status
                           \/ p = o /\ OwnedClaim(c)
  BY FailEffect DEF TypeOK
<1> HIDE DEF o
<1>3. ClaimExclusive'
  <2> SUFFICES ASSUME NEW d \in Payers, pay'[d].pc \in InFlight,
                      broken'[pay'[d].o] = {}
               PROVE  OwnedClaim(d)'
    BY DEF ClaimExclusive
  <2>1. d # c /\ pay'[d] = pay[d] /\ pay[d].o \in Orders
    BY <1>1 DEF InFlight, PayHasOrder
  <2>2. order[pay[d].o].status = "processing" /\ order[pay[d].o].claim = d
    BY <1>1, <2>1 DEF ClaimExclusive, OwnedClaim
  <2>3. order'[pay[d].o].status = "processing" /\ order'[pay[d].o].claim = d
    BY <1>2, <2>1, <2>2 DEF OwnedClaim, o
  <2> QED BY <2>1, <2>3 DEF OwnedClaim
<1>4. CallKnowsStock'
  BY <1>1, <1>2 DEF CallKnowsStock, InFlight, PayHasOrder
<1>5. DeductedByOwner'
  <2> SUFFICES ASSUME NEW p \in Orders, broken[p] = {}, NEW d \in deducted[p],
                      ~order[p].applied
               PROVE  /\ order'[p].status = "processing"
                      /\ order'[p].claim = d
                      /\ pay'[d].pc \notin BeforeStock
    BY <1>1, <1>2 DEF DeductedByOwner
  <2>1. /\ order[p].status = "processing" /\ order[p].claim = d
        /\ pay[d].pc \notin BeforeStock /\ d \in Payers
    BY DEF DeductedByOwner
  <2>2. d # c
    BY <1>1, <2>1 DEF BeforeStock
  <2> QED BY <1>1, <1>2, <2>1, <2>2 DEF OwnedClaim, o
<1>6. DeductOnce'
  BY <1>1 DEF DeductOnce
<1> QED BY <1>3, <1>4, <1>5, <1>6

LEMMA SafePayDeduct ==
  ASSUME Safe, Typed', NEW c \in Payers, PayDeduct(c)
  PROVE  Safe'
<1> USE DEF Safe, Typed
<1>9. /\ deducted \in [Orders -> SUBSET Payers]
      /\ broken \in [Orders -> SUBSET Reviews]
      /\ broken' \in [Orders -> SUBSET Reviews]
  BY DEF TypeOK
<1> USE <1>9
<1> DEFINE o == pay[c].o
<1>1. /\ pay[c].pc = "stock" /\ o \in Orders
      /\ UNCHANGED <<order, broken>>
      /\ \A d \in Payers \ {c} : pay'[d] = pay[d]
      /\ pay'[c].pc = "consume" /\ pay'[c].o = o
      /\ pay'[c].applied = pay[c].applied
  BY DEF PayHasOrder, PayDeduct, PayCall, TypeOK
<1>2. /\ \A p \in Orders \ {o} : deducted'[p] = deducted[p]
      /\ \/ pay[c].applied /\ deducted'[o] = deducted[o]
         \/ ~pay[c].applied /\ deducted'[o] = deducted[o] \cup {c}
  BY <1>1 DEF PayDeduct
<1>3. broken[o] = {} =>
        /\ order[o].status = "processing" /\ order[o].claim = c
        /\ pay[c].applied = order[o].applied
  BY <1>1 DEF ClaimExclusive, CallKnowsStock, OwnedClaim, InFlight
<1>4. broken[o] = {} /\ ~pay[c].applied => deducted[o] = {}
  BY <1>1, <1>3 DEF DeductedByOwner, BeforeStock
<1> HIDE DEF o
<1>5. ClaimExclusive'
  BY <1>1 DEF ClaimExclusive, OwnedClaim, InFlight, o
<1>6. CallKnowsStock'
  BY <1>1 DEF CallKnowsStock, InFlight, o
<1>7. DeductedByOwner'
  BY <1>1, <1>2, <1>3, <1>4 DEF DeductedByOwner, BeforeStock
<1>8. DeductOnce'
  BY <1>1, <1>2, <1>4 DEF DeductOnce
<1> QED BY <1>5, <1>6, <1>7, <1>8

LEMMA SafePayFinish ==
  ASSUME Safe, Typed', NEW c \in Payers, PayFinish(c)
  PROVE  Safe'
<1> USE DEF Safe, Typed
<1>9. /\ deducted \in [Orders -> SUBSET Payers]
      /\ broken \in [Orders -> SUBSET Reviews]
      /\ broken' \in [Orders -> SUBSET Reviews]
  BY DEF TypeOK
<1> USE <1>9
<1> DEFINE o == pay[c].o
<1>1. /\ pay[c].pc = "finish" /\ o \in Orders
      /\ UNCHANGED <<deducted, broken>>
      /\ \A d \in Payers \ {c} : pay'[d] = pay[d]
      /\ pay'[c].pc \in {"done", "redeem"}
  BY FinishEffect DEF PayFinish
<1>2. \/ order' = order
      \/ /\ OwnedClaim(c)
         /\ \A p \in Orders \ {o} : order'[p] = order[p]
         /\ order'[o].status = "paid" /\ order'[o].applied
  BY FinishEffect DEF TypeOK
<1> HIDE DEF o
<1>3. ClaimExclusive'
  BY <1>1, <1>2 DEF ClaimExclusive, OwnedClaim, InFlight, PayHasOrder, o
<1>4. CallKnowsStock'
  <2> SUFFICES ASSUME NEW d \in Payers, pay'[d].pc \in InFlight,
                      broken'[pay'[d].o] = {}
               PROVE  pay'[d].applied = order'[pay'[d].o].applied
    BY DEF CallKnowsStock
  <2>1. d # c /\ pay'[d] = pay[d] /\ pay[d].o \in Orders
    BY <1>1 DEF InFlight, PayHasOrder
  <2>2. OwnedClaim(d)
    BY <1>1, <2>1 DEF ClaimExclusive
  <2> QED BY <1>1, <1>2, <2>1, <2>2 DEF CallKnowsStock, OwnedClaim, o
<1>5. DeductedByOwner' /\ DeductOnce'
  BY <1>1, <1>2 DEF DeductedByOwner, DeductOnce, BeforeStock
<1> QED BY <1>3, <1>4, <1>5

LEMMA SafeReviewWrite ==
  ASSUME Safe, Typed', NEW r \in Reviews, ReviewWrite(r)
  PROVE  Safe'
<1> USE DEF Safe, Typed
<1>9. /\ deducted \in [Orders -> SUBSET Payers]
      /\ broken \in [Orders -> SUBSET Reviews]
      /\ broken' \in [Orders -> SUBSET Reviews]
  BY DEF TypeOK
<1> USE <1>9
<1> DEFINE o == review[r].o
<1>1. /\ pay' = pay /\ deducted' = deducted
      /\ \A p \in Orders \ {o} : order'[p] = order[p] /\ broken'[p] = broken[p]
  BY DEF ReviewWrite, TypeOK
<1>2. o \in Orders =>
        /\ order'[o].claim = order[o].claim
        /\ order'[o].applied = order[o].applied
        /\ order[o].status = "processing" => broken'[o] # {}
        /\ broken'[o] = {} => broken[o] = {}
  <2>1. \/ broken' = broken /\ order[o].status # "processing"
        \/ broken' = [broken EXCEPT ![o] = @ \cup {r}]
    BY DEF ReviewWrite
  <2>2. o \in Orders => /\ order'[o].claim = order[o].claim
                        /\ order'[o].applied = order[o].applied
    BY ReviewEffect
  <2>3. /\ broken \in [Orders -> SUBSET Reviews]
        /\ broken' \in [Orders -> SUBSET Reviews]
    OBVIOUS
  <2> HIDE DEF o
  <2> QED BY <2>1, <2>2, <2>3
<1> HIDE DEF o
<1>3. ClaimExclusive'
  BY <1>1, <1>2 DEF ClaimExclusive, OwnedClaim, InFlight, PayHasOrder
<1>4. CallKnowsStock'
  BY <1>1, <1>2 DEF CallKnowsStock, InFlight, PayHasOrder
<1>5. DeductedByOwner' /\ DeductOnce'
  BY <1>1, <1>2 DEF DeductedByOwner, DeductOnce, BeforeStock
<1> QED BY <1>3, <1>4, <1>5

LEMMA SafeNext == Safe /\ [Next]_vars => Safe'
<1> SUFFICES ASSUME Safe, [Next]_vars
             PROVE  Safe'
  OBVIOUS
<1>1. Typed'
  BY TypeNext DEF Safe
<1>2. ASSUME NEW c \in Payers, PayStep(c) PROVE Safe'
  BY <1>1, <1>2, SafePayRead, SafePayClaim, SafeMove, SafePayWriteInvoice,
     SafePayFail, SafePayDeduct, SafePayFinish DEF PayStep
<1>3. ASSUME OtherStep PROVE Safe'
  BY <1>1, <1>3, OtherIsQuiet, SafeQuiet DEF Safe
<1>4. CASE UNCHANGED vars
  BY <1>3, <1>4 DEF OtherStep
<1>5. CASE Next
  BY <1>1, <1>2, <1>3, <1>5, SafePayRequest, SafeMove, SafeReviewWrite
     DEF Next, OtherStep
<1> QED BY <1>4, <1>5

\* While no review overwrites its claim, a call that has claimed an order is
\* the only one to act on it, and the order's goods leave the stock once.
THEOREM ClaimsExclude == Spec => [](ClaimExclusive /\ DeductOnce)
<1>1. Init => Safe
  BY SafeInit
<1>2. Safe /\ [Next]_vars => Safe'
  BY SafeNext
<1>3. Safe => ClaimExclusive /\ DeductOnce
  BY DEF Safe
<1> QED BY <1>1, <1>2, <1>3, PTL DEF Spec

-----------------------------------------------------------------------------
(* The handlers implement PaymentLifecycle. *)

\* The steps of a call that leave every order alone.
CallIdles(c) ==
  \/ \E o \in Orders, src \in Sources, late \in BOOLEAN,
        tx \in Txs \cup {None} : PayRequest(c, o, src, late, tx)
  \/ PayRead(c) \/ PayKeepInvoice(c) \/ PayCollect(c) \/ PayDeduct(c)
  \/ PayConsumeHolds(c) \/ PayRedeem(c) \/ PayCrash(c)

LEMMA IdleEffect ==
  ASSUME Typed, NEW c \in Payers, CallIdles(c)
  PROVE  /\ order' = order
         /\ \A d \in Payers \ {c} : pay'[d] = pay[d]
         /\ \/ pay[c].pc \in {"start", "proof", "claim"}
            \/ pay'[c].pc \notin {"start", "proof", "claim"}
<1> USE DEF Typed, TypeOK
<1>1. pay[c] \in PayCall
  OBVIOUS
<1>2. ASSUME NEW o \in Orders, NEW src \in Sources, NEW late \in BOOLEAN,
             NEW tx \in Txs \cup {None}, PayRequest(c, o, src, late, tx)
      PROVE  /\ order' = order
             /\ \A d \in Payers \ {c} : pay'[d] = pay[d]
             /\ pay[c].pc = "start"
  BY <1>2 DEF PayRequest
<1>3. CASE PayRead(c) \/ PayRedeem(c)
  BY <1>1, <1>3 DEF PayRead, PayRedeem, PayEnds, NewCall
<1>4. CASE \/ PayKeepInvoice(c) \/ PayDeduct(c)
          \/ PayConsumeHolds(c) \/ PayCrash(c)
  BY <1>1, <1>4 DEF PayKeepInvoice, PayDeduct, PayConsumeHolds, PayCrash,
                    PayCall
<1>5. CASE PayCollect(c)
  <2> DEFINE i == IF pay[c].inv = None THEN c ELSE pay[c].inv
  <2>1. PICK pc \in {"write", "fail"} :
          pay' = [pay EXCEPT ![c] = [@ EXCEPT !.pc = pc, !.inv = i]]
    BY <1>5 DEF PayCollect
  <2>2. [pay[c] EXCEPT !.pc = pc, !.inv = i].pc = pc
    BY <1>1 DEF PayCall
  <2>3. order' = order
    BY <1>5 DEF PayCollect
  <2> QED BY <2>1, <2>2, <2>3
<1> QED BY <1>2, <1>3, <1>4, <1>5 DEF CallIdles

\* A call claims one order at most, once.
Fresh ==
  \A c \in Payers : pay[c].pc \in {"start", "proof", "claim"} =>
    \A o \in Orders : order[o].claim # c

LEMMA FreshNext ==
  ASSUME Typed, Fresh, [Next]_vars
  PROVE  Fresh'
<1> USE DEF Typed, TypeOK
<1>1. CASE OtherStep
  <2>1. Quiet
    BY <1>1, OtherIsQuiet
  <2> QED BY <2>1 DEF Quiet, Fresh
<1>2. ASSUME NEW c \in Payers, CallIdles(c) PROVE Fresh'
  <2>1. /\ order' = order
        /\ \A d \in Payers \ {c} : pay'[d] = pay[d]
        /\ \/ pay[c].pc \in {"start", "proof", "claim"}
           \/ pay'[c].pc \notin {"start", "proof", "claim"}
    BY <1>2, IdleEffect
  <2> QED BY <2>1 DEF Fresh
<1>3. ASSUME NEW c \in Payers, PayClaim(c) PROVE Fresh'
  <2>1. CASE ClaimFilter(c)
    <3>1. /\ \A o \in Orders : order'[o].claim \in {order[o].claim, c}
          /\ \A d \in Payers \ {c} : pay'[d] = pay[d]
          /\ pay'[c].pc = "invoice"
      BY <1>3, <2>1, ClaimEffect
    <3> QED BY <3>1 DEF Fresh
  <2>2. CASE ~ClaimFilter(c)
    BY <1>3, <2>2 DEF PayClaim, PayEnds, NewCall, Fresh
  <2> QED BY <2>1, <2>2
<1>4. ASSUME NEW c \in Payers, PayWriteInvoice(c) PROVE Fresh'
  <2>1. /\ \A o \in Orders : order'[o].claim = order[o].claim
        /\ \A d \in Payers \ {c} : pay'[d] = pay[d]
        /\ pay'[c].pc \in {"done", "stock", "fail"}
    BY <1>4, WriteInvoiceEffect
  <2> QED BY <2>1 DEF Fresh
<1>5. ASSUME NEW c \in Payers, PayFail(c) PROVE Fresh'
  <2>1. /\ \A o \in Orders : order'[o].claim = order[o].claim
        /\ \A d \in Payers \ {c} : pay'[d] = pay[d]
        /\ pay'[c].pc = "done"
    BY <1>5, FailEffect
  <2> QED BY <2>1 DEF Fresh
<1>6. ASSUME NEW c \in Payers, PayFinish(c) PROVE Fresh'
  <2>1. /\ \A o \in Orders : order'[o].claim = order[o].claim
        /\ \A d \in Payers \ {c} : pay'[d] = pay[d]
        /\ pay'[c].pc \in {"done", "redeem"}
    BY <1>6, FinishEffect
  <2> QED BY <2>1 DEF Fresh
<1>7. ASSUME NEW r \in Reviews, ReviewWrite(r) PROVE Fresh'
  <2>1. pay' = pay /\ \A o \in Orders : order'[o].claim = order[o].claim
    BY <1>7, ReviewEffect
  <2> QED BY <2>1 DEF Fresh
<1> QED BY <1>1, <1>2, <1>3, <1>4, <1>5, <1>6, <1>7
        DEF Next, OtherStep, PayStep, CallIdles

LEMMA LifecycleInit == Init => Lifecycle!Init
  BY DEF Init, Lifecycle!Init

LEMMA LifecycleStep ==
  ASSUME Typed, Typed', Fresh, [Next]_vars
  PROVE  [Lifecycle!Next]_(Lifecycle!vars)
<1> USE DEF Typed, TypeOK
<1> DEFINE st == [p \in Orders |-> order[p].status]
           ow == [p \in Orders |-> order[p].claim]
           se == [p \in Orders |-> order[p].paidBy]
<1>1. ASSUME order' = order PROVE UNCHANGED Lifecycle!vars
  BY <1>1 DEF Lifecycle!vars
<1>2. CASE OtherStep
  <2>1. Quiet /\ OneAtATime
    BY <1>2, OtherIsQuiet, OtherIsSingle
  <2>2. CASE \A o \in Orders : order'[o].status = order[o].status
    BY <2>1, <2>2 DEF Quiet, Lifecycle!vars
  <2>3. CASE ~\A o \in Orders : order'[o].status = order[o].status
    <3>1. PICK o \in Orders : order'[o].status # order[o].status
      BY <2>3
    <3>2. \A p \in Orders \ {o} : order'[p] = order[p]
      BY <2>1, <3>1 DEF OneAtATime
    <3>3. order' = [order EXCEPT ![o] = order'[o]]
      BY <3>2
    <3>4. /\ st' = [st EXCEPT ![o] = order'[o].status]
          /\ ow' = ow /\ se' = se
      BY <2>1, <3>2 DEF Quiet
    <3>5. /\ order[o].status \in {"unpaid", "expired"}
          /\ order'[o].status \in {"unpaid", "expired", "cancelled"}
      BY <2>1, <3>1 DEF Quiet
    <3>6. Lifecycle!Expire(o) \/ Lifecycle!Renew(o) \/ Lifecycle!Cancel(o)
      BY <3>1, <3>4, <3>5
         DEF Lifecycle!Expire, Lifecycle!Renew, Lifecycle!Cancel
    <3> QED BY <3>6 DEF Lifecycle!Next
  <2> QED BY <2>2, <2>3
<1>3. ASSUME NEW c \in Payers, CallIdles(c) PROVE UNCHANGED Lifecycle!vars
  BY <1>1, <1>3, IdleEffect
<1>4. ASSUME NEW c \in Payers, PayClaim(c)
      PROVE  [Lifecycle!Next]_(Lifecycle!vars)
  <2>1. CASE ~ClaimFilter(c)
    BY <1>1, <1>4, <2>1 DEF PayClaim
  <2>2. CASE ClaimFilter(c)
    <3>1. PICK o \in Orders :
            /\ o = pay[c].o /\ pay[c].pc = "claim"
            /\ order'[o].status = "processing" /\ order'[o].claim = c
            /\ order'[o].paidBy = order[o].paidBy
            /\ order' = [order EXCEPT ![o] = order'[o]]
      BY <1>4, <2>2, ClaimEffect
    <3>2. /\ \A p \in Orders \ {o} : order'[p] = order[p]
          /\ order'[o].status = "processing" /\ order'[o].claim = c
          /\ order'[o].paidBy = order[o].paidBy
      BY <3>1
    <3>3. order[o].status \in {"unpaid", "underpaid", "failed"}
      BY <2>2, <3>1 DEF ClaimFilter, Claimable
    <3>4. \A p \in Orders : order[p].claim # c
      BY <3>1 DEF Fresh
    <3>5. /\ st' = [st EXCEPT ![o] = "processing"]
          /\ ow' = [ow EXCEPT ![o] = c] /\ se' = se
      BY <3>2
    <3>6. Lifecycle!Claim(o, c)
      BY <3>3, <3>4, <3>5 DEF Lifecycle!Claim, Lifecycle!Claimable
    <3> QED BY <3>6 DEF Lifecycle!Next
  <2> QED BY <2>1, <2>2
<1>5. ASSUME NEW c \in Payers, PayWriteInvoice(c)
      PROVE  UNCHANGED Lifecycle!vars
  <2>1. \A p \in Orders : /\ order'[p].status = order[p].status
                          /\ order'[p].claim = order[p].claim
                          /\ order'[p].paidBy = order[p].paidBy
    BY <1>5, WriteInvoiceEffect
  <2> QED BY <2>1 DEF Lifecycle!vars
<1>6. ASSUME NEW c \in Payers, PayFail(c)
      PROVE  [Lifecycle!Next]_(Lifecycle!vars)
  <2>1. CASE order' = order
    BY <1>1, <2>1
  <2>2. CASE order' # order
    <3>1. PICK o \in Orders :
            /\ o = pay[c].o /\ order[o].status = "processing"
            /\ order' = [order EXCEPT ![o] = order'[o]]
            /\ order'[o].status = "failed"
            /\ order'[o].claim = order[o].claim
            /\ order'[o].paidBy = order[o].paidBy
      BY <1>6, <2>2, FailEffect DEF OwnedClaim
    <3>2. /\ \A p \in Orders \ {o} : order'[p] = order[p]
          /\ order'[o].status = "failed" /\ order'[o].claim = order[o].claim
          /\ order'[o].paidBy = order[o].paidBy
      BY <3>1
    <3>3. st' = [st EXCEPT ![o] = "failed"] /\ ow' = ow /\ se' = se
      BY <3>2
    <3>4. Lifecycle!Reject(o)
      BY <3>1, <3>3 DEF Lifecycle!Reject
    <3> QED BY <3>4 DEF Lifecycle!Next
  <2> QED BY <2>1, <2>2
<1>7. ASSUME NEW c \in Payers, PayFinish(c)
      PROVE  [Lifecycle!Next]_(Lifecycle!vars)
  <2>1. CASE order' = order
    BY <1>1, <2>1
  <2>2. CASE order' # order
    <3>1. PICK o \in Orders :
            /\ o = pay[c].o
            /\ order[o].status = "processing" /\ order[o].claim = c
            /\ order' = [order EXCEPT ![o] = order'[o]]
            /\ order'[o].status = "paid"
            /\ order'[o].claim = order[o].claim
            /\ order'[o].paidBy = c
      BY <1>7, <2>2, FinishEffect DEF OwnedClaim
    <3>2. /\ \A p \in Orders \ {o} : order'[p] = order[p]
          /\ order'[o].status = "paid" /\ order'[o].claim = order[o].claim
          /\ order'[o].paidBy = c
      BY <3>1
    <3>3. /\ st' = [st EXCEPT ![o] = "paid"] /\ ow' = ow
          /\ se' = [se EXCEPT ![o] = ow[o]]
      <4>1. order[o].claim = c
        BY <3>1
      <4> QED BY <3>2, <4>1
    <3>4. Lifecycle!Settle(o)
      BY <3>1, <3>3 DEF Lifecycle!Settle
    <3> QED BY <3>4 DEF Lifecycle!Next
  <2> QED BY <2>1, <2>2
<1>8. ASSUME NEW r \in Reviews, ReviewWrite(r)
      PROVE  [Lifecycle!Next]_(Lifecycle!vars)
  <2>1. CASE review[r].o \notin Orders
    <3>1. order' = order
      BY <1>8, <2>1 DEF ReviewWrite
    <3> QED BY <1>1, <3>1
  <2>2. CASE review[r].o \in Orders
    <3>1. PICK o \in Orders :
            /\ o = review[r].o
            /\ order' = [order EXCEPT ![o] = order'[o]]
            /\ order'[o].status = "underpaid"
            /\ order'[o].claim = order[o].claim
            /\ order'[o].paidBy = order[o].paidBy
      BY <1>8, <2>2, ReviewEffect
    <3>2. /\ \A p \in Orders \ {o} : order'[p] = order[p]
          /\ order'[o].status = "underpaid" /\ order'[o].claim = order[o].claim
          /\ order'[o].paidBy = order[o].paidBy
      BY <3>1
    <3>3. st' = [st EXCEPT ![o] = "underpaid"] /\ ow' = ow /\ se' = se
      BY <3>2
    <3>4. Lifecycle!Flag(o)
      BY <3>3 DEF Lifecycle!Flag
    <3> QED BY <3>4 DEF Lifecycle!Next
  <2> QED BY <2>1, <2>2
<1> QED BY <1>2, <1>3, <1>4, <1>5, <1>6, <1>7, <1>8
        DEF Next, OtherStep, PayStep, CallIdles

\* The handlers implement PaymentLifecycle: ImplementsLifecycle, for any
\* number of orders, calls, sweeps, requests and reviews.
THEOREM HandlersImplementLifecycle == Spec => ImplementsLifecycle
<1>1. Init => Typed /\ Fresh /\ Lifecycle!Init
  <2>1. Init => Fresh
    <3> SUFFICES ASSUME Init PROVE Fresh
      OBVIOUS
    <3>1. PICK withInv \in SUBSET Orders :
            order = [o \in Orders |->
              [status |-> "unpaid", stage |-> "cho_thanh_toan",
               claim |-> None, paidBy |-> None, due |-> FALSE, tx |-> None,
               inv |-> IF o \in withInv THEN o ELSE None,
               mode |-> IF o \in withInv THEN "awaiting" ELSE "none",
               voided |-> FALSE, applied |-> FALSE, renews |-> 0]]
      BY DEF Init
    <3>2. \A o \in Orders : order[o].claim = None
      BY <3>1
    <3> QED BY <3>2, NoneAssumption DEF Fresh
  <2> QED BY <2>1, TypeInit, LifecycleInit
<1>2. Typed /\ Fresh /\ [Next]_vars => (Typed /\ Fresh)'
  BY TypeNext, FreshNext
<1>3. Typed /\ Typed' /\ Fresh /\ [Next]_vars
        => [Lifecycle!Next]_(Lifecycle!vars)
  BY LifecycleStep
<1> QED BY <1>1, <1>2, <1>3, PTL DEF Spec, ImplementsLifecycle, Lifecycle!Spec

-----------------------------------------------------------------------------
(* Booked: what a settled order owes to the calls, and they to it.         *)

\* stockApplied is only written after goods were taken.
AppliedIsDeducted ==
  \A o \in Orders : order[o].applied => deducted[o] # {}

\* What a call at work may conclude from where it is.
CallBooked ==
  \A c \in Payers :
    LET o == pay[c].o
    IN /\ (pay[c].pc \in InFlight /\ pay[c].applied) => deducted[o] # {}
       /\ pay[c].pc \in {"consume", "finish"} => deducted[o] # {}
       /\ pay[c].pc = "redeem" => order[o].paidBy # None

Booked ==
  /\ Typed
  /\ ProcessingHasOwner
  /\ OneOrderPerTx
  /\ AppliedIsDeducted
  /\ CallBooked
  /\ PaidIsBooked
  /\ UsedPromoWasPaid

LEMMA BookedInit == Init => Booked
<1> SUFFICES ASSUME Init PROVE Booked
  OBVIOUS
<1>1. \A o \in Orders : /\ order[o].status = "unpaid" /\ order[o].tx = None
                        /\ ~order[o].applied
  <2>1. PICK withInv \in SUBSET Orders :
          order = [o \in Orders |->
            [status |-> "unpaid", stage |-> "cho_thanh_toan",
             claim |-> None, paidBy |-> None, due |-> FALSE, tx |-> None,
             inv |-> IF o \in withInv THEN o ELSE None,
             mode |-> IF o \in withInv THEN "awaiting" ELSE "none",
             voided |-> FALSE, applied |-> FALSE, renews |-> 0]]
    BY DEF Init
  <2> QED BY <2>1
<1>2. \A c \in Payers : pay[c].pc = "start"
  BY DEF Init, NewCall
<1>3. \A o \in Orders : promo[o] # "used"
  BY DEF Init
<1> QED BY <1>1, <1>2, <1>3, TypeInit
        DEF Booked, ProcessingHasOwner, OneOrderPerTx, AppliedIsDeducted,
            CallBooked, PaidIsBooked, UsedPromoWasPaid, InFlight

\* The functions a step may change are still functions on the orders.
LEMMA Ranges ==
  ASSUME Typed
  PROVE  /\ order \in [Orders -> Order]
         /\ deducted \in [Orders -> SUBSET Payers]
         /\ promo \in [Orders -> {"none", "held", "used", "released"}]
         /\ pay \in [Payers -> PayCall]
         /\ \A o \in Orders : order[o].claim \in Payers \cup {None}
         /\ \A o \in Orders : order[o].status \in Status
         /\ None \notin Payers
  BY NoneAssumption DEF Typed, TypeOK, Order

-----------------------------------------------------------------------------
(* Booked, step by step. *)

\* Only markShopOrderPaid spends a promotion.
LEMMA OtherSpendsNothing ==
  ASSUME Typed, OtherStep
  PROVE  \A o \in Orders : promo'[o] = "used" => promo[o] = "used"
<1> DEFINE Unspent == \A o \in Orders : promo'[o] = "used" => promo[o] = "used"
<1>1. ASSUME NEW S, MovePromo(S, "released") PROVE Unspent
  BY <1>1 DEF MovePromo
<1>2. ASSUME UNCHANGED promo PROVE Unspent
  BY <1>2
<1> HIDE DEF Unspent
<1>3. ASSUME NEW s \in Sweeps, SweepStep(s) \/ SweepCrash(s) PROVE Unspent
  BY <1>1, <1>2, <1>3
     DEF SweepStep, SweepCrash, SweepFind, SweepCancelInvoice, SweepUpdate,
         SweepReleaseHolds, SweepReleasePromo
<1>4. ASSUME NEW r \in Renewals,
             (\E o \in Orders : RenewRead(r, o)) \/ RenewStep(r)
      PROVE  Unspent
  BY <1>2, <1>4 DEF RenewRead, RenewStep, RenewCreateInvoice, RenewVoidOld,
                    RenewOrder, RenewExtend, RenewHold
<1>5. ASSUME NEW k \in Cancels,
             (\E o \in Orders : CancelOrder(k, o)) \/ CancelStep(k)
      PROVE  Unspent
  BY <1>1, <1>2, <1>5 DEF CancelOrder, CancelStep, CancelReleaseHolds,
                          CancelReleasePromo, CancelVoidInvoice, CancelNote
<1>6. ASSUME \/ \E r \in Reviews, o \in Orders : ReviewRead(r, o)
             \/ \E o \in Orders : TimePasses(o)
             \/ \E i \in Invoices : CustomerPays(i)
             \/ UNCHANGED vars
      PROVE  Unspent
  BY <1>2, <1>6 DEF ReviewRead, TimePasses, CustomerPays, vars
<1>7. Unspent
  BY <1>3, <1>4, <1>5, <1>6 DEF OtherStep
<1> QED BY <1>7 DEF Unspent

LEMMA BookedOther ==
  ASSUME Booked, Typed', OtherStep
  PROVE  Booked'
<1> USE DEF Booked
<1>1. Quiet
  BY OtherIsQuiet
<1>2. \A o \in Orders : promo'[o] = "used" => promo[o] = "used"
  BY OtherSpendsNothing
<1>3. \A o \in Orders :
        /\ order'[o].status = "processing" => order[o].status = "processing"
        /\ order'[o].status = "paid" =>
             order[o].status = "paid" /\ order'[o].stage = order[o].stage
  BY <1>1 DEF Quiet
<1>4. ProcessingHasOwner' /\ PaidIsBooked'
  BY <1>1, <1>3 DEF Quiet, ProcessingHasOwner, PaidIsBooked
<1>5. OneOrderPerTx' /\ AppliedIsDeducted' /\ UsedPromoWasPaid'
  BY <1>1, <1>2 DEF Quiet, OneOrderPerTx, AppliedIsDeducted, UsedPromoWasPaid
<1>6. CallBooked'
  BY <1>1 DEF Quiet, CallBooked, Typed, PayHasOrder, InFlight
<1> QED BY <1>4, <1>5, <1>6

\* A step that leaves every order alone and takes no goods; the call that
\* makes it ends, or moves on knowing no more than it did.
IdleMove(c) ==
  /\ UNCHANGED <<order, promo, deducted>>
  /\ \A d \in Payers \ {c} : pay'[d] = pay[d]
  /\ \/ /\ pay[c].pc \notin InFlight \cup {"crashed"}
        /\ pay'[c].pc \in {"proof", "claim", "done", "crashed"}
     \/ /\ pay[c].pc \in InFlight
        /\ pay'[c].pc \in InFlight \cup {"crashed"}
        /\ pay'[c].o = pay[c].o
        /\ pay'[c].applied = pay[c].applied
        /\ pay'[c].pc = "consume" => pay[c].pc = "consume"
        /\ pay'[c].pc = "finish" => pay[c].pc = "consume"

LEMMA BookedIdle ==
  ASSUME Booked, Typed', NEW c \in Payers, IdleMove(c)
  PROVE  Booked'
<1> USE DEF Booked, IdleMove
<1>1. ProcessingHasOwner'
  BY Ranges DEF ProcessingHasOwner, InFlight
<1>2. CallBooked'
  BY DEF CallBooked, InFlight
<1>3. /\ OneOrderPerTx' /\ AppliedIsDeducted' /\ PaidIsBooked'
      /\ UsedPromoWasPaid'
  BY DEF OneOrderPerTx, AppliedIsDeducted, PaidIsBooked, UsedPromoWasPaid
<1> QED BY <1>1, <1>2, <1>3

\* The requests, first reads and crashes, and the steps of a call at work
\* that write neither its order nor the stock.
LEMMA MovesAreIdle ==
  ASSUME Typed, NEW c \in Payers,
         \/ \E o \in Orders, src \in Sources, late \in BOOLEAN,
               tx \in Txs \cup {None} : PayRequest(c, o, src, late, tx)
         \/ PayRead(c) \/ PayKeepInvoice(c) \/ PayCollect(c)
         \/ PayConsumeHolds(c) \/ PayCrash(c)
  PROVE  IdleMove(c)
<1> USE DEF Typed, TypeOK, IdleMove, InFlight
<1>1. pay[c] \in PayCall
  OBVIOUS
<1>2. ASSUME NEW o \in Orders, NEW src \in Sources, NEW late \in BOOLEAN,
             NEW tx \in Txs \cup {None}, PayRequest(c, o, src, late, tx)
      PROVE  IdleMove(c)
  BY <1>1, <1>2 DEF PayRequest, PayCall
<1>3. CASE PayRead(c)
  BY <1>1, <1>3 DEF PayRead, PayEnds, NewCall, PayCall
<1>4. CASE PayKeepInvoice(c) \/ PayConsumeHolds(c) \/ PayCrash(c)
  BY <1>1, <1>4 DEF PayKeepInvoice, PayConsumeHolds, PayCrash, PayCall
<1>5. CASE PayCollect(c)
  <2> DEFINE i == IF pay[c].inv = None THEN c ELSE pay[c].inv
             r(pc) == [pay[c] EXCEPT !.pc = pc, !.inv = i]
  <2>1. PICK pc \in {"write", "fail"} : pay' = [pay EXCEPT ![c] = r(pc)]
    BY <1>5 DEF PayCollect
  <2>2. /\ r(pc).pc = pc /\ r(pc).o = pay[c].o
        /\ r(pc).applied = pay[c].applied
    BY <1>1 DEF PayCall
  <2>3. pay[c].pc = "invoice" /\ UNCHANGED <<order, promo, deducted>>
    BY <1>5 DEF PayCollect
  <2> HIDE DEF r
  <2> QED BY <2>1, <2>2, <2>3
<1> QED BY <1>2, <1>3, <1>4, <1>5

LEMMA BookedClaim ==
  ASSUME Booked, Typed', NEW c \in Payers, PayClaim(c)
  PROVE  Booked'
<1> USE DEF Booked
<1> DEFINE o == pay[c].o
<1>1. CASE ~ClaimFilter(c)
  <2>1. IdleMove(c)
    BY <1>1 DEF PayClaim, PayEnds, NewCall, IdleMove, InFlight, Typed, TypeOK
  <2> QED BY <2>1, BookedIdle
<1>2. CASE ClaimFilter(c)
  <2>1. /\ o \in Orders
        /\ order'[o].status = "processing" /\ order'[o].claim = c
        /\ order'[o].tx = IF pay[c].tx = None THEN order[o].tx ELSE pay[c].tx
        /\ order'[o].paidBy = order[o].paidBy
        /\ order'[o].applied = order[o].applied
        /\ \A d \in Payers \ {c} : pay'[d] = pay[d]
        /\ pay[c].pc = "claim" /\ pay'[c].pc = "invoice"
        /\ pay'[c].o = o /\ pay'[c].applied = order[o].applied
        /\ order' = [order EXCEPT ![o] = order'[o]]
    BY <1>2, ClaimEffect
  <2>2. \A p \in Orders \ {o} : order'[p] = order[p]
    <3>1. order' = [order EXCEPT ![o] = order'[o]]
      BY <2>1
    <3> QED BY <3>1, Ranges
  <2>3. UNCHANGED <<promo, deducted>>
    BY DEF PayClaim
  <2>4. /\ order[o].status \in Claimable
        /\ pay[c].tx # None =>
             \A p \in Orders \ {o} : order[p].tx # pay[c].tx
    BY <1>2 DEF ClaimFilter
  <2> HIDE DEF o
  <2>5. ProcessingHasOwner'
    BY <2>1, <2>2, Ranges DEF ProcessingHasOwner, InFlight
  <2>6. OneOrderPerTx'
    BY <2>1, <2>2, <2>4 DEF OneOrderPerTx
  <2>7. CallBooked'
    BY <2>1, <2>2, <2>3 DEF CallBooked, AppliedIsDeducted, InFlight,
                            Typed, PayHasOrder
  <2>8. AppliedIsDeducted' /\ PaidIsBooked' /\ UsedPromoWasPaid'
    BY <2>1, <2>2, <2>3 DEF AppliedIsDeducted, PaidIsBooked, UsedPromoWasPaid
  <2> QED BY <2>5, <2>6, <2>7, <2>8
<1> QED BY <1>1, <1>2

LEMMA BookedWriteInvoice ==
  ASSUME Booked, Typed', NEW c \in Payers, PayWriteInvoice(c)
  PROVE  Booked'
<1> USE DEF Booked
<1>1. /\ \A p \in Orders :
           /\ order'[p].status = order[p].status
           /\ order'[p].stage = order[p].stage
           /\ order'[p].claim = order[p].claim
           /\ order'[p].tx = order[p].tx
           /\ order'[p].paidBy = order[p].paidBy
           /\ order'[p].applied = order[p].applied
      /\ \A d \in Payers \ {c} : pay'[d] = pay[d]
      /\ \/ pay'[c].pc = "done" /\ ~OwnedClaim(c)
         \/ /\ pay'[c].pc \in {"stock", "fail"}
            /\ pay'[c].o = pay[c].o /\ pay'[c].applied = pay[c].applied
  BY WriteInvoiceEffect
<1>2. UNCHANGED <<promo, deducted>> /\ pay[c].pc = "write"
  BY DEF PayWriteInvoice
<1>3. ProcessingHasOwner'
  BY <1>1, <1>2, Ranges DEF ProcessingHasOwner, OwnedClaim, InFlight
<1>4. CallBooked'
  BY <1>1, <1>2 DEF CallBooked, InFlight, Typed, PayHasOrder
<1>5. /\ OneOrderPerTx' /\ AppliedIsDeducted' /\ PaidIsBooked'
      /\ UsedPromoWasPaid'
  BY <1>1, <1>2
     DEF OneOrderPerTx, AppliedIsDeducted, PaidIsBooked, UsedPromoWasPaid
<1> QED BY <1>3, <1>4, <1>5

LEMMA BookedFail ==
  ASSUME Booked, Typed', NEW c \in Payers, PayFail(c)
  PROVE  Booked'
<1> USE DEF Booked
<1>1. /\ \A p \in Orders :
           /\ order'[p].claim = order[p].claim
           /\ order'[p].tx = order[p].tx
           /\ order'[p].paidBy = order[p].paidBy
           /\ order'[p].applied = order[p].applied
           /\ \/ /\ order'[p] = order[p]
                 /\ p # pay[c].o \/ ~OwnedClaim(c)
              \/ order'[p].status = "failed"
      /\ \A d \in Payers \ {c} : pay'[d] = pay[d]
      /\ pay[c].pc = "fail" /\ pay'[c].pc = "done"
  BY FailEffect, Ranges
<1>2. UNCHANGED <<promo, deducted>>
  BY DEF PayFail
<1>3. ProcessingHasOwner'
  BY <1>1, Ranges DEF ProcessingHasOwner, OwnedClaim, InFlight
<1>4. CallBooked'
  BY <1>1, <1>2 DEF CallBooked, InFlight, Typed, PayHasOrder
<1>5. /\ OneOrderPerTx' /\ AppliedIsDeducted' /\ PaidIsBooked'
      /\ UsedPromoWasPaid'
  BY <1>1, <1>2
     DEF OneOrderPerTx, AppliedIsDeducted, PaidIsBooked, UsedPromoWasPaid
<1> QED BY <1>3, <1>4, <1>5

LEMMA BookedDeduct ==
  ASSUME Booked, Typed', NEW c \in Payers, PayDeduct(c)
  PROVE  Booked'
<1> USE DEF Booked
<1> DEFINE o == pay[c].o
<1>1. /\ pay[c].pc = "stock" /\ o \in Orders
      /\ UNCHANGED <<order, promo>>
      /\ \A d \in Payers \ {c} : pay'[d] = pay[d]
      /\ pay'[c].pc = "consume" /\ pay'[c].o = o
      /\ pay'[c].applied = pay[c].applied
  BY DEF PayHasOrder, PayDeduct, PayCall, Typed, TypeOK
<1>2. /\ \A p \in Orders : deducted[p] # {} => deducted'[p] # {}
      /\ ~pay[c].applied => deducted'[o] # {}
  BY <1>1, Ranges DEF PayDeduct
<1> HIDE DEF o
<1>3. pay[c].applied => deducted[o] # {}
  BY <1>1 DEF CallBooked, InFlight, o
<1>4. ProcessingHasOwner'
  BY <1>1, Ranges DEF ProcessingHasOwner, InFlight, o
<1>5. CallBooked'
  BY <1>1, <1>2, <1>3 DEF CallBooked, InFlight, Typed, PayHasOrder
<1>6. /\ OneOrderPerTx' /\ AppliedIsDeducted' /\ PaidIsBooked'
      /\ UsedPromoWasPaid'
  BY <1>1, <1>2
     DEF OneOrderPerTx, AppliedIsDeducted, PaidIsBooked, UsedPromoWasPaid
<1> QED BY <1>4, <1>5, <1>6

LEMMA BookedFinish ==
  ASSUME Booked, Typed', NEW c \in Payers, PayFinish(c)
  PROVE  Booked'
<1> USE DEF Booked
<1> DEFINE o == pay[c].o
<1>1. /\ o \in Orders /\ pay[c].pc = "finish"
      /\ \A d \in Payers \ {c} : pay'[d] = pay[d]
      /\ UNCHANGED <<promo, deducted>>
  BY FinishEffect DEF PayFinish
<1>2. deducted[o] # {}
  BY <1>1 DEF CallBooked
<1>3. CASE ~OwnedClaim(c)
  <2>1. order' = order /\ pay'[c].pc = "done"
    BY <1>3, FinishEffect
  <2> HIDE DEF o
  <2>2. ProcessingHasOwner'
    BY <1>1, <1>3, <2>1, Ranges
       DEF ProcessingHasOwner, OwnedClaim, InFlight, o
  <2>3. CallBooked'
    BY <1>1, <2>1 DEF CallBooked, InFlight
  <2>4. /\ OneOrderPerTx' /\ AppliedIsDeducted' /\ PaidIsBooked'
        /\ UsedPromoWasPaid'
    BY <1>1, <2>1
       DEF OneOrderPerTx, AppliedIsDeducted, PaidIsBooked, UsedPromoWasPaid
  <2> QED BY <2>2, <2>3, <2>4
<1>4. CASE OwnedClaim(c)
  <2>1. /\ order'[o].status = "paid"
        /\ order'[o].stage \in {"cho_xu_ly", "thieu_hang"}
        /\ order'[o].tx = order[o].tx
        /\ order'[o].paidBy = c /\ order'[o].applied
        /\ pay'[c].pc = "redeem" /\ pay'[c].o = o
        /\ order' = [order EXCEPT ![o] = order'[o]]
    BY <1>4, FinishEffect
  <2>2. \A p \in Orders \ {o} : order'[p] = order[p]
    <3>1. order' = [order EXCEPT ![o] = order'[o]]
      BY <2>1
    <3> QED BY <3>1, Ranges
  <2>3. c # None
    BY Ranges
  <2> HIDE DEF o
  <2>4. ProcessingHasOwner'
    BY <1>1, <2>1, <2>2, Ranges DEF ProcessingHasOwner, InFlight, o
  <2>5. CallBooked'
    BY <1>1, <2>1, <2>2, <2>3
       DEF CallBooked, InFlight, Typed, PayHasOrder
  <2>6. OneOrderPerTx' /\ AppliedIsDeducted' /\ PaidIsBooked'
    BY <1>1, <1>2, <2>1, <2>2
       DEF OneOrderPerTx, AppliedIsDeducted, PaidIsBooked
  <2>7. UsedPromoWasPaid'
    BY <1>1, <2>1, <2>2, <2>3 DEF UsedPromoWasPaid
  <2> QED BY <2>4, <2>5, <2>6, <2>7
<1> QED BY <1>3, <1>4

LEMMA BookedRedeem ==
  ASSUME Booked, Typed', NEW c \in Payers, PayRedeem(c)
  PROVE  Booked'
<1> USE DEF Booked
<1>1. /\ pay[c].pc = "redeem" /\ pay'[c].pc = "done"
      /\ UNCHANGED <<order, deducted>>
      /\ \A d \in Payers \ {c} : pay'[d] = pay[d]
  BY DEF PayRedeem, PayEnds, NewCall, Typed, TypeOK
<1>2. \A o \in Orders : promo'[o] = "used" => promo[o] = "used" \/ o = pay[c].o
  BY DEF PayRedeem, MovePromo
<1>3. ProcessingHasOwner'
  BY <1>1, Ranges DEF ProcessingHasOwner, InFlight
<1>4. CallBooked'
  BY <1>1 DEF CallBooked, InFlight
<1>5. UsedPromoWasPaid'
  BY <1>1, <1>2 DEF UsedPromoWasPaid, CallBooked
<1>6. OneOrderPerTx' /\ AppliedIsDeducted' /\ PaidIsBooked'
  BY <1>1 DEF OneOrderPerTx, AppliedIsDeducted, PaidIsBooked
<1> QED BY <1>3, <1>4, <1>5, <1>6

LEMMA BookedReview ==
  ASSUME Booked, Typed', NEW r \in Reviews, ReviewWrite(r)
  PROVE  Booked'
<1> USE DEF Booked
<1>1. /\ \A p \in Orders :
           /\ order'[p].claim = order[p].claim
           /\ order'[p].tx = order[p].tx
           /\ order'[p].paidBy = order[p].paidBy
           /\ order'[p].applied = order[p].applied
           /\ order'[p] = order[p] \/ order'[p].status = "underpaid"
      /\ pay' = pay
  BY ReviewEffect, Ranges
<1>2. UNCHANGED <<promo, deducted>>
  BY DEF ReviewWrite
<1>3. ProcessingHasOwner' /\ PaidIsBooked'
  BY <1>1, <1>2 DEF ProcessingHasOwner, PaidIsBooked
<1>4. CallBooked'
  BY <1>1, <1>2 DEF CallBooked, InFlight, Typed, PayHasOrder
<1>5. OneOrderPerTx' /\ AppliedIsDeducted' /\ UsedPromoWasPaid'
  BY <1>1, <1>2 DEF OneOrderPerTx, AppliedIsDeducted, UsedPromoWasPaid
<1> QED BY <1>3, <1>4, <1>5

LEMMA BookedNext == Booked /\ [Next]_vars => Booked'
<1> SUFFICES ASSUME Booked, [Next]_vars PROVE Booked'
  OBVIOUS
<1>1. Typed /\ Typed'
  BY TypeNext DEF Booked
<1>2. ASSUME NEW c \in Payers, IdleMove(c) PROVE Booked'
  BY <1>1, <1>2, BookedIdle
<1>3. ASSUME NEW c \in Payers, PayStep(c) \/ PayCrash(c) PROVE Booked'
  BY <1>1, <1>2, <1>3, MovesAreIdle, BookedClaim, BookedWriteInvoice,
     BookedFail, BookedDeduct, BookedFinish, BookedRedeem DEF PayStep
<1>4. ASSUME OtherStep PROVE Booked'
  BY <1>1, <1>4, BookedOther
<1>5. CASE UNCHANGED vars
  BY <1>4, <1>5 DEF OtherStep
<1>6. CASE Next
  BY <1>1, <1>2, <1>3, <1>4, <1>6, MovesAreIdle, BookedReview
     DEF Next, OtherStep
<1> QED BY <1>5, <1>6

\* Booked holds throughout.
LEMMA BookedAlways == Spec => []Booked
  BY BookedInit, BookedNext, PTL DEF Spec

\* A paid order has had its goods taken out of stock, is marked so, and is
\* open again.
THEOREM SettledOrdersBooked == Spec => []PaidIsBooked
<1>1. Booked => PaidIsBooked
  BY DEF Booked
<1> QED BY <1>1, BookedAlways, PTL

\* An order is "processing" under a call that is at work on it or died so.
THEOREM ClaimsAreOwned == Spec => []ProcessingHasOwner
<1>1. Booked => ProcessingHasOwner
  BY DEF Booked
<1> QED BY <1>1, BookedAlways, PTL

\* One bank transfer settles one order, whatever calls race with it.
THEOREM TransfersSettleOnce == Spec => []OneOrderPerTx
<1>1. Booked => OneOrderPerTx
  BY DEF Booked
<1> QED BY <1>1, BookedAlways, PTL

\* A promotion counts as used only on an order some call has settled.
THEOREM PromosFollowPayment == Spec => []UsedPromoWasPaid
<1>1. Booked => UsedPromoWasPaid
  BY DEF Booked
<1> QED BY <1>1, BookedAlways, PTL

\* Of the goods of an order no review has taken a claim from, only one call
\* takes them out of stock.
THEOREM GoodsLeaveOnce == Spec => []DeductOnce
<1>1. ClaimExclusive /\ DeductOnce => DeductOnce
  OBVIOUS
<1> QED BY <1>1, ClaimsExclude, PTL

-----------------------------------------------------------------------------
(* No claim is late. *)

Reopenable == {"unpaid", "expired"}

\* A call about to claim remembers a status it could claim from; if that was
\* not "unpaid", the order is not waiting for its first transfer any more.
Remembered ==
  \A c \in Payers : pay[c].pc = "claim" =>
    /\ pay[c].saw \in Claimable
    /\ pay[c].saw # "unpaid" => order[pay[c].o].status \notin Reopenable

\* The steps that write an order, seen from its status.
LEMMA StatusEffect ==
  ASSUME Typed, [Next]_vars, NEW o \in Orders, order'[o].status # order[o].status
  PROVE  \/ /\ order[o].status \in Reopenable
            /\ order'[o].status \in {"unpaid", "expired", "cancelled"}
         \/ order'[o].status \in {"failed", "paid", "underpaid"}
         \/ \E c \in Payers : /\ PayClaim(c) /\ ClaimFilter(c)
                              /\ pay[c].o = o /\ pay[c].pc = "claim"
                              /\ order'[o].claim = c
                              /\ order'[o].status = "processing"
<1>1. CASE OtherStep
  BY <1>1, OtherIsQuiet DEF Quiet, Reopenable
<1>2. ASSUME NEW c \in Payers, CallIdles(c) PROVE FALSE
  BY <1>2, IdleEffect
<1>3. ASSUME NEW c \in Payers, PayClaim(c)
      PROVE  /\ ClaimFilter(c) /\ pay[c].o = o /\ pay[c].pc = "claim"
             /\ order'[o].claim = c /\ order'[o].status = "processing"
  <2>1. ClaimFilter(c)
    BY <1>3 DEF PayClaim
  <2>2. order' = [order EXCEPT ![pay[c].o] = order'[pay[c].o]]
    BY <1>3, <2>1, ClaimEffect
  <2>3. pay[c].o = o
    BY <2>2, Ranges
  <2> QED BY <1>3, <2>1, <2>3, ClaimEffect
<1>4. ASSUME NEW c \in Payers, PayWriteInvoice(c) PROVE FALSE
  BY <1>4, WriteInvoiceEffect
<1>5. ASSUME NEW c \in Payers, PayFail(c) PROVE order'[o].status = "failed"
  BY <1>5, FailEffect, Ranges
<1>6. ASSUME NEW c \in Payers, PayFinish(c) PROVE order'[o].status = "paid"
  BY <1>6, FinishEffect, Ranges
<1>7. ASSUME NEW r \in Reviews, ReviewWrite(r)
      PROVE  order'[o].status = "underpaid"
  BY <1>7, ReviewEffect, Ranges
<1> QED BY <1>1, <1>2, <1>3, <1>4, <1>5, <1>6, <1>7
        DEF Next, OtherStep, PayStep, CallIdles

\* A call about to claim has been so, or has just read its order.
LEMMA ClaimerEffect ==
  ASSUME Typed, [Next]_vars, NEW c \in Payers, pay'[c].pc = "claim"
  PROVE  \/ pay'[c] = pay[c]
         \/ /\ order' = order /\ pay'[c].saw \in Claimable
            /\ pay'[c].saw = order[pay'[c].o].status
<1> USE DEF Typed, TypeOK
<1>1. CASE OtherStep
  BY <1>1, OtherIsQuiet DEF Quiet
<1>2. ASSUME NEW d \in Payers, PayRead(d)
      PROVE  \/ pay'[c] = pay[c]
             \/ /\ order' = order /\ pay'[c].saw \in Claimable
                /\ pay'[c].saw = order[pay'[c].o].status
  <2>1. CASE d # c \/ ~MayClaim(d)
    BY <1>2, <2>1 DEF PayRead, PayEnds, NewCall
  <2>2. CASE d = c /\ MayClaim(c)
    <3> DEFINE r == [pay[c] EXCEPT !.pc = "claim",
                                   !.saw = order[pay[c].o].status,
                                   !.inv = order[pay[c].o].inv]
    <3>1. r.o = pay[c].o /\ r.saw = order[pay[c].o].status
      BY DEF PayCall
    <3>2. pay'[c] = r /\ order' = order
      BY <1>2, <2>2 DEF PayRead
    <3>3. order[pay[c].o].status \in Claimable
      BY <2>2 DEF MayClaim
    <3> HIDE DEF r
    <3> QED BY <3>1, <3>2, <3>3
  <2> QED BY <2>1, <2>2
<1>3. ASSUME NEW d \in Payers, CallIdles(d) \/ PayClaim(d) \/ PayWriteInvoice(d)
                               \/ PayFail(d) \/ PayFinish(d),
             ~PayRead(d)
      PROVE  pay'[c] = pay[c]
  <2>1. /\ \A e \in Payers \ {d} : pay'[e] = pay[e]
        /\ pay'[d].pc # "claim"
    <3>1. CASE PayClaim(d)
      <4>1. CASE ClaimFilter(d)
        BY <3>1, <4>1, ClaimEffect
      <4>2. CASE ~ClaimFilter(d)
        BY <3>1, <4>2 DEF PayClaim, PayEnds, NewCall
      <4> QED BY <4>1, <4>2
    <3>2. CASE PayWriteInvoice(d) \/ PayFail(d) \/ PayFinish(d)
      BY <3>2, WriteInvoiceEffect, FailEffect, FinishEffect
    <3>3. ASSUME NEW o \in Orders, NEW src \in Sources, NEW late \in BOOLEAN,
                 NEW tx \in Txs \cup {None}, PayRequest(d, o, src, late, tx)
          PROVE  /\ \A e \in Payers \ {d} : pay'[e] = pay[e]
                 /\ pay'[d].pc # "claim"
      BY <3>3 DEF PayRequest, PayCall
    <3>4. CASE \/ PayKeepInvoice(d) \/ PayDeduct(d) \/ PayConsumeHolds(d)
              \/ PayRedeem(d) \/ PayCrash(d)
      BY <3>4 DEF PayKeepInvoice, PayDeduct, PayConsumeHolds, PayRedeem,
                  PayCrash, PayEnds, NewCall, PayCall
    <3>5. CASE PayCollect(d)
      <4>1. IdleMove(d) /\ pay[d].pc = "invoice"
        BY <3>5, MovesAreIdle DEF PayCollect
      <4> QED BY <4>1 DEF IdleMove, InFlight
    <3> QED BY <1>3, <3>1, <3>2, <3>3, <3>4, <3>5 DEF CallIdles
  <2> QED BY <2>1
<1>4. ASSUME NEW r \in Reviews, ReviewWrite(r) PROVE pay'[c] = pay[c]
  BY <1>4, ReviewEffect
<1> QED BY <1>1, <1>2, <1>3, <1>4 DEF Next, OtherStep, PayStep, CallIdles

LEMMA RememberedNext ==
  ASSUME Typed, Typed', Remembered, [Next]_vars
  PROVE  Remembered'
<1> SUFFICES ASSUME NEW c \in Payers, pay'[c].pc = "claim"
             PROVE  /\ pay'[c].saw \in Claimable
                    /\ pay'[c].saw # "unpaid" =>
                         order'[pay'[c].o].status \notin Reopenable
  BY DEF Remembered
<1>1. pay'[c].o \in Orders
  BY DEF Typed, PayHasOrder
<1>2. CASE pay'[c] = pay[c]
  <2>1. /\ pay[c].saw \in Claimable
        /\ pay[c].saw # "unpaid" => order[pay[c].o].status \notin Reopenable
    BY <1>2 DEF Remembered
  <2>2. order[pay[c].o].status \notin Reopenable
          => order'[pay[c].o].status \notin Reopenable
    BY <1>1, <1>2, StatusEffect DEF Reopenable
  <2> QED BY <1>2, <2>1, <2>2
<1>3. CASE /\ order' = order /\ pay'[c].saw \in Claimable
           /\ pay'[c].saw = order[pay'[c].o].status
  BY <1>3 DEF Claimable, Reopenable
<1> QED BY <1>2, <1>3, ClaimerEffect

LEMMA InTimeStep ==
  ASSUME Typed, Remembered, [Next]_vars,
         NEW o \in Orders, NEW c \in Payers,
         order[o].status = "unpaid", order'[o].status = "processing",
         order'[o].claim = c, ~pay[c].late
  PROVE  ~(pay[c].ranOut /\ order[o].due)
<1>1. PICK d \in Payers : /\ ClaimFilter(d) /\ pay[d].o = o
                          /\ pay[d].pc = "claim" /\ order'[o].claim = d
  BY StatusEffect
<1>2. pay[c].saw = "unpaid"
  BY <1>1 DEF Remembered, Reopenable
<1> QED BY <1>1, <1>2 DEF ClaimFilter, InTime

\* Staff who did not ask for it never settle an unpaid order that had run out
\* when they pressed the button, whatever it was when the call first read it.
THEOREM ClaimsAreInTime == Spec => NoLateClaim
<1>1. Init => Typed /\ Remembered
  <2>1. Init => \A c \in Payers : pay[c].pc = "start"
    BY DEF Init, NewCall
  <2> QED BY <2>1, TypeInit DEF Remembered
<1>2. Typed /\ Remembered /\ [Next]_vars => (Typed /\ Remembered)'
  BY TypeNext, RememberedNext
<1>3. Typed /\ Remembered /\ [Next]_vars
        => [\A o \in Orders, c \in Payers :
              (/\ order[o].status = "unpaid"
               /\ order'[o].status = "processing"
               /\ order'[o].claim = c
               /\ ~pay[c].late)
                => ~(pay[c].ranOut /\ order[o].due)]_vars
  BY InTimeStep
<1> QED BY <1>1, <1>2, <1>3, PTL DEF Spec, NoLateClaim
=============================================================================
