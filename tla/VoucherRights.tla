---------------------------- MODULE VoucherRights ----------------------------
(***************************************************************************)
(* What a customer may use once: the right of a first purchase             *)
(* (shopPromotions/claimService.ts), kept as one claim per account and one *)
(* per phone number, and the vouchers saved in a wallet                    *)
(* (shopPromotions/wallet/walletService.ts).                               *)
(*                                                                         *)
(* A checkout asks whether the buyer is new, takes both claims, holds the  *)
(* redemption, then the vouchers, and saves the order.  Paying uses what   *)
(* was held; failing, cancelling or running out of time gives it back, and *)
(* an order that is then renewed, or was paid meanwhile, does not take it  *)
(* again.  None of it is one transaction: an action is what happens between*)
(* two awaits.                                                             *)
(***************************************************************************)
EXTENDS Integers, Sequences, FiniteSets

CONSTANTS
  Orders,     \* orders, each with the checkout that creates it
  Account,    \* order -> the account that places it
  Phone,      \* order -> the buyer's phone number
  FirstBuys,  \* orders that ask for a promotion of new customers
  Transfers,  \* orders paid by transfer; the others are paid on delivery
  Vouchers,   \* order -> the vouchers of the wallet it uses, in order
  Promos,     \* vouchers that must be saved before use
  SaveLimit,  \* voucher -> claimLimitTotal
  Tiers,      \* percentages of a mystery voucher
  TierLimit,  \* voucher -> tier -> how many may be drawn
  Saves,      \* requests that save a voucher
  Saver,      \* save -> the account that sends it
  Wanted,     \* save -> the voucher
  Together,   \* bound: the requests a behaviour has, one of these sets
  MaxEndings, \* bound: cancellations and expiries
  MaxCrashes, \* bound: how many handlers may die half way
  None        \* no order, no tier

Accounts == {Account[o] : o \in Orders} \cup {Saver[k] : k \in Saves}
Identities == Accounts \cup {Phone[o] : o \in Orders}
Ids(o) == {Account[o], Phone[o]}
Entries == Promos \X Accounts
EntryAt(o, i) == <<Vouchers[o][i], Account[o]>>
EntriesOf(o) == {EntryAt(o, i) : i \in DOMAIN Vouchers[o]}

ASSUME VoucherAssumption ==
  /\ IsFiniteSet(Orders) /\ IsFiniteSet(Saves)
  /\ FirstBuys \subseteq Orders /\ Transfers \subseteq Orders
  /\ \A k \in Saves : Wanted[k] \in Promos
  /\ \A o \in Orders : Vouchers[o] \in Seq(Promos) /\ Account[o] # Phone[o]
  /\ SaveLimit \in [Promos -> Nat]
  /\ TierLimit \in [Promos -> [Tiers -> Nat]]
  /\ \A sent \in Together : sent \subseteq Orders \cup Saves
  /\ MaxEndings \in Nat /\ MaxCrashes \in Nat
  /\ None \notin Orders \cup Tiers

VARIABLES
  claim,      \* promotion claims: identity -> state, order, lease
  redemption, \* order -> its redemption
  promo,      \* voucher -> claimedCount and what is left of each tier
  entry,      \* wallet entries
  order,      \* order -> how it stands
  buy,        \* Orders -> locals of the checkout
  move,       \* Orders -> transitionHeldRedemptions of a payment or a checkout
  back,       \* Orders -> the same of a cancellation or the sweep
  found,      \* orders the sweep has found out of time
  endings,    \* how often an order was cancelled or swept
  stripped,   \* history: orders whose rights were given back once placed
  save,       \* Saves -> locals of insertWalletEntry
  crashes     \* handlers that have died

ending == <<back, found, endings, stripped>>
vars == <<claim, redemption, promo, entry, order, buy, move, ending, save, crashes>>

-----------------------------------------------------------------------------
(* State *)

\* The order and the lease are kept while they matter, when it is held.
Claim == [state : {"none", "held", "consumed", "released"},
          o : Orders \cup {None}, live : BOOLEAN]   \* leaseUntil not reached

Consumed == [state |-> "consumed", o |-> None, live |-> FALSE]
Released == [state |-> "released", o |-> None, live |-> FALSE]

Entry == [status : {"none", "saved", "held", "used", "expired"},
          o : Orders \cup {None}, tier : Tiers \cup {None}]

Quote == {"orders", "used", "kept", "redeemed"}
Take == {"consumed", "held", "account", "phone", "redeem", "wallet", "insert"}

TypeOK ==
  /\ claim \in [Identities -> Claim]
  /\ redemption \in [Orders -> {"none", "held", "used", "released"}]
  /\ promo \in [Promos -> [claimed : Nat, left : [Tiers -> Nat]]]
  /\ entry \in [Entries -> Entry]
  /\ order \in [Orders -> {"none", "open", "paid", "expired", "cancelled"}]
  /\ buy \in [Orders -> [pc : Quote \cup Take \cup {"start", "rollback", "over", "crashed"},
                         i : Nat, saw : SUBSET Orders]]
  /\ move \in [Orders -> [pc : {"idle", "flip", "claims", "wallet", "record", "done"},
                          to : {"used", "released"},
                          ids : SUBSET Identities, rows : SUBSET Entries]]
  /\ back \in [Orders -> [pc : {"idle", "flip", "claims", "wallet"},
                          ids : SUBSET Identities, rows : SUBSET Entries]]
  /\ found \subseteq Orders /\ stripped \subseteq Orders /\ endings \in 0..MaxEndings
  /\ save \in [Saves -> [pc : {"idle", "slot", "draw", "insert", "opening",
                               "open", "done", "crashed"},
                         tiers : SUBSET Tiers, tier : Tiers \cup {None}]]
  /\ crashes \in 0..MaxCrashes

\* Some vouchers were saved before they became mystery vouchers.
Init == \E before \in SUBSET Entries, sent \in Together :
  /\ \A p \in Promos : Cardinality({e \in before : e[1] = p}) <= SaveLimit[p]
  /\ claim = [i \in Identities |-> [state |-> "none", o |-> None, live |-> FALSE]]
  /\ redemption = [o \in Orders |-> "none"]
  /\ promo = [p \in Promos |-> [claimed |-> Cardinality({e \in before : e[1] = p}),
                            left |-> TierLimit[p]]]
  /\ entry = [e \in Entries |-> [status |-> IF e \in before THEN "saved" ELSE "none",
                                o |-> None, tier |-> None]]
  /\ order = [o \in Orders |-> "none"]
  /\ buy = [o \in Orders |-> [pc |-> IF o \in sent THEN "start" ELSE "over",
                           i |-> 1, saw |-> {}]]
  /\ move = [o \in Orders |-> [pc |-> "idle", to |-> "used", ids |-> {}, rows |-> {}]]
  /\ back = [o \in Orders |-> [pc |-> "idle", ids |-> {}, rows |-> {}]]
  /\ found = {} /\ stripped = {} /\ endings = 0
  /\ save = [k \in Saves |-> [pc |-> IF k \in sent THEN "idle" ELSE "done",
                           tiers |-> {}, tier |-> None]]
  /\ crashes = 0

-----------------------------------------------------------------------------
(* checkIsNewWebBuyer: four queries, each of which may refuse the buyer    *)

Goto(o, pc) ==
  buy' = [buy EXCEPT ![o].pc = pc, ![o].i = 1,
                     ![o].saw = IF pc \in {"over", "crashed"} THEN {} ELSE @]

Start(o) ==
  /\ buy[o].pc = "start"
  /\ buy' = [buy EXCEPT ![o].pc = IF o \in FirstBuys THEN "orders" ELSE "wallet",
                        ![o].saw = {q \in Orders : order[q] # "none"}]
  /\ UNCHANGED <<claim, redemption, promo, entry, order, move, ending, save, crashes>>

Query(o, pc, refuses, then) ==
  /\ buy[o].pc = pc
  /\ Goto(o, IF refuses THEN "over" ELSE then)
  /\ UNCHANGED <<claim, redemption, promo, entry, order, move, ending, save, crashes>>

SameBuyer(o, q) == q # o /\ Ids(o) \cap Ids(q) # {}

QuoteOrders(o) ==
  Query(o, "orders", \E q \in Orders : SameBuyer(o, q) /\ order[q] = "paid", "used")

AnyConsumed(o) == \E i \in Ids(o) : claim[i].state = "consumed"

AnyHeldElsewhere(o) ==
  \E i \in Ids(o) : claim[i].state = "held" /\ claim[i].o # o /\ claim[i].live

QuoteConsumed(o) == Query(o, "used", AnyConsumed(o), "kept")

QuoteHeld(o) == Query(o, "kept", AnyHeldElsewhere(o), "redeemed")

\* Mutant: only a redemption that was used shows an earlier purchase.
QuoteUsedRedemption(o) ==
  Query(o, "redeemed",
    \E q \in FirstBuys : SameBuyer(o, q) /\ redemption[q] = "used", "consumed")

\* A redemption held by an order tells, after its lease has run out.
QuoteRedemption(o) ==
  Query(o, "redeemed",
    \E q \in FirstBuys : SameBuyer(o, q) /\ redemption[q] \in {"held", "used"}, "consumed")

-----------------------------------------------------------------------------
(* holdFirstPurchaseClaims: two checks, then one upsert for each identity  *)

HoldConsumed(o) == Query(o, "consumed", AnyConsumed(o), "held")

HoldHeld(o) == Query(o, "held", AnyHeldElsewhere(o), "account")

\* No document, or one that the upsert's filter matches; else E11000.
Takes(i, o) ==
  \/ claim[i].state \in {"none", "released"}
  \/ claim[i].state = "held" /\ (claim[i].o = o \/ ~claim[i].live)

TakenBy(o) == [state |-> "held", o |-> o, live |-> TRUE]

HoldAccount(o) ==
  /\ buy[o].pc = "account"
  /\ IF Takes(Account[o], o)
       THEN claim' = [claim EXCEPT ![Account[o]] = TakenBy(o)] /\ Goto(o, "phone")
       ELSE Goto(o, "over") /\ UNCHANGED claim
  /\ UNCHANGED <<redemption, promo, entry, order, move, ending, save, crashes>>

\* Mutant: a phone number taken by another order leaves the account held.
HoldPhoneKeeps(o) ==
  /\ buy[o].pc = "phone"
  /\ IF Takes(Phone[o], o)
       THEN claim' = [claim EXCEPT ![Phone[o]] = TakenBy(o)] /\ Goto(o, "redeem")
       ELSE Goto(o, "over") /\ UNCHANGED claim
  /\ UNCHANGED <<redemption, promo, entry, order, move, ending, save, crashes>>

\* E11000 on the phone number: the account's claim is given back next.
HoldPhone(o) ==
  /\ buy[o].pc = "phone"
  /\ IF Takes(Phone[o], o)
       THEN claim' = [claim EXCEPT ![Phone[o]] = TakenBy(o)] /\ Goto(o, "redeem")
       ELSE Goto(o, "rollback") /\ UNCHANGED claim
  /\ UNCHANGED <<redemption, promo, entry, order, move, ending, save, crashes>>

HeldBy(i, o) == claim[i].state = "held" /\ claim[i].o = o

RollbackAccount(o) ==
  /\ buy[o].pc = "rollback"
  /\ claim' = IF HeldBy(Account[o], o)
                THEN [claim EXCEPT ![Account[o]] = Released] ELSE claim
  /\ Goto(o, "over")
  /\ UNCHANGED <<redemption, promo, entry, order, move, ending, save, crashes>>

-----------------------------------------------------------------------------
(* The rest of the checkout: holdOrderPromotions and the insert            *)

\* transitionHeldRedemptions begins; a failed checkout calls it too.
Moves(o, to) ==
  move' = [move EXCEPT ![o] = [pc |-> "flip", to |-> to, ids |-> Ids(o),
                               rows |-> EntriesOf(o)]]

NoMove == [pc |-> "done", to |-> "used", ids |-> {}, rows |-> {}]

Fails(o) == Goto(o, "over") /\ Moves(o, "released")

\* holdPromotion, whose limits PromotionHolds has, may refuse.
Redeem(o) ==
  /\ buy[o].pc = "redeem"
  /\ \/ /\ redemption' = [redemption EXCEPT ![o] = "held"]
        /\ Goto(o, "wallet")
        /\ UNCHANGED move
     \/ Fails(o) /\ UNCHANGED redemption
  /\ UNCHANGED <<claim, promo, entry, order, ending, save, crashes>>

\* Mutant: a voucher that is held for another order will do.
InWallet(e) == entry[e].status \in {"saved", "held"}

Usable(e) == entry[e].status = "saved"

\* holdWalletVouchers: one conditional update for each voucher.
HoldVoucher(o) ==
  LET i == buy[o].i
      e == EntryAt(o, i)
  IN
  /\ buy[o].pc = "wallet"
  /\ IF i > Len(Vouchers[o])
       THEN Goto(o, "insert") /\ UNCHANGED <<entry, move>>
       ELSE IF Usable(e)
       THEN /\ entry' = [entry EXCEPT ![e].status = "held", ![e].o = o]
            /\ buy' = [buy EXCEPT ![o].i = i + 1]
            /\ UNCHANGED move
       ELSE Fails(o) /\ UNCHANGED entry
  /\ UNCHANGED <<claim, redemption, promo, order, ending, save, crashes>>

\* The order is inserted; the insert, or a step before it, may fail.
Insert(o) ==
  /\ buy[o].pc = "insert"
  /\ \/ /\ order' = [order EXCEPT ![o] = "open"]
        /\ Goto(o, "over")
        /\ UNCHANGED move
     \/ Fails(o) /\ UNCHANGED order
  /\ UNCHANGED <<claim, redemption, promo, entry, ending, save, crashes>>

-----------------------------------------------------------------------------
(* Payment: transitionHeldRedemptions to "used"; a failed checkout's release *)

\* A transfer is settled, or an order delivered.
Settle(o) ==
  /\ order[o] = "open"
  /\ order' = [order EXCEPT ![o] = "paid"]
  /\ Moves(o, "used")
  /\ UNCHANGED <<claim, redemption, promo, entry, buy, ending, save, crashes>>

FlipTo(o, to) ==
  redemption' = [redemption EXCEPT ![o] = IF @ = "held" THEN to ELSE @]

ClaimTo(i, o, to) ==
  claim' = [claim EXCEPT ![i] =
    IF ~HeldBy(i, o) THEN @ ELSE IF to = "used" THEN Consumed ELSE Released]

\* A voucher that is given back may have run out.
VoucherTo(e, o, to) ==
  IF entry[e].status # "held" \/ entry[e].o # o THEN UNCHANGED entry
  ELSE IF to = "used" THEN entry' = [entry EXCEPT ![e].status = "used"]
  ELSE \E s \in {"saved", "expired"} :
         entry' = [entry EXCEPT ![e].status = s, ![e].o = None]

Flip(o) ==
  /\ move[o].pc = "flip"
  /\ FlipTo(o, move[o].to)
  /\ move' = [move EXCEPT ![o].pc = "claims"]
  /\ UNCHANGED <<claim, promo, entry, order, buy, ending, save, crashes>>

\* consumeFirstPurchaseClaims, releaseFirstPurchaseClaims: an updateMany.
MoveClaim(o) ==
  /\ move[o].pc = "claims"
  /\ IF move[o].ids = {}
       THEN move' = [move EXCEPT ![o].pc = "wallet"] /\ UNCHANGED claim
       ELSE \E i \in move[o].ids :
              /\ ClaimTo(i, o, move[o].to)
              /\ move' = [move EXCEPT ![o].ids = @ \ {i}]
  /\ UNCHANGED <<redemption, promo, entry, order, buy, ending, save, crashes>>

\* A payment by transfer is recorded whatever promotions the order had.
AfterWallet(o) ==
  IF move[o].to = "used" /\ o \in Transfers
    THEN [move[o] EXCEPT !.pc = "record", !.ids = Ids(o)]
    ELSE NoMove

\* useWalletForOrder, releaseWalletForOrder.
MoveVoucher(o) ==
  /\ move[o].pc = "wallet"
  /\ IF move[o].rows = {}
       THEN move' = [move EXCEPT ![o] = AfterWallet(o)] /\ UNCHANGED entry
       ELSE \E e \in move[o].rows :
              /\ VoucherTo(e, o, move[o].to)
              /\ move' = [move EXCEPT ![o].rows = @ \ {e}]
  /\ UNCHANGED <<claim, redemption, promo, order, buy, ending, save, crashes>>

\* Mutant: only claims that do not exist yet are recorded.
RecordIfNew(o) ==
  /\ move[o].pc = "record"
  /\ IF move[o].ids = {}
       THEN move' = [move EXCEPT ![o] = NoMove] /\ UNCHANGED claim
       ELSE LET i == IF Account[o] \in move[o].ids THEN Account[o] ELSE Phone[o] IN
            /\ claim' = [claim EXCEPT ![i] =
                 IF @.state # "none" THEN @
                 ELSE Consumed]
            /\ move' = [move EXCEPT ![o].ids = @ \ {i}]
  /\ UNCHANGED <<redemption, promo, entry, order, buy, ending, save, crashes>>

\* recordFirstPurchaseConsumedForRegularOrder: the account, then the phone.
Record(o) ==
  /\ move[o].pc = "record"
  /\ IF move[o].ids = {}
       THEN move' = [move EXCEPT ![o] = NoMove] /\ UNCHANGED claim
       ELSE LET i == IF Account[o] \in move[o].ids THEN Account[o] ELSE Phone[o] IN
            /\ claim' = [claim EXCEPT ![i] = Consumed]
            /\ move' = [move EXCEPT ![o].ids = @ \ {i}]
  /\ UNCHANGED <<redemption, promo, entry, order, buy, ending, save, crashes>>

-----------------------------------------------------------------------------
(* Orders that end unpaid, and may be paid all the same *)

\* releasePromotionHold begins; one that has begun before begins anew.
GivesBack(o) ==
  /\ back' = [back EXCEPT ![o] = [pc |-> "flip", ids |-> Ids(o), rows |-> EntriesOf(o)]]
  /\ stripped' = stripped \cup {o}
  /\ endings < MaxEndings /\ endings' = endings + 1

Cancel(o) ==
  /\ order[o] \in {"open", "expired"}
  /\ order' = [order EXCEPT ![o] = "cancelled"]
  /\ GivesBack(o)
  /\ UNCHANGED <<claim, redemption, promo, entry, buy, move, found, save, crashes>>

\* expireUnpaidShopOrders: a transfer that is unpaid and out of time.
SweepFind(o) ==
  /\ o \in Transfers /\ order[o] = "open"
  /\ found' = found \cup {o}
  /\ UNCHANGED <<claim, redemption, promo, entry, order, buy, move, back, endings, stripped,
                 save, crashes>>

\* It expires unless a payment has claimed or settled it since; what it held
\* is given back either way.
SweepExpire(o) ==
  /\ o \in found
  /\ found' = found \ {o}
  /\ \/ order[o] = "open" /\ order' = [order EXCEPT ![o] = "expired"]
     \/ UNCHANGED order
  /\ GivesBack(o)
  /\ UNCHANGED <<claim, redemption, promo, entry, buy, move, save, crashes>>

\* renew-payment holds the stock again, but none of the promotions.
Renew(o) ==
  /\ o \in Transfers /\ order[o] = "expired"
  /\ order' = [order EXCEPT ![o] = "open"]
  /\ UNCHANGED <<claim, redemption, promo, entry, buy, move, ending, save, crashes>>

\* flagOrderPaymentReview: a transfer of too little makes any order that is
\* not paid "underpaid", which may be settled.
Review(o) ==
  /\ o \in Transfers /\ order[o] \in {"expired", "cancelled"}
  /\ order' = [order EXCEPT ![o] = "open"]
  /\ UNCHANGED <<claim, redemption, promo, entry, buy, move, ending, save, crashes>>

BackFlip(o) ==
  /\ back[o].pc = "flip"
  /\ FlipTo(o, "released")
  /\ back' = [back EXCEPT ![o].pc = "claims"]
  /\ UNCHANGED <<claim, promo, entry, order, buy, move, found, endings, stripped, save, crashes>>

BackClaim(o) ==
  /\ back[o].pc = "claims"
  /\ IF back[o].ids = {}
       THEN back' = [back EXCEPT ![o].pc = "wallet"] /\ UNCHANGED claim
       ELSE \E i \in back[o].ids :
              /\ ClaimTo(i, o, "released")
              /\ back' = [back EXCEPT ![o].ids = @ \ {i}]
  /\ UNCHANGED <<redemption, promo, entry, order, buy, move, found, endings, stripped, save, crashes>>

BackVoucher(o) ==
  /\ back[o].pc = "wallet"
  /\ IF back[o].rows = {}
       THEN back' = [back EXCEPT ![o].pc = "idle"] /\ UNCHANGED entry
       ELSE \E e \in back[o].rows :
              /\ VoucherTo(e, o, "released")
              /\ back' = [back EXCEPT ![o].rows = @ \ {e}]
  /\ UNCHANGED <<claim, redemption, promo, order, buy, move, found, endings, stripped, save, crashes>>

-----------------------------------------------------------------------------
(* Saving a voucher: insertWalletEntry                                     *)

Kept(k) == <<Wanted[k], Saver[k]>>

SaveGoto(k, pc) ==
  save' = [save EXCEPT ![k] =
    IF pc \in {"done", "crashed"} THEN [pc |-> pc, tiers |-> {}, tier |-> None]
    ELSE [@ EXCEPT !.pc = pc]]

\* The tiers that had something left when the voucher was read.
OpenTiers(k) == {t \in Tiers : promo[Wanted[k]].left[t] > 0}

\* A voucher may have been saved before it became a mystery voucher.
SaveFind(k) ==
  LET e == entry[Kept(k)] IN
  /\ save[k].pc = "idle"
  /\ save' = [save EXCEPT ![k] =
       [pc |-> IF e.status = "none" THEN "slot"
               ELSE IF e.status = "saved" /\ e.tier = None /\ Tiers # {} THEN "opening"
               ELSE "done",
        tiers |-> OpenTiers(k), tier |-> None]]
  /\ UNCHANGED <<claim, redemption, promo, entry, order, buy, move, ending, crashes>>

\* reserveClaimSlot.
SaveSlot(k) ==
  LET p == Wanted[k] IN
  /\ save[k].pc = "slot"
  /\ IF promo[p].claimed < SaveLimit[p]
       THEN /\ promo' = [promo EXCEPT ![p].claimed = @ + 1]
            /\ SaveGoto(k, IF Tiers = {} THEN "insert" ELSE "draw")
       ELSE SaveGoto(k, "done") /\ UNCHANGED promo
  /\ UNCHANGED <<claim, redemption, entry, order, buy, move, ending, crashes>>

ReturnSlot(p) == [promo EXCEPT ![p].claimed = IF @ > 0 THEN @ - 1 ELSE @]

\* Mutant: what was left when the voucher was read is left now.
WasOpen(p, t) == TRUE

\* reserveTier asks in the filter of its update.
StillOpen(p, t) == promo[p].left[t] > 0

\* drawMysteryPercent: a tier that was emptied meanwhile is not tried again.
SaveDraw(k) ==
  LET p == Wanted[k] IN
  /\ save[k].pc \in {"draw", "opening"}
  /\ IF save[k].tiers = {}
       THEN /\ SaveGoto(k, "done")
            /\ promo' = IF save[k].pc = "draw" THEN ReturnSlot(p) ELSE promo
       ELSE \E t \in save[k].tiers :
            IF StillOpen(p, t)
              THEN /\ promo' = [promo EXCEPT ![p].left[t] = @ - 1]
                   /\ save' = [save EXCEPT ![k].tier = t, ![k].tiers = {},
                        ![k].pc = IF @ = "draw" THEN "insert" ELSE "open"]
              ELSE /\ save' = [save EXCEPT ![k].tiers = @ \ {t}]
                   /\ UNCHANGED promo
  /\ UNCHANGED <<claim, redemption, entry, order, buy, move, ending, crashes>>

\* returnMysteryDraw.
ReturnDraw(k, pr) ==
  IF save[k].tier = None THEN pr
  ELSE [pr EXCEPT ![Wanted[k]].left[save[k].tier] = @ + 1]

\* Mutant: the draw of a second request is not put back.
SaveInsertKeeps(k) ==
  /\ save[k].pc = "insert"
  /\ IF entry[Kept(k)].status = "none"
       THEN /\ entry' = [entry EXCEPT ![Kept(k)] =
                 [status |-> "saved", o |-> None, tier |-> save[k].tier]]
            /\ UNCHANGED promo
       ELSE promo' = ReturnSlot(Wanted[k]) /\ UNCHANGED entry
  /\ SaveGoto(k, "done")
  /\ UNCHANGED <<claim, redemption, order, buy, move, ending, crashes>>

\* One entry for each voucher and account: the second insert is refused.
SaveInsert(k) ==
  /\ save[k].pc = "insert"
  /\ IF entry[Kept(k)].status = "none"
       THEN /\ entry' = [entry EXCEPT ![Kept(k)] =
                 [status |-> "saved", o |-> None, tier |-> save[k].tier]]
            /\ UNCHANGED promo
       ELSE promo' = ReturnDraw(k, ReturnSlot(Wanted[k])) /\ UNCHANGED entry
  /\ SaveGoto(k, "done")
  /\ UNCHANGED <<claim, redemption, order, buy, move, ending, crashes>>

\* openSavedMystery.
SaveOpen(k) ==
  LET e == entry[Kept(k)] IN
  /\ save[k].pc = "open"
  /\ IF e.status = "saved" /\ e.tier = None
       THEN /\ entry' = [entry EXCEPT ![Kept(k)].tier = save[k].tier]
            /\ UNCHANGED promo
       ELSE promo' = ReturnDraw(k, promo) /\ UNCHANGED entry
  /\ SaveGoto(k, "done")
  /\ UNCHANGED <<claim, redemption, order, buy, move, ending, crashes>>

-----------------------------------------------------------------------------
(* Time and crashes *)

Buying(o) == buy[o].pc \notin {"start", "over", "crashed"}

\* An hour after they were taken the claims of an order may be taken by
\* another; no checkout that began before it was placed still runs then.
Lapse(o) ==
  /\ ~Buying(o)
  /\ \A q \in Orders : Buying(q) => o \in buy[q].saw
  /\ \E i \in Ids(o) : HeldBy(i, o) /\ claim[i].live
  /\ claim' = [i \in Identities |->
       IF HeldBy(i, o) THEN [claim[i] EXCEPT !.live = FALSE] ELSE claim[i]]
  /\ UNCHANGED <<redemption, promo, entry, order, buy, move, ending, save, crashes>>

Dies == crashes < MaxCrashes /\ crashes' = crashes + 1

BuyCrash(o) ==
  /\ Buying(o) /\ Dies
  /\ Goto(o, "crashed")
  /\ UNCHANGED <<claim, redemption, promo, entry, order, move, ending, save>>

MoveCrash(o) ==
  /\ move[o].pc \notin {"idle", "done"} /\ Dies
  /\ move' = [move EXCEPT ![o] = [NoMove EXCEPT !.pc = "idle"]]
  /\ UNCHANGED <<claim, redemption, promo, entry, order, buy, ending, save>>

BackCrash(o) ==
  /\ back[o].pc # "idle" /\ Dies
  /\ back' = [back EXCEPT ![o] = [pc |-> "idle", ids |-> {}, rows |-> {}]]
  /\ UNCHANGED <<claim, redemption, promo, entry, order, buy, move, found, endings, stripped, save>>

SaveCrash(k) ==
  /\ save[k].pc \notin {"idle", "done", "crashed"} /\ Dies
  /\ SaveGoto(k, "crashed")
  /\ UNCHANGED <<claim, redemption, promo, entry, order, buy, move, ending>>

-----------------------------------------------------------------------------
Checkout(o) ==
  \/ Start(o)
  \/ QuoteOrders(o) \/ QuoteConsumed(o) \/ QuoteHeld(o) \/ QuoteRedemption(o)
  \/ HoldConsumed(o) \/ HoldHeld(o) \/ HoldAccount(o) \/ HoldPhone(o)
  \/ RollbackAccount(o) \/ Redeem(o) \/ HoldVoucher(o) \/ Insert(o)

Moving(o) ==
  Settle(o) \/ Flip(o) \/ MoveClaim(o) \/ MoveVoucher(o) \/ Record(o)

Ending(o) ==
  \/ Cancel(o) \/ SweepFind(o) \/ SweepExpire(o) \/ Renew(o) \/ Review(o)
  \/ BackFlip(o) \/ BackClaim(o) \/ BackVoucher(o)

Saving(k) ==
  SaveFind(k) \/ SaveSlot(k) \/ SaveDraw(k) \/ SaveInsert(k) \/ SaveOpen(k)

Next ==
  \/ \E o \in Orders : Checkout(o) \/ Moving(o) \/ Ending(o) \/ Lapse(o)
                      \/ BuyCrash(o) \/ MoveCrash(o) \/ BackCrash(o)
  \/ \E k \in Saves : Saving(k) \/ SaveCrash(k)

Spec == Init /\ [][Next]_vars

-----------------------------------------------------------------------------
(* Properties *)

Alive(o) == order[o] \in {"open", "paid"}

\* Alive with all it was given at the checkout.
Whole(o) == Alive(o) /\ o \notin stripped

\* "Two orders must not both hold that right": of two orders with a promotion
\* of new customers, open or paid, neither the account nor the phone number is
\* the same, although the claims lapse after an hour (claimService.ts:56).
\* Not said of an order whose claims the sweep or a cancellation gave back: it
\* may be settled all the same (markPaid.ts:390-392), or be renewed without
\* them (orderCustomerActionRoutes.ts:162-194), beside a second first purchase.
OneFirstPurchase ==
  \A o, q \in FirstBuys : SameBuyer(o, q) => ~(Whole(o) /\ Whole(q))

Idle(o) == ~Buying(o) /\ move[o].pc \in {"idle", "done"} /\ back[o].pc = "idle"

HoldsSomething(o) ==
  \/ \E i \in Ids(o) : HeldBy(i, o)
  \/ redemption[o] = "held"
  \/ \E e \in EntriesOf(o) : entry[e].status = "held" /\ entry[e].o = o

\* Both claims or none: an order that was refused, cancelled or has expired
\* keeps nothing, and one that waits, and that neither the sweep nor a
\* cancellation has had, has both, unless another purchase used them up.
AllOrNothing ==
  \A o \in Orders : crashes = 0 /\ Idle(o) =>
    /\ ~Alive(o) => ~HoldsSomething(o)
    /\ order[o] = "open" /\ o \in FirstBuys \ stripped =>
         \A i \in Ids(o) : HeldBy(i, o) \/ claim[i].state = "consumed"

\* A buyer whose payment went through is not new again, neither by account
\* nor by phone, whatever orders hold, lose or give back meanwhile, this one
\* included when the sweep had found it.
NotNewAgain ==
  \A o \in Orders :
    order[o] = "paid" /\ move[o].pc = "done" /\ o \in FirstBuys \cup Transfers =>
      \A i \in Ids(o) : claim[i].state = "consumed"

\* A voucher in the wallet serves one order: no two orders that are open or
\* paid were given the same entry.  An order whose voucher the sweep or a
\* cancellation gave back keeps its discount when it is paid meanwhile or
\* renewed, and is not counted.
VoucherSpentOnce ==
  \A o, q \in Orders : o # q /\ EntriesOf(o) \cap EntriesOf(q) # {} =>
    ~(Whole(o) /\ Whole(q))

SavedOf(p) == {e \in Entries : e[1] = p /\ entry[e].status # "none"}
DrawnOf(p, t) == {e \in SavedOf(p) : entry[e].tier = t}

\* No more are saved, or drawn from a tier, than the voucher allows; while no
\* save is at work and none died, the counters say exactly how many were.
SavesCounted ==
  \A p \in Promos :
    /\ Cardinality(SavedOf(p)) <= promo[p].claimed
    /\ promo[p].claimed <= SaveLimit[p]
    /\ \A t \in Tiers : Cardinality(DrawnOf(p, t)) + promo[p].left[t] <= TierLimit[p][t]
    /\ crashes = 0 /\ (\A k \in Saves : save[k].pc \in {"idle", "done"}) =>
         /\ promo[p].claimed = Cardinality(SavedOf(p))
         /\ \A t \in Tiers : Cardinality(DrawnOf(p, t)) + promo[p].left[t] = TierLimit[p][t]
=============================================================================
