------------------------- MODULE VoucherRightsProofs -------------------------
(***************************************************************************)
(* Proofs about VoucherRights, for any number of orders, vouchers, saves   *)
(* and crashes:                                                            *)
(*   TypeCorrect       TypeOK is an invariant;                             *)
(*   RightGivenOnce    so are OneFirstPurchase,                            *)
(*   BuyersStayKnown   NotNewAgain,                                        *)
(*   VouchersSpentOnce VoucherSpentOnce,                                   *)
(*   ClaimsTogether    AllOrNothing,                                       *)
(*   SavesStayCounted  and SavesCounted.                                   *)
(*                                                                         *)
(* Ranges gives the locals of the handlers a name each.  A checkout counts *)
(* the wallet's entries and the orders it saw, so that the types rest on   *)
(* these being finite (EntriesFinite).                                     *)
(*                                                                         *)
(* Then come layers, each inductive relative to those before it: what a    *)
(* handler that is half way implies for its order; who holds a claim and   *)
(* who may take it; what a payment leaves behind; which entries an order   *)
(* was given; what an order that failed still has to give back; and, apart *)
(* from the orders, what the counters of a voucher owe to its entries and  *)
(* to the saves at work.                                                   *)
(***************************************************************************)
EXTENDS VoucherRights, FiniteSetTheorems, TLAPS

USE DEF ending

BuyPc == Quote \cup Take \cup {"start", "rollback", "over", "crashed"}
BuyLocals == [pc : BuyPc, i : Nat, saw : SUBSET Orders]
MoveLocals == [pc : {"idle", "flip", "claims", "wallet", "record", "done"},
               to : {"used", "released"},
               ids : SUBSET Identities, rows : SUBSET Entries]
BackLocals == [pc : {"idle", "flip", "claims", "wallet"},
               ids : SUBSET Identities, rows : SUBSET Entries]
SaveLocals == [pc : {"idle", "slot", "draw", "insert", "opening",
                     "open", "done", "crashed"},
               tiers : SUBSET Tiers, tier : Tiers \cup {None}]
Statuses == {"none", "open", "paid", "expired", "cancelled"}
PromoDoc == [claimed : Nat, left : [Tiers -> Nat]]

\* TypeOK, with the records named.
LEMMA Ranges ==
  TypeOK <=>
    /\ claim \in [Identities -> Claim]
    /\ redemption \in [Orders -> {"none", "held", "used", "released"}]
    /\ promo \in [Promos -> PromoDoc]
    /\ entry \in [Entries -> Entry]
    /\ order \in [Orders -> Statuses]
    /\ buy \in [Orders -> BuyLocals]
    /\ move \in [Orders -> MoveLocals]
    /\ back \in [Orders -> BackLocals]
    /\ found \subseteq Orders /\ stripped \subseteq Orders /\ endings \in 0..MaxEndings
    /\ save \in [Saves -> SaveLocals]
    /\ crashes \in 0..MaxCrashes
  BY DEF TypeOK, BuyPc, BuyLocals, MoveLocals, BackLocals, SaveLocals, PromoDoc,
         Statuses

LEMMA ImageFinite ==
  ASSUME NEW S, IsFiniteSet(S), NEW f
  PROVE  IsFiniteSet({f[x] : x \in S})
<1> DEFINE T == {f[x] : x \in S}
           g == [x \in S |-> f[x]]
<1>1. g \in Surjection(S, T)
  BY DEF Surjection
<1> QED BY <1>1, FS_Surjection

\* The entries of one voucher are finitely many.
LEMMA EntriesFinite ==
  ASSUME NEW S \in SUBSET Entries, NEW p
  PROVE  /\ IsFiniteSet({e \in S : e[1] = p})
         /\ Cardinality({e \in S : e[1] = p}) \in Nat
<1>1. IsFiniteSet({Account[o] : o \in Orders})
  <2>1. IsFiniteSet(Orders)
    BY VoucherAssumption
  <2> QED BY <2>1, ImageFinite
<1>6. IsFiniteSet({Saver[k] : k \in Saves})
  <2>1. IsFiniteSet(Saves)
    BY VoucherAssumption
  <2> QED BY <2>1, ImageFinite
<1>2. IsFiniteSet(Accounts)
  BY <1>1, <1>6, FS_Union DEF Accounts
<1> DEFINE of == [a \in Accounts |-> <<p, a>>]
           T == {of[a] : a \in Accounts}
<1>3. IsFiniteSet(T)
  BY <1>2, ImageFinite
<1>4. {e \in S : e[1] = p} \subseteq T
  BY DEF Entries
<1> HIDE DEF T
<1>5. IsFiniteSet({e \in S : e[1] = p})
  BY <1>3, <1>4, FS_Subset
<1> QED BY <1>5, FS_CardinalityType

LEMMA IdsTyped ==
  ASSUME NEW o \in Orders
  PROVE  /\ Account[o] \in Identities /\ Phone[o] \in Identities
         /\ Ids(o) \subseteq Identities
         /\ Ids(o) = {Account[o], Phone[o]}
  BY DEF Identities, Accounts, Ids

LEMMA EntriesTyped ==
  ASSUME NEW o \in Orders
  PROVE  /\ EntriesOf(o) \subseteq Entries
         /\ \A i \in 1..Len(Vouchers[o]) :
              EntryAt(o, i) \in Entries /\ EntryAt(o, i) \in EntriesOf(o)
         /\ \A e \in EntriesOf(o) :
              \E i \in 1..Len(Vouchers[o]) : e = EntryAt(o, i)
<1>1. Vouchers[o] \in Seq(Promos) /\ Account[o] \in Accounts
  BY VoucherAssumption DEF Accounts
<1>2. \A i \in DOMAIN Vouchers[o] : Vouchers[o][i] \in Promos
  BY <1>1
<1>3. DOMAIN Vouchers[o] = 1..Len(Vouchers[o])
  BY <1>1
<1> QED BY <1>1, <1>2, <1>3 DEF EntriesOf, EntryAt, Entries

LEMMA KeptTyped ==
  ASSUME NEW k \in Saves
  PROVE  Kept(k) \in Entries /\ Kept(k)[1] = Wanted[k] /\ Wanted[k] \in Promos
  BY VoucherAssumption DEF Kept, Entries, Accounts

-----------------------------------------------------------------------------
(* What the recurring parts of the actions do. *)

LEMMA GotoEffect ==
  ASSUME TypeOK, NEW o \in Orders, NEW pc \in BuyPc, Goto(o, pc)
  PROVE  /\ buy' \in [Orders -> BuyLocals]
         /\ \A q \in Orders \ {o} : buy'[q] = buy[q]
         /\ buy'[o].pc = pc /\ buy'[o].i = 1
         /\ buy'[o].saw = IF pc \in {"over", "crashed"} THEN {} ELSE buy[o].saw
<1> DEFINE r == [buy[o] EXCEPT !.pc = pc, !.i = 1,
                    !.saw = IF pc \in {"over", "crashed"} THEN {} ELSE @]
<1>1. buy[o] \in BuyLocals /\ buy \in [Orders -> BuyLocals]
  BY Ranges
<1>2. /\ r \in BuyLocals /\ r.pc = pc /\ r.i = 1
      /\ r.saw = IF pc \in {"over", "crashed"} THEN {} ELSE buy[o].saw
  BY <1>1 DEF BuyLocals
<1>3. buy' = [buy EXCEPT ![o] = r]
  BY <1>1 DEF Goto, BuyLocals
<1> HIDE DEF r
<1> QED BY <1>1, <1>2, <1>3

LEMMA MovesEffect ==
  ASSUME TypeOK, NEW o \in Orders, NEW to \in {"used", "released"},
         Moves(o, to)
  PROVE  /\ move' \in [Orders -> MoveLocals]
         /\ \A q \in Orders \ {o} : move'[q] = move[q]
         /\ move'[o].pc = "flip" /\ move'[o].to = to
         /\ move'[o].ids = Ids(o) /\ move'[o].rows = EntriesOf(o)
<1> DEFINE r == [pc |-> "flip", to |-> to, ids |-> Ids(o), rows |-> EntriesOf(o)]
<1>1. r \in MoveLocals
  BY IdsTyped, EntriesTyped DEF MoveLocals
<1>2. r.pc = "flip" /\ r.to = to /\ r.ids = Ids(o) /\ r.rows = EntriesOf(o)
  OBVIOUS
<1>3. move' = [move EXCEPT ![o] = r] /\ move \in [Orders -> MoveLocals]
  BY Ranges DEF Moves
<1> HIDE DEF r
<1> QED BY <1>1, <1>2, <1>3

LEMMA SaveGotoEffect ==
  ASSUME TypeOK, NEW k \in Saves,
         NEW pc \in {"draw", "insert", "done", "crashed"}, SaveGoto(k, pc)
  PROVE  /\ save' \in [Saves -> SaveLocals]
         /\ \A j \in Saves \ {k} : save'[j] = save[j]
         /\ save'[k].pc = pc
         /\ save'[k].tier = IF pc \in {"done", "crashed"} THEN None ELSE save[k].tier
<1>1. save[k] \in SaveLocals /\ save \in [Saves -> SaveLocals]
  BY Ranges
<1> QED BY <1>1 DEF SaveGoto, SaveLocals

LEMMA EntryWritten ==
  ASSUME TypeOK, NEW e \in Entries,
         NEW s \in {"none", "saved", "held", "used", "expired"},
         NEW x \in Orders \cup {None},
         entry' = [entry EXCEPT ![e].status = s, ![e].o = x]
  PROVE  /\ entry' \in [Entries -> Entry]
         /\ \A d \in Entries \ {e} : entry'[d] = entry[d]
         /\ entry'[e].status = s /\ entry'[e].o = x
         /\ entry'[e].tier = entry[e].tier
<1> DEFINE r == [entry[e] EXCEPT !.status = s, !.o = x]
<1>1. entry[e] \in Entry /\ entry \in [Entries -> Entry]
  BY DEF TypeOK
<1>2. r \in Entry /\ r.status = s /\ r.o = x /\ r.tier = entry[e].tier
  BY <1>1 DEF Entry
<1>3. entry' = [entry EXCEPT ![e] = r]
  BY <1>1
<1> HIDE DEF r
<1> QED BY <1>1, <1>2, <1>3

LEMMA StartEffect ==
  ASSUME TypeOK, NEW o \in Orders, Start(o)
  PROVE  /\ buy' \in [Orders -> BuyLocals]
         /\ \A q \in Orders \ {o} : buy'[q] = buy[q]
         /\ buy[o].pc = "start"
         /\ buy'[o].pc = IF o \in FirstBuys THEN "orders" ELSE "wallet"
         /\ buy'[o].i = buy[o].i
         /\ buy'[o].saw = {q \in Orders : order[q] # "none"}
         /\ UNCHANGED <<claim, redemption, promo, entry, order, move, ending, save, crashes>>
<1> DEFINE pc == IF o \in FirstBuys THEN "orders" ELSE "wallet"
           S == {q \in Orders : order[q] # "none"}
           r == [buy[o] EXCEPT !.pc = pc, !.saw = S]
<1>1. buy[o] \in BuyLocals /\ buy \in [Orders -> BuyLocals]
  BY Ranges
<1>2. pc \in BuyPc /\ S \in SUBSET Orders
  BY DEF BuyPc, Quote, Take
<1> HIDE DEF S
<1>3. r \in BuyLocals /\ r.pc = pc /\ r.i = buy[o].i /\ r.saw = S
  BY <1>1, <1>2 DEF BuyLocals
<1>4. buy' = [buy EXCEPT ![o] = r] /\ buy[o].pc = "start"
  BY <1>1 DEF Start, S
<1>5. UNCHANGED <<claim, redemption, promo, entry, order, move, ending, save, crashes>>
  BY DEF Start
<1> HIDE DEF r
<1> QED BY <1>1, <1>3, <1>4, <1>5 DEF S

-----------------------------------------------------------------------------
(* Type correctness. *)

\* The queries of a checkout: it goes on, or it is refused.
Asks(o) ==
  \/ QuoteOrders(o) \/ QuoteConsumed(o) \/ QuoteHeld(o) \/ QuoteRedemption(o)
  \/ HoldConsumed(o) \/ HoldHeld(o)

LEMMA AsksEffect ==
  ASSUME NEW o, Asks(o)
  PROVE  /\ UNCHANGED <<claim, redemption, promo, entry, order, move, ending, save, crashes>>
         /\ \E pc \in {"used", "kept", "redeemed", "consumed", "held",
                       "account", "over"} : Goto(o, pc)
         /\ buy[o].pc \in Quote \cup {"consumed", "held"}
  BY DEF Asks, QuoteOrders, QuoteConsumed, QuoteHeld, QuoteRedemption,
         HoldConsumed, HoldHeld, Query, Quote

LEMMA TypeInit == Init => TypeOK
<1> SUFFICES ASSUME Init PROVE TypeOK
  OBVIOUS
<1>1. PICK before \in SUBSET Entries, sent \in Together :
        /\ promo = [p \in Promos |->
             [claimed |-> Cardinality({e \in before : e[1] = p}),
              left |-> TierLimit[p]]]
        /\ entry = [e \in Entries |->
             [status |-> IF e \in before THEN "saved" ELSE "none",
              o |-> None, tier |-> None]]
        /\ buy = [o \in Orders |-> [pc |-> IF o \in sent THEN "start" ELSE "over",
                                    i |-> 1, saw |-> {}]]
        /\ save = [k \in Saves |-> [pc |-> IF k \in sent THEN "idle" ELSE "done",
                                    tiers |-> {}, tier |-> None]]
  BY DEF Init
<1>2. \A p \in Promos : Cardinality({e \in before : e[1] = p}) \in Nat
  BY EntriesFinite
<1>3. claim \in [Identities -> Claim] /\ entry \in [Entries -> Entry]
  BY <1>1 DEF Init, Claim, Entry
<1>4. promo \in [Promos -> PromoDoc]
  BY <1>1, <1>2, VoucherAssumption DEF PromoDoc
<1>5. buy \in [Orders -> BuyLocals] /\ save \in [Saves -> SaveLocals]
  BY <1>1 DEF BuyLocals, SaveLocals, BuyPc
<1>6. /\ move \in [Orders -> MoveLocals] /\ back \in [Orders -> BackLocals]
      /\ found \subseteq Orders /\ stripped \subseteq Orders
      /\ endings \in 0..MaxEndings /\ crashes \in 0..MaxCrashes
      /\ redemption \in [Orders -> {"none", "held", "used", "released"}]
      /\ order \in [Orders -> Statuses]
  BY VoucherAssumption DEF Init, MoveLocals, BackLocals, Statuses
<1> QED BY <1>3, <1>4, <1>5, <1>6, Ranges

LEMMA ClaimsTyped ==
  /\ Consumed \in Claim /\ Released \in Claim
  /\ \A o \in Orders : TakenBy(o) \in Claim
  BY DEF Consumed, Released, TakenBy, Claim

LEMMA TypeStart ==
  ASSUME TypeOK, NEW o \in Orders, Start(o)
  PROVE  TypeOK'
  BY StartEffect DEF TypeOK, BuyLocals, BuyPc

LEMMA TypeAsks ==
  ASSUME TypeOK, NEW o \in Orders, Asks(o)
  PROVE  TypeOK'
<1>1. PICK pc \in {"used", "kept", "redeemed", "consumed", "held", "account",
                   "over"} : Goto(o, pc)
  BY AsksEffect
<1>2. buy' \in [Orders -> BuyLocals]
  BY <1>1, GotoEffect DEF BuyPc, Quote, Take
<1> QED BY <1>2, AsksEffect DEF TypeOK, BuyLocals, BuyPc

LEMMA TypeHoldClaim ==
  ASSUME TypeOK, NEW o \in Orders,
         HoldAccount(o) \/ HoldPhone(o) \/ RollbackAccount(o)
  PROVE  TypeOK'
<1>1. buy' \in [Orders -> BuyLocals]
  BY GotoEffect DEF HoldAccount, HoldPhone, RollbackAccount, BuyPc, Quote, Take
<1>2. claim' \in [Identities -> Claim]
  BY Ranges, ClaimsTyped DEF HoldAccount, HoldPhone, RollbackAccount
<1>3. UNCHANGED <<redemption, promo, entry, order, move, ending, save, crashes>>
  BY DEF HoldAccount, HoldPhone, RollbackAccount
<1> QED BY <1>1, <1>2, <1>3 DEF TypeOK, BuyLocals, BuyPc

LEMMA FailsTyped ==
  ASSUME TypeOK, NEW o \in Orders, Fails(o)
  PROVE  buy' \in [Orders -> BuyLocals] /\ move' \in [Orders -> MoveLocals]
  BY GotoEffect, MovesEffect DEF Fails, BuyPc

LEMMA TypeRedeem ==
  ASSUME TypeOK, NEW o \in Orders, Redeem(o)
  PROVE  TypeOK'
<1>1. buy' \in [Orders -> BuyLocals] /\ move' \in [Orders -> MoveLocals]
  BY GotoEffect, FailsTyped, Ranges DEF Redeem, BuyPc, Take
<1>2. redemption' \in [Orders -> {"none", "held", "used", "released"}]
  BY DEF TypeOK, Redeem
<1>3. UNCHANGED <<claim, promo, entry, order, ending, save, crashes>>
  BY DEF Redeem
<1> QED BY <1>1, <1>2, <1>3, Ranges DEF TypeOK, BuyLocals, BuyPc, MoveLocals

LEMMA TypeHoldVoucher ==
  ASSUME TypeOK, NEW o \in Orders, HoldVoucher(o)
  PROVE  TypeOK'
<1> DEFINE i == buy[o].i
           e == EntryAt(o, i)
<1>1. buy' \in [Orders -> BuyLocals] /\ move' \in [Orders -> MoveLocals]
  <2>1. CASE i > Len(Vouchers[o]) \/ ~Usable(e)
    BY <2>1, GotoEffect, FailsTyped, Ranges DEF HoldVoucher, BuyPc, Take
  <2>2. CASE ~(i > Len(Vouchers[o])) /\ Usable(e)
    <3>1. buy' = [buy EXCEPT ![o].i = i + 1] /\ UNCHANGED move
      BY <2>2 DEF HoldVoucher
    <3> QED BY <3>1, Ranges DEF BuyLocals
  <2> QED BY <2>1, <2>2
<1>2. entry' \in [Entries -> Entry]
  <2>1. \/ UNCHANGED entry
        \/ entry' = [entry EXCEPT ![e].status = "held", ![e].o = o]
    BY DEF HoldVoucher
  <2> HIDE DEF e
  <2>2. CASE e \notin Entries
    BY <2>1, <2>2 DEF TypeOK
  <2> QED BY <2>1, <2>2, EntryWritten DEF TypeOK
<1>3. UNCHANGED <<claim, redemption, promo, order, ending, save, crashes>>
  BY DEF HoldVoucher
<1> QED BY <1>1, <1>2, <1>3 DEF TypeOK, BuyLocals, BuyPc, MoveLocals

LEMMA TypeInsert ==
  ASSUME TypeOK, NEW o \in Orders, Insert(o)
  PROVE  TypeOK'
<1>1. buy' \in [Orders -> BuyLocals] /\ move' \in [Orders -> MoveLocals]
  BY GotoEffect, FailsTyped, Ranges DEF Insert, BuyPc
<1>2. order' \in [Orders -> Statuses]
  BY Ranges DEF Statuses, Insert
<1>3. UNCHANGED <<claim, redemption, promo, entry, ending, save, crashes>>
  BY DEF Insert
<1> QED BY <1>1, <1>2, <1>3 DEF TypeOK, BuyLocals, BuyPc, MoveLocals, Statuses

LEMMA VoucherTyped ==
  ASSUME TypeOK, NEW o, NEW e \in Entries, NEW to, VoucherTo(e, o, to)
  PROVE  entry' \in [Entries -> Entry]
<1>1. CASE UNCHANGED entry
  BY <1>1 DEF TypeOK
<1>2. CASE entry' = [entry EXCEPT ![e].status = "used"]
  <2>1. \A d \in Entry : [d EXCEPT !.status = "used"] \in Entry
    BY DEF Entry
  <2> QED BY <1>2, <2>1 DEF TypeOK
<1>3. ASSUME NEW st \in {"saved", "expired"},
             entry' = [entry EXCEPT ![e].status = st, ![e].o = None]
      PROVE  entry' \in [Entries -> Entry]
  BY <1>3, EntryWritten
<1> QED BY <1>1, <1>2, <1>3 DEF VoucherTo

LEMMA TypeMoving ==
  ASSUME TypeOK, NEW o \in Orders, Moving(o)
  PROVE  TypeOK'
<1>1. move[o] \in MoveLocals /\ move \in [Orders -> MoveLocals]
  BY Ranges
<1>2. NoMove \in MoveLocals
  BY DEF NoMove, MoveLocals
<1>3. ASSUME Settle(o) PROVE TypeOK'
  <2>1. move' \in [Orders -> MoveLocals]
    BY <1>3, MovesEffect DEF Settle
  <2>2. order' \in [Orders -> Statuses]
    BY <1>3, Ranges DEF Statuses, Settle
  <2> QED BY <1>3, <2>1, <2>2 DEF Settle, TypeOK, MoveLocals, Statuses
<1>4. ASSUME Flip(o) PROVE TypeOK'
  <2>1. move' \in [Orders -> MoveLocals]
    BY <1>1, <1>4 DEF Flip, MoveLocals
  <2>2. redemption' \in [Orders -> {"none", "held", "used", "released"}]
    BY <1>1, <1>4 DEF TypeOK, Flip, FlipTo, MoveLocals
  <2> QED BY <1>4, <2>1, <2>2 DEF Flip, TypeOK, MoveLocals
<1>5. ASSUME MoveClaim(o) PROVE TypeOK'
  <2>1. move' \in [Orders -> MoveLocals]
    BY <1>1, <1>5 DEF MoveClaim, MoveLocals
  <2>2. claim' \in [Identities -> Claim]
    BY <1>5, Ranges, ClaimsTyped DEF MoveClaim, ClaimTo
  <2> QED BY <1>5, <2>1, <2>2 DEF MoveClaim, TypeOK, MoveLocals
<1>6. ASSUME MoveVoucher(o) PROVE TypeOK'
  <2>1. AfterWallet(o) \in MoveLocals
    BY <1>1, <1>2, IdsTyped DEF AfterWallet, MoveLocals
  <2>2. move' \in [Orders -> MoveLocals]
    <3>1. \A e : [move[o] EXCEPT !.rows = @ \ {e}] \in MoveLocals
      BY <1>1 DEF MoveLocals
    <3>2. \/ move' = [move EXCEPT ![o] = AfterWallet(o)]
          \/ \E e : move' = [move EXCEPT ![o] = [move[o] EXCEPT !.rows = @ \ {e}]]
      BY <1>6 DEF MoveVoucher
    <3> QED BY <1>1, <2>1, <3>1, <3>2
  <2>3. entry' \in [Entries -> Entry]
    <3>1. move[o].rows \subseteq Entries
      BY <1>1 DEF MoveLocals
    <3> QED BY <1>6, <3>1, VoucherTyped DEF MoveVoucher, TypeOK
  <2> QED BY <1>6, <2>2, <2>3 DEF MoveVoucher, TypeOK, MoveLocals
<1>7. ASSUME Record(o) PROVE TypeOK'
  <2>1. move' \in [Orders -> MoveLocals]
    BY <1>1, <1>2, <1>7 DEF Record, MoveLocals
  <2>2. claim' \in [Identities -> Claim]
    BY <1>7, Ranges, ClaimsTyped DEF Record
  <2> QED BY <1>7, <2>1, <2>2 DEF Record, TypeOK, MoveLocals
<1> QED BY <1>3, <1>4, <1>5, <1>6, <1>7 DEF Moving

\* A cancellation or the sweep begins to give back.
LEMMA GivesBackEffect ==
  ASSUME TypeOK, NEW o \in Orders, GivesBack(o)
  PROVE  /\ back' \in [Orders -> BackLocals]
         /\ \A q \in Orders \ {o} : back'[q] = back[q]
         /\ back'[o].pc = "flip" /\ back'[o].ids = Ids(o)
         /\ back'[o].rows = EntriesOf(o)
         /\ stripped' = stripped \cup {o} /\ stripped' \subseteq Orders
         /\ endings' \in 0..MaxEndings
<1> DEFINE r == [pc |-> "flip", ids |-> Ids(o), rows |-> EntriesOf(o)]
<1>1. r \in BackLocals
  BY IdsTyped, EntriesTyped DEF BackLocals
<1>2. r.pc = "flip" /\ r.ids = Ids(o) /\ r.rows = EntriesOf(o)
  OBVIOUS
<1>3. back' = [back EXCEPT ![o] = r] /\ back \in [Orders -> BackLocals]
  BY Ranges DEF GivesBack
<1>4. stripped' = stripped \cup {o} /\ stripped' \subseteq Orders
  BY DEF GivesBack, TypeOK
<1>5. endings' \in 0..MaxEndings
  BY VoucherAssumption DEF GivesBack, TypeOK
<1> HIDE DEF r
<1> QED BY <1>1, <1>2, <1>3, <1>4, <1>5

LEMMA TypeEnding ==
  ASSUME TypeOK, NEW o \in Orders, Ending(o)
  PROVE  TypeOK'
<1>1. back[o] \in BackLocals /\ back \in [Orders -> BackLocals]
  BY Ranges
<1>2. ASSUME Cancel(o) \/ SweepExpire(o) PROVE TypeOK'
  <2>1. order' \in [Orders -> Statuses]
    BY <1>2, Ranges DEF Statuses, Cancel, SweepExpire
  <2>2. /\ back' \in [Orders -> BackLocals] /\ stripped' \subseteq Orders
        /\ endings' \in 0..MaxEndings
    BY <1>2, GivesBackEffect DEF Cancel, SweepExpire
  <2>3. found' \subseteq Orders
    BY <1>2 DEF TypeOK, Cancel, SweepExpire
  <2> QED BY <1>2, <2>1, <2>2, <2>3
          DEF Cancel, SweepExpire, TypeOK, BackLocals, Statuses
<1>3. ASSUME SweepFind(o) PROVE TypeOK'
  BY <1>3 DEF SweepFind, TypeOK
<1>4. ASSUME Renew(o) \/ Review(o) PROVE TypeOK'
  <2>1. order' \in [Orders -> Statuses]
    BY <1>4, Ranges DEF Statuses, Renew, Review
  <2> QED BY <1>4, <2>1 DEF Renew, Review, TypeOK, Statuses
<1>5. ASSUME BackFlip(o) PROVE TypeOK'
  <2>1. back' \in [Orders -> BackLocals]
    BY <1>1, <1>5 DEF BackFlip, BackLocals
  <2>2. redemption' \in [Orders -> {"none", "held", "used", "released"}]
    BY <1>5 DEF TypeOK, BackFlip, FlipTo
  <2> QED BY <1>5, <2>1, <2>2 DEF BackFlip, TypeOK, BackLocals
<1>6. ASSUME BackClaim(o) PROVE TypeOK'
  <2>1. back' \in [Orders -> BackLocals]
    BY <1>1, <1>6 DEF BackClaim, BackLocals
  <2>2. claim' \in [Identities -> Claim]
    BY <1>6, Ranges, ClaimsTyped DEF BackClaim, ClaimTo
  <2> QED BY <1>6, <2>1, <2>2 DEF BackClaim, TypeOK, BackLocals
<1>7. ASSUME BackVoucher(o) PROVE TypeOK'
  <2>1. back' \in [Orders -> BackLocals]
    BY <1>1, <1>7 DEF BackVoucher, BackLocals
  <2>2. entry' \in [Entries -> Entry]
    <3>1. back[o].rows \subseteq Entries
      BY <1>1 DEF BackLocals
    <3> QED BY <1>7, <3>1, VoucherTyped DEF BackVoucher, TypeOK
  <2> QED BY <1>7, <2>1, <2>2 DEF BackVoucher, TypeOK, BackLocals
<1> QED BY <1>2, <1>3, <1>4, <1>5, <1>6, <1>7 DEF Ending

LEMMA TypeSaving ==
  ASSUME TypeOK, NEW k \in Saves, Saving(k)
  PROVE  TypeOK'
<1> DEFINE p == Wanted[k]
<1>1. /\ save[k] \in SaveLocals /\ save \in [Saves -> SaveLocals]
      /\ promo[p] \in PromoDoc /\ promo \in [Promos -> PromoDoc]
      /\ entry \in [Entries -> Entry] /\ p \in Promos
  BY Ranges, KeptTyped
<1>2. ReturnSlot(p) \in [Promos -> PromoDoc]
  BY <1>1 DEF ReturnSlot, PromoDoc
<1>3. \A pr \in [Promos -> PromoDoc] : ReturnDraw(k, pr) \in [Promos -> PromoDoc]
  <2> SUFFICES ASSUME NEW pr \in [Promos -> PromoDoc], save[k].tier \in Tiers
               PROVE  ReturnDraw(k, pr) \in [Promos -> PromoDoc]
    BY <1>1 DEF ReturnDraw, SaveLocals
  <2> DEFINE t == save[k].tier
             d == [pr[p] EXCEPT !.left = [pr[p].left EXCEPT ![t] = @ + 1]]
  <2>1. pr[p] \in PromoDoc /\ pr[p].left \in [Tiers -> Nat]
    BY <1>1 DEF PromoDoc
  <2>2. d \in PromoDoc
    BY <2>1 DEF PromoDoc
  <2>3. ReturnDraw(k, pr) = [pr EXCEPT ![p] = d]
    BY VoucherAssumption DEF ReturnDraw
  <2> HIDE DEF d
  <2> QED BY <2>2, <2>3
<1>4. ASSUME SaveFind(k) PROVE TypeOK'
  <2>1. save' \in [Saves -> SaveLocals]
    BY <1>1, <1>4 DEF SaveFind, SaveLocals, OpenTiers
  <2> QED BY <1>4, <2>1 DEF SaveFind, TypeOK, SaveLocals
<1>5. ASSUME SaveSlot(k) PROVE TypeOK'
  <2>1. save' \in [Saves -> SaveLocals]
    BY <1>1, <1>5, SaveGotoEffect DEF SaveSlot
  <2>2. promo' \in [Promos -> PromoDoc]
    <3>1. [promo[p] EXCEPT !.claimed = @ + 1] \in PromoDoc
      BY <1>1 DEF PromoDoc
    <3>2. \/ promo' = promo
          \/ promo' = [promo EXCEPT ![p] = [promo[p] EXCEPT !.claimed = @ + 1]]
      BY <1>5 DEF SaveSlot
    <3> QED BY <1>1, <3>1, <3>2
  <2> QED BY <1>5, <2>1, <2>2 DEF SaveSlot, TypeOK, SaveLocals, PromoDoc
<1>6. ASSUME SaveDraw(k) PROVE TypeOK'
  <2>1. CASE save[k].tiers = {}
    <3>1. save' \in [Saves -> SaveLocals] /\ promo' \in [Promos -> PromoDoc]
      BY <1>1, <1>2, <1>6, <2>1, SaveGotoEffect DEF SaveDraw
    <3> QED BY <1>6, <3>1 DEF SaveDraw, TypeOK, SaveLocals, PromoDoc
  <2>2. CASE save[k].tiers # {}
    <3>1. PICK t \in save[k].tiers :
            IF StillOpen(p, t)
              THEN /\ promo' = [promo EXCEPT ![p].left[t] = @ - 1]
                   /\ save' = [save EXCEPT ![k].tier = t, ![k].tiers = {},
                        ![k].pc = IF @ = "draw" THEN "insert" ELSE "open"]
              ELSE /\ save' = [save EXCEPT ![k].tiers = @ \ {t}]
                   /\ UNCHANGED promo
      BY <1>6, <2>2 DEF SaveDraw
    <3>2. t \in Tiers
      BY <1>1 DEF SaveLocals
    <3>3. save' \in [Saves -> SaveLocals]
      BY <1>1, <3>1, <3>2 DEF SaveLocals
    <3>4. promo' \in [Promos -> PromoDoc]
      <4>1. CASE ~StillOpen(p, t)
        BY <1>1, <3>1, <4>1
      <4>2. CASE StillOpen(p, t)
        <5> DEFINE left == [promo[p].left EXCEPT ![t] = @ - 1]
                   d == [promo[p] EXCEPT !.left = left]
        <5>1. promo[p].left \in [Tiers -> Nat] /\ promo[p].left[t] > 0
          BY <1>1, <4>2 DEF StillOpen, PromoDoc
        <5>2. d \in PromoDoc
          <6>1. left \in [Tiers -> Nat]
            BY <3>2, <5>1
          <6> HIDE DEF left
          <6> QED BY <1>1, <6>1 DEF PromoDoc
        <5>3. promo' = [promo EXCEPT ![p] = d]
          BY <1>1, <3>1, <4>2
        <5> HIDE DEF d
        <5> QED BY <1>1, <5>2, <5>3
      <4> QED BY <4>1, <4>2
    <3> QED BY <1>6, <3>3, <3>4 DEF SaveDraw, TypeOK, SaveLocals, PromoDoc
  <2> QED BY <2>1, <2>2
<1>7. ASSUME SaveInsert(k) \/ SaveOpen(k) PROVE TypeOK'
  <2>1. save' \in [Saves -> SaveLocals]
    BY <1>1, <1>7, SaveGotoEffect DEF SaveInsert, SaveOpen
  <2>2. promo' \in [Promos -> PromoDoc]
    BY <1>1, <1>2, <1>3, <1>7 DEF SaveInsert, SaveOpen
  <2>3. entry' \in [Entries -> Entry]
    BY <1>1, <1>7 DEF SaveInsert, SaveOpen, Entry, SaveLocals
  <2> QED BY <1>7, <2>1, <2>2, <2>3
          DEF SaveInsert, SaveOpen, TypeOK, SaveLocals, PromoDoc
<1> QED BY <1>4, <1>5, <1>6, <1>7 DEF Saving

LEMMA TypeWorld ==
  ASSUME TypeOK,
         \/ \E o \in Orders : \/ Lapse(o) \/ BuyCrash(o)
                             \/ MoveCrash(o) \/ BackCrash(o)
         \/ \E k \in Saves : SaveCrash(k)
  PROVE  TypeOK'
<1>1. ASSUME NEW o \in Orders, Lapse(o) PROVE TypeOK'
  <2>1. claim' \in [Identities -> Claim]
    <3>1. \A c \in Claim : [c EXCEPT !.live = FALSE] \in Claim
      BY DEF Claim
    <3> QED BY <1>1, <3>1 DEF Lapse, TypeOK
  <2> QED BY <1>1, <2>1 DEF Lapse, TypeOK
<1>2. crashes < MaxCrashes /\ crashes' = crashes + 1 => crashes' \in 0..MaxCrashes
  BY VoucherAssumption DEF TypeOK
<1>3. ASSUME NEW o \in Orders, BuyCrash(o) PROVE TypeOK'
  <2>1. buy' \in [Orders -> BuyLocals]
    BY <1>3, GotoEffect DEF BuyCrash, BuyPc
  <2> QED BY <1>2, <1>3, <2>1 DEF BuyCrash, Dies, TypeOK, BuyLocals, BuyPc
<1>4. ASSUME NEW o \in Orders, MoveCrash(o) PROVE TypeOK'
  <2>1. move' \in [Orders -> MoveLocals]
    BY <1>4, Ranges DEF MoveCrash, NoMove, MoveLocals
  <2> QED BY <1>2, <1>4, <2>1 DEF MoveCrash, Dies, TypeOK, MoveLocals
<1>5. ASSUME NEW k \in Saves, SaveCrash(k) PROVE TypeOK'
  <2>1. save' \in [Saves -> SaveLocals]
    BY <1>5, SaveGotoEffect DEF SaveCrash
  <2> QED BY <1>2, <1>5, <2>1 DEF SaveCrash, Dies, TypeOK, SaveLocals
<1>6. ASSUME NEW o \in Orders, BackCrash(o) PROVE TypeOK'
  <2>1. back' \in [Orders -> BackLocals]
    BY <1>6, Ranges DEF BackCrash, BackLocals
  <2> QED BY <1>2, <1>6, <2>1 DEF BackCrash, Dies, TypeOK, BackLocals
<1> QED BY <1>1, <1>3, <1>4, <1>5, <1>6

LEMMA TypeNext == TypeOK /\ [Next]_vars => TypeOK'
<1> SUFFICES ASSUME TypeOK, [Next]_vars PROVE TypeOK'
  OBVIOUS
<1>1. ASSUME NEW o \in Orders, Checkout(o) PROVE TypeOK'
  BY <1>1, TypeStart, TypeAsks, TypeHoldClaim, TypeRedeem, TypeHoldVoucher,
     TypeInsert DEF Checkout, Asks
<1>2. CASE UNCHANGED vars
  BY <1>2 DEF vars, TypeOK
<1> QED BY <1>1, <1>2, TypeMoving, TypeEnding, TypeSaving, TypeWorld DEF Next

\* Every document and every handler's locals keep their type.
THEOREM TypeCorrect == Spec => []TypeOK
  BY TypeInit, TypeNext, PTL DEF Spec

-----------------------------------------------------------------------------
(* What the other actions do, order by order. *)

\* Which handler an order is in the hands of: its checkout, nobody, or the
\* one that ends it.
AtWork == {"flip", "claims", "wallet", "record"}
ForFirst == Quote \cup {"consumed", "held", "account", "phone", "redeem", "rollback"}

LEMMA AskEffect ==
  ASSUME TypeOK, NEW o \in Orders, Asks(o)
  PROVE  /\ UNCHANGED <<claim, redemption, promo, entry, order, move, ending, save, crashes>>
         /\ \A q \in Orders \ {o} : buy'[q] = buy[q]
         /\ buy[o].pc \in Quote \cup {"consumed", "held"}
         /\ buy'[o].pc \in {"used", "kept", "redeemed", "consumed", "held",
                            "account", "over"}
         /\ buy'[o].saw = IF buy'[o].pc = "over" THEN {} ELSE buy[o].saw
         /\ buy'[o].pc \in {"consumed", "held", "account"} =>
              \/ buy[o].pc \in {"consumed", "held"}
              \/ \A q \in FirstBuys :
                   SameBuyer(o, q) => redemption[q] \notin {"held", "used"}
<1>1. ASSUME NEW from, NEW refuses, NEW to, Query(o, from, refuses, to),
             from \in Quote \cup {"consumed", "held"},
             to \in {"used", "kept", "redeemed", "consumed", "held", "account"},
             to \in {"consumed", "held", "account"} =>
               \/ from \in {"consumed", "held"}
               \/ ~refuses =>
                    \A q \in FirstBuys :
                      SameBuyer(o, q) => redemption[q] \notin {"held", "used"}
      PROVE  /\ UNCHANGED <<claim, redemption, promo, entry, order, move, ending, save, crashes>>
             /\ \A q \in Orders \ {o} : buy'[q] = buy[q]
             /\ buy[o].pc \in Quote \cup {"consumed", "held"}
             /\ buy'[o].pc \in {"used", "kept", "redeemed", "consumed", "held",
                                "account", "over"}
             /\ buy'[o].saw = IF buy'[o].pc = "over" THEN {} ELSE buy[o].saw
             /\ buy'[o].pc \in {"consumed", "held", "account"} =>
                  \/ buy[o].pc \in {"consumed", "held"}
                  \/ \A q \in FirstBuys :
                       SameBuyer(o, q) => redemption[q] \notin {"held", "used"}
  <2> DEFINE pc == IF refuses THEN "over" ELSE to
  <2>1. pc \in BuyPc /\ Goto(o, pc) /\ buy[o].pc = from
    BY <1>1 DEF Query, BuyPc, Quote, Take
  <2>2. UNCHANGED <<claim, redemption, promo, entry, order, move, ending, save, crashes>>
    BY <1>1 DEF Query
  <2> HIDE DEF pc
  <2>3. /\ \A q \in Orders \ {o} : buy'[q] = buy[q]
        /\ buy'[o].pc = pc
        /\ buy'[o].saw = IF pc \in {"over", "crashed"} THEN {} ELSE buy[o].saw
    BY <2>1, GotoEffect
  <2> QED BY <1>1, <2>1, <2>2, <2>3 DEF pc
<1> QED BY <1>1 DEF Asks, QuoteOrders, QuoteConsumed, QuoteHeld, QuoteRedemption,
                    HoldConsumed, HoldHeld, Quote

\* One of the two upserts of holdFirstPurchaseClaims.
LEMMA HoldEffect ==
  ASSUME TypeOK, NEW o \in Orders, HoldAccount(o) \/ HoldPhone(o)
  PROVE  LET i == IF buy[o].pc = "account" THEN Account[o] ELSE Phone[o]
         IN /\ UNCHANGED <<redemption, promo, entry, order, move, ending, save, crashes>>
            /\ \A q \in Orders \ {o} : buy'[q] = buy[q]
            /\ buy[o].pc \in {"account", "phone"} /\ i \in Ids(o)
            /\ buy'[o].saw = IF buy'[o].pc = "over" THEN {} ELSE buy[o].saw
            /\ \/ /\ ~Takes(i, o) /\ UNCHANGED claim
                  /\ buy'[o].pc = IF buy[o].pc = "account" THEN "over" ELSE "rollback"
               \/ /\ Takes(i, o)
                  /\ \A j \in Identities \ {i} : claim'[j] = claim[j]
                  /\ claim'[i].state = "held" /\ claim'[i].o = o /\ claim'[i].live
                  /\ buy'[o].pc = IF buy[o].pc = "account" THEN "phone" ELSE "redeem"
<1>1. CASE HoldAccount(o)
  <2>1. CASE Takes(Account[o], o)
    BY <1>1, <2>1, GotoEffect, IdsTyped
       DEF HoldAccount, BuyPc, Take, TakenBy, TypeOK
  <2>2. CASE ~Takes(Account[o], o)
    BY <1>1, <2>2, GotoEffect, IdsTyped DEF HoldAccount, BuyPc
  <2> QED BY <2>1, <2>2
<1>2. CASE HoldPhone(o)
  BY <1>2, GotoEffect, IdsTyped
     DEF HoldPhone, BuyPc, Quote, Take, TakenBy, TypeOK
<1> QED BY <1>1, <1>2

LEMMA RollbackEffect ==
  ASSUME TypeOK, NEW o \in Orders, RollbackAccount(o)
  PROVE  /\ UNCHANGED <<redemption, promo, entry, order, move, ending, save, crashes>>
         /\ \A q \in Orders \ {o} : buy'[q] = buy[q]
         /\ buy[o].pc = "rollback" /\ buy'[o].pc = "over" /\ buy'[o].saw = {}
         /\ \A i \in Identities :
              IF i = Account[o] /\ HeldBy(i, o)
                THEN claim'[i].state = "released" ELSE claim'[i] = claim[i]
<1>1. /\ \A q \in Orders \ {o} : buy'[q] = buy[q]
      /\ buy[o].pc = "rollback" /\ buy'[o].pc = "over" /\ buy'[o].saw = {}
  BY GotoEffect DEF RollbackAccount, BuyPc
<1>2. \A i \in Identities :
        IF i = Account[o] /\ HeldBy(i, o)
          THEN claim'[i].state = "released" ELSE claim'[i] = claim[i]
  BY DEF RollbackAccount, Released, TypeOK
<1> QED BY <1>1, <1>2 DEF RollbackAccount

LEMMA FailsEffect ==
  ASSUME TypeOK, NEW o \in Orders, Fails(o)
  PROVE  /\ \A q \in Orders \ {o} : buy'[q] = buy[q] /\ move'[q] = move[q]
         /\ buy'[o].pc = "over" /\ buy'[o].saw = {}
         /\ move'[o].pc = "flip" /\ move'[o].to = "released"
         /\ move'[o].ids = Ids(o) /\ move'[o].rows = EntriesOf(o)
  BY GotoEffect, MovesEffect DEF Fails, BuyPc

LEMMA RedeemEffect ==
  ASSUME TypeOK, NEW o \in Orders, Redeem(o)
  PROVE  /\ UNCHANGED <<claim, promo, entry, order, ending, save, crashes>>
         /\ buy[o].pc = "redeem"
         /\ \/ Fails(o) /\ UNCHANGED redemption
            \/ /\ UNCHANGED move
               /\ \A q \in Orders \ {o} :
                    buy'[q] = buy[q] /\ redemption'[q] = redemption[q]
               /\ redemption'[o] = "held"
               /\ buy'[o].pc = "wallet" /\ buy'[o].i = 1 /\ buy'[o].saw = buy[o].saw
<1>1. CASE Fails(o) /\ UNCHANGED redemption
  BY <1>1 DEF Redeem
<1>2. CASE /\ redemption' = [redemption EXCEPT ![o] = "held"]
           /\ Goto(o, "wallet") /\ UNCHANGED move
  BY <1>2, GotoEffect DEF Redeem, BuyPc, Take, TypeOK
<1> QED BY <1>1, <1>2 DEF Redeem

LEMMA HoldVoucherEffect ==
  ASSUME TypeOK, NEW o \in Orders, HoldVoucher(o)
  PROVE  LET i == buy[o].i
             e == EntryAt(o, i)
         IN /\ UNCHANGED <<claim, redemption, promo, order, ending, save, crashes>>
            /\ buy[o].pc = "wallet"
            /\ \/ Fails(o) /\ UNCHANGED entry
               \/ /\ UNCHANGED <<move, entry>> /\ i > Len(Vouchers[o])
                  /\ \A q \in Orders \ {o} : buy'[q] = buy[q]
                  /\ buy'[o].pc = "insert" /\ buy'[o].saw = buy[o].saw
               \/ /\ UNCHANGED move /\ ~(i > Len(Vouchers[o])) /\ Usable(e)
                  /\ entry' = [entry EXCEPT ![e].status = "held", ![e].o = o]
                  /\ \A q \in Orders \ {o} : buy'[q] = buy[q]
                  /\ buy'[o].pc = "wallet" /\ buy'[o].i = i + 1
                  /\ buy'[o].saw = buy[o].saw
<1> DEFINE i == buy[o].i
           e == EntryAt(o, i)
<1>1. UNCHANGED <<claim, redemption, promo, order, ending, save, crashes>> /\ buy[o].pc = "wallet"
  BY DEF HoldVoucher
<1>2. CASE i > Len(Vouchers[o])
  BY <1>1, <1>2, GotoEffect DEF HoldVoucher, BuyPc, Take
<1>3. CASE ~(i > Len(Vouchers[o])) /\ Usable(e)
  <2>1. /\ buy' = [buy EXCEPT ![o].i = i + 1] /\ UNCHANGED move
        /\ entry' = [entry EXCEPT ![e].status = "held", ![e].o = o]
    BY <1>3 DEF HoldVoucher
  <2>2. buy[o] \in BuyLocals /\ buy \in [Orders -> BuyLocals]
    BY Ranges
  <2>3. /\ \A q \in Orders \ {o} : buy'[q] = buy[q]
        /\ buy'[o].pc = "wallet" /\ buy'[o].i = i + 1 /\ buy'[o].saw = buy[o].saw
    BY <1>1, <2>1, <2>2 DEF BuyLocals
  <2> QED BY <1>1, <1>3, <2>1, <2>3
<1>4. CASE ~(i > Len(Vouchers[o])) /\ ~Usable(e)
  BY <1>1, <1>4 DEF HoldVoucher
<1> QED BY <1>2, <1>3, <1>4

LEMMA InsertEffect ==
  ASSUME TypeOK, NEW o \in Orders, Insert(o)
  PROVE  /\ UNCHANGED <<claim, redemption, promo, entry, ending, save, crashes>>
         /\ buy[o].pc = "insert"
         /\ \/ Fails(o) /\ UNCHANGED order
            \/ /\ UNCHANGED move
               /\ \A q \in Orders \ {o} : buy'[q] = buy[q] /\ order'[q] = order[q]
               /\ order'[o] = "open" /\ buy'[o].pc = "over" /\ buy'[o].saw = {}
<1>1. CASE Fails(o) /\ UNCHANGED order
  BY <1>1 DEF Insert
<1>2. CASE Goto(o, "over") /\ UNCHANGED move /\ order' = [order EXCEPT ![o] = "open"]
  <2>1. /\ \A q \in Orders \ {o} : buy'[q] = buy[q]
        /\ buy'[o].pc = "over" /\ buy'[o].saw = {}
    BY <1>2, GotoEffect DEF BuyPc
  <2> QED BY <1>2, <2>1 DEF Insert, TypeOK
<1> QED BY <1>1, <1>2 DEF Insert

LEMMA SettleEffect ==
  ASSUME TypeOK, NEW o \in Orders, Settle(o)
  PROVE  /\ UNCHANGED <<claim, redemption, promo, entry, buy, ending, save, crashes>>
         /\ order[o] = "open" /\ order'[o] = "paid"
         /\ \A q \in Orders \ {o} : move'[q] = move[q] /\ order'[q] = order[q]
         /\ move'[o].pc = "flip" /\ move'[o].to = "used"
         /\ move'[o].ids = Ids(o) /\ move'[o].rows = EntriesOf(o)
<1>1. order'[o] = "paid" /\ \A q \in Orders \ {o} : order'[q] = order[q]
  BY DEF Settle, TypeOK
<1>2. Moves(o, "used")
  BY DEF Settle
<1> QED BY <1>1, <1>2, MovesEffect DEF Settle

\* What was held for an order goes back; an order comes back without it.
Gives(o) == Cancel(o) \/ SweepExpire(o)
Reopens(o) == Renew(o) \/ Review(o)

LEMMA GiveEffect ==
  ASSUME TypeOK, NEW o \in Orders, Gives(o)
  PROVE  /\ UNCHANGED <<claim, redemption, promo, entry, buy, move, save, crashes>>
         /\ \A q \in Orders \ {o} : /\ back'[q] = back[q] /\ order'[q] = order[q]
                                    /\ q \in found' <=> q \in found
         /\ found' \subseteq found /\ stripped' = stripped \cup {o}
         /\ back'[o].pc = "flip" /\ back'[o].ids = Ids(o)
         /\ back'[o].rows = EntriesOf(o)
         /\ \/ order[o] \in {"open", "expired"} /\ order'[o] = "cancelled"
            \/ o \in found /\ order[o] = "open" /\ order'[o] = "expired"
            \/ o \in found /\ order'[o] = order[o]
<1>1. CASE Cancel(o)
  BY <1>1, GivesBackEffect DEF Cancel, TypeOK
<1>2. CASE SweepExpire(o)
  BY <1>2, GivesBackEffect DEF SweepExpire, TypeOK
<1> QED BY <1>1, <1>2 DEF Gives

LEMMA FindEffect ==
  ASSUME TypeOK, NEW o \in Orders, SweepFind(o)
  PROVE  /\ UNCHANGED <<claim, redemption, promo, entry, order, buy, move, back,
                       endings, stripped, save, crashes>>
         /\ found' = found \cup {o} /\ o \in Transfers /\ order[o] = "open"
  BY DEF SweepFind

LEMMA ReopenEffect ==
  ASSUME TypeOK, NEW o \in Orders, Reopens(o)
  PROVE  /\ UNCHANGED <<claim, redemption, promo, entry, buy, move, ending, save, crashes>>
         /\ \A q \in Orders \ {o} : order'[q] = order[q]
         /\ o \in Transfers /\ order[o] \in {"expired", "cancelled"}
         /\ order'[o] = "open"
  BY DEF Reopens, Renew, Review, TypeOK

LEMMA BackFlipEffect ==
  ASSUME TypeOK, NEW o \in Orders, BackFlip(o)
  PROVE  /\ UNCHANGED <<claim, promo, entry, order, buy, move, found, endings, stripped,
                       save, crashes>>
         /\ \A q \in Orders \ {o} :
              back'[q] = back[q] /\ redemption'[q] = redemption[q]
         /\ redemption'[o] =
              IF redemption[o] = "held" THEN "released" ELSE redemption[o]
         /\ back[o].pc = "flip" /\ back'[o].pc = "claims"
         /\ back'[o].ids = back[o].ids /\ back'[o].rows = back[o].rows
<1>1. back[o] \in BackLocals /\ back \in [Orders -> BackLocals]
  BY Ranges
<1> QED BY <1>1 DEF BackFlip, FlipTo, BackLocals, TypeOK

LEMMA BackClaimEffect ==
  ASSUME TypeOK, NEW o \in Orders, BackClaim(o)
  PROVE  /\ UNCHANGED <<redemption, promo, entry, order, buy, move, found, endings,
                       stripped, save, crashes>>
         /\ \A q \in Orders \ {o} : back'[q] = back[q]
         /\ back[o].pc = "claims" /\ back'[o].rows = back[o].rows
         /\ \/ /\ back[o].ids = {} /\ back'[o].ids = {}
               /\ back'[o].pc = "wallet" /\ UNCHANGED claim
            \/ /\ back'[o].pc = "claims"
               /\ \E i \in back[o].ids :
                    /\ back'[o].ids = back[o].ids \ {i}
                    /\ \A j \in Identities :
                         IF j # i \/ ~HeldBy(j, o) THEN claim'[j] = claim[j]
                         ELSE claim'[j].state = "released"
<1>1. back[o] \in BackLocals /\ back \in [Orders -> BackLocals]
  BY Ranges
<1>2. CASE back[o].ids = {}
  BY <1>1, <1>2 DEF BackClaim, BackLocals
<1>3. CASE back[o].ids # {}
  <2>1. PICK i \in back[o].ids :
          /\ claim' = [claim EXCEPT ![i] = IF ~HeldBy(i, o) THEN @ ELSE Released]
          /\ back' = [back EXCEPT ![o].ids = @ \ {i}]
    BY <1>3 DEF BackClaim, ClaimTo
  <2>2. /\ \A q \in Orders \ {o} : back'[q] = back[q]
        /\ back'[o].pc = back[o].pc /\ back'[o].ids = back[o].ids \ {i}
        /\ back'[o].rows = back[o].rows
    BY <1>1, <2>1 DEF BackLocals
  <2>3. \A j \in Identities :
          IF j # i \/ ~HeldBy(j, o) THEN claim'[j] = claim[j]
          ELSE claim'[j].state = "released"
    BY <1>1, <2>1 DEF TypeOK, Released
  <2> QED BY <2>2, <2>3 DEF BackClaim
<1> QED BY <1>2, <1>3

LEMMA VoucherMoved ==
  ASSUME TypeOK, NEW o, NEW e \in Entries, NEW to, VoucherTo(e, o, to)
  PROVE  /\ \A d \in Entries :
              /\ d # e \/ entry[d].status # "held" \/ entry[d].o # o
                   => entry'[d] = entry[d]
              /\ entry'[d].tier = entry[d].tier
         /\ entry[e].status = "held" /\ entry[e].o = o =>
              IF to = "used"
              THEN entry'[e].status = "used" /\ entry'[e].o = o
              ELSE entry'[e].status \in {"saved", "expired"}
<1>1. entry \in [Entries -> Entry]
  BY DEF TypeOK
<1>2. CASE entry[e].status # "held" \/ entry[e].o # o
  BY <1>2 DEF VoucherTo
<1>3. CASE entry[e].status = "held" /\ entry[e].o = o /\ to = "used"
  <2>1. entry' = [entry EXCEPT ![e].status = "used"]
    BY <1>3 DEF VoucherTo
  <2> QED BY <1>1, <1>3, <2>1 DEF Entry
<1>4. CASE entry[e].status = "held" /\ entry[e].o = o /\ to # "used"
  <2>1. PICK s \in {"saved", "expired"} :
          entry' = [entry EXCEPT ![e].status = s, ![e].o = None]
    BY <1>4 DEF VoucherTo
  <2> QED BY <1>4, <2>1, EntryWritten
<1> QED BY <1>2, <1>3, <1>4

LEMMA BackVoucherEffect ==
  ASSUME TypeOK, NEW o \in Orders, BackVoucher(o)
  PROVE  /\ UNCHANGED <<claim, redemption, promo, order, buy, move, found, endings,
                       stripped, save, crashes>>
         /\ \A q \in Orders \ {o} : back'[q] = back[q]
         /\ back[o].pc = "wallet" /\ back'[o].ids = back[o].ids
         /\ \/ back[o].rows = {} /\ back'[o].pc = "idle" /\ UNCHANGED entry
            \/ /\ back'[o].pc = "wallet"
               /\ \E e \in back[o].rows :
                    /\ e \in Entries
                    /\ back'[o].rows = back[o].rows \ {e}
                    /\ \A d \in Entries :
                         /\ d # e \/ entry[d].status # "held" \/ entry[d].o # o
                              => entry'[d] = entry[d]
                         /\ entry'[d].tier = entry[d].tier
                    /\ entry[e].status = "held" /\ entry[e].o = o =>
                         entry'[e].status \in {"saved", "expired"}
<1>1. back[o] \in BackLocals /\ back \in [Orders -> BackLocals]
  BY Ranges
<1>2. CASE back[o].rows = {}
  BY <1>1, <1>2 DEF BackVoucher, BackLocals
<1>3. CASE back[o].rows # {}
  <2>1. PICK e \in back[o].rows :
          VoucherTo(e, o, "released") /\ back' = [back EXCEPT ![o].rows = @ \ {e}]
    BY <1>3 DEF BackVoucher
  <2>2. e \in Entries
    BY <1>1 DEF BackLocals
  <2>3. /\ \A q \in Orders \ {o} : back'[q] = back[q]
        /\ back'[o].pc = back[o].pc /\ back'[o].rows = back[o].rows \ {e}
        /\ back'[o].ids = back[o].ids
    BY <1>1, <2>1 DEF BackLocals
  <2>4. /\ \A d \in Entries :
             /\ d # e \/ entry[d].status # "held" \/ entry[d].o # o
                  => entry'[d] = entry[d]
             /\ entry'[d].tier = entry[d].tier
        /\ entry[e].status = "held" /\ entry[e].o = o =>
             entry'[e].status \in {"saved", "expired"}
    BY <2>1, <2>2, VoucherMoved
  <2> QED BY <2>2, <2>3, <2>4 DEF BackVoucher
<1> QED BY <1>2, <1>3

LEMMA BackCrashEffect ==
  ASSUME TypeOK, NEW o \in Orders, BackCrash(o)
  PROVE  /\ UNCHANGED <<claim, redemption, promo, entry, order, buy, move, found,
                       endings, stripped, save>>
         /\ \A q \in Orders \ {o} : back'[q] = back[q]
         /\ back[o].pc # "idle" /\ back'[o].pc = "idle" /\ back'[o].ids = {}
         /\ crashes' = crashes + 1
  BY Ranges DEF BackCrash, Dies

LEMMA FlipEffect ==
  ASSUME TypeOK, NEW o \in Orders, Flip(o)
  PROVE  /\ UNCHANGED <<claim, promo, entry, order, buy, ending, save, crashes>>
         /\ \A q \in Orders \ {o} :
              move'[q] = move[q] /\ redemption'[q] = redemption[q]
         /\ redemption'[o] =
              IF redemption[o] = "held" THEN move[o].to ELSE redemption[o]
         /\ move[o].pc = "flip" /\ move'[o].pc = "claims"
         /\ move'[o].to = move[o].to /\ move'[o].ids = move[o].ids
         /\ move'[o].rows = move[o].rows
<1>1. move[o] \in MoveLocals /\ move \in [Orders -> MoveLocals]
  BY Ranges
<1> QED BY <1>1 DEF Flip, FlipTo, MoveLocals, TypeOK

LEMMA MoveClaimEffect ==
  ASSUME TypeOK, NEW o \in Orders, MoveClaim(o)
  PROVE  /\ UNCHANGED <<redemption, promo, entry, order, buy, ending, save, crashes>>
         /\ \A q \in Orders \ {o} : move'[q] = move[q]
         /\ move[o].pc = "claims"
         /\ move'[o].to = move[o].to /\ move'[o].rows = move[o].rows
         /\ \/ /\ move[o].ids = {} /\ move'[o].ids = {}
               /\ move'[o].pc = "wallet" /\ UNCHANGED claim
            \/ /\ move'[o].pc = "claims"
               /\ \E i \in move[o].ids :
                    /\ move'[o].ids = move[o].ids \ {i}
                    /\ \A j \in Identities :
                         IF j # i \/ ~HeldBy(j, o) THEN claim'[j] = claim[j]
                         ELSE claim'[j].state = IF move[o].to = "used"
                                                THEN "consumed" ELSE "released"
<1>1. move[o] \in MoveLocals /\ move \in [Orders -> MoveLocals]
  BY Ranges
<1>2. CASE move[o].ids = {}
  BY <1>1, <1>2 DEF MoveClaim, MoveLocals
<1>3. CASE move[o].ids # {}
  <2>1. PICK i \in move[o].ids :
          /\ claim' = [claim EXCEPT ![i] =
               IF ~HeldBy(i, o) THEN @
               ELSE IF move[o].to = "used" THEN Consumed ELSE Released]
          /\ move' = [move EXCEPT ![o].ids = @ \ {i}]
    BY <1>3 DEF MoveClaim, ClaimTo
  <2>2. /\ \A q \in Orders \ {o} : move'[q] = move[q]
        /\ move'[o].pc = move[o].pc /\ move'[o].ids = move[o].ids \ {i}
        /\ move'[o].to = move[o].to /\ move'[o].rows = move[o].rows
    BY <1>1, <2>1 DEF MoveLocals
  <2>3. \A j \in Identities :
          IF j # i \/ ~HeldBy(j, o) THEN claim'[j] = claim[j]
          ELSE claim'[j].state = IF move[o].to = "used"
                                 THEN "consumed" ELSE "released"
    BY <1>1, <2>1 DEF TypeOK, Consumed, Released
  <2> QED BY <2>2, <2>3 DEF MoveClaim
<1> QED BY <1>2, <1>3

LEMMA MoveVoucherEffect ==
  ASSUME TypeOK, NEW o \in Orders, MoveVoucher(o)
  PROVE  /\ UNCHANGED <<claim, redemption, promo, order, buy, ending, save, crashes>>
         /\ \A q \in Orders \ {o} : move'[q] = move[q]
         /\ move[o].pc = "wallet"
         /\ \/ /\ move[o].rows = {} /\ move'[o] = AfterWallet(o)
               /\ UNCHANGED entry
            \/ /\ move'[o].pc = "wallet" /\ move'[o].to = move[o].to
               /\ move'[o].ids = move[o].ids
               /\ \E e \in move[o].rows :
                    /\ e \in Entries
                    /\ move'[o].rows = move[o].rows \ {e}
                    /\ \A d \in Entries :
                         /\ d # e \/ entry[d].status # "held" \/ entry[d].o # o
                              => entry'[d] = entry[d]
                         /\ entry'[d].tier = entry[d].tier
                    /\ entry[e].status = "held" /\ entry[e].o = o =>
                         IF move[o].to = "used"
                         THEN entry'[e].status = "used" /\ entry'[e].o = o
                         ELSE entry'[e].status \in {"saved", "expired"}
<1>1. /\ move[o] \in MoveLocals /\ move \in [Orders -> MoveLocals]
      /\ entry \in [Entries -> Entry]
  BY Ranges
<1>2. CASE move[o].rows = {}
  BY <1>1, <1>2 DEF MoveVoucher
<1>3. CASE move[o].rows # {}
  <2>1. PICK e \in move[o].rows :
          VoucherTo(e, o, move[o].to) /\ move' = [move EXCEPT ![o].rows = @ \ {e}]
    BY <1>3 DEF MoveVoucher
  <2>2. e \in Entries
    BY <1>1 DEF MoveLocals
  <2>3. /\ \A q \in Orders \ {o} : move'[q] = move[q]
        /\ move'[o].pc = move[o].pc /\ move'[o].rows = move[o].rows \ {e}
        /\ move'[o].to = move[o].to /\ move'[o].ids = move[o].ids
    BY <1>1, <2>1 DEF MoveLocals
  <2>4. /\ \A d \in Entries :
             /\ d # e \/ entry[d].status # "held" \/ entry[d].o # o
                  => entry'[d] = entry[d]
             /\ entry'[d].tier = entry[d].tier
        /\ entry[e].status = "held" /\ entry[e].o = o =>
             IF move[o].to = "used"
             THEN entry'[e].status = "used" /\ entry'[e].o = o
             ELSE entry'[e].status \in {"saved", "expired"}
    BY <2>1, <2>2, VoucherMoved
  <2> QED BY <2>2, <2>3, <2>4 DEF MoveVoucher
<1> QED BY <1>2, <1>3

LEMMA RecordEffect ==
  ASSUME TypeOK, NEW o \in Orders, Record(o)
  PROVE  /\ UNCHANGED <<redemption, promo, entry, order, buy, ending, save, crashes>>
         /\ \A q \in Orders \ {o} : move'[q] = move[q]
         /\ move[o].pc = "record"
         /\ \/ move[o].ids = {} /\ move'[o] = NoMove /\ UNCHANGED claim
            \/ /\ move'[o].pc = "record" /\ move'[o].to = move[o].to
               /\ \E i \in Ids(o) :
                    /\ move'[o].ids = move[o].ids \ {i}
                    /\ \A j \in Identities : IF j = i
                         THEN claim'[j].state = "consumed"
                         ELSE claim'[j] = claim[j]
<1>1. move[o] \in MoveLocals /\ move \in [Orders -> MoveLocals]
  BY Ranges
<1>2. CASE move[o].ids = {}
  BY <1>1, <1>2 DEF Record
<1>3. CASE move[o].ids # {}
  <2> DEFINE i == IF Account[o] \in move[o].ids THEN Account[o] ELSE Phone[o]
  <2>1. /\ claim' = [claim EXCEPT ![i] = Consumed]
        /\ move' = [move EXCEPT ![o].ids = @ \ {i}] /\ move[o].pc = "record"
    BY <1>3 DEF Record
  <2>2. i \in Ids(o)
    BY DEF Ids
  <2> HIDE DEF i
  <2>3. /\ \A q \in Orders \ {o} : move'[q] = move[q]
        /\ move'[o].pc = move[o].pc /\ move'[o].ids = move[o].ids \ {i}
        /\ move'[o].to = move[o].to
    BY <1>1, <2>1 DEF MoveLocals
  <2>4. \A j \in Identities : IF j = i THEN claim'[j].state = "consumed"
                                       ELSE claim'[j] = claim[j]
    BY <2>1 DEF TypeOK, Consumed
  <2> QED BY <2>1, <2>2, <2>3, <2>4 DEF Record
<1> QED BY <1>2, <1>3

\* The steps of those that give back, or bring an order back.
Ends(o) == Ending(o) \/ BackCrash(o)

LEMMA EndsEffect ==
  ASSUME TypeOK, NEW o \in Orders, Ends(o)
  PROVE  /\ UNCHANGED <<promo, buy, move, save>>
         /\ UNCHANGED claim \/ BackClaim(o)
         /\ UNCHANGED entry \/ BackVoucher(o)
         /\ UNCHANGED redemption \/ BackFlip(o)
         /\ crashes' = crashes \/ crashes' = crashes + 1
  BY DEF Ends, Ending, Cancel, SweepFind, SweepExpire, Renew, Review, BackFlip,
         BackClaim, BackVoucher, BackCrash, Dies

LEMMA LapseEffect ==
  ASSUME TypeOK, NEW o \in Orders, Lapse(o)
  PROVE  /\ UNCHANGED <<redemption, promo, entry, order, buy, move, ending, save, crashes>>
         /\ ~Buying(o) /\ \A q \in Orders : Buying(q) => o \in buy[q].saw
         /\ \A i \in Identities :
              /\ claim'[i].state = claim[i].state /\ claim'[i].o = claim[i].o
              /\ ~HeldBy(i, o) => claim'[i] = claim[i]
  BY DEF Lapse, TypeOK, Claim

LEMMA CrashEffect ==
  ASSUME TypeOK, NEW o \in Orders, BuyCrash(o) \/ MoveCrash(o)
  PROVE  /\ UNCHANGED <<claim, redemption, promo, entry, order, ending, save>>
         /\ \A q \in Orders \ {o} : buy'[q] = buy[q] /\ move'[q] = move[q]
         /\ \/ /\ UNCHANGED move /\ Buying(o)
               /\ buy'[o].pc = "crashed" /\ buy'[o].saw = {}
            \/ /\ UNCHANGED buy /\ move[o].pc \in AtWork
               /\ move'[o].pc = "idle" /\ move'[o].ids = {}
         /\ crashes' = crashes + 1
<1>1. CASE BuyCrash(o)
  BY <1>1, GotoEffect DEF BuyCrash, Dies, BuyPc
<1>2. CASE MoveCrash(o)
  BY <1>2, Ranges DEF MoveCrash, Dies, NoMove, MoveLocals, AtWork
<1> QED BY <1>1, <1>2

LEMMA SavesEffect ==
  ASSUME NEW k \in Saves, Saving(k) \/ SaveCrash(k)
  PROVE  UNCHANGED <<claim, redemption, order, buy, move, ending>>
  BY DEF Saving, SaveFind, SaveSlot, SaveDraw, SaveInsert, SaveOpen, SaveCrash

-----------------------------------------------------------------------------
LEMMA Steps ==
  ASSUME [Next]_vars
  PROVE  \/ \E o \in Orders :
              \/ Start(o) \/ Asks(o) \/ HoldAccount(o) \/ HoldPhone(o)
              \/ RollbackAccount(o) \/ Redeem(o) \/ HoldVoucher(o) \/ Insert(o)
              \/ Settle(o) \/ Flip(o) \/ MoveClaim(o) \/ MoveVoucher(o) \/ Record(o)
              \/ Ends(o) \/ Lapse(o) \/ BuyCrash(o) \/ MoveCrash(o)
         \/ \E k \in Saves : Saving(k) \/ SaveCrash(k)
         \/ UNCHANGED vars
  BY DEF Next, Checkout, Moving, Ends, Asks

-----------------------------------------------------------------------------
(* The first layer: where the handlers of an order are. *)

\* A checkout runs before its order exists; a handler uses what a paid order
\* held, or gives back what a checkout that failed held, and another gives
\* back what an order held that was placed, from then on stripped; each starts
\* with everything the order may have held.  Only a transfer comes back.
PhaseOf(o) ==
  /\ Buying(o) \/ buy[o].pc = "start" => order[o] = "none" /\ move[o].pc = "idle"
  /\ order[o] \in {"open", "expired", "cancelled"} => move[o].pc = "idle"
  /\ move[o].pc \in AtWork =>
       \/ move[o].to = "used" /\ order[o] = "paid"
       \/ move[o].to = "released" /\ order[o] = "none" /\ move[o].pc # "record"
  /\ buy[o].pc \in ForFirst => o \in FirstBuys
  /\ move[o].ids \subseteq Ids(o) /\ back[o].ids \subseteq Ids(o)
  /\ move[o].pc = "flip" => move[o].ids = Ids(o)
  /\ back[o].pc = "flip" => back[o].ids = Ids(o)
  /\ move[o].pc \in {"flip", "claims"} => move[o].rows = EntriesOf(o)
  /\ back[o].pc \in {"flip", "claims"} => back[o].rows = EntriesOf(o)
  /\ o \in found => order[o] # "none" /\ o \in Transfers
  /\ back[o].pc # "idle" \/ order[o] \in {"expired", "cancelled"} => o \in stripped
  /\ o \in stripped =>
       order[o] # "none" /\ (order[o] = "cancelled" \/ o \in Transfers)

\* An order that a checkout saw exists.
SawOf(q) == \A o \in buy[q].saw : order[o] # "none"

\* A promotion of new customers stays redeemed while the order is whole.
RedeemedFor(o) ==
  o \in FirstBuys /\ (buy[o].pc \in {"wallet", "insert"} \/ Whole(o)) =>
    redemption[o] \in {"held", "used"}

Phases == \A o \in Orders : PhaseOf(o) /\ SawOf(o) /\ RedeemedFor(o)

LEMMA PhasesInit == Init => Phases
  BY DEF Init, Phases, PhaseOf, SawOf, RedeemedFor, Buying, Alive, Whole, AtWork,
         ForFirst, Quote

\* A step of one order leaves the others as they were.
LEMMA PhasesOthers ==
  ASSUME Phases, NEW o \in Orders,
         \A q \in Orders \ {o} :
           /\ buy'[q] = buy[q] /\ move'[q] = move[q]
           /\ order'[q] = order[q] /\ redemption'[q] = redemption[q]
           /\ back'[q] = back[q] /\ (q \in found' <=> q \in found)
           /\ q \in stripped' <=> q \in stripped,
         order[o] # "none" => order'[o] # "none",
         buy \in [Orders -> BuyLocals],
         PhaseOf(o)', SawOf(o)', RedeemedFor(o)'
  PROVE  Phases'
<1> SUFFICES ASSUME NEW q \in Orders, q # o
             PROVE  PhaseOf(q)' /\ SawOf(q)' /\ RedeemedFor(q)'
  BY DEF Phases
<1>1. /\ buy'[q] = buy[q] /\ move'[q] = move[q]
      /\ order'[q] = order[q] /\ redemption'[q] = redemption[q]
      /\ back'[q] = back[q] /\ (q \in found' <=> q \in found)
      /\ q \in stripped' <=> q \in stripped
  OBVIOUS
<1>2. PhaseOf(q) /\ SawOf(q) /\ RedeemedFor(q)
  BY DEF Phases
<1>3. PhaseOf(q)'
  BY <1>1, <1>2 DEF PhaseOf, Buying, Ids, EntriesOf, EntryAt
<1>4. RedeemedFor(q)'
  BY <1>1, <1>2 DEF RedeemedFor, Whole, Alive
<1>5. SawOf(q)'
  <2>1. buy[q].saw \subseteq Orders
    BY DEF BuyLocals
  <2> QED BY <1>1, <1>2, <2>1 DEF SawOf
<1> QED BY <1>3, <1>4, <1>5

LEMMA PhasesCheckout ==
  ASSUME TypeOK, Phases, NEW o \in Orders,
         \/ Start(o) \/ Asks(o) \/ HoldAccount(o) \/ HoldPhone(o)
         \/ RollbackAccount(o) \/ BuyCrash(o)
  PROVE  Phases'
<1> USE DEF PhaseOf, SawOf, RedeemedFor, Buying, Whole, Alive, AtWork, ForFirst,
        Quote, Take
<1>1. /\ PhaseOf(o) /\ SawOf(o) /\ RedeemedFor(o)
      /\ buy \in [Orders -> BuyLocals]
  BY Ranges DEF Phases
<1>2. CASE Start(o)
  BY <1>1, <1>2, StartEffect, PhasesOthers
<1>3. CASE Asks(o)
  BY <1>1, <1>3, AskEffect, PhasesOthers
<1>4. CASE HoldAccount(o) \/ HoldPhone(o)
  BY <1>1, <1>4, HoldEffect, PhasesOthers
<1>5. CASE RollbackAccount(o)
  BY <1>1, <1>5, RollbackEffect, PhasesOthers
<1>6. CASE BuyCrash(o)
  <2>1. Goto(o, "crashed") /\ UNCHANGED <<claim, redemption, order, move, ending>>
    BY <1>6 DEF BuyCrash
  <2> QED BY <1>1, <2>1, GotoEffect, PhasesOthers DEF BuyPc
<1> QED BY <1>2, <1>3, <1>4, <1>5, <1>6

LEMMA PhasesHold ==
  ASSUME TypeOK, Phases, NEW o \in Orders, Redeem(o) \/ HoldVoucher(o) \/ Insert(o)
  PROVE  Phases'
<1> USE DEF PhaseOf, SawOf, RedeemedFor, Buying, Whole, Alive, AtWork, ForFirst,
        Quote, Take
<1>1. /\ PhaseOf(o) /\ SawOf(o) /\ RedeemedFor(o)
      /\ buy \in [Orders -> BuyLocals]
  BY Ranges DEF Phases
<1>2. ASSUME Fails(o), UNCHANGED <<order, redemption, ending>>,
             buy[o].pc \in {"redeem", "wallet", "insert"}
      PROVE  Phases'
  <2>1. buy'[o].pc = "over" /\ buy'[o].saw = {}
    BY <1>2, FailsEffect
  <2>2. /\ move'[o].pc = "flip" /\ move'[o].to = "released"
        /\ move'[o].ids = Ids(o) /\ move'[o].rows = EntriesOf(o)
    BY <1>2, FailsEffect
  <2>3. order'[o] = "none"
    BY <1>1, <1>2
  <2>4. PhaseOf(o)' /\ RedeemedFor(o)' /\ SawOf(o)'
    BY <1>1, <1>2, <2>1, <2>2, <2>3 DEF Ids, EntriesOf, EntryAt
  <2> QED BY <1>1, <1>2, <2>4, FailsEffect, PhasesOthers
<1>3. CASE Redeem(o)
  BY <1>1, <1>2, <1>3, RedeemEffect, PhasesOthers
<1>4. CASE HoldVoucher(o)
  <2>1. CASE Fails(o)
    BY <1>2, <1>4, <2>1, HoldVoucherEffect
  <2>2. CASE ~Fails(o)
    <3>1. /\ UNCHANGED <<order, redemption, move, ending>> /\ buy[o].pc = "wallet"
          /\ \A q \in Orders \ {o} : buy'[q] = buy[q]
          /\ buy'[o].pc \in {"wallet", "insert"} /\ buy'[o].saw = buy[o].saw
      BY <1>4, <2>2, HoldVoucherEffect
    <3> QED BY <1>1, <3>1, PhasesOthers
  <2> QED BY <2>1, <2>2
<1>5. CASE Insert(o)
  <2>1. CASE Fails(o) /\ UNCHANGED order
    BY <1>2, <1>5, <2>1, InsertEffect
  <2>2. CASE ~(Fails(o) /\ UNCHANGED order)
    <3>1. /\ UNCHANGED <<redemption, move, ending>> /\ buy[o].pc = "insert"
          /\ \A q \in Orders \ {o} : buy'[q] = buy[q] /\ order'[q] = order[q]
          /\ order'[o] = "open" /\ buy'[o].pc = "over" /\ buy'[o].saw = {}
      BY <1>5, <2>2, InsertEffect
    <3> QED BY <1>1, <3>1, PhasesOthers
  <2> QED BY <2>1, <2>2
<1> QED BY <1>3, <1>4, <1>5

LEMMA PhasesMove ==
  ASSUME TypeOK, Phases, NEW o \in Orders, Moving(o) \/ MoveCrash(o)
  PROVE  Phases'
<1> USE DEF PhaseOf, SawOf, RedeemedFor, Buying, Whole, Alive, AtWork
<1>1. /\ PhaseOf(o) /\ SawOf(o) /\ RedeemedFor(o)
      /\ buy \in [Orders -> BuyLocals]
      /\ redemption \in [Orders -> {"none", "held", "used", "released"}]
      /\ buy[o].saw \subseteq Orders
  BY Ranges DEF Phases, BuyLocals
<1>2. CASE Settle(o)
  <2>1. /\ UNCHANGED <<redemption, buy, ending>> /\ order[o] = "open"
        /\ \A q \in Orders \ {o} : move'[q] = move[q] /\ order'[q] = order[q]
        /\ order'[o] = "paid"
        /\ move'[o].pc = "flip" /\ move'[o].to = "used"
        /\ move'[o].ids = Ids(o) /\ move'[o].rows = EntriesOf(o)
    BY <1>2, SettleEffect
  <2>2. PhaseOf(o)'
    BY <1>1, <2>1 DEF Ids, EntriesOf, EntryAt
  <2>3. RedeemedFor(o)' /\ SawOf(o)'
    BY <1>1, <2>1
  <2> QED BY <2>1, <2>2, <2>3, <1>1, PhasesOthers
<1>3. CASE Flip(o)
  BY <1>1, <1>3, FlipEffect, PhasesOthers
<1>4. CASE MoveClaim(o)
  BY <1>1, <1>4, MoveClaimEffect, PhasesOthers
<1>5. CASE MoveVoucher(o)
  <2>1. CASE move'[o] = AfterWallet(o)
    <3>1. UNCHANGED <<redemption, order, buy, ending>> /\ move[o].pc = "wallet"
          /\ \A q \in Orders \ {o} : move'[q] = move[q]
      BY <1>5, MoveVoucherEffect
    <3>2. move[o] \in MoveLocals
      BY Ranges
    <3>3. PhaseOf(o)'
      BY <1>1, <2>1, <3>1, <3>2 DEF AfterWallet, NoMove, MoveLocals
    <3> QED BY <1>1, <3>1, <3>3, PhasesOthers
  <2>2. CASE move'[o] # AfterWallet(o)
    <3>1. /\ UNCHANGED <<redemption, order, buy, ending>> /\ move[o].pc = "wallet"
          /\ \A q \in Orders \ {o} : move'[q] = move[q]
          /\ move'[o].pc = "wallet" /\ move'[o].to = move[o].to
          /\ move'[o].ids = move[o].ids
      BY <1>5, <2>2, MoveVoucherEffect
    <3> QED BY <1>1, <3>1, PhasesOthers
  <2> QED BY <2>1, <2>2
<1>6. CASE Record(o)
  BY <1>1, <1>6, RecordEffect, PhasesOthers DEF NoMove
<1>7. CASE MoveCrash(o)
  <2>1. /\ UNCHANGED <<redemption, order, buy, ending>> /\ move[o].pc \in AtWork
        /\ \A q \in Orders \ {o} : move'[q] = move[q]
        /\ move'[o].pc = "idle" /\ move'[o].ids = {}
    BY <1>7, Ranges DEF MoveCrash, NoMove, MoveLocals
  <2> QED BY <1>1, <2>1, PhasesOthers
<1> QED BY <1>2, <1>3, <1>4, <1>5, <1>6, <1>7 DEF Moving

LEMMA PhasesEnding ==
  ASSUME TypeOK, Phases, NEW o \in Orders, Ending(o) \/ BackCrash(o)
  PROVE  Phases'
<1> USE DEF PhaseOf, SawOf, RedeemedFor, Buying, Whole, Alive
<1>1. /\ PhaseOf(o) /\ SawOf(o) /\ RedeemedFor(o)
      /\ buy \in [Orders -> BuyLocals] /\ buy[o].saw \subseteq Orders
  BY Ranges DEF Phases, BuyLocals
<1>2. CASE Gives(o)
  <2>1. /\ UNCHANGED <<redemption, buy, move>>
        /\ found' \subseteq found /\ stripped' = stripped \cup {o}
        /\ back'[o].pc = "flip" /\ back'[o].ids = Ids(o) /\ back'[o].rows = EntriesOf(o)
        /\ \/ order[o] \in {"open", "expired"} /\ order'[o] = "cancelled"
           \/ o \in found /\ order[o] = "open" /\ order'[o] = "expired"
           \/ o \in found /\ order'[o] = order[o]
    BY <1>2, GiveEffect
  <2>2. \A q \in Orders \ {o} : /\ back'[q] = back[q] /\ order'[q] = order[q]
                                /\ q \in found' <=> q \in found
    BY <1>2, GiveEffect
  <2>3. PhaseOf(o)'
    BY <1>1, <2>1 DEF Ids, EntriesOf, EntryAt
  <2>4. order[o] # "none" /\ order'[o] # "none"
    BY <1>1, <2>1
  <2>5. SawOf(o)'
    <3>1. SawOf(o) /\ buy[o].saw \subseteq Orders
      BY <1>1
    <3>2. buy' = buy /\ \A q \in Orders : order[q] # "none" => order'[q] # "none"
      BY <2>1, <2>2, <2>4
    <3> QED BY <3>1, <3>2
  <2>6. RedeemedFor(o)'
    <3>1. o \in stripped'
      BY <2>1
    <3> QED BY <1>1, <2>1, <3>1
  <2>7. \A q \in Orders \ {o} :
          /\ buy'[q] = buy[q] /\ move'[q] = move[q]
          /\ order'[q] = order[q] /\ redemption'[q] = redemption[q]
          /\ back'[q] = back[q] /\ (q \in found' <=> q \in found)
          /\ q \in stripped' <=> q \in stripped
    BY <2>1, <2>2
  <2>8. buy \in [Orders -> BuyLocals]
    BY <1>1
  <2> HIDE DEF PhaseOf, SawOf, RedeemedFor
  <2> QED BY <2>3, <2>4, <2>5, <2>6, <2>7, <2>8, PhasesOthers
<1>3. CASE SweepFind(o)
  BY <1>1, <1>3, FindEffect, PhasesOthers DEF Ids, EntriesOf, EntryAt
<1>4. CASE Reopens(o)
  <2>1. PhaseOf(o)'
    BY <1>1, <1>4, ReopenEffect DEF Ids, EntriesOf, EntryAt
  <2>2. RedeemedFor(o)' /\ SawOf(o)'
    BY <1>1, <1>4, ReopenEffect
  <2> QED BY <1>1, <1>4, <2>1, <2>2, ReopenEffect, PhasesOthers
<1>5. CASE BackFlip(o)
  BY <1>1, <1>5, BackFlipEffect, PhasesOthers DEF Ids, EntriesOf, EntryAt
<1>6. CASE BackClaim(o)
  BY <1>1, <1>6, BackClaimEffect, PhasesOthers DEF Ids, EntriesOf, EntryAt
<1>7. CASE BackVoucher(o)
  BY <1>1, <1>7, BackVoucherEffect, PhasesOthers DEF Ids, EntriesOf, EntryAt
<1>8. CASE BackCrash(o)
  BY <1>1, <1>8, BackCrashEffect, PhasesOthers DEF Ids, EntriesOf, EntryAt
<1> QED BY <1>2, <1>3, <1>4, <1>5, <1>6, <1>7, <1>8 DEF Ending, Gives, Reopens

LEMMA PhasesNext == TypeOK /\ Phases /\ [Next]_vars => Phases'
<1> SUFFICES ASSUME TypeOK, Phases, [Next]_vars PROVE Phases'
  OBVIOUS
<1>1. ASSUME UNCHANGED <<redemption, order, buy, move, ending>> PROVE Phases'
  BY <1>1 DEF Phases, PhaseOf, SawOf, RedeemedFor, Buying, Whole, Alive, Ids,
     EntriesOf, EntryAt
<1>2. ASSUME NEW o \in Orders, Lapse(o) PROVE Phases'
  BY <1>1, <1>2, LapseEffect
<1>3. ASSUME NEW k \in Saves, Saving(k) \/ SaveCrash(k) PROVE Phases'
  BY <1>1, <1>3, SavesEffect
<1>4. CASE UNCHANGED vars
  BY <1>1, <1>4 DEF vars
<1> QED BY <1>2, <1>3, <1>4, Steps, PhasesCheckout, PhasesHold, PhasesMove, PhasesEnding
        DEF Moving, Ends

-----------------------------------------------------------------------------
(* The second layer: who holds a claim, and who may take it. *)

\* A checkout that was not refused for an order it saw shares no identity
\* with it while it is whole.
PastQuote ==
  \A q, o \in FirstBuys :
    buy[q].pc \in Take /\ SameBuyer(q, o) /\ o \in buy[q].saw => ~Whole(o)

\* A claim is held for an order of its buyer that asks for the right, in the
\* lease while the checkout runs; one that outlives its lease belongs to an
\* order that every checkout at work saw.
HolderOf(i, o) ==
  HeldBy(i, o) =>
    /\ i \in Ids(o) /\ o \in FirstBuys /\ buy[o].pc # "start"
    /\ Buying(o) => claim[i].live
    /\ order[o] # "none" /\ ~claim[i].live =>
         \A q \in Orders : Buying(q) => o \in buy[q].saw

\* The order counts on the identity: it is whole, or its checkout has taken
\* the claim and still may place the order.
Counts(o, i) ==
  /\ o \in FirstBuys /\ i \in Ids(o)
  /\ \/ Whole(o) \/ buy[o].pc \in {"redeem", "wallet", "insert"}
     \/ buy[o].pc = "phone" /\ i = Account[o]

\* What an order counts on is held for it, or was used up by a payment.
KeptFor(o, i) == Counts(o, i) => HeldBy(i, o) \/ claim[i].state = "consumed"

Shared == \A o, q \in Orders, i \in Identities : Counts(o, i) /\ Counts(q, i) => o = q

Rights ==
  /\ PastQuote /\ Shared
  /\ \A o \in Orders, i \in Identities : HolderOf(i, o) /\ KeptFor(o, i)

LEMMA RightsInit == Init => Rights
<1> SUFFICES ASSUME Init PROVE Rights
  OBVIOUS
<1>1. /\ \A o \in Orders : /\ buy[o].pc \in {"start", "over"}
                           /\ buy[o].saw = {} /\ order[o] = "none"
      /\ \A i \in Identities : claim[i].state = "none"
  BY DEF Init
<1> QED BY <1>1, VoucherAssumption, IdsTyped
        DEF Rights, PastQuote, Shared, HolderOf, KeptFor, Counts, HeldBy, Whole, Alive, Take

\* Nobody may take a claim that an order other than the taker's counts on.
LEMMA TakesFromNobody ==
  ASSUME Phases, Rights, NEW o \in Orders, NEW i \in Ids(o),
         buy[o].pc \in {"account", "phone"}, Takes(i, o),
         NEW q \in Orders, q # o
  PROVE  ~Counts(q, i)
<1> SUFFICES ASSUME Counts(q, i) PROVE FALSE
  OBVIOUS
<1>1. i \in Identities /\ i \in Ids(q) /\ q \in FirstBuys /\ o \in FirstBuys
  BY IdsTyped DEF Counts, Phases, PhaseOf, ForFirst
<1>2. HeldBy(i, q) /\ ~claim[i].live
  BY <1>1 DEF Rights, KeptFor, Takes, HeldBy
<1>3. ~Buying(q) /\ Whole(q) /\ \A x \in Orders : Buying(x) => q \in buy[x].saw
  BY <1>1, <1>2 DEF Rights, HolderOf, Counts, Buying, Whole, Alive
<1>4. q \in buy[o].saw /\ SameBuyer(o, q)
  BY <1>1, <1>3 DEF Buying, SameBuyer
<1> QED BY <1>1, <1>3, <1>4 DEF Rights, PastQuote, Take


-----------------------------------------------------------------------------
(* Who may have changed what a step changed. *)

\* The upsert that takes an identity for the order.
Took(o, i) ==
  /\ buy[o].pc \in {"account", "phone"} /\ Takes(i, o) /\ i \in Ids(o)
  /\ i = IF buy[o].pc = "account" THEN Account[o] ELSE Phone[o]
  /\ buy'[o].pc = IF buy[o].pc = "account" THEN "phone" ELSE "redeem"
  /\ claim'[i].state = "held" /\ claim'[i].o = o /\ claim'[i].live
  /\ UNCHANGED <<redemption, promo, entry, order, move, ending, save, crashes>>
  /\ \A q \in Orders \ {o} : buy'[q] = buy[q]

\* An order comes to be when it is inserted, and only a payment settles it; it
\* is stripped, or ceases to be alive, when it begins to give back.
LEMMA OrderSteps ==
  ASSUME TypeOK, Phases, [Next]_vars, NEW o \in Orders
  PROVE  /\ order[o] # "none" => order'[o] # "none"
         /\ order[o] = "none" => order'[o] = "none" \/ (Insert(o) /\ order'[o] = "open")
         /\ order'[o] = "paid" => order[o] = "paid" \/ Settle(o)
         /\ o \in stripped => o \in stripped'
         /\ Alive(o) => Alive(o)' \/ back'[o].pc = "flip"
         /\ Whole(o)' => Whole(o) \/ Insert(o)
<1> USE DEF Whole, Alive
<1>0. PhaseOf(o)
  BY DEF Phases
<1>1. ASSUME NEW x \in Orders, Insert(x)
      PROVE  /\ UNCHANGED stripped
             /\ \/ order'[o] = order[o]
                \/ order[o] = "none" /\ Insert(o) /\ order'[o] = "open"
  BY <1>1, InsertEffect DEF Phases, PhaseOf, Buying
<1>2. ASSUME NEW x \in Orders, Settle(x)
      PROVE  /\ UNCHANGED stripped
             /\ \/ order'[o] = order[o]
                \/ order[o] = "open" /\ Settle(o) /\ order'[o] = "paid"
  BY <1>2, SettleEffect
<1>3. ASSUME NEW x \in Orders, Gives(x)
      PROVE  \/ order'[o] = order[o] /\ stripped \subseteq stripped'
             \/ /\ order[o] \in {"open", "expired"} /\ back'[o].pc = "flip"
                /\ order'[o] \in {"expired", "cancelled"}
                /\ stripped \subseteq stripped'
  BY <1>3, GiveEffect
<1>4. ASSUME NEW x \in Orders, Reopens(x)
      PROVE  /\ UNCHANGED stripped
             /\ \/ order'[o] = order[o]
                \/ order[o] \in {"expired", "cancelled"} /\ order'[o] = "open"
  BY <1>4, ReopenEffect
<1>5. ASSUME NEW x \in Orders,
             \/ Start(x) \/ HoldAccount(x) \/ HoldPhone(x) \/ RollbackAccount(x)
             \/ Redeem(x) \/ HoldVoucher(x) \/ Flip(x) \/ MoveClaim(x)
             \/ MoveVoucher(x) \/ Record(x) \/ Lapse(x) \/ BuyCrash(x) \/ MoveCrash(x)
             \/ SweepFind(x) \/ BackFlip(x) \/ BackClaim(x) \/ BackVoucher(x)
             \/ BackCrash(x)
      PROVE  order' = order /\ stripped' = stripped
  BY <1>5 DEF Start, HoldAccount, HoldPhone, RollbackAccount, Redeem, HoldVoucher,
              Flip, MoveClaim, MoveVoucher, Record, Lapse, BuyCrash, MoveCrash,
              SweepFind, BackFlip, BackClaim, BackVoucher, BackCrash
<1>6. CASE UNCHANGED vars
  BY <1>6 DEF vars
<1>7. ASSUME NEW x \in Orders, Asks(x) PROVE order' = order /\ stripped' = stripped
  BY <1>7, AskEffect
<1>8. ASSUME NEW k \in Saves, Saving(k) \/ SaveCrash(k)
      PROVE  order' = order /\ stripped' = stripped
  BY <1>8, SavesEffect
<1>9. CASE order' = order /\ stripped' = stripped
  BY <1>9
<1>10. CASE \E x \in Orders : Insert(x) \/ Settle(x) \/ Gives(x) \/ Reopens(x)
  BY <1>0, <1>1, <1>2, <1>3, <1>4, <1>10 DEF PhaseOf
<1> QED BY <1>5, <1>6, <1>7, <1>8, <1>9, <1>10, Steps DEF Ends, Ending, Gives, Reopens

LEMMA BuyerSteps ==
  ASSUME TypeOK, [Next]_vars, NEW q \in Orders
  PROVE  \/ buy'[q] = buy[q]
         \/ Start(q)
         \/ Asks(q)
         \/ HoldAccount(q) \/ HoldPhone(q)
         \/ RollbackAccount(q) /\ buy[q].pc = "rollback" /\ buy'[q].pc = "over"
         \/ Redeem(q) \/ HoldVoucher(q) \/ Insert(q)
         \/ buy'[q].pc = "crashed" /\ UNCHANGED order /\ crashes' = crashes + 1
<1>1. ASSUME NEW x \in Orders, Start(x) \/ Asks(x) \/ HoldAccount(x) \/ HoldPhone(x)
      PROVE  x = q \/ buy'[q] = buy[q]
  BY <1>1, StartEffect, AskEffect, HoldEffect
<1>2. ASSUME NEW x \in Orders, RollbackAccount(x)
      PROVE  \/ buy'[q] = buy[q]
             \/ RollbackAccount(q) /\ buy[q].pc = "rollback" /\ buy'[q].pc = "over"
  BY <1>2, RollbackEffect
<1>3. ASSUME NEW x \in Orders, Redeem(x) \/ HoldVoucher(x) \/ Insert(x)
      PROVE  x = q \/ buy'[q] = buy[q]
  <2>1. CASE Fails(x)
    BY <2>1, FailsEffect
  <2>2. CASE Redeem(x) /\ ~Fails(x)
    BY <2>2, RedeemEffect
  <2>3. CASE HoldVoucher(x) /\ ~Fails(x)
    BY <2>3, HoldVoucherEffect
  <2>4. CASE Insert(x) /\ ~Fails(x)
    BY <2>4, InsertEffect
  <2> QED BY <1>3, <2>1, <2>2, <2>3, <2>4
<1>4. ASSUME NEW x \in Orders, BuyCrash(x) \/ MoveCrash(x)
      PROVE  \/ buy'[q] = buy[q]
             \/ buy'[q].pc = "crashed" /\ UNCHANGED order /\ crashes' = crashes + 1
  BY <1>4, CrashEffect
<1>5. ASSUME NEW x \in Orders,
             \/ Settle(x) \/ Flip(x) \/ MoveClaim(x) \/ MoveVoucher(x) \/ Record(x)
             \/ Ends(x) \/ Lapse(x)
      PROVE  buy' = buy
  BY <1>5, EndsEffect DEF Settle, Flip, MoveClaim, MoveVoucher, Record, Lapse
<1>6. CASE UNCHANGED vars
  BY <1>6 DEF vars
<1> QED BY <1>1, <1>2, <1>3, <1>4, <1>5, <1>6, Steps, SavesEffect

LEMMA ClaimSteps ==
  ASSUME TypeOK, [Next]_vars, NEW i \in Identities
  PROVE  \/ claim'[i] = claim[i]
         \/ \E o \in Orders : Took(o, i)
         \/ \E o \in Orders : /\ buy[o].pc = "rollback" /\ HeldBy(i, o)
                              /\ claim'[i].state = "released"
                              /\ UNCHANGED <<order, ending>>
                              /\ buy'[o].pc = "over"
         \/ \E o \in Orders : /\ move[o].pc = "claims" /\ HeldBy(i, o)
                              /\ claim'[i].state = IF move[o].to = "used"
                                                   THEN "consumed" ELSE "released"
                              /\ UNCHANGED <<order, buy, ending>>
         \/ \E o \in Orders : /\ back[o].pc = "claims" /\ HeldBy(i, o)
                              /\ claim'[i].state = "released"
                              /\ UNCHANGED <<order, buy, stripped>>
         \/ claim'[i].state = "consumed"
         \/ \E o \in Orders : Lapse(o) /\ HeldBy(i, o)
<1>1. ASSUME NEW o \in Orders, HoldAccount(o) \/ HoldPhone(o)
      PROVE  claim'[i] = claim[i] \/ Took(o, i)
  BY <1>1, HoldEffect DEF Took
<1>2. ASSUME NEW o \in Orders, RollbackAccount(o)
      PROVE  \/ claim'[i] = claim[i]
             \/ /\ buy[o].pc = "rollback" /\ HeldBy(i, o)
                /\ claim'[i].state = "released" /\ UNCHANGED <<order, ending>>
                /\ buy'[o].pc = "over"
  BY <1>2, RollbackEffect
<1>3. ASSUME NEW o \in Orders, MoveClaim(o)
      PROVE  \/ claim'[i] = claim[i]
             \/ /\ move[o].pc = "claims" /\ HeldBy(i, o)
                /\ claim'[i].state = IF move[o].to = "used"
                                     THEN "consumed" ELSE "released"
                /\ UNCHANGED <<order, buy, ending>>
  BY <1>3, MoveClaimEffect
<1>4. ASSUME NEW o \in Orders, Record(o)
      PROVE  claim'[i] = claim[i] \/ claim'[i].state = "consumed"
  BY <1>4, RecordEffect
<1>5. ASSUME NEW o \in Orders, Lapse(o)
      PROVE  claim'[i] = claim[i] \/ HeldBy(i, o)
  BY <1>5, LapseEffect
<1>6. ASSUME NEW o \in Orders,
             \/ Start(o) \/ Redeem(o) \/ HoldVoucher(o) \/ Insert(o) \/ Settle(o)
             \/ Flip(o) \/ MoveVoucher(o) \/ BuyCrash(o) \/ MoveCrash(o)
      PROVE  claim' = claim
  BY <1>6 DEF Start, Redeem, HoldVoucher, Insert, Settle, Flip, MoveVoucher, BuyCrash,
              MoveCrash
<1>8. ASSUME NEW o \in Orders, Ends(o)
      PROVE  \/ claim'[i] = claim[i]
             \/ /\ back[o].pc = "claims" /\ HeldBy(i, o)
                /\ claim'[i].state = "released" /\ UNCHANGED <<order, buy, stripped>>
  BY <1>8, EndsEffect, BackClaimEffect
<1>7. CASE UNCHANGED vars
  BY <1>7 DEF vars
<1> QED BY <1>1, <1>2, <1>3, <1>4, <1>5, <1>6, <1>7, <1>8, Steps, AskEffect, SavesEffect

LEMMA SawSteps ==
  ASSUME TypeOK, [Next]_vars, NEW q \in Orders, Buying(q)'
  PROVE  \/ Buying(q) /\ buy'[q].saw = buy[q].saw
         \/ /\ buy[q].pc = "start" /\ UNCHANGED <<order, claim>>
            /\ buy'[q].saw = {o \in Orders : order[o] # "none"}
<1> USE DEF Buying
<1>1. CASE buy'[q] = buy[q]
  BY <1>1
<1>2. CASE Start(q)
  BY <1>2, StartEffect
<1>3. CASE Asks(q)
  BY <1>3, AskEffect DEF Quote
<1>4. CASE HoldAccount(q) \/ HoldPhone(q)
  BY <1>4, HoldEffect
<1>5. CASE Redeem(q) \/ HoldVoucher(q) \/ Insert(q)
  BY <1>5, RedeemEffect, HoldVoucherEffect, InsertEffect, FailsEffect
<1> QED BY <1>1, <1>2, <1>3, <1>4, <1>5, BuyerSteps

\* A checkout comes to take the claims by asking last for a redemption.
LEMMA TakeSteps ==
  ASSUME TypeOK, [Next]_vars, NEW q \in FirstBuys, buy'[q].pc \in Take
  PROVE  \/ buy[q].pc \in Take /\ buy'[q].saw = buy[q].saw
         \/ /\ UNCHANGED <<order, stripped>> /\ buy'[q].saw = buy[q].saw
            /\ \A o \in FirstBuys :
                 SameBuyer(q, o) => redemption[o] \notin {"held", "used"}
<1> USE DEF Take
<1>0. q \in Orders
  BY VoucherAssumption
<1>1. CASE buy'[q] = buy[q]
  BY <1>1
<1>2. CASE Start(q)
  BY <1>0, <1>2, StartEffect
<1>3. CASE Asks(q)
  BY <1>0, <1>3, AskEffect
<1>4. CASE HoldAccount(q) \/ HoldPhone(q)
  BY <1>0, <1>4, HoldEffect
<1>5. CASE Redeem(q) \/ HoldVoucher(q) \/ Insert(q)
  BY <1>0, <1>5, RedeemEffect, HoldVoucherEffect, InsertEffect, FailsEffect
<1> QED BY <1>0, <1>1, <1>2, <1>3, <1>4, <1>5, BuyerSteps

LEMMA PastQuoteNext ==
  ASSUME TypeOK, Phases, PastQuote, [Next]_vars
  PROVE  PastQuote'
<1> SUFFICES ASSUME NEW q \in FirstBuys, NEW o \in FirstBuys, SameBuyer(q, o),
                    buy'[q].pc \in Take, o \in buy'[q].saw, Whole(o)'
             PROVE  FALSE
  BY DEF PastQuote, SameBuyer, Ids
<1>1. q \in Orders /\ o \in Orders
  BY VoucherAssumption
<1>2. CASE buy[q].pc \in Take /\ o \in buy[q].saw
  \* The order was seen and is over: it is not inserted any more.
  <2>1. order[o] # "none" /\ ~Whole(o)
    BY <1>1, <1>2 DEF PastQuote, Phases, SawOf
  <2>2. Insert(o) => order[o] = "none"
    BY <1>1, InsertEffect DEF Phases, PhaseOf, Buying
  <2> QED BY <1>1, <2>1, <2>2, OrderSteps
<1>3. CASE /\ UNCHANGED <<order, stripped>>
           /\ \A x \in FirstBuys :
                SameBuyer(q, x) => redemption[x] \notin {"held", "used"}
  BY <1>1, <1>3 DEF Phases, RedeemedFor, Whole, Alive
<1> QED BY <1>2, <1>3, TakeSteps

\* What the order counts on now it counted on, or it took it just now.
LEMMA CountSteps ==
  ASSUME TypeOK, Phases, [Next]_vars, NEW o \in Orders, NEW i, Counts(o, i)'
  PROVE  Counts(o, i) \/ Took(o, i)
<1>0. o \in FirstBuys /\ i \in Ids(o) /\ i \in Identities
  BY IdsTyped DEF Counts, Ids
<1>1. CASE Whole(o)'
  <2>1. Whole(o) \/ Insert(o)
    BY <1>1, OrderSteps
  <2> QED BY <1>0, <2>1, InsertEffect DEF Counts
<1>2. CASE ~Whole(o)'
  <2>0. \/ buy'[o].pc \in {"redeem", "wallet", "insert"}
        \/ buy'[o].pc = "phone" /\ i = Account[o]
    BY <1>2 DEF Counts
  <2>1. CASE buy'[o] = buy[o]
    BY <1>0, <2>0, <2>1 DEF Counts
  <2>2. CASE Start(o)
    BY <1>0, <2>0, <2>2, StartEffect
  <2>3. CASE Asks(o)
    BY <2>0, <2>3, AskEffect
  <2>4. CASE HoldAccount(o) \/ HoldPhone(o)
    <3>1. CASE i = IF buy[o].pc = "account" THEN Account[o] ELSE Phone[o]
      BY <2>0, <2>4, <3>1, HoldEffect DEF Took
    <3>2. CASE i # IF buy[o].pc = "account" THEN Account[o] ELSE Phone[o]
      BY <1>0, <2>0, <2>4, <3>2, HoldEffect DEF Counts, Ids
    <3> QED BY <3>1, <3>2
  <2>5. CASE Redeem(o) \/ HoldVoucher(o) \/ Insert(o)
    <3>1. buy[o].pc \in {"redeem", "wallet", "insert"}
      BY <2>5 DEF Redeem, HoldVoucher, Insert
    <3> QED BY <1>0, <3>1 DEF Counts
  <2> QED BY <2>0, <2>1, <2>2, <2>3, <2>4, <2>5, BuyerSteps
<1> QED BY <1>1, <1>2

LEMMA SharedNext ==
  ASSUME TypeOK, Phases, Rights, [Next]_vars
  PROVE  Shared'
<1> SUFFICES ASSUME NEW o \in Orders, NEW q \in Orders, NEW i \in Identities,
                    Counts(o, i)', Counts(q, i)', o # q
             PROVE  FALSE
  BY DEF Shared, Counts, Ids
<1>1. Counts(o, i) \/ Took(o, i)
  BY CountSteps
<1>2. Counts(q, i) \/ Took(q, i)
  BY CountSteps
<1>3. Took(o, i) => ~Counts(q, i) /\ ~Took(q, i)
  BY TakesFromNobody DEF Took
<1>4. Took(q, i) => ~Counts(o, i)
  BY TakesFromNobody DEF Took
<1> QED BY <1>1, <1>2, <1>3, <1>4 DEF Rights, Shared

LEMMA HolderNext ==
  ASSUME TypeOK, Phases, Rights, [Next]_vars, NEW o \in Orders, NEW i \in Identities
  PROVE  HolderOf(i, o)'
<1> SUFFICES ASSUME HeldBy(i, o)'
             PROVE  /\ i \in Ids(o) /\ o \in FirstBuys /\ buy'[o].pc # "start"
                    /\ Buying(o)' => claim'[i].live
                    /\ order'[o] # "none" /\ ~claim'[i].live =>
                         \A q \in Orders : Buying(q)' => o \in buy'[q].saw
  BY DEF HolderOf, Ids
<1>1. CASE Took(o, i)
  BY <1>1 DEF Took, Phases, PhaseOf, ForFirst
<1>2. CASE Lapse(o) /\ HeldBy(i, o)
  <2>1. /\ UNCHANGED <<order, buy>> /\ ~Buying(o)
        /\ \A q \in Orders : Buying(q) => o \in buy[q].saw
    BY <1>2, LapseEffect
  <2> QED BY <1>2, <2>1 DEF Rights, HolderOf, Buying
<1>3. CASE claim'[i] = claim[i]
  <2>1. /\ HeldBy(i, o) /\ i \in Ids(o) /\ o \in FirstBuys /\ buy[o].pc # "start"
        /\ Buying(o) => claim[i].live
        /\ order[o] # "none" /\ ~claim[i].live =>
             \A q \in Orders : Buying(q) => o \in buy[q].saw
    BY <1>3 DEF HeldBy, Rights, HolderOf
  <2>2. buy'[o].pc # "start"
    <3>1. CASE Buying(o)'
      BY <3>1 DEF Buying
    <3>2. CASE ~Buying(o)'
      BY <2>1, StartEffect, AskEffect, HoldEffect, RedeemEffect, HoldVoucherEffect,
         InsertEffect, FailsEffect, BuyerSteps
    <3> QED BY <3>1, <3>2
  <2>3. Buying(o)' => claim'[i].live
    BY <1>3, <2>1, SawSteps
  <2>4. ASSUME order'[o] # "none", ~claim'[i].live, NEW q \in Orders, Buying(q)'
        PROVE  o \in buy'[q].saw
    <3>1. order[o] # "none"
      <4>1. Insert(o) => Buying(o)
        BY DEF Insert, Buying
      <4> QED BY <1>3, <2>1, <2>4, <4>1, OrderSteps
    <3>2. CASE Buying(q) /\ buy'[q].saw = buy[q].saw
      BY <1>3, <2>1, <2>4, <3>1, <3>2
    <3>3. CASE buy'[q].saw = {x \in Orders : order[x] # "none"}
      BY <3>1, <3>3
    <3> QED BY <2>4, <3>2, <3>3, SawSteps
  <2> QED BY <2>1, <2>2, <2>3, <2>4
<1>4. ASSUME NEW x \in Orders, Took(x, i) \/ (Lapse(x) /\ HeldBy(i, x))
      PROVE  x = o
  BY <1>4, LapseEffect DEF Took, HeldBy
<1>5. claim'[i].state = "held"
  BY DEF HeldBy
<1>6. \/ claim'[i] = claim[i]
      \/ \E x \in Orders : Took(x, i) \/ (Lapse(x) /\ HeldBy(i, x))
  BY <1>5, ClaimSteps
<1>7. Took(o, i) \/ (Lapse(o) /\ HeldBy(i, o)) \/ claim'[i] = claim[i]
  BY <1>4, <1>6
<1> QED BY <1>1, <1>2, <1>3, <1>7

LEMMA KeptNext ==
  ASSUME TypeOK, Phases, Rights, [Next]_vars, NEW o \in Orders, NEW i \in Identities
  PROVE  KeptFor(o, i)'
<1> SUFFICES ASSUME Counts(o, i)'
             PROVE  HeldBy(i, o)' \/ claim'[i].state = "consumed"
  BY DEF KeptFor
<1>1. CASE Took(o, i)
  BY <1>1 DEF Took, HeldBy
<1>2. CASE Counts(o, i) /\ ~Took(o, i)
  <2>1. HeldBy(i, o) \/ claim[i].state = "consumed"
    BY <1>2 DEF Rights, KeptFor
  <2>2. CASE claim'[i] = claim[i]
    BY <2>1, <2>2 DEF HeldBy
  <2>3. ASSUME NEW x \in Orders, Took(x, i) PROVE FALSE
    BY <1>2, <2>3, TakesFromNobody DEF Took
  <2>4. ASSUME NEW x \in Orders, buy[x].pc = "rollback", HeldBy(i, x), UNCHANGED order
        PROVE  FALSE
    <3>1. x = o
      BY <2>1, <2>4 DEF HeldBy
    <3> QED BY <1>2, <2>4, <3>1 DEF Counts, Phases, PhaseOf, Whole, Alive, Buying
  <2>5. ASSUME NEW x \in Orders, move[x].pc = "claims", HeldBy(i, x),
               claim'[i].state = IF move[x].to = "used" THEN "consumed" ELSE "released"
        PROVE  claim'[i].state = "consumed"
    <3>1. x = o
      BY <2>1, <2>5 DEF HeldBy
    <3>2. Alive(o)
      BY <1>2, <2>5, <3>1 DEF Counts, Phases, PhaseOf, Buying, Whole
    <3> QED BY <2>5, <3>1, <3>2 DEF Phases, PhaseOf, AtWork, Alive
  <2>7. ASSUME NEW x \in Orders, back[x].pc = "claims", HeldBy(i, x) PROVE FALSE
    <3>1. x = o
      BY <2>1, <2>7 DEF HeldBy
    <3> QED BY <1>2, <2>7, <3>1 DEF Counts, Phases, PhaseOf, Buying, Whole
  <2>6. ASSUME NEW x \in Orders, Lapse(x) PROVE HeldBy(i, o)' \/ claim'[i].state = "consumed"
    BY <2>1, <2>6, LapseEffect DEF HeldBy
  <2> QED BY <2>2, <2>3, <2>4, <2>5, <2>6, <2>7, ClaimSteps
<1> QED BY <1>1, <1>2, CountSteps

LEMMA RightsNext == TypeOK /\ Phases /\ Rights /\ [Next]_vars => Rights'
<1> SUFFICES ASSUME TypeOK, Phases, Rights, [Next]_vars PROVE Rights'
  OBVIOUS
<1>1. PastQuote' /\ Shared'
  BY PastQuoteNext, SharedNext DEF Rights
<1>2. \A o \in Orders, i \in Identities : HolderOf(i, o)' /\ KeptFor(o, i)'
  BY HolderNext, KeptNext
<1> QED BY <1>1, <1>2 DEF Rights, Identities, Accounts

LEMMA RightsAlways == Spec => [](TypeOK /\ Phases /\ Rights)
  BY TypeInit, TypeNext, PhasesInit, PhasesNext, RightsInit, RightsNext, PTL DEF Spec

\* The right of a first purchase is given to one order at a time: of two orders
\* open or paid with the same account or phone number at most one has it,
\* although a claim may be taken once its lease has run out.  An order whose
\* claims were given back, by the sweep or a cancellation, is not counted,
\* renewed or paid as it may be.
THEOREM RightGivenOnce == Spec => []OneFirstPurchase
<1>1. Rights => OneFirstPurchase
  BY VoucherAssumption, IdsTyped DEF Rights, Shared, Counts, OneFirstPurchase, SameBuyer
<1> QED BY <1>1, RightsAlways, PTL

-----------------------------------------------------------------------------
(* The third layer: what a payment leaves behind. *)

LEMMA MoveSteps ==
  ASSUME TypeOK, [Next]_vars, NEW o \in Orders
  PROVE  \/ move'[o] = move[o]
         \/ /\ move'[o].pc = "flip" /\ move'[o].ids = Ids(o)
            /\ move'[o].rows = EntriesOf(o)
         \/ Flip(o) \/ MoveClaim(o) \/ MoveVoucher(o) \/ Record(o)
         \/ move'[o].pc = "idle" /\ crashes' = crashes + 1
<1>1. ASSUME NEW x \in Orders,
             \/ Start(x) \/ Asks(x) \/ HoldAccount(x) \/ HoldPhone(x)
             \/ RollbackAccount(x) \/ Lapse(x)
      PROVE  move' = move
  BY <1>1, AskEffect DEF Start, HoldAccount, HoldPhone, RollbackAccount, Lapse
<1>2. ASSUME NEW x \in Orders, Redeem(x) \/ HoldVoucher(x) \/ Insert(x)
      PROVE  \/ move'[o] = move[o]
             \/ /\ move'[o].pc = "flip" /\ move'[o].ids = Ids(o)
                /\ move'[o].rows = EntriesOf(o)
  <2>1. Fails(x) \/ move' = move
    BY <1>2 DEF Redeem, HoldVoucher, Insert
  <2> QED BY <2>1, FailsEffect
<1>3. ASSUME NEW x \in Orders, Settle(x)
      PROVE  \/ move'[o] = move[o]
             \/ /\ move'[o].pc = "flip" /\ move'[o].ids = Ids(o)
                /\ move'[o].rows = EntriesOf(o)
  BY <1>3, SettleEffect
<1>4. ASSUME NEW x \in Orders,
             Flip(x) \/ MoveClaim(x) \/ MoveVoucher(x) \/ Record(x)
      PROVE  x = o \/ move'[o] = move[o]
  BY <1>4, FlipEffect, MoveClaimEffect, MoveVoucherEffect, RecordEffect
<1>5. ASSUME NEW x \in Orders, BuyCrash(x) \/ MoveCrash(x)
      PROVE  \/ move'[o] = move[o]
             \/ move'[o].pc = "idle" /\ crashes' = crashes + 1
  BY <1>5, CrashEffect
<1>6. CASE UNCHANGED vars
  BY <1>6 DEF vars
<1>7. ASSUME NEW x \in Orders, Ends(x) PROVE move' = move
  BY <1>7, EndsEffect
<1> QED BY <1>1, <1>2, <1>3, <1>4, <1>5, <1>6, <1>7, Steps, SavesEffect

\* The same of those that give back.
LEMMA BackSteps ==
  ASSUME TypeOK, [Next]_vars, NEW o \in Orders
  PROVE  \/ back'[o] = back[o]
         \/ back'[o].pc = "flip"
         \/ BackFlip(o) \/ BackClaim(o) \/ BackVoucher(o)
         \/ back'[o].pc = "idle" /\ crashes' = crashes + 1
<1>1. ASSUME NEW x \in Orders, Gives(x)
      PROVE  back'[o] = back[o] \/ back'[o].pc = "flip"
  BY <1>1, GiveEffect
<1>2. ASSUME NEW x \in Orders, SweepFind(x) \/ Reopens(x) PROVE back' = back
  BY <1>2, FindEffect, ReopenEffect
<1>3. ASSUME NEW x \in Orders, BackFlip(x) \/ BackClaim(x) \/ BackVoucher(x)
      PROVE  x = o \/ back'[o] = back[o]
  BY <1>3, BackFlipEffect, BackClaimEffect, BackVoucherEffect
<1>4. ASSUME NEW x \in Orders, BackCrash(x)
      PROVE  \/ back'[o] = back[o]
             \/ back'[o].pc = "idle" /\ crashes' = crashes + 1
  BY <1>4, BackCrashEffect
<1>5. ASSUME NEW x \in Orders,
             \/ Start(x) \/ Asks(x) \/ HoldAccount(x) \/ HoldPhone(x)
             \/ RollbackAccount(x) \/ Redeem(x) \/ HoldVoucher(x) \/ Insert(x)
             \/ Settle(x) \/ Flip(x) \/ MoveClaim(x) \/ MoveVoucher(x)
             \/ Record(x) \/ Lapse(x) \/ BuyCrash(x) \/ MoveCrash(x)
      PROVE  back' = back
  BY <1>5, AskEffect
     DEF Start, HoldAccount, HoldPhone, RollbackAccount, Redeem, HoldVoucher, Insert,
         Settle, Flip, MoveClaim, MoveVoucher, Record, Lapse, BuyCrash, MoveCrash
<1>6. CASE UNCHANGED vars
  BY <1>6 DEF vars
<1> QED BY <1>1, <1>2, <1>3, <1>4, <1>5, <1>6, Steps, SavesEffect
        DEF Ends, Ending, Gives, Reopens

UsedUp(S) == \A i \in S : claim[i].state = "consumed"

\* The claims that the handler of a paid order has dealt with are used up; of
\* a stripped order only those that were recorded, which is a transfer.
SettledFor(o) ==
  order[o] = "paid" =>
    /\ move[o].pc = "claims" /\ o \in FirstBuys \ stripped =>
         UsedUp(Ids(o) \ move[o].ids)
    /\ move[o].pc \in {"wallet", "record", "done"} /\ o \in FirstBuys \ stripped =>
         UsedUp(Ids(o))
    /\ move[o].pc = "record" => UsedUp(Ids(o) \ move[o].ids)
    /\ move[o].pc = "done" /\ o \in Transfers => UsedUp(Ids(o))

Settled == \A o \in Orders : SettledFor(o)

LEMMA UsedUpStays ==
  ASSUME TypeOK, [Next]_vars, NEW S \in SUBSET Identities, UsedUp(S)
  PROVE  \A i \in S : claim'[i].state = "consumed"
<1> SUFFICES ASSUME NEW i \in S PROVE claim'[i].state = "consumed"
  OBVIOUS
<1>1. claim[i].state = "consumed" /\ i \in Identities
  BY DEF UsedUp
<1>2. \A o : ~HeldBy(i, o)
  BY <1>1 DEF HeldBy
<1>3. \A o \in Orders : ~Took(o, i)
  BY <1>1 DEF Took, Takes
<1> QED BY <1>1, <1>2, <1>3, ClaimSteps

LEMMA SettledNext ==
  ASSUME TypeOK, Phases, Rights, Settled, [Next]_vars, NEW o \in Orders
  PROVE  SettledFor(o)'
<1> DEFINE Used(S) == \A i \in S : claim'[i].state = "consumed"
<1> SUFFICES ASSUME order'[o] = "paid", move'[o].pc # "flip", move'[o].pc # "idle"
             PROVE  /\ move'[o].pc = "claims" /\ o \in FirstBuys \ stripped' =>
                         Used(Ids(o) \ move'[o].ids)
                    /\ /\ move'[o].pc \in {"wallet", "record", "done"}
                       /\ o \in FirstBuys \ stripped'
                       => Used(Ids(o))
                    /\ move'[o].pc = "record" => Used(Ids(o) \ move'[o].ids)
                    /\ move'[o].pc = "done" /\ o \in Transfers => Used(Ids(o))
  BY DEF SettledFor, UsedUp, Ids
<1>1. order[o] = "paid"
  <2>1. Settle(o) => move'[o].pc = "flip"
    BY SettleEffect
  <2> QED BY <2>1, OrderSteps
<1>2. Ids(o) \subseteq Identities /\ move[o].ids \subseteq Ids(o)
  BY IdsTyped DEF Phases, PhaseOf
<1>3. move[o].pc \in AtWork => move[o].to = "used"
  BY <1>1 DEF Phases, PhaseOf
<1>4. SettledFor(o)
  BY DEF Settled
<1>10. o \notin stripped' => o \notin stripped
  BY OrderSteps
<1>5. CASE move'[o] = move[o]
  BY <1>1, <1>2, <1>4, <1>5, <1>10, UsedUpStays DEF SettledFor
<1>6. CASE Flip(o)
  BY <1>2, <1>6, FlipEffect DEF Phases, PhaseOf
<1>7. CASE MoveClaim(o)
  <2> SUFFICES ASSUME o \in FirstBuys \ stripped
               PROVE  /\ move'[o].pc = "claims" => Used(Ids(o) \ move'[o].ids)
                      /\ move'[o].pc = "wallet" => Used(Ids(o))
    BY <1>7, <1>10, MoveClaimEffect
  <2>1. move[o].pc = "claims" /\ UsedUp(Ids(o) \ move[o].ids)
    BY <1>1, <1>4, <1>7, MoveClaimEffect DEF SettledFor
  <2>2. Used(Ids(o) \ move[o].ids)
    BY <1>2, <2>1, UsedUpStays
  <2>3. CASE move'[o].pc = "wallet"
    <3>1. move[o].ids = {}
      BY <1>7, <2>3, MoveClaimEffect
    <3> QED BY <1>2, <2>1, <2>3, <3>1, UsedUpStays
  <2>4. CASE move'[o].pc = "claims"
    <3>1. PICK i \in move[o].ids :
            /\ move'[o].ids = move[o].ids \ {i}
            /\ \A j \in Identities :
                 IF j # i \/ ~HeldBy(j, o) THEN claim'[j] = claim[j]
                 ELSE claim'[j].state = IF move[o].to = "used"
                                        THEN "consumed" ELSE "released"
      BY <1>7, <2>4, MoveClaimEffect
    <3>2. HeldBy(i, o) \/ claim[i].state = "consumed"
      BY <1>1, <1>2 DEF Rights, KeptFor, Counts, Whole, Alive
    <3>3. claim'[i].state = "consumed"
      BY <1>2, <1>3, <2>1, <3>1, <3>2 DEF AtWork
    <3>4. Used(Ids(o) \ move'[o].ids)
      BY <2>2, <3>1, <3>3
    <3> QED BY <2>4, <3>4
  <2> QED BY <1>7, <2>3, <2>4, MoveClaimEffect
<1>8. CASE MoveVoucher(o)
  <2>1. move[o].pc = "wallet"
    BY <1>8 DEF MoveVoucher
  <2>2. o \in FirstBuys \ stripped => Used(Ids(o))
    BY <1>1, <1>2, <1>4, <2>1, UsedUpStays DEF SettledFor
  <2>3. move[o] \in MoveLocals
    BY Ranges
  <2>4. CASE move'[o] = AfterWallet(o)
    BY <1>2, <1>3, <1>10, <2>1, <2>2, <2>3, <2>4
       DEF AfterWallet, NoMove, MoveLocals, AtWork
  <2>5. CASE move'[o] # AfterWallet(o)
    BY <1>2, <1>8, <1>10, <2>2, <2>5, MoveVoucherEffect
  <2> QED BY <2>4, <2>5
<1>9. CASE Record(o)
  <2>1. move[o].pc = "record"
    BY <1>9 DEF Record
  <2>2. /\ o \in FirstBuys \ stripped => Used(Ids(o))
        /\ Used(Ids(o) \ move[o].ids)
    BY <1>1, <1>2, <1>4, <2>1, UsedUpStays DEF SettledFor
  <2>3. CASE move[o].ids = {} /\ move'[o] = NoMove
    <3>1. Used(Ids(o))
      BY <2>2, <2>3
    <3> QED BY <1>2, <2>3, <3>1 DEF NoMove
  <2>4. CASE move'[o].pc = "record"
    <3>1. PICK i \in Ids(o) : /\ move'[o].ids = move[o].ids \ {i}
                              /\ claim'[i].state = "consumed"
      BY <1>2, <1>9, <2>4, RecordEffect DEF NoMove
    <3>2. Used(Ids(o) \ move'[o].ids)
      BY <2>2, <3>1
    <3> QED BY <1>10, <2>2, <2>4, <3>2
  <2> QED BY <1>9, <2>3, <2>4, RecordEffect
<1> QED BY <1>5, <1>6, <1>7, <1>8, <1>9, MoveSteps

\* A buyer whose payment went through is not new again: both claims are used
\* up, and no later step of any order gives a used claim back.
THEOREM BuyersStayKnown == Spec => []NotNewAgain
<1>1. Init => Settled
  BY DEF Init, Settled, SettledFor
<1>2. TypeOK /\ Phases /\ Rights /\ Settled /\ [Next]_vars => Settled'
  BY SettledNext DEF Settled
<1>3. Phases /\ Settled => NotNewAgain
  BY DEF Phases, PhaseOf, Settled, SettledFor, UsedUp, NotNewAgain
<1> QED BY <1>1, <1>2, <1>3, RightsAlways, PTL DEF Spec

-----------------------------------------------------------------------------
(* The fourth layer: which entries of a wallet an order was given. *)

HeldFor(e, o) == entry[e].status = "held" /\ entry[e].o = o
GivenTo(e, o) == entry[e].status \in {"held", "used"} /\ entry[e].o = o

\* A checkout holds the vouchers it has passed, an order that is whole all of
\* its vouchers, held or used.
VouchersOf(o) ==
  /\ buy[o].pc = "start" => buy[o].i = 1
  /\ buy[o].pc = "wallet" =>
       /\ buy[o].i >= 1
       /\ \A j \in 1..Len(Vouchers[o]) : j < buy[o].i => HeldFor(EntryAt(o, j), o)
  /\ buy[o].pc = "insert" => \A e \in EntriesOf(o) : HeldFor(e, o)
  /\ Whole(o) => \A e \in EntriesOf(o) : GivenTo(e, o)

VouchersGiven == \A o \in Orders : VouchersOf(o)

\* What is held for an order stays so while its checkout runs, and what an
\* order that is whole was given stays given.
LEMMA EntrySteps ==
  ASSUME TypeOK, Phases, [Next]_vars, NEW o \in Orders, NEW e \in Entries
  PROVE  /\ HeldFor(e, o) /\ Buying(o) => HeldFor(e, o)'
         /\ GivenTo(e, o) /\ Whole(o) => GivenTo(e, o)'
<1> USE DEF HeldFor, GivenTo
<1>1. ASSUME NEW q \in Orders, HoldVoucher(q)
      PROVE  GivenTo(e, o) => entry'[e] = entry[e]
  <2> DEFINE d == EntryAt(q, buy[q].i)
  <2>1. \/ UNCHANGED entry
        \/ /\ Usable(d) /\ entry' = [entry EXCEPT ![d].status = "held", ![d].o = q]
    BY <1>1, HoldVoucherEffect
  <2> HIDE DEF d
  <2> QED BY <2>1 DEF Usable, TypeOK
<1>2. ASSUME NEW q \in Orders, MoveVoucher(q)
      PROVE  \/ entry'[e] = entry[e]
             \/ /\ HeldFor(e, q) /\ move[q].pc = "wallet"
                /\ move[q].to = "used" => GivenTo(e, q)'
  BY <1>2, MoveVoucherEffect
<1>3. ASSUME NEW k \in Saves, Saving(k) \/ SaveCrash(k)
      PROVE  GivenTo(e, o) => entry'[e] = entry[e]
  <2>1. \/ UNCHANGED entry
        \/ /\ entry[Kept(k)].status \in {"none", "saved"}
           /\ \A d \in Entries \ {Kept(k)} : entry'[d] = entry[d]
    BY <1>3 DEF Saving, SaveFind, SaveSlot, SaveDraw, SaveInsert, SaveOpen, SaveCrash,
                TypeOK
  <2> QED BY <2>1
<1>4. ASSUME NEW q \in Orders,
             \/ Start(q) \/ Asks(q) \/ HoldAccount(q) \/ HoldPhone(q)
             \/ RollbackAccount(q) \/ Redeem(q) \/ Insert(q) \/ Settle(q) \/ Flip(q)
             \/ MoveClaim(q) \/ Record(q) \/ Lapse(q) \/ BuyCrash(q) \/ MoveCrash(q)
      PROVE  entry' = entry
  BY <1>4, AskEffect DEF Start, HoldAccount, HoldPhone, RollbackAccount, Redeem,
     Insert, Settle, Flip, MoveClaim, Record, Lapse, BuyCrash, MoveCrash
<1>5. ASSUME UNCHANGED vars PROVE entry' = entry
  BY <1>5 DEF vars
<1>12. ASSUME NEW q \in Orders, Ends(q)
       PROVE  entry'[e] = entry[e] \/ (HeldFor(e, q) /\ back[q].pc = "wallet")
  BY <1>12, EndsEffect, BackVoucherEffect
<1>6. ASSUME GivenTo(e, o)
      PROVE  \/ entry'[e] = entry[e]
             \/ /\ HeldFor(e, o) /\ move[o].pc = "wallet"
                /\ move[o].to = "used" => GivenTo(e, o)'
             \/ back[o].pc = "wallet"
  BY <1>1, <1>2, <1>3, <1>4, <1>5, <1>6, <1>12, Steps
<1>7. Buying(o) => move[o].pc # "wallet" /\ back[o].pc # "wallet"
  BY DEF Phases, PhaseOf
<1>8. Whole(o) => /\ move[o].pc = "wallet" => move[o].to = "used"
                  /\ back[o].pc # "wallet"
  BY DEF Phases, PhaseOf, AtWork, Whole, Alive
<1>9. HeldFor(e, o) => GivenTo(e, o)
  OBVIOUS
<1>10. HeldFor(e, o) /\ Buying(o) => HeldFor(e, o)'
  BY <1>6, <1>7, <1>9
<1>11. GivenTo(e, o) /\ Whole(o) => GivenTo(e, o)'
  BY <1>6, <1>8
<1> QED BY <1>10, <1>11

LEMMA VouchersNext ==
  ASSUME TypeOK, Phases, VouchersGiven, [Next]_vars, NEW o \in Orders
  PROVE  VouchersOf(o)'
<1>1. VouchersOf(o) /\ EntriesOf(o)' = EntriesOf(o)
  BY DEF VouchersGiven, EntriesOf, EntryAt
<1>2. /\ EntriesOf(o) \subseteq Entries
      /\ \A j \in 1..Len(Vouchers[o]) : EntryAt(o, j) \in Entries
  BY EntriesTyped
<1>3. /\ buy[o].i \in Nat /\ Len(Vouchers[o]) \in Nat
  BY Ranges, VoucherAssumption DEF BuyLocals
<1>4. buy'[o].pc = "start" => buy'[o].i = 1
  <2>1. ASSUME buy'[o].pc = "start" PROVE buy'[o] = buy[o]
    BY <2>1, StartEffect, AskEffect, HoldEffect, RedeemEffect, HoldVoucherEffect,
       InsertEffect, FailsEffect, BuyerSteps
  <2> QED BY <1>1, <2>1 DEF VouchersOf
<1>5. ASSUME buy'[o].pc = "wallet"
      PROVE  /\ buy'[o].i >= 1
             /\ \A j \in 1..Len(Vouchers[o]) : j < buy'[o].i => HeldFor(EntryAt(o, j), o)'
  <2>1. CASE buy'[o] = buy[o]
    BY <1>1, <1>2, <1>5, <2>1, EntrySteps DEF VouchersOf, Buying
  <2>2. CASE Start(o) \/ (Redeem(o) /\ ~Fails(o))
    <3>1. buy'[o].i = 1
      BY <1>1, <2>2, StartEffect, RedeemEffect DEF VouchersOf
    <3> QED BY <1>3, <3>1
  <2>3. CASE HoldVoucher(o)
    <3> DEFINE i == buy[o].i
               e == EntryAt(o, i)
    <3>1. /\ buy[o].pc = "wallet" /\ ~(i > Len(Vouchers[o]))
          /\ entry' = [entry EXCEPT ![e].status = "held", ![e].o = o]
          /\ buy'[o].i = i + 1
      BY <1>5, <2>3, HoldVoucherEffect, FailsEffect
    <3>2. i >= 1 /\ \A j \in 1..Len(Vouchers[o]) : j < i => HeldFor(EntryAt(o, j), o)'
      BY <1>1, <1>2, <3>1, EntrySteps DEF VouchersOf, Buying
    <3>3. i \in 1..Len(Vouchers[o])
      BY <1>3, <3>1, <3>2
    <3>4. entry'[e].status = "held" /\ entry'[e].o = o
      <4>1. e \in Entries
        BY <1>2, <3>3
      <4> HIDE DEF e
      <4> QED BY <3>1, <4>1, EntryWritten
    <3>5. ASSUME NEW j \in 1..Len(Vouchers[o]), j < i + 1
          PROVE  HeldFor(EntryAt(o, j), o)'
      <4>1. j < i \/ j = i
        BY <1>3, <3>5
      <4>2. j = i => HeldFor(EntryAt(o, j), o)'
        BY <3>4 DEF HeldFor, EntryAt
      <4> QED BY <3>2, <4>1, <4>2
    <3> QED BY <1>3, <3>1, <3>2, <3>5
  <2>4. \/ buy'[o] = buy[o] \/ Start(o)
        \/ (Redeem(o) /\ ~Fails(o)) \/ HoldVoucher(o)
    BY <1>5, AskEffect, HoldEffect, InsertEffect, FailsEffect, BuyerSteps
  <2> QED BY <2>1, <2>2, <2>3, <2>4
<1>6. ASSUME buy'[o].pc = "insert" PROVE \A e \in EntriesOf(o) : HeldFor(e, o)'
  <2>1. CASE buy'[o] = buy[o]
    BY <1>1, <1>2, <1>6, <2>1, EntrySteps DEF VouchersOf, Buying
  <2>2. CASE HoldVoucher(o)
    <3>1. buy[o].pc = "wallet" /\ buy[o].i > Len(Vouchers[o])
      BY <1>6, <2>2, HoldVoucherEffect, FailsEffect
    <3>2. \A j \in 1..Len(Vouchers[o]) : HeldFor(EntryAt(o, j), o)'
      BY <1>1, <1>2, <1>3, <3>1, EntrySteps DEF VouchersOf, Buying
    <3> QED BY <3>2, EntriesTyped
  <2>3. buy'[o] = buy[o] \/ HoldVoucher(o)
    BY <1>6, StartEffect, AskEffect, HoldEffect, RedeemEffect, InsertEffect,
       FailsEffect, BuyerSteps
  <2> QED BY <2>1, <2>2, <2>3
<1>7. ASSUME Whole(o)' PROVE \A e \in EntriesOf(o) : GivenTo(e, o)'
  <2>1. CASE Whole(o)
    BY <1>1, <1>2, <2>1, EntrySteps DEF VouchersOf
  <2>2. CASE Insert(o)
    <3>1. CASE Fails(o) /\ UNCHANGED order
      BY <1>7, <2>2, <3>1, InsertEffect DEF Phases, PhaseOf, Buying, Whole, Alive
    <3>2. CASE ~(Fails(o) /\ UNCHANGED order)
      <4>1. buy[o].pc = "insert" /\ UNCHANGED entry
        BY <2>2, InsertEffect
      <4> QED BY <1>1, <4>1 DEF VouchersOf, HeldFor, GivenTo
    <3> QED BY <3>1, <3>2
  <2> QED BY <1>7, <2>1, <2>2, OrderSteps
<1> QED BY <1>1, <1>4, <1>5, <1>6, <1>7 DEF VouchersOf, EntryAt

\* A voucher of the wallet serves one order at a time, unless the sweep or a
\* cancellation gave it back and the order is renewed or paid all the same.
THEOREM VouchersSpentOnce == Spec => []VoucherSpentOnce
<1>1. Init => VouchersGiven
  BY DEF Init, VouchersGiven, VouchersOf, Whole, Alive
<1>2. TypeOK /\ Phases /\ VouchersGiven /\ [Next]_vars => VouchersGiven'
  BY VouchersNext DEF VouchersGiven
<1>3. VouchersGiven => VoucherSpentOnce
  BY DEF VouchersGiven, VouchersOf, GivenTo, VoucherSpentOnce
<1> QED BY <1>1, <1>2, <1>3, RightsAlways, PTL DEF Spec

-----------------------------------------------------------------------------
(* The fifth layer: what an order that is not alive still has to give back. *)

\* While no handler has died, what such an order holds is in the hands of its
\* checkout or of the handler that gives it back.
OwedBy(o) ==
  crashes = 0 /\ ~Alive(o) =>
    /\ \A i \in Ids(o) : HeldBy(i, o) =>
         \/ buy[o].pc \in {"phone", "rollback"} /\ i = Account[o]
         \/ buy[o].pc \in {"redeem", "wallet", "insert"}
         \/ move[o].pc = "flip"
         \/ move[o].pc = "claims" /\ i \in move[o].ids
         \/ back[o].pc = "flip"
         \/ back[o].pc = "claims" /\ i \in back[o].ids
    /\ redemption[o] = "held" =>
         \/ buy[o].pc \in {"wallet", "insert"}
         \/ move[o].pc = "flip" \/ back[o].pc = "flip"
    /\ \A e \in EntriesOf(o) : HeldFor(e, o) =>
         \/ buy[o].pc \in {"wallet", "insert"}
         \/ move[o].pc \in {"flip", "claims"}
         \/ move[o].pc = "wallet" /\ e \in move[o].rows
         \/ back[o].pc \in {"flip", "claims"}
         \/ back[o].pc = "wallet" /\ e \in back[o].rows

NothingLeft == \A o \in Orders : OwedBy(o)

LEMMA CrashSteps ==
  ASSUME TypeOK, [Next]_vars
  PROVE  crashes' = crashes \/ crashes' = crashes + 1
<1>1. ASSUME NEW o \in Orders,
             \/ Start(o) \/ HoldAccount(o) \/ HoldPhone(o) \/ RollbackAccount(o)
             \/ Redeem(o) \/ HoldVoucher(o) \/ Insert(o) \/ Settle(o) \/ Flip(o)
             \/ MoveClaim(o) \/ MoveVoucher(o) \/ Record(o) \/ Lapse(o)
             \/ BuyCrash(o) \/ MoveCrash(o)
      PROVE  crashes' = crashes \/ crashes' = crashes + 1
  BY <1>1 DEF Start, HoldAccount, HoldPhone, RollbackAccount, Redeem, HoldVoucher,
     Insert, Settle, Flip, MoveClaim, MoveVoucher, Record, Lapse, BuyCrash, MoveCrash, Dies
<1>2. ASSUME NEW k \in Saves, Saving(k) \/ SaveCrash(k)
      PROVE  crashes' = crashes \/ crashes' = crashes + 1
  BY <1>2 DEF Saving, SaveFind, SaveSlot, SaveDraw, SaveInsert, SaveOpen, SaveCrash, Dies
<1>3. UNCHANGED vars => crashes' = crashes
  BY DEF vars
<1> QED BY <1>1, <1>2, <1>3, Steps, AskEffect, EndsEffect

LEMMA RedemptionSteps ==
  ASSUME TypeOK, [Next]_vars, NEW o \in Orders, redemption'[o] = "held"
  PROVE  redemption[o] = "held" \/ buy'[o].pc = "wallet"
<1>1. ASSUME NEW x \in Orders, Redeem(x)
      PROVE  redemption'[o] = redemption[o] \/ buy'[o].pc = "wallet"
  BY <1>1, RedeemEffect
<1>2. ASSUME NEW x \in Orders, Flip(x)
      PROVE  redemption[o] = "held"
  <2>1. move[x] \in MoveLocals
    BY Ranges
  <2> QED BY <1>2, <2>1, FlipEffect DEF MoveLocals
<1>3. ASSUME NEW x \in Orders,
             \/ Start(x) \/ HoldAccount(x) \/ HoldPhone(x) \/ RollbackAccount(x)
             \/ HoldVoucher(x) \/ Insert(x) \/ Settle(x) \/ MoveClaim(x)
             \/ MoveVoucher(x) \/ Record(x) \/ Lapse(x) \/ BuyCrash(x) \/ MoveCrash(x)
      PROVE  redemption' = redemption
  BY <1>3 DEF Start, HoldAccount, HoldPhone, RollbackAccount, HoldVoucher, Insert,
     Settle, MoveClaim, MoveVoucher, Record, Lapse, BuyCrash, MoveCrash
<1>4. UNCHANGED vars => redemption' = redemption
  BY DEF vars
<1>5. ASSUME NEW x \in Orders, Ends(x) PROVE redemption[o] = "held"
  BY <1>5, EndsEffect, BackFlipEffect
<1> QED BY <1>1, <1>2, <1>3, <1>4, <1>5, Steps, AskEffect, SavesEffect

LEMMA HeldEntrySteps ==
  ASSUME TypeOK, [Next]_vars, NEW o \in Orders, NEW e \in Entries, HeldFor(e, o)'
  PROVE  \/ HeldFor(e, o) /\ entry'[e] = entry[e]
         \/ buy'[o].pc = "wallet"
<1>0. entry'[e].status = "held" /\ entry'[e].o = o
  BY DEF HeldFor
<1>1. ASSUME NEW q \in Orders, HoldVoucher(q)
      PROVE  entry'[e] = entry[e] \/ buy'[o].pc = "wallet"
  <2> DEFINE d == EntryAt(q, buy[q].i)
  <2>1. CASE UNCHANGED entry
    BY <2>1
  <2>2. CASE ~UNCHANGED entry
    <3>1. entry' = [entry EXCEPT ![d].status = "held", ![d].o = q] /\ buy'[q].pc = "wallet"
      BY <1>1, <2>2, HoldVoucherEffect
    <3> HIDE DEF d
    <3>2. d = e => entry'[e].o = q
      BY <3>1, EntryWritten
    <3>3. d # e => entry'[e] = entry[e]
      BY <3>1 DEF TypeOK
    <3> QED BY <1>0, <3>1, <3>2, <3>3
  <2> QED BY <2>1, <2>2
<1>2. ASSUME NEW q \in Orders, MoveVoucher(q)
      PROVE  entry'[e] = entry[e]
  BY <1>0, <1>2, MoveVoucherEffect
<1>3. ASSUME NEW k \in Saves, Saving(k) \/ SaveCrash(k)
      PROVE  entry'[e] = entry[e]
  <2>1. \/ UNCHANGED entry
        \/ /\ entry'[Kept(k)].status = "saved"
           /\ \A d \in Entries \ {Kept(k)} : entry'[d] = entry[d]
    <3>1. entry \in [Entries -> Entry] /\ Kept(k) \in Entries
      BY KeptTyped DEF TypeOK
    <3>2. CASE SaveInsert(k)
      BY <3>1, <3>2 DEF SaveInsert
    <3>3. CASE SaveOpen(k)
      <4>1. CASE UNCHANGED entry
        BY <4>1
      <4>2. CASE entry' = [entry EXCEPT ![Kept(k)].tier = save[k].tier]
        <5>1. entry[Kept(k)].status = "saved" \/ UNCHANGED entry
          BY <3>3 DEF SaveOpen
        <5> QED BY <3>1, <4>2, <5>1 DEF Entry
      <4> QED BY <3>3, <4>1, <4>2 DEF SaveOpen
    <3>4. CASE SaveFind(k) \/ SaveSlot(k) \/ SaveDraw(k) \/ SaveCrash(k)
      BY <3>4 DEF SaveFind, SaveSlot, SaveDraw, SaveCrash
    <3> QED BY <1>3, <3>2, <3>3, <3>4 DEF Saving
  <2> QED BY <1>0, <2>1
<1>4. ASSUME NEW q \in Orders,
             \/ Start(q) \/ HoldAccount(q) \/ HoldPhone(q)
             \/ RollbackAccount(q) \/ Redeem(q) \/ Insert(q) \/ Settle(q) \/ Flip(q)
             \/ MoveClaim(q) \/ Record(q) \/ Lapse(q) \/ BuyCrash(q) \/ MoveCrash(q)
      PROVE  entry' = entry
  BY <1>4 DEF Start, HoldAccount, HoldPhone, RollbackAccount, Redeem,
     Insert, Settle, Flip, MoveClaim, Record, Lapse, BuyCrash, MoveCrash
<1>5. UNCHANGED vars => entry' = entry
  BY DEF vars
<1>7. ASSUME NEW q \in Orders, Ends(q)
      PROVE  entry'[e] = entry[e]
  BY <1>0, <1>7, EndsEffect, BackVoucherEffect
<1>6. entry'[e] = entry[e] \/ buy'[o].pc = "wallet"
  BY <1>1, <1>2, <1>3, <1>4, <1>5, <1>7, Steps, AskEffect
<1> QED BY <1>0, <1>6 DEF HeldFor

LEMMA OwedNext ==
  ASSUME TypeOK, Phases, Rights, NothingLeft, [Next]_vars, NEW o \in Orders
  PROVE  OwedBy(o)'
<1> SUFFICES ASSUME crashes' = 0, ~Alive(o)', move'[o].pc # "flip",
                    back'[o].pc # "flip"
             PROVE  OwedBy(o)'
  BY DEF OwedBy
<1>1. crashes = 0 /\ crashes' # crashes + 1
  BY CrashSteps DEF TypeOK
<1>2. ~Alive(o)
  BY OrderSteps
<1>3. OwedBy(o) /\ move[o].ids \subseteq Ids(o) /\ back[o].ids \subseteq Ids(o)
      /\ Ids(o) \subseteq Identities
      /\ EntriesOf(o) \subseteq Entries
  BY IdsTyped, EntriesTyped DEF NothingLeft, Phases, PhaseOf
<1>4. ASSUME NEW i \in Ids(o), HeldBy(i, o)'
      PROVE  \/ buy'[o].pc \in {"phone", "rollback"} /\ i = Account[o]
             \/ buy'[o].pc \in {"redeem", "wallet", "insert"}
             \/ move'[o].pc = "claims" /\ i \in move'[o].ids
             \/ back'[o].pc = "claims" /\ i \in back'[o].ids
  <2>0. claim'[i].state = "held" /\ claim'[i].o = o
    BY <1>4 DEF HeldBy
  <2>1. CASE Took(o, i)
    BY <2>1 DEF Took
  <2>2. CASE HeldBy(i, o)
    <3>1. CASE buy[o].pc \in {"phone", "rollback"} /\ i = Account[o]
      <4>1. CASE RollbackAccount(o)
        BY <1>3, <2>0, <2>2, <3>1, <4>1, RollbackEffect
      <4>2. CASE HoldAccount(o) \/ HoldPhone(o)
        BY <3>1, <4>2, HoldEffect
      <4> QED BY <1>1, <3>1, <4>1, <4>2, StartEffect, AskEffect, RedeemEffect,
                 HoldVoucherEffect, InsertEffect, BuyerSteps DEF Quote
    <3>2. CASE buy[o].pc \in {"redeem", "wallet", "insert"}
      <4>1. ~Fails(o)
        BY FailsEffect
      <4>2. ~Insert(o) \/ Fails(o)
        BY InsertEffect DEF Alive
      <4> QED BY <1>1, <3>2, <4>1, <4>2, StartEffect, AskEffect, HoldEffect,
                 RedeemEffect, HoldVoucherEffect, BuyerSteps DEF Quote
    <3>3. CASE move[o].pc = "flip"
      <4>1. move[o].ids = Ids(o)
        BY <3>3 DEF Phases, PhaseOf
      <4> QED BY <1>1, <3>3, <4>1, FlipEffect, MoveClaimEffect, MoveVoucherEffect,
                 RecordEffect, MoveSteps
    <3>4. CASE move[o].pc = "claims" /\ i \in move[o].ids
      <4>1. CASE move'[o] = move[o]
        BY <3>4, <4>1
      <4>2. CASE MoveClaim(o)
        <5>1. PICK x \in move[o].ids :
                /\ move'[o].pc = "claims" /\ move'[o].ids = move[o].ids \ {x}
                /\ \A j \in Identities :
                     IF j # x \/ ~HeldBy(j, o) THEN claim'[j] = claim[j]
                     ELSE claim'[j].state = IF move[o].to = "used"
                                            THEN "consumed" ELSE "released"
          BY <3>4, <4>2, MoveClaimEffect
        <5>2. x # i
          BY <1>3, <2>0, <2>2, <5>1
        <5> QED BY <3>4, <5>1, <5>2
      <4> QED BY <1>1, <3>4, <4>1, <4>2, FlipEffect, MoveVoucherEffect,
                 RecordEffect, MoveSteps
    <3>5. CASE back[o].pc = "flip"
      <4>1. back[o].ids = Ids(o)
        BY <3>5 DEF Phases, PhaseOf
      <4> QED BY <1>1, <3>5, <4>1, BackFlipEffect, BackClaimEffect, BackVoucherEffect,
                 BackSteps
    <3>6. CASE back[o].pc = "claims" /\ i \in back[o].ids
      <4>1. CASE back'[o] = back[o]
        BY <3>6, <4>1
      <4>2. CASE BackClaim(o)
        <5>1. PICK x \in back[o].ids :
                /\ back'[o].pc = "claims" /\ back'[o].ids = back[o].ids \ {x}
                /\ \A j \in Identities :
                     IF j # x \/ ~HeldBy(j, o) THEN claim'[j] = claim[j]
                     ELSE claim'[j].state = "released"
          BY <3>6, <4>2, BackClaimEffect
        <5>2. x # i
          BY <1>3, <2>0, <2>2, <5>1
        <5> QED BY <3>6, <5>1, <5>2
      <4> QED BY <1>1, <3>6, <4>1, <4>2, BackFlipEffect, BackVoucherEffect, BackSteps
    <3> QED BY <1>1, <1>2, <1>3, <2>2, <3>1, <3>2, <3>3, <3>4, <3>5, <3>6 DEF OwedBy
  <2>3. Took(o, i) \/ HeldBy(i, o)
    <3>1. ASSUME NEW x \in Orders, Took(x, i) PROVE x = o
      BY <2>0, <3>1 DEF Took
    <3>2. ASSUME NEW x \in Orders, Lapse(x) PROVE HeldBy(i, o)
      BY <1>3, <2>0, <3>2, LapseEffect DEF HeldBy
    <3>3. claim'[i] = claim[i] => HeldBy(i, o)
      BY <2>0 DEF HeldBy
    <3>4. i \in Identities
      BY <1>3
    <3> QED BY <2>0, <3>1, <3>2, <3>3, <3>4, ClaimSteps
  <2> QED BY <2>1, <2>2, <2>3
<1>5. ASSUME redemption'[o] = "held"
      PROVE  buy'[o].pc \in {"wallet", "insert"}
  <2>1. CASE redemption[o] = "held"
    <3>1. CASE buy[o].pc \in {"wallet", "insert"}
      <4>1. ~Fails(o)
        BY FailsEffect
      <4>2. ~Insert(o) \/ Fails(o)
        BY InsertEffect DEF Alive
      <4> QED BY <1>1, <3>1, <4>1, <4>2, StartEffect, AskEffect, HoldEffect,
                 RedeemEffect, HoldVoucherEffect, BuyerSteps DEF Quote
    <3>2. CASE move[o].pc = "flip"
      <4>1. Flip(o)
        BY <1>1, <3>2, MoveClaimEffect, MoveVoucherEffect, RecordEffect, MoveSteps
      <4>2. move[o].to = "released"
        BY <1>2, <3>2 DEF Phases, PhaseOf, AtWork, Alive
      <4> QED BY <1>5, <2>1, <4>1, <4>2, FlipEffect
    <3>3. CASE back[o].pc = "flip"
      <4>1. BackFlip(o)
        BY <1>1, <3>3, BackClaimEffect, BackVoucherEffect, BackSteps
      <4> QED BY <1>5, <2>1, <4>1, BackFlipEffect
    <3> QED BY <1>1, <1>2, <1>3, <2>1, <3>1, <3>2, <3>3 DEF OwedBy
  <2> QED BY <1>5, <2>1, RedemptionSteps
<1>6. ASSUME NEW e \in EntriesOf(o), HeldFor(e, o)'
      PROVE  \/ buy'[o].pc \in {"wallet", "insert"}
             \/ move'[o].pc = "claims"
             \/ move'[o].pc = "wallet" /\ e \in move'[o].rows
             \/ back'[o].pc = "claims"
             \/ back'[o].pc = "wallet" /\ e \in back'[o].rows
  <2>1. CASE HeldFor(e, o) /\ entry'[e] = entry[e]
    <3>1. CASE buy[o].pc \in {"wallet", "insert"}
      <4>1. ~Fails(o)
        BY FailsEffect
      <4>2. ~Insert(o) \/ Fails(o)
        BY InsertEffect DEF Alive
      <4> QED BY <1>1, <3>1, <4>1, <4>2, StartEffect, AskEffect, HoldEffect,
                 RedeemEffect, HoldVoucherEffect, BuyerSteps DEF Quote
    <3>2. CASE move[o].pc \in {"flip", "claims"}
      <4>1. move[o].rows = EntriesOf(o)
        BY <3>2 DEF Phases, PhaseOf
      <4> QED BY <1>1, <3>2, <4>1, FlipEffect, MoveClaimEffect, MoveVoucherEffect,
                 RecordEffect, MoveSteps
    <3>3. CASE move[o].pc = "wallet" /\ e \in move[o].rows
      <4>1. CASE move'[o] = move[o]
        BY <3>3, <4>1
      <4>2. CASE MoveVoucher(o)
        <5>1. PICK x \in move[o].rows :
                /\ x \in Entries /\ move'[o].pc = "wallet"
                /\ move'[o].rows = move[o].rows \ {x}
                /\ entry[x].status = "held" /\ entry[x].o = o =>
                     IF move[o].to = "used"
                     THEN entry'[x].status = "used" /\ entry'[x].o = o
                     ELSE entry'[x].status \in {"saved", "expired"}
          BY <3>3, <4>2, MoveVoucherEffect
        <5>2. x # e
          BY <1>6, <2>1, <5>1 DEF HeldFor
        <5> QED BY <3>3, <5>1, <5>2
      <4> QED BY <1>1, <3>3, <4>1, <4>2, FlipEffect, MoveClaimEffect,
                 RecordEffect, MoveSteps
    <3>4. CASE back[o].pc \in {"flip", "claims"}
      <4>1. back[o].rows = EntriesOf(o)
        BY <3>4 DEF Phases, PhaseOf
      <4> QED BY <1>1, <3>4, <4>1, BackFlipEffect, BackClaimEffect, BackVoucherEffect,
                 BackSteps
    <3>5. CASE back[o].pc = "wallet" /\ e \in back[o].rows
      <4>1. CASE back'[o] = back[o]
        BY <3>5, <4>1
      <4>2. CASE BackVoucher(o)
        <5>1. PICK x \in back[o].rows :
                /\ x \in Entries /\ back'[o].pc = "wallet"
                /\ back'[o].rows = back[o].rows \ {x}
                /\ entry[x].status = "held" /\ entry[x].o = o =>
                     entry'[x].status \in {"saved", "expired"}
          BY <3>5, <4>2, BackVoucherEffect
        <5>2. x # e
          BY <1>6, <2>1, <5>1 DEF HeldFor
        <5> QED BY <3>5, <5>1, <5>2
      <4> QED BY <1>1, <3>5, <4>1, <4>2, BackFlipEffect, BackClaimEffect, BackSteps
    <3> QED BY <1>1, <1>2, <1>3, <2>1, <3>1, <3>2, <3>3, <3>4, <3>5 DEF OwedBy
  <2> QED BY <1>3, <1>6, <2>1, HeldEntrySteps
<1> QED BY <1>4, <1>5, <1>6 DEF OwedBy, Ids, EntriesOf, EntryAt

\* Both claims or none: while no handler has died, an order that nobody works
\* on holds nothing unless it is alive, and then, if nothing of it was given
\* back meanwhile, has all it counts on.
THEOREM ClaimsTogether == Spec => []AllOrNothing
<1>1. Init => NothingLeft
  BY IdsTyped, EntriesTyped DEF Init, NothingLeft, OwedBy, HeldBy, HeldFor
<1>2. TypeOK /\ Phases /\ Rights /\ NothingLeft /\ [Next]_vars => NothingLeft'
  BY OwedNext DEF NothingLeft
<1>3. TypeOK /\ Phases /\ Rights /\ NothingLeft => AllOrNothing
  <2> SUFFICES ASSUME TypeOK, Rights, NothingLeft, NEW o \in Orders,
                      crashes = 0, Idle(o)
               PROVE  /\ ~Alive(o) => ~HoldsSomething(o)
                      /\ order[o] = "open" /\ o \in FirstBuys \ stripped =>
                           \A i \in Ids(o) : HeldBy(i, o) \/ claim[i].state = "consumed"
    BY DEF AllOrNothing
  <2>1. ~Alive(o) => ~HoldsSomething(o)
    BY DEF NothingLeft, OwedBy, Idle, Buying, HoldsSomething, HeldFor
  <2>2. order[o] = "open" /\ o \in FirstBuys \ stripped =>
          \A i \in Ids(o) : HeldBy(i, o) \/ claim[i].state = "consumed"
    BY IdsTyped DEF Rights, KeptFor, Counts, Whole, Alive
  <2> QED BY <2>1, <2>2
<1> QED BY <1>1, <1>2, <1>3, RightsAlways, PTL DEF Spec

-----------------------------------------------------------------------------
(* The vouchers saved: the counters cover the entries and the saves at work. *)

LEMMA OneElement ==
  ASSUME NEW S, NEW T, NEW x, IsFiniteSet(S), IsFiniteSet(T), S \ {x} = T \ {x}
  PROVE  /\ Cardinality(S) \in Nat /\ Cardinality(T) \in Nat
         /\ Cardinality(T) = Cardinality(S) + (IF x \in T THEN 1 ELSE 0)
                                            - (IF x \in S THEN 1 ELSE 0)
<1> DEFINE B == S \ {x}
<1>1. IsFiniteSet(B) /\ x \notin B
  BY FS_Subset
<1>2. Cardinality(B) \in Nat
  BY <1>1, FS_CardinalityType
<1>3. /\ x \in S => S = B \cup {x}
      /\ x \notin S => S = B
      /\ x \in T => T = B \cup {x}
      /\ x \notin T => T = B
  OBVIOUS
<1> HIDE DEF B
<1>4. Cardinality(B \cup {x}) = Cardinality(B) + 1
  BY <1>1, FS_AddElement
<1>5. Cardinality(S) = IF x \in S THEN Cardinality(B) + 1 ELSE Cardinality(B)
  <2>1. CASE x \in S
    BY <1>3, <1>4, <2>1
  <2>2. CASE x \notin S
    BY <1>3, <2>2
  <2> QED BY <2>1, <2>2
<1>6. Cardinality(T) = IF x \in T THEN Cardinality(B) + 1 ELSE Cardinality(B)
  <2>1. CASE x \in T
    BY <1>3, <1>4, <2>1
  <2>2. CASE x \notin T
    BY <1>3, <2>2
  <2> QED BY <2>1, <2>2
<1> QED BY <1>2, <1>5, <1>6

\* Saves that reserved a slot of the voucher and have not saved it yet, and
\* those that have drawn from the tier.
SlotsOf(p) == {k \in Saves : Wanted[k] = p /\ save[k].pc \in {"draw", "insert"}}
DrawsOf(p, t) ==
  {k \in Saves : /\ Wanted[k] = p /\ save[k].pc \in {"open", "insert"}
                 /\ save[k].tier = t}

CountedFor(p) ==
  /\ Cardinality(SavedOf(p)) + Cardinality(SlotsOf(p)) <= promo[p].claimed
  /\ promo[p].claimed <= SaveLimit[p]
  /\ crashes = 0 =>
       Cardinality(SavedOf(p)) + Cardinality(SlotsOf(p)) = promo[p].claimed

TierCounted(p, t) ==
  /\ Cardinality(DrawnOf(p, t)) + Cardinality(DrawsOf(p, t)) + promo[p].left[t]
       <= TierLimit[p][t]
  /\ crashes = 0 =>
       Cardinality(DrawnOf(p, t)) + Cardinality(DrawsOf(p, t)) + promo[p].left[t]
         = TierLimit[p][t]

Counted == \A p \in Promos : CountedFor(p) /\ \A t \in Tiers : TierCounted(p, t)

LEMMA CountsFinite ==
  ASSUME NEW p, NEW t
  PROVE  /\ IsFiniteSet(SavedOf(p)) /\ IsFiniteSet(DrawnOf(p, t))
         /\ IsFiniteSet(SlotsOf(p)) /\ IsFiniteSet(DrawsOf(p, t))
         /\ Cardinality(SavedOf(p)) \in Nat /\ Cardinality(DrawnOf(p, t)) \in Nat
         /\ Cardinality(SlotsOf(p)) \in Nat /\ Cardinality(DrawsOf(p, t)) \in Nat
<1>1. IsFiniteSet({e \in Entries : e[1] = p}) /\ IsFiniteSet(Saves)
  BY EntriesFinite, VoucherAssumption
<1>2. /\ SavedOf(p) \subseteq {e \in Entries : e[1] = p}
      /\ DrawnOf(p, t) \subseteq {e \in Entries : e[1] = p}
      /\ SlotsOf(p) \subseteq Saves /\ DrawsOf(p, t) \subseteq Saves
  BY DEF SavedOf, DrawnOf, SlotsOf, DrawsOf
<1>3. /\ IsFiniteSet(SavedOf(p)) /\ IsFiniteSet(DrawnOf(p, t))
      /\ IsFiniteSet(SlotsOf(p)) /\ IsFiniteSet(DrawsOf(p, t))
  BY <1>1, <1>2, FS_Subset
<1> QED BY <1>3, FS_CardinalityType

LEMMA CountsFiniteNext ==
  ASSUME NEW p, NEW t
  PROVE  /\ IsFiniteSet(SavedOf(p))' /\ IsFiniteSet(DrawnOf(p, t))'
         /\ IsFiniteSet(SlotsOf(p))' /\ IsFiniteSet(DrawsOf(p, t))'
<1>1. IsFiniteSet({e \in Entries : e[1] = p}) /\ IsFiniteSet(Saves)
  BY EntriesFinite, VoucherAssumption
<1>2. /\ SavedOf(p)' \subseteq {e \in Entries : e[1] = p}
      /\ DrawnOf(p, t)' \subseteq {e \in Entries : e[1] = p}
      /\ SlotsOf(p)' \subseteq Saves /\ DrawsOf(p, t)' \subseteq Saves
  BY DEF SavedOf, DrawnOf, SlotsOf, DrawsOf
<1> QED BY <1>1, <1>2, FS_Subset

InSlot(k) == save[k].pc \in {"draw", "insert"}
InDraw(k, t) == save[k].pc \in {"open", "insert"} /\ save[k].tier = t
IsSaved(k) == entry[Kept(k)].status # "none"
IsDrawn(k, t) == IsSaved(k) /\ entry[Kept(k)].tier = t
Bit(b) == IF b THEN 1 ELSE 0

\* A save changes the four counts of its voucher by itself and its entry only.
LEMMA CountsChange ==
  ASSUME NEW k \in Saves, NEW t,
         \A j \in Saves \ {k} : save'[j] = save[j],
         \A d \in Entries \ {Kept(k)} : entry'[d] = entry[d]
  PROVE  /\ Cardinality(SlotsOf(Wanted[k]))' =
              Cardinality(SlotsOf(Wanted[k])) + Bit(InSlot(k))' - Bit(InSlot(k))
         /\ Cardinality(DrawsOf(Wanted[k], t))' =
              Cardinality(DrawsOf(Wanted[k], t)) + Bit(InDraw(k, t))' - Bit(InDraw(k, t))
         /\ Cardinality(SavedOf(Wanted[k]))' =
              Cardinality(SavedOf(Wanted[k])) + Bit(IsSaved(k))' - Bit(IsSaved(k))
         /\ Cardinality(DrawnOf(Wanted[k], t))' =
              Cardinality(DrawnOf(Wanted[k], t)) + Bit(IsDrawn(k, t))' - Bit(IsDrawn(k, t))
         /\ \A p \in Promos \ {Wanted[k]} :
              /\ SlotsOf(p)' = SlotsOf(p) /\ DrawsOf(p, t)' = DrawsOf(p, t)
              /\ SavedOf(p)' = SavedOf(p) /\ DrawnOf(p, t)' = DrawnOf(p, t)
<1> DEFINE p == Wanted[k]
<1>1. Kept(k) \in Entries /\ Kept(k)[1] = p
  BY KeptTyped
<1>2. /\ SlotsOf(p)' \ {k} = SlotsOf(p) \ {k}
      /\ k \in SlotsOf(p) <=> InSlot(k)
      /\ k \in SlotsOf(p)' <=> InSlot(k)'
  BY DEF SlotsOf, InSlot
<1>3. /\ DrawsOf(p, t)' \ {k} = DrawsOf(p, t) \ {k}
      /\ k \in DrawsOf(p, t) <=> InDraw(k, t)
      /\ k \in DrawsOf(p, t)' <=> InDraw(k, t)'
  BY DEF DrawsOf, InDraw
<1>4. /\ SavedOf(p)' \ {Kept(k)} = SavedOf(p) \ {Kept(k)}
      /\ Kept(k) \in SavedOf(p) <=> IsSaved(k)
      /\ Kept(k) \in SavedOf(p)' <=> IsSaved(k)'
  BY <1>1 DEF SavedOf, IsSaved, Kept
<1>5. /\ DrawnOf(p, t)' \ {Kept(k)} = DrawnOf(p, t) \ {Kept(k)}
      /\ Kept(k) \in DrawnOf(p, t) <=> IsDrawn(k, t)
      /\ Kept(k) \in DrawnOf(p, t)' <=> IsDrawn(k, t)'
  BY <1>1, <1>4 DEF DrawnOf, SavedOf, IsDrawn, Kept
<1>6. \A q \in Promos \ {p} :
        /\ SlotsOf(q)' = SlotsOf(q) /\ DrawsOf(q, t)' = DrawsOf(q, t)
        /\ SavedOf(q)' = SavedOf(q) /\ DrawnOf(q, t)' = DrawnOf(q, t)
  BY <1>1 DEF SlotsOf, DrawsOf, SavedOf, DrawnOf
<1>7. /\ IsFiniteSet(SavedOf(p)) /\ IsFiniteSet(DrawnOf(p, t))
      /\ IsFiniteSet(SlotsOf(p)) /\ IsFiniteSet(DrawsOf(p, t))
      /\ IsFiniteSet(SavedOf(p)') /\ IsFiniteSet(DrawnOf(p, t)')
      /\ IsFiniteSet(SlotsOf(p)') /\ IsFiniteSet(DrawsOf(p, t)')
  BY CountsFinite, CountsFiniteNext
<1> HIDE DEF p
<1>8. Cardinality(SlotsOf(p)') = Cardinality(SlotsOf(p)) + Bit(InSlot(k))' - Bit(InSlot(k))
  BY <1>2, <1>7, OneElement DEF Bit
<1>9. Cardinality(DrawsOf(p, t)') =
        Cardinality(DrawsOf(p, t)) + Bit(InDraw(k, t))' - Bit(InDraw(k, t))
  BY <1>3, <1>7, OneElement DEF Bit
<1>10. Cardinality(SavedOf(p)') = Cardinality(SavedOf(p)) + Bit(IsSaved(k))' - Bit(IsSaved(k))
  BY <1>4, <1>7, OneElement DEF Bit
<1>11. Cardinality(DrawnOf(p, t)') =
         Cardinality(DrawnOf(p, t)) + Bit(IsDrawn(k, t))' - Bit(IsDrawn(k, t))
  BY <1>5, <1>7, OneElement DEF Bit
<1> QED BY <1>6, <1>8, <1>9, <1>10, <1>11 DEF p

\* What the writes of a save do to the document of its voucher.
WithClaimed(pr, p, c) == [pr EXCEPT ![p].claimed = c]
WithLeft(pr, p, t, n) == [pr EXCEPT ![p].left[t] = n]

LEMMA PromoWritten ==
  ASSUME NEW pr \in [Promos -> PromoDoc], NEW p \in Promos, NEW c \in Nat
  PROVE  LET r == WithClaimed(pr, p, c)
         IN /\ r \in [Promos -> PromoDoc] /\ r[p].claimed = c /\ r[p].left = pr[p].left
            /\ \A q \in Promos \ {p} : r[q] = pr[q]
<1> DEFINE d == [pr[p] EXCEPT !.claimed = c]
           r == WithClaimed(pr, p, c)
<1>1. d \in PromoDoc /\ d.claimed = c /\ d.left = pr[p].left
  BY DEF PromoDoc
<1>2. r = [pr EXCEPT ![p] = d]
  BY DEF WithClaimed
<1> HIDE DEF d
<1>3. /\ r \in [Promos -> PromoDoc] /\ r[p] = d
      /\ \A q \in Promos \ {p} : r[q] = pr[q]
  BY <1>1, <1>2
<1> QED BY <1>1, <1>3

LEMMA TierWritten ==
  ASSUME NEW pr \in [Promos -> PromoDoc], NEW p \in Promos, NEW t \in Tiers, NEW n \in Nat
  PROVE  LET r == WithLeft(pr, p, t, n)
         IN /\ r \in [Promos -> PromoDoc]
            /\ r[p].claimed = pr[p].claimed /\ r[p].left[t] = n
            /\ \A u \in Tiers \ {t} : r[p].left[u] = pr[p].left[u]
            /\ \A q \in Promos \ {p} : r[q] = pr[q]
<1> DEFINE left == [pr[p].left EXCEPT ![t] = n]
           d == [pr[p] EXCEPT !.left = left]
           r == WithLeft(pr, p, t, n)
<1>1. /\ left \in [Tiers -> Nat] /\ left[t] = n
      /\ \A u \in Tiers \ {t} : left[u] = pr[p].left[u]
  BY DEF PromoDoc
<1> HIDE DEF left
<1>2. d \in PromoDoc /\ d.left = left /\ d.claimed = pr[p].claimed
  BY <1>1 DEF PromoDoc
<1>3. r = [pr EXCEPT ![p] = d]
  BY DEF left, WithLeft
<1> HIDE DEF d
<1>4. /\ r \in [Promos -> PromoDoc] /\ r[p] = d
      /\ \A q \in Promos \ {p} : r[q] = pr[q]
  BY <1>2, <1>3
<1> QED BY <1>1, <1>2, <1>4

LEMMA SlotReturned ==
  ASSUME NEW p \in Promos, promo \in [Promos -> PromoDoc], promo[p].claimed > 0
  PROVE  ReturnSlot(p) = WithClaimed(promo, p, promo[p].claimed - 1)
  BY DEF ReturnSlot, WithClaimed

\* ReturnDraw puts back the percentage that the save drew.
LEMMA Returned ==
  ASSUME TypeOK, NEW k \in Saves, NEW pr \in [Promos -> PromoDoc]
  PROVE  LET p == Wanted[k]
             r == ReturnDraw(k, pr)
         IN /\ r \in [Promos -> PromoDoc] /\ r[p].claimed = pr[p].claimed
            /\ \A t \in Tiers : r[p].left[t] = pr[p].left[t] + Bit(save[k].tier = t)
            /\ \A q \in Promos \ {p} : r[q] = pr[q]
<1>1. Wanted[k] \in Promos /\ save[k].tier \in Tiers \cup {None} /\ None \notin Tiers
  BY KeptTyped, Ranges, VoucherAssumption DEF SaveLocals
<1>2. pr[Wanted[k]].left \in [Tiers -> Nat]
  BY <1>1 DEF PromoDoc
<1>3. CASE save[k].tier = None
  BY <1>1, <1>2, <1>3 DEF ReturnDraw, Bit
<1>4. CASE save[k].tier \in Tiers
  <2> DEFINE u == save[k].tier
             n == pr[Wanted[k]].left[u] + 1
             r == WithLeft(pr, Wanted[k], u, n)
  <2>1. n \in Nat /\ ReturnDraw(k, pr) = r
    BY <1>1, <1>2, <1>4 DEF ReturnDraw, WithLeft
  <2>2. n = pr[Wanted[k]].left[u] + 1 /\ u \in Tiers /\ u = save[k].tier
    BY <1>4
  <2> HIDE DEF n, u
  <2>3. /\ r \in [Promos -> PromoDoc]
        /\ r[Wanted[k]].claimed = pr[Wanted[k]].claimed /\ r[Wanted[k]].left[u] = n
        /\ \A t \in Tiers \ {u} : r[Wanted[k]].left[t] = pr[Wanted[k]].left[t]
        /\ \A q \in Promos \ {Wanted[k]} : r[q] = pr[q]
    <3>1. Wanted[k] \in Promos /\ u \in Tiers /\ n \in Nat
      BY <1>1, <2>1, <2>2
    <3> QED BY <3>1, TierWritten
  <2> HIDE DEF r
  <2> QED BY <1>2, <2>1, <2>2, <2>3 DEF Bit
<1> QED BY <1>1, <1>3, <1>4

\* The steps of a save, by what they do to the counts of its voucher.
LEMMA SavingEffect ==
  ASSUME TypeOK, Counted, NEW k \in Saves, Saving(k)
  PROVE  LET p == Wanted[k]
         IN /\ \A j \in Saves \ {k} : save'[j] = save[j]
            /\ \A d \in Entries \ {Kept(k)} : entry'[d] = entry[d]
            /\ \A q \in Promos \ {p} : promo'[q] = promo[q]
            /\ crashes' = crashes
            /\ promo'[p].claimed \in 0..SaveLimit[p]
            /\ promo'[p].claimed - promo[p].claimed =
                 Bit(InSlot(k))' - Bit(InSlot(k)) + Bit(IsSaved(k))' - Bit(IsSaved(k))
            /\ \A t \in Tiers :
                 promo[p].left[t] - promo'[p].left[t] =
                   Bit(InDraw(k, t))' - Bit(InDraw(k, t))
                   + Bit(IsDrawn(k, t))' - Bit(IsDrawn(k, t))
<1> DEFINE p == Wanted[k]
<1>1. /\ p \in Promos /\ Kept(k) \in Entries /\ None \notin Tiers
      /\ promo \in [Promos -> PromoDoc] /\ save \in [Saves -> SaveLocals]
      /\ entry \in [Entries -> Entry] /\ save[k] \in SaveLocals
  BY KeptTyped, Ranges, VoucherAssumption
<1>2. /\ promo[p].claimed \in Nat /\ SaveLimit[p] \in Nat
      /\ promo[p].claimed <= SaveLimit[p]
      /\ \A t \in Tiers : promo[p].left[t] \in Nat
  BY <1>1, VoucherAssumption DEF Counted, CountedFor, PromoDoc
<1>3. InSlot(k) => promo[p].claimed > 0
  <2> SUFFICES ASSUME InSlot(k) PROVE promo[p].claimed > 0
    OBVIOUS
  <2>1. k \in SlotsOf(p)
    BY DEF SlotsOf, InSlot
  <2>2. IsFiniteSet(SlotsOf(p)) /\ Cardinality(SlotsOf(p)) \in Nat
        /\ Cardinality(SavedOf(p)) \in Nat
    BY CountsFinite
  <2>3. Cardinality(SlotsOf(p)) # 0
    BY <2>1, <2>2, FS_EmptySet
  <2>4. Cardinality(SavedOf(p)) + Cardinality(SlotsOf(p)) <= promo[p].claimed
    BY <1>1 DEF Counted, CountedFor
  <2> QED BY <1>2, <2>2, <2>3, <2>4
<1> DEFINE Goal ==
      /\ \A j \in Saves \ {k} : save'[j] = save[j]
      /\ \A d \in Entries \ {Kept(k)} : entry'[d] = entry[d]
      /\ \A q \in Promos \ {p} : promo'[q] = promo[q]
      /\ crashes' = crashes
      /\ promo'[p].claimed \in 0..SaveLimit[p]
      /\ promo'[p].claimed - promo[p].claimed =
           Bit(InSlot(k))' - Bit(InSlot(k)) + Bit(IsSaved(k))' - Bit(IsSaved(k))
      /\ \A t \in Tiers :
           promo[p].left[t] - promo'[p].left[t] =
             Bit(InDraw(k, t))' - Bit(InDraw(k, t))
             + Bit(IsDrawn(k, t))' - Bit(IsDrawn(k, t))
<1>4. ASSUME SaveFind(k) PROVE Goal
  <2>1. /\ UNCHANGED <<promo, entry, crashes>> /\ save[k].pc = "idle"
        /\ save'[k].pc \in {"slot", "opening", "done"}
        /\ \A j \in Saves \ {k} : save'[j] = save[j]
    BY <1>1, <1>4 DEF SaveFind
  <2> QED BY <1>2, <2>1 DEF Bit, InSlot, InDraw, IsSaved, IsDrawn, Kept
<1>5. ASSUME SaveSlot(k) PROVE Goal
  <2>1. UNCHANGED <<entry, crashes>> /\ save[k].pc = "slot"
    BY <1>5 DEF SaveSlot
  <2>2. CASE promo[p].claimed < SaveLimit[p]
    <3> DEFINE c == promo[p].claimed + 1
    <3>1. c \in Nat /\ promo' = WithClaimed(promo, p, c)
      BY <1>1, <1>2, <1>5, <2>2 DEF SaveSlot, WithClaimed
    <3>2. c = promo[p].claimed + 1
      OBVIOUS
    <3> HIDE DEF c
    <3>3. /\ promo'[p].claimed = c /\ promo'[p].left = promo[p].left
          /\ \A q \in Promos \ {p} : promo'[q] = promo[q]
      BY <1>1, <3>1, PromoWritten
    <3>4. /\ save'[k].pc = IF Tiers = {} THEN "insert" ELSE "draw"
          /\ \A j \in Saves \ {k} : save'[j] = save[j]
      BY <1>5, <2>2, SaveGotoEffect DEF SaveSlot
    <3> QED BY <1>2, <2>1, <2>2, <3>2, <3>3, <3>4
            DEF Bit, InSlot, InDraw, IsSaved, IsDrawn, Kept
  <2>3. CASE ~(promo[p].claimed < SaveLimit[p])
    <3>1. /\ UNCHANGED promo /\ save'[k].pc = "done"
          /\ \A j \in Saves \ {k} : save'[j] = save[j]
      BY <1>5, <2>3, SaveGotoEffect DEF SaveSlot
    <3> QED BY <1>2, <2>1, <3>1 DEF Bit, InSlot, InDraw, IsSaved, IsDrawn, Kept
  <2> QED BY <2>2, <2>3
<1>6. ASSUME SaveDraw(k) PROVE Goal
  <2>1. UNCHANGED <<entry, crashes>> /\ save[k].pc \in {"draw", "opening"}
    BY <1>6 DEF SaveDraw
  <2>2. CASE save[k].tiers = {}
    <3>1. /\ save'[k].pc = "done" /\ \A j \in Saves \ {k} : save'[j] = save[j]
          /\ promo' = IF save[k].pc = "draw" THEN ReturnSlot(p) ELSE promo
      BY <1>6, <2>2, SaveGotoEffect DEF SaveDraw
    <3>2. CASE save[k].pc = "draw"
      <4> DEFINE c == promo[p].claimed - 1
      <4>1. promo[p].claimed > 0
        BY <1>3, <3>2 DEF InSlot
      <4>2. c \in Nat
        BY <1>2, <4>1
      <4>5. promo' = WithClaimed(promo, p, c)
        BY <1>1, <3>1, <3>2, <4>1, SlotReturned
      <4>3. c = promo[p].claimed - 1
        OBVIOUS
      <4> HIDE DEF c
      <4>4. /\ promo'[p].claimed = c /\ promo'[p].left = promo[p].left
            /\ \A q \in Promos \ {p} : promo'[q] = promo[q]
        BY <1>1, <4>2, <4>5, PromoWritten
      <4> QED BY <1>2, <2>1, <3>1, <3>2, <4>1, <4>3, <4>4
              DEF Bit, InSlot, InDraw, IsSaved, IsDrawn, Kept
    <3>3. CASE save[k].pc = "opening"
      BY <1>2, <2>1, <3>1, <3>3 DEF Bit, InSlot, InDraw, IsSaved, IsDrawn, Kept
    <3> QED BY <2>1, <3>2, <3>3
  <2>3. CASE save[k].tiers # {}
    <3>1. PICK t \in save[k].tiers :
            IF StillOpen(p, t)
              THEN /\ promo' = [promo EXCEPT ![p].left[t] = @ - 1]
                   /\ save' = [save EXCEPT ![k].tier = t, ![k].tiers = {},
                        ![k].pc = IF @ = "draw" THEN "insert" ELSE "open"]
              ELSE /\ save' = [save EXCEPT ![k].tiers = @ \ {t}]
                   /\ UNCHANGED promo
      BY <1>6, <2>3 DEF SaveDraw
    <3>2. t \in Tiers
      BY <1>1 DEF SaveLocals
    <3>3. CASE StillOpen(p, t)
      <4> DEFINE n == promo[p].left[t] - 1
      <4>1. n \in Nat /\ promo' = WithLeft(promo, p, t, n)
        BY <1>1, <1>2, <3>1, <3>2, <3>3 DEF StillOpen, WithLeft
      <4>2. n = promo[p].left[t] - 1
        OBVIOUS
      <4> HIDE DEF n
      <4>3. /\ promo'[p].claimed = promo[p].claimed /\ promo'[p].left[t] = n
            /\ \A u \in Tiers \ {t} : promo'[p].left[u] = promo[p].left[u]
            /\ \A q \in Promos \ {p} : promo'[q] = promo[q]
        <5>1. promo \in [Promos -> PromoDoc] /\ p \in Promos /\ t \in Tiers /\ n \in Nat
          BY <1>1, <3>2, <4>1
        <5> HIDE DEF p
        <5> QED BY <5>1, <4>1, TierWritten
      <4>4. /\ \A j \in Saves \ {k} : save'[j] = save[j]
            /\ save'[k].pc = IF save[k].pc = "draw" THEN "insert" ELSE "open"
            /\ save'[k].tier = t
        BY <1>1, <3>1, <3>3 DEF SaveLocals
      <4> QED BY <1>2, <2>1, <3>2, <4>2, <4>3, <4>4
              DEF Bit, InSlot, InDraw, IsSaved, IsDrawn, Kept
    <3>4. CASE ~StillOpen(p, t)
      <4>1. /\ UNCHANGED promo /\ \A j \in Saves \ {k} : save'[j] = save[j]
            /\ save'[k].pc = save[k].pc
        BY <1>1, <3>1, <3>4 DEF SaveLocals
      <4> QED BY <1>2, <2>1, <4>1 DEF Bit, InSlot, InDraw, IsSaved, IsDrawn, Kept
    <3> QED BY <3>3, <3>4
  <2> QED BY <2>2, <2>3
<1>7. ASSUME SaveInsert(k) PROVE Goal
  <2>1. /\ crashes' = crashes /\ save[k].pc = "insert" /\ save'[k].pc = "done"
        /\ \A j \in Saves \ {k} : save'[j] = save[j]
    BY <1>7, SaveGotoEffect DEF SaveInsert
  <2>2. CASE entry[Kept(k)].status = "none"
    <3>1. /\ UNCHANGED promo
          /\ \A d \in Entries \ {Kept(k)} : entry'[d] = entry[d]
          /\ entry'[Kept(k)].status = "saved" /\ entry'[Kept(k)].tier = save[k].tier
      BY <1>1, <1>7, <2>2 DEF SaveInsert
    <3> QED BY <1>2, <2>1, <2>2, <3>1 DEF Bit, InSlot, InDraw, IsSaved, IsDrawn, Kept
  <2>3. CASE entry[Kept(k)].status # "none"
    <3> DEFINE c == promo[p].claimed - 1
               pr == WithClaimed(promo, p, c)
    <3>1. promo[p].claimed > 0
      BY <1>3, <2>1 DEF InSlot
    <3>2. c \in Nat
      BY <1>2, <3>1
    <3>7. ReturnSlot(p) = pr
      BY <1>1, <3>1, SlotReturned
    <3>3. c = promo[p].claimed - 1
      OBVIOUS
    <3> HIDE DEF c
    <3>4. /\ pr \in [Promos -> PromoDoc] /\ pr[p].claimed = c /\ pr[p].left = promo[p].left
          /\ \A q \in Promos \ {p} : pr[q] = promo[q]
      BY <1>1, <3>2, PromoWritten
    <3>5. UNCHANGED entry /\ promo' = ReturnDraw(k, pr)
      BY <1>7, <2>3, <3>7 DEF SaveInsert
    <3> HIDE DEF pr
    <3>6. /\ promo'[p].claimed = c
          /\ \A t \in Tiers : promo'[p].left[t] = promo[p].left[t] + Bit(save[k].tier = t)
          /\ \A q \in Promos \ {p} : promo'[q] = promo[q]
      BY <3>4, <3>5, Returned
    <3> QED BY <1>2, <2>1, <3>1, <3>3, <3>5, <3>6
            DEF Bit, InSlot, InDraw, IsSaved, IsDrawn, Kept
  <2> QED BY <2>2, <2>3
<1>8. ASSUME SaveOpen(k) PROVE Goal
  <2>1. /\ crashes' = crashes /\ save[k].pc = "open" /\ save'[k].pc = "done"
        /\ \A j \in Saves \ {k} : save'[j] = save[j]
    BY <1>8, SaveGotoEffect DEF SaveOpen
  <2>2. CASE entry[Kept(k)].status = "saved" /\ entry[Kept(k)].tier = None
    <3>1. /\ UNCHANGED promo
          /\ \A d \in Entries \ {Kept(k)} : entry'[d] = entry[d]
          /\ entry'[Kept(k)].status = "saved" /\ entry'[Kept(k)].tier = save[k].tier
      BY <1>1, <1>8, <2>2 DEF SaveOpen, Entry
    <3> QED BY <1>1, <1>2, <2>1, <2>2, <3>1
            DEF Bit, InSlot, InDraw, IsSaved, IsDrawn, Kept
  <2>3. CASE ~(entry[Kept(k)].status = "saved" /\ entry[Kept(k)].tier = None)
    <3>1. UNCHANGED entry /\ promo' = ReturnDraw(k, promo)
      BY <1>8, <2>3 DEF SaveOpen
    <3>2. /\ promo'[p].claimed = promo[p].claimed
          /\ \A t \in Tiers : promo'[p].left[t] = promo[p].left[t] + Bit(save[k].tier = t)
          /\ \A q \in Promos \ {p} : promo'[q] = promo[q]
      BY <1>1, <3>1, Returned
    <3> QED BY <1>2, <2>1, <3>1, <3>2 DEF Bit, InSlot, InDraw, IsSaved, IsDrawn, Kept
  <2> QED BY <2>2, <2>3
<1> QED BY <1>4, <1>5, <1>6, <1>7, <1>8 DEF Saving

LEMMA CountedSaving ==
  ASSUME TypeOK, TypeOK', Counted, NEW k \in Saves, Saving(k)
  PROVE  Counted'
<1> DEFINE p == Wanted[k]
<1>1. SUFFICES ASSUME NEW q \in Promos PROVE CountedFor(q)' /\ \A t \in Tiers : TierCounted(q, t)'
  BY DEF Counted
<1>2. /\ \A j \in Saves \ {k} : save'[j] = save[j]
      /\ \A d \in Entries \ {Kept(k)} : entry'[d] = entry[d]
      /\ \A x \in Promos \ {p} : promo'[x] = promo[x]
      /\ crashes' = crashes
      /\ promo'[p].claimed \in 0..SaveLimit[p]
      /\ promo'[p].claimed - promo[p].claimed =
           Bit(InSlot(k))' - Bit(InSlot(k)) + Bit(IsSaved(k))' - Bit(IsSaved(k))
      /\ \A t \in Tiers :
           promo[p].left[t] - promo'[p].left[t] =
             Bit(InDraw(k, t))' - Bit(InDraw(k, t))
             + Bit(IsDrawn(k, t))' - Bit(IsDrawn(k, t))
  BY SavingEffect
<1>3. /\ promo[p].claimed \in Nat /\ promo'[p].claimed \in Nat /\ SaveLimit[p] \in Nat
      /\ \A t \in Tiers : promo[p].left[t] \in Nat /\ promo'[p].left[t] \in Nat
      /\ \A t \in Tiers : TierLimit[p][t] \in Nat /\ p \in Promos
  BY KeptTyped, VoucherAssumption DEF TypeOK
<1>4. CountedFor(q)'
  <2>1. CASE q # p
    <3>1. SlotsOf(q)' = SlotsOf(q) /\ SavedOf(q)' = SavedOf(q)
      BY <1>2, <2>1, CountsChange
    <3> QED BY <1>2, <2>1, <3>1 DEF Counted, CountedFor
  <2>2. CASE q = p
    <3>1. /\ Cardinality(SlotsOf(p))' =
               Cardinality(SlotsOf(p)) + Bit(InSlot(k))' - Bit(InSlot(k))
          /\ Cardinality(SavedOf(p))' =
               Cardinality(SavedOf(p)) + Bit(IsSaved(k))' - Bit(IsSaved(k))
      BY <1>2, CountsChange
    <3>2. Cardinality(SlotsOf(p)) \in Nat /\ Cardinality(SavedOf(p)) \in Nat
      BY CountsFinite
    <3>3. /\ Bit(InSlot(k)) \in 0..1 /\ Bit(InSlot(k))' \in 0..1
          /\ Bit(IsSaved(k)) \in 0..1 /\ Bit(IsSaved(k))' \in 0..1
      BY DEF Bit
    <3>4. CountedFor(p)
      BY <2>2 DEF Counted
    <3>5. Cardinality(SavedOf(p))' + Cardinality(SlotsOf(p))' - promo'[p].claimed =
            Cardinality(SavedOf(p)) + Cardinality(SlotsOf(p)) - promo[p].claimed
      BY <1>2, <1>3, <3>1, <3>2, <3>3
    <3>6. Cardinality(SlotsOf(p))' \in Int /\ Cardinality(SavedOf(p))' \in Int
      BY <3>1, <3>2, <3>3
    <3>7. crashes' = crashes /\ promo'[p].claimed <= SaveLimit[p]
      BY <1>2, <1>3
    <3> HIDE DEF p
    <3>8. CountedFor(p)'
      BY <1>3, <3>2, <3>4, <3>5, <3>6, <3>7 DEF CountedFor
    <3> QED BY <2>2, <3>8
  <2> QED BY <2>1, <2>2
<1>5. ASSUME NEW t \in Tiers PROVE TierCounted(q, t)'
  <2>1. CASE q # p
    <3>1. DrawsOf(q, t)' = DrawsOf(q, t) /\ DrawnOf(q, t)' = DrawnOf(q, t)
      BY <1>2, <2>1, CountsChange
    <3> QED BY <1>2, <2>1, <3>1 DEF Counted, TierCounted
  <2>2. CASE q = p
    <3>1. /\ Cardinality(DrawsOf(p, t))' =
               Cardinality(DrawsOf(p, t)) + Bit(InDraw(k, t))' - Bit(InDraw(k, t))
          /\ Cardinality(DrawnOf(p, t))' =
               Cardinality(DrawnOf(p, t)) + Bit(IsDrawn(k, t))' - Bit(IsDrawn(k, t))
      BY <1>2, CountsChange
    <3>2. Cardinality(DrawsOf(p, t)) \in Nat /\ Cardinality(DrawnOf(p, t)) \in Nat
      BY CountsFinite
    <3>3. /\ Bit(InDraw(k, t)) \in 0..1 /\ Bit(InDraw(k, t))' \in 0..1
          /\ Bit(IsDrawn(k, t)) \in 0..1 /\ Bit(IsDrawn(k, t))' \in 0..1
      BY DEF Bit
    <3>4. TierCounted(p, t)
      BY <2>2 DEF Counted
    <3> QED BY <1>2, <1>3, <2>2, <3>1, <3>2, <3>3, <3>4 DEF TierCounted
  <2> QED BY <2>1, <2>2
<1> QED BY <1>4, <1>5

LEMMA CountedOrders ==
  ASSUME TypeOK, Counted, UNCHANGED <<promo, save>>, crashes' \in {crashes, crashes + 1},
         \A e \in Entries : /\ entry'[e].status = "none" <=> entry[e].status = "none"
                            /\ entry'[e].tier = entry[e].tier
  PROVE  Counted'
<1>1. ASSUME NEW p, NEW t
      PROVE  /\ SavedOf(p)' = SavedOf(p) /\ DrawnOf(p, t)' = DrawnOf(p, t)
             /\ SlotsOf(p)' = SlotsOf(p) /\ DrawsOf(p, t)' = DrawsOf(p, t)
  BY DEF SavedOf, DrawnOf, SlotsOf, DrawsOf
<1>2. crashes' = 0 => crashes = 0
  BY DEF TypeOK
<1>3. ASSUME NEW p \in Promos PROVE CountedFor(p)'
  BY <1>1, <1>2 DEF Counted, CountedFor
<1>4. ASSUME NEW p \in Promos, NEW t \in Tiers PROVE TierCounted(p, t)'
  BY <1>1, <1>2 DEF Counted, TierCounted
<1> QED BY <1>3, <1>4 DEF Counted

\* A save that dies leaves a slot or a draw that nobody has.
LEMMA CountedCrash ==
  ASSUME TypeOK, Counted, NEW k \in Saves, SaveCrash(k)
  PROVE  Counted'
<1>1. /\ UNCHANGED <<promo, entry>> /\ crashes' # 0
      /\ save'[k].pc = "crashed" /\ \A j \in Saves \ {k} : save'[j] = save[j]
  BY SaveGotoEffect DEF SaveCrash, Dies, TypeOK
<1>2. ASSUME NEW p, NEW t
      PROVE  /\ SavedOf(p)' = SavedOf(p) /\ DrawnOf(p, t)' = DrawnOf(p, t)
             /\ SlotsOf(p)' \subseteq SlotsOf(p) /\ DrawsOf(p, t)' \subseteq DrawsOf(p, t)
  BY <1>1 DEF SavedOf, DrawnOf, SlotsOf, DrawsOf
<1>3. ASSUME NEW p, NEW t
      PROVE  /\ Cardinality(SlotsOf(p)') \in Nat /\ Cardinality(DrawsOf(p, t)') \in Nat
             /\ Cardinality(SlotsOf(p)') <= Cardinality(SlotsOf(p))
             /\ Cardinality(DrawsOf(p, t)') <= Cardinality(DrawsOf(p, t))
  BY <1>2, CountsFinite, FS_Subset, FS_CardinalityType
<1>4. ASSUME NEW p \in Promos PROVE CountedFor(p)'
  <2>1. /\ Cardinality(SavedOf(p)) \in Nat /\ Cardinality(SlotsOf(p)) \in Nat
        /\ promo[p].claimed \in Nat
    BY CountsFinite DEF TypeOK
  <2>2. SavedOf(p)' = SavedOf(p) /\ promo' = promo /\ crashes' # 0
    BY <1>1, <1>2
  <2>3. /\ Cardinality(SlotsOf(p)') \in Nat
        /\ Cardinality(SlotsOf(p)') <= Cardinality(SlotsOf(p))
    BY <1>3
  <2>4. CountedFor(p)
    BY DEF Counted
  <2> QED BY <2>1, <2>2, <2>3, <2>4 DEF CountedFor
<1>5. ASSUME NEW p \in Promos, NEW t \in Tiers PROVE TierCounted(p, t)'
  <2>1. /\ Cardinality(DrawnOf(p, t)) \in Nat /\ Cardinality(DrawsOf(p, t)) \in Nat
        /\ promo[p].left[t] \in Nat /\ TierLimit[p][t] \in Nat
    BY CountsFinite, VoucherAssumption DEF TypeOK
  <2>2. DrawnOf(p, t)' = DrawnOf(p, t) /\ promo' = promo
    BY <1>1, <1>2
  <2> QED BY <1>1, <1>3, <2>1, <2>2 DEF Counted, TierCounted
<1> QED BY <1>4, <1>5 DEF Counted

LEMMA CountedInit == Init => Counted
<1> SUFFICES ASSUME Init PROVE Counted
  OBVIOUS
<1>1. PICK before \in SUBSET Entries, sent \in Together :
        /\ \A p \in Promos : Cardinality({e \in before : e[1] = p}) <= SaveLimit[p]
        /\ promo = [p \in Promos |->
             [claimed |-> Cardinality({e \in before : e[1] = p}),
              left |-> TierLimit[p]]]
        /\ entry = [e \in Entries |->
             [status |-> IF e \in before THEN "saved" ELSE "none",
              o |-> None, tier |-> None]]
        /\ save = [k \in Saves |-> [pc |-> IF k \in sent THEN "idle" ELSE "done",
                                    tiers |-> {}, tier |-> None]]
  BY DEF Init
<1>2. ASSUME NEW p \in Promos
      PROVE  SavedOf(p) = {e \in before : e[1] = p} /\ SlotsOf(p) = {}
  BY <1>1 DEF SavedOf, SlotsOf
<1>3. ASSUME NEW p \in Promos, NEW t \in Tiers
      PROVE  DrawnOf(p, t) = {} /\ DrawsOf(p, t) = {}
  BY <1>1, VoucherAssumption DEF DrawnOf, DrawsOf, SavedOf
<1>4. ASSUME NEW p \in Promos PROVE CountedFor(p)
  <2>1. promo[p].claimed = Cardinality({e \in before : e[1] = p})
    BY <1>1
  <2>2. Cardinality({e \in before : e[1] = p}) \in Nat
    BY EntriesFinite
  <2>3. Cardinality({e \in before : e[1] = p}) <= SaveLimit[p]
    BY <1>1
  <2>4. /\ Cardinality(SavedOf(p)) = Cardinality({e \in before : e[1] = p})
        /\ Cardinality(SlotsOf(p)) = 0
    BY <1>2, FS_EmptySet
  <2> QED BY <2>1, <2>2, <2>3, <2>4 DEF CountedFor
<1>5. ASSUME NEW p \in Promos, NEW t \in Tiers PROVE TierCounted(p, t)
  <2>1. promo[p].left[t] = TierLimit[p][t] /\ TierLimit[p][t] \in Nat
    BY <1>1, VoucherAssumption
  <2>2. Cardinality(DrawnOf(p, t)) = 0 /\ Cardinality(DrawsOf(p, t)) = 0
    BY <1>3, FS_EmptySet
  <2> QED BY <2>1, <2>2 DEF TierCounted
<1> QED BY <1>4, <1>5 DEF Counted

LEMMA CountedNext == TypeOK /\ TypeOK' /\ Counted /\ [Next]_vars => Counted'
<1> SUFFICES ASSUME TypeOK, TypeOK', Counted, [Next]_vars PROVE Counted'
  OBVIOUS
<1>1. entry \in [Entries -> Entry] /\ entry' \in [Entries -> Entry]
  BY DEF TypeOK
<1>2. ASSUME NEW o \in Orders, HoldVoucher(o) PROVE Counted'
  <2> DEFINE e == EntryAt(o, buy[o].i)
  <2>1. /\ UNCHANGED <<promo, save, crashes>>
        /\ \/ UNCHANGED entry
           \/ Usable(e) /\ entry' = [entry EXCEPT ![e].status = "held", ![e].o = o]
    BY <1>2, HoldVoucherEffect
  <2> HIDE DEF e
  <2>2. \A d \in Entries : /\ entry'[d].status = "none" <=> entry[d].status = "none"
                           /\ entry'[d].tier = entry[d].tier
    <3>1. CASE UNCHANGED entry
      BY <3>1
    <3>2. CASE e \notin Entries
      BY <1>1, <2>1, <3>2
    <3>3. CASE /\ e \in Entries /\ Usable(e)
               /\ entry' = [entry EXCEPT ![e].status = "held", ![e].o = o]
      BY <3>3, EntryWritten DEF Usable
    <3> QED BY <2>1, <3>1, <3>2, <3>3
  <2> QED BY <2>1, <2>2, CountedOrders
<1>3. ASSUME NEW o \in Orders, MoveVoucher(o) PROVE Counted'
  <2>1. \A d \in Entries : /\ entry'[d].status = "none" <=> entry[d].status = "none"
                           /\ entry'[d].tier = entry[d].tier
    BY <1>3, MoveVoucherEffect
  <2> QED BY <1>3, <2>1, CountedOrders DEF MoveVoucher
<1>4. ASSUME NEW o \in Orders,
             \/ Start(o) \/ Asks(o) \/ HoldAccount(o) \/ HoldPhone(o)
             \/ RollbackAccount(o) \/ Redeem(o) \/ Insert(o) \/ Settle(o) \/ Flip(o)
             \/ MoveClaim(o) \/ Record(o) \/ Lapse(o) \/ BuyCrash(o) \/ MoveCrash(o)
      PROVE  Counted'
  <2>1. UNCHANGED <<promo, save, entry>> /\ crashes' \in {crashes, crashes + 1}
    BY <1>4, AskEffect DEF Start, HoldAccount, HoldPhone, RollbackAccount, Redeem,
       Insert, Settle, Flip, MoveClaim, Record, Lapse, BuyCrash, MoveCrash, Dies
  <2> QED BY <2>1, CountedOrders
<1>5. CASE UNCHANGED vars
  BY <1>5, CountedOrders DEF vars
<1>6. ASSUME NEW o \in Orders, Ends(o) PROVE Counted'
  <2>1. \A d \in Entries : /\ entry'[d].status = "none" <=> entry[d].status = "none"
                           /\ entry'[d].tier = entry[d].tier
    BY <1>6, EndsEffect, BackVoucherEffect
  <2> QED BY <1>6, <2>1, EndsEffect, CountedOrders
<1> QED BY <1>2, <1>3, <1>4, <1>5, <1>6, CountedSaving, CountedCrash, Steps

\* No more entries are saved, or percentages drawn, than the voucher allows;
\* the counters are exact while no save is at work and none died.
THEOREM SavesStayCounted == Spec => []SavesCounted
<1>1. TypeOK /\ Counted => SavesCounted
  <2> SUFFICES ASSUME TypeOK, Counted, NEW p \in Promos
               PROVE  /\ Cardinality(SavedOf(p)) <= promo[p].claimed
                      /\ promo[p].claimed <= SaveLimit[p]
                      /\ \A t \in Tiers :
                           Cardinality(DrawnOf(p, t)) + promo[p].left[t] <= TierLimit[p][t]
                      /\ crashes = 0 /\ (\A k \in Saves : save[k].pc \in {"idle", "done"}) =>
                           /\ promo[p].claimed = Cardinality(SavedOf(p))
                           /\ \A t \in Tiers :
                                Cardinality(DrawnOf(p, t)) + promo[p].left[t] = TierLimit[p][t]
    BY DEF SavesCounted
  <2>1. CountedFor(p) /\ \A t \in Tiers : TierCounted(p, t)
    BY DEF Counted
  <2>2. /\ Cardinality(SavedOf(p)) \in Nat /\ Cardinality(SlotsOf(p)) \in Nat
        /\ promo[p].claimed \in Nat
        /\ \A t \in Tiers : /\ Cardinality(DrawnOf(p, t)) \in Nat
                            /\ Cardinality(DrawsOf(p, t)) \in Nat
                            /\ promo[p].left[t] \in Nat /\ TierLimit[p][t] \in Nat
    <3>1. promo[p] \in PromoDoc /\ TierLimit[p] \in [Tiers -> Nat]
      BY Ranges, VoucherAssumption
    <3>2. /\ promo[p].claimed \in Nat
          /\ \A t \in Tiers : promo[p].left[t] \in Nat /\ TierLimit[p][t] \in Nat
      BY <3>1 DEF PromoDoc
    <3> QED BY <3>2, CountsFinite
  <2>3. ASSUME \A k \in Saves : save[k].pc \in {"idle", "done"}
        PROVE  /\ Cardinality(SlotsOf(p)) = 0
               /\ \A t \in Tiers : Cardinality(DrawsOf(p, t)) = 0
    <3>1. SlotsOf(p) = {} /\ \A t \in Tiers : DrawsOf(p, t) = {}
      BY <2>3 DEF SlotsOf, DrawsOf
    <3> QED BY <3>1, FS_EmptySet
  <2>4. Cardinality(SavedOf(p)) <= promo[p].claimed /\ promo[p].claimed <= SaveLimit[p]
    BY <2>1, <2>2 DEF CountedFor
  <2>5. ASSUME NEW t \in Tiers
        PROVE  Cardinality(DrawnOf(p, t)) + promo[p].left[t] <= TierLimit[p][t]
    BY <2>1, <2>2 DEF TierCounted
  <2>6. ASSUME crashes = 0, \A k \in Saves : save[k].pc \in {"idle", "done"}
        PROVE  /\ promo[p].claimed = Cardinality(SavedOf(p))
               /\ \A t \in Tiers :
                    Cardinality(DrawnOf(p, t)) + promo[p].left[t] = TierLimit[p][t]
    BY <2>1, <2>2, <2>3, <2>6 DEF CountedFor, TierCounted
  <2> QED BY <2>4, <2>5, <2>6
<1> QED BY <1>1, TypeInit, TypeNext, CountedInit, CountedNext, PTL DEF Spec
=============================================================================
