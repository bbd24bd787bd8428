--------------------------- MODULE PromotionHolds ---------------------------
(***************************************************************************)
(* Holding, spending and giving back a promotion's uses                    *)
(* (backend/shopPromotions/redemptionService.ts and its callers).          *)
(*                                                                         *)
(* A checkout (Checkouts) holds the promotion on its goods, then the one   *)
(* on its shipping, places the order and may rename it to the code KV gave *)
(* it.  An ending (Endings) is markRedemptionUsed or releasePromotionHold, *)
(* called by the handlers that settle, cancel, expire or deliver an order. *)
(* A redemption and the counters it is charged to are separate documents,  *)
(* written one after the other: one action here is what happens between    *)
(* two awaits.                                                             *)
(*                                                                         *)
(* An order code is <<checkout, "web" or "kv">>.  A redemption's _id is a  *)
(* hash of its promotion, its buyer and the buyer's idempotency key: here  *)
(* <<promotion, request>>.  A promotion without a limit, and one without a *)
(* budget, is one whose limit is never reached.                            *)
(***************************************************************************)
EXTENDS Integers, Sequences, FiniteSets, Functions

CONSTANTS
  Checkouts,   \* POST create-order requests, each with an order code
  Endings,     \* calls of markRedemptionUsed and releasePromotionHold
  Promos,      \* promotions
  Goods,       \* those on the goods; the others are on the shipping
  Coded,       \* those applied by entering their code
  Buyers,      \* customers
  Requests,    \* buyers' idempotency keys: a resent request repeats its key
  BuyerOf,     \* request -> who sent it
  Limit,       \* promotion -> usageLimitTotal
  Budget,      \* promotion -> budgetTotal
  CodeLimit,   \* promotion -> maxUses of its code
  BuyerLimit,  \* promotion -> usageLimitPerCustomer, 0 for none
  Amounts,     \* bound: discounts an order may get
  MaxCrashes   \* bound: how many handlers may die half way

ASSUME KindAssumption ==
  /\ Goods \subseteq Promos
  /\ Coded \subseteq Goods
  /\ Checkouts \cap Endings = {}
  /\ IsFiniteSet(Checkouts) /\ IsFiniteSet(Endings) /\ IsFiniteSet(Requests)

ASSUME LimitAssumption ==
  /\ BuyerOf \in [Requests -> Buyers]
  /\ \A limit \in {Limit, Budget, CodeLimit, BuyerLimit} :
       limit \in [Promos -> Nat]
  /\ Amounts \subseteq Nat \ {0}
  /\ MaxCrashes \in Nat

VARIABLES
  promo,    \* aloha_shop_promotions: promotion -> its counters
  code,     \* promotion_codes: promotion -> counters of its code
  usage,    \* promotion_customer_usage: <<promotion, buyer>> -> count
  red,      \* promotion_redemptions: <<promotion, request>> -> redemption
  order,    \* aloha_shop_orders: checkout -> the code of its order
  hold,     \* Checkouts -> locals of the checkout
  move,     \* Checkouts and Endings -> locals of transitionHeldRedemptions
  crashes   \* handlers that have died

vars == <<promo, code, usage, red, order, hold, move, crashes>>
counters == <<promo, code, usage>>

-----------------------------------------------------------------------------
(* State *)

Ids == Promos \X Requests
Codes == Checkouts \X {"web", "kv"}
Movers == Checkouts \cup Endings

\* What a checkout may ask for: a promotion on goods, one on shipping, both.
Plans == {<<p>> : p \in Promos} \cup (Goods \X (Promos \ Goods))

Redemption == [code : Codes \cup {<<>>}, amount : Amounts \cup {0},
               status : {"none", "held", "used", "released"}]

Holding == [pc : {"start", "lookup", "usage", "promo", "code", "insert",
                  "undo", "held", "placed", "rename", "release", "done",
                  "failed", "crashed"},
            r : Requests \cup {<<>>},
            todo : Plans \cup {<<>>},             \* promotions left to hold
            n : Amounts \cup {0},                 \* discountAmount of the first
            undo : Seq({"promo", "code", "usage"})]  \* counters to give back

Moving == [pc : {"idle", "find", "flip", "promo", "code", "usage", "done",
                 "crashed"},
           code : Codes \cup {<<>>}, to : {"used", "released"},
           found : SUBSET Ids,                    \* rows left for the loop
           i : Ids \cup {<<>>}]                   \* the row it moved

TypeOK ==
  /\ promo \in [Promos -> [held : Nat, used : Nat, bheld : Nat, bused : Nat]]
  /\ code \in [Promos -> [held : Nat, used : Nat]]
  /\ usage \in [Promos \X Buyers -> Nat]
  /\ red \in [Ids -> Redemption]
  /\ order \in [Checkouts -> {"none", "web", "kv", "deleted"}]
  /\ hold \in [Checkouts -> Holding]
  /\ move \in [Movers -> Moving]
  /\ crashes \in 0..MaxCrashes

NewHold == [pc |-> "start", r |-> <<>>, todo |-> <<>>, n |-> 0, undo |-> <<>>]
NewMove == [pc |-> "idle", code |-> <<>>, to |-> "used", found |-> {},
            i |-> <<>>]

Init ==
  /\ promo = [p \in Promos |-> [held |-> 0, used |-> 0, bheld |-> 0, bused |-> 0]]
  /\ code = [p \in Promos |-> [held |-> 0, used |-> 0]]
  /\ usage = [k \in Promos \X Buyers |-> 0]
  /\ red = [i \in Ids |-> [code |-> <<>>, amount |-> 0, status |-> "none"]]
  /\ order = [c \in Checkouts |-> "none"]
  /\ hold = [c \in Checkouts |-> NewHold]
  /\ move = [w \in Movers |-> NewMove]
  /\ crashes = 0

-----------------------------------------------------------------------------
(* The counters: each of these is one conditional update of one document.  *)

HoldsPromo(p, n) ==
  promo' = [promo EXCEPT ![p].held = @ + 1, ![p].bheld = @ + n]

DropsPromo(p, n) ==
  promo' = [promo EXCEPT ![p].held = @ - 1, ![p].bheld = @ - n]

SpendsPromo(p, n) ==
  promo' = [promo EXCEPT ![p].held = @ - 1, ![p].used = @ + 1,
                         ![p].bheld = @ - n, ![p].bused = @ + n]

ReturnsUsage(p, b) ==
  usage' = [usage EXCEPT ![<<p, b>>] = IF @ > 0 THEN @ - 1 ELSE @]

\* Mutant: the use that is asked for is not counted.
PromoHasRoomForOneMore(p, n) ==
  /\ promo[p].used + promo[p].held <= Limit[p]
  /\ promo[p].bused + promo[p].bheld + n <= Budget[p]

\* Mutant: the discount that is asked for is not counted.
PromoHasBudgetLeft(p, n) ==
  /\ promo[p].used + promo[p].held < Limit[p]
  /\ promo[p].bused + promo[p].bheld < Budget[p]

PromoHasRoom(p, n) ==
  /\ promo[p].used + promo[p].held < Limit[p]
  /\ promo[p].bused + promo[p].bheld + n <= Budget[p]

CodeHasRoom(p) == code[p].used + code[p].held < CodeLimit[p]

Limited(p) == BuyerLimit[p] > 0

-----------------------------------------------------------------------------
(* holdPromotion, called for each promotion of the order *)

Goto(c, pc) == hold' = [hold EXCEPT ![c].pc = pc]

\* Mutant: a refusal never releases what the order holds.
RefusedKeeps(h) ==
  [h EXCEPT !.pc = "failed", !.todo = <<>>, !.n = 0, !.undo = <<>>]

\* A refused promotion on goods ends the checkout; one on shipping has what
\* the order holds released first.
Refused(h) ==
  [h EXCEPT !.pc = IF Head(h.todo) \in Goods THEN "failed" ELSE "release",
            !.todo = <<>>, !.n = 0, !.undo = <<>>]

\* Counters raised before the refusal go back one by one, then it is final.
RefusedAfter(h, steps) ==
  IF steps = <<>> THEN Refused(h) ELSE [h EXCEPT !.pc = "undo", !.undo = steps]

UsageTaken(p) == IF Limited(p) THEN <<"usage">> ELSE <<>>

AfterNoRoom(p) == UsageTaken(p)

\* Mutant: a refused code gives back a use of the code, too.
AfterNoCodeToo(p) == <<"promo", "code">> \o UsageTaken(p)

AfterNoCode(p) == <<"promo">> \o UsageTaken(p)

\* Mutant: a lost insert does not give the buyer's use back.
AfterLostInsertKeeps(p) ==
  <<"promo">> \o (IF p \in Coded THEN <<"code">> ELSE <<>>)

AfterLostInsert(p) ==
  <<"promo">> \o (IF p \in Coded THEN <<"code">> ELSE <<>>) \o UsageTaken(p)

Begin(c) ==
  /\ hold[c].pc = "start"
  /\ \E r \in Requests, plan \in Plans :
       hold' = [hold EXCEPT ![c] = [NewHold EXCEPT !.pc = "lookup", !.r = r,
                                                   !.todo = plan]]
  /\ UNCHANGED <<counters, red, order, move, crashes>>

\* The key identifies the reservation.  One that exists belongs to another
\* order code, which reservationReplay never accepts.
Lookup(c) ==
  LET h == hold[c] IN
  /\ h.pc = "lookup"
  /\ IF red[<<Head(h.todo), h.r>>].status = "none"
       THEN \E n \in Amounts :
              hold' = [hold EXCEPT ![c].pc = "usage", ![c].n = n]
       ELSE hold' = [hold EXCEPT ![c] = Refused(h)]
  /\ UNCHANGED <<counters, red, order, move, crashes>>

ReserveUsage(c) ==
  LET h == hold[c]
      p == Head(h.todo)
      k == <<p, BuyerOf[h.r]>>
  IN
  /\ h.pc = "usage"
  /\ \/ ~Limited(p) /\ UNCHANGED usage /\ Goto(c, "promo")
     \/ /\ Limited(p) /\ usage[k] < BuyerLimit[p]
        /\ usage' = [usage EXCEPT ![k] = @ + 1]
        /\ Goto(c, "promo")
     \/ /\ Limited(p) /\ usage[k] >= BuyerLimit[p]
        /\ UNCHANGED usage
        /\ hold' = [hold EXCEPT ![c] = Refused(h)]
  /\ UNCHANGED <<promo, code, red, order, move, crashes>>

\* The filter also asks that the promotion is active, which the staff may
\* change at any time: with room or without, it may not match.
HoldPromo(c) ==
  LET h == hold[c]
      p == Head(h.todo)
  IN
  /\ h.pc = "promo"
  /\ \/ /\ PromoHasRoom(p, h.n)
        /\ HoldsPromo(p, h.n)
        /\ Goto(c, IF p \in Coded THEN "code" ELSE "insert")
     \/ /\ hold' = [hold EXCEPT ![c] = RefusedAfter(h, AfterNoRoom(p))]
        /\ UNCHANGED promo
  /\ UNCHANGED <<code, usage, red, order, move, crashes>>

\* As above for the code, which may have been withdrawn.
HoldCode(c) ==
  LET h == hold[c]
      p == Head(h.todo)
  IN
  /\ h.pc = "code"
  /\ \/ /\ CodeHasRoom(p)
        /\ code' = [code EXCEPT ![p].held = @ + 1]
        /\ Goto(c, "insert")
     \/ /\ hold' = [hold EXCEPT ![c] = RefusedAfter(h, AfterNoCode(p))]
        /\ UNCHANGED code
  /\ UNCHANGED <<promo, usage, red, order, move, crashes>>

\* The unique _id decides between two checkouts with one key.  The loser
\* finds the winner's reservation, for another order, and is refused.
Insert(c) ==
  LET h == hold[c]
      p == Head(h.todo)
      i == <<p, h.r>>
      rest == Tail(h.todo)
  IN
  /\ h.pc = "insert"
  /\ IF red[i].status = "none"
       THEN /\ red' = [red EXCEPT ![i] = [code |-> <<c, "web">>,
                                          amount |-> h.n, status |-> "held"]]
            /\ hold' = [hold EXCEPT
                 ![c].pc = IF rest = <<>> THEN "held" ELSE "lookup",
                 ![c].todo = rest, ![c].n = 0]
       ELSE /\ hold' = [hold EXCEPT ![c] = RefusedAfter(h, AfterLostInsert(p))]
            /\ UNCHANGED red
  /\ UNCHANGED <<counters, order, move, crashes>>

Undo(c) ==
  LET h == hold[c]
      p == Head(h.todo)
  IN
  /\ h.pc = "undo"
  /\ \/ /\ Head(h.undo) = "promo"
        /\ DropsPromo(p, h.n)
        /\ UNCHANGED <<code, usage>>
     \/ /\ Head(h.undo) = "code"
        /\ code' = [code EXCEPT ![p].held = @ - 1]
        /\ UNCHANGED <<promo, usage>>
     \/ /\ Head(h.undo) = "usage"
        /\ ReturnsUsage(p, BuyerOf[h.r])
        /\ UNCHANGED <<promo, code>>
  /\ hold' = [hold EXCEPT ![c] = RefusedAfter(h, Tail(h.undo))]
  /\ UNCHANGED <<red, order, move, crashes>>

-----------------------------------------------------------------------------
(* The rest of the checkout *)

\* The wallet, the campaign or the insert of the order failed.
Abort(c) ==
  /\ hold[c].pc = "held"
  /\ Goto(c, "release")
  /\ UNCHANGED <<counters, red, order, move, crashes>>

Place(c) ==
  /\ hold[c].pc = "held"
  /\ order' = [order EXCEPT ![c] = "web"]
  /\ Goto(c, "placed")
  /\ UNCHANGED <<counters, red, move, crashes>>

\* The push to KV gave the order a code of its own, gave none, or failed.
PushOrder(c) ==
  /\ hold[c].pc = "placed"
  /\ \E next \in {"rename", "done", "release"} : Goto(c, next)
  /\ UNCHANGED <<counters, red, order, move, crashes>>

\* updateMany moves the rows of the old code to the new one, row by row.
RenameRedemption(c) ==
  /\ hold[c].pc = "rename"
  /\ \E i \in Ids : /\ red[i].code = <<c, "web">>
                    /\ red' = [red EXCEPT ![i].code = <<c, "kv">>]
  /\ UNCHANGED <<counters, order, hold, move, crashes>>

\* Only then does the order itself get the new code.
PatchOrder(c) ==
  /\ hold[c].pc = "rename"
  /\ \A i \in Ids : red[i].code # <<c, "web">>
  /\ order' = [order EXCEPT ![c] = "kv"]
  /\ Goto(c, "done")
  /\ UNCHANGED <<counters, red, move, crashes>>

\* The release is over; rollbackOrder deletes the order if there was one.
Fail(c) ==
  /\ hold[c].pc = "release"
  /\ move[c].pc = "done"
  /\ order' = [order EXCEPT ![c] = IF @ = "none" THEN @ ELSE "deleted"]
  /\ Goto(c, "failed")
  /\ UNCHANGED <<counters, red, move, crashes>>

-----------------------------------------------------------------------------
(* transitionHeldRedemptions *)

\* The handler that ends an order reads its code, then does other things.
EndingRead(e) ==
  /\ move[e].pc = "idle"
  /\ \E c \in Checkouts, to \in {"used", "released"} :
       /\ order[c] \in {"web", "kv"}
       /\ move' = [move EXCEPT ![e] = [NewMove EXCEPT !.pc = "find",
                                         !.code = <<c, order[c]>>, !.to = to]]
  /\ UNCHANGED <<counters, red, order, hold, crashes>>

HeldUnder(k) == {i \in Ids : red[i].code = k /\ red[i].status = "held"}

\* The loop goes on with the rows that were found, or is over.
Looping(m, found) ==
  [m EXCEPT !.pc = IF found = {} THEN "done" ELSE "flip", !.found = found,
            !.i = <<>>]

\* Mutant: findOne where the code has find.
EndingFindOne(e) ==
  /\ move[e].pc = "find"
  /\ \E found \in SUBSET HeldUnder(move[e].code) :
       /\ Cardinality(found) <= 1
       /\ move' = [move EXCEPT ![e] = Looping(@, found)]
  /\ UNCHANGED <<counters, red, order, hold, crashes>>

EndingFind(e) ==
  /\ move[e].pc = "find"
  /\ move' = [move EXCEPT ![e] = Looping(@, HeldUnder(@.code))]
  /\ UNCHANGED <<counters, red, order, hold, crashes>>

\* A checkout that gives up releases under the code it started with.
ReleaseFind(c) ==
  LET k == <<c, "web">> IN
  /\ hold[c].pc = "release"
  /\ move[c].pc = "idle"
  /\ move' = [move EXCEPT ![c] =
       Looping([NewMove EXCEPT !.code = k, !.to = "released"], HeldUnder(k))]
  /\ UNCHANGED <<counters, red, order, hold, crashes>>

\* Mutant: the row is moved without asking that it is still held.
FlipBlind(w) ==
  LET m == move[w] IN
  /\ m.pc = "flip"
  /\ \E i \in m.found :
       /\ red' = [red EXCEPT ![i].status = m.to]
       /\ move' = [move EXCEPT ![w].pc = "promo", ![w].i = i,
                               ![w].found = @ \ {i}]
  /\ UNCHANGED <<counters, order, hold, crashes>>

\* Whoever moves the row, moves the counters.
Flip(w) ==
  LET m == move[w] IN
  /\ m.pc = "flip"
  /\ \E i \in m.found :
       IF red[i].status = "held"
         THEN /\ red' = [red EXCEPT ![i].status = m.to]
              /\ move' = [move EXCEPT ![w].pc = "promo", ![w].i = i,
                                      ![w].found = @ \ {i}]
         ELSE /\ move' = [move EXCEPT ![w] = Looping(m, m.found \ {i})]
              /\ UNCHANGED red
  /\ UNCHANGED <<counters, order, hold, crashes>>

\* Only a released use goes back to the buyer.
AfterCode(m) ==
  IF m.to = "released" /\ Limited(m.i[1])
    THEN [m EXCEPT !.pc = "usage"] ELSE Looping(m, m.found)

MovePromo(w) ==
  LET m == move[w]
      p == m.i[1]
      n == red[m.i].amount
  IN
  /\ m.pc = "promo"
  /\ IF m.to = "used" THEN SpendsPromo(p, n) ELSE DropsPromo(p, n)
  /\ move' = [move EXCEPT ![w] =
       IF p \in Coded THEN [m EXCEPT !.pc = "code"] ELSE AfterCode(m)]
  /\ UNCHANGED <<code, usage, red, order, hold, crashes>>

MoveCode(w) ==
  LET m == move[w] IN
  /\ m.pc = "code"
  /\ code' = [code EXCEPT ![m.i[1]].held = @ - 1,
                          ![m.i[1]].used = IF m.to = "used" THEN @ + 1 ELSE @]
  /\ move' = [move EXCEPT ![w] = AfterCode(m)]
  /\ UNCHANGED <<promo, usage, red, order, hold, crashes>>

MoveUsage(w) ==
  LET m == move[w] IN
  /\ m.pc = "usage"
  /\ ReturnsUsage(m.i[1], BuyerOf[m.i[2]])
  /\ move' = [move EXCEPT ![w] = Looping(m, m.found)]
  /\ UNCHANGED <<promo, code, red, order, hold, crashes>>

-----------------------------------------------------------------------------
(* Crashes: a handler dies between two awaits and nothing resumes it. *)

CheckoutOver == {"start", "done", "failed", "crashed"}
MoveOver == {"idle", "done", "crashed"}

CheckoutCrash(c) ==
  /\ hold[c].pc \notin CheckoutOver
  /\ crashes < MaxCrashes
  /\ crashes' = crashes + 1
  /\ Goto(c, "crashed")
  /\ move' = [move EXCEPT ![c] = [NewMove EXCEPT !.pc = "crashed"]]
  /\ UNCHANGED <<counters, red, order>>

EndingCrash(e) ==
  /\ move[e].pc \notin MoveOver
  /\ crashes < MaxCrashes
  /\ crashes' = crashes + 1
  /\ move' = [move EXCEPT ![e] = [NewMove EXCEPT !.pc = "crashed"]]
  /\ UNCHANGED <<counters, red, order, hold>>

-----------------------------------------------------------------------------
CheckoutNext(c) ==
  \/ Begin(c) \/ Lookup(c) \/ ReserveUsage(c) \/ HoldPromo(c) \/ HoldCode(c)
  \/ Insert(c) \/ Undo(c) \/ Abort(c) \/ Place(c) \/ PushOrder(c)
  \/ RenameRedemption(c) \/ PatchOrder(c) \/ ReleaseFind(c) \/ Fail(c)
  \/ CheckoutCrash(c)

EndingNext(e) == EndingRead(e) \/ EndingFind(e) \/ EndingCrash(e)

MoveNext(w) == Flip(w) \/ MovePromo(w) \/ MoveCode(w) \/ MoveUsage(w)

Next ==
  \/ \E c \in Checkouts : CheckoutNext(c)
  \/ \E e \in Endings : EndingNext(e)
  \/ \E w \in Movers : MoveNext(w)

Spec == Init /\ [][Next]_vars

-----------------------------------------------------------------------------
(* Properties *)

\* The redemptions, less the counters that guard them, are what
\* PromotionLedger promises.
Ledger == INSTANCE PromotionLedger WITH
  status <- [i \in Ids |-> red[i].status],
  amount <- [i \in Ids |-> red[i].amount]

\* No crash and no interleaving of holds, undos, releases and payments lets
\* a promotion, its code, its budget or a buyer's share be exceeded, or a
\* redemption be both spent and given back: every step of the handlers is a
\* step of PromotionLedger or changes no redemption.
ImplementsLedger == Ledger!Spec

RowsIn(p, statuses) == {r \in Requests : red[<<p, r>>].status \in statuses}
Total(p, statuses) ==
  SumFunctionOnSet([r \in Requests |-> red[<<p, r>>].amount], RowsIn(p, statuses))
RowsOf(p, b, statuses) == {r \in RowsIn(p, statuses) : BuyerOf[r] = b}

Live == {"held", "used"}

\* Whatever is under way, whatever has crashed, the counters are never below
\* what the redemptions add up to, so a limit tested on a counter holds for
\* the redemptions: an undo gives back only what its own attempt took.
CountersCover ==
  \A p \in Promos :
    /\ promo[p].held >= Cardinality(RowsIn(p, {"held"}))
    /\ promo[p].held + promo[p].used >= Cardinality(RowsIn(p, Live))
    /\ promo[p].bheld >= Total(p, {"held"})
    /\ promo[p].bheld + promo[p].bused >= Total(p, Live)
    /\ p \in Coded =>
         code[p].held + code[p].used >= Cardinality(RowsIn(p, Live))
    /\ Limited(p) => \A b \in Buyers :
         usage[<<p, b>>] >= Cardinality(RowsOf(p, b, Live))

Quiet ==
  /\ \A c \in Checkouts :
       hold[c].pc \in CheckoutOver \cup {"held", "placed", "rename"}
  /\ \A w \in Movers : move[w].pc \in MoveOver

CountersMatch ==
  \A p \in Promos :
    /\ promo[p] = [held  |-> Cardinality(RowsIn(p, {"held"})),
                   used  |-> Cardinality(RowsIn(p, {"used"})),
                   bheld |-> Total(p, {"held"}),
                   bused |-> Total(p, {"used"})]
    /\ p \in Coded =>
         code[p] = [held |-> Cardinality(RowsIn(p, {"held"})),
                    used |-> Cardinality(RowsIn(p, {"used"}))]
    /\ Limited(p) => \A b \in Buyers :
         usage[<<p, b>>] = Cardinality(RowsOf(p, b, Live))

\* When every handler that touches counters has come to its end and none has
\* died, the counters are exactly what the redemptions add up to: nothing is
\* lost or counted twice, whoever raced whom.
Balanced == Quiet /\ crashes = 0 => CountersMatch

RowsFor(c) == {i \in Ids : red[i].code \in {<<c, "web">>, <<c, "kv">>}}

\* A checkout that answered with a failure holds no promotion, even when its
\* goods were held before its shipping was refused, or its order was placed
\* before KV rejected it.
FailedHoldsNothing ==
  \A c \in Checkouts : hold[c].pc = "failed" =>
    \A i \in RowsFor(c) : red[i].status # "held"

\* When a payment or a cancellation has run to its end, nothing is held any
\* more under the code it was given, even if others were at work on the same
\* redemptions: they all ended used or released.
EndedHoldsNothing ==
  \A e \in Endings : move[e].pc = "done" => HeldUnder(move[e].code) = {}

\* "The hold must follow the new code so that payment and cancellation find
\* it" (redemptionService.ts:315): after either has ended, nothing of its
\* order is held.
RenamedIsFound ==
  \A e \in Endings : move[e].pc = "done" =>
    \A i \in RowsFor(move[e].code[1]) : red[i].status # "held"

\* "Stop the process after each write of hold/consume/release -> restart
\* recovers; ledger/counter/claim match" (tests/anti-abuse-ab-2.test.ts:43):
\* with no handler at work the counters match, crash or not.
RecoversFromCrash == Quiet => CountersMatch
=============================================================================
