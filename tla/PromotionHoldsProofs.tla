------------------------ MODULE PromotionHoldsProofs ------------------------
(***************************************************************************)
(* Proofs about PromotionHolds, for any number of checkouts, endings,      *)
(* promotions, buyers, requests and crashes:                               *)
(*   TypeCorrect           TypeOK is an invariant (counters stay Nat);     *)
(*   RedemptionsCovered    so are CountersCover,                           *)
(*   BooksBalance          Balanced,                                       *)
(*   FailuresHoldNothing   FailedHoldsNothing                              *)
(*   EndingsHoldNothing    and EndedHoldsNothing;                          *)
(*   HoldsImplementLedger  the handlers implement PromotionLedger.         *)
(*                                                                         *)
(* The first parts say where the locals of a handler can be (Shapes) and   *)
(* what each action does (the ...Does lemmas), the types of the counters   *)
(* it lowers left aside.                                                   *)
(*                                                                         *)
(* Then each counter is an account (Stands), to which three kinds of owner *)
(* are charged: the redemptions there are, the handlers that moved one and *)
(* still owe its counters, and the checkouts that raised a counter and     *)
(* have no redemption yet.  The inductive invariant is that an account     *)
(* covers what is charged to it, exactly so until a handler dies (Booked): *)
(* every step moves a charge from one owner to another, or the account by  *)
(* what it moves the charges (StepEven).  Types, cover and balance follow, *)
(* and, with the limits on the counters (LimitsKept), the ledger.          *)
(*                                                                         *)
(* The last part is about codes: which of them have redemptions (Fresh),   *)
(* which an ending can have read (Reading), and what a loop still has of   *)
(* those held under its code (Finding).                                    *)
(***************************************************************************)
EXTENDS PromotionHolds, Sums, SequenceTheorems

-----------------------------------------------------------------------------
(* Where the locals of a handler can be                                    *)

Trying == {"lookup", "usage", "promo", "code", "insert", "undo"}
Counting == {"usage", "promo", "code", "insert", "undo"}

\* The counters that are still to be given back, in their order.
UndoLists ==
  {<<"promo">>, <<"code">>, <<"usage">>, <<"promo", "code">>, <<"promo", "usage">>,
   <<"code", "usage">>, <<"promo", "code", "usage">>}

Gives(s, doc) == \E j \in DOMAIN s : s[j] = doc

HoldShape(h) ==
  /\ h.pc \in Trying => h.r \in Requests /\ h.todo \in Plans
  /\ h.pc \in Counting => h.n \in Amounts
  /\ h.pc = "code" => Head(h.todo) \in Coded
  /\ h.pc = "undo" => /\ h.undo \in UndoLists
                      /\ Gives(h.undo, "code") => Head(h.todo) \in Coded
                      /\ Gives(h.undo, "usage") => Limited(Head(h.todo))

MoveShape(m) ==
  /\ m.pc \in {"find", "flip", "promo", "code", "usage", "done"} => m.code \in Codes
  /\ m.pc \in {"promo", "code", "usage"} => m.i \in Ids /\ red[m.i].status # "none"
  /\ m.pc = "code" => m.i[1] \in Coded
  /\ m.pc = "usage" => m.to = "released" /\ Limited(m.i[1])
  /\ \A i \in m.found : red[i].status # "none"

\* The types of TypeOK, but for the counters that a handler lowers: that they
\* stay natural numbers is a matter of what is charged to them.
Typed ==
  /\ promo \in [Promos -> [held : Int, used : Nat, bheld : Int, bused : Nat]]
  /\ code \in [Promos -> [held : Int, used : Nat]]
  /\ usage \in [Promos \X Buyers -> Nat]
  /\ red \in [Ids -> Redemption]
  /\ order \in [Checkouts -> {"none", "web", "kv", "deleted"}]
  /\ hold \in [Checkouts -> Holding]
  /\ move \in [Movers -> Moving]
  /\ crashes \in 0..MaxCrashes

Shapes ==
  /\ \A c \in Checkouts : HoldShape(hold[c])
  /\ \A w \in Movers : MoveShape(move[w])

-----------------------------------------------------------------------------
(* Lists                                                                   *)

LEMMA AmountsAreNat ==
  /\ \A n \in Amounts : n \in Nat /\ n # 0
  /\ \A n \in Amounts \cup {0} : n \in Nat
<1>1. Amounts \subseteq Nat \ {0}
  BY LimitAssumption
<1> QED BY <1>1

LEMMA UndoSteps ==
  ASSUME NEW s \in UndoLists
  PROVE  /\ s # <<>> /\ s \in Seq({"promo", "code", "usage"})
         /\ Head(s) \in {"promo", "code", "usage"} /\ Gives(s, Head(s))
         /\ Tail(s) \in UndoLists \cup {<<>>}
         /\ ~Gives(Tail(s), Head(s))
         /\ \A d \in {"promo", "code", "usage"} : d # Head(s) => (Gives(Tail(s), d) <=> Gives(s, d))
<1>1. CASE s = <<"promo">>
  BY <1>1 DEF UndoLists, Gives
<1>2. CASE s = <<"code">>
  BY <1>2 DEF UndoLists, Gives
<1>3. CASE s = <<"usage">>
  BY <1>3 DEF UndoLists, Gives
<1>4. CASE s = <<"promo", "code">>
  BY <1>4 DEF UndoLists, Gives
<1>5. CASE s = <<"promo", "usage">>
  BY <1>5 DEF UndoLists, Gives
<1>6. CASE s = <<"code", "usage">>
  BY <1>6 DEF UndoLists, Gives
<1>7. CASE s = <<"promo", "code", "usage">>
  BY <1>7 DEF UndoLists, Gives
<1> QED BY <1>1, <1>2, <1>3, <1>4, <1>5, <1>6, <1>7 DEF UndoLists

LEMMA OneAndOne ==
  ASSUME NEW S, NEW a \in S, NEW b \in S
  PROVE  <<a>> \o <<b>> = <<a, b>>
<1> DEFINE s == <<a>>
           r == <<b>>
           u == <<a, b>>
<1>1. /\ s \in Seq(S) /\ r \in Seq(S) /\ u \in Seq(S)
      /\ Len(s) = 1 /\ Len(r) = 1 /\ Len(u) = 2
      /\ s[1] = a /\ r[1] = b
      /\ u[1] = a /\ u[2] = b
  OBVIOUS
<1> HIDE DEF s, r, u
<1>2. /\ s \o r \in Seq(S) /\ Len(s \o r) = 2
      /\ (s \o r)[1] = a /\ (s \o r)[2] = b
  BY <1>1, ConcatProperties
<1>3. \A i \in 1..Len(u) : (s \o r)[i] = u[i]
  BY <1>1, <1>2
<1>4. s \o r = u
  BY <1>1, <1>2, <1>3, SeqEqual
<1> QED BY <1>4 DEF s, r, u

LEMMA TwoAndOne ==
  ASSUME NEW S, NEW a \in S, NEW b \in S, NEW d \in S
  PROVE  <<a, b>> \o <<d>> = <<a, b, d>>
<1> DEFINE s == <<a, b>>
           r == <<d>>
           u == <<a, b, d>>
<1>1. /\ s \in Seq(S) /\ r \in Seq(S) /\ u \in Seq(S)
      /\ Len(s) = 2 /\ Len(r) = 1 /\ Len(u) = 3
      /\ s[1] = a /\ s[2] = b /\ r[1] = d
      /\ u[1] = a /\ u[2] = b /\ u[3] = d
  OBVIOUS
<1> HIDE DEF s, r, u
<1>2. /\ s \o r \in Seq(S) /\ Len(s \o r) = 3
      /\ (s \o r)[1] = a /\ (s \o r)[2] = b /\ (s \o r)[3] = d
  BY <1>1, ConcatProperties
<1>3. \A i \in 1..Len(u) : (s \o r)[i] = u[i]
  BY <1>1, <1>2
<1>4. s \o r = u
  BY <1>1, <1>2, <1>3, SeqEqual
<1> QED BY <1>4 DEF s, r, u

LEMMA PlanSteps ==
  ASSUME NEW s \in Plans
  PROVE  /\ s # <<>> /\ Head(s) \in Promos
         /\ Tail(s) = <<>> \/ (/\ Tail(s) \in Plans /\ Head(Tail(s)) \notin Goods
                               /\ Head(s) \in Goods)
<1>1. CASE s \in {<<p>> : p \in Promos}
  <2>1. PICK p \in Promos : s = <<p>>
    BY <1>1
  <2>2. Head(s) = p /\ Tail(s) = <<>> /\ s # <<>>
    BY <2>1
  <2> QED BY <2>1, <2>2
<1>2. CASE s \in Goods \X (Promos \ Goods)
  <2>1. PICK g \in Goods, p \in Promos \ Goods : s = <<g, p>>
    BY <1>2
  <2>2. Head(s) = g /\ Tail(s) = <<p>> /\ Head(Tail(s)) = p
    BY <2>1
  <2>3. Tail(s) \in Plans
    BY <2>2 DEF Plans
  <2> QED BY <2>1, <2>2, <2>3, KindAssumption
<1> QED BY <1>1, <1>2 DEF Plans

-----------------------------------------------------------------------------
(* What the actions do                                                     *)

\* The locals of checkout c become these, no other checkout's change.
HoldGoes(c, pc, r, todo, n, undo) ==
  /\ hold' \in [Checkouts -> Holding]
  /\ \A d \in Checkouts \ {c} : hold'[d] = hold[d]
  /\ hold'[c].pc = pc /\ hold'[c].r = r /\ hold'[c].todo = todo
  /\ hold'[c].n = n /\ hold'[c].undo = undo

HoldKeeps(c, pc) == HoldGoes(c, pc, hold[c].r, hold[c].todo, hold[c].n, hold[c].undo)

\* A refusal ends the attempt.
Ends(c) ==
  HoldGoes(c, IF Head(hold[c].todo) \in Goods THEN "failed" ELSE "release",
           hold[c].r, <<>>, 0, <<>>)

\* ... once the counters of steps have been given back.
EndsAfter(c, steps) ==
  /\ steps = <<>> => Ends(c)
  /\ steps # <<>> => HoldGoes(c, "undo", hold[c].r, hold[c].todo, hold[c].n, steps)

MoveGoes(w, pc, k, to, found, i) ==
  /\ move' \in [Movers -> Moving]
  /\ \A v \in Movers \ {w} : move'[v] = move[v]
  /\ move'[w].pc = pc /\ move'[w].code = k /\ move'[w].to = to
  /\ move'[w].found = found /\ move'[w].i = i

\* A redemption is written, the others stay.
Writes(i, k, amount, status) ==
  /\ red' \in [Ids -> Redemption]
  /\ \A j \in Ids \ {i} : red'[j] = red[j]
  /\ red'[i].code = k /\ red'[i].amount = amount /\ red'[i].status = status

LEMMA NoUndo == <<>> \in Seq({"promo", "code", "usage"})
  OBVIOUS

LEMMA HoldWritten ==
  ASSUME Typed, NEW c \in Checkouts, NEW x \in Holding, hold' = [hold EXCEPT ![c] = x]
  PROVE  HoldGoes(c, x.pc, x.r, x.todo, x.n, x.undo)
  BY DEF Typed, HoldGoes

LEMMA RefusedGoes ==
  ASSUME Typed, NEW c \in Checkouts, hold' = [hold EXCEPT ![c] = Refused(hold[c])]
  PROVE  Ends(c)
<1>1. hold[c] \in Holding
  BY DEF Typed
<1>2. Refused(hold[c]) \in Holding
  BY <1>1, NoUndo DEF Refused, Holding
<1>3. /\ Refused(hold[c]).pc = IF Head(hold[c].todo) \in Goods THEN "failed" ELSE "release"
      /\ Refused(hold[c]).r = hold[c].r /\ Refused(hold[c]).todo = <<>>
      /\ Refused(hold[c]).n = 0 /\ Refused(hold[c]).undo = <<>>
  BY <1>1 DEF Refused, Holding
<1> QED BY <1>2, <1>3, HoldWritten DEF Ends

LEMMA RefusedAfterGoes ==
  ASSUME Typed, NEW c \in Checkouts, NEW steps \in UndoLists \cup {<<>>},
         hold' = [hold EXCEPT ![c] = RefusedAfter(hold[c], steps)]
  PROVE  EndsAfter(c, steps)
<1>1. CASE steps = <<>>
  BY <1>1, RefusedGoes DEF RefusedAfter, EndsAfter
<1>2. CASE steps # <<>>
  <2> DEFINE x == [hold[c] EXCEPT !.pc = "undo", !.undo = steps]
  <2>1. hold[c] \in Holding
    BY DEF Typed
  <2>2. x \in Holding
    BY <1>2, <2>1, UndoSteps DEF Holding
  <2>3. /\ x.pc = "undo" /\ x.r = hold[c].r /\ x.todo = hold[c].todo
        /\ x.n = hold[c].n /\ x.undo = steps
    BY <2>1 DEF Holding
  <2>4. hold' = [hold EXCEPT ![c] = x]
    BY <1>2 DEF RefusedAfter
  <2> HIDE DEF x
  <2> QED BY <1>2, <2>2, <2>3, <2>4, HoldWritten DEF EndsAfter
<1> QED BY <1>1, <1>2

LEMMA GotoGoes ==
  ASSUME Typed, NEW c \in Checkouts, NEW pc, Goto(c, pc),
         pc \in {"start", "lookup", "usage", "promo", "code", "insert",
                 "undo", "held", "placed", "rename", "release", "done", "failed", "crashed"}
  PROVE  HoldKeeps(c, pc)
<1> DEFINE x == [hold[c] EXCEPT !.pc = pc]
<1>1. hold[c] \in Holding
  BY DEF Typed
<1>2. x \in Holding /\ x.pc = pc /\ x.r = hold[c].r /\ x.todo = hold[c].todo
        /\ x.n = hold[c].n /\ x.undo = hold[c].undo
  BY <1>1 DEF Holding
<1>3. hold' = [hold EXCEPT ![c] = x]
  BY DEF Goto
<1> HIDE DEF x
<1> QED BY <1>2, <1>3, HoldWritten DEF HoldKeeps

-----------------------------------------------------------------------------
(* ... a checkout                                                          *)

LEMMA BeginDoes ==
  ASSUME Typed, NEW c \in Checkouts, Begin(c)
  PROVE  \E r \in Requests, plan \in Plans : HoldGoes(c, "lookup", r, plan, 0, <<>>)
<1>1. PICK r \in Requests, plan \in Plans :
        hold' = [hold EXCEPT ![c] = [NewHold EXCEPT !.pc = "lookup", !.r = r, !.todo = plan]]
  BY DEF Begin
<1> DEFINE x == [NewHold EXCEPT !.pc = "lookup", !.r = r, !.todo = plan]
<1>2. x \in Holding /\ x.pc = "lookup" /\ x.r = r /\ x.todo = plan /\ x.n = 0 /\ x.undo = <<>>
  BY NoUndo DEF Holding, NewHold
<1> HIDE DEF x
<1>3. hold' = [hold EXCEPT ![c] = x]
  BY <1>1 DEF x
<1> QED BY <1>2, <1>3, HoldWritten

LEMMA LookupDoes ==
  ASSUME Typed, NEW c \in Checkouts, Lookup(c)
  PROVE  \/ \E n \in Amounts : HoldGoes(c, "usage", hold[c].r, hold[c].todo, n, hold[c].undo)
         \/ Ends(c)
<1>1. CASE hold' = [hold EXCEPT ![c] = Refused(hold[c])]
  BY <1>1, RefusedGoes
<1>2. ASSUME NEW n \in Amounts, hold' = [hold EXCEPT ![c].pc = "usage", ![c].n = n]
      PROVE  HoldGoes(c, "usage", hold[c].r, hold[c].todo, n, hold[c].undo)
  BY <1>2 DEF Typed, HoldGoes, Holding
<1> QED BY <1>1, <1>2 DEF Lookup

\* A promotion's counters change by these, no other's do.
PromoMoves(p, held, used, bheld, bused) ==
  /\ promo' \in [Promos -> [held : Int, used : Nat, bheld : Int, bused : Nat]]
  /\ \A q \in Promos \ {p} : promo'[q] = promo[q]
  /\ promo'[p].held = promo[p].held + held /\ promo'[p].used = promo[p].used + used
  /\ promo'[p].bheld = promo[p].bheld + bheld /\ promo'[p].bused = promo[p].bused + bused

CodeMoves(p, held, used) ==
  /\ code' \in [Promos -> [held : Int, used : Nat]]
  /\ \A q \in Promos \ {p} : code'[q] = code[q]
  /\ code'[p].held = code[p].held + held /\ code'[p].used = code[p].used + used

UsageBecomes(k, n) ==
  /\ usage' \in [Promos \X Buyers -> Nat]
  /\ \A l \in (Promos \X Buyers) \ {k} : usage'[l] = usage[l]
  /\ usage'[k] = n

LEMMA HoldsPromoMoves ==
  ASSUME Typed, NEW p \in Promos, NEW n \in Nat, HoldsPromo(p, n)
  PROVE  PromoMoves(p, 1, 0, n, 0)
<1>1. /\ promo[p].held \in Int /\ promo[p].used \in Nat
      /\ promo[p].bheld \in Int /\ promo[p].bused \in Nat
  BY DEF Typed
<1>2. promo[p].used + 0 = promo[p].used /\ promo[p].bused + 0 = promo[p].bused
  BY <1>1
<1> DEFINE x == [promo[p] EXCEPT !.held = @ + 1, !.bheld = @ + n]
<1>3. /\ x \in [held : Int, used : Nat, bheld : Int, bused : Nat]
      /\ x.held = promo[p].held + 1 /\ x.used = promo[p].used
      /\ x.bheld = promo[p].bheld + n /\ x.bused = promo[p].bused
  <2>1. promo[p] \in [held : Int, used : Nat, bheld : Int, bused : Nat]
    BY DEF Typed
  <2>2. promo[p].held + 1 \in Int /\ promo[p].bheld + n \in Int
    BY <1>1
  <2> QED BY <1>1, <2>1, <2>2
<1>4. promo' = [promo EXCEPT ![p] = x]
  BY DEF HoldsPromo
<1> HIDE DEF x
<1> QED BY <1>1, <1>2, <1>3, <1>4 DEF Typed, PromoMoves

LEMMA DropsPromoMoves ==
  ASSUME Typed, NEW p \in Promos, NEW n \in Nat, DropsPromo(p, n)
  PROVE  PromoMoves(p, -1, 0, -n, 0)
<1>1. /\ promo[p].held \in Int /\ promo[p].used \in Nat
      /\ promo[p].bheld \in Int /\ promo[p].bused \in Nat
  BY DEF Typed
<1>2. promo[p].used + 0 = promo[p].used /\ promo[p].bused + 0 = promo[p].bused
  BY <1>1
<1> DEFINE x == [promo[p] EXCEPT !.held = @ - 1, !.bheld = @ - n]
<1>3. /\ x \in [held : Int, used : Nat, bheld : Int, bused : Nat]
      /\ x.held = promo[p].held - 1 /\ x.used = promo[p].used
      /\ x.bheld = promo[p].bheld - n /\ x.bused = promo[p].bused
  <2>1. promo[p] \in [held : Int, used : Nat, bheld : Int, bused : Nat]
    BY DEF Typed
  <2>2. promo[p].held - 1 \in Int /\ promo[p].bheld - n \in Int
    BY <1>1
  <2> QED BY <1>1, <2>1, <2>2
<1>4. promo' = [promo EXCEPT ![p] = x]
  BY DEF DropsPromo
<1> HIDE DEF x
<1> QED BY <1>1, <1>2, <1>3, <1>4 DEF Typed, PromoMoves

LEMMA SpendsPromoMoves ==
  ASSUME Typed, NEW p \in Promos, NEW n \in Nat, SpendsPromo(p, n)
  PROVE  PromoMoves(p, -1, 1, -n, n)
<1>1. /\ promo[p].held \in Int /\ promo[p].used \in Nat
      /\ promo[p].bheld \in Int /\ promo[p].bused \in Nat
  BY DEF Typed
<1> QED BY <1>1 DEF Typed, SpendsPromo, PromoMoves

LEMMA ReturnsUsageBecomes ==
  ASSUME Typed, NEW p \in Promos, NEW b \in Buyers, ReturnsUsage(p, b)
  PROVE  UsageBecomes(<<p, b>>, IF usage[<<p, b>>] > 0 THEN usage[<<p, b>>] - 1 ELSE 0)
<1>1. <<p, b>> \in Promos \X Buyers
  OBVIOUS
<1>2. usage[<<p, b>>] \in Nat
  BY <1>1 DEF Typed
<1> QED BY <1>1, <1>2 DEF Typed, ReturnsUsage, UsageBecomes

\* What Shapes says of the promotion and the buyer of an attempt.
LEMMA Attempt ==
  ASSUME Typed, Shapes, NEW c \in Checkouts, hold[c].pc \in Trying
  PROVE  /\ hold[c].r \in Requests /\ hold[c].todo \in Plans
         /\ Head(hold[c].todo) \in Promos /\ BuyerOf[hold[c].r] \in Buyers
         /\ hold[c].pc \in Counting => hold[c].n \in Amounts
<1>1. HoldShape(hold[c])
  BY DEF Shapes
<1>2. hold[c].r \in Requests /\ hold[c].todo \in Plans
  BY <1>1 DEF HoldShape
<1>3. Head(hold[c].todo) \in Promos
  BY <1>2, PlanSteps
<1>4. BuyerOf[hold[c].r] \in Buyers
  BY <1>2, LimitAssumption
<1> QED BY <1>1, <1>2, <1>3, <1>4 DEF HoldShape

LEMMA ReserveUsageDoes ==
  ASSUME Typed, Shapes, NEW c \in Checkouts, ReserveUsage(c)
  PROVE  LET p == Head(hold[c].todo)
             k == <<p, BuyerOf[hold[c].r]>>
         IN \/ ~Limited(p) /\ UNCHANGED usage /\ HoldKeeps(c, "promo")
            \/ /\ Limited(p) /\ usage[k] < BuyerLimit[p]
               /\ UsageBecomes(k, usage[k] + 1) /\ HoldKeeps(c, "promo")
            \/ UNCHANGED usage /\ Ends(c)
<1> DEFINE p == Head(hold[c].todo)
           k == <<p, BuyerOf[hold[c].r]>>
<1>1. k \in Promos \X Buyers
  BY Attempt DEF ReserveUsage, Trying
<1>2. CASE ~Limited(p) /\ UNCHANGED usage /\ Goto(c, "promo")
  BY <1>2, GotoGoes
<1>3. CASE /\ Limited(p) /\ usage[k] < BuyerLimit[p]
           /\ usage' = [usage EXCEPT ![k] = @ + 1] /\ Goto(c, "promo")
  <2>1. HoldKeeps(c, "promo")
    BY <1>3, GotoGoes
  <2> HIDE DEF p, k
  <2>2. UsageBecomes(k, usage[k] + 1)
    BY <1>1, <1>3 DEF Typed, UsageBecomes
  <2> QED BY <1>3, <2>1, <2>2 DEF p, k
<1>4. CASE UNCHANGED usage /\ hold' = [hold EXCEPT ![c] = Refused(hold[c])]
  BY <1>4, RefusedGoes
<1> QED BY <1>2, <1>3, <1>4 DEF ReserveUsage

LEMMA HoldPromoDoes ==
  ASSUME Typed, Shapes, NEW c \in Checkouts, HoldPromo(c)
  PROVE  LET p == Head(hold[c].todo)
         IN \/ /\ PromoHasRoom(p, hold[c].n) /\ PromoMoves(p, 1, 0, hold[c].n, 0)
               /\ HoldKeeps(c, IF p \in Coded THEN "code" ELSE "insert")
            \/ UNCHANGED promo /\ EndsAfter(c, UsageTaken(p))
<1> DEFINE p == Head(hold[c].todo)
<1>1. p \in Promos /\ hold[c].n \in Nat
  BY Attempt, LimitAssumption DEF HoldPromo, Trying, Counting
<1>2. CASE /\ PromoHasRoom(p, hold[c].n) /\ HoldsPromo(p, hold[c].n)
           /\ Goto(c, IF p \in Coded THEN "code" ELSE "insert")
  BY <1>1, <1>2, HoldsPromoMoves, GotoGoes
<1>3. CASE UNCHANGED promo /\ hold' = [hold EXCEPT ![c] = RefusedAfter(hold[c], UsageTaken(p))]
  <2>1. UsageTaken(p) \in UndoLists \cup {<<>>}
    BY DEF UsageTaken, UndoLists
  <2> QED BY <1>3, <2>1, RefusedAfterGoes
<1> QED BY <1>2, <1>3 DEF HoldPromo, AfterNoRoom

LEMMA UndosOf ==
  ASSUME NEW p
  PROVE  /\ UsageTaken(p) \in UndoLists \cup {<<>>}
         /\ AfterNoCode(p) \in UndoLists /\ AfterLostInsert(p) \in UndoLists
         /\ ~Gives(UsageTaken(p), "promo") /\ ~Gives(UsageTaken(p), "code")
         /\ Gives(UsageTaken(p), "usage") <=> Limited(p)
         /\ Gives(AfterNoCode(p), "promo") /\ ~Gives(AfterNoCode(p), "code")
         /\ Gives(AfterNoCode(p), "usage") <=> Limited(p)
         /\ Gives(AfterLostInsert(p), "promo")
         /\ Gives(AfterLostInsert(p), "code") <=> p \in Coded
         /\ Gives(AfterLostInsert(p), "usage") <=> Limited(p)
<1>1. UsageTaken(p) = IF Limited(p) THEN <<"usage">> ELSE <<>>
  BY DEF UsageTaken
<1> DEFINE Docs == {"promo", "code", "usage"}
<1>a. /\ <<"promo">> \o <<"usage">> = <<"promo", "usage">>
      /\ <<"promo">> \o <<"code">> = <<"promo", "code">>
      /\ <<"promo", "code">> \o <<"usage">> = <<"promo", "code", "usage">>
  <2>1. "promo" \in Docs /\ "code" \in Docs /\ "usage" \in Docs
    OBVIOUS
  <2> HIDE DEF Docs
  <2> QED BY <2>1, OneAndOne, TwoAndOne, Zenon
<1>b. /\ <<"promo">> \o <<>> = <<"promo">>
      /\ <<"promo", "code">> \o <<>> = <<"promo", "code">>
  <2>1. <<"promo">> \in Seq(Docs) /\ <<"promo", "code">> \in Seq(Docs)
    OBVIOUS
  <2> HIDE DEF Docs
  <2> QED BY <2>1, ConcatEmptySeq, Zenon
<1>2. AfterNoCode(p) = IF Limited(p) THEN <<"promo", "usage">> ELSE <<"promo">>
  <2>1. CASE Limited(p)
    BY <1>1, <1>a, <2>1, Zenon DEF AfterNoCode
  <2>2. CASE ~Limited(p)
    BY <1>1, <1>b, <2>2, Zenon DEF AfterNoCode
  <2> QED BY <2>1, <2>2
<1>3. AfterLostInsert(p) =
        IF p \in Coded THEN IF Limited(p) THEN <<"promo", "code", "usage">> ELSE <<"promo", "code">>
        ELSE IF Limited(p) THEN <<"promo", "usage">> ELSE <<"promo">>
  <2>1. CASE Limited(p) /\ p \in Coded
    BY <1>1, <1>a, <2>1, Zenon DEF AfterLostInsert
  <2>2. CASE ~Limited(p) /\ p \in Coded
    BY <1>1, <1>a, <1>b, <2>2, Zenon DEF AfterLostInsert
  <2>3. CASE Limited(p) /\ p \notin Coded
    BY <1>1, <1>a, <1>b, <2>3, Zenon DEF AfterLostInsert
  <2>4. CASE ~Limited(p) /\ p \notin Coded
    BY <1>1, <1>b, <2>4, Zenon DEF AfterLostInsert
  <2> QED BY <2>1, <2>2, <2>3, <2>4
<1>4. /\ UsageTaken(p) \in UndoLists \cup {<<>>}
      /\ AfterNoCode(p) \in UndoLists /\ AfterLostInsert(p) \in UndoLists
  BY <1>1, <1>2, <1>3 DEF UndoLists
<1>5. /\ ~Gives(UsageTaken(p), "promo") /\ ~Gives(UsageTaken(p), "code")
      /\ Gives(UsageTaken(p), "usage") <=> Limited(p)
  BY <1>1 DEF Gives
<1>6. /\ Gives(AfterNoCode(p), "promo") /\ ~Gives(AfterNoCode(p), "code")
      /\ Gives(AfterNoCode(p), "usage") <=> Limited(p)
  BY <1>2 DEF Gives
<1>7. /\ Gives(AfterLostInsert(p), "promo")
      /\ Gives(AfterLostInsert(p), "code") <=> p \in Coded
      /\ Gives(AfterLostInsert(p), "usage") <=> Limited(p)
  BY <1>3 DEF Gives
<1> QED BY <1>4, <1>5, <1>6, <1>7

LEMMA HoldCodeDoes ==
  ASSUME Typed, Shapes, NEW c \in Checkouts, HoldCode(c)
  PROVE  LET p == Head(hold[c].todo)
         IN \/ CodeHasRoom(p) /\ CodeMoves(p, 1, 0) /\ HoldKeeps(c, "insert")
            \/ UNCHANGED code /\ EndsAfter(c, AfterNoCode(p))
<1> DEFINE p == Head(hold[c].todo)
<1>1. p \in Promos
  BY Attempt DEF HoldCode, Trying
<1>2. CASE CodeHasRoom(p) /\ code' = [code EXCEPT ![p].held = @ + 1] /\ Goto(c, "insert")
  <2>1. CodeMoves(p, 1, 0)
    BY <1>1, <1>2 DEF Typed, CodeMoves
  <2> QED BY <1>2, <2>1, GotoGoes
<1>3. CASE UNCHANGED code /\ hold' = [hold EXCEPT ![c] = RefusedAfter(hold[c], AfterNoCode(p))]
  BY <1>3, UndosOf, RefusedAfterGoes
<1> QED BY <1>2, <1>3 DEF HoldCode

LEMMA InsertDoes ==
  ASSUME Typed, Shapes, NEW c \in Checkouts, Insert(c)
  PROVE  LET p == Head(hold[c].todo)
             i == <<p, hold[c].r>>
             rest == Tail(hold[c].todo)
         IN \/ /\ i \in Ids /\ red[i].status = "none"
               /\ Writes(i, <<c, "web">>, hold[c].n, "held")
               /\ HoldGoes(c, IF rest = <<>> THEN "held" ELSE "lookup",
                           hold[c].r, rest, 0, hold[c].undo)
            \/ UNCHANGED red /\ EndsAfter(c, AfterLostInsert(p))
<1> DEFINE p == Head(hold[c].todo)
           i == <<p, hold[c].r>>
           rest == Tail(hold[c].todo)
           row == [code |-> <<c, "web">>, amount |-> hold[c].n, status |-> "held"]
<1>1. /\ i \in Ids /\ hold[c].r \in Requests /\ hold[c].n \in Amounts
      /\ rest \in Plans \cup {<<>>}
  BY Attempt, PlanSteps DEF Insert, Trying, Counting, Ids
<1>2. CASE /\ red[i].status = "none" /\ red' = [red EXCEPT ![i] = row]
           /\ hold' = [hold EXCEPT ![c].pc = IF rest = <<>> THEN "held" ELSE "lookup",
                                   ![c].todo = rest, ![c].n = 0]
  <2>1. row \in Redemption
    BY <1>1 DEF Redemption, Codes
  <2>2. Writes(i, <<c, "web">>, hold[c].n, "held")
    <3>1. row.code = <<c, "web">> /\ row.amount = hold[c].n /\ row.status = "held"
      OBVIOUS
    <3> HIDE DEF row, i
    <3> QED BY <1>1, <1>2, <2>1, <3>1 DEF Typed, Writes
  <2>3. HoldGoes(c, IF rest = <<>> THEN "held" ELSE "lookup", hold[c].r, rest, 0, hold[c].undo)
    <3> DEFINE x == [hold[c] EXCEPT !.pc = IF rest = <<>> THEN "held" ELSE "lookup",
                                    !.todo = rest, !.n = 0]
    <3>1. hold[c] \in Holding
      BY DEF Typed
    <3> HIDE DEF rest
    <3>2. /\ x \in Holding /\ x.pc = IF rest = <<>> THEN "held" ELSE "lookup"
          /\ x.r = hold[c].r /\ x.todo = rest /\ x.n = 0 /\ x.undo = hold[c].undo
      BY <1>1, <3>1 DEF Holding
    <3>3. hold' = [hold EXCEPT ![c] = x]
      BY <1>2
    <3> HIDE DEF x
    <3> QED BY <3>2, <3>3, HoldWritten
  <2> QED BY <1>1, <1>2, <2>2, <2>3
<1>3. CASE UNCHANGED red /\ hold' = [hold EXCEPT ![c] = RefusedAfter(hold[c], AfterLostInsert(p))]
  BY <1>3, UndosOf, RefusedAfterGoes
<1> QED BY <1>2, <1>3 DEF Insert

LEMMA UndoDoes ==
  ASSUME Typed, Shapes, NEW c \in Checkouts, Undo(c)
  PROVE  LET p == Head(hold[c].todo)
             b == BuyerOf[hold[c].r]
         IN /\ hold[c].undo \in UndoLists
            /\ EndsAfter(c, Tail(hold[c].undo))
            /\ \/ /\ Head(hold[c].undo) = "promo" /\ PromoMoves(p, -1, 0, -hold[c].n, 0)
                  /\ UNCHANGED <<code, usage>>
               \/ /\ Head(hold[c].undo) = "code" /\ CodeMoves(p, -1, 0)
                  /\ UNCHANGED <<promo, usage>>
               \/ /\ Head(hold[c].undo) = "usage"
                  /\ UsageBecomes(<<p, b>>, IF usage[<<p, b>>] > 0 THEN usage[<<p, b>>] - 1 ELSE 0)
                  /\ UNCHANGED <<promo, code>>
<1> DEFINE p == Head(hold[c].todo)
           b == BuyerOf[hold[c].r]
<1>1. p \in Promos /\ b \in Buyers /\ hold[c].n \in Nat /\ hold[c].undo \in UndoLists
  <2>1. HoldShape(hold[c])
    BY DEF Shapes
  <2> QED BY <2>1, Attempt, LimitAssumption DEF Undo, Trying, Counting, HoldShape
<1>2. EndsAfter(c, Tail(hold[c].undo))
  <2>1. Tail(hold[c].undo) \in UndoLists \cup {<<>>}
    BY <1>1, UndoSteps
  <2> QED BY <2>1, RefusedAfterGoes DEF Undo
<1>3. CASE Head(hold[c].undo) = "promo" /\ DropsPromo(p, hold[c].n) /\ UNCHANGED <<code, usage>>
  BY <1>1, <1>2, <1>3, DropsPromoMoves
<1>4. CASE /\ Head(hold[c].undo) = "code" /\ code' = [code EXCEPT ![p].held = @ - 1]
           /\ UNCHANGED <<promo, usage>>
  <2>1. code[p] \in [held : Int, used : Nat] /\ code[p].held - 1 \in Int
    BY <1>1 DEF Typed
  <2>2. CodeMoves(p, -1, 0)
    <3> HIDE DEF p
    <3> QED BY <1>1, <1>4, <2>1 DEF Typed, CodeMoves
  <2> QED BY <1>1, <1>2, <1>4, <2>2
<1>5. CASE Head(hold[c].undo) = "usage" /\ ReturnsUsage(p, b) /\ UNCHANGED <<promo, code>>
  BY <1>1, <1>2, <1>5, ReturnsUsageBecomes
<1> QED BY <1>3, <1>4, <1>5 DEF Undo

\* Redemptions change no more than the order code they are for.
Renames(i, k) ==
  /\ red' \in [Ids -> Redemption]
  /\ \A j \in Ids \ {i} : red'[j] = red[j]
  /\ red'[i].code = k /\ red'[i].amount = red[i].amount /\ red'[i].status = red[i].status

LEMMA RenameRedemptionDoes ==
  ASSUME Typed, NEW c \in Checkouts, RenameRedemption(c)
  PROVE  \E i \in Ids : red[i].code = <<c, "web">> /\ Renames(i, <<c, "kv">>)
<1>1. PICK i \in Ids : red[i].code = <<c, "web">> /\ red' = [red EXCEPT ![i].code = <<c, "kv">>]
  BY DEF RenameRedemption
<1>2. <<c, "kv">> \in Codes
  BY DEF Codes
<1>3. Renames(i, <<c, "kv">>)
  BY <1>1, <1>2 DEF Typed, Redemption, Renames
<1> QED BY <1>1, <1>3

-----------------------------------------------------------------------------
(* ... and whoever moves redemptions                                       *)

LEMMA MoveWritten ==
  ASSUME Typed, NEW w \in Movers, NEW x \in Moving, move' = [move EXCEPT ![w] = x]
  PROVE  MoveGoes(w, x.pc, x.code, x.to, x.found, x.i)
  BY DEF Typed, MoveGoes

LoopPc(found) == IF found = {} THEN "done" ELSE "flip"

LEMMA LoopingGoes ==
  ASSUME Typed, NEW w \in Movers, NEW m \in Moving, NEW found \in SUBSET Ids,
         move' = [move EXCEPT ![w] = Looping(m, found)]
  PROVE  MoveGoes(w, LoopPc(found), m.code, m.to, found, <<>>)
<1> DEFINE x == [m EXCEPT !.pc = LoopPc(found), !.found = found, !.i = <<>>]
<1>1. /\ x \in Moving /\ x.pc = LoopPc(found) /\ x.code = m.code /\ x.to = m.to
      /\ x.found = found /\ x.i = <<>>
  BY DEF Moving, LoopPc
<1>2. move' = [move EXCEPT ![w] = x]
  BY DEF Looping, LoopPc
<1> HIDE DEF x
<1> QED BY <1>1, <1>2, MoveWritten

LEMMA EndingReadDoes ==
  ASSUME Typed, NEW e \in Endings, EndingRead(e)
  PROVE  \E c \in Checkouts, to \in {"used", "released"} :
           order[c] \in {"web", "kv"} /\ MoveGoes(e, "find", <<c, order[c]>>, to, {}, <<>>)
<1>1. PICK c \in Checkouts, to \in {"used", "released"} :
        /\ order[c] \in {"web", "kv"}
        /\ move' = [move EXCEPT ![e] = [NewMove EXCEPT !.pc = "find",
                                          !.code = <<c, order[c]>>, !.to = to]]
  BY DEF EndingRead
<1> DEFINE x == [NewMove EXCEPT !.pc = "find", !.code = <<c, order[c]>>, !.to = to]
<1>2. <<c, order[c]>> \in Codes
  BY <1>1 DEF Codes
<1>3. /\ x \in Moving /\ x.pc = "find" /\ x.code = <<c, order[c]>> /\ x.to = to
      /\ x.found = {} /\ x.i = <<>>
  BY <1>2 DEF NewMove, Moving
<1>4. move' = [move EXCEPT ![e] = x]
  BY <1>1
<1>5. e \in Movers
  BY DEF Movers
<1> HIDE DEF x
<1>6. MoveGoes(e, "find", <<c, order[c]>>, to, {}, <<>>)
  BY <1>3, <1>4, <1>5, MoveWritten
<1> QED BY <1>1, <1>6

LEMMA HeldUnderIds == ASSUME NEW k PROVE HeldUnder(k) \in SUBSET Ids
  BY DEF HeldUnder

LEMMA EndingFindDoes ==
  ASSUME Typed, NEW e \in Endings, EndingFind(e)
  PROVE  LET k == move[e].code
         IN MoveGoes(e, LoopPc(HeldUnder(k)), k, move[e].to, HeldUnder(k), <<>>)
<1>1. e \in Movers /\ move[e] \in Moving
  BY DEF Typed, Movers
<1>2. move' = [move EXCEPT ![e] = Looping(move[e], HeldUnder(move[e].code))]
  BY <1>1 DEF EndingFind, Typed
<1> QED BY <1>1, <1>2, HeldUnderIds, LoopingGoes

LEMMA ReleaseFindDoes ==
  ASSUME Typed, NEW c \in Checkouts, ReleaseFind(c)
  PROVE  LET k == <<c, "web">>
         IN MoveGoes(c, LoopPc(HeldUnder(k)), k, "released", HeldUnder(k), <<>>)
<1> DEFINE k == <<c, "web">>
           m == [NewMove EXCEPT !.code = k, !.to = "released"]
<1>1. c \in Movers /\ k \in Codes
  BY DEF Movers, Codes
<1>2. m \in Moving /\ m.code = k /\ m.to = "released"
  BY <1>1 DEF NewMove, Moving
<1>3. move' = [move EXCEPT ![c] = Looping(m, HeldUnder(k))]
  BY DEF ReleaseFind
<1> HIDE DEF m, k
<1>4. MoveGoes(c, LoopPc(HeldUnder(k)), k, "released", HeldUnder(k), <<>>)
  BY <1>1, <1>2, <1>3, HeldUnderIds, LoopingGoes
<1> QED BY <1>4 DEF k

\* What Shapes says of the redemption that is being moved.
LEMMA Moved ==
  ASSUME Typed, Shapes, NEW w \in Movers, move[w].pc \in {"promo", "code", "usage"}
  PROVE  /\ move[w].i \in Ids /\ move[w].i[1] \in Promos /\ move[w].i[2] \in Requests
         /\ BuyerOf[move[w].i[2]] \in Buyers /\ red[move[w].i].amount \in Nat
         /\ red[move[w].i].status # "none" /\ move[w].to \in {"used", "released"}
         /\ move[w].found \in SUBSET Ids
<1>1. MoveShape(move[w]) /\ move[w] \in Moving
  BY DEF Shapes, Typed
<1>2. move[w].i \in Ids /\ red[move[w].i].status # "none"
  BY <1>1 DEF MoveShape
<1>3. move[w].i[1] \in Promos /\ move[w].i[2] \in Requests
  BY <1>2 DEF Ids
<1>4. BuyerOf[move[w].i[2]] \in Buyers
  BY <1>3, LimitAssumption
<1>5. red[move[w].i].amount \in Nat
  <2>1. red[move[w].i] \in Redemption
    BY <1>2 DEF Typed
  <2>2. red[move[w].i].amount \in Amounts \cup {0}
    BY <2>1 DEF Redemption
  <2> QED BY <2>2, AmountsAreNat
<1>6. move[w].to \in {"used", "released"} /\ move[w].found \in SUBSET Ids
  BY <1>1 DEF Moving
<1> QED BY <1>2, <1>3, <1>4, <1>5, <1>6

LEMMA FlipDoes ==
  ASSUME Typed, NEW w \in Movers, Flip(w)
  PROVE  \E i \in move[w].found :
           \/ /\ red[i].status = "held" /\ i \in Ids
              /\ Writes(i, red[i].code, red[i].amount, move[w].to)
              /\ MoveGoes(w, "promo", move[w].code, move[w].to, move[w].found \ {i}, i)
           \/ /\ red[i].status # "held" /\ UNCHANGED red
              /\ MoveGoes(w, LoopPc(move[w].found \ {i}), move[w].code, move[w].to,
                          move[w].found \ {i}, <<>>)
<1> DEFINE m == move[w]
<1>1. m \in Moving
  BY DEF Typed
<1>2. PICK i \in m.found :
        IF red[i].status = "held"
          THEN /\ red' = [red EXCEPT ![i].status = m.to]
               /\ move' = [move EXCEPT ![w].pc = "promo", ![w].i = i,
                                       ![w].found = @ \ {i}]
          ELSE /\ move' = [move EXCEPT ![w] = Looping(m, m.found \ {i})]
               /\ UNCHANGED red
  BY DEF Flip
<1>3. /\ i \in Ids /\ m.found \in SUBSET Ids /\ m.to \in {"used", "released"}
      /\ m.found \ {i} \in SUBSET Ids
  BY <1>1, <1>2 DEF Moving
<1>4. ASSUME red[i].status = "held", red' = [red EXCEPT ![i].status = m.to],
             move' = [move EXCEPT ![w].pc = "promo", ![w].i = i, ![w].found = @ \ {i}]
      PROVE  /\ Writes(i, red[i].code, red[i].amount, m.to)
             /\ MoveGoes(w, "promo", m.code, m.to, m.found \ {i}, i)
  <2> DEFINE x == [m EXCEPT !.pc = "promo", !.i = i, !.found = @ \ {i}]
  <2>1. /\ x \in Moving /\ x.pc = "promo" /\ x.code = m.code /\ x.to = m.to
        /\ x.found = m.found \ {i} /\ x.i = i
    BY <1>1, <1>3 DEF Moving
  <2>2. move' = [move EXCEPT ![w] = x]
    BY <1>4
  <2> HIDE DEF x
  <2>3. MoveGoes(w, "promo", m.code, m.to, m.found \ {i}, i)
    BY <2>1, <2>2, MoveWritten
  <2> HIDE DEF m
  <2>4. Writes(i, red[i].code, red[i].amount, m.to)
    BY <1>3, <1>4 DEF Typed, Redemption, Writes
  <2> QED BY <2>3, <2>4
<1>5. ASSUME red[i].status # "held",
             move' = [move EXCEPT ![w] = Looping(m, m.found \ {i})]
      PROVE  MoveGoes(w, LoopPc(m.found \ {i}), m.code, m.to, m.found \ {i}, <<>>)
  BY <1>1, <1>3, <1>5, LoopingGoes
<1> QED BY <1>2, <1>3, <1>4, <1>5

\* Where the loop goes once the counters of the code are done with.
GoesAfterCode(w) ==
  IF move[w].to = "released" /\ Limited(move[w].i[1])
    THEN MoveGoes(w, "usage", move[w].code, move[w].to, move[w].found, move[w].i)
    ELSE MoveGoes(w, LoopPc(move[w].found), move[w].code, move[w].to, move[w].found, <<>>)

LEMMA AfterCodeGoes ==
  ASSUME Typed, NEW w \in Movers, move' = [move EXCEPT ![w] = AfterCode(move[w])]
  PROVE  GoesAfterCode(w)
<1> DEFINE m == move[w]
<1>1. m \in Moving /\ m.found \in SUBSET Ids
  BY DEF Typed, Moving
<1>2. CASE m.to = "released" /\ Limited(m.i[1])
  <2> DEFINE x == [m EXCEPT !.pc = "usage"]
  <2>1. /\ x \in Moving /\ x.pc = "usage" /\ x.code = m.code /\ x.to = m.to
        /\ x.found = m.found /\ x.i = m.i
    BY <1>1 DEF Moving
  <2>2. move' = [move EXCEPT ![w] = x]
    BY <1>2 DEF AfterCode
  <2> HIDE DEF x
  <2> QED BY <1>2, <2>1, <2>2, MoveWritten DEF GoesAfterCode
<1>3. CASE ~(m.to = "released" /\ Limited(m.i[1]))
  <2>1. move' = [move EXCEPT ![w] = Looping(m, m.found)]
    BY <1>3 DEF AfterCode
  <2>2. MoveGoes(w, LoopPc(m.found), m.code, m.to, m.found, <<>>)
    BY <1>1, <2>1, LoopingGoes
  <2> QED BY <1>3, <2>2 DEF GoesAfterCode
<1> QED BY <1>2, <1>3

LEMMA MovePromoDoes ==
  ASSUME Typed, Shapes, NEW w \in Movers, MovePromo(w)
  PROVE  LET m == move[w]
             p == m.i[1]
             n == red[m.i].amount
         IN /\ m.to = "used" => PromoMoves(p, -1, 1, -n, n)
            /\ m.to = "released" => PromoMoves(p, -1, 0, -n, 0)
            /\ p \in Coded => MoveGoes(w, "code", m.code, m.to, m.found, m.i)
            /\ p \notin Coded => GoesAfterCode(w)
<1> DEFINE m == move[w]
           p == m.i[1]
           n == red[m.i].amount
<1>1. p \in Promos /\ n \in Nat /\ m \in Moving
  BY Moved DEF MovePromo, Typed
<1>2. ASSUME m.to = "used" PROVE PromoMoves(p, -1, 1, -n, n)
  <2>1. SpendsPromo(p, n)
    BY <1>2 DEF MovePromo
  <2> HIDE DEF p, n, m
  <2> QED BY <1>1, <2>1, SpendsPromoMoves
<1>3. ASSUME m.to = "released" PROVE PromoMoves(p, -1, 0, -n, 0)
  <2>1. DropsPromo(p, n)
    BY <1>3 DEF MovePromo
  <2> HIDE DEF p, n, m
  <2> QED BY <1>1, <2>1, DropsPromoMoves
<1>4. ASSUME p \in Coded PROVE MoveGoes(w, "code", m.code, m.to, m.found, m.i)
  <2> DEFINE x == [m EXCEPT !.pc = "code"]
  <2>1. /\ x \in Moving /\ x.pc = "code" /\ x.code = m.code /\ x.to = m.to
        /\ x.found = m.found /\ x.i = m.i
    BY <1>1 DEF Moving
  <2>2. move' = [move EXCEPT ![w] = x]
    BY <1>4 DEF MovePromo
  <2> HIDE DEF x
  <2> QED BY <2>1, <2>2, MoveWritten
<1>5. ASSUME p \notin Coded PROVE GoesAfterCode(w)
  <2>1. move' = [move EXCEPT ![w] = AfterCode(m)]
    BY <1>5 DEF MovePromo
  <2> QED BY <2>1, AfterCodeGoes
<1> QED BY <1>2, <1>3, <1>4, <1>5

LEMMA MoveCodeDoes ==
  ASSUME Typed, Shapes, NEW w \in Movers, MoveCode(w)
  PROVE  LET m == move[w]
         IN /\ m.to = "used" => CodeMoves(m.i[1], -1, 1)
            /\ m.to = "released" => CodeMoves(m.i[1], -1, 0)
            /\ GoesAfterCode(w)
<1> DEFINE m == move[w]
           p == m.i[1]
<1>1. p \in Promos
  BY Moved DEF MoveCode
<1>2. code[p].held \in Int /\ code[p].used \in Nat
  BY <1>1 DEF Typed
<1>3. code' = [code EXCEPT ![p].held = @ - 1, ![p].used = IF m.to = "used" THEN @ + 1 ELSE @]
  BY DEF MoveCode
<1> DEFINE x == [code[p] EXCEPT !.held = @ - 1, !.used = IF m.to = "used" THEN @ + 1 ELSE @]
<1>4. /\ x \in [held : Int, used : Nat] /\ x.held = code[p].held - 1
      /\ x.used = IF m.to = "used" THEN code[p].used + 1 ELSE code[p].used
  <2>1. code[p] \in [held : Int, used : Nat]
    BY <1>1 DEF Typed
  <2>2. code[p].held - 1 \in Int /\ code[p].used + 1 \in Nat
    BY <1>2
  <2> QED BY <1>2, <2>1, <2>2
<1>5. code' = [code EXCEPT ![p] = x]
  BY <1>3
<1> HIDE DEF x, p
<1>6. /\ m.to = "used" => CodeMoves(p, -1, 1)
      /\ m.to = "released" => CodeMoves(p, -1, 0)
  BY <1>1, <1>2, <1>4, <1>5 DEF Typed, CodeMoves
<1>7. GoesAfterCode(w)
  BY AfterCodeGoes DEF MoveCode
<1> QED BY <1>6, <1>7 DEF p

LEMMA MoveUsageDoes ==
  ASSUME Typed, Shapes, NEW w \in Movers, MoveUsage(w)
  PROVE  LET m == move[w]
             k == <<m.i[1], BuyerOf[m.i[2]]>>
         IN /\ UsageBecomes(k, IF usage[k] > 0 THEN usage[k] - 1 ELSE 0)
            /\ MoveGoes(w, LoopPc(m.found), m.code, m.to, m.found, <<>>)
<1> DEFINE m == move[w]
<1>1. /\ m.i[1] \in Promos /\ BuyerOf[m.i[2]] \in Buyers /\ m.found \in SUBSET Ids
      /\ m \in Moving
  BY Moved DEF MoveUsage, Typed
<1>2. ReturnsUsage(m.i[1], BuyerOf[m.i[2]])
  BY DEF MoveUsage
<1>3. move' = [move EXCEPT ![w] = Looping(m, m.found)]
  BY DEF MoveUsage
<1> QED BY <1>1, <1>2, <1>3, ReturnsUsageBecomes, LoopingGoes

LEMMA CheckoutCrashDoes ==
  ASSUME Typed, NEW c \in Checkouts, CheckoutCrash(c)
  PROVE  HoldKeeps(c, "crashed") /\ MoveGoes(c, "crashed", <<>>, "used", {}, <<>>)
<1> DEFINE x == [NewMove EXCEPT !.pc = "crashed"]
<1>1. /\ x \in Moving /\ x.pc = "crashed" /\ x.code = <<>> /\ x.to = "used"
      /\ x.found = {} /\ x.i = <<>>
  BY DEF NewMove, Moving
<1>2. move' = [move EXCEPT ![c] = x] /\ c \in Movers
  BY DEF CheckoutCrash, Movers
<1> HIDE DEF x
<1>3. MoveGoes(c, "crashed", <<>>, "used", {}, <<>>)
  BY <1>1, <1>2, MoveWritten
<1> QED BY <1>3, GotoGoes DEF CheckoutCrash

LEMMA EndingCrashDoes ==
  ASSUME Typed, NEW e \in Endings, EndingCrash(e)
  PROVE  MoveGoes(e, "crashed", <<>>, "used", {}, <<>>)
<1> DEFINE x == [NewMove EXCEPT !.pc = "crashed"]
<1>1. /\ x \in Moving /\ x.pc = "crashed" /\ x.code = <<>> /\ x.to = "used"
      /\ x.found = {} /\ x.i = <<>>
  BY DEF NewMove, Moving
<1>2. move' = [move EXCEPT ![e] = x] /\ e \in Movers
  BY DEF EndingCrash, Movers
<1> HIDE DEF x
<1> QED BY <1>1, <1>2, MoveWritten

-----------------------------------------------------------------------------
(* Types and shapes                                                        *)

\* A redemption, once there, stays.
RowsStay == \A i \in Ids : red[i].status # "none" => red'[i].status # "none"

LEMMA TypedShapesInit == Init => Typed /\ Shapes
<1> SUFFICES ASSUME Init PROVE Typed /\ Shapes
  OBVIOUS
<1>1. /\ promo \in [Promos -> [held : Int, used : Nat, bheld : Int, bused : Nat]]
      /\ code \in [Promos -> [held : Int, used : Nat]]
      /\ usage \in [Promos \X Buyers -> Nat]
  BY DEF Init
<1>2. red \in [Ids -> Redemption]
  BY DEF Init, Redemption
<1>3. hold \in [Checkouts -> Holding] /\ \A c \in Checkouts : hold[c].pc = "start"
  <2>1. NewHold \in Holding /\ NewHold.pc = "start"
    BY NoUndo DEF NewHold, Holding
  <2> QED BY <2>1 DEF Init
<1>4. /\ move \in [Movers -> Moving]
      /\ \A w \in Movers : move[w].pc = "idle" /\ move[w].found = {}
  <2>1. NewMove \in Moving /\ NewMove.pc = "idle" /\ NewMove.found = {}
    BY DEF NewMove, Moving
  <2> QED BY <2>1 DEF Init
<1>5. Typed
  BY <1>1, <1>2, <1>3, <1>4, LimitAssumption DEF Init, Typed
<1>6. Shapes
  BY <1>3, <1>4 DEF Shapes, HoldShape, MoveShape, Trying, Counting
<1> QED BY <1>5, <1>6

\* Whoever does nothing keeps its shape.
LEMMA OthersShape ==
  ASSUME Typed, Shapes, RowsStay
  PROVE  /\ \A c \in Checkouts : hold'[c] = hold[c] => HoldShape(hold[c])'
         /\ \A w \in Movers : move'[w] = move[w] => MoveShape(move[w])'
<1>1. ASSUME NEW c \in Checkouts, hold'[c] = hold[c]
      PROVE  HoldShape(hold[c])'
  BY <1>1 DEF Shapes, HoldShape
<1>2. ASSUME NEW w \in Movers, move'[w] = move[w]
      PROVE  MoveShape(move[w])'
  <2>1. MoveShape(move[w]) /\ move[w] \in Moving
    BY DEF Shapes, Typed
  <2>2. move[w].found \subseteq Ids
    BY <2>1 DEF Moving
  <2>3. /\ move'[w].pc = move[w].pc /\ move'[w].code = move[w].code /\ move'[w].to = move[w].to
        /\ move'[w].found = move[w].found /\ move'[w].i = move[w].i
    BY <1>2
  <2>4. \A i \in move'[w].found : red'[i].status # "none"
    BY <2>1, <2>2, <2>3 DEF MoveShape, RowsStay
  <2>5. move'[w].pc \in {"promo", "code", "usage"} =>
          move'[w].i \in Ids /\ red'[move'[w].i].status # "none"
    BY <2>1, <2>3 DEF MoveShape, RowsStay
  <2> QED BY <2>1, <2>3, <2>4, <2>5 DEF MoveShape
<1> QED BY <1>1, <1>2

\* ... and so has the checkout that did something, when its new locals have
\* theirs.
LEMMA CheckoutShapes ==
  ASSUME Typed, Shapes, RowsStay, NEW c \in Checkouts, UNCHANGED move,
         HoldShape(hold[c])', \A d \in Checkouts \ {c} : hold'[d] = hold[d]
  PROVE  Shapes'
<1>1. \A d \in Checkouts : HoldShape(hold[d])'
  BY OthersShape
<1>2. \A w \in Movers : MoveShape(move[w])'
  BY OthersShape
<1> QED BY <1>1, <1>2 DEF Shapes

LEMMA MoverShapes ==
  ASSUME Typed, Shapes, RowsStay, NEW w \in Movers, UNCHANGED hold,
         MoveShape(move[w])', \A v \in Movers \ {w} : move'[v] = move[v]
  PROVE  Shapes'
<1>1. \A d \in Checkouts : HoldShape(hold[d])'
  BY OthersShape
<1>2. \A v \in Movers : MoveShape(move[v])'
  BY OthersShape
<1> QED BY <1>1, <1>2 DEF Shapes

\* The redemptions under a code are held, so they are there.
LEMMA HeldUnderThere ==
  ASSUME NEW k
  PROVE  \A i \in HeldUnder(k) : i \in Ids /\ red[i].status # "none"
  BY DEF HeldUnder

\* A refused checkout, or one that gives counters back.
LEMMA EndsShape ==
  ASSUME Typed, Shapes, NEW c \in Checkouts, Ends(c)
  PROVE  HoldShape(hold[c])' /\ hold'[c].pc \in {"failed", "release"}
<1>1. hold'[c].pc \in {"failed", "release"}
  BY DEF Ends, HoldGoes
<1> QED BY <1>1 DEF HoldShape, Trying, Counting

LEMMA EndsAfterShape ==
  ASSUME Typed, Shapes, NEW c \in Checkouts, NEW steps \in UndoLists \cup {<<>>},
         EndsAfter(c, steps), hold[c].pc \in Counting,
         Gives(steps, "code") => Head(hold[c].todo) \in Coded,
         Gives(steps, "usage") => Limited(Head(hold[c].todo))
  PROVE  HoldShape(hold[c])' /\ \A d \in Checkouts \ {c} : hold'[d] = hold[d]
<1>1. CASE steps = <<>>
  BY <1>1, EndsShape DEF EndsAfter, Ends, HoldGoes
<1>2. CASE steps # <<>>
  <2>1. HoldGoes(c, "undo", hold[c].r, hold[c].todo, hold[c].n, steps)
    BY <1>2 DEF EndsAfter
  <2>2. hold[c].r \in Requests /\ hold[c].todo \in Plans /\ hold[c].n \in Amounts
    BY Attempt DEF Trying, Counting
  <2> QED BY <1>2, <2>1, <2>2 DEF HoldGoes, HoldShape
<1> QED BY <1>1, <1>2

LEMMA AttemptStep ==
  ASSUME Typed, Shapes, NEW c \in Checkouts,
         \/ Begin(c) \/ Lookup(c) \/ ReserveUsage(c) \/ HoldPromo(c) \/ HoldCode(c)
         \/ Insert(c) \/ Undo(c)
  PROVE  Typed' /\ Shapes' /\ RowsStay
<1> DEFINE p == Head(hold[c].todo)
           Kept == \A d \in Checkouts \ {c} : hold'[d] = hold[d]
<1>0. ASSUME UNCHANGED <<red, move>>, HoldShape(hold[c])', Kept
      PROVE  Shapes' /\ RowsStay
  <2>1. RowsStay
    BY <1>0 DEF RowsStay
  <2> QED BY <1>0, <2>1, CheckoutShapes
<1>1. CASE Begin(c)
  <2>1. PICK r \in Requests, plan \in Plans : HoldGoes(c, "lookup", r, plan, 0, <<>>)
    BY <1>1, BeginDoes
  <2>2. Typed'
    BY <1>1, <2>1 DEF Begin, Typed, HoldGoes, counters
  <2>3. HoldShape(hold[c])' /\ Kept
    BY <2>1 DEF HoldGoes, HoldShape, Trying, Counting
  <2> QED BY <1>0, <1>1, <2>2, <2>3 DEF Begin
<1>2. CASE Lookup(c)
  <2>1. \/ \E n \in Amounts : HoldGoes(c, "usage", hold[c].r, hold[c].todo, n, hold[c].undo)
        \/ Ends(c)
    BY <1>2, LookupDoes
  <2>2. Typed'
    BY <1>2, <2>1 DEF Lookup, Typed, HoldGoes, counters, Ends
  <2>3. hold[c].r \in Requests /\ hold[c].todo \in Plans
    BY <1>2, Attempt DEF Lookup, Trying
  <2>4. HoldShape(hold[c])' /\ Kept
    <3>1. CASE Ends(c)
      BY <3>1, EndsShape DEF Ends, HoldGoes
    <3>2. ASSUME NEW n \in Amounts, HoldGoes(c, "usage", hold[c].r, hold[c].todo, n, hold[c].undo)
          PROVE  HoldShape(hold[c])' /\ Kept
      BY <2>3, <3>2 DEF HoldGoes, HoldShape
    <3> QED BY <2>1, <3>1, <3>2
  <2> QED BY <1>0, <1>2, <2>2, <2>4 DEF Lookup
<1>3. CASE ReserveUsage(c)
  <2>1. \/ HoldKeeps(c, "promo")
        \/ Ends(c)
    BY <1>3, ReserveUsageDoes
  <2>2. usage' \in [Promos \X Buyers -> Nat]
    BY <1>3, ReserveUsageDoes DEF UsageBecomes, Typed
  <2>3. Typed'
    BY <1>3, <2>1, <2>2 DEF ReserveUsage, Typed, HoldKeeps, HoldGoes, Ends
  <2>4. hold[c].r \in Requests /\ hold[c].todo \in Plans /\ hold[c].n \in Amounts
    BY <1>3, Attempt DEF ReserveUsage, Trying, Counting
  <2>5. HoldShape(hold[c])' /\ Kept
    <3>1. CASE Ends(c)
      BY <3>1, EndsShape DEF Ends, HoldGoes
    <3>2. CASE HoldKeeps(c, "promo")
      BY <2>4, <3>2 DEF HoldKeeps, HoldGoes, HoldShape
    <3> QED BY <2>1, <3>1, <3>2
  <2> QED BY <1>0, <1>3, <2>3, <2>5 DEF ReserveUsage
<1>4. CASE HoldPromo(c)
  <2>1. \/ HoldKeeps(c, IF p \in Coded THEN "code" ELSE "insert")
        \/ EndsAfter(c, UsageTaken(p))
    BY <1>4, HoldPromoDoes
  <2>2. promo' \in [Promos -> [held : Int, used : Nat, bheld : Int, bused : Nat]]
    BY <1>4, HoldPromoDoes DEF PromoMoves, Typed
  <2>3. Typed'
    BY <1>4, <2>1, <2>2 DEF HoldPromo, Typed, HoldKeeps, HoldGoes, EndsAfter, Ends
  <2>4. hold[c].r \in Requests /\ hold[c].todo \in Plans /\ hold[c].n \in Amounts
    BY <1>4, Attempt DEF HoldPromo, Trying, Counting
  <2>5. HoldShape(hold[c])' /\ Kept
    <3>1. CASE EndsAfter(c, UsageTaken(p))
      BY <1>4, <3>1, UndosOf, EndsAfterShape DEF HoldPromo, Counting
    <3>2. CASE HoldKeeps(c, IF p \in Coded THEN "code" ELSE "insert")
      BY <2>4, <3>2 DEF HoldKeeps, HoldGoes, HoldShape
    <3> QED BY <2>1, <3>1, <3>2
  <2> QED BY <1>0, <1>4, <2>3, <2>5 DEF HoldPromo
<1>5. CASE HoldCode(c)
  <2>1. \/ HoldKeeps(c, "insert")
        \/ EndsAfter(c, AfterNoCode(p))
    BY <1>5, HoldCodeDoes
  <2>2. code' \in [Promos -> [held : Int, used : Nat]]
    BY <1>5, HoldCodeDoes DEF CodeMoves, Typed
  <2>3. Typed'
    BY <1>5, <2>1, <2>2 DEF HoldCode, Typed, HoldKeeps, HoldGoes, EndsAfter, Ends
  <2>4. hold[c].r \in Requests /\ hold[c].todo \in Plans /\ hold[c].n \in Amounts
    BY <1>5, Attempt DEF HoldCode, Trying, Counting
  <2>5. HoldShape(hold[c])' /\ Kept
    <3>1. CASE EndsAfter(c, AfterNoCode(p))
      BY <1>5, <3>1, UndosOf, EndsAfterShape DEF HoldCode, Counting
    <3>2. CASE HoldKeeps(c, "insert")
      BY <2>4, <3>2 DEF HoldKeeps, HoldGoes, HoldShape
    <3> QED BY <2>1, <3>1, <3>2
  <2> QED BY <1>0, <1>5, <2>3, <2>5 DEF HoldCode
<1>6. CASE Insert(c)
  <2> DEFINE i == <<p, hold[c].r>>
             rest == Tail(hold[c].todo)
  <2>1. \/ /\ i \in Ids /\ Writes(i, <<c, "web">>, hold[c].n, "held")
           /\ HoldGoes(c, IF rest = <<>> THEN "held" ELSE "lookup",
                       hold[c].r, rest, 0, hold[c].undo)
        \/ UNCHANGED red /\ EndsAfter(c, AfterLostInsert(p))
    BY <1>6, InsertDoes
  <2>2. hold[c].r \in Requests /\ rest \in Plans \cup {<<>>}
    BY <1>6, Attempt, PlanSteps DEF Insert, Trying, Counting
  <2> HIDE DEF i, rest
  <2>3. Typed'
    BY <1>6, <2>1 DEF Insert, Typed, HoldGoes, EndsAfter, Ends, Writes, counters
  <2>4. HoldShape(hold[c])' /\ Kept
    <3>1. CASE EndsAfter(c, AfterLostInsert(p))
      BY <1>6, <3>1, UndosOf, EndsAfterShape DEF Insert, Counting
    <3>2. CASE HoldGoes(c, IF rest = <<>> THEN "held" ELSE "lookup",
                        hold[c].r, rest, 0, hold[c].undo)
      BY <2>2, <3>2 DEF HoldGoes, HoldShape, Trying, Counting
    <3> QED BY <2>1, <3>1, <3>2
  <2>5. RowsStay
    BY <2>1 DEF Writes, RowsStay
  <2> QED BY <1>6, <2>3, <2>4, <2>5, CheckoutShapes DEF Insert
<1>7. CASE Undo(c)
  <2>1. hold[c].undo \in UndoLists /\ EndsAfter(c, Tail(hold[c].undo))
    BY <1>7, UndoDoes
  <2>2. /\ promo' \in [Promos -> [held : Int, used : Nat, bheld : Int, bused : Nat]]
        /\ code' \in [Promos -> [held : Int, used : Nat]]
        /\ usage' \in [Promos \X Buyers -> Nat]
    BY <1>7, UndoDoes DEF PromoMoves, CodeMoves, UsageBecomes, Typed
  <2>3. Typed'
    BY <1>7, <2>1, <2>2 DEF Undo, Typed, HoldGoes, EndsAfter, Ends
  <2>4. /\ Tail(hold[c].undo) \in UndoLists \cup {<<>>}
        /\ \A d \in {"promo", "code", "usage"} :
             Gives(Tail(hold[c].undo), d) => Gives(hold[c].undo, d)
    BY <2>1, UndoSteps
  <2>5. HoldShape(hold[c])
    BY DEF Shapes
  <2>6. HoldShape(hold[c])' /\ Kept
    BY <1>7, <2>1, <2>4, <2>5, EndsAfterShape DEF Undo, Counting, HoldShape
  <2> QED BY <1>0, <1>7, <2>3, <2>6 DEF Undo
<1> QED BY <1>1, <1>2, <1>3, <1>4, <1>5, <1>6, <1>7

LEMMA OrderStep ==
  ASSUME Typed, Shapes, NEW c \in Checkouts,
         \/ Abort(c) \/ Place(c) \/ PushOrder(c) \/ RenameRedemption(c)
         \/ PatchOrder(c) \/ Fail(c)
  PROVE  Typed' /\ Shapes' /\ RowsStay
<1>1. ASSUME NEW pc \in {"release", "placed", "rename", "done", "failed"}, Goto(c, pc),
             UNCHANGED <<counters, red, move, crashes>>,
             order' \in [Checkouts -> {"none", "web", "kv", "deleted"}]
      PROVE  Typed' /\ Shapes' /\ RowsStay
  <2>1. HoldKeeps(c, pc)
    BY <1>1, GotoGoes
  <2>2. Typed'
    BY <1>1, <2>1 DEF Typed, HoldKeeps, HoldGoes, counters
  <2>3. HoldShape(hold[c])' /\ \A d \in Checkouts \ {c} : hold'[d] = hold[d]
    BY <2>1 DEF HoldKeeps, HoldGoes, HoldShape, Trying, Counting
  <2>4. RowsStay
    BY <1>1 DEF RowsStay
  <2> QED BY <1>1, <2>2, <2>3, <2>4, CheckoutShapes
<1>2. order \in [Checkouts -> {"none", "web", "kv", "deleted"}]
  BY DEF Typed
<1>3. CASE Abort(c)
  BY <1>1, <1>2, <1>3 DEF Abort
<1>4. CASE Place(c)
  BY <1>1, <1>2, <1>4 DEF Place
<1>5. CASE PushOrder(c)
  BY <1>1, <1>2, <1>5 DEF PushOrder
<1>6. CASE PatchOrder(c)
  BY <1>1, <1>2, <1>6 DEF PatchOrder
<1>7. CASE Fail(c)
  BY <1>1, <1>2, <1>7 DEF Fail
<1>8. CASE RenameRedemption(c)
  <2>1. PICK i \in Ids : Renames(i, <<c, "kv">>)
    BY <1>8, RenameRedemptionDoes
  <2>2. Typed'
    BY <1>8, <2>1 DEF RenameRedemption, Renames, Typed, counters
  <2>3. RowsStay
    BY <2>1 DEF Renames, RowsStay
  <2>4. HoldShape(hold[c])' /\ UNCHANGED <<hold, move>>
    BY <1>8, <2>3, OthersShape DEF RenameRedemption
  <2> QED BY <2>2, <2>3, <2>4, CheckoutShapes
<1> QED BY <1>3, <1>4, <1>5, <1>6, <1>7, <1>8

\* The loop goes on, or is over.
LEMMA LoopShape ==
  ASSUME Typed, Shapes, RowsStay, NEW w \in Movers, NEW k \in Codes, NEW to,
         NEW found \in SUBSET Ids, \A i \in found : red[i].status # "none",
         MoveGoes(w, LoopPc(found), k, to, found, <<>>)
  PROVE  MoveShape(move[w])'
<1>1. LoopPc(found) \in {"done", "flip"}
  BY DEF LoopPc
<1>2. \A i \in found : red'[i].status # "none"
  BY DEF RowsStay
<1> QED BY <1>1, <1>2 DEF MoveGoes, MoveShape

LEMMA EndingStep ==
  ASSUME Typed, Shapes, NEW w \in Movers,
         \/ w \in Endings /\ EndingRead(w)
         \/ w \in Endings /\ EndingFind(w)
         \/ w \in Endings /\ EndingCrash(w)
         \/ w \in Checkouts /\ ReleaseFind(w)
  PROVE  Typed' /\ Shapes' /\ RowsStay
<1>1. UNCHANGED <<promo, code, usage, red, order, hold>>
  BY DEF EndingRead, EndingFind, EndingCrash, ReleaseFind, counters
<1>2. RowsStay
  BY <1>1 DEF RowsStay
<1>0. ASSUME MoveShape(move[w])', crashes' \in 0..MaxCrashes,
             move' \in [Movers -> Moving], \A v \in Movers \ {w} : move'[v] = move[v]
      PROVE  Typed' /\ Shapes' /\ RowsStay
  <2>1. Typed'
    BY <1>0, <1>1 DEF Typed
  <2> QED BY <1>0, <1>1, <1>2, <2>1, MoverShapes
<1>3. crashes \in 0..MaxCrashes /\ MaxCrashes \in Nat
  BY LimitAssumption DEF Typed
<1>4. ASSUME w \in Endings, EndingRead(w)
      PROVE  Typed' /\ Shapes' /\ RowsStay
  <2>1. PICK c \in Checkouts, to \in {"used", "released"} :
          order[c] \in {"web", "kv"} /\ MoveGoes(w, "find", <<c, order[c]>>, to, {}, <<>>)
    BY <1>4, EndingReadDoes
  <2>2. <<c, order[c]>> \in Codes
    BY <2>1 DEF Codes
  <2>3. MoveShape(move[w])'
    BY <2>1, <2>2 DEF MoveGoes, MoveShape
  <2> QED BY <1>0, <1>3, <1>4, <2>1, <2>3 DEF MoveGoes, EndingRead
<1>5. ASSUME w \in Endings, EndingFind(w)
      PROVE  Typed' /\ Shapes' /\ RowsStay
  <2> DEFINE k == move[w].code
  <2>1. MoveGoes(w, LoopPc(HeldUnder(k)), k, move[w].to, HeldUnder(k), <<>>)
    BY <1>5, EndingFindDoes
  <2>2. k \in Codes
    BY <1>5 DEF Shapes, MoveShape, EndingFind
  <2>3. MoveShape(move[w])'
    BY <1>2, <2>1, <2>2, HeldUnderThere, HeldUnderIds, LoopShape
  <2> QED BY <1>0, <1>3, <1>5, <2>1, <2>3 DEF MoveGoes, EndingFind
<1>6. ASSUME w \in Checkouts, ReleaseFind(w)
      PROVE  Typed' /\ Shapes' /\ RowsStay
  <2> DEFINE k == <<w, "web">>
  <2>1. MoveGoes(w, LoopPc(HeldUnder(k)), k, "released", HeldUnder(k), <<>>)
    BY <1>6, ReleaseFindDoes
  <2>2. k \in Codes
    BY <1>6 DEF Codes
  <2> HIDE DEF k
  <2>3. MoveShape(move[w])'
    BY <1>2, <2>1, <2>2, HeldUnderThere, HeldUnderIds, LoopShape
  <2> QED BY <1>0, <1>3, <1>6, <2>1, <2>3 DEF MoveGoes, ReleaseFind
<1>7. ASSUME w \in Endings, EndingCrash(w)
      PROVE  Typed' /\ Shapes' /\ RowsStay
  <2>1. MoveGoes(w, "crashed", <<>>, "used", {}, <<>>)
    BY <1>7, EndingCrashDoes
  <2>2. MoveShape(move[w])'
    BY <2>1 DEF MoveGoes, MoveShape
  <2>3. crashes' \in 0..MaxCrashes
    BY <1>3, <1>7 DEF EndingCrash
  <2> QED BY <1>0, <2>1, <2>2, <2>3 DEF MoveGoes
<1> QED BY <1>4, <1>5, <1>6, <1>7

LEMMA CrashStep ==
  ASSUME Typed, Shapes, NEW c \in Checkouts, CheckoutCrash(c)
  PROVE  Typed' /\ Shapes' /\ RowsStay
<1>1. HoldKeeps(c, "crashed") /\ MoveGoes(c, "crashed", <<>>, "used", {}, <<>>)
  BY CheckoutCrashDoes
<1>2. RowsStay
  BY DEF RowsStay, CheckoutCrash
<1>3. crashes' \in 0..MaxCrashes
  <2>1. crashes \in 0..MaxCrashes /\ MaxCrashes \in Nat
    BY LimitAssumption DEF Typed
  <2> QED BY <2>1 DEF CheckoutCrash
<1>4. Typed'
  BY <1>1, <1>3 DEF CheckoutCrash, Typed, HoldKeeps, HoldGoes, MoveGoes, counters
<1>5. \A d \in Checkouts : HoldShape(hold[d])'
  <2>1. HoldShape(hold[c])'
    BY <1>1 DEF HoldKeeps, HoldGoes, HoldShape, Trying, Counting
  <2> QED BY <1>1, <1>2, <2>1, OthersShape DEF HoldKeeps, HoldGoes
<1>6. \A v \in Movers : MoveShape(move[v])'
  <2>1. MoveShape(move[c])'
    BY <1>1 DEF MoveGoes, MoveShape
  <2> QED BY <1>1, <1>2, <2>1, OthersShape DEF MoveGoes
<1> QED BY <1>2, <1>4, <1>5, <1>6 DEF Shapes

LEMMA MoveStep ==
  ASSUME Typed, Shapes, NEW w \in Movers, MoveNext(w)
  PROVE  Typed' /\ Shapes' /\ RowsStay
<1> DEFINE m == move[w]
<1>0. ASSUME RowsStay, MoveShape(move[w])', move' \in [Movers -> Moving],
             \A v \in Movers \ {w} : move'[v] = move[v],
             promo' \in [Promos -> [held : Int, used : Nat, bheld : Int, bused : Nat]],
             code' \in [Promos -> [held : Int, used : Nat]],
             usage' \in [Promos \X Buyers -> Nat], red' \in [Ids -> Redemption]
      PROVE  Typed' /\ Shapes' /\ RowsStay
  <2>1. UNCHANGED <<order, hold, crashes>>
    BY DEF MoveNext, Flip, MovePromo, MoveCode, MoveUsage
  <2>2. Typed'
    BY <1>0, <2>1 DEF Typed
  <2> QED BY <1>0, <2>1, <2>2, MoverShapes
<1>1. MoveShape(m) /\ m \in Moving
  BY DEF Shapes, Typed
<1>2. /\ promo \in [Promos -> [held : Int, used : Nat, bheld : Int, bused : Nat]]
      /\ code \in [Promos -> [held : Int, used : Nat]]
      /\ usage \in [Promos \X Buyers -> Nat] /\ red \in [Ids -> Redemption]
  BY DEF Typed
<1>3. CASE Flip(w)
  <2>1. PICK i \in m.found :
           \/ /\ red[i].status = "held" /\ i \in Ids
              /\ Writes(i, red[i].code, red[i].amount, m.to)
              /\ MoveGoes(w, "promo", m.code, m.to, m.found \ {i}, i)
           \/ /\ red[i].status # "held" /\ UNCHANGED red
              /\ MoveGoes(w, LoopPc(m.found \ {i}), m.code, m.to, m.found \ {i}, <<>>)
    BY <1>3, FlipDoes
  <2>2. m.to \in {"used", "released"} /\ m.found \in SUBSET Ids /\ m.code \in Codes
    BY <1>1, <1>3 DEF Moving, MoveShape, Flip
  <2>3. RowsStay /\ red' \in [Ids -> Redemption]
    BY <1>2, <2>1, <2>2 DEF Writes, RowsStay
  <2>4. \A j \in m.found \ {i} : red[j].status # "none"
    BY <1>1 DEF MoveShape
  <2>5. MoveShape(move[w])'
    <3>1. CASE MoveGoes(w, LoopPc(m.found \ {i}), m.code, m.to, m.found \ {i}, <<>>)
      <4> DEFINE found == m.found \ {i}
      <4>1. found \in SUBSET Ids
        BY <2>2
      <4> HIDE DEF found, m
      <4> QED BY <2>2, <2>3, <2>4, <3>1, <4>1, LoopShape DEF found
    <3>2. CASE /\ i \in Ids /\ Writes(i, red[i].code, red[i].amount, m.to)
               /\ MoveGoes(w, "promo", m.code, m.to, m.found \ {i}, i)
      <4>1. red'[i].status # "none"
        BY <2>2, <3>2 DEF Writes
      <4>2. \A j \in m.found \ {i} : red'[j].status # "none"
        BY <2>2, <2>3, <2>4 DEF RowsStay
      <4> QED BY <2>2, <3>2, <4>1, <4>2 DEF MoveGoes, MoveShape
    <3> QED BY <2>1, <3>1, <3>2
  <2>6. move' \in [Movers -> Moving] /\ \A v \in Movers \ {w} : move'[v] = move[v]
    BY <2>1 DEF MoveGoes
  <2> QED BY <1>0, <1>2, <1>3, <2>3, <2>5, <2>6 DEF Flip, counters
<1>4. ASSUME RowsStay, GoesAfterCode(w), m.pc \in {"promo", "code"}
      PROVE  /\ MoveShape(move[w])' /\ move' \in [Movers -> Moving]
             /\ \A v \in Movers \ {w} : move'[v] = move[v]
  <2>1. m.i \in Ids /\ red[m.i].status # "none" /\ m.found \in SUBSET Ids /\ m.code \in Codes
    BY <1>1, <1>4 DEF MoveShape, Moving
  <2>2. /\ \A j \in m.found : red[j].status # "none"
        /\ \A j \in m.found : red'[j].status # "none"
        /\ red'[m.i].status # "none"
    BY <1>1, <1>4, <2>1 DEF MoveShape, RowsStay
  <2>3. CASE /\ m.to = "released" /\ Limited(m.i[1])
             /\ MoveGoes(w, "usage", m.code, m.to, m.found, m.i)
    BY <2>1, <2>2, <2>3 DEF MoveGoes, MoveShape
  <2>4. CASE MoveGoes(w, LoopPc(m.found), m.code, m.to, m.found, <<>>)
    <3>1. MoveShape(move[w])'
      <4> HIDE DEF m
      <4> QED BY <1>4, <2>1, <2>2, <2>4, LoopShape
    <3> QED BY <2>4, <3>1 DEF MoveGoes
  <2> QED BY <1>4, <2>3, <2>4 DEF GoesAfterCode
<1>5. CASE MovePromo(w)
  <2>1. RowsStay
    BY <1>5 DEF MovePromo, RowsStay
  <2>2. promo' \in [Promos -> [held : Int, used : Nat, bheld : Int, bused : Nat]]
    BY <1>5, MovePromoDoes, Moved DEF PromoMoves, MovePromo
  <2>3. /\ MoveShape(move[w])' /\ move' \in [Movers -> Moving]
        /\ \A v \in Movers \ {w} : move'[v] = move[v]
    <3>1. CASE m.i[1] \in Coded
      <4>1. MoveGoes(w, "code", m.code, m.to, m.found, m.i)
        BY <1>5, <3>1, MovePromoDoes
      <4>2. m.i \in Ids /\ red'[m.i].status # "none" /\ m.code \in Codes
        BY <1>1, <1>5, <2>1 DEF MoveShape, MovePromo, RowsStay
      <4>3. \A j \in m.found : red'[j].status # "none"
        BY <1>1, <1>5 DEF MoveShape, MovePromo
      <4> QED BY <3>1, <4>1, <4>2, <4>3 DEF MoveGoes, MoveShape
    <3>2. CASE m.i[1] \notin Coded
      BY <1>4, <1>5, <2>1, <3>2, MovePromoDoes DEF MovePromo
    <3> QED BY <3>1, <3>2
  <2> QED BY <1>0, <1>2, <1>5, <2>1, <2>2, <2>3 DEF MovePromo
<1>6. CASE MoveCode(w)
  <2>1. RowsStay
    BY <1>6 DEF MoveCode, RowsStay
  <2>2. code' \in [Promos -> [held : Int, used : Nat]]
    BY <1>6, MoveCodeDoes, Moved DEF CodeMoves, MoveCode
  <2>3. GoesAfterCode(w)
    BY <1>6, MoveCodeDoes
  <2> QED BY <1>0, <1>2, <1>4, <1>6, <2>1, <2>2, <2>3 DEF MoveCode
<1>7. CASE MoveUsage(w)
  <2>1. RowsStay
    BY <1>7 DEF MoveUsage, RowsStay
  <2>2. usage' \in [Promos \X Buyers -> Nat]
    BY <1>7, MoveUsageDoes DEF UsageBecomes
  <2>3. MoveGoes(w, LoopPc(m.found), m.code, m.to, m.found, <<>>)
    BY <1>7, MoveUsageDoes
  <2>4. /\ m.found \in SUBSET Ids /\ m.code \in Codes
        /\ \A j \in m.found : red[j].status # "none"
    BY <1>1, <1>7 DEF MoveShape, Moving, MoveUsage
  <2>5. MoveShape(move[w])'
    <3> HIDE DEF m
    <3> QED BY <2>1, <2>3, <2>4, LoopShape
  <2> QED BY <1>0, <1>2, <1>7, <2>1, <2>2, <2>3, <2>5 DEF MoveGoes, MoveUsage
<1> QED BY <1>3, <1>5, <1>6, <1>7 DEF MoveNext

LEMMA TypedShapesNext ==
  ASSUME Typed, Shapes, [Next]_vars
  PROVE  Typed' /\ Shapes' /\ RowsStay
<1>1. CASE UNCHANGED vars
  <2>1. Typed'
    BY <1>1 DEF Typed, vars
  <2>2. RowsStay
    BY <1>1 DEF RowsStay, vars
  <2>3. Shapes'
    BY <1>1, <2>2, OthersShape DEF Shapes, vars
  <2> QED BY <2>1, <2>2, <2>3
<1>2. ASSUME NEW c \in Checkouts, CheckoutNext(c)
      PROVE  Typed' /\ Shapes' /\ RowsStay
  <2>1. c \in Movers
    BY DEF Movers
  <2> QED BY <1>2, <2>1, AttemptStep, OrderStep, EndingStep, CrashStep DEF CheckoutNext
<1>3. ASSUME NEW e \in Endings, EndingNext(e)
      PROVE  Typed' /\ Shapes' /\ RowsStay
  <2>1. e \in Movers
    BY DEF Movers
  <2> QED BY <1>3, <2>1, EndingStep DEF EndingNext
<1>4. ASSUME NEW w \in Movers, MoveNext(w)
      PROVE  Typed' /\ Shapes' /\ RowsStay
  BY <1>4, MoveStep
<1> QED BY <1>1, <1>2, <1>3, <1>4 DEF Next

LEMMA AlwaysShaped == Spec => [](Typed /\ Shapes)
<1>1. Init => Typed /\ Shapes
  BY TypedShapesInit
<1>2. Typed /\ Shapes /\ [Next]_vars => (Typed /\ Shapes)'
  BY TypedShapesNext
<1> QED BY <1>1, <1>2, PTL DEF Spec

-----------------------------------------------------------------------------
(* Accounts                                                                *)

PromoAccounts == {"held", "live", "bheld", "blive"}
CodeAccounts == {"cheld", "clive"}
Accounts == PromoAccounts \cup CodeAccounts \cup {"usage"}

\* The accounts of what is held and of what is held or used.
Lasting(a) == a \in {"live", "blive", "clive", "usage"}

\* The accounts that a promotion has: one without a code, or without a limit
\* for each buyer, has none for them.  Only "usage" is kept for each buyer.
Open(a, p, b) ==
  /\ a \in Accounts /\ p \in Promos
  /\ a \in CodeAccounts => p \in Coded
  /\ a = "usage" => Limited(p) /\ b \in Buyers

Worth(a, n) == IF a \in {"bheld", "blive"} THEN n ELSE 1

\* What the counters say.
Stands(a, p, b) ==
  IF a = "held" THEN promo[p].held
  ELSE IF a = "live" THEN promo[p].held + promo[p].used
  ELSE IF a = "bheld" THEN promo[p].bheld
  ELSE IF a = "blive" THEN promo[p].bheld + promo[p].bused
  ELSE IF a = "cheld" THEN code[p].held
  ELSE IF a = "clive" THEN code[p].held + code[p].used
  ELSE usage[<<p, b>>]

\* What a redemption is charged ...
OnRow(a, p, b, r) ==
  IF /\ \/ red[<<p, r>>].status = "held"
        \/ (red[<<p, r>>].status = "used" /\ Lasting(a))
     /\ a = "usage" => BuyerOf[r] = b
    THEN Worth(a, red[<<p, r>>].amount) ELSE 0

\* ... a handler that moved a redemption and has not yet moved its counters ...
Owes(m, a) ==
  /\ \/ m.pc = "promo"
     \/ (m.pc = "code" /\ a \notin PromoAccounts)
     \/ (m.pc = "usage" /\ a = "usage")
  /\ Lasting(a) => m.to = "released"

OnMove(a, p, b, w) ==
  IF /\ Owes(move[w], a) /\ move[w].i[1] = p
     /\ a = "usage" => BuyerOf[move[w].i[2]] = b
    THEN Worth(a, red[move[w].i].amount) ELSE 0

\* ... and a checkout that raised a counter and has not yet a redemption.
DocOf(a) ==
  IF a \in PromoAccounts THEN "promo" ELSE IF a \in CodeAccounts THEN "code" ELSE "usage"

Took(h, a) ==
  \/ h.pc = "insert"
  \/ (h.pc = "code" /\ a \notin CodeAccounts)
  \/ (h.pc = "promo" /\ a = "usage")
  \/ (h.pc = "undo" /\ Gives(h.undo, DocOf(a)))

OnHold(a, p, b, c) ==
  IF /\ Took(hold[c], a) /\ Head(hold[c].todo) = p
     /\ a = "usage" => BuyerOf[hold[c].r] = b
    THEN Worth(a, hold[c].n) ELSE 0

OnRows(a, p, b) == SumFunctionOnSet([r \in Requests |-> OnRow(a, p, b, r)], Requests)
OnMoves(a, p, b) == SumFunctionOnSet([w \in Movers |-> OnMove(a, p, b, w)], Movers)
OnHolds(a, p, b) == SumFunctionOnSet([c \in Checkouts |-> OnHold(a, p, b, c)], Checkouts)

Charged(a, p, b) == OnRows(a, p, b) + OnMoves(a, p, b) + OnHolds(a, p, b)

\* The counters cover what is charged to them, and are exactly that as long
\* as no handler has died.
Booked ==
  \A a \in Accounts, p \in Promos, b \in Buyers \cup {<<>>} : Open(a, p, b) =>
    /\ Stands(a, p, b) >= Charged(a, p, b)
    /\ crashes = 0 => Stands(a, p, b) = Charged(a, p, b)

\* A step changes an account by what it changes of the charges.
Evens(a, p, b) ==
  Stands(a, p, b)' - Charged(a, p, b)' = Stands(a, p, b) - Charged(a, p, b)

LEMMA FiniteKinds == IsFiniteSet(Requests) /\ IsFiniteSet(Movers) /\ IsFiniteSet(Checkouts)
  BY KindAssumption, FS_Union DEF Movers

LEMMA OnRowNat ==
  ASSUME Typed, NEW a, NEW p \in Promos, NEW b, NEW r \in Requests
  PROVE  OnRow(a, p, b, r) \in Nat
<1>1. <<p, r>> \in Ids
  BY DEF Ids
<1>2. red[<<p, r>>].amount \in Amounts \cup {0}
  BY <1>1 DEF Typed, Redemption
<1>3. red[<<p, r>>].amount \in Nat
  BY <1>2, AmountsAreNat
<1> QED BY <1>3 DEF OnRow, Worth

LEMMA OnMoveNat ==
  ASSUME Typed, Shapes, NEW a, NEW p, NEW b, NEW w \in Movers
  PROVE  OnMove(a, p, b, w) \in Nat
<1>1. Owes(move[w], a) => red[move[w].i].amount \in Nat
  BY Moved DEF Owes
<1> QED BY <1>1 DEF OnMove, Worth

LEMMA OnHoldNat ==
  ASSUME Typed, NEW a, NEW p, NEW b, NEW c \in Checkouts
  PROVE  OnHold(a, p, b, c) \in Nat
<1>1. hold[c].n \in Amounts \cup {0}
  BY DEF Typed, Holding
<1>2. hold[c].n \in Nat
  BY <1>1, AmountsAreNat
<1> QED BY <1>2 DEF OnHold, Worth

LEMMA ChargesNat ==
  ASSUME Typed, Shapes, NEW a, NEW p \in Promos, NEW b
  PROVE  /\ OnRows(a, p, b) \in Nat /\ OnMoves(a, p, b) \in Nat /\ OnHolds(a, p, b) \in Nat
         /\ Charged(a, p, b) \in Nat
<1>1. OnRows(a, p, b) \in Nat
  <2> DEFINE fun == [r \in Requests |-> OnRow(a, p, b, r)]
  <2>1. \A r \in Requests : fun[r] \in Nat
    BY OnRowNat
  <2> HIDE DEF fun
  <2>2. SumFunctionOnSet(fun, Requests) \in Nat
    BY <2>1, SumNat, FiniteKinds
  <2> QED BY <2>2 DEF fun, OnRows
<1>2. OnMoves(a, p, b) \in Nat
  <2> DEFINE fun == [w \in Movers |-> OnMove(a, p, b, w)]
  <2>1. \A w \in Movers : fun[w] \in Nat
    BY OnMoveNat
  <2> HIDE DEF fun
  <2>2. SumFunctionOnSet(fun, Movers) \in Nat
    BY <2>1, SumNat, FiniteKinds
  <2> QED BY <2>2 DEF fun, OnMoves
<1>3. OnHolds(a, p, b) \in Nat
  <2> DEFINE fun == [c \in Checkouts |-> OnHold(a, p, b, c)]
  <2>1. \A c \in Checkouts : fun[c] \in Nat
    BY OnHoldNat
  <2> HIDE DEF fun
  <2>2. SumFunctionOnSet(fun, Checkouts) \in Nat
    BY <2>1, SumNat, FiniteKinds
  <2> QED BY <2>2 DEF fun, OnHolds
<1> QED BY <1>1, <1>2, <1>3 DEF Charged

\* Each charge is part of the sum.
LEMMA HoldWithin ==
  ASSUME Typed, Shapes, NEW a, NEW p \in Promos, NEW b, NEW c \in Checkouts
  PROVE  OnHold(a, p, b, c) <= OnHolds(a, p, b) /\ OnHold(a, p, b, c) <= Charged(a, p, b)
<1> DEFINE fun == [d \in Checkouts |-> OnHold(a, p, b, d)]
           rest == Checkouts \ {c}
<1>1. \A d \in Checkouts : fun[d] \in Nat
  BY OnHoldNat
<1>2. fun[c] = OnHold(a, p, b, c)
  OBVIOUS
<1>3. OnHolds(a, p, b) = SumFunctionOnSet(fun, Checkouts)
  BY DEF OnHolds
<1>4. IsFiniteSet(rest) /\ \A d \in rest : fun[d] \in Nat
  BY <1>1, FiniteKinds, FS_RemoveElement
<1> HIDE DEF fun
<1>5. SumFunctionOnSet(fun, Checkouts) = fun[c] + SumFunctionOnSet(fun, rest)
  BY <1>1, FiniteKinds, SumStep
<1> HIDE DEF rest
<1>6. SumFunctionOnSet(fun, rest) \in Nat
  BY <1>4, SumNat
<1> QED BY <1>1, <1>2, <1>3, <1>5, <1>6, ChargesNat DEF Charged

LEMMA MoveWithin ==
  ASSUME Typed, Shapes, NEW a, NEW p \in Promos, NEW b, NEW w \in Movers
  PROVE  OnMove(a, p, b, w) <= Charged(a, p, b)
<1> DEFINE fun == [v \in Movers |-> OnMove(a, p, b, v)]
           rest == Movers \ {w}
<1>1. \A v \in Movers : fun[v] \in Nat
  BY OnMoveNat
<1>2. fun[w] = OnMove(a, p, b, w)
  OBVIOUS
<1>3. OnMoves(a, p, b) = SumFunctionOnSet(fun, Movers)
  BY DEF OnMoves
<1>4. IsFiniteSet(rest) /\ \A v \in rest : fun[v] \in Nat
  BY <1>1, FiniteKinds, FS_RemoveElement
<1> HIDE DEF fun
<1>5. SumFunctionOnSet(fun, Movers) = fun[w] + SumFunctionOnSet(fun, rest)
  BY <1>1, FiniteKinds, SumStep
<1> HIDE DEF rest
<1>6. SumFunctionOnSet(fun, rest) \in Nat
  BY <1>4, SumNat
<1> QED BY <1>1, <1>2, <1>3, <1>5, <1>6, ChargesNat DEF Charged

\* What a step that changes one charge of a kind changes of their sum.
LEMMA RowsChange ==
  ASSUME Typed, NEW a, NEW p \in Promos, NEW b, NEW r \in Requests,
         OnRow(a, p, b, r)' \in Int,
         \A s \in Requests \ {r} : OnRow(a, p, b, s)' = OnRow(a, p, b, s)
  PROVE  OnRows(a, p, b)' = OnRows(a, p, b) - OnRow(a, p, b, r) + OnRow(a, p, b, r)'
<1> DEFINE fun == [s \in Requests |-> OnRow(a, p, b, s)]
           gun == [s \in Requests |-> OnRow(a, p, b, s)']
<1>1. \A s \in Requests : fun[s] \in Int
  BY OnRowNat
<1>2. \A s \in Requests : gun[s] \in Int
  BY <1>1
<1>3. \A s \in Requests \ {r} : gun[s] = fun[s]
  OBVIOUS
<1>4. fun[r] = OnRow(a, p, b, r) /\ gun[r] = OnRow(a, p, b, r)'
  OBVIOUS
<1>5. /\ OnRows(a, p, b) = SumFunctionOnSet(fun, Requests)
      /\ OnRows(a, p, b)' = SumFunctionOnSet(gun, Requests)
  BY DEF OnRows
<1> HIDE DEF fun, gun
<1>6. SumFunctionOnSet(gun, Requests) = SumFunctionOnSet(fun, Requests) - fun[r] + gun[r]
  BY <1>1, <1>2, <1>3, FiniteKinds, SumChange
<1> QED BY <1>4, <1>5, <1>6

LEMMA RowsSame ==
  ASSUME NEW a, NEW p, NEW b,
         \A r \in Requests : OnRow(a, p, b, r)' = OnRow(a, p, b, r)
  PROVE  OnRows(a, p, b)' = OnRows(a, p, b)
<1> DEFINE fun == [s \in Requests |-> OnRow(a, p, b, s)]
           gun == [s \in Requests |-> OnRow(a, p, b, s)']
<1>1. \A s \in Requests : gun[s] = fun[s]
  OBVIOUS
<1>2. /\ OnRows(a, p, b) = SumFunctionOnSet(fun, Requests)
      /\ OnRows(a, p, b)' = SumFunctionOnSet(gun, Requests)
  BY DEF OnRows
<1> HIDE DEF fun, gun
<1>3. SumFunctionOnSet(gun, Requests) = SumFunctionOnSet(fun, Requests)
  BY <1>1, FiniteKinds, SumSame
<1> QED BY <1>2, <1>3

LEMMA MovesChange ==
  ASSUME Typed, Shapes, NEW a, NEW p \in Promos, NEW b, NEW w \in Movers,
         OnMove(a, p, b, w)' \in Int,
         \A v \in Movers \ {w} : OnMove(a, p, b, v)' = OnMove(a, p, b, v)
  PROVE  OnMoves(a, p, b)' = OnMoves(a, p, b) - OnMove(a, p, b, w) + OnMove(a, p, b, w)'
<1> DEFINE fun == [v \in Movers |-> OnMove(a, p, b, v)]
           gun == [v \in Movers |-> OnMove(a, p, b, v)']
<1>1. \A v \in Movers : fun[v] \in Int
  BY OnMoveNat
<1>2. \A v \in Movers : gun[v] \in Int
  BY <1>1
<1>3. \A v \in Movers \ {w} : gun[v] = fun[v]
  OBVIOUS
<1>4. fun[w] = OnMove(a, p, b, w) /\ gun[w] = OnMove(a, p, b, w)'
  OBVIOUS
<1>5. /\ OnMoves(a, p, b) = SumFunctionOnSet(fun, Movers)
      /\ OnMoves(a, p, b)' = SumFunctionOnSet(gun, Movers)
  BY DEF OnMoves
<1> HIDE DEF fun, gun
<1>6. SumFunctionOnSet(gun, Movers) = SumFunctionOnSet(fun, Movers) - fun[w] + gun[w]
  BY <1>1, <1>2, <1>3, FiniteKinds, SumChange
<1> QED BY <1>4, <1>5, <1>6

LEMMA MovesSame ==
  ASSUME NEW a, NEW p, NEW b,
         \A w \in Movers : OnMove(a, p, b, w)' = OnMove(a, p, b, w)
  PROVE  OnMoves(a, p, b)' = OnMoves(a, p, b)
<1> DEFINE fun == [v \in Movers |-> OnMove(a, p, b, v)]
           gun == [v \in Movers |-> OnMove(a, p, b, v)']
<1>1. \A v \in Movers : gun[v] = fun[v]
  OBVIOUS
<1>2. /\ OnMoves(a, p, b) = SumFunctionOnSet(fun, Movers)
      /\ OnMoves(a, p, b)' = SumFunctionOnSet(gun, Movers)
  BY DEF OnMoves
<1> HIDE DEF fun, gun
<1>3. SumFunctionOnSet(gun, Movers) = SumFunctionOnSet(fun, Movers)
  BY <1>1, FiniteKinds, SumSame
<1> QED BY <1>2, <1>3

LEMMA HoldsChange ==
  ASSUME Typed, NEW a, NEW p \in Promos, NEW b, NEW c \in Checkouts,
         OnHold(a, p, b, c)' \in Int,
         \A d \in Checkouts \ {c} : OnHold(a, p, b, d)' = OnHold(a, p, b, d)
  PROVE  OnHolds(a, p, b)' = OnHolds(a, p, b) - OnHold(a, p, b, c) + OnHold(a, p, b, c)'
<1> DEFINE fun == [d \in Checkouts |-> OnHold(a, p, b, d)]
           gun == [d \in Checkouts |-> OnHold(a, p, b, d)']
<1>1. \A d \in Checkouts : fun[d] \in Int
  BY OnHoldNat
<1>2. \A d \in Checkouts : gun[d] \in Int
  BY <1>1
<1>3. \A d \in Checkouts \ {c} : gun[d] = fun[d]
  OBVIOUS
<1>4. fun[c] = OnHold(a, p, b, c) /\ gun[c] = OnHold(a, p, b, c)'
  OBVIOUS
<1>5. /\ OnHolds(a, p, b) = SumFunctionOnSet(fun, Checkouts)
      /\ OnHolds(a, p, b)' = SumFunctionOnSet(gun, Checkouts)
  BY DEF OnHolds
<1> HIDE DEF fun, gun
<1>6. SumFunctionOnSet(gun, Checkouts) = SumFunctionOnSet(fun, Checkouts) - fun[c] + gun[c]
  BY <1>1, <1>2, <1>3, FiniteKinds, SumChange
<1> QED BY <1>4, <1>5, <1>6

LEMMA HoldsSame ==
  ASSUME NEW a, NEW p, NEW b,
         \A c \in Checkouts : OnHold(a, p, b, c)' = OnHold(a, p, b, c)
  PROVE  OnHolds(a, p, b)' = OnHolds(a, p, b)
<1> DEFINE fun == [d \in Checkouts |-> OnHold(a, p, b, d)]
           gun == [d \in Checkouts |-> OnHold(a, p, b, d)']
<1>1. \A d \in Checkouts : gun[d] = fun[d]
  OBVIOUS
<1>2. /\ OnHolds(a, p, b) = SumFunctionOnSet(fun, Checkouts)
      /\ OnHolds(a, p, b)' = SumFunctionOnSet(gun, Checkouts)
  BY DEF OnHolds
<1> HIDE DEF fun, gun
<1>3. SumFunctionOnSet(gun, Checkouts) = SumFunctionOnSet(fun, Checkouts)
  BY <1>1, FiniteKinds, SumSame
<1> QED BY <1>2, <1>3

-----------------------------------------------------------------------------
(* Every step but a crash keeps the accounts even                          *)

LEMMA StandsInt ==
  ASSUME Typed, NEW a, NEW p, NEW b, Open(a, p, b)
  PROVE  Stands(a, p, b) \in Int
<1>1. p \in Promos
  BY DEF Open
<1>2. /\ promo[p].held \in Int /\ promo[p].used \in Int
      /\ promo[p].bheld \in Int /\ promo[p].bused \in Int
      /\ code[p].held \in Int /\ code[p].used \in Int
  BY <1>1 DEF Typed
<1>3. a = "usage" => usage[<<p, b>>] \in Int
  BY <1>1 DEF Typed, Open
<1> QED BY <1>2, <1>3 DEF Stands, Open, Accounts, PromoAccounts, CodeAccounts

\* What a change of counters is on an account.
LEMMA StandsAfterPromo ==
  ASSUME Typed, NEW a, NEW p, NEW b, Open(a, p, b), NEW q \in Promos,
         NEW h \in Int, NEW u \in Int, NEW bh \in Int, NEW bu \in Int,
         PromoMoves(q, h, u, bh, bu), UNCHANGED <<code, usage>>
  PROVE  Stands(a, p, b)' = Stands(a, p, b) +
           (IF p # q THEN 0 ELSE IF a = "held" THEN h ELSE IF a = "live" THEN h + u
            ELSE IF a = "bheld" THEN bh ELSE IF a = "blive" THEN bh + bu ELSE 0)
<1>1. p \in Promos
  BY DEF Open
<1>2. /\ promo[p].held \in Int /\ promo[p].used \in Int
      /\ promo[p].bheld \in Int /\ promo[p].bused \in Int
      /\ code[p].held \in Int /\ code[p].used \in Int
  BY <1>1 DEF Typed
<1>3. a = "usage" => usage[<<p, b>>] \in Int
  BY <1>1 DEF Typed, Open
<1>4. p # q => promo'[p] = promo[p]
  BY <1>1 DEF PromoMoves
<1> QED BY <1>2, <1>3, <1>4 DEF Stands, PromoMoves, Open, Accounts, PromoAccounts, CodeAccounts

LEMMA StandsAfterCode ==
  ASSUME Typed, NEW a, NEW p, NEW b, Open(a, p, b), NEW q \in Promos,
         NEW h \in Int, NEW u \in Int, CodeMoves(q, h, u), UNCHANGED <<promo, usage>>
  PROVE  Stands(a, p, b)' = Stands(a, p, b) +
           (IF p # q THEN 0 ELSE IF a = "cheld" THEN h ELSE IF a = "clive" THEN h + u ELSE 0)
<1>1. p \in Promos
  BY DEF Open
<1>2. /\ promo[p].held \in Int /\ promo[p].used \in Int
      /\ promo[p].bheld \in Int /\ promo[p].bused \in Int
      /\ code[p].held \in Int /\ code[p].used \in Int
  BY <1>1 DEF Typed
<1>3. a = "usage" => usage[<<p, b>>] \in Int
  BY <1>1 DEF Typed, Open
<1>4. p # q => code'[p] = code[p]
  BY <1>1 DEF CodeMoves
<1> QED BY <1>2, <1>3, <1>4 DEF Stands, CodeMoves, Open, Accounts, PromoAccounts, CodeAccounts

LEMMA StandsAfterUsage ==
  ASSUME Typed, NEW a, NEW p, NEW b, Open(a, p, b), NEW q \in Promos, NEW d \in Buyers,
         NEW x \in Int, UsageBecomes(<<q, d>>, usage[<<q, d>>] + x), UNCHANGED <<promo, code>>
  PROVE  Stands(a, p, b)' = Stands(a, p, b) +
           (IF a = "usage" /\ p = q /\ b = d THEN x ELSE 0)
<1>1. p \in Promos
  BY DEF Open
<1>2. /\ promo[p].held \in Int /\ promo[p].used \in Int
      /\ promo[p].bheld \in Int /\ promo[p].bused \in Int
      /\ code[p].held \in Int /\ code[p].used \in Int
  BY <1>1 DEF Typed
<1>3. a = "usage" => usage[<<p, b>>] \in Int /\ <<p, b>> \in Promos \X Buyers
  BY <1>1 DEF Typed, Open
<1>4. CASE a = "usage"
  <2>1. CASE p = q /\ b = d
    BY <1>4, <2>1 DEF Stands, UsageBecomes
  <2>2. CASE ~(p = q /\ b = d)
    <3>1. <<p, b>> # <<q, d>>
      BY <2>2
    <3>2. usage'[<<p, b>>] = usage[<<p, b>>]
      BY <1>3, <1>4, <3>1 DEF UsageBecomes
    <3> QED BY <1>3, <1>4, <2>2, <3>2 DEF Stands
  <2> QED BY <2>1, <2>2
<1>5. CASE a # "usage"
  BY <1>2, <1>5 DEF Stands, Open, Accounts, PromoAccounts, CodeAccounts
<1> QED BY <1>4, <1>5

\* A checkout changes counters and its own locals.
LEMMA HoldEvens ==
  ASSUME Typed, Shapes, NEW a, NEW p, NEW b, Open(a, p, b), NEW c \in Checkouts, NEW x \in Int,
         UNCHANGED <<red, move>>, \A d \in Checkouts \ {c} : hold'[d] = hold[d],
         Stands(a, p, b)' = Stands(a, p, b) + x,
         OnHold(a, p, b, c)' = OnHold(a, p, b, c) + x
  PROVE  Evens(a, p, b)
<1>1. p \in Promos /\ Stands(a, p, b) \in Int /\ OnHold(a, p, b, c) \in Int
  BY StandsInt, OnHoldNat DEF Open
<1>2. OnRows(a, p, b)' = OnRows(a, p, b)
  <2>1. \A r \in Requests : OnRow(a, p, b, r)' = OnRow(a, p, b, r)
    BY DEF OnRow
  <2> QED BY <2>1, RowsSame
<1>3. OnMoves(a, p, b)' = OnMoves(a, p, b)
  <2>1. \A w \in Movers : OnMove(a, p, b, w)' = OnMove(a, p, b, w)
    BY DEF OnMove
  <2> QED BY <2>1, MovesSame
<1>4. OnHolds(a, p, b)' = OnHolds(a, p, b) + x
  <2>1. \A d \in Checkouts \ {c} : OnHold(a, p, b, d)' = OnHold(a, p, b, d)
    BY DEF OnHold
  <2>2. OnHold(a, p, b, c)' \in Int
    BY <1>1
  <2>3. OnHolds(a, p, b)' = OnHolds(a, p, b) - OnHold(a, p, b, c) + OnHold(a, p, b, c)'
    BY <1>1, <2>1, <2>2, HoldsChange
  <2>4. OnHolds(a, p, b) \in Int
    BY <1>1, ChargesNat
  <2> QED BY <1>1, <2>3, <2>4
<1>5. OnRows(a, p, b) \in Int /\ OnMoves(a, p, b) \in Int /\ OnHolds(a, p, b) \in Int
  BY <1>1, ChargesNat
<1> QED BY <1>1, <1>2, <1>3, <1>4, <1>5 DEF Evens, Charged

\* A mover changes counters and its own locals.
LEMMA MoveEvens ==
  ASSUME Typed, Shapes, NEW a, NEW p, NEW b, Open(a, p, b), NEW w \in Movers, NEW x \in Int,
         UNCHANGED <<red, hold>>, \A v \in Movers \ {w} : move'[v] = move[v],
         Stands(a, p, b)' = Stands(a, p, b) + x,
         OnMove(a, p, b, w)' = OnMove(a, p, b, w) + x
  PROVE  Evens(a, p, b)
<1>1. p \in Promos /\ Stands(a, p, b) \in Int /\ OnMove(a, p, b, w) \in Int
  BY StandsInt, OnMoveNat DEF Open
<1>2. OnRows(a, p, b)' = OnRows(a, p, b)
  <2>1. \A r \in Requests : OnRow(a, p, b, r)' = OnRow(a, p, b, r)
    BY DEF OnRow
  <2> QED BY <2>1, RowsSame
<1>3. OnHolds(a, p, b)' = OnHolds(a, p, b)
  <2>1. \A c \in Checkouts : OnHold(a, p, b, c)' = OnHold(a, p, b, c)
    BY DEF OnHold
  <2> QED BY <2>1, HoldsSame
<1>4. OnMoves(a, p, b)' = OnMoves(a, p, b) + x
  <2>1. \A v \in Movers \ {w} : OnMove(a, p, b, v)' = OnMove(a, p, b, v)
    BY DEF OnMove
  <2>2. OnMove(a, p, b, w)' \in Int
    BY <1>1
  <2>3. OnMoves(a, p, b)' = OnMoves(a, p, b) - OnMove(a, p, b, w) + OnMove(a, p, b, w)'
    BY <1>1, <2>1, <2>2, MovesChange
  <2>4. OnMoves(a, p, b) \in Int
    BY <1>1, ChargesNat
  <2> QED BY <1>1, <2>3, <2>4
<1>5. OnRows(a, p, b) \in Int /\ OnMoves(a, p, b) \in Int /\ OnHolds(a, p, b) \in Int
  BY <1>1, ChargesNat
<1> QED BY <1>1, <1>2, <1>3, <1>4, <1>5 DEF Evens, Charged

\* What is charged to a checkout once it has failed to reserve.
LEMMA EndsAfterHold ==
  ASSUME Typed, NEW a, NEW p, NEW b, Open(a, p, b), NEW c \in Checkouts,
         NEW steps \in UndoLists \cup {<<>>}, EndsAfter(c, steps)
  PROVE  /\ \A d \in Checkouts \ {c} : hold'[d] = hold[d]
         /\ OnHold(a, p, b, c)' =
              IF /\ Gives(steps, DocOf(a)) /\ Head(hold[c].todo) = p
                 /\ a = "usage" => BuyerOf[hold[c].r] = b
                THEN Worth(a, hold[c].n) ELSE 0
<1>1. CASE steps = <<>>
  <2>1. Ends(c) /\ ~Gives(steps, DocOf(a))
    BY <1>1 DEF EndsAfter, Gives
  <2>2. hold'[c].pc \in {"failed", "release"} /\ \A d \in Checkouts \ {c} : hold'[d] = hold[d]
    BY <2>1 DEF Ends, HoldGoes
  <2>3. OnHold(a, p, b, c)' = 0
    BY <2>2 DEF OnHold, Took
  <2> QED BY <2>1, <2>2, <2>3
<1>2. CASE steps # <<>>
  <2>1. HoldGoes(c, "undo", hold[c].r, hold[c].todo, hold[c].n, steps)
    BY <1>2 DEF EndsAfter
  <2>2. /\ hold'[c].pc = "undo" /\ hold'[c].r = hold[c].r /\ hold'[c].todo = hold[c].todo
        /\ hold'[c].n = hold[c].n /\ hold'[c].undo = steps
        /\ \A d \in Checkouts \ {c} : hold'[d] = hold[d]
    BY <2>1 DEF HoldGoes
  <2>3. Took(hold'[c], a) <=> Gives(steps, DocOf(a))
    BY <2>2 DEF Took
  <2> QED BY <2>2, <2>3 DEF OnHold, Took
<1> QED BY <1>1, <1>2

\* Nothing is charged to a checkout before its first counter and after its
\* last.
LEMMA FreeEvens ==
  ASSUME Typed, Shapes, NEW a, NEW p, NEW b, Open(a, p, b), NEW c \in Checkouts,
         UNCHANGED <<promo, code, usage, red, move>>,
         \A d \in Checkouts \ {c} : hold'[d] = hold[d],
         hold[c].pc \notin {"promo", "code", "insert", "undo"},
         hold'[c].pc \notin {"promo", "code", "insert", "undo"}
  PROVE  Evens(a, p, b)
<1>1. OnHold(a, p, b, c) = 0 /\ OnHold(a, p, b, c)' = 0
  BY DEF OnHold, Took
<1>2. Stands(a, p, b)' = Stands(a, p, b) /\ Stands(a, p, b) \in Int
  BY StandsInt DEF Stands
<1> QED BY <1>1, <1>2, HoldEvens

LEMMA FreeStepsEven ==
  ASSUME Typed, Shapes, NEW a, NEW p, NEW b, Open(a, p, b), NEW c \in Checkouts,
         \/ Begin(c) \/ Lookup(c) \/ Abort(c) \/ Place(c) \/ PushOrder(c) \/ PatchOrder(c)
         \/ Fail(c)
  PROVE  Evens(a, p, b)
<1>1. UNCHANGED <<promo, code, usage, red, move>>
  BY DEF Begin, Lookup, Abort, Place, PushOrder, PatchOrder, Fail, counters
<1>2. hold[c].pc \in {"start", "lookup", "held", "placed", "rename", "release"}
  BY DEF Begin, Lookup, Abort, Place, PushOrder, PatchOrder, Fail
<1>3. /\ \A d \in Checkouts \ {c} : hold'[d] = hold[d]
      /\ hold'[c].pc \notin {"promo", "code", "insert", "undo"}
  <2>1. CASE Begin(c)
    BY <2>1, BeginDoes DEF HoldGoes
  <2>2. CASE Lookup(c)
    BY <2>2, LookupDoes DEF HoldGoes, Ends
  <2>3. ASSUME NEW pc \in {"release", "placed", "rename", "done", "failed"}, Goto(c, pc)
        PROVE  /\ \A d \in Checkouts \ {c} : hold'[d] = hold[d]
               /\ hold'[c].pc \notin {"promo", "code", "insert", "undo"}
    BY <2>3, GotoGoes DEF HoldKeeps, HoldGoes
  <2> QED BY <2>1, <2>2, <2>3 DEF Abort, Place, PushOrder, PatchOrder, Fail
<1> QED BY <1>1, <1>2, <1>3, FreeEvens

LEMMA ReserveUsageEven ==
  ASSUME Typed, Shapes, NEW a, NEW p, NEW b, Open(a, p, b), NEW c \in Checkouts, ReserveUsage(c)
  PROVE  Evens(a, p, b)
<1> DEFINE q == Head(hold[c].todo)
           d == BuyerOf[hold[c].r]
           k == <<q, d>>
           x == IF a = "usage" /\ p = q /\ b = d THEN 1 ELSE 0
<1>1. q \in Promos /\ d \in Buyers
  BY Attempt DEF ReserveUsage, Trying
<1>2. UNCHANGED <<promo, code, red, move>> /\ hold[c].pc = "usage"
  BY DEF ReserveUsage
<1>3. OnHold(a, p, b, c) = 0
  BY <1>2 DEF OnHold, Took
<1>4. CASE ~Limited(q) /\ UNCHANGED usage /\ HoldKeeps(c, "promo")
  <2>1. /\ \A e \in Checkouts \ {c} : hold'[e] = hold[e]
        /\ hold'[c].pc = "promo" /\ hold'[c].todo = hold[c].todo
    BY <1>4 DEF HoldKeeps, HoldGoes
  <2>2. OnHold(a, p, b, c)' = 0
    BY <1>4, <2>1 DEF OnHold, Took, Open
  <2>3. Stands(a, p, b)' = Stands(a, p, b) /\ Stands(a, p, b) \in Int
    BY <1>2, <1>4, StandsInt DEF Stands
  <2> QED BY <1>2, <1>3, <2>1, <2>2, <2>3, HoldEvens
<1>5. CASE Limited(q) /\ UsageBecomes(k, usage[k] + 1) /\ HoldKeeps(c, "promo")
  <2>1. /\ \A e \in Checkouts \ {c} : hold'[e] = hold[e]
        /\ hold'[c].pc = "promo" /\ hold'[c].todo = hold[c].todo /\ hold'[c].r = hold[c].r
    BY <1>5 DEF HoldKeeps, HoldGoes
  <2>2. OnHold(a, p, b, c)' = x
    BY <2>1 DEF OnHold, Took, Worth
  <2>3. Stands(a, p, b)' = Stands(a, p, b) + x
    <3> HIDE DEF q, d
    <3> QED BY <1>1, <1>2, <1>5, StandsAfterUsage
  <2>4. x \in Int
    OBVIOUS
  <2> HIDE DEF x
  <2> QED BY <1>2, <1>3, <2>1, <2>2, <2>3, <2>4, HoldEvens
<1>6. CASE UNCHANGED usage /\ Ends(c)
  <2>1. /\ \A e \in Checkouts \ {c} : hold'[e] = hold[e]
        /\ hold'[c].pc \in {"failed", "release"}
    BY <1>6 DEF Ends, HoldGoes
  <2> QED BY <1>2, <1>3, <1>6, <2>1, FreeEvens
<1> QED BY <1>4, <1>5, <1>6, ReserveUsageDoes

LEMMA HoldPromoEven ==
  ASSUME Typed, Shapes, NEW a, NEW p, NEW b, Open(a, p, b), NEW c \in Checkouts, HoldPromo(c)
  PROVE  Evens(a, p, b)
<1> DEFINE q == Head(hold[c].todo)
           n == hold[c].n
           x == IF p = q /\ a \in PromoAccounts THEN Worth(a, n) ELSE 0
<1>1. q \in Promos /\ n \in Nat
  BY Attempt, AmountsAreNat DEF HoldPromo, Trying, Counting
<1>2. UNCHANGED <<code, usage, red, move>> /\ hold[c].pc = "promo"
  BY DEF HoldPromo
<1>3. x \in Int
  BY <1>1 DEF Worth
<1>4. CASE PromoMoves(q, 1, 0, n, 0) /\ HoldKeeps(c, IF q \in Coded THEN "code" ELSE "insert")
  <2>1. /\ \A e \in Checkouts \ {c} : hold'[e] = hold[e]
        /\ hold'[c].pc = (IF q \in Coded THEN "code" ELSE "insert")
        /\ hold'[c].todo = hold[c].todo /\ hold'[c].r = hold[c].r /\ hold'[c].n = n
    BY <1>4 DEF HoldKeeps, HoldGoes
  <2>2. OnHold(a, p, b, c)' = OnHold(a, p, b, c) + x
    <3>1. CASE p # q
      BY <2>1, <3>1 DEF OnHold
    <3>2. CASE p = q
      BY <1>1, <1>2, <2>1, <3>2 DEF OnHold, Took, Worth, Open, Accounts, PromoAccounts, CodeAccounts
    <3> QED BY <3>1, <3>2
  <2>3. Stands(a, p, b)' = Stands(a, p, b) + x
    <3> HIDE DEF q, n
    <3>1. Stands(a, p, b)' = Stands(a, p, b) +
           (IF p # q THEN 0 ELSE IF a = "held" THEN 1 ELSE IF a = "live" THEN 1 + 0
            ELSE IF a = "bheld" THEN n ELSE IF a = "blive" THEN n + 0 ELSE 0)
      BY <1>1, <1>2, <1>4, StandsAfterPromo
    <3> QED BY <1>1, <3>1 DEF Worth, PromoAccounts
  <2> HIDE DEF x
  <2> QED BY <1>2, <1>3, <2>1, <2>2, <2>3, HoldEvens
<1>5. CASE UNCHANGED promo /\ EndsAfter(c, UsageTaken(q))
  <2>1. /\ \A e \in Checkouts \ {c} : hold'[e] = hold[e]
        /\ OnHold(a, p, b, c)' =
              IF /\ Gives(UsageTaken(q), DocOf(a)) /\ q = p
                 /\ a = "usage" => BuyerOf[hold[c].r] = b
                THEN Worth(a, hold[c].n) ELSE 0
    BY <1>5, UndosOf, EndsAfterHold
  <2>2. q = p => (Gives(UsageTaken(q), DocOf(a)) <=> a = "usage")
    BY UndosOf DEF DocOf, Open, Accounts, PromoAccounts, CodeAccounts
  <2>3. OnHold(a, p, b, c)' = OnHold(a, p, b, c)
    BY <1>2, <2>1, <2>2 DEF OnHold, Took
  <2>4. Stands(a, p, b)' = Stands(a, p, b) /\ Stands(a, p, b) \in Int /\ OnHold(a, p, b, c) \in Int
    BY <1>2, <1>5, StandsInt, OnHoldNat DEF Stands, Open
  <2>5. OnHold(a, p, b, c)' = OnHold(a, p, b, c) + 0 /\ Stands(a, p, b)' = Stands(a, p, b) + 0
    BY <2>3, <2>4
  <2>6. \A e \in Checkouts \ {c} : hold'[e] = hold[e]
    BY <2>1
  <2> QED BY <1>2, <2>5, <2>6, HoldEvens
<1> QED BY <1>4, <1>5, HoldPromoDoes

LEMMA HoldCodeEven ==
  ASSUME Typed, Shapes, NEW a, NEW p, NEW b, Open(a, p, b), NEW c \in Checkouts, HoldCode(c)
  PROVE  Evens(a, p, b)
<1> DEFINE q == Head(hold[c].todo)
           x == IF p = q /\ a \in CodeAccounts THEN 1 ELSE 0
<1>1. q \in Promos
  BY Attempt DEF HoldCode, Trying
<1>2. UNCHANGED <<promo, usage, red, move>> /\ hold[c].pc = "code"
  BY DEF HoldCode
<1>4. CASE CodeMoves(q, 1, 0) /\ HoldKeeps(c, "insert")
  <2>1. /\ \A e \in Checkouts \ {c} : hold'[e] = hold[e]
        /\ hold'[c].pc = "insert"
        /\ hold'[c].todo = hold[c].todo /\ hold'[c].r = hold[c].r /\ hold'[c].n = hold[c].n
    BY <1>4 DEF HoldKeeps, HoldGoes
  <2>2. OnHold(a, p, b, c)' = OnHold(a, p, b, c) + x
    <3>0. OnHold(a, p, b, c) \in Int
      BY OnHoldNat DEF Open
    <3>1. CASE p # q
      BY <2>1, <3>1 DEF OnHold
    <3>2. CASE p = q
      BY <1>2, <2>1, <3>0, <3>2 DEF OnHold, Took, Worth, CodeAccounts
    <3> QED BY <3>1, <3>2
  <2>3. Stands(a, p, b)' = Stands(a, p, b) + x
    <3> HIDE DEF q
    <3>1. Stands(a, p, b)' = Stands(a, p, b) +
           (IF p # q THEN 0 ELSE IF a = "cheld" THEN 1 ELSE IF a = "clive" THEN 1 + 0 ELSE 0)
      BY <1>1, <1>2, <1>4, StandsAfterCode
    <3> QED BY <1>1, <3>1 DEF CodeAccounts
  <2>4. x \in Int
    OBVIOUS
  <2> HIDE DEF x
  <2> QED BY <1>2, <2>1, <2>2, <2>3, <2>4, HoldEvens
<1>5. CASE UNCHANGED code /\ EndsAfter(c, AfterNoCode(q))
  <2>1. /\ \A e \in Checkouts \ {c} : hold'[e] = hold[e]
        /\ OnHold(a, p, b, c)' =
              IF /\ Gives(AfterNoCode(q), DocOf(a)) /\ q = p
                 /\ a = "usage" => BuyerOf[hold[c].r] = b
                THEN Worth(a, hold[c].n) ELSE 0
    BY <1>5, UndosOf, EndsAfterHold
  <2>2. q = p => (Gives(AfterNoCode(q), DocOf(a)) <=> a \notin CodeAccounts)
    BY UndosOf DEF DocOf, Open, Accounts, PromoAccounts, CodeAccounts
  <2>3. OnHold(a, p, b, c)' = OnHold(a, p, b, c)
    BY <1>2, <2>1, <2>2 DEF OnHold, Took
  <2>4. Stands(a, p, b)' = Stands(a, p, b) /\ Stands(a, p, b) \in Int /\ OnHold(a, p, b, c) \in Int
    BY <1>2, <1>5, StandsInt, OnHoldNat DEF Stands, Open
  <2>5. OnHold(a, p, b, c)' = OnHold(a, p, b, c) + 0 /\ Stands(a, p, b)' = Stands(a, p, b) + 0
    BY <2>3, <2>4
  <2>6. \A e \in Checkouts \ {c} : hold'[e] = hold[e]
    BY <2>1
  <2> QED BY <1>2, <2>5, <2>6, HoldEvens
<1> QED BY <1>4, <1>5, HoldCodeDoes

\* The unique _id: the checkout's charge becomes that of its redemption.
LEMMA InsertEven ==
  ASSUME Typed, Shapes, NEW a, NEW p, NEW b, Open(a, p, b), NEW c \in Checkouts, Insert(c)
  PROVE  Evens(a, p, b)
<1> DEFINE q == Head(hold[c].todo)
           n == hold[c].n
           rest == Tail(hold[c].todo)
<1>0. PICK r \in Requests : r = hold[c].r
  BY Attempt DEF Insert, Trying
<1> DEFINE owed == IF p = q /\ (a = "usage" => BuyerOf[r] = b) THEN Worth(a, n) ELSE 0
<1>1. q \in Promos /\ n \in Nat /\ p \in Promos
  BY Attempt, AmountsAreNat DEF Insert, Trying, Counting, Open
<1>2. UNCHANGED <<promo, code, usage, move>> /\ hold[c].pc = "insert"
  BY DEF Insert, counters
<1>3. OnHold(a, p, b, c) = owed
  BY <1>0, <1>2 DEF OnHold, Took
<1>4. Stands(a, p, b)' = Stands(a, p, b) /\ Stands(a, p, b) \in Int
  BY <1>2, StandsInt DEF Stands
<1>5. owed \in Nat
  BY <1>1 DEF Worth
<1>6. CASE /\ <<q, r>> \in Ids /\ red[<<q, r>>].status = "none"
           /\ Writes(<<q, r>>, <<c, "web">>, n, "held")
           /\ HoldGoes(c, IF rest = <<>> THEN "held" ELSE "lookup", r, rest, 0, hold[c].undo)
  <2>1. /\ \A e \in Checkouts \ {c} : hold'[e] = hold[e]
        /\ hold'[c].pc \in {"held", "lookup"}
    BY <1>6 DEF HoldGoes
  <2>2. OnHold(a, p, b, c)' = 0
    BY <2>1 DEF OnHold, Took
  <2>3. OnHolds(a, p, b)' = OnHolds(a, p, b) - owed
    <3>1. \A e \in Checkouts \ {c} : OnHold(a, p, b, e)' = OnHold(a, p, b, e)
      BY <2>1 DEF OnHold
    <3>2. OnHold(a, p, b, c)' \in Int
      BY <2>2
    <3>3. OnHolds(a, p, b)' = OnHolds(a, p, b) - OnHold(a, p, b, c) + OnHold(a, p, b, c)'
      BY <1>1, <3>1, <3>2, HoldsChange
    <3>4. OnHolds(a, p, b) \in Int
      BY <1>1, ChargesNat
    <3> HIDE DEF owed
    <3> QED BY <1>3, <1>5, <2>2, <3>3, <3>4
  <2>4. OnMoves(a, p, b)' = OnMoves(a, p, b)
    <3>1. ASSUME NEW w \in Movers
          PROVE  OnMove(a, p, b, w)' = OnMove(a, p, b, w)
      <4>1. Owes(move[w], a) => move[w].i \in Ids /\ red[move[w].i].status # "none"
        BY Moved DEF Owes
      <4>2. Owes(move[w], a) => red'[move[w].i] = red[move[w].i]
        BY <1>6, <4>1 DEF Writes
      <4> QED BY <1>2, <4>2 DEF OnMove
    <3> QED BY <3>1, MovesSame
  <2>5. OnRows(a, p, b)' = OnRows(a, p, b) + owed
    <3>1. ASSUME NEW s \in Requests, <<p, s>> # <<q, r>>
          PROVE  OnRow(a, p, b, s)' = OnRow(a, p, b, s)
      <4>1. <<p, s>> \in Ids
        BY <1>1 DEF Ids
      <4>2. red'[<<p, s>>] = red[<<p, s>>]
        BY <1>6, <3>1, <4>1 DEF Writes
      <4> QED BY <4>2 DEF OnRow
    <3>2. CASE p # q
      <4>1. \A s \in Requests : OnRow(a, p, b, s)' = OnRow(a, p, b, s)
        BY <3>1, <3>2
      <4>2. OnRows(a, p, b)' = OnRows(a, p, b)
        BY <4>1, RowsSame
      <4>3. OnRows(a, p, b) \in Int
        BY <1>1, ChargesNat
      <4> QED BY <3>2, <4>2, <4>3
    <3>3. CASE p = q
      <4>1. \A s \in Requests \ {r} : OnRow(a, p, b, s)' = OnRow(a, p, b, s)
        BY <3>1
      <4>2. OnRow(a, p, b, r) = 0
        BY <1>6, <3>3 DEF OnRow
      <4>3. red'[<<p, r>>].status = "held" /\ red'[<<p, r>>].amount = n
        BY <1>6, <3>3 DEF Writes
      <4>4. OnRow(a, p, b, r)' = owed
        BY <3>3, <4>3 DEF OnRow
      <4>5. OnRow(a, p, b, r)' \in Int
        BY <1>5, <4>4
      <4>6. OnRows(a, p, b)' = OnRows(a, p, b) - OnRow(a, p, b, r) + OnRow(a, p, b, r)'
        BY <1>1, <4>1, <4>5, RowsChange
      <4>7. OnRows(a, p, b) \in Int
        BY <1>1, ChargesNat
      <4> HIDE DEF owed
      <4> QED BY <1>5, <4>2, <4>4, <4>6, <4>7
    <3> QED BY <3>2, <3>3
  <2>6. OnRows(a, p, b) \in Int /\ OnMoves(a, p, b) \in Int /\ OnHolds(a, p, b) \in Int
    BY <1>1, ChargesNat
  <2> HIDE DEF owed
  <2> QED BY <1>4, <1>5, <2>3, <2>4, <2>5, <2>6 DEF Evens, Charged
<1>7. CASE UNCHANGED red /\ EndsAfter(c, AfterLostInsert(q))
  <2>1. \A e \in Checkouts \ {c} : hold'[e] = hold[e]
    BY <1>7, UndosOf, EndsAfterHold
  <2>2. OnHold(a, p, b, c)' =
              IF /\ Gives(AfterLostInsert(q), DocOf(a)) /\ q = p
                 /\ a = "usage" => BuyerOf[r] = b
                THEN Worth(a, hold[c].n) ELSE 0
    BY <1>0, <1>7, UndosOf, EndsAfterHold
  <2>3. q = p => Gives(AfterLostInsert(q), DocOf(a))
    BY UndosOf DEF DocOf, Open, Accounts, PromoAccounts, CodeAccounts
  <2>4. OnHold(a, p, b, c)' = owed
    BY <2>2, <2>3
  <2>5. OnHold(a, p, b, c)' = OnHold(a, p, b, c) + 0 /\ Stands(a, p, b)' = Stands(a, p, b) + 0
    <3> HIDE DEF owed
    <3> QED BY <1>3, <1>4, <1>5, <2>4
  <2> QED BY <1>2, <1>7, <2>1, <2>5, HoldEvens
<1> QED BY <1>0, <1>6, <1>7, InsertDoes

\* What the accounts say of the count of a buyer's uses.
LEMMA UsageCovers ==
  ASSUME Booked, NEW p \in Promos, NEW b \in Buyers, Limited(p)
  PROVE  usage[<<p, b>>] >= Charged("usage", p, b)
<1>1. Open("usage", p, b) /\ Stands("usage", p, b) = usage[<<p, b>>]
  BY DEF Open, Accounts, CodeAccounts, Stands
<1>2. "usage" \in Accounts /\ b \in Buyers \cup {<<>>}
  BY DEF Accounts
<1> QED BY <1>1, <1>2 DEF Booked

LEMMA UndoEven ==
  ASSUME Typed, Shapes, Booked, NEW a, NEW p, NEW b, Open(a, p, b), NEW c \in Checkouts, Undo(c)
  PROVE  Evens(a, p, b)
<1> DEFINE q == Head(hold[c].todo)
           d == BuyerOf[hold[c].r]
           n == hold[c].n
           steps == hold[c].undo
           mine == q = p /\ (a = "usage" => d = b)
           x == IF mine /\ DocOf(a) = Head(steps) THEN -Worth(a, n) ELSE 0
<1>1. /\ q \in Promos /\ d \in Buyers /\ n \in Nat /\ hold[c].pc = "undo"
      /\ UNCHANGED <<red, move>>
  BY Attempt, AmountsAreNat DEF Undo, Trying, Counting
<1>2. steps \in UndoLists /\ EndsAfter(c, Tail(steps))
  BY UndoDoes
<1>3. /\ Tail(steps) \in UndoLists \cup {<<>>} /\ Gives(steps, Head(steps))
      /\ ~Gives(Tail(steps), Head(steps))
      /\ \A e \in {"promo", "code", "usage"} :
           e # Head(steps) => (Gives(Tail(steps), e) <=> Gives(steps, e))
  BY <1>2, UndoSteps
<1>4. DocOf(a) \in {"promo", "code", "usage"}
  BY DEF DocOf
<1>5. x \in Int
  BY <1>1 DEF Worth
<1>6. \A e \in Checkouts \ {c} : hold'[e] = hold[e]
  BY <1>2, <1>3, EndsAfterHold
<1>7. OnHold(a, p, b, c)' = IF Gives(Tail(steps), DocOf(a)) /\ mine THEN Worth(a, n) ELSE 0
  <2> DEFINE after == Tail(steps)
  <2>1. after \in UndoLists \cup {<<>>} /\ EndsAfter(c, after)
    BY <1>2, <1>3
  <2> HIDE DEF after
  <2>2. OnHold(a, p, b, c)' =
              IF /\ Gives(after, DocOf(a)) /\ Head(hold[c].todo) = p
                 /\ a = "usage" => BuyerOf[hold[c].r] = b
                THEN Worth(a, hold[c].n) ELSE 0
    BY <2>1, EndsAfterHold
  <2> QED BY <2>2 DEF after
<1>8. OnHold(a, p, b, c) = IF Gives(steps, DocOf(a)) /\ mine THEN Worth(a, n) ELSE 0
  BY <1>1 DEF OnHold, Took
<1>9. OnHold(a, p, b, c)' = OnHold(a, p, b, c) + x
  <2>1. Worth(a, n) \in Int
    BY <1>1 DEF Worth
  <2> HIDE DEF q, d, n, steps
  <2> QED BY <1>3, <1>4, <1>7, <1>8, <2>1
<1>10. Stands(a, p, b)' = Stands(a, p, b) + x
  <2>1. CASE /\ Head(steps) = "promo" /\ PromoMoves(q, -1, 0, -n, 0)
             /\ UNCHANGED <<code, usage>>
    <3> HIDE DEF q, n, steps, d
    <3>1. Stands(a, p, b)' = Stands(a, p, b) +
           (IF p # q THEN 0 ELSE IF a = "held" THEN -1 ELSE IF a = "live" THEN -1 + 0
            ELSE IF a = "bheld" THEN -n ELSE IF a = "blive" THEN -n + 0 ELSE 0)
      BY <1>1, <2>1, StandsAfterPromo
    <3> QED BY <1>1, <2>1, <3>1 DEF Worth, DocOf, PromoAccounts
  <2>2. CASE /\ Head(steps) = "code" /\ CodeMoves(q, -1, 0)
             /\ UNCHANGED <<promo, usage>>
    <3> HIDE DEF q, n, steps, d
    <3>1. Stands(a, p, b)' = Stands(a, p, b) +
           (IF p # q THEN 0 ELSE IF a = "cheld" THEN -1 ELSE IF a = "clive" THEN -1 + 0 ELSE 0)
      BY <1>1, <2>2, StandsAfterCode
    <3> QED BY <1>1, <2>2, <3>1 DEF Worth, DocOf, PromoAccounts, CodeAccounts
  <2>3. CASE /\ Head(steps) = "usage"
             /\ UsageBecomes(<<q, d>>, IF usage[<<q, d>>] > 0 THEN usage[<<q, d>>] - 1 ELSE 0)
             /\ UNCHANGED <<promo, code>>
    <3>1. HoldShape(hold[c])
      BY DEF Shapes
    <3>2. Limited(q)
      BY <1>1, <1>3, <2>3, <3>1 DEF HoldShape
    <3>3. OnHold("usage", q, d, c) = 1
      BY <1>1, <1>3, <2>3 DEF OnHold, Took, DocOf, PromoAccounts, CodeAccounts, Worth
    <3> HIDE DEF q, n, steps, d
    <3>4. Charged("usage", q, d) >= 1
      <4>1. Charged("usage", q, d) \in Nat /\ OnHold("usage", q, d, c) <= Charged("usage", q, d)
        BY <1>1, HoldWithin, ChargesNat
      <4> QED BY <3>3, <4>1
    <3>5. usage[<<q, d>>] >= Charged("usage", q, d) /\ usage[<<q, d>>] \in Nat
      <4>1. <<q, d>> \in Promos \X Buyers
        BY <1>1
      <4> QED BY <1>1, <3>2, <4>1, UsageCovers DEF Typed
    <3>6. usage[<<q, d>>] > 0
      <4>1. Charged("usage", q, d) \in Nat
        BY <1>1, ChargesNat
      <4> QED BY <3>4, <3>5, <4>1
    <3>7. UsageBecomes(<<q, d>>, usage[<<q, d>>] + (-1))
      BY <2>3, <3>5, <3>6
    <3>8. Stands(a, p, b)' = Stands(a, p, b) + (IF a = "usage" /\ p = q /\ b = d THEN -1 ELSE 0)
      BY <1>1, <2>3, <3>7, StandsAfterUsage
    <3>9. DocOf(a) = "usage" <=> a = "usage"
      BY DEF DocOf, Open, Accounts, PromoAccounts, CodeAccounts
    <3> QED BY <2>3, <3>8, <3>9 DEF Worth
  <2> QED BY <2>1, <2>2, <2>3, UndoDoes
<1> HIDE DEF x
<1> QED BY <1>1, <1>5, <1>6, <1>9, <1>10, HoldEvens

LEMMA RenameEven ==
  ASSUME Typed, Shapes, NEW a, NEW p, NEW b, Open(a, p, b), NEW c \in Checkouts,
         RenameRedemption(c)
  PROVE  Evens(a, p, b)
<1>1. PICK i \in Ids : Renames(i, <<c, "kv">>)
  BY RenameRedemptionDoes
<1>2. \A j \in Ids : red'[j].status = red[j].status /\ red'[j].amount = red[j].amount
  BY <1>1 DEF Renames
<1>3. UNCHANGED <<promo, code, usage, hold, move>> /\ p \in Promos
  BY DEF RenameRedemption, counters, Open
<1>4. OnRows(a, p, b)' = OnRows(a, p, b)
  <2>1. ASSUME NEW r \in Requests
        PROVE  OnRow(a, p, b, r)' = OnRow(a, p, b, r)
    <3>1. <<p, r>> \in Ids
      BY <1>3 DEF Ids
    <3> QED BY <1>2, <3>1 DEF OnRow
  <2> QED BY <2>1, RowsSame
<1>5. OnMoves(a, p, b)' = OnMoves(a, p, b)
  <2>1. ASSUME NEW w \in Movers
        PROVE  OnMove(a, p, b, w)' = OnMove(a, p, b, w)
    <3>1. Owes(move[w], a) => move[w].i \in Ids
      BY Moved DEF Owes
    <3> QED BY <1>2, <1>3, <3>1 DEF OnMove
  <2> QED BY <2>1, MovesSame
<1>6. OnHolds(a, p, b)' = OnHolds(a, p, b)
  <2>1. \A e \in Checkouts : OnHold(a, p, b, e)' = OnHold(a, p, b, e)
    BY <1>3 DEF OnHold
  <2> QED BY <2>1, HoldsSame
<1>7. Stands(a, p, b)' = Stands(a, p, b)
  BY <1>3 DEF Stands
<1> QED BY <1>4, <1>5, <1>6, <1>7 DEF Evens, Charged

\* Nothing is charged to a handler that looks for redemptions.
LEMMA FindsEven ==
  ASSUME Typed, Shapes, NEW a, NEW p, NEW b, Open(a, p, b), NEW w \in Movers,
         \/ w \in Endings /\ EndingRead(w)
         \/ w \in Endings /\ EndingFind(w)
         \/ w \in Checkouts /\ ReleaseFind(w)
  PROVE  Evens(a, p, b)
<1>1. UNCHANGED <<promo, code, usage, red, hold>> /\ move[w].pc \in {"idle", "find"}
  BY DEF EndingRead, EndingFind, ReleaseFind, counters
<1>2. /\ \A v \in Movers \ {w} : move'[v] = move[v]
      /\ move'[w].pc \in {"find", "flip", "done"}
  BY EndingReadDoes, EndingFindDoes, ReleaseFindDoes DEF MoveGoes, LoopPc
<1>3. OnMove(a, p, b, w) = 0 /\ OnMove(a, p, b, w)' = 0
  BY <1>1, <1>2 DEF OnMove, Owes
<1>4. Stands(a, p, b)' = Stands(a, p, b) /\ Stands(a, p, b) \in Int
  BY <1>1, StandsInt DEF Stands
<1>5. Stands(a, p, b)' = Stands(a, p, b) + 0 /\ OnMove(a, p, b, w)' = OnMove(a, p, b, w) + 0
  BY <1>3, <1>4
<1> QED BY <1>1, <1>2, <1>5, MoveEvens

\* Whoever moves the redemption is charged for it.
LEMMA FlipEven ==
  ASSUME Typed, Shapes, NEW a, NEW p, NEW b, Open(a, p, b), NEW w \in Movers, Flip(w)
  PROVE  Evens(a, p, b)
<1>1. UNCHANGED <<promo, code, usage, hold>> /\ move[w].pc = "flip" /\ p \in Promos
  BY DEF Flip, counters, Open
<1>2. OnMove(a, p, b, w) = 0
  BY <1>1 DEF OnMove, Owes
<1>3. Stands(a, p, b)' = Stands(a, p, b) /\ Stands(a, p, b) \in Int
  BY <1>1, StandsInt DEF Stands
<1>4. PICK i \in move[w].found :
           \/ /\ red[i].status = "held" /\ i \in Ids
              /\ Writes(i, red[i].code, red[i].amount, move[w].to)
              /\ MoveGoes(w, "promo", move[w].code, move[w].to, move[w].found \ {i}, i)
           \/ /\ red[i].status # "held" /\ UNCHANGED red
              /\ MoveGoes(w, LoopPc(move[w].found \ {i}), move[w].code, move[w].to,
                          move[w].found \ {i}, <<>>)
  BY FlipDoes
<1>5. CASE /\ red[i].status # "held" /\ UNCHANGED red
           /\ MoveGoes(w, LoopPc(move[w].found \ {i}), move[w].code, move[w].to,
                       move[w].found \ {i}, <<>>)
  <2>1. \A v \in Movers \ {w} : move'[v] = move[v]
    BY <1>5 DEF MoveGoes
  <2>2. move'[w].pc \in {"done", "flip"}
    BY <1>5 DEF MoveGoes, LoopPc
  <2>3. OnMove(a, p, b, w)' = 0
    BY <2>2 DEF OnMove, Owes
  <2>4. Stands(a, p, b)' = Stands(a, p, b) + 0 /\ OnMove(a, p, b, w)' = OnMove(a, p, b, w) + 0
    BY <1>2, <1>3, <2>3
  <2> QED BY <1>1, <1>5, <2>1, <2>4, MoveEvens
<1>6. CASE /\ red[i].status = "held" /\ i \in Ids
           /\ Writes(i, red[i].code, red[i].amount, move[w].to)
           /\ MoveGoes(w, "promo", move[w].code, move[w].to, move[w].found \ {i}, i)
  <2>1. PICK q \in Promos, r \in Requests : i = <<q, r>>
    BY <1>6 DEF Ids
  <2>2. /\ \A v \in Movers \ {w} : move'[v] = move[v]
        /\ move'[w].pc = "promo" /\ move'[w].to = move[w].to /\ move'[w].i = <<q, r>>
    BY <1>6, <2>1 DEF MoveGoes
  <2>3. /\ \A j \in Ids \ {<<q, r>>} : red'[j] = red[j]
        /\ red[<<q, r>>].status = "held" /\ red'[<<q, r>>].status = move[w].to
        /\ red'[<<q, r>>].amount = red[<<q, r>>].amount
    BY <1>6, <2>1 DEF Writes
  <2>4. PICK n \in Nat : n = red[<<q, r>>].amount
    <3>1. red[i].amount \in Amounts \cup {0}
      BY <1>6 DEF Typed, Redemption
    <3> QED BY <2>1, <3>1, AmountsAreNat
  <2>5. move[w].to \in {"used", "released"}
    BY DEF Typed, Moving
  <2> DEFINE owed == IF /\ p = q /\ (a = "usage" => BuyerOf[r] = b)
                        /\ (Lasting(a) => move[w].to = "released")
                       THEN Worth(a, n) ELSE 0
  <2>6. owed \in Nat
    BY DEF Worth
  <2>7. OnMove(a, p, b, w)' = owed
    BY <2>2, <2>3, <2>4 DEF OnMove, Owes
  <2>8. OnMoves(a, p, b)' = OnMoves(a, p, b) + owed
    <3>1. ASSUME NEW v \in Movers \ {w}
          PROVE  OnMove(a, p, b, v)' = OnMove(a, p, b, v)
      <4>1. Owes(move[v], a) => move[v].i \in Ids
        BY Moved DEF Owes
      <4>2. Owes(move[v], a) => red'[move[v].i].amount = red[move[v].i].amount
        BY <2>3, <4>1
      <4>3. move'[v] = move[v]
        BY <2>2
      <4> QED BY <4>2, <4>3 DEF OnMove
    <3>2. OnMove(a, p, b, w)' \in Int
      BY <2>6, <2>7
    <3>3. OnMoves(a, p, b)' = OnMoves(a, p, b) - OnMove(a, p, b, w) + OnMove(a, p, b, w)'
      BY <1>1, <3>1, <3>2, MovesChange
    <3>4. OnMoves(a, p, b) \in Int
      BY <1>1, ChargesNat
    <3> HIDE DEF owed
    <3> QED BY <1>2, <2>6, <2>7, <3>3, <3>4
  <2>9. OnRows(a, p, b)' = OnRows(a, p, b) - owed
    <3>1. ASSUME NEW s \in Requests, <<p, s>> # <<q, r>>
          PROVE  OnRow(a, p, b, s)' = OnRow(a, p, b, s)
      <4>1. <<p, s>> \in Ids
        BY <1>1 DEF Ids
      <4>2. red'[<<p, s>>] = red[<<p, s>>]
        BY <2>3, <3>1, <4>1
      <4> QED BY <4>2 DEF OnRow
    <3>0. OnRows(a, p, b) \in Int
      BY <1>1, ChargesNat
    <3>2. CASE p # q
      <4>1. \A s \in Requests : OnRow(a, p, b, s)' = OnRow(a, p, b, s)
        BY <3>1, <3>2
      <4>2. OnRows(a, p, b)' = OnRows(a, p, b)
        BY <4>1, RowsSame
      <4> QED BY <3>0, <3>2, <4>2
    <3>3. CASE p = q
      <4>1. \A s \in Requests \ {r} : OnRow(a, p, b, s)' = OnRow(a, p, b, s)
        BY <3>1
      <4>2. OnRow(a, p, b, r) = IF a = "usage" => BuyerOf[r] = b THEN Worth(a, n) ELSE 0
        BY <2>3, <2>4, <3>3 DEF OnRow
      <4>3. OnRow(a, p, b, r)' =
              IF /\ Lasting(a) /\ move[w].to = "used"
                 /\ a = "usage" => BuyerOf[r] = b
                THEN Worth(a, n) ELSE 0
        BY <2>3, <2>4, <2>5, <3>3 DEF OnRow
      <4>4. Worth(a, n) \in Int
        BY DEF Worth
      <4>5. OnRow(a, p, b, r)' = OnRow(a, p, b, r) - owed
        BY <2>5, <3>3, <4>2, <4>3, <4>4
      <4>6. OnRow(a, p, b, r) \in Int /\ OnRow(a, p, b, r)' \in Int
        BY <4>2, <4>3, <4>4
      <4>7. OnRows(a, p, b)' = OnRows(a, p, b) - OnRow(a, p, b, r) + OnRow(a, p, b, r)'
        BY <1>1, <4>1, <4>6, RowsChange
      <4> HIDE DEF owed
      <4> QED BY <2>6, <3>0, <4>5, <4>6, <4>7
    <3> QED BY <3>2, <3>3
  <2>10. OnHolds(a, p, b)' = OnHolds(a, p, b)
    <3>1. \A c \in Checkouts : OnHold(a, p, b, c)' = OnHold(a, p, b, c)
      BY <1>1 DEF OnHold
    <3> QED BY <3>1, HoldsSame
  <2>11. OnRows(a, p, b) \in Int /\ OnMoves(a, p, b) \in Int /\ OnHolds(a, p, b) \in Int
    BY <1>1, ChargesNat
  <2> HIDE DEF owed
  <2> QED BY <1>3, <2>6, <2>8, <2>9, <2>10, <2>11 DEF Evens, Charged
<1> QED BY <1>4, <1>5, <1>6

\* What is charged to a handler once it is done with the promotion's and the
\* code's counters.
LEMMA AfterCodeOn ==
  ASSUME Typed, Shapes, NEW a, NEW p, NEW b, Open(a, p, b), NEW w \in Movers,
         GoesAfterCode(w)
  PROVE  OnMove(a, p, b, w)' =
           IF /\ a = "usage" /\ move[w].to = "released" /\ move[w].i[1] = p
              /\ BuyerOf[move[w].i[2]] = b
             THEN 1 ELSE 0
<1>1. CASE move[w].to = "released" /\ Limited(move[w].i[1])
  <2>1. MoveGoes(w, "usage", move[w].code, move[w].to, move[w].found, move[w].i)
    BY <1>1 DEF GoesAfterCode
  <2>2. move'[w].pc = "usage" /\ move'[w].to = move[w].to /\ move'[w].i = move[w].i
    BY <2>1 DEF MoveGoes
  <2> QED BY <1>1, <2>2 DEF OnMove, Owes, Worth
<1>2. CASE ~(move[w].to = "released" /\ Limited(move[w].i[1]))
  <2>1. move'[w].pc \in {"done", "flip"}
    BY <1>2 DEF GoesAfterCode, MoveGoes, LoopPc
  <2>2. OnMove(a, p, b, w)' = 0
    BY <2>1 DEF OnMove, Owes
  <2> QED BY <1>2, <2>2 DEF Open
<1> QED BY <1>1, <1>2

LEMMA MovePromoEven ==
  ASSUME Typed, Shapes, NEW a, NEW p, NEW b, Open(a, p, b), NEW w \in Movers, MovePromo(w)
  PROVE  Evens(a, p, b)
<1>1. UNCHANGED <<code, usage, red, hold>> /\ move[w].pc = "promo" /\ a \in Accounts
  BY DEF MovePromo, Open
<1>2. PICK q \in Promos, n \in Nat, to \in {"used", "released"} :
        q = move[w].i[1] /\ n = red[move[w].i].amount /\ to = move[w].to
  BY <1>1, Moved
<1> DEFINE mine == a = "usage" => BuyerOf[move[w].i[2]] = b
           x == IF /\ p = q /\ a \in PromoAccounts /\ (Lasting(a) => to = "released")
                  THEN -Worth(a, n) ELSE 0
<1>3. Worth(a, n) \in Int /\ x \in Int
  BY DEF Worth
<1>0. -n \in Int /\ n \in Int /\ -1 \in Int /\ 0 \in Int /\ 1 \in Int
  OBVIOUS
<1>4. OnMove(a, p, b, w) =
        IF (Lasting(a) => to = "released") /\ p = q /\ mine THEN Worth(a, n) ELSE 0
  BY <1>1, <1>2 DEF OnMove, Owes
<1>5. \A v \in Movers \ {w} : move'[v] = move[v]
  BY MovePromoDoes DEF GoesAfterCode, MoveGoes
<1>6. OnMove(a, p, b, w)' =
        IF /\ a \notin PromoAccounts /\ (Lasting(a) => to = "released") /\ p = q /\ mine
          THEN 1 ELSE 0
  <2>1. CASE q \in Coded
    <3>1. MoveGoes(w, "code", move[w].code, move[w].to, move[w].found, move[w].i)
      BY <1>2, <2>1, MovePromoDoes
    <3>2. move'[w].pc = "code" /\ move'[w].to = move[w].to /\ move'[w].i = move[w].i
      BY <3>1 DEF MoveGoes
    <3> QED BY <1>1, <1>2, <3>2 DEF OnMove, Owes, Worth, PromoAccounts
  <2>2. CASE q \notin Coded
    <3>1. OnMove(a, p, b, w)' =
           IF /\ a = "usage" /\ move[w].to = "released" /\ move[w].i[1] = p
              /\ BuyerOf[move[w].i[2]] = b
             THEN 1 ELSE 0
      BY <1>2, <2>2, MovePromoDoes, AfterCodeOn
    <3>2. p = q => a \notin CodeAccounts
      BY <2>2 DEF Open
    <3> QED BY <1>1, <1>2, <3>1, <3>2 DEF Accounts, PromoAccounts, Lasting
  <2> QED BY <2>1, <2>2
<1>7. OnMove(a, p, b, w)' = OnMove(a, p, b, w) + x
  <2>1. a \notin PromoAccounts => Worth(a, n) = 1
    BY DEF Worth, PromoAccounts
  <2>2. a \in PromoAccounts => mine
    BY DEF PromoAccounts
  <2> HIDE DEF mine
  <2> QED BY <1>3, <1>4, <1>6, <2>1, <2>2
<1>8. Stands(a, p, b)' = Stands(a, p, b) + x
  <2>a. UNCHANGED <<code, usage>> /\ 0 \in Int /\ 1 \in Int /\ n \in Int
    BY <1>1
  <2>0. PICK h \in Int, bh \in Int : h = -1 /\ bh = -n
    BY <1>0
  <2>1. CASE to = "used"
    <3>1. PromoMoves(q, h, 1, bh, n)
      BY <1>2, <2>0, <2>1, MovePromoDoes
    <3>2. Stands(a, p, b)' = Stands(a, p, b) +
           (IF p # q THEN 0 ELSE IF a = "held" THEN h ELSE IF a = "live" THEN h + 1
            ELSE IF a = "bheld" THEN bh ELSE IF a = "blive" THEN bh + n ELSE 0)
      BY <2>a, <3>1, StandsAfterPromo
    <3> QED BY <2>0, <2>1, <3>2 DEF Worth, PromoAccounts, Lasting
  <2>2. CASE to = "released"
    <3>1. PromoMoves(q, h, 0, bh, 0)
      BY <1>2, <2>0, <2>2, MovePromoDoes
    <3>2. Stands(a, p, b)' = Stands(a, p, b) +
           (IF p # q THEN 0 ELSE IF a = "held" THEN h ELSE IF a = "live" THEN h + 0
            ELSE IF a = "bheld" THEN bh ELSE IF a = "blive" THEN bh + 0 ELSE 0)
      BY <2>a, <3>1, StandsAfterPromo
    <3> QED BY <2>0, <2>2, <3>2 DEF Worth, PromoAccounts, Lasting
  <2> QED BY <2>1, <2>2
<1> HIDE DEF x
<1> QED BY <1>1, <1>3, <1>5, <1>7, <1>8, MoveEvens

LEMMA MoveCodeEven ==
  ASSUME Typed, Shapes, NEW a, NEW p, NEW b, Open(a, p, b), NEW w \in Movers, MoveCode(w)
  PROVE  Evens(a, p, b)
<1>1. UNCHANGED <<promo, usage, red, hold>> /\ move[w].pc = "code" /\ a \in Accounts
  BY DEF MoveCode, Open
<1>2. PICK q \in Promos, to \in {"used", "released"} : q = move[w].i[1] /\ to = move[w].to
  BY <1>1, Moved
<1> DEFINE mine == a = "usage" => BuyerOf[move[w].i[2]] = b
           x == IF p = q /\ a \in CodeAccounts /\ (Lasting(a) => to = "released") THEN -1 ELSE 0
<1>3. OnMove(a, p, b, w) =
        IF a \notin PromoAccounts /\ (Lasting(a) => to = "released") /\ p = q /\ mine
          THEN 1 ELSE 0
  BY <1>1, <1>2 DEF OnMove, Owes, Worth, PromoAccounts
<1>4. GoesAfterCode(w) /\ \A v \in Movers \ {w} : move'[v] = move[v]
  BY MoveCodeDoes DEF GoesAfterCode, MoveGoes
<1>5. OnMove(a, p, b, w)' = IF a = "usage" /\ to = "released" /\ p = q /\ mine THEN 1 ELSE 0
  BY <1>2, <1>4, AfterCodeOn
<1>6. OnMove(a, p, b, w)' = OnMove(a, p, b, w) + x
  <2>1. a \in CodeAccounts => mine
    BY DEF CodeAccounts
  <2>2. a = "usage" <=> a \notin PromoAccounts /\ a \notin CodeAccounts
    BY <1>1 DEF Accounts, PromoAccounts, CodeAccounts
  <2>3. a = "usage" => Lasting(a)
    BY DEF Lasting
  <2>4. ~(a \in PromoAccounts /\ a \in CodeAccounts)
    BY DEF PromoAccounts, CodeAccounts
  <2> HIDE DEF mine
  <2> QED BY <1>3, <1>5, <2>1, <2>2, <2>3, <2>4
<1>7. Stands(a, p, b)' = Stands(a, p, b) + x
  <2>1. CASE to = "used"
    <3>1. CodeMoves(q, -1, 1)
      BY <1>2, <2>1, MoveCodeDoes
    <3>2. Stands(a, p, b)' = Stands(a, p, b) +
           (IF p # q THEN 0 ELSE IF a = "cheld" THEN -1 ELSE IF a = "clive" THEN -1 + 1 ELSE 0)
      BY <1>1, <3>1, StandsAfterCode
    <3> QED BY <2>1, <3>2 DEF CodeAccounts, Lasting
  <2>2. CASE to = "released"
    <3>1. CodeMoves(q, -1, 0)
      BY <1>2, <2>2, MoveCodeDoes
    <3>2. Stands(a, p, b)' = Stands(a, p, b) +
           (IF p # q THEN 0 ELSE IF a = "cheld" THEN -1 ELSE IF a = "clive" THEN -1 + 0 ELSE 0)
      BY <1>1, <3>1, StandsAfterCode
    <3> QED BY <2>2, <3>2 DEF CodeAccounts, Lasting
  <2> QED BY <2>1, <2>2
<1>8. x \in Int
  OBVIOUS
<1> HIDE DEF x
<1> QED BY <1>1, <1>4, <1>6, <1>7, <1>8, MoveEvens

LEMMA MoveUsageEven ==
  ASSUME Typed, Shapes, Booked, NEW a, NEW p, NEW b, Open(a, p, b), NEW w \in Movers, MoveUsage(w)
  PROVE  Evens(a, p, b)
<1>1. UNCHANGED <<promo, code, red, hold>> /\ move[w].pc = "usage"
  BY DEF MoveUsage
<1>2. PICK q \in Promos, d \in Buyers : q = move[w].i[1] /\ d = BuyerOf[move[w].i[2]]
  BY <1>1, Moved
<1>3. move[w].to = "released" /\ Limited(q)
  BY <1>1, <1>2 DEF Shapes, MoveShape
<1> DEFINE x == IF a = "usage" /\ p = q /\ b = d THEN -1 ELSE 0
<1>4. OnMove(a, p, b, w) = IF a = "usage" /\ p = q /\ b = d THEN 1 ELSE 0
  BY <1>1, <1>2, <1>3 DEF OnMove, Owes, Worth
<1>5. /\ UsageBecomes(<<q, d>>, IF usage[<<q, d>>] > 0 THEN usage[<<q, d>>] - 1 ELSE 0)
      /\ MoveGoes(w, LoopPc(move[w].found), move[w].code, move[w].to, move[w].found, <<>>)
  BY <1>2, MoveUsageDoes
<1>6. /\ \A v \in Movers \ {w} : move'[v] = move[v]
      /\ OnMove(a, p, b, w)' = 0
  BY <1>5 DEF MoveGoes, OnMove, Owes, LoopPc
<1>7. usage[<<q, d>>] > 0 /\ usage[<<q, d>>] \in Nat
  <2>1. OnMove("usage", q, d, w) = 1
    BY <1>1, <1>2, <1>3 DEF OnMove, Owes, Worth
  <2>2. Charged("usage", q, d) \in Nat /\ OnMove("usage", q, d, w) <= Charged("usage", q, d)
    BY MoveWithin, ChargesNat
  <2>3. usage[<<q, d>>] >= Charged("usage", q, d)
    BY <1>3, UsageCovers
  <2>4. usage[<<q, d>>] \in Nat
    <3>1. <<q, d>> \in Promos \X Buyers
      OBVIOUS
    <3> QED BY <3>1 DEF Typed
  <2> QED BY <2>1, <2>2, <2>3, <2>4
<1>8. Stands(a, p, b)' = Stands(a, p, b) + x
  <2>1. UsageBecomes(<<q, d>>, usage[<<q, d>>] + (-1))
    BY <1>5, <1>7
  <2> QED BY <1>1, <2>1, StandsAfterUsage
<1>9. x \in Int /\ OnMove(a, p, b, w)' = OnMove(a, p, b, w) + x
  BY <1>4, <1>6
<1> HIDE DEF x
<1> QED BY <1>1, <1>6, <1>8, <1>9, MoveEvens

-----------------------------------------------------------------------------
(* The counters cover the redemptions                                      *)

LEMMA NothingCharged ==
  ASSUME NEW a, NEW p, NEW b,
         \A r \in Requests : OnRow(a, p, b, r) = 0,
         \A w \in Movers : OnMove(a, p, b, w) = 0,
         \A c \in Checkouts : OnHold(a, p, b, c) = 0
  PROVE  Charged(a, p, b) = 0
<1>1. OnRows(a, p, b) = 0
  <2> DEFINE fun == [r \in Requests |-> OnRow(a, p, b, r)]
  <2>1. \A r \in Requests : fun[r] = 0
    OBVIOUS
  <2> HIDE DEF fun
  <2>2. SumFunctionOnSet(fun, Requests) = 0
    BY <2>1, FiniteKinds, SumOfZeros
  <2> QED BY <2>2 DEF fun, OnRows
<1>2. OnMoves(a, p, b) = 0
  <2> DEFINE fun == [w \in Movers |-> OnMove(a, p, b, w)]
  <2>1. \A w \in Movers : fun[w] = 0
    OBVIOUS
  <2> HIDE DEF fun
  <2>2. SumFunctionOnSet(fun, Movers) = 0
    BY <2>1, FiniteKinds, SumOfZeros
  <2> QED BY <2>2 DEF fun, OnMoves
<1>3. OnHolds(a, p, b) = 0
  <2> DEFINE fun == [c \in Checkouts |-> OnHold(a, p, b, c)]
  <2>1. \A c \in Checkouts : fun[c] = 0
    OBVIOUS
  <2> HIDE DEF fun
  <2>2. SumFunctionOnSet(fun, Checkouts) = 0
    BY <2>1, FiniteKinds, SumOfZeros
  <2> QED BY <2>2 DEF fun, OnHolds
<1> QED BY <1>1, <1>2, <1>3 DEF Charged

LEMMA BookedInit == Init => Booked
<1> SUFFICES ASSUME Init, NEW a \in Accounts, NEW p \in Promos, NEW b \in Buyers \cup {<<>>},
                    Open(a, p, b)
             PROVE  Stands(a, p, b) = 0 /\ Charged(a, p, b) = 0
  BY DEF Booked
<1>1. Stands(a, p, b) = 0
  <2>1. promo[p] = [held |-> 0, used |-> 0, bheld |-> 0, bused |-> 0]
    BY DEF Init
  <2>2. code[p] = [held |-> 0, used |-> 0]
    BY DEF Init
  <2>3. a = "usage" => usage[<<p, b>>] = 0
    BY DEF Init, Open
  <2> QED BY <2>1, <2>2, <2>3 DEF Stands, Accounts, PromoAccounts, CodeAccounts
<1>2. ASSUME NEW r \in Requests
      PROVE  OnRow(a, p, b, r) = 0
  <2>1. <<p, r>> \in Ids
    BY DEF Ids
  <2>2. red[<<p, r>>].status = "none"
    BY <2>1 DEF Init
  <2> QED BY <2>2 DEF OnRow
<1>3. ASSUME NEW w \in Movers
      PROVE  OnMove(a, p, b, w) = 0
  BY DEF Init, NewMove, OnMove, Owes
<1>4. ASSUME NEW c \in Checkouts
      PROVE  OnHold(a, p, b, c) = 0
  BY DEF Init, NewHold, OnHold, Took
<1> QED BY <1>1, <1>2, <1>3, <1>4, NothingCharged

\* What a handler that dies was charged is left to the counters.
LEMMA CrashCovers ==
  ASSUME Typed, Shapes, NEW a, NEW p, NEW b, Open(a, p, b), NEW w \in Movers,
         \/ w \in Checkouts /\ CheckoutCrash(w)
         \/ w \in Endings /\ EndingCrash(w)
  PROVE  Stands(a, p, b)' = Stands(a, p, b) /\ Charged(a, p, b)' <= Charged(a, p, b)
<1>1. UNCHANGED <<promo, code, usage, red>> /\ p \in Promos
  BY DEF CheckoutCrash, EndingCrash, counters, Open
<1>2. Stands(a, p, b)' = Stands(a, p, b)
  BY <1>1 DEF Stands
<1>3. OnRows(a, p, b)' = OnRows(a, p, b)
  <2>1. \A r \in Requests : OnRow(a, p, b, r)' = OnRow(a, p, b, r)
    BY <1>1 DEF OnRow
  <2> QED BY <2>1, RowsSame
<1>4. OnMoves(a, p, b)' \in Int /\ OnMoves(a, p, b)' <= OnMoves(a, p, b)
  <2>1. MoveGoes(w, "crashed", <<>>, "used", {}, <<>>)
    BY CheckoutCrashDoes, EndingCrashDoes
  <2>2. OnMove(a, p, b, w)' = 0
    BY <2>1 DEF MoveGoes, OnMove, Owes
  <2>3. \A v \in Movers \ {w} : OnMove(a, p, b, v)' = OnMove(a, p, b, v)
    BY <1>1, <2>1 DEF MoveGoes, OnMove
  <2>4. OnMoves(a, p, b)' = OnMoves(a, p, b) - OnMove(a, p, b, w) + OnMove(a, p, b, w)'
    <3>1. OnMove(a, p, b, w)' \in Int
      BY <2>2
    <3> QED BY <1>1, <2>3, <3>1, MovesChange
  <2>5. OnMoves(a, p, b) \in Int /\ OnMove(a, p, b, w) \in Nat
    BY <1>1, ChargesNat, OnMoveNat
  <2> QED BY <2>2, <2>4, <2>5
<1>5. OnHolds(a, p, b)' \in Int /\ OnHolds(a, p, b)' <= OnHolds(a, p, b)
  <2>0. OnHolds(a, p, b) \in Int
    BY <1>1, ChargesNat
  <2>1. CASE w \in Checkouts /\ CheckoutCrash(w)
    <3>1. HoldKeeps(w, "crashed")
      BY <2>1, CheckoutCrashDoes
    <3>2. OnHold(a, p, b, w)' = 0
      BY <3>1 DEF HoldKeeps, HoldGoes, OnHold, Took
    <3>3. \A d \in Checkouts \ {w} : OnHold(a, p, b, d)' = OnHold(a, p, b, d)
      BY <3>1 DEF HoldKeeps, HoldGoes, OnHold
    <3>4. OnHolds(a, p, b)' = OnHolds(a, p, b) - OnHold(a, p, b, w) + OnHold(a, p, b, w)'
      <4>1. OnHold(a, p, b, w)' \in Int
        BY <3>2
      <4> QED BY <1>1, <2>1, <3>3, <4>1, HoldsChange
    <3>5. OnHold(a, p, b, w) \in Nat
      BY <2>1, OnHoldNat
    <3> QED BY <2>0, <3>2, <3>4, <3>5
  <2>2. CASE w \in Endings /\ EndingCrash(w)
    <3>1. \A c \in Checkouts : OnHold(a, p, b, c)' = OnHold(a, p, b, c)
      BY <2>2 DEF EndingCrash, OnHold
    <3>2. OnHolds(a, p, b)' = OnHolds(a, p, b)
      BY <3>1, HoldsSame
    <3> QED BY <2>0, <3>2
  <2> QED BY <2>1, <2>2
<1>6. OnRows(a, p, b) \in Int /\ OnMoves(a, p, b) \in Int /\ OnHolds(a, p, b) \in Int
  BY <1>1, ChargesNat
<1> QED BY <1>2, <1>3, <1>4, <1>5, <1>6 DEF Charged

LEMMA StepEven ==
  ASSUME Typed, Shapes, Booked, NEW a, NEW p, NEW b, Open(a, p, b), Next
  PROVE  \/ Evens(a, p, b) /\ crashes' = crashes
         \/ /\ Stands(a, p, b)' = Stands(a, p, b) /\ Charged(a, p, b)' <= Charged(a, p, b)
            /\ crashes' = crashes + 1
<1>1. ASSUME NEW c \in Checkouts, CheckoutNext(c)
      PROVE  \/ Evens(a, p, b) /\ crashes' = crashes
             \/ /\ Stands(a, p, b)' = Stands(a, p, b) /\ Charged(a, p, b)' <= Charged(a, p, b)
                /\ crashes' = crashes + 1
  <2>1. c \in Movers
    BY DEF Movers
  <2>2. CASE CheckoutCrash(c)
    BY <2>1, <2>2, CrashCovers DEF CheckoutCrash
  <2>3. CASE \/ Begin(c) \/ Lookup(c) \/ Abort(c) \/ Place(c) \/ PushOrder(c)
             \/ PatchOrder(c) \/ Fail(c)
    BY <2>3, FreeStepsEven DEF Begin, Lookup, Abort, Place, PushOrder, PatchOrder, Fail
  <2>4. CASE ReserveUsage(c)
    BY <2>4, ReserveUsageEven DEF ReserveUsage
  <2>5. CASE HoldPromo(c)
    BY <2>5, HoldPromoEven DEF HoldPromo
  <2>6. CASE HoldCode(c)
    BY <2>6, HoldCodeEven DEF HoldCode
  <2>7. CASE Insert(c)
    BY <2>7, InsertEven DEF Insert
  <2>8. CASE Undo(c)
    BY <2>8, UndoEven DEF Undo
  <2>9. CASE RenameRedemption(c)
    BY <2>9, RenameEven DEF RenameRedemption
  <2>10. CASE ReleaseFind(c)
    BY <2>1, <2>10, FindsEven DEF ReleaseFind
  <2> QED BY <1>1, <2>2, <2>3, <2>4, <2>5, <2>6, <2>7, <2>8, <2>9, <2>10 DEF CheckoutNext
<1>2. ASSUME NEW e \in Endings, EndingNext(e)
      PROVE  \/ Evens(a, p, b) /\ crashes' = crashes
             \/ /\ Stands(a, p, b)' = Stands(a, p, b) /\ Charged(a, p, b)' <= Charged(a, p, b)
                /\ crashes' = crashes + 1
  <2>1. e \in Movers
    BY DEF Movers
  <2>2. CASE EndingCrash(e)
    BY <2>1, <2>2, CrashCovers DEF EndingCrash
  <2>3. CASE EndingRead(e)
    BY <2>1, <2>3, FindsEven DEF EndingRead
  <2>4. CASE EndingFind(e)
    BY <2>1, <2>4, FindsEven DEF EndingFind
  <2> QED BY <1>2, <2>2, <2>3, <2>4 DEF EndingNext
<1>3. ASSUME NEW w \in Movers, MoveNext(w)
      PROVE  Evens(a, p, b) /\ crashes' = crashes
  <2>1. crashes' = crashes
    BY <1>3 DEF MoveNext, Flip, MovePromo, MoveCode, MoveUsage
  <2> QED BY <1>3, <2>1, FlipEven, MovePromoEven, MoveCodeEven, MoveUsageEven DEF MoveNext
<1> QED BY <1>1, <1>2, <1>3 DEF Next

\* Counters and charges are integers.
Countable ==
  \A a \in Accounts, p \in Promos, b \in Buyers \cup {<<>>} : Open(a, p, b) =>
    Stands(a, p, b) \in Int /\ Charged(a, p, b) \in Int

LEMMA AlwaysCountable == Typed /\ Shapes => Countable
  BY StandsInt, ChargesNat DEF Countable

LEMMA BookedNext ==
  ASSUME Typed, Shapes, Booked, [Next]_vars
  PROVE  Booked'
<1>1. CASE UNCHANGED vars
  BY <1>1 DEF vars, Booked, Stands, Charged, OnRows, OnMoves, OnHolds, OnRow, OnMove, OnHold,
              Owes, Took
<1>2. CASE Next
  <2> SUFFICES ASSUME NEW a \in Accounts, NEW p \in Promos, NEW b \in Buyers \cup {<<>>},
                      Open(a, p, b)
               PROVE  /\ Stands(a, p, b)' >= Charged(a, p, b)'
                      /\ crashes' = 0 => Stands(a, p, b)' = Charged(a, p, b)'
    BY DEF Booked
  <2>1. /\ Stands(a, p, b) >= Charged(a, p, b)
        /\ crashes = 0 => Stands(a, p, b) = Charged(a, p, b)
    BY DEF Booked
  <2>2. Stands(a, p, b) \in Int /\ Charged(a, p, b) \in Int /\ crashes \in Nat
    BY StandsInt, ChargesNat, LimitAssumption DEF Typed
  <2>3. Stands(a, p, b)' \in Int /\ Charged(a, p, b)' \in Int
    <3>1. Typed' /\ Shapes'
      BY <1>2, TypedShapesNext
    <3>2. (Typed /\ Shapes => Countable)'
      BY AlwaysCountable, PTL
    <3>3. Countable'
      BY <3>1, <3>2
    <3>4. Open(a, p, b)'
      BY DEF Open
    <3> QED BY <3>3, <3>4 DEF Countable
  <2>4. CASE Evens(a, p, b) /\ crashes' = crashes
    BY <2>1, <2>2, <2>3, <2>4 DEF Evens
  <2>5. CASE /\ Stands(a, p, b)' = Stands(a, p, b) /\ Charged(a, p, b)' <= Charged(a, p, b)
             /\ crashes' = crashes + 1
    BY <2>1, <2>2, <2>3, <2>5
  <2> QED BY <1>2, <2>4, <2>5, StepEven
<1> QED BY <1>1, <1>2

\* The counters of a code are used only by promotions that have one.
Uncoded == \A p \in Promos \ Coded : code[p].held = 0

LEMMA UncodedNext ==
  ASSUME Typed, Shapes, Uncoded, [Next]_vars
  PROVE  Uncoded'
<1> SUFFICES ASSUME NEW p \in Promos \ Coded
             PROVE  code'[p] = code[p]
  BY DEF Uncoded
<1>1. CASE UNCHANGED code
  BY <1>1
<1>2. ASSUME NEW q \in Coded, NEW h, NEW u, CodeMoves(q, h, u)
      PROVE  code'[p] = code[p]
  BY <1>2 DEF CodeMoves
<1>3. ASSUME NEW c \in Checkouts, HoldCode(c)
      PROVE  code'[p] = code[p]
  <2>1. HoldShape(hold[c])
    BY DEF Shapes
  <2>2. Head(hold[c].todo) \in Coded
    BY <1>3, <2>1 DEF HoldShape, HoldCode
  <2> QED BY <1>2, <1>3, <2>2, HoldCodeDoes
<1>4. ASSUME NEW c \in Checkouts, Undo(c)
      PROVE  code'[p] = code[p]
  <2>1. HoldShape(hold[c]) /\ hold[c].pc = "undo"
    BY <1>4 DEF Shapes, Undo
  <2>2. hold[c].undo \in UndoLists /\ Gives(hold[c].undo, Head(hold[c].undo))
    BY <1>4, UndoDoes, UndoSteps
  <2>3. Head(hold[c].undo) = "code" => Head(hold[c].todo) \in Coded
    BY <2>1, <2>2 DEF HoldShape
  <2> QED BY <1>2, <1>4, <2>3, UndoDoes
<1>5. ASSUME NEW w \in Movers, MoveCode(w)
      PROVE  code'[p] = code[p]
  <2>1. MoveShape(move[w]) /\ move[w].pc = "code" /\ move[w].to \in {"used", "released"}
    BY <1>5, Moved DEF Shapes, MoveCode
  <2>2. move[w].i[1] \in Coded
    BY <2>1 DEF MoveShape
  <2> QED BY <1>2, <1>5, <2>1, <2>2, MoveCodeDoes
<1>6. ASSUME NEW c \in Checkouts, CheckoutNext(c)
      PROVE  code'[p] = code[p]
  BY <1>1, <1>3, <1>4, <1>6 DEF CheckoutNext, Begin, Lookup, ReserveUsage, HoldPromo, Insert,
       Abort, Place, PushOrder, RenameRedemption, PatchOrder, ReleaseFind, Fail, CheckoutCrash,
       counters
<1>7. ASSUME NEW e \in Endings, EndingNext(e)
      PROVE  code'[p] = code[p]
  BY <1>1, <1>7 DEF EndingNext, EndingRead, EndingFind, EndingCrash, counters
<1>8. ASSUME NEW w \in Movers, MoveNext(w)
      PROVE  code'[p] = code[p]
  BY <1>1, <1>5, <1>8 DEF MoveNext, Flip, MovePromo, MoveUsage, counters
<1> QED BY <1>1, <1>6, <1>7, <1>8 DEF Next, vars

\* The charges of the redemptions are what the properties count and add up.
LEMMA OnRowsAre ==
  ASSUME Typed, NEW p \in Promos, NEW b
  PROVE  /\ OnRows("held", p, b) = Cardinality(RowsIn(p, {"held"}))
         /\ OnRows("live", p, b) = Cardinality(RowsIn(p, Live))
         /\ OnRows("bheld", p, b) = Total(p, {"held"})
         /\ OnRows("blive", p, b) = Total(p, Live)
         /\ OnRows("cheld", p, b) = Cardinality(RowsIn(p, {"held"}))
         /\ OnRows("clive", p, b) = Cardinality(RowsIn(p, Live))
         /\ OnRows("usage", p, b) = Cardinality(RowsOf(p, b, Live))
<1>1. ASSUME NEW a, NEW T \in SUBSET Requests,
             \A r \in Requests : OnRow(a, p, b, r) = IF r \in T THEN 1 ELSE 0
      PROVE  OnRows(a, p, b) = Cardinality(T)
  <2> DEFINE gun == [r \in Requests |-> OnRow(a, p, b, r)]
  <2>1. \A r \in Requests : gun[r] = IF r \in T THEN 1 ELSE 0
    BY <1>1
  <2>2. OnRows(a, p, b) = SumFunctionOnSet(gun, Requests)
    BY DEF OnRows
  <2> HIDE DEF gun
  <2>3. SumFunctionOnSet(gun, Requests) = Cardinality(T)
    BY <2>1, FiniteKinds, SumOfOnes
  <2> QED BY <2>2, <2>3
<1>2. ASSUME NEW a, NEW S,
             \A r \in Requests : OnRow(a, p, b, r) =
               IF r \in RowsIn(p, S) THEN red[<<p, r>>].amount ELSE 0
      PROVE  OnRows(a, p, b) = Total(p, S)
  <2> DEFINE gun == [r \in Requests |-> OnRow(a, p, b, r)]
             fun == [r \in Requests |-> red[<<p, r>>].amount]
             T == RowsIn(p, S)
  <2>1. \A r \in Requests : gun[r] = IF r \in T THEN fun[r] ELSE 0
    BY <1>2
  <2>2. OnRows(a, p, b) = SumFunctionOnSet(gun, Requests) /\ Total(p, S) = SumFunctionOnSet(fun, T)
    BY DEF OnRows, Total
  <2>3. \A r \in Requests : fun[r] \in Int
    <3>1. ASSUME NEW r \in Requests
          PROVE  red[<<p, r>>].amount \in Int
      <4>1. <<p, r>> \in Ids
        BY DEF Ids
      <4>2. red[<<p, r>>].amount \in Amounts \cup {0}
        BY <4>1 DEF Typed, Redemption
      <4> QED BY <4>2, AmountsAreNat
    <3> QED BY <3>1
  <2>4. T \in SUBSET Requests
    BY DEF RowsIn
  <2> HIDE DEF gun, fun, T
  <2>5. SumFunctionOnSet(gun, Requests) = SumFunctionOnSet(fun, T)
    BY <2>1, <2>3, <2>4, FiniteKinds, SumOfSome
  <2> QED BY <2>2, <2>5
<1>3. /\ RowsIn(p, {"held"}) \in SUBSET Requests /\ RowsIn(p, Live) \in SUBSET Requests
      /\ RowsOf(p, b, Live) \in SUBSET Requests
  BY DEF RowsIn, RowsOf
<1>4. OnRows("held", p, b) = Cardinality(RowsIn(p, {"held"}))
  <2>1. \A r \in Requests : OnRow("held", p, b, r) = IF r \in RowsIn(p, {"held"}) THEN 1 ELSE 0
    BY DEF OnRow, RowsIn, Worth, Lasting
  <2> QED BY <1>1, <1>3, <2>1
<1>5. OnRows("live", p, b) = Cardinality(RowsIn(p, Live))
  <2>1. \A r \in Requests : OnRow("live", p, b, r) = IF r \in RowsIn(p, Live) THEN 1 ELSE 0
    BY DEF OnRow, RowsIn, Worth, Lasting, Live
  <2> QED BY <1>1, <1>3, <2>1
<1>6. OnRows("bheld", p, b) = Total(p, {"held"})
  <2>1. \A r \in Requests : OnRow("bheld", p, b, r) =
          IF r \in RowsIn(p, {"held"}) THEN red[<<p, r>>].amount ELSE 0
    BY DEF OnRow, RowsIn, Worth, Lasting
  <2> QED BY <1>2, <2>1
<1>7. OnRows("blive", p, b) = Total(p, Live)
  <2>1. \A r \in Requests : OnRow("blive", p, b, r) =
          IF r \in RowsIn(p, Live) THEN red[<<p, r>>].amount ELSE 0
    BY DEF OnRow, RowsIn, Worth, Lasting, Live
  <2> QED BY <1>2, <2>1
<1>8. OnRows("cheld", p, b) = Cardinality(RowsIn(p, {"held"}))
  <2>1. \A r \in Requests : OnRow("cheld", p, b, r) = IF r \in RowsIn(p, {"held"}) THEN 1 ELSE 0
    BY DEF OnRow, RowsIn, Worth, Lasting
  <2> QED BY <1>1, <1>3, <2>1
<1>9. OnRows("clive", p, b) = Cardinality(RowsIn(p, Live))
  <2>1. \A r \in Requests : OnRow("clive", p, b, r) = IF r \in RowsIn(p, Live) THEN 1 ELSE 0
    BY DEF OnRow, RowsIn, Worth, Lasting, Live
  <2> QED BY <1>1, <1>3, <2>1
<1>10. OnRows("usage", p, b) = Cardinality(RowsOf(p, b, Live))
  <2>1. \A r \in Requests : OnRow("usage", p, b, r) = IF r \in RowsOf(p, b, Live) THEN 1 ELSE 0
    BY DEF OnRow, RowsIn, RowsOf, Worth, Lasting, Live
  <2> QED BY <1>1, <1>3, <2>1
<1> QED BY <1>4, <1>5, <1>6, <1>7, <1>8, <1>9, <1>10

\* What the accounts say of one promotion.
LEMMA AccountsOf ==
  ASSUME Typed, Shapes, Booked, NEW a, NEW p, NEW b \in Buyers \cup {<<>>}, Open(a, p, b)
  PROVE  /\ Stands(a, p, b) >= OnRows(a, p, b) /\ Stands(a, p, b) \in Nat
         /\ OnRows(a, p, b) \in Nat
<1>1. a \in Accounts /\ p \in Promos
  BY DEF Open
<1>2. Stands(a, p, b) >= Charged(a, p, b)
  BY <1>1 DEF Booked
<1>3. /\ OnRows(a, p, b) \in Nat /\ OnMoves(a, p, b) \in Nat /\ OnHolds(a, p, b) \in Nat
      /\ Stands(a, p, b) \in Int
  BY <1>1, ChargesNat, StandsInt
<1> QED BY <1>2, <1>3 DEF Charged

LEMMA BookedCovers == Typed /\ Shapes /\ Booked => CountersCover
<1> SUFFICES ASSUME Typed, Shapes, Booked, NEW p \in Promos
             PROVE  /\ promo[p].held >= Cardinality(RowsIn(p, {"held"}))
                    /\ promo[p].held + promo[p].used >= Cardinality(RowsIn(p, Live))
                    /\ promo[p].bheld >= Total(p, {"held"})
                    /\ promo[p].bheld + promo[p].bused >= Total(p, Live)
                    /\ p \in Coded =>
                         code[p].held + code[p].used >= Cardinality(RowsIn(p, Live))
                    /\ Limited(p) => \A b \in Buyers :
                         usage[<<p, b>>] >= Cardinality(RowsOf(p, b, Live))
  BY DEF CountersCover
<1> DEFINE n == <<>>
<1>1. n \in Buyers \cup {<<>>}
  OBVIOUS
<1> HIDE DEF n
<1>2. /\ promo[p].held >= Cardinality(RowsIn(p, {"held"}))
      /\ promo[p].held + promo[p].used >= Cardinality(RowsIn(p, Live))
      /\ promo[p].bheld >= Total(p, {"held"})
      /\ promo[p].bheld + promo[p].bused >= Total(p, Live)
  <2>1. Open("held", p, n) /\ Open("live", p, n) /\ Open("bheld", p, n) /\ Open("blive", p, n)
    BY DEF Open, Accounts, PromoAccounts, CodeAccounts
  <2>2. /\ Stands("held", p, n) >= OnRows("held", p, n)
        /\ Stands("live", p, n) >= OnRows("live", p, n)
        /\ Stands("bheld", p, n) >= OnRows("bheld", p, n)
        /\ Stands("blive", p, n) >= OnRows("blive", p, n)
    BY <1>1, <2>1, AccountsOf
  <2> QED BY <2>2, OnRowsAre DEF Stands
<1>3. ASSUME p \in Coded
      PROVE  code[p].held + code[p].used >= Cardinality(RowsIn(p, Live))
  <2>1. Open("clive", p, n)
    BY <1>3 DEF Open, Accounts, CodeAccounts
  <2>2. Stands("clive", p, n) >= OnRows("clive", p, n)
    BY <1>1, <2>1, AccountsOf
  <2> QED BY <2>2, OnRowsAre DEF Stands
<1>4. ASSUME Limited(p), NEW b \in Buyers
      PROVE  usage[<<p, b>>] >= Cardinality(RowsOf(p, b, Live))
  <2>1. Open("usage", p, b)
    BY <1>4 DEF Open, Accounts, CodeAccounts
  <2>2. Stands("usage", p, b) >= OnRows("usage", p, b)
    BY <2>1, AccountsOf
  <2> QED BY <2>2, OnRowsAre DEF Stands
<1> QED BY <1>2, <1>3, <1>4

LEMMA BookedTypes == Typed /\ Shapes /\ Booked /\ Uncoded => TypeOK
<1> SUFFICES ASSUME Typed, Shapes, Booked, Uncoded
             PROVE  TypeOK
  OBVIOUS
<1> DEFINE n == <<>>
<1>1. n \in Buyers \cup {<<>>}
  OBVIOUS
<1> HIDE DEF n
<1>2. ASSUME NEW p \in Promos
      PROVE  promo[p].held \in Nat /\ promo[p].bheld \in Nat
  <2>1. Open("held", p, n) /\ Open("bheld", p, n)
    BY DEF Open, Accounts, PromoAccounts, CodeAccounts
  <2>2. Stands("held", p, n) \in Nat /\ Stands("bheld", p, n) \in Nat
    BY <1>1, <2>1, AccountsOf
  <2> QED BY <2>2 DEF Stands
<1>3. ASSUME NEW p \in Promos
      PROVE  code[p].held \in Nat
  <2>1. CASE p \in Coded
    <3>1. Open("cheld", p, n)
      BY <2>1 DEF Open, Accounts, CodeAccounts
    <3>2. Stands("cheld", p, n) \in Nat
      BY <1>1, <3>1, AccountsOf
    <3> QED BY <3>2 DEF Stands
  <2>2. CASE p \notin Coded
    BY <2>2 DEF Uncoded
  <2> QED BY <2>1, <2>2
<1>4. promo \in [Promos -> [held : Nat, used : Nat, bheld : Nat, bused : Nat]]
  <2>1. ASSUME NEW p \in Promos
        PROVE  promo[p] \in [held : Nat, used : Nat, bheld : Nat, bused : Nat]
    <3>1. promo[p] \in [held : Int, used : Nat, bheld : Int, bused : Nat]
      BY DEF Typed
    <3> QED BY <1>2, <3>1
  <2> QED BY <2>1 DEF Typed
<1>5. code \in [Promos -> [held : Nat, used : Nat]]
  <2>1. ASSUME NEW p \in Promos
        PROVE  code[p] \in [held : Nat, used : Nat]
    <3>1. code[p] \in [held : Int, used : Nat]
      BY DEF Typed
    <3> QED BY <1>3, <3>1
  <2> QED BY <2>1 DEF Typed
<1> QED BY <1>4, <1>5 DEF Typed, TypeOK

\* The books of PromotionHolds: the inductive invariant of its counters.
Books == Typed /\ Shapes /\ Booked /\ Uncoded

LEMMA BooksKept == Spec => []Books
<1>1. Init => Books
  <2>1. Init => Uncoded
    BY DEF Init, Uncoded
  <2> QED BY <2>1, TypedShapesInit, BookedInit DEF Books
<1>2. Books /\ [Next]_vars => Books'
  BY TypedShapesNext, BookedNext, UncodedNext DEF Books
<1> QED BY <1>1, <1>2, PTL DEF Spec

\* Every variable keeps its type: in particular no interleaving of undos,
\* releases and payments, and no crash, makes a counter negative, though
\* each of them lowers counters without testing them (the $inc of
\* redemptionService.ts).
THEOREM TypeCorrect == Spec => []TypeOK
  BY BooksKept, BookedTypes, PTL DEF Books

\* The counters never fall below what the redemptions add up to, so that a
\* limit tested on a counter is a limit on the redemptions, whichever
\* handlers are under way or have died.
THEOREM RedemptionsCovered == Spec => []CountersCover
  BY BooksKept, BookedCovers, PTL DEF Books

-----------------------------------------------------------------------------
(* The books balance when nobody is at work                                *)

LEMMA QuietCharges ==
  ASSUME Quiet, NEW a, NEW p, NEW b
  PROVE  OnMoves(a, p, b) = 0 /\ OnHolds(a, p, b) = 0
<1>1. OnMoves(a, p, b) = 0
  <2> DEFINE fun == [w \in Movers |-> OnMove(a, p, b, w)]
  <2>1. \A w \in Movers : fun[w] = 0
    BY DEF Quiet, MoveOver, OnMove, Owes
  <2> HIDE DEF fun
  <2>2. SumFunctionOnSet(fun, Movers) = 0
    BY <2>1, FiniteKinds, SumOfZeros
  <2> QED BY <2>2 DEF fun, OnMoves
<1>2. OnHolds(a, p, b) = 0
  <2> DEFINE fun == [c \in Checkouts |-> OnHold(a, p, b, c)]
  <2>1. \A c \in Checkouts : fun[c] = 0
    BY DEF Quiet, CheckoutOver, OnHold, Took
  <2> HIDE DEF fun
  <2>2. SumFunctionOnSet(fun, Checkouts) = 0
    BY <2>1, FiniteKinds, SumOfZeros
  <2> QED BY <2>2 DEF fun, OnHolds
<1> QED BY <1>1, <1>2

\* What is live is held or used, and not both.
LEMMA LiveIsHeldOrUsed ==
  ASSUME Typed, NEW p \in Promos
  PROVE  /\ Cardinality(RowsIn(p, Live)) =
              Cardinality(RowsIn(p, {"held"})) + Cardinality(RowsIn(p, {"used"}))
         /\ Total(p, Live) = Total(p, {"held"}) + Total(p, {"used"})
         /\ Cardinality(RowsIn(p, {"held"})) \in Nat /\ Cardinality(RowsIn(p, {"used"})) \in Nat
         /\ Total(p, {"held"}) \in Nat /\ Total(p, {"used"}) \in Nat
<1> DEFINE H == RowsIn(p, {"held"})
           U == RowsIn(p, {"used"})
           fun == [r \in Requests |-> red[<<p, r>>].amount]
<1>1. RowsIn(p, Live) = H \cup U /\ H \cap U = {} /\ H \subseteq Requests /\ U \subseteq Requests
  BY DEF RowsIn, Live
<1>2. /\ Total(p, Live) = SumFunctionOnSet(fun, RowsIn(p, Live))
      /\ Total(p, {"held"}) = SumFunctionOnSet(fun, H)
      /\ Total(p, {"used"}) = SumFunctionOnSet(fun, U)
  BY DEF Total
<1>3. \A r \in Requests : fun[r] \in Nat
  <2>1. ASSUME NEW r \in Requests
        PROVE  red[<<p, r>>].amount \in Nat
    <3>1. <<p, r>> \in Ids
      BY DEF Ids
    <3>2. red[<<p, r>>].amount \in Amounts \cup {0}
      BY <3>1 DEF Typed, Redemption
    <3> QED BY <3>2, AmountsAreNat
  <2> QED BY <2>1
<1> HIDE DEF H, U, fun
<1>4. IsFiniteSet(H) /\ IsFiniteSet(U)
  BY <1>1, FiniteKinds, FS_Subset
<1>5. Cardinality(H) \in Nat /\ Cardinality(U) \in Nat
  BY <1>4, FS_CardinalityType
<1>6. Cardinality(H \cup U) = Cardinality(H) + Cardinality(U)
  <2>1. Cardinality(H \cup U) = Cardinality(H) + Cardinality(U) - Cardinality(H \cap U)
    BY <1>4, FS_Union
  <2>2. Cardinality(H \cap U) = 0
    BY <1>1, FS_EmptySet
  <2> QED BY <1>5, <2>1, <2>2
<1>7. /\ SumFunctionOnSet(fun, H \cup U) = SumFunctionOnSet(fun, H) + SumFunctionOnSet(fun, U)
      /\ SumFunctionOnSet(fun, H) \in Nat /\ SumFunctionOnSet(fun, U) \in Nat
  <2>1. \A r \in H \cup U : fun[r] \in Int /\ fun[r] \in Nat
    BY <1>1, <1>3
  <2> QED BY <1>1, <1>4, <2>1, SumOfBoth, SumNat
<1>8. /\ Cardinality(RowsIn(p, Live)) = Cardinality(H \cup U)
      /\ SumFunctionOnSet(fun, RowsIn(p, Live)) = SumFunctionOnSet(fun, H \cup U)
  BY <1>1, Zenon
<1>9. H = RowsIn(p, {"held"}) /\ U = RowsIn(p, {"used"})
  BY DEF H, U
<1>10. /\ Cardinality(H) = Cardinality(RowsIn(p, {"held"}))
       /\ Cardinality(U) = Cardinality(RowsIn(p, {"used"}))
  BY <1>9, Zenon
<1> QED BY <1>2, <1>5, <1>6, <1>7, <1>8, <1>10

LEMMA BookedBalances == Typed /\ Shapes /\ Booked => Balanced
<1> SUFFICES ASSUME Typed, Shapes, Booked, Quiet, crashes = 0, NEW p \in Promos
             PROVE  /\ promo[p] = [held  |-> Cardinality(RowsIn(p, {"held"})),
                                   used  |-> Cardinality(RowsIn(p, {"used"})),
                                   bheld |-> Total(p, {"held"}),
                                   bused |-> Total(p, {"used"})]
                    /\ p \in Coded =>
                         code[p] = [held |-> Cardinality(RowsIn(p, {"held"})),
                                    used |-> Cardinality(RowsIn(p, {"used"}))]
                    /\ Limited(p) => \A b \in Buyers :
                         usage[<<p, b>>] = Cardinality(RowsOf(p, b, Live))
  BY DEF Balanced, CountersMatch
<1>1. ASSUME NEW a, NEW b \in Buyers \cup {<<>>}, Open(a, p, b)
      PROVE  Stands(a, p, b) = OnRows(a, p, b)
  <2>1. Stands(a, p, b) = Charged(a, p, b)
    BY <1>1 DEF Booked, Open
  <2>2. OnRows(a, p, b) \in Nat
    BY ChargesNat
  <2> QED BY <2>1, <2>2, QuietCharges DEF Charged
<1> DEFINE n == <<>>
           held == Cardinality(RowsIn(p, {"held"}))
           used == Cardinality(RowsIn(p, {"used"}))
<1>2. n \in Buyers \cup {<<>>}
  OBVIOUS
<1> HIDE DEF n
<1>3. /\ promo[p].held = held /\ promo[p].held + promo[p].used = Cardinality(RowsIn(p, Live))
      /\ promo[p].bheld = Total(p, {"held"}) /\ promo[p].bheld + promo[p].bused = Total(p, Live)
  <2>1. Open("held", p, n) /\ Open("live", p, n) /\ Open("bheld", p, n) /\ Open("blive", p, n)
    BY DEF Open, Accounts, PromoAccounts, CodeAccounts
  <2>2. /\ Stands("held", p, n) = OnRows("held", p, n)
        /\ Stands("live", p, n) = OnRows("live", p, n)
        /\ Stands("bheld", p, n) = OnRows("bheld", p, n)
        /\ Stands("blive", p, n) = OnRows("blive", p, n)
    BY <1>1, <1>2, <2>1
  <2> QED BY <2>2, OnRowsAre DEF Stands
<1>4. p \in Coded => /\ code[p].held = held
                     /\ code[p].held + code[p].used = Cardinality(RowsIn(p, Live))
  <2>1. p \in Coded => Open("cheld", p, n) /\ Open("clive", p, n)
    BY DEF Open, Accounts, PromoAccounts, CodeAccounts
  <2>2. p \in Coded => /\ Stands("cheld", p, n) = OnRows("cheld", p, n)
                       /\ Stands("clive", p, n) = OnRows("clive", p, n)
    BY <1>1, <1>2, <2>1
  <2> QED BY <2>2, OnRowsAre DEF Stands
<1>5. ASSUME Limited(p), NEW b \in Buyers
      PROVE  usage[<<p, b>>] = Cardinality(RowsOf(p, b, Live))
  <2>1. Open("usage", p, b)
    BY <1>5 DEF Open, Accounts, CodeAccounts
  <2>2. Stands("usage", p, b) = OnRows("usage", p, b)
    BY <1>1, <2>1
  <2> QED BY <2>2, OnRowsAre DEF Stands
<1> HIDE DEF held, used
<1>6. /\ held \in Nat /\ used \in Nat /\ Cardinality(RowsIn(p, Live)) = held + used
      /\ Total(p, {"held"}) \in Nat /\ Total(p, {"used"}) \in Nat
      /\ Total(p, Live) = Total(p, {"held"}) + Total(p, {"used"})
  BY LiveIsHeldOrUsed DEF held, used
<1>7. promo[p] = [held |-> held, used |-> used, bheld |-> Total(p, {"held"}),
                  bused |-> Total(p, {"used"})]
  <2>1. promo[p] \in [held : Int, used : Nat, bheld : Int, bused : Nat]
    BY DEF Typed
  <2>2. promo[p].used = used /\ promo[p].bused = Total(p, {"used"})
    BY <1>3, <1>6, <2>1
  <2> QED BY <1>3, <2>1, <2>2
<1>8. p \in Coded => code[p] = [held |-> held, used |-> used]
  <2>1. code[p] \in [held : Int, used : Nat]
    BY DEF Typed
  <2>2. p \in Coded => code[p].used = used
    BY <1>4, <1>6, <2>1
  <2> QED BY <1>4, <2>1, <2>2
<1> QED BY <1>5, <1>7, <1>8 DEF held, used

\* When every handler that touches counters has come to its end and none has
\* died, the counters are exactly what the redemptions add up to, whoever
\* raced whom: nothing is lost and nothing is counted twice.
THEOREM BooksBalance == Spec => []Balanced
  BY BooksKept, BookedBalances, PTL DEF Books

-----------------------------------------------------------------------------
(* The limits hold of the counters ...                                     *)

LimitsKept ==
  \A p \in Promos :
    /\ promo[p].held + promo[p].used <= Limit[p]
    /\ promo[p].bheld + promo[p].bused <= Budget[p]
    /\ p \in Coded => code[p].held + code[p].used <= CodeLimit[p]
    /\ Limited(p) => \A b \in Buyers : usage[<<p, b>>] <= BuyerLimit[p]

LEMMA LimitsAreNat ==
  ASSUME NEW p \in Promos
  PROVE  Limit[p] \in Nat /\ Budget[p] \in Nat /\ CodeLimit[p] \in Nat /\ BuyerLimit[p] \in Nat
<1>1. /\ Limit \in [Promos -> Nat] /\ Budget \in [Promos -> Nat]
      /\ CodeLimit \in [Promos -> Nat] /\ BuyerLimit \in [Promos -> Nat]
  BY LimitAssumption
<1> QED BY <1>1

LEMMA LimitsInit == Init => LimitsKept
<1> SUFFICES ASSUME Init, NEW p \in Promos
             PROVE  /\ promo[p].held + promo[p].used <= Limit[p]
                    /\ promo[p].bheld + promo[p].bused <= Budget[p]
                    /\ p \in Coded => code[p].held + code[p].used <= CodeLimit[p]
                    /\ Limited(p) => \A b \in Buyers : usage[<<p, b>>] <= BuyerLimit[p]
  BY DEF LimitsKept
<1>1. promo[p] = [held |-> 0, used |-> 0, bheld |-> 0, bused |-> 0]
  BY DEF Init
<1>2. code[p] = [held |-> 0, used |-> 0]
  BY DEF Init
<1>3. \A b \in Buyers : usage[<<p, b>>] = 0
  BY DEF Init
<1> QED BY <1>1, <1>2, <1>3, LimitsAreNat

\* Each kind of counter is raised only below its limit.
LEMMA PromoWithin ==
  ASSUME Typed, LimitsKept, NEW q \in Promos, NEW h \in Int, NEW u \in Int,
         NEW bh \in Int, NEW bu \in Int, PromoMoves(q, h, u, bh, bu), UNCHANGED <<code, usage>>,
         h + u <= 0 \/ promo[q].held + promo[q].used + (h + u) <= Limit[q],
         bh + bu <= 0 \/ promo[q].bheld + promo[q].bused + (bh + bu) <= Budget[q]
  PROVE  LimitsKept'
<1> SUFFICES ASSUME NEW p \in Promos
             PROVE  /\ promo'[p].held + promo'[p].used <= Limit[p]
                    /\ promo'[p].bheld + promo'[p].bused <= Budget[p]
  BY DEF LimitsKept
<1>1. /\ promo[p].held + promo[p].used <= Limit[p]
      /\ promo[p].bheld + promo[p].bused <= Budget[p]
  BY DEF LimitsKept
<1>2. /\ promo[p].held \in Int /\ promo[p].used \in Int
      /\ promo[p].bheld \in Int /\ promo[p].bused \in Int
      /\ Limit[p] \in Int /\ Budget[p] \in Int
  BY LimitsAreNat DEF Typed
<1>3. CASE p # q
  BY <1>1, <1>3 DEF PromoMoves
<1>4. CASE p = q
  <2>1. /\ promo'[p].held = promo[p].held + h /\ promo'[p].used = promo[p].used + u
        /\ promo'[p].bheld = promo[p].bheld + bh /\ promo'[p].bused = promo[p].bused + bu
    BY <1>4 DEF PromoMoves
  <2> QED BY <1>1, <1>2, <1>4, <2>1
<1> QED BY <1>3, <1>4

LEMMA CodeWithin ==
  ASSUME Typed, LimitsKept, NEW q \in Promos, NEW h \in Int, NEW u \in Int,
         CodeMoves(q, h, u), UNCHANGED <<promo, usage>>,
         h + u <= 0 \/ code[q].held + code[q].used + (h + u) <= CodeLimit[q]
  PROVE  LimitsKept'
<1> SUFFICES ASSUME NEW p \in Promos, p \in Coded
             PROVE  code'[p].held + code'[p].used <= CodeLimit[p]
  BY DEF LimitsKept
<1>1. code[p].held + code[p].used <= CodeLimit[p]
  BY DEF LimitsKept
<1>2. code[p].held \in Int /\ code[p].used \in Int /\ CodeLimit[p] \in Int
  BY LimitsAreNat DEF Typed
<1>3. CASE p # q
  BY <1>1, <1>3 DEF CodeMoves
<1>4. CASE p = q
  <2>1. code'[p].held = code[p].held + h /\ code'[p].used = code[p].used + u
    BY <1>4 DEF CodeMoves
  <2> QED BY <1>1, <1>2, <1>4, <2>1
<1> QED BY <1>3, <1>4

LEMMA UsageWithin ==
  ASSUME Typed, LimitsKept, NEW q \in Promos, NEW d \in Buyers, NEW n \in Nat,
         UsageBecomes(<<q, d>>, n), UNCHANGED <<promo, code>>,
         Limited(q) => n <= usage[<<q, d>>] \/ n <= BuyerLimit[q]
  PROVE  LimitsKept'
<1> SUFFICES ASSUME NEW p \in Promos, Limited(p), NEW b \in Buyers
             PROVE  usage'[<<p, b>>] <= BuyerLimit[p]
  BY DEF LimitsKept
<1>1. usage[<<p, b>>] <= BuyerLimit[p]
  BY DEF LimitsKept
<1>2. <<p, b>> \in Promos \X Buyers
  OBVIOUS
<1>3. usage[<<p, b>>] \in Nat /\ BuyerLimit[p] \in Nat
  BY <1>2, LimitsAreNat DEF Typed
<1>4. CASE <<p, b>> # <<q, d>>
  BY <1>1, <1>2, <1>4 DEF UsageBecomes
<1>5. CASE <<p, b>> = <<q, d>>
  <2>1. p = q /\ b = d /\ usage'[<<p, b>>] = n
    BY <1>5 DEF UsageBecomes
  <2> QED BY <1>1, <1>3, <2>1
<1> QED BY <1>4, <1>5

LEMMA LimitsNext ==
  ASSUME Typed, Shapes, LimitsKept, [Next]_vars
  PROVE  LimitsKept'
<1>1. CASE UNCHANGED <<promo, code, usage>>
  BY <1>1 DEF LimitsKept
<1>0. -1 \in Int /\ 0 \in Int /\ 1 \in Int
  OBVIOUS
<1>2. ASSUME NEW c \in Checkouts, ReserveUsage(c)
      PROVE  LimitsKept'
  <2>1. PICK q \in Promos, d \in Buyers : q = Head(hold[c].todo) /\ d = BuyerOf[hold[c].r]
    BY <1>2, Attempt DEF ReserveUsage, Trying
  <2>2. \/ UNCHANGED usage
        \/ UsageBecomes(<<q, d>>, usage[<<q, d>>] + 1) /\ usage[<<q, d>>] < BuyerLimit[q]
    BY <1>2, <2>1, ReserveUsageDoes
  <2>3. <<q, d>> \in Promos \X Buyers
    OBVIOUS
  <2>4. usage[<<q, d>>] \in Nat /\ BuyerLimit[q] \in Nat
    BY <2>3, LimitsAreNat DEF Typed
  <2>5. UNCHANGED <<promo, code>>
    BY <1>2 DEF ReserveUsage
  <2>6. CASE UsageBecomes(<<q, d>>, usage[<<q, d>>] + 1) /\ usage[<<q, d>>] < BuyerLimit[q]
    <3>1. usage[<<q, d>>] + 1 \in Nat /\ usage[<<q, d>>] + 1 <= BuyerLimit[q]
      BY <2>4, <2>6
    <3> QED BY <2>5, <2>6, <3>1, UsageWithin
  <2> QED BY <1>1, <2>2, <2>5, <2>6
<1>3. ASSUME NEW c \in Checkouts, HoldPromo(c)
      PROVE  LimitsKept'
  <2>1. PICK q \in Promos, n \in Nat : q = Head(hold[c].todo) /\ n = hold[c].n
    BY <1>3, Attempt, AmountsAreNat DEF HoldPromo, Trying, Counting
  <2>2. UNCHANGED promo \/ (PromoHasRoom(q, n) /\ PromoMoves(q, 1, 0, n, 0))
    BY <1>3, <2>1, HoldPromoDoes
  <2>3. UNCHANGED <<code, usage>>
    BY <1>3 DEF HoldPromo
  <2>4. CASE PromoHasRoom(q, n) /\ PromoMoves(q, 1, 0, n, 0)
    <3>1. /\ promo[q].held \in Int /\ promo[q].used \in Int
          /\ promo[q].bheld \in Int /\ promo[q].bused \in Int
          /\ Limit[q] \in Int /\ Budget[q] \in Int /\ n \in Int
      BY LimitsAreNat DEF Typed
    <3>2. /\ promo[q].held + promo[q].used + (1 + 0) <= Limit[q]
          /\ promo[q].bheld + promo[q].bused + (n + 0) <= Budget[q]
      BY <2>4, <3>1 DEF PromoHasRoom
    <3> QED BY <1>0, <2>3, <2>4, <3>1, <3>2, PromoWithin
  <2> QED BY <1>1, <2>2, <2>3, <2>4
<1>4. ASSUME NEW c \in Checkouts, HoldCode(c)
      PROVE  LimitsKept'
  <2>1. PICK q \in Promos : q = Head(hold[c].todo)
    BY <1>4, Attempt DEF HoldCode, Trying
  <2>2. UNCHANGED code \/ (CodeHasRoom(q) /\ CodeMoves(q, 1, 0))
    BY <1>4, <2>1, HoldCodeDoes
  <2>3. UNCHANGED <<promo, usage>>
    BY <1>4 DEF HoldCode
  <2>4. CASE CodeHasRoom(q) /\ CodeMoves(q, 1, 0)
    <3>1. code[q].held \in Int /\ code[q].used \in Int /\ CodeLimit[q] \in Int
      BY LimitsAreNat DEF Typed
    <3>2. code[q].held + code[q].used + (1 + 0) <= CodeLimit[q]
      BY <2>4, <3>1 DEF CodeHasRoom
    <3> QED BY <1>0, <2>3, <2>4, <3>2, CodeWithin
  <2> QED BY <1>1, <2>2, <2>3, <2>4
\* What lowers a counter keeps it below its limit.
<1>5. ASSUME NEW q \in Promos, NEW d \in Buyers, UNCHANGED <<promo, code>>,
             UsageBecomes(<<q, d>>, IF usage[<<q, d>>] > 0 THEN usage[<<q, d>>] - 1 ELSE 0)
      PROVE  LimitsKept'
  <2>1. <<q, d>> \in Promos \X Buyers
    OBVIOUS
  <2>2. usage[<<q, d>>] \in Nat
    BY <2>1 DEF Typed
  <2> DEFINE n == IF usage[<<q, d>>] > 0 THEN usage[<<q, d>>] - 1 ELSE 0
  <2>3. n \in Nat /\ n <= usage[<<q, d>>]
    BY <2>2
  <2> HIDE DEF n
  <2>4. UsageBecomes(<<q, d>>, n)
    BY <1>5 DEF n
  <2> QED BY <1>5, <2>3, <2>4, UsageWithin
<1>6. ASSUME NEW q \in Promos, NEW n \in Nat, UNCHANGED <<code, usage>>,
             PromoMoves(q, -1, 0, -n, 0) \/ PromoMoves(q, -1, 1, -n, n)
      PROVE  LimitsKept'
  <2>1. -n \in Int /\ n \in Int /\ -1 + 0 <= 0 /\ -1 + 1 <= 0 /\ -n + 0 <= 0 /\ -n + n <= 0
    OBVIOUS
  <2> QED BY <1>0, <1>6, <2>1, PromoWithin
<1>7. ASSUME NEW q \in Promos, UNCHANGED <<promo, usage>>,
             CodeMoves(q, -1, 0) \/ CodeMoves(q, -1, 1)
      PROVE  LimitsKept'
  <2>1. -1 + 0 <= 0 /\ -1 + 1 <= 0
    OBVIOUS
  <2> QED BY <1>0, <1>7, <2>1, CodeWithin
<1>8. ASSUME NEW c \in Checkouts, Undo(c)
      PROVE  LimitsKept'
  <2>1. PICK q \in Promos, d \in Buyers, n \in Nat :
          q = Head(hold[c].todo) /\ d = BuyerOf[hold[c].r] /\ n = hold[c].n
    BY <1>8, Attempt, AmountsAreNat DEF Undo, Trying, Counting
  <2> QED BY <1>5, <1>6, <1>7, <1>8, <2>1, UndoDoes
<1>9. ASSUME NEW w \in Movers, MovePromo(w)
      PROVE  LimitsKept'
  <2>1. PICK q \in Promos, n \in Nat, to \in {"used", "released"} :
          q = move[w].i[1] /\ n = red[move[w].i].amount /\ to = move[w].to
    BY <1>9, Moved DEF MovePromo
  <2>2. UNCHANGED <<code, usage>>
    BY <1>9 DEF MovePromo
  <2>3. PromoMoves(q, -1, 0, -n, 0) \/ PromoMoves(q, -1, 1, -n, n)
    BY <1>9, <2>1, MovePromoDoes
  <2> QED BY <1>6, <2>2, <2>3
<1>10. ASSUME NEW w \in Movers, MoveCode(w)
       PROVE  LimitsKept'
  <2>1. PICK q \in Promos, to \in {"used", "released"} : q = move[w].i[1] /\ to = move[w].to
    BY <1>10, Moved DEF MoveCode
  <2>2. UNCHANGED <<promo, usage>>
    BY <1>10 DEF MoveCode
  <2> QED BY <1>7, <1>10, <2>1, <2>2, MoveCodeDoes
<1>11. ASSUME NEW w \in Movers, MoveUsage(w)
       PROVE  LimitsKept'
  <2>1. PICK q \in Promos, d \in Buyers : q = move[w].i[1] /\ d = BuyerOf[move[w].i[2]]
    BY <1>11, Moved DEF MoveUsage
  <2>2. UNCHANGED <<promo, code>>
    BY <1>11 DEF MoveUsage
  <2> QED BY <1>5, <1>11, <2>1, <2>2, MoveUsageDoes
<1>12. ASSUME NEW c \in Checkouts, CheckoutNext(c)
       PROVE  LimitsKept'
  BY <1>1, <1>2, <1>3, <1>4, <1>8, <1>12 DEF CheckoutNext, Begin, Lookup, Insert, Abort, Place,
       PushOrder, RenameRedemption, PatchOrder, ReleaseFind, Fail, CheckoutCrash, counters
<1>13. ASSUME NEW e \in Endings, EndingNext(e)
       PROVE  LimitsKept'
  BY <1>1, <1>13 DEF EndingNext, EndingRead, EndingFind, EndingCrash, counters
<1>14. ASSUME NEW w \in Movers, MoveNext(w)
       PROVE  LimitsKept'
  BY <1>1, <1>9, <1>10, <1>11, <1>14 DEF MoveNext, Flip, counters
<1> QED BY <1>1, <1>12, <1>13, <1>14 DEF Next, vars

-----------------------------------------------------------------------------
(* ... and so of the redemptions: PromotionHolds implements PromotionLedger *)

\* While a checkout is at its insert, what it is going to hold is charged
\* beside the redemptions there are, so there is room for it.
LEMMA RoomAtInsert ==
  ASSUME Typed, Shapes, Booked, LimitsKept, NEW c \in Checkouts, hold[c].pc = "insert",
         NEW p \in Promos, p = Head(hold[c].todo), NEW r \in Requests, r = hold[c].r,
         NEW n \in Nat, n = hold[c].n
  PROVE  /\ Cardinality(RowsIn(p, Live)) < Limit[p]
         /\ Total(p, Live) + n <= Budget[p]
         /\ p \in Coded => Cardinality(RowsIn(p, Live)) < CodeLimit[p]
         /\ Limited(p) => Cardinality(RowsOf(p, BuyerOf[r], Live)) < BuyerLimit[p]
<1> DEFINE b == BuyerOf[r]
<1>1. b \in Buyers /\ b \in Buyers \cup {<<>>}
  BY LimitAssumption
<1> HIDE DEF b
<1>2. ASSUME NEW a, Open(a, p, b), a = "usage" => b = BuyerOf[hold[c].r]
      PROVE  Stands(a, p, b) >= OnRows(a, p, b) + Worth(a, n)
  <2>1. OnHold(a, p, b, c) = Worth(a, n)
    BY <1>2 DEF OnHold, Took
  <2>2. Stands(a, p, b) >= Charged(a, p, b)
    BY <1>1, <1>2 DEF Booked, Open
  <2>3. OnHold(a, p, b, c) <= OnHolds(a, p, b)
    BY HoldWithin
  <2>4. /\ OnRows(a, p, b) \in Nat /\ OnMoves(a, p, b) \in Nat /\ OnHolds(a, p, b) \in Nat
        /\ OnHold(a, p, b, c) \in Nat /\ Stands(a, p, b) \in Int
    BY <1>2, ChargesNat, OnHoldNat, StandsInt
  <2> QED BY <2>1, <2>2, <2>3, <2>4 DEF Charged
<1>3. /\ Limit[p] \in Nat /\ Budget[p] \in Nat /\ CodeLimit[p] \in Nat /\ BuyerLimit[p] \in Nat
      /\ promo[p].held \in Int /\ promo[p].used \in Int
      /\ promo[p].bheld \in Int /\ promo[p].bused \in Int
      /\ code[p].held \in Int /\ code[p].used \in Int
      /\ usage[<<p, b>>] \in Int
  <2>1. <<p, b>> \in Promos \X Buyers
    BY <1>1
  <2> QED BY <2>1, LimitsAreNat DEF Typed
<1>4. \A a : OnRows(a, p, b) \in Nat
  BY ChargesNat
<1>5. /\ promo[p].held + promo[p].used <= Limit[p]
      /\ promo[p].bheld + promo[p].bused <= Budget[p]
      /\ p \in Coded => code[p].held + code[p].used <= CodeLimit[p]
      /\ Limited(p) => usage[<<p, b>>] <= BuyerLimit[p]
  BY <1>1 DEF LimitsKept
<1>6. Cardinality(RowsIn(p, Live)) < Limit[p]
  <2>1. Open("live", p, b)
    BY DEF Open, Accounts, PromoAccounts, CodeAccounts
  <2>2. Stands("live", p, b) >= OnRows("live", p, b) + 1
    BY <1>2, <2>1 DEF Worth
  <2>3. Stands("live", p, b) = promo[p].held + promo[p].used
    BY DEF Stands
  <2>4. OnRows("live", p, b) = Cardinality(RowsIn(p, Live))
    BY OnRowsAre
  <2>5. OnRows("live", p, b) < Limit[p]
    BY <1>3, <1>4, <1>5, <2>2, <2>3
  <2> QED BY <2>4, <2>5
<1>7. Total(p, Live) + n <= Budget[p]
  <2>1. Open("blive", p, b)
    BY DEF Open, Accounts, PromoAccounts, CodeAccounts
  <2>2. Stands("blive", p, b) >= OnRows("blive", p, b) + n
    BY <1>2, <2>1 DEF Worth
  <2>3. Stands("blive", p, b) = promo[p].bheld + promo[p].bused
    BY DEF Stands
  <2>4. OnRows("blive", p, b) = Total(p, Live)
    BY OnRowsAre
  <2>5. OnRows("blive", p, b) + n <= Budget[p]
    BY <1>3, <1>4, <1>5, <2>2, <2>3
  <2> QED BY <2>4, <2>5
<1>8. ASSUME p \in Coded
      PROVE  Cardinality(RowsIn(p, Live)) < CodeLimit[p]
  <2>1. Open("clive", p, b)
    BY <1>8 DEF Open, Accounts, CodeAccounts
  <2>2. Stands("clive", p, b) >= OnRows("clive", p, b) + 1
    BY <1>2, <2>1 DEF Worth
  <2>3. Stands("clive", p, b) = code[p].held + code[p].used
    BY DEF Stands
  <2>4. OnRows("clive", p, b) = Cardinality(RowsIn(p, Live))
    BY OnRowsAre
  <2>5. OnRows("clive", p, b) < CodeLimit[p]
    BY <1>3, <1>4, <1>5, <1>8, <2>2, <2>3
  <2> QED BY <2>4, <2>5
<1>9. ASSUME Limited(p)
      PROVE  Cardinality(RowsOf(p, b, Live)) < BuyerLimit[p]
  <2>1. Open("usage", p, b)
    BY <1>1, <1>9 DEF Open, Accounts, CodeAccounts
  <2>2. Stands("usage", p, b) >= OnRows("usage", p, b) + 1
    <3>1. b = BuyerOf[hold[c].r]
      BY DEF b
    <3> QED BY <1>2, <2>1, <3>1 DEF Worth
  <2>3. Stands("usage", p, b) = usage[<<p, b>>]
    BY DEF Stands
  <2>4. OnRows("usage", p, b) = Cardinality(RowsOf(p, b, Live))
    BY OnRowsAre
  <2>5. OnRows("usage", p, b) < BuyerLimit[p]
    BY <1>3, <1>4, <1>5, <1>9, <2>2, <2>3
  <2> QED BY <2>4, <2>5
<1> QED BY <1>6, <1>7, <1>8, <1>9 DEF b

\* The ledger counts and adds as this module does.
LEMMA LedgerNumbers == \A S : Ledger!Cardinality(S) = Cardinality(S)
BY Zenon DEF Ledger!Cardinality, Cardinality

LEMMA LedgerSums ==
  \A fun, S : Ledger!SumFunctionOnSet(fun, S) = SumFunctionOnSet(fun, S)
BY Zenon DEF Ledger!SumFunctionOnSet, Ledger!FoldFunctionOnSet, Ledger!MapThenFoldSet,
   SumFunctionOnSet, FoldFunctionOnSet, MapThenFoldSet

\* What is live to the ledger.
LEMMA LedgerCounts ==
  ASSUME NEW p \in Promos, NEW b
  PROVE  /\ Ledger!Live(p) = RowsIn(p, Live)
         /\ Ledger!LiveOf(p, b) = RowsOf(p, b, Live)
         /\ Ledger!Spent(p) = Total(p, Live)
<1>1. \A r \in Requests : <<p, r>> \in Ids
  BY DEF Ids
<1>2. /\ \A r \in Requests : [i \in Ids |-> red[i].status][<<p, r>>] = red[<<p, r>>].status
      /\ \A r \in Requests : [i \in Ids |-> red[i].amount][<<p, r>>] = red[<<p, r>>].amount
  BY <1>1
<1>3. Ledger!Live(p) = RowsIn(p, Live)
  BY <1>2 DEF Ledger!Live, RowsIn, Live
<1>4. Ledger!LiveOf(p, b) = RowsOf(p, b, Live)
  BY <1>3 DEF Ledger!LiveOf, RowsOf
<1>5. Ledger!Spent(p) = Total(p, Live)
  <2>1. [r \in Requests |-> [i \in Ids |-> red[i].amount][<<p, r>>]]
          = [r \in Requests |-> red[<<p, r>>].amount]
    BY <1>2
  <2> DEFINE fun == [r \in Requests |-> [i \in Ids |-> red[i].amount][<<p, r>>]]
             gun == [r \in Requests |-> red[<<p, r>>].amount]
  <2>2. Ledger!Spent(p) = SumFunctionOnSet(fun, Ledger!Live(p))
    BY LedgerSums DEF Ledger!Spent
  <2>3. Total(p, Live) = SumFunctionOnSet(gun, RowsIn(p, Live))
    BY DEF Total
  <2>4. fun = gun
    BY <2>1
  <2> HIDE DEF fun, gun
  <2> QED BY <1>3, <2>2, <2>3, <2>4, Zenon
<1> QED BY <1>3, <1>4, <1>5

LEMMA LedgerInit == Init => Ledger!Init
<1> SUFFICES ASSUME Init PROVE Ledger!Init
  OBVIOUS
<1>1. \A i \in Ids : red[i].status = "none" /\ red[i].amount = 0
  BY DEF Init
<1> QED BY <1>1 DEF Ledger!Init, Ids

\* The redemption is the ledger's reservation.
LEMMA InsertReserves ==
  ASSUME Typed, Shapes, Booked, LimitsKept, NEW c \in Checkouts, Insert(c)
  PROVE  [Ledger!Next]_(Ledger!vars)
<1>1. PICK p \in Promos, r \in Requests, n \in Nat :
        p = Head(hold[c].todo) /\ r = hold[c].r /\ n = hold[c].n /\ n # 0
  BY Attempt, AmountsAreNat DEF Insert, Trying, Counting
<1>2. CASE UNCHANGED red
  BY <1>2 DEF Ledger!vars
<1>3. CASE /\ <<p, r>> \in Ids /\ red[<<p, r>>].status = "none"
           /\ Writes(<<p, r>>, <<c, "web">>, n, "held")
  <2>0. hold[c].pc = "insert"
    BY DEF Insert
  <2>1. /\ Cardinality(RowsIn(p, Live)) < Limit[p]
        /\ Total(p, Live) + n <= Budget[p]
        /\ p \in Coded => Cardinality(RowsIn(p, Live)) < CodeLimit[p]
        /\ Limited(p) => Cardinality(RowsOf(p, BuyerOf[r], Live)) < BuyerLimit[p]
    BY <1>1, <2>0, RoomAtInsert
  <2>2. Ledger!Room(p, r, n)
    <3>1. Ledger!Cardinality(Ledger!Live(p)) = Cardinality(RowsIn(p, Live))
      BY LedgerCounts, LedgerNumbers, Zenon
    <3>2. Ledger!Cardinality(Ledger!LiveOf(p, BuyerOf[r]))
            = Cardinality(RowsOf(p, BuyerOf[r], Live))
      BY LedgerCounts, LedgerNumbers, Zenon
    <3>3. Ledger!Spent(p) = Total(p, Live)
      BY LedgerCounts, Zenon
    <3> QED BY <2>1, <3>1, <3>2, <3>3 DEF Ledger!Room, Limited
  <2>3. n \in 1..Budget[p]
    <3>1. Total(p, Live) \in Nat
      BY LiveIsHeldOrUsed
    <3> QED BY <1>1, <2>1, <3>1, LimitsAreNat
  <2>4. Ledger!Reserve(p, r, n)
    <3>1. /\ [i \in Ids |-> red'[i].status] =
               [[i \in Ids |-> red[i].status] EXCEPT ![<<p, r>>] = "held"]
          /\ [i \in Ids |-> red'[i].amount] =
               [[i \in Ids |-> red[i].amount] EXCEPT ![<<p, r>>] = n]
          /\ [i \in Ids |-> red[i].status][<<p, r>>] = "none"
      BY <1>3 DEF Writes
    <3> QED BY <2>2, <3>1 DEF Ledger!Reserve
  <2> QED BY <2>3, <2>4 DEF Ledger!Next
<1> QED BY <1>1, <1>2, <1>3, InsertDoes

\* Whoever moves a redemption ends it, and nobody can do that again.
LEMMA FlipEnds ==
  ASSUME Typed, Shapes, NEW w \in Movers, Flip(w)
  PROVE  [Ledger!Next]_(Ledger!vars)
<1>1. CASE UNCHANGED red
  BY <1>1 DEF Ledger!vars
<1>2. ASSUME NEW i \in Ids, red[i].status = "held",
             Writes(i, red[i].code, red[i].amount, move[w].to)
      PROVE  Ledger!Next
  <2>1. PICK p \in Promos, r \in Requests : i = <<p, r>>
    BY DEF Ids
  <2>2. PICK to \in {"used", "released"} : to = move[w].to
    BY DEF Typed, Moving
  <2>3. /\ [j \in Ids |-> red'[j].status] =
               [[j \in Ids |-> red[j].status] EXCEPT ![<<p, r>>] = to]
        /\ [j \in Ids |-> red'[j].amount] = [j \in Ids |-> red[j].amount]
        /\ [j \in Ids |-> red[j].status][<<p, r>>] = "held"
    BY <1>2, <2>1, <2>2 DEF Writes
  <2>4. Ledger!End(p, r, to)
    BY <2>3 DEF Ledger!End
  <2> QED BY <2>4 DEF Ledger!Next
<1> QED BY <1>1, <1>2, FlipDoes

LEMMA LedgerStep ==
  ASSUME Typed, Shapes, Booked, LimitsKept, [Next]_vars
  PROVE  [Ledger!Next]_(Ledger!vars)
<1>1. CASE UNCHANGED red
  BY <1>1 DEF Ledger!vars
<1>2. ASSUME NEW c \in Checkouts, RenameRedemption(c)
      PROVE  [Ledger!Next]_(Ledger!vars)
  <2>1. \A i \in Ids : red'[i].status = red[i].status /\ red'[i].amount = red[i].amount
    BY <1>2, RenameRedemptionDoes DEF Renames
  <2> QED BY <2>1 DEF Ledger!vars
<1>3. ASSUME NEW c \in Checkouts, CheckoutNext(c)
      PROVE  [Ledger!Next]_(Ledger!vars)
  <2>1. CASE Insert(c)
    BY <2>1, InsertReserves
  <2>2. CASE RenameRedemption(c)
    BY <1>2, <2>2
  <2>3. CASE ~Insert(c) /\ ~RenameRedemption(c)
    BY <1>1, <1>3, <2>3 DEF CheckoutNext, Begin, Lookup, ReserveUsage, HoldPromo, HoldCode, Undo,
         Abort, Place, PushOrder, PatchOrder, ReleaseFind, Fail, CheckoutCrash
  <2> QED BY <2>1, <2>2, <2>3
<1>4. ASSUME NEW e \in Endings, EndingNext(e)
      PROVE  [Ledger!Next]_(Ledger!vars)
  BY <1>1, <1>4 DEF EndingNext, EndingRead, EndingFind, EndingCrash
<1>5. ASSUME NEW w \in Movers, MoveNext(w)
      PROVE  [Ledger!Next]_(Ledger!vars)
  BY <1>1, <1>5, FlipEnds DEF MoveNext, MovePromo, MoveCode, MoveUsage
<1> QED BY <1>1, <1>3, <1>4, <1>5 DEF Next, vars

\* Every behaviour of the handlers is one of PromotionLedger: what is held or
\* spent never exceeds a promotion's uses, its budget, its code's uses or its
\* buyer's share, and a redemption is spent or given back once, whatever the
\* interleaving of holds, undos, releases and payments and wherever a handler
\* dies.
THEOREM HoldsImplementLedger == Spec => ImplementsLedger
<1>1. Init => Ledger!Init
  BY LedgerInit
<1>2. Typed /\ Shapes /\ Booked /\ LimitsKept /\ [Next]_vars => [Ledger!Next]_(Ledger!vars)
  BY LedgerStep
<1>3. Spec => []LimitsKept
  <2>1. Init => LimitsKept
    BY LimitsInit
  <2>2. Books /\ LimitsKept /\ [Next]_vars => LimitsKept'
    BY LimitsNext DEF Books
  <2> QED BY <2>1, <2>2, BooksKept, PTL DEF Spec
<1>4. Books => Typed /\ Shapes /\ Booked
  BY DEF Books
<1>5. Spec => Ledger!Spec
  BY <1>1, <1>2, <1>3, <1>4, BooksKept, PTL DEF Spec, Ledger!Spec
<1> QED BY <1>5 DEF ImplementsLedger

-----------------------------------------------------------------------------
(* Codes: which redemptions are whose, and who may still find them         *)

NoneUnder(k) == \A i \in Ids : red[i].code # k

\* The order of a checkout and its release come after its holds.
Ordered ==
  \A c \in Checkouts :
    /\ order[c] # "none" =>
         hold[c].pc \in {"placed", "rename", "release", "done", "failed", "crashed"}
    /\ order[c] = "kv" => hold[c].pc = "done"
    /\ move[c].pc # "idle" => hold[c].pc \in {"release", "failed", "crashed"}
    /\ move[c].pc \notin {"idle", "crashed"} => move[c].code = <<c, "web">>

\* Nothing is under a code before it is given to the order, nor under the
\* first code before the first hold.
BeforeKv(c) == hold[c].pc \notin {"rename", "done", "crashed"}
BeforeWeb(c) ==
  \/ hold[c].pc = "start"
  \/ hold[c].pc \in Trying /\ Head(hold[c].todo) \in Goods

Fresh ==
  \A c \in Checkouts : /\ BeforeKv(c) => NoneUnder(<<c, "kv">>)
                       /\ BeforeWeb(c) => NoneUnder(<<c, "web">>)

\* An ending was given the code of an order that had it.
Reading ==
  \A e \in Endings, c \in Checkouts, k \in {"web", "kv"} :
    move[e].pc \notin {"idle", "crashed"} /\ move[e].code = <<c, k>> =>
      /\ order[c] # "none"
      /\ k = "kv" => order[c] = "kv"

\* Whoever has looked for the held redemptions of a code has those that are
\* left in its loop.
Finding ==
  \A w \in Movers : move[w].pc \notin {"idle", "find", "crashed"} =>
    /\ HeldUnder(move[w].code) \subseteq move[w].found
    /\ move[w].pc = "done" => move[w].found = {}

\* How a refusal leaves the locals of a checkout.
LEMMA EndsAt ==
  ASSUME NEW c \in Checkouts, NEW steps, EndsAfter(c, steps)
  PROVE  /\ \A d \in Checkouts \ {c} : hold'[d] = hold[d]
         /\ \/ hold'[c].pc = "undo" /\ hold'[c].todo = hold[c].todo
            \/ hold'[c].pc = "failed" /\ Head(hold[c].todo) \in Goods
            \/ hold'[c].pc = "release"
  BY DEF EndsAfter, Ends, HoldGoes

\* The steps of a hold: it goes on, is refused, or is done.
LEMMA AttemptGoes ==
  ASSUME Typed, Shapes, NEW c \in Checkouts,
         \/ Lookup(c) \/ ReserveUsage(c) \/ HoldPromo(c) \/ HoldCode(c) \/ Insert(c) \/ Undo(c)
  PROVE  /\ hold[c].pc \in Trying /\ UNCHANGED <<order, move>>
         /\ \A d \in Checkouts \ {c} : hold'[d] = hold[d]
         /\ \/ /\ hold'[c].pc \in Trying /\ hold'[c].todo = hold[c].todo /\ UNCHANGED red
            \/ hold'[c].pc = "failed" /\ Head(hold[c].todo) \in Goods /\ UNCHANGED red
            \/ hold'[c].pc = "release" /\ UNCHANGED red
            \/ /\ Insert(c) /\ hold'[c].pc \in {"held", "lookup"}
               /\ hold'[c].pc = "lookup" => Head(hold'[c].todo) \notin Goods
<1>1. CASE Lookup(c)
  <2>1. CASE Ends(c)
    BY <1>1, <2>1 DEF Ends, HoldGoes, Lookup, Trying
  <2>2. CASE \E n \in Amounts : HoldGoes(c, "usage", hold[c].r, hold[c].todo, n, hold[c].undo)
    BY <1>1, <2>2 DEF HoldGoes, Lookup, Trying
  <2> QED BY <1>1, <2>1, <2>2, LookupDoes
<1>2. CASE ReserveUsage(c)
  <2>1. CASE Ends(c)
    BY <1>2, <2>1 DEF Ends, HoldGoes, ReserveUsage, Trying
  <2>2. CASE HoldKeeps(c, "promo")
    BY <1>2, <2>2 DEF HoldKeeps, HoldGoes, ReserveUsage, Trying
  <2> QED BY <1>2, <2>1, <2>2, ReserveUsageDoes
<1>3. CASE HoldPromo(c)
  <2>1. CASE EndsAfter(c, UsageTaken(Head(hold[c].todo)))
    BY <1>3, <2>1, EndsAt DEF HoldPromo, Trying
  <2>2. CASE HoldKeeps(c, IF Head(hold[c].todo) \in Coded THEN "code" ELSE "insert")
    BY <1>3, <2>2 DEF HoldKeeps, HoldGoes, HoldPromo, Trying
  <2> QED BY <1>3, <2>1, <2>2, HoldPromoDoes
<1>4. CASE HoldCode(c)
  <2>1. CASE EndsAfter(c, AfterNoCode(Head(hold[c].todo)))
    BY <1>4, <2>1, EndsAt DEF HoldCode, Trying
  <2>2. CASE HoldKeeps(c, "insert")
    BY <1>4, <2>2 DEF HoldKeeps, HoldGoes, HoldCode, Trying
  <2> QED BY <1>4, <2>1, <2>2, HoldCodeDoes
<1>5. CASE Insert(c)
  <2>1. CASE UNCHANGED red /\ EndsAfter(c, AfterLostInsert(Head(hold[c].todo)))
    BY <1>5, <2>1, EndsAt DEF Insert, Trying
  <2>2. CASE HoldGoes(c, IF Tail(hold[c].todo) = <<>> THEN "held" ELSE "lookup",
                      hold[c].r, Tail(hold[c].todo), 0, hold[c].undo)
    <3>1. \/ Tail(hold[c].todo) = <<>>
          \/ Tail(hold[c].todo) \in Plans /\ Head(Tail(hold[c].todo)) \notin Goods
      BY <1>5, Attempt, PlanSteps DEF Insert, Trying
    <3>2. hold'[c].todo = Tail(hold[c].todo)
      BY <2>2 DEF HoldGoes
    <3>3. Head(hold'[c].todo) = Head(Tail(hold[c].todo))
      BY <3>2
    <3>4. hold'[c].pc = IF Tail(hold[c].todo) = <<>> THEN "held" ELSE "lookup"
      BY <2>2 DEF HoldGoes
    <3>5. /\ hold'[c].pc \in {"held", "lookup"}
          /\ hold'[c].pc = "lookup" => Head(hold'[c].todo) \notin Goods
      BY <3>1, <3>3, <3>4
    <3> QED BY <1>5, <2>2, <3>5 DEF HoldGoes, Insert, Trying
  <2> QED BY <1>5, <2>1, <2>2, InsertDoes
<1>6. CASE Undo(c)
  <2>1. EndsAfter(c, Tail(hold[c].undo)) /\ UNCHANGED red
    BY <1>6, UndoDoes DEF Undo
  <2> QED BY <1>6, <2>1, EndsAt DEF Undo, Trying
<1> QED BY <1>1, <1>2, <1>3, <1>4, <1>5, <1>6

\* The steps of an order.
LEMMA OrderGoes ==
  ASSUME Typed, Shapes, NEW c \in Checkouts,
         \/ Begin(c) \/ Abort(c) \/ Place(c) \/ PushOrder(c) \/ RenameRedemption(c)
         \/ PatchOrder(c) \/ Fail(c)
  PROVE  /\ UNCHANGED move
         /\ \A d \in Checkouts \ {c} : hold'[d] = hold[d] /\ order'[d] = order[d]
         /\ \/ hold[c].pc = "start" /\ hold'[c].pc = "lookup" /\ UNCHANGED <<red, order>>
            \/ hold[c].pc = "held" /\ hold'[c].pc = "release" /\ UNCHANGED <<red, order>>
            \/ /\ hold[c].pc = "held" /\ hold'[c].pc = "placed" /\ UNCHANGED red
               /\ order'[c] = "web"
            \/ /\ hold[c].pc = "placed" /\ hold'[c].pc \in {"rename", "done", "release"}
               /\ UNCHANGED <<red, order>>
            \/ RenameRedemption(c) /\ hold[c].pc = "rename" /\ UNCHANGED <<hold, order>>
            \/ /\ hold[c].pc = "rename" /\ hold'[c].pc = "done" /\ UNCHANGED red
               /\ order'[c] = "kv"
            \/ /\ hold[c].pc = "release" /\ hold'[c].pc = "failed" /\ UNCHANGED red
               /\ move[c].pc = "done"
               /\ order'[c] = IF order[c] = "none" THEN "none" ELSE "deleted"
<1>1. order \in [Checkouts -> {"none", "web", "kv", "deleted"}]
  BY DEF Typed
<1>2. CASE Begin(c)
  BY <1>2, BeginDoes DEF Begin, HoldGoes
<1>3. CASE Abort(c)
  BY <1>3, GotoGoes DEF Abort, HoldKeeps, HoldGoes
<1>4. CASE Place(c)
  <2>1. HoldKeeps(c, "placed") /\ order' = [order EXCEPT ![c] = "web"]
    BY <1>4, GotoGoes DEF Place
  <2> QED BY <1>1, <1>4, <2>1 DEF Place, HoldKeeps, HoldGoes
<1>5. CASE PushOrder(c)
  <2>1. \E next \in {"rename", "done", "release"} : HoldKeeps(c, next)
    BY <1>5, GotoGoes DEF PushOrder
  <2> QED BY <1>5, <2>1 DEF PushOrder, HoldKeeps, HoldGoes
<1>6. CASE RenameRedemption(c)
  BY <1>6 DEF RenameRedemption
<1>7. CASE PatchOrder(c)
  <2>1. HoldKeeps(c, "done") /\ order' = [order EXCEPT ![c] = "kv"]
    BY <1>7, GotoGoes DEF PatchOrder
  <2> QED BY <1>1, <1>7, <2>1 DEF PatchOrder, HoldKeeps, HoldGoes
<1>8. CASE Fail(c)
  <2>1. HoldKeeps(c, "failed")
    BY <1>8, GotoGoes DEF Fail
  <2>2. order' = [order EXCEPT ![c] = IF order[c] = "none" THEN "none" ELSE "deleted"]
    BY <1>1, <1>8 DEF Fail
  <2> QED BY <1>1, <1>8, <2>1, <2>2 DEF Fail, HoldKeeps, HoldGoes
<1> QED BY <1>2, <1>3, <1>4, <1>5, <1>6, <1>7, <1>8

\* The loop of a mover keeps its code.
LEMMA LoopGoes ==
  ASSUME Typed, Shapes, NEW w \in Movers, MoveNext(w)
  PROVE  /\ UNCHANGED <<hold, order>>
         /\ \A v \in Movers \ {w} : move'[v] = move[v]
         /\ move[w].pc \in {"flip", "promo", "code", "usage"}
         /\ move'[w].pc \in {"flip", "promo", "code", "usage", "done"}
         /\ move'[w].pc = "done" => move'[w].found = {}
         /\ move'[w].code = move[w].code
         /\ \/ UNCHANGED red /\ move'[w].found = move[w].found
            \/ \E i \in move[w].found :
                 /\ red'[i].status # "held" /\ red'[i].code = red[i].code
                 /\ \A j \in Ids \ {i} : red'[j] = red[j]
                 /\ move'[w].found = move[w].found \ {i}
<1> DEFINE m == move[w]
<1>1. m.to \in {"used", "released"} /\ m.found \in SUBSET Ids
  BY DEF Typed, Moving
<1>2. CASE Flip(w)
  <2>1. PICK i \in m.found :
           \/ /\ red[i].status = "held" /\ i \in Ids
              /\ Writes(i, red[i].code, red[i].amount, m.to)
              /\ MoveGoes(w, "promo", m.code, m.to, m.found \ {i}, i)
           \/ /\ red[i].status # "held" /\ UNCHANGED red
              /\ MoveGoes(w, LoopPc(m.found \ {i}), m.code, m.to, m.found \ {i}, <<>>)
    BY <1>2, FlipDoes
  <2>2. /\ red'[i].status # "held" /\ red'[i].code = red[i].code
        /\ \A j \in Ids \ {i} : red'[j] = red[j]
    BY <1>1, <2>1 DEF Writes
  <2>3. /\ move'[w].pc \in {"flip", "promo", "done"} /\ move'[w].code = m.code
        /\ move'[w].pc = "done" => move'[w].found = {}
        /\ move'[w].found = m.found \ {i}
        /\ \A v \in Movers \ {w} : move'[v] = move[v]
    BY <2>1 DEF MoveGoes, LoopPc
  <2> QED BY <1>2, <2>2, <2>3 DEF Flip
<1>3. ASSUME MoveGoes(w, LoopPc(m.found), m.code, m.to, m.found, <<>>)
      PROVE  /\ move'[w].pc \in {"flip", "done"} /\ move'[w].code = m.code
             /\ move'[w].pc = "done" => move'[w].found = {}
             /\ move'[w].found = m.found
             /\ \A v \in Movers \ {w} : move'[v] = move[v]
  BY <1>3 DEF MoveGoes, LoopPc
<1>4. ASSUME GoesAfterCode(w)
      PROVE  /\ move'[w].pc \in {"flip", "usage", "done"} /\ move'[w].code = m.code
             /\ move'[w].pc = "done" => move'[w].found = {}
             /\ move'[w].found = m.found
             /\ \A v \in Movers \ {w} : move'[v] = move[v]
  BY <1>3, <1>4 DEF GoesAfterCode, MoveGoes
<1>5. CASE MovePromo(w)
  <2>1. CASE GoesAfterCode(w)
    BY <1>4, <1>5, <2>1 DEF MovePromo
  <2>2. CASE MoveGoes(w, "code", m.code, m.to, m.found, m.i)
    BY <1>5, <2>2 DEF MovePromo, MoveGoes
  <2> QED BY <1>5, <2>1, <2>2, MovePromoDoes
<1>6. CASE MoveCode(w)
  BY <1>4, <1>6, MoveCodeDoes DEF MoveCode
<1>7. CASE MoveUsage(w)
  BY <1>3, <1>7, MoveUsageDoes DEF MoveUsage
<1> QED BY <1>2, <1>5, <1>6, <1>7 DEF MoveNext

\* The order comes after the holds: step by step.
LEMMA OrderedNext ==
  ASSUME Typed, Shapes, Ordered, [Next]_vars
  PROVE  Ordered'
<1> USE DEF Ordered
<1>1. \A c \in Checkouts : c \in Movers /\ c \notin Endings
  BY KindAssumption DEF Movers
<1>2. \A e \in Endings : e \in Movers /\ e \notin Checkouts
  BY KindAssumption DEF Movers
<1>3. CASE UNCHANGED vars
  BY <1>3 DEF vars
<1>4. ASSUME NEW c \in Checkouts,
             \/ Lookup(c) \/ ReserveUsage(c) \/ HoldPromo(c) \/ HoldCode(c) \/ Insert(c) \/ Undo(c)
      PROVE  Ordered'
  BY <1>4, AttemptGoes DEF Trying
<1>5. ASSUME NEW c \in Checkouts,
             \/ Begin(c) \/ Abort(c) \/ Place(c) \/ PushOrder(c) \/ RenameRedemption(c)
             \/ PatchOrder(c) \/ Fail(c)
      PROVE  Ordered'
  BY <1>5, OrderGoes
<1>6. ASSUME NEW c \in Checkouts, ReleaseFind(c)
      PROVE  Ordered'
  <2>1. /\ \A w \in Movers \ {c} : move'[w] = move[w]
        /\ move'[c].code = <<c, "web">>
    BY <1>6, ReleaseFindDoes DEF MoveGoes
  <2> QED BY <1>1, <1>6, <2>1 DEF ReleaseFind
<1>7. ASSUME NEW c \in Checkouts, CheckoutCrash(c)
      PROVE  Ordered'
  <2>1. /\ \A w \in Movers \ {c} : move'[w] = move[w]
        /\ move'[c].pc = "crashed" /\ hold'[c].pc = "crashed"
        /\ \A d \in Checkouts \ {c} : hold'[d] = hold[d]
    BY <1>7, CheckoutCrashDoes DEF MoveGoes, HoldKeeps, HoldGoes
  <2>2. order'= order /\ hold[c].pc # "done"
    BY <1>7 DEF CheckoutCrash, CheckoutOver
  <2> QED BY <1>1, <2>1, <2>2
<1>8. ASSUME NEW e \in Endings, EndingNext(e)
      PROVE  Ordered'
  <2>1. \A w \in Movers \ {e} : move'[w] = move[w]
    BY <1>8, EndingReadDoes, EndingFindDoes, EndingCrashDoes DEF EndingNext, MoveGoes
  <2>2. UNCHANGED <<hold, order>>
    BY <1>8 DEF EndingNext, EndingRead, EndingFind, EndingCrash
  <2> QED BY <1>1, <1>8, <2>1, <2>2
<1>9. ASSUME NEW w \in Movers, MoveNext(w)
      PROVE  Ordered'
  BY <1>1, <1>9, LoopGoes
<1>10. ASSUME NEW c \in Checkouts, CheckoutNext(c)
       PROVE  Ordered'
  BY <1>4, <1>5, <1>6, <1>7, <1>10 DEF CheckoutNext
<1> QED BY <1>3, <1>8, <1>9, <1>10 DEF Next


\* A redemption comes to be held, or under a code, in two ways only: it is
\* inserted under the first code of its checkout, or renamed to its second.
LEMMA CodesChange ==
  ASSUME Typed, Shapes, [Next]_vars, NEW i \in Ids
  PROVE  \/ /\ red'[i].code = red[i].code
            /\ red'[i].status = "held" => red[i].status = "held"
         \/ \E d \in Checkouts : /\ hold[d].pc = "insert" /\ ~BeforeWeb(d)'
                                 /\ UNCHANGED <<order, move>> /\ red'[i].code = <<d, "web">>
         \/ \E d \in Checkouts : /\ hold[d].pc = "rename" /\ UNCHANGED <<hold, order, move>>
                                 /\ red'[i].code = <<d, "kv">>
<1>1. CASE UNCHANGED red
  BY <1>1
<1>2. ASSUME NEW d \in Checkouts, Insert(d), red' # red
      PROVE  \/ red'[i] = red[i]
             \/ /\ hold[d].pc = "insert" /\ ~BeforeWeb(d)' /\ UNCHANGED <<order, move>>
                /\ red'[i].code = <<d, "web">>
  <2>1. Writes(<<Head(hold[d].todo), hold[d].r>>, <<d, "web">>, hold[d].n, "held")
    BY <1>2, InsertDoes
  <2>2. ~BeforeWeb(d)'
    BY <1>2, AttemptGoes DEF BeforeWeb, Trying
  <2> QED BY <1>2, <2>1, <2>2 DEF Writes, Insert
<1>3. ASSUME NEW d \in Checkouts, RenameRedemption(d)
      PROVE  \/ red'[i] = red[i]
             \/ /\ hold[d].pc = "rename" /\ UNCHANGED <<hold, order, move>>
                /\ red'[i].code = <<d, "kv">>
  <2>1. PICK j \in Ids : Renames(j, <<d, "kv">>)
    BY <1>3, RenameRedemptionDoes
  <2> QED BY <1>3, <2>1 DEF Renames, RenameRedemption
<1>4. ASSUME NEW w \in Movers, MoveNext(w)
      PROVE  /\ red'[i].code = red[i].code
             /\ red'[i].status = "held" => red[i].status = "held"
  BY <1>4, LoopGoes
<1>5. ASSUME NEW c \in Checkouts, CheckoutNext(c), red' # red
      PROVE  Insert(c) \/ RenameRedemption(c)
  BY <1>5, AttemptGoes, OrderGoes DEF CheckoutNext, ReleaseFind, CheckoutCrash
<1>6. ASSUME NEW e \in Endings, EndingNext(e)
      PROVE  UNCHANGED red
  BY <1>6 DEF EndingNext, EndingRead, EndingFind, EndingCrash
<1>7. CASE \E c \in Checkouts : CheckoutNext(c)
  BY <1>1, <1>2, <1>3, <1>5, <1>7
<1> QED BY <1>1, <1>4, <1>6, <1>7 DEF Next, vars

\* The locals of a checkout do not go back to where its codes were unused.
LEMMA NeverBefore ==
  ASSUME Typed, Shapes, [Next]_vars, NEW c \in Checkouts
  PROVE  /\ BeforeKv(c)' => BeforeKv(c)
         /\ BeforeWeb(c)' => BeforeWeb(c)
<1> DEFINE Goal == /\ BeforeKv(c)' => BeforeKv(c)
                   /\ BeforeWeb(c)' => BeforeWeb(c)
<1>1. ASSUME hold'[c] = hold[c]
      PROVE  Goal
  BY <1>1 DEF BeforeKv, BeforeWeb
<1>2. ASSUME NEW d \in Checkouts,
             \/ Lookup(d) \/ ReserveUsage(d) \/ HoldPromo(d) \/ HoldCode(d) \/ Insert(d) \/ Undo(d)
      PROVE  Goal
  <2>1. CASE d # c
    BY <1>1, <1>2, <2>1, AttemptGoes
  <2>2. CASE d = c
    <3>1. \/ hold'[c].pc \in Trying /\ hold'[c].todo = hold[c].todo
          \/ hold'[c].pc \in {"failed", "release", "held"}
          \/ hold'[c].pc = "lookup" /\ Head(hold'[c].todo) \notin Goods
      BY <1>2, <2>2, AttemptGoes
    <3>2. hold[c].pc \in Trying
      BY <1>2, <2>2, AttemptGoes
    <3> QED BY <3>1, <3>2 DEF BeforeKv, BeforeWeb, Trying
  <2> QED BY <2>1, <2>2
<1>3. ASSUME NEW d \in Checkouts,
             \/ Begin(d) \/ Abort(d) \/ Place(d) \/ PushOrder(d) \/ RenameRedemption(d)
             \/ PatchOrder(d) \/ Fail(d)
      PROVE  Goal
  <2>1. CASE d # c
    BY <1>1, <1>3, <2>1, OrderGoes
  <2>2. CASE d = c
    BY <1>1, <1>3, <2>2, OrderGoes DEF BeforeKv, BeforeWeb, Trying
  <2> QED BY <2>1, <2>2
<1>4. ASSUME NEW d \in Checkouts, CheckoutCrash(d)
      PROVE  Goal
  <2>1. hold'[d].pc = "crashed" /\ \A b \in Checkouts \ {d} : hold'[b] = hold[b]
    BY <1>4, CheckoutCrashDoes DEF HoldKeeps, HoldGoes
  <2> QED BY <1>1, <2>1 DEF BeforeKv, BeforeWeb, Trying
<1>5. ASSUME NEW d \in Checkouts, CheckoutNext(d)
      PROVE  Goal
  BY <1>1, <1>2, <1>3, <1>4, <1>5 DEF CheckoutNext, ReleaseFind
<1>6. ASSUME NEW e \in Endings, EndingNext(e)
      PROVE  Goal
  BY <1>1, <1>6 DEF EndingNext, EndingRead, EndingFind, EndingCrash
<1>7. ASSUME NEW w \in Movers, MoveNext(w)
      PROVE  Goal
  BY <1>1, <1>7, LoopGoes
<1> QED BY <1>1, <1>5, <1>6, <1>7 DEF Next, vars

LEMMA FreshNext ==
  ASSUME Typed, Shapes, Fresh, [Next]_vars
  PROVE  Fresh'
<1>1. ASSUME NEW c \in Checkouts, BeforeKv(c)', NEW i \in Ids, red'[i].code = <<c, "kv">>
      PROVE  FALSE
  <2>1. BeforeKv(c)
    BY <1>1, NeverBefore
  <2>2. red[i].code # <<c, "kv">> /\ hold[c].pc # "rename"
    BY <2>1 DEF Fresh, NoneUnder, BeforeKv
  <2> QED BY <1>1, <2>2, CodesChange
<1>2. ASSUME NEW c \in Checkouts, BeforeWeb(c)', NEW i \in Ids, red'[i].code = <<c, "web">>
      PROVE  FALSE
  <2>1. BeforeWeb(c)
    BY <1>2, NeverBefore
  <2>2. red[i].code # <<c, "web">>
    BY <2>1 DEF Fresh, NoneUnder
  <2> QED BY <1>2, <2>2, CodesChange
<1> QED BY <1>1, <1>2 DEF Fresh, NoneUnder

\* An order that was placed was placed, one with KV's code keeps it.
LEMMA OrderStays ==
  ASSUME Typed, Shapes, Ordered, [Next]_vars, NEW c \in Checkouts
  PROVE  /\ order[c] # "none" => order'[c] # "none"
         /\ order[c] = "kv" => order'[c] = "kv"
<1>1. CASE UNCHANGED order
  BY <1>1
<1>2. ASSUME NEW d \in Checkouts,
             \/ Begin(d) \/ Abort(d) \/ Place(d) \/ PushOrder(d) \/ RenameRedemption(d)
             \/ PatchOrder(d) \/ Fail(d)
      PROVE  /\ order[c] # "none" => order'[c] # "none"
             /\ order[c] = "kv" => order'[c] = "kv"
  <2>1. CASE d # c
    BY <1>2, <2>1, OrderGoes
  <2>2. CASE d = c
    BY <1>2, <2>2, OrderGoes DEF Ordered
  <2> QED BY <2>1, <2>2
<1>3. ASSUME NEW d \in Checkouts, CheckoutNext(d)
      PROVE  /\ order[c] # "none" => order'[c] # "none"
             /\ order[c] = "kv" => order'[c] = "kv"
  BY <1>1, <1>2, <1>3, AttemptGoes DEF CheckoutNext, ReleaseFind, CheckoutCrash
<1>4. ASSUME NEW e \in Endings, EndingNext(e)
      PROVE  UNCHANGED order
  BY <1>4 DEF EndingNext, EndingRead, EndingFind, EndingCrash
<1>5. ASSUME NEW w \in Movers, MoveNext(w)
      PROVE  UNCHANGED order
  BY <1>5, LoopGoes
<1> QED BY <1>1, <1>3, <1>4, <1>5 DEF Next, vars

\* An ending has the code it was given, or just read the order's.
LEMMA EndingCode ==
  ASSUME Typed, Shapes, [Next]_vars, NEW e \in Endings, move'[e].pc \notin {"idle", "crashed"}
  PROVE  \/ move[e].pc \notin {"idle", "crashed"} /\ move'[e].code = move[e].code
         \/ /\ move'[e].pc = "find" /\ UNCHANGED order
            /\ \E c \in Checkouts : order[c] \in {"web", "kv"} /\ move'[e].code = <<c, order[c]>>
<1> DEFINE Goal ==
             \/ move[e].pc \notin {"idle", "crashed"} /\ move'[e].code = move[e].code
             \/ /\ move'[e].pc = "find" /\ UNCHANGED order
                /\ \E c \in Checkouts :
                     order[c] \in {"web", "kv"} /\ move'[e].code = <<c, order[c]>>
<1>1. CASE move'[e] = move[e]
  BY <1>1
<1>2. ASSUME NEW d \in Endings, EndingNext(d)
      PROVE  Goal
  <2>1. CASE d # e
    <3>1. \A w \in Movers \ {d} : move'[w] = move[w]
      BY <1>2, EndingReadDoes, EndingFindDoes, EndingCrashDoes DEF EndingNext, MoveGoes
    <3> QED BY <1>1, <2>1, <3>1 DEF Movers
  <2>2. CASE d = e /\ EndingRead(e)
    BY <2>2, EndingReadDoes DEF MoveGoes, EndingRead
  <2>3. CASE d = e /\ EndingFind(e)
    BY <2>3, EndingFindDoes DEF MoveGoes, EndingFind
  <2>4. CASE d = e /\ EndingCrash(e)
    BY <2>4, EndingCrashDoes DEF MoveGoes
  <2> QED BY <1>2, <2>1, <2>2, <2>3, <2>4 DEF EndingNext
<1>3. ASSUME NEW w \in Movers, MoveNext(w)
      PROVE  Goal
  <2>1. CASE w # e
    BY <1>1, <1>3, <2>1, LoopGoes DEF Movers
  <2>2. CASE w = e
    BY <1>3, <2>2, LoopGoes
  <2> QED BY <2>1, <2>2
<1>4. ASSUME NEW c \in Checkouts, CheckoutNext(c)
      PROVE  move'[e] = move[e]
  <2>1. e \in Movers \ {c}
    BY KindAssumption DEF Movers
  <2> QED BY <1>4, <2>1, AttemptGoes, OrderGoes, ReleaseFindDoes, CheckoutCrashDoes
           DEF CheckoutNext, MoveGoes
<1> QED BY <1>1, <1>2, <1>3, <1>4 DEF Next, vars

LEMMA ReadingNext ==
  ASSUME Typed, Shapes, Ordered, Reading, [Next]_vars
  PROVE  Reading'
<1>1. ASSUME NEW e \in Endings, NEW c \in Checkouts, NEW k \in {"web", "kv"},
             move'[e].pc \notin {"idle", "crashed"}, move'[e].code = <<c, k>>
      PROVE  order'[c] # "none" /\ (k = "kv" => order'[c] = "kv")
  <2>1. CASE move[e].pc \notin {"idle", "crashed"} /\ move'[e].code = move[e].code
    BY <1>1, <2>1, OrderStays DEF Reading
  <2>2. CASE /\ UNCHANGED order
             /\ \E d \in Checkouts : order[d] \in {"web", "kv"} /\ move'[e].code = <<d, order[d]>>
    BY <1>1, <2>2
  <2> QED BY <1>1, <2>1, <2>2, EndingCode
<1> QED BY <1>1 DEF Reading

\* While somebody's loop has the redemptions of a code, none comes under it.
LEMMA NoneComes ==
  ASSUME Typed, Shapes, Ordered, Reading, [Next]_vars, NEW w \in Movers,
         move[w].pc \notin {"idle", "find", "crashed"}, NEW i \in Ids,
         red'[i].code = move[w].code, red'[i].status = "held"
  PROVE  red[i].code = move[w].code /\ red[i].status = "held"
<1>1. PICK c \in Checkouts, k \in {"web", "kv"} : move[w].code = <<c, k>>
  <2>1. MoveShape(move[w]) /\ move[w] \in Moving
    BY DEF Shapes, Typed
  <2>2. move[w].code \in Codes
    BY <2>1 DEF MoveShape, Moving
  <2> QED BY <2>2 DEF Codes
<1>2. CASE w \in Checkouts
  <2>1. /\ hold[w].pc \in {"release", "failed", "crashed"} /\ c = w /\ k = "web"
    BY <1>1, <1>2 DEF Ordered
  <2> QED BY <1>1, <2>1, CodesChange
<1>3. CASE w \in Endings
  <2>1. order[c] # "none" /\ (k = "kv" => order[c] = "kv")
    BY <1>1, <1>3 DEF Reading
  <2>2. hold[c].pc # "insert" /\ (k = "kv" => hold[c].pc # "rename")
    BY <2>1 DEF Ordered
  <2> QED BY <1>1, <2>2, CodesChange
<1> QED BY <1>2, <1>3 DEF Movers

LEMMA FindingNext ==
  ASSUME Typed, Shapes, Ordered, Reading, Finding, [Next]_vars
  PROVE  Finding'
<1> DEFINE Has(w) == move[w].pc \notin {"idle", "find", "crashed"} =>
                       /\ HeldUnder(move[w].code) \subseteq move[w].found
                       /\ move[w].pc = "done" => move[w].found = {}
<1>1. ASSUME NEW w \in Movers, move'[w] = move[w]
      PROVE  Has(w)'
  <2>1. SUFFICES ASSUME move[w].pc \notin {"idle", "find", "crashed"}
                 PROVE  HeldUnder(move[w].code)' \subseteq move[w].found
    BY <1>1 DEF Finding
  <2>2. HeldUnder(move[w].code)' \subseteq HeldUnder(move[w].code)
    BY <1>1, <2>1, NoneComes DEF HeldUnder
  <2> QED BY <2>1, <2>2 DEF Finding
<1>2. ASSUME NEW w \in Movers, NEW k, NEW to, UNCHANGED red,
             MoveGoes(w, LoopPc(HeldUnder(k)), k, to, HeldUnder(k), <<>>)
      PROVE  Has(w)'
  BY <1>2 DEF MoveGoes, LoopPc, HeldUnder
<1>3. ASSUME NEW w \in Movers, MoveNext(w)
      PROVE  Has(w)'
  <2>1. HeldUnder(move[w].code) \subseteq move[w].found
    BY <1>3, LoopGoes DEF Finding
  <2>2. HeldUnder(move[w].code)' \subseteq HeldUnder(move[w].code)
    <3>1. move'[w].code = move[w].code /\ move[w].pc \notin {"idle", "find", "crashed"}
      BY <1>3, LoopGoes
    <3> QED BY <3>1, NoneComes DEF HeldUnder
  <2>3. HeldUnder(move[w].code)' \subseteq move'[w].found
    <3>1. CASE move'[w].found = move[w].found
      BY <2>1, <2>2, <3>1
    <3>2. ASSUME NEW i \in move[w].found, red'[i].status # "held",
                 move'[w].found = move[w].found \ {i}
          PROVE  HeldUnder(move[w].code)' \subseteq move'[w].found
      BY <2>1, <2>2, <3>2 DEF HeldUnder
    <3> QED BY <1>3, <3>1, <3>2, LoopGoes
  <2> QED BY <1>3, <2>3, LoopGoes
<1>4. ASSUME NEW c \in Checkouts, CheckoutNext(c), NEW w \in Movers
      PROVE  Has(w)'
  <2>1. CASE ReleaseFind(c)
    BY <1>1, <1>2, <2>1, ReleaseFindDoes DEF MoveGoes, ReleaseFind
  <2>2. CASE CheckoutCrash(c)
    BY <1>1, <2>2, CheckoutCrashDoes DEF MoveGoes
  <2>3. CASE UNCHANGED move
    BY <1>1, <2>3
  <2> QED BY <1>4, <2>1, <2>2, <2>3, AttemptGoes, OrderGoes DEF CheckoutNext
<1>5. ASSUME NEW e \in Endings, EndingNext(e), NEW w \in Movers
      PROVE  Has(w)'
  <2>0. UNCHANGED red
    BY <1>5 DEF EndingNext, EndingRead, EndingFind, EndingCrash
  <2>1. CASE EndingRead(e)
    BY <1>1, <2>1, EndingReadDoes DEF MoveGoes
  <2>2. CASE EndingFind(e)
    BY <1>1, <1>2, <2>0, <2>2, EndingFindDoes DEF MoveGoes
  <2>3. CASE EndingCrash(e)
    BY <1>1, <2>3, EndingCrashDoes DEF MoveGoes
  <2> QED BY <1>5, <2>1, <2>2, <2>3 DEF EndingNext
<1>6. ASSUME NEW v \in Movers, MoveNext(v), NEW w \in Movers
      PROVE  Has(w)'
  BY <1>1, <1>3, <1>6, LoopGoes
<1> QED
  <2>1. \A w \in Movers : Has(w)'
    BY <1>1, <1>4, <1>5, <1>6 DEF Next, vars
  <2> QED BY <2>1 DEF Finding

\* How a checkout comes to fail.
LEMMA FailsFrom ==
  ASSUME Typed, Shapes, [Next]_vars, NEW c \in Checkouts,
         hold'[c].pc = "failed", hold[c].pc # "failed"
  PROVE  /\ UNCHANGED red
         /\ \/ hold[c].pc \in Trying /\ Head(hold[c].todo) \in Goods
            \/ hold[c].pc = "release" /\ move[c].pc = "done"
<1>1. CASE hold'[c] = hold[c]
  BY <1>1
<1>2. ASSUME NEW d \in Checkouts, CheckoutNext(d), hold'[c] # hold[c]
      PROVE  /\ UNCHANGED red
             /\ \/ hold[c].pc \in Trying /\ Head(hold[c].todo) \in Goods
                \/ hold[c].pc = "release" /\ move[c].pc = "done"
  <2>1. CASE CheckoutCrash(d)
    <3>1. hold'[d].pc = "crashed" /\ \A b \in Checkouts \ {d} : hold'[b] = hold[b]
      BY <2>1, CheckoutCrashDoes DEF HoldKeeps, HoldGoes
    <3> QED BY <1>2, <3>1
  <2>2. CASE ReleaseFind(d)
    BY <1>2, <2>2 DEF ReleaseFind
  <2>3. CASE \/ Begin(d) \/ Abort(d) \/ Place(d) \/ PushOrder(d) \/ RenameRedemption(d)
             \/ PatchOrder(d) \/ Fail(d)
    <3>1. d = c
      BY <1>2, <2>3, OrderGoes
    <3> QED BY <1>2, <2>3, <3>1, OrderGoes
  <2>4. CASE \/ Lookup(d) \/ ReserveUsage(d) \/ HoldPromo(d) \/ HoldCode(d) \/ Insert(d) \/ Undo(d)
    <3>1. d = c
      BY <1>2, <2>4, AttemptGoes
    <3> QED BY <1>2, <2>4, <3>1, AttemptGoes DEF Trying
  <2> QED BY <1>2, <2>1, <2>2, <2>3, <2>4 DEF CheckoutNext
<1>3. ASSUME NEW e \in Endings, EndingNext(e)
      PROVE  UNCHANGED hold
  BY <1>3 DEF EndingNext, EndingRead, EndingFind, EndingCrash
<1>4. ASSUME NEW w \in Movers, MoveNext(w)
      PROVE  UNCHANGED hold
  BY <1>4, LoopGoes
<1> QED BY <1>1, <1>2, <1>3, <1>4 DEF Next, vars

\* A checkout fails with its first promotion, before it holds one, or once
\* its release has come to its end.
LEMMA FailedNext ==
  ASSUME Typed, Shapes, Ordered, Fresh, Finding, FailedHoldsNothing, [Next]_vars
  PROVE  FailedHoldsNothing'
<1>1. ASSUME NEW c \in Checkouts, hold'[c].pc = "failed", NEW i \in Ids,
             red'[i].code \in {<<c, "web">>, <<c, "kv">>}, red'[i].status = "held"
      PROVE  FALSE
  <2>1. CASE hold[c].pc = "failed"
    <3>1. red'[i].code = red[i].code /\ red[i].status = "held"
      BY <1>1, <2>1, CodesChange
    <3> QED BY <1>1, <2>1, <3>1 DEF FailedHoldsNothing, RowsFor
  <2>2. CASE hold[c].pc # "failed"
    <3>1. red[i].code \in {<<c, "web">>, <<c, "kv">>} /\ red[i].status = "held"
      BY <1>1, <2>2, FailsFrom
    <3>2. CASE hold[c].pc \in Trying /\ Head(hold[c].todo) \in Goods
      <4>1. BeforeKv(c) /\ BeforeWeb(c)
        BY <3>2 DEF BeforeKv, BeforeWeb, Trying
      <4> QED BY <3>1, <4>1 DEF Fresh, NoneUnder
    <3>3. CASE hold[c].pc = "release" /\ move[c].pc = "done"
      <4>1. red[i].code # <<c, "kv">>
        BY <3>3 DEF Fresh, NoneUnder, BeforeKv
      <4>2. move[c].code = <<c, "web">>
        BY <3>3 DEF Ordered
      <4>3. HeldUnder(<<c, "web">>) = {}
        BY <3>3, <4>2 DEF Finding, Movers
      <4> QED BY <3>1, <4>1, <4>3 DEF HeldUnder
    <3> QED BY <1>1, <2>2, <3>2, <3>3, FailsFrom
  <2> QED BY <2>1, <2>2
<1> QED BY <1>1 DEF FailedHoldsNothing, RowsFor

Found == Ordered /\ Fresh /\ Reading /\ Finding /\ FailedHoldsNothing

LEMMA FoundInit == Init => Found
<1> SUFFICES ASSUME Init PROVE Found
  OBVIOUS
<1>1. /\ \A c \in Checkouts : hold[c].pc = "start" /\ order[c] = "none"
      /\ \A w \in Movers : move[w].pc = "idle"
      /\ \A i \in Ids : red[i].code = <<>>
  BY DEF Init, NewHold, NewMove
<1>2. \A c \in Checkouts : NoneUnder(<<c, "kv">>) /\ NoneUnder(<<c, "web">>)
  BY <1>1 DEF NoneUnder
<1>3. Ordered /\ Fresh
  BY <1>1, <1>2 DEF Ordered, Fresh, Movers
<1>4. Reading /\ Finding
  BY <1>1 DEF Reading, Finding, Movers
<1>5. FailedHoldsNothing
  BY <1>1 DEF FailedHoldsNothing
<1> QED BY <1>3, <1>4, <1>5 DEF Found

LEMMA FoundKept == Spec => []Found
<1>1. Init => Found
  BY FoundInit
<1>2. Typed /\ Shapes /\ Found /\ [Next]_vars => Found'
  BY OrderedNext, FreshNext, ReadingNext, FindingNext, FailedNext DEF Found
<1> QED BY <1>1, <1>2, AlwaysShaped, PTL DEF Spec

\* A checkout that answered with a failure holds no promotion, wherever it
\* failed and whatever others did to its redemptions meanwhile.
THEOREM FailuresHoldNothing == Spec => []FailedHoldsNothing
<1>1. Found => FailedHoldsNothing
  BY DEF Found
<1> QED BY <1>1, FoundKept, PTL

\* When a payment or a cancellation has run to its end, nothing is held under
\* the code it was given.
THEOREM EndingsHoldNothing == Spec => []EndedHoldsNothing
<1>1. Found => EndedHoldsNothing
  BY DEF Found, Finding, EndedHoldsNothing, Movers
<1> QED BY <1>1, FoundKept, PTL
=============================================================================
