-------------------------- MODULE MCCampaignHolds --------------------------
(* Instances of CampaignHolds for TLC: a product p on offer, the share s    *)
(* that one customer has of it, and a gift g.                              *)
EXTENDS CampaignHolds, TLC

CONSTANTS p, s, g, big, alone

\* One order takes two uses of the product and two gifts, another a gift only,
\* a third the product and the customer's share of it.
MCLines == [o \in Orders |->
  IF o = big THEN <<p, g>> ELSE IF o = alone THEN <<p, s>> ELSE <<g>>]
MCQty == [o \in Orders |-> 2]
\* Gifts for one order, and for half of another.
GiftsForOne == (p :> 4) @@ (s :> 2) @@ (g :> 3)

\* The order with the share is there alone, or the two others are.
Scenes ==
  buy'[alone].pc = "start" \/ \A o \in Orders \ {alone} : buy'[o].pc = "start"

\* The order that takes gifts only is there to want what the big one wants:
\* its checkout runs to its end, it is neither paid nor cancelled.
Asked ==
  /\ \A o \in Orders \ {big, alone} : buy'[o].pc # "crashed" /\ ~SaveFails(o)
  /\ \A k \in Calls : call'[k].o \in {big, alone, None}

MCSpec == Init /\ [][CalmNext /\ Scenes /\ Asked]_vars /\ Fairness

\* The last use of one product, wanted by both orders.
ProductOnly == [o \in Orders |-> <<p>>]
MCOne == [o \in Orders |-> 1]
LastUse == (p :> 1)

QuoteIsRight == [o \in Orders |-> [c \in Products |-> Limit[c]]]
=============================================================================
