-------------------------- MODULE PromotionLedger --------------------------
(***************************************************************************)
(* What the redemptions of a promotion promise, without the counters that  *)
(* enforce it: a redemption is held while there is room, is spent or given *)
(* back once, and what is held or spent never exceeds the promotion's      *)
(* uses and budget, its code's uses and its buyer's uses.                  *)
(* PromotionHolds implements this specification.                           *)
(***************************************************************************)
EXTENDS Naturals, FiniteSets, Functions

CONSTANTS
  Promos,      \* promotions
  Coded,       \* those applied by entering their code
  Requests,    \* a buyer's requests to place an order (idempotency keys)
  BuyerOf,     \* request -> who sent it
  Limit,       \* promotion -> usageLimitTotal
  Budget,      \* promotion -> budgetTotal
  CodeLimit,   \* coded promotion -> maxUses of its code
  BuyerLimit   \* promotion -> usageLimitPerCustomer, 0 for none

VARIABLES status,  \* redemption <<promotion, request>> -> its status
          amount   \* redemption -> the discount it holds

vars == <<status, amount>>

Live(p) == {r \in Requests : status[<<p, r>>] \in {"held", "used"}}

Spent(p) == SumFunctionOnSet([r \in Requests |-> amount[<<p, r>>]], Live(p))

LiveOf(p, b) == {r \in Live(p) : BuyerOf[r] = b}

Room(p, r, n) ==
  /\ Cardinality(Live(p)) < Limit[p]
  /\ Spent(p) + n <= Budget[p]
  /\ p \in Coded => Cardinality(Live(p)) < CodeLimit[p]
  /\ BuyerLimit[p] > 0 =>
       Cardinality(LiveOf(p, BuyerOf[r])) < BuyerLimit[p]

Init ==
  /\ status = [i \in Promos \X Requests |-> "none"]
  /\ amount = [i \in Promos \X Requests |-> 0]

\* A request is honoured once, however often it is sent.
Reserve(p, r, n) ==
  /\ status[<<p, r>>] = "none"
  /\ Room(p, r, n)
  /\ status' = [status EXCEPT ![<<p, r>>] = "held"]
  /\ amount' = [amount EXCEPT ![<<p, r>>] = n]

\* Spending and giving back exclude each other, and each happens once.
End(p, r, to) ==
  /\ status[<<p, r>>] = "held"
  /\ status' = [status EXCEPT ![<<p, r>>] = to]
  /\ UNCHANGED amount

Next ==
  \E p \in Promos, r \in Requests :
    \/ \E n \in 1..Budget[p] : Reserve(p, r, n)
    \/ \E to \in {"used", "released"} : End(p, r, to)

Spec == Init /\ [][Next]_vars
=============================================================================
