-------------------------- MODULE PaymentLifecycle --------------------------
(***************************************************************************)
(* What the payment status of a shop order promises, without the handlers  *)
(* that move it: who may claim an order for settlement, who settles it,    *)
(* and which statuses the expiry sweep and the customer may leave.         *)
(* OrderPayment implements this specification.                             *)
(***************************************************************************)
CONSTANTS Orders,   \* orders paid by bank transfer
          Payers,   \* calls of markShopOrderPaid; a call is its claim id
          None      \* no call

VARIABLES status,   \* order -> paymentStatus
          owner,    \* order -> the last call that claimed it (paymentClaimId)
          settler   \* order -> the call that last settled it (confirmedBy)

vars == <<status, owner, settler>>

Status == {"unpaid", "processing", "underpaid", "failed", "paid",
           "expired", "cancelled"}

Claimable == {"unpaid", "underpaid", "failed"}

Init ==
  /\ status = [o \in Orders |-> "unpaid"]
  /\ owner = [o \in Orders |-> None]
  /\ settler = [o \in Orders |-> None]

\* A call claims one order, once, and only an order nobody is settling.
Claim(o, c) ==
  /\ status[o] \in Claimable
  /\ \A p \in Orders : owner[p] # c
  /\ status' = [status EXCEPT ![o] = "processing"]
  /\ owner' = [owner EXCEPT ![o] = c]
  /\ UNCHANGED settler

\* An order is settled by the call that holds its claim and by no other.
Settle(o) ==
  /\ status[o] = "processing"
  /\ status' = [status EXCEPT ![o] = "paid"]
  /\ settler' = [settler EXCEPT ![o] = owner[o]]
  /\ UNCHANGED owner

Reject(o) ==
  /\ status[o] = "processing"
  /\ status' = [status EXCEPT ![o] = "failed"]
  /\ UNCHANGED <<owner, settler>>

Expire(o) ==
  /\ status[o] = "unpaid"
  /\ status' = [status EXCEPT ![o] = "expired"]
  /\ UNCHANGED <<owner, settler>>

Renew(o) ==
  /\ status[o] \in {"unpaid", "expired"}
  /\ status' = [status EXCEPT ![o] = "unpaid"]
  /\ UNCHANGED <<owner, settler>>

Cancel(o) ==
  /\ status[o] \in {"unpaid", "expired"}
  /\ status' = [status EXCEPT ![o] = "cancelled"]
  /\ UNCHANGED <<owner, settler>>

\* A bank transfer that is too small may be noticed in any status.
Flag(o) ==
  /\ status' = [status EXCEPT ![o] = "underpaid"]
  /\ UNCHANGED <<owner, settler>>

Next ==
  \E o \in Orders : \/ \E c \in Payers : Claim(o, c)
                    \/ Settle(o)
                    \/ Reject(o)
                    \/ Expire(o)
                    \/ Renew(o)
                    \/ Cancel(o)
                    \/ Flag(o)

Spec == Init /\ [][Next]_vars
=============================================================================
