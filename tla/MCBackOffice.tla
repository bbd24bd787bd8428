---------------------------- MODULE MCBackOffice ----------------------------
(***************************************************************************)
(* Model checking of three parts of the shop that share no state with each *)
(* other: commissions, the wholesale order on its way to KiotViet, and a   *)
(* customer's cart.  A behaviour is one of any of them; they are checked   *)
(* side by side, each with all its interleavings.                          *)
(***************************************************************************)
EXTENDS CommissionBills, WholesaleSync, CartSync, TLC

CONSTANTS ra, rb, rc, ann, lock1, lock2, lock3, pay1, pay2, returnA, returnB, page

\* Three commissions of one collaborator, each in a period of its own; what
\* the first leaves as a debt is more than the second period can take off.
MCCollab == [r \in Rows |-> ann]
MCPeriod == (ra :> 1) @@ (rb :> 2) @@ (rc :> 3)
MCAmount == (ra :> 2) @@ (rb :> 1) @@ (rc :> 2)

MCAsked ==
  (lock1 :> [op |-> "lock", p |-> 1]) @@ (lock2 :> [op |-> "lock", p |-> 2]) @@
  (lock3 :> [op |-> "lock", p |-> 3]) @@
  (pay1 :> [op |-> "pay", p |-> 1]) @@ (pay2 :> [op |-> "pay", p |-> 2]) @@
  (returnA :> [op |-> "return", c |-> ra]) @@ (returnB :> [op |-> "return", c |-> rb]) @@
  (page :> [op |-> "refresh"])

\* Bound: faults of a cart's behaviour in which a sign-out meets a second tab.
CrowdedFaults == 0

VARIABLE part  \* the part whose behaviour it is

backOfficeVars == <<billVars, syncVars, cartVars, part>>

BackOfficeInit ==
  /\ BillsInit /\ SyncInit /\ CartInit
  /\ part \in {"bills", "wholesale", "cart"}
  /\ part = "wholesale" \/ buyer = "unlinked"

BillsMove == part = "bills" /\ BillsNext /\ UNCHANGED <<syncVars, cartVars, part>>
SyncMove == part = "wholesale" /\ SyncNext /\ UNCHANGED <<billVars, cartVars, part>>
CartMove ==
  /\ part = "cart" /\ CartNext /\ UNCHANGED <<billVars, syncVars, part>>
  /\ crowded' => faults' <= CrowdedFaults

BackOfficeNext == BillsMove \/ SyncMove \/ CartMove

BackOfficeSpec == BackOfficeInit /\ [][BackOfficeNext]_backOfficeVars

\* The wholesale part with the fairness of its specification.
FairBackOfficeSpec ==
  /\ BackOfficeSpec
  /\ \A w \in Workers : WF_backOfficeVars(SyncMove /\ WorkerStep(w))
  /\ WF_backOfficeVars(SyncMove /\ Lapse)

\* Every variable of the three parts has a value of its type.
BackOfficeTypeOK == BillsTypeOK /\ SyncTypeOK /\ CartTypeOK
=============================================================================
