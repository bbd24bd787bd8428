--------------------------- MODULE CampaignLedger ---------------------------
(***************************************************************************)
(* What the campaign promises of the uses an order takes, without the      *)
(* counters: an order takes its uses while there is room in every counter, *)
(* then they are sold or given back, once; a payment that comes after they *)
(* were given back sells them only if the products still have room.  An    *)
(* order may go astray when such a payment is cut short, and a counter may *)
(* be miscounted: of the counters of either nothing more is promised.      *)
(* CampaignHolds implements this specification.                            *)
(***************************************************************************)
EXTENDS Naturals, Functions

CONSTANTS
  Orders,    \* orders
  Products,  \* counters of products on offer and of gifts
  Shares,    \* counters of what one customer may take of a product
  Docs,      \* order -> the counters it takes from
  Qty,       \* order -> how many uses it takes from each
  Limit      \* counter -> quota, or the customer's limit

VARIABLES
  state,  \* order -> what became of its uses
  late,   \* orders whose uses a late payment has taken back
  miscounted  \* counters lowered while they were being sold

vars == <<state, late, miscounted>>

Active == {"held", "sold"}

\* A late payment is not held against the customer's limit.
Counted(d) ==
  {o \in Orders : /\ d \in Docs[o]
                  /\ state[o] \in Active
                  /\ d \in Shares => o \notin late}

Taken(d) == SumFunctionOnSet(Qty, Counted(d))

\* A counter that still counts all that its orders take.
Reliable(d) ==
  d \notin miscounted /\ \A o \in Orders : d \in Docs[o] => state[o] # "astray"

Room(o, S) ==
  \A d \in Docs[o] \cap S : Reliable(d) => Taken(d) + Qty[o] <= Limit[d]

Init ==
  /\ state = [o \in Orders |-> "none"]
  /\ late = {}
  /\ miscounted = {}

Hold(o) ==
  /\ state[o] = "none"
  /\ state' = [state EXCEPT ![o] = "held"]
  /\ Room(o, Products \cup Shares)
  /\ UNCHANGED <<late, miscounted>>

Settle(o) ==
  /\ state[o] = "held"
  /\ \E to \in {"sold", "released"} : state' = [state EXCEPT ![o] = to]
  /\ UNCHANGED <<late, miscounted>>

Reclaim(o) ==
  /\ state[o] = "released"
  /\ state' = [state EXCEPT ![o] = "held"]
  /\ Room(o, Products)
  /\ late' = late \cup {o}
  /\ UNCHANGED miscounted

GoAstray(o) ==
  /\ state[o] = "released"
  /\ state' = [state EXCEPT ![o] = "astray"]
  /\ late' = late \ {o}
  /\ UNCHANGED miscounted

Miscount(d) ==
  /\ d \notin miscounted
  /\ miscounted' = miscounted \cup {d}
  /\ UNCHANGED <<state, late>>

Next ==
  \/ \E o \in Orders : Hold(o) \/ Settle(o) \/ Reclaim(o) \/ GoAstray(o)
  \/ \E d \in Products \cup Shares : Miscount(d)

Spec == Init /\ [][Next]_vars
=============================================================================
