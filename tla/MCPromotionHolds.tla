-------------------------- MODULE MCPromotionHolds --------------------------
(* Instances of PromotionHolds for TLC: one coded promotion on goods and   *)
(* one on shipping that a buyer may use once; requests r1 and r2 are from  *)
(* one buyer, r3 from another.                                             *)
EXTENDS PromotionHolds, TLC

CONSTANTS g, s, b1, b2, r1, r2, r3

MCBuyerOf == [r \in Requests |-> IF r = r3 THEN b2 ELSE b1]
MCBuyerLimit == (g :> 0) @@ (s :> 1)

\* Room for one use of the shipping promotion and one of the code.
OneUse == (g :> 2) @@ (s :> 1)
OneCode == (g :> 1) @@ (s :> 0)

\* Room for two orders, but not with the larger discount on both.
Two == [p \in {g, s} |-> 2]
Three == [p \in {g, s} |-> 3]
Nine == [p \in {g, s} |-> 9]

Symmetry == Permutations(Checkouts) \cup Permutations(Endings)

\* Where r1 and r3 are the only requests, the two buyers may change places.
SymmetryOfBuyers ==
  Symmetry \cup {(r1 :> r3) @@ (r3 :> r1) @@ (b1 :> b2) @@ (b2 :> b1)}
=============================================================================
