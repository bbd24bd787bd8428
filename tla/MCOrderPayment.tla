--------------------------- MODULE MCOrderPayment ---------------------------
(* Instances of OrderPayment for TLC. *)
EXTENDS OrderPayment, TLC

\* Orders are interchangeable, and so are calls of the same handler.
Symmetry == Permutations(Orders) \cup Permutations(Payers)
=============================================================================
