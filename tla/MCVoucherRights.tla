--------------------------- MODULE MCVoucherRights ---------------------------
(* Instances of VoucherRights for TLC.                                      *)
EXTENDS VoucherRights, TLC

CONSTANTS first, friend, again, a1, a2, f1, v, t1, t2, k1, k2

\* Two checkouts, or one and two saves.
MCTogether == {{first, friend}, {first, again}, {friend, again}, {again, k1, k2}}

\* A first purchase, one of another account with the same phone number, and
\* a later order of the first buyer with the same voucher.
MCAccount == (first :> a1) @@ (friend :> a2) @@ (again :> a1)
MCPhone == [o \in Orders |-> f1]
MCVouchers == (first :> <<v>>) @@ (friend :> <<>>) @@ (again :> <<v>>)

\* Two vouchers may be saved, one of each tier.
SaveTwo == [p \in Promos |-> 2]
OneOfEach == [p \in Promos |-> [t \in Tiers |-> 1]]

\* The buyer sends the same request twice.
MCSaver == [k \in Saves |-> a1]
MCWanted == [k \in Saves |-> v]
=============================================================================
