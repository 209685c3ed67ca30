-------------------------- MODULE MCOrderPayments --------------------------
(***************************************************************************)
(* Instances of OrderPayments for TLC.                                     *)
(***************************************************************************)
EXTENDS OrderPayments, TLC

CONSTANTS v1, v2, p1, p2

\* Each vendor sells one product.
MCVendorOf == p1 :> v1 @@ p2 :> v2

\* Exchanging the vendors together with what they sell.
OtherVendor == p1 :> p2 @@ p2 :> p1 @@ v1 :> v2 @@ v2 :> v1

Symmetry == Permutations(Orders) \union Permutations(Uploads) \union {OtherVendor}
=============================================================================
