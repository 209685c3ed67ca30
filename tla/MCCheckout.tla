----------------------------- MODULE MCCheckout -----------------------------
(***************************************************************************)
(* Instances of Checkout for TLC.                                          *)
(***************************************************************************)
EXTENDS Checkout, TLC

CONSTANTS v1, v2, p1, p2, p3

MCVendorOf == p1 :> v1 @@ p2 :> v2 @@ p3 :> v1

\* Only the second vendor has a rate of its own.
MCOverrides == v1 :> NoRate @@ v2 :> 4

OnOffer(price, adminRate) ==
  [price |-> price, status |-> "published", stock |-> 3, adminRate |-> adminRate]

\* The second product may have a rate set by the administrator, other than the
\* vendor's or below zero.
MCCatalogues ==
  {p1 :> OnOffer(5, NoRate) @@ p2 :> OnOffer(7, r) @@ p3 :> OnOffer(4, NoRate) :
     r \in {NoRate, 2, -1}}

MCRates == {-1, 3}
=============================================================================
