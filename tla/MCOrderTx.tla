----------------------------- MODULE MCOrderTx -----------------------------
(***************************************************************************)
(* Instances of OrderTx for TLC.                                           *)
(***************************************************************************)
EXTENDS OrderTx, TLC

CONSTANTS v1, v2, p1, p2, o1, o2, c1, c2, c3

MCVendorOf == p1 :> v1 @@ p2 :> v2

MCOneVendor == p1 :> v1 @@ p2 :> v1

Call(kind, o) == [kind |-> kind, order |-> o]

\* Everything that may be asked for one order.
MCOneOrder ==
  c1 :> Call("approve", o1) @@ c2 :> Call("reject", o1) @@ c3 :> Call("webhook", o1)

\* Approvals of two orders, which may be for the same goods.
MCTwoOrders == c1 :> Call("approve", o1) @@ c2 :> Call("approve", o2)
=============================================================================
