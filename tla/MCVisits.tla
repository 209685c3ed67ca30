------------------------------ MODULE MCVisits ------------------------------
(***************************************************************************)
(* An instance of Visits for TLC.                                          *)
(***************************************************************************)
EXTENDS Visits, TLC

CONSTANTS proxy, ip1, ip2, ada, v1, v2, v3, v4

MCKeyOf == [v \in Requests |-> proxy]
MCIpOf == v1 :> ip1 @@ v2 :> ip1 @@ v3 :> ip1 @@ v4 :> ip2
MCUserOf == [v \in Requests |-> IF v = v4 THEN ada ELSE Anonymous]

Symmetry == Permutations({v1, v2, v3})
=============================================================================
