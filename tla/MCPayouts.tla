----------------------------- MODULE MCPayouts -----------------------------
(***************************************************************************)
(* Instances of Payouts for TLC.                                           *)
(***************************************************************************)
EXTENDS Payouts, TLC

CONSTANTS v1, v2

MCCredits == v1 :> 3 @@ v2 :> 1

Symmetry == Permutations(Requests) \union Permutations(Approvals)
=============================================================================
