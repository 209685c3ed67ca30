---------------------------- MODULE MCLoginGuard ----------------------------
(***************************************************************************)
(* An instance of LoginGuard for TLC.                                      *)
(***************************************************************************)
EXTENDS LoginGuard, TLC

CONSTANTS ada

MCKeyOf == [r \in Requests |-> ada]

Symmetry == Permutations(Requests)
=============================================================================
