------------------------------ MODULE MCSignup ------------------------------
(***************************************************************************)
(* An instance of Signup for TLC.                                          *)
(***************************************************************************)
EXTENDS Signup, TLC

CONSTANTS ada, c1, c2, c3, c4

MCEmailOf == [c \in Calls |-> ada]

MCOffers ==
  c1 :> {"Register"} @@
  c2 :> {"Register", "ForgotPassword"} @@
  c3 :> {"Resend", "VerifyEmail", "ResetPassword"} @@
  c4 :> {"VerifyEmail", "ResetPassword"}
=============================================================================
