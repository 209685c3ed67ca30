----------------------------- MODULE MCAccounts -----------------------------
(***************************************************************************)
(* An instance of Accounts for TLC.                                        *)
(***************************************************************************)
EXTENDS Accounts, TLC

CONSTANTS u1, c1, c2, c3

MCOffers ==
  c1 :> {"Login", "Refresh", "CreateProduct", "Apply"} @@
  c2 :> {"DeleteUser", "DeleteVendor", "LogoutUser", "ApproveVendor"} @@
  c3 :> {"Refresh", "Logout", "UpdateProduct", "DropProduct", "DeleteProduct",
         "LogoutVendor", "RejectVendor"}
=============================================================================
