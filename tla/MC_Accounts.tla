---------------------------- MODULE MC_Accounts ----------------------------
(***************************************************************************)
(* Two requests at once, two addresses, one account at a provider.         *)
(***************************************************************************)
EXTENDS Accounts, TLC
=============================================================================
