----------------------------- MODULE MCAccounts -----------------------------
(***************************************************************************)
(* Instances of Accounts for TLC.                                          *)
(***************************************************************************)
EXTENDS Accounts

\* No definition names a call.
Symmetric == Permutations(Request)
=============================================================================
