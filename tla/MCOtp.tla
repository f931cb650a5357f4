------------------------------- MODULE MCOtp -------------------------------
(***************************************************************************)
(* Instances of Otp for TLC.                                               *)
(***************************************************************************)
EXTENDS Otp, TLC

\* No definition names a call.
Symmetric == Permutations(Request)
=============================================================================
