------------------------------- MODULE MCChat -------------------------------
(***************************************************************************)
(* Instances of Chat for TLC.                                              *)
(***************************************************************************)
EXTENDS Chat, TLC

\* No definition names a call.
Symmetric == Permutations(Request)
=============================================================================
