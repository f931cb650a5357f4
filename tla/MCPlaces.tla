------------------------------ MODULE MCPlaces ------------------------------
(***************************************************************************)
(* Instances of Places for TLC.                                            *)
(***************************************************************************)
EXTENDS Places, TLC

\* No definition names a user, a row or a call.
Symmetric ==
  Permutations(User) \cup Permutations(Location) \cup Permutations(Request)
=============================================================================
