----------------------------- MODULE MCSessions -----------------------------
(***************************************************************************)
(* Instances of Sessions for TLC.                                          *)
(***************************************************************************)
EXTENDS Sessions, TLC

\* No definition names a user, a device, a session or a call.
Symmetric ==
  Permutations(User) \cup Permutations(Device) \cup Permutations(Session) \cup
    Permutations(Request)
=============================================================================
