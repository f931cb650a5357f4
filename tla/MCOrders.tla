------------------------------ MODULE MCOrders ------------------------------
(***************************************************************************)
(* Instances of Orders for TLC.                                            *)
(***************************************************************************)
EXTENDS Orders, TLC

\* Orders and calls are interchangeable: no definition names one.
Symmetric == Permutations(Order) \cup Permutations(Request)

Instants == 0..2
TwoInstants == 0..1
OneRate == {5}
TwoRates == {1, 5}
=============================================================================
