--------------------------- MODULE MCKeyMaintenance ---------------------------
(***************************************************************************)
(* An instance of KeyMaintenance for TLC: a group of order 5, threshold 3  *)
(* of 4.  Two helpers pass RepairShareStep1 and are too few.               *)
(***************************************************************************)
EXTENDS KeyMaintenance

MCPolynomials == {<<1, 2, 3>>}
MCRefreshPolynomials == {<<0, 1, 4>>, <<0, 2, 1>>}
MCRefreshIds == {Ids, Ids \ {2}}
MCHelpers == {<<1, 2, 3>>, <<3, 1>>}
=============================================================================
