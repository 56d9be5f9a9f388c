-------------------------- MODULE MCThresholdSigning --------------------------
(***************************************************************************)
(* An instance of ThresholdSigning for TLC: a group of order 5 and three   *)
(* participants, any two of which can sign.                                *)
(***************************************************************************)
EXTENDS ThresholdSigning

MCPolynomials == {<<1, 3>>}
MCShapes == {"none", "dealer", "participants"}

\* The threshold is lost in one key package.
OneLost == {[i \in Ids |-> IF i = 1 THEN 0 ELSE MinSigners]}

\* Two pairs: lists with equal and with different nonces both occur.
MCNonces == {<<1, 2>>, <<3, 1>>}

\* Binding factors that differ, that agree, and one that is zero.
MCOracles == {[rho |-> <<2, 2, 0>>, challenge |-> 2]}

\* 1 and 4 cancel out modulo 5.
MCErrors == {1, 4}
=============================================================================
