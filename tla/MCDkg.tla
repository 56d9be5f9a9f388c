-------------------------------- MODULE MCDkg --------------------------------
(***************************************************************************)
(* Instances of Dkg for TLC: a group of order 5, three participants,       *)
(* threshold 2.                                                            *)
(***************************************************************************)
EXTENDS Dkg

MCPolynomials == {<<1, 2>>, <<3, 1>>}

NobodyOrThree == {{}, {3}}

\* A commitment that is too long, with a proof by 3 that verifies.
MCMalformed == {[commitment |-> <<2, 1, 4>>, proof |-> [by |-> 3, of |-> 2]]}
=============================================================================
