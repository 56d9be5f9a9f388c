--------------------------- MODULE MCNonceTracker ---------------------------
(* Small instances of NonceTracker for TLC.                                *)
EXTENDS NonceTracker, TLC

\* Sessions "s" and "s1", participants 2 and 12: one key in common.
MCSessions == {<<"s">>, <<"s", "1">>}
MCDigits == 2 :> <<"2">> @@ 12 :> <<"1", "2">>

Symmetry == Permutations(Callers)
=============================================================================
