----------------------------- MODULE KeySharing -----------------------------
(***************************************************************************)
(* What key generation, signing and maintenance have in common: the        *)
(* participants, the threshold and the polynomials that share a key.       *)
(***************************************************************************)
EXTENDS FieldMath

CONSTANTS
  N,           \* the participants are 1 .. N
  MinSigners,  \* the threshold
  Polynomials  \* polynomials of degree MinSigners - 1 that may be drawn

Ids == 1 .. N

ASSUME SharingAssumptions ==
  /\ N \in Nat /\ N < Q
  /\ MinSigners \in 2 .. N
  /\ Polynomials \subseteq [1 .. MinSigners -> Scalar]

\* A map with one entry added or replaced.
Put(map, k, v) == [j \in DOMAIN map \cup {k} |-> IF j = k THEN v ELSE map[j]]
=============================================================================
