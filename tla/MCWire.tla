------------------------------- MODULE MCWire -------------------------------
(* Bytes of one bit, subgroups of order 5 and curves of 5 or 10 points.     *)
EXTENDS Wire
=============================================================================
