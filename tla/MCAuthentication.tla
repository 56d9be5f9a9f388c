-------------------------- MODULE MCAuthentication --------------------------
(* Two goroutines, two signers, one key of the callers and one device.      *)
EXTENDS Authentication, TLC

AllDevices == {[key |-> 10, ed25519 |-> TRUE], [key |-> 11, ed25519 |-> FALSE]}

Symmetry == Permutations(Procs) \cup Permutations(Signers)
=============================================================================
