-------------------------- MODULE MCSigningSessions --------------------------
(* A small instance of SigningSessions for TLC.                            *)
EXTENDS SigningSessions

\* Two workers act for participant 1.
MCActor == [w \in Workers |-> IF w = "c" THEN 2 ELSE 1]

\* <<1, 1>> does not expect 2, and never has enough commitments.
MCRequests == {<<>>, <<2, 1>>, <<1, 1>>}
=============================================================================
