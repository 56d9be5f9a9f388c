-------------------------------- MODULE MCCli --------------------------------
(***************************************************************************)
(* Instances of Cli for TLC.                                               *)
(***************************************************************************)
EXTENDS Cli, TLC

\* "commitment-1.json" < "commitment-10.json" < "commitment-2.json"
MCGlobOrder == SelectSeq(<<1, 10, 2>>, LAMBDA i : i \in Ids)

MCKeygenArgs == {[min |-> 2, max |-> 10], [min |-> 3, max |-> 2],
                 [min |-> 2, max |-> 65536]}
MCSignerPairs == {<<1, 2>>, <<2, 1>>}

Symmetry == Permutations(Procs)
=============================================================================
