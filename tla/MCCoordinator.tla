---------------------------- MODULE MCCoordinator ----------------------------
(***************************************************************************)
(* Instances of Coordinator for TLC.                                       *)
(***************************************************************************)
EXTENDS Coordinator, TLC

\* Participants 1 and 2 sign; 9 is an identifier nobody answers to.
MCIds == {1, 2, 9}
MCParticipants == {1, 2}

\* Thresholds low enough for exclusion to happen within a few calls.
MCMaxViolations ==
  [t \in MisbehaviorType |->
     CASE t = "invalid_share" -> 1
       [] t = "invalid_commitment" -> 1
       [] OTHER -> 2]

Full == [key |-> TRUE, authenticator |-> TRUE, tracker |-> TRUE,
         minSigners |-> 2, aggMinSigners |-> 2]
Plain == [Full EXCEPT !.authenticator = FALSE, !.tracker = FALSE]

\* Interleavings of the nonce map, with the thresholds off and on, and with
\* a tracker.
RaceRequests == {<<1, 2>>, <<2>>}
RaceConfigs == {[Plain EXCEPT !.minSigners = 0], Plain, Full}
RaceForeign == {{}}

\* Every constructor and every error path.
AllRequests == {<<>>, <<1, 2>>, <<2>>, <<1, 1>>, <<9>>}
AllConfigs ==
  {Full, [Plain EXCEPT !.key = FALSE], [Plain EXCEPT !.minSigners = 0],
   [Plain EXCEPT !.aggMinSigners = 1]}
AllForeign ==
  {{}, {[id |-> 1, nonce |-> 0]}, {[id |-> 1, nonce |-> 0], [id |-> 9, nonce |-> 0]}}

Symmetry == Permutations(Callers)
=============================================================================
