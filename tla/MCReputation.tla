---------------------------- MODULE MCReputation ----------------------------
(* Small instances of Reputation for TLC.                                  *)
EXTENDS Reputation

\* One threshold of each kind: reached at once, after several violations,
\* switched off.
MCMaxViolations ==
  [t \in MisbehaviorType |->
     CASE t = "nonce_reuse" -> 1
       [] t = "invalid_share" -> 2
       [] t = "timeout" -> 0
       [] OTHER -> 3]

MCMaxAges == {-1, 1, 2}
=============================================================================
