-------------------------- MODULE ReputationRecord --------------------------
(***************************************************************************)
(* One participant's entry of the in-memory reputation tracker             *)
(* (pkg/frost/security/reputation.go) and the pure updates that            *)
(* RecordMisbehavior, ExcludeParticipant and ReinstateParticipant make to  *)
(* it.  Reputation (the tracker on its own) and Coordinator (which         *)
(* consults and feeds it while signing) are both built from these          *)
(* operators.                                                              *)
(*                                                                         *)
(* A map entry that does not exist is the record with tracked = FALSE.     *)
(* Time stamps are kept by module Reputation, which has a clock.           *)
(***************************************************************************)
EXTENDS Naturals

CONSTANT
  MaxViolations   \* ReputationConfig: threshold per misbehavior type, 0 = off

\* The five MisbehaviorType constants of the package.
MisbehaviorType ==
  {"authentication_failure", "invalid_share", "timeout",
   "nonce_reuse", "invalid_commitment"}

\* Thresholds are counts; the code treats every value <= 0 as "off".
ASSUME MaxViolationsAssumption == MaxViolations \in [MisbehaviorType -> Nat]

\* Why a participant is excluded: a threshold named by its type, or by hand.
Reason == MisbehaviorType \cup {"manual", ""}

ParticipantReputation ==
  [tracked : BOOLEAN, counts : [MisbehaviorType -> Nat],
   excluded : BOOLEAN, reason : Reason]

\* The zero value: a participant that the maps have no entry for.
Untracked ==
  [tracked |-> FALSE, counts |-> [t \in MisbehaviorType |-> 0],
   excluded |-> FALSE, reason |-> ""]

\* A count that reaches its threshold excludes; threshold 0 never does.
Exceeds(n, type) == MaxViolations[type] > 0 /\ n >= MaxViolations[type]

\* excludeParticipantLocked: the first reason is kept.
\* Mutant: a reason left over from an earlier exclusion is kept as well.
ExcludedUnexplained(rep, why) == [rep EXCEPT !.excluded = TRUE]
Excluded(rep, why) ==
  IF rep.excluded THEN rep ELSE [rep EXCEPT !.excluded = TRUE, !.reason = why]

\* RecordMisbehavior on the entry: count, then exclude when the count of
\* this very type reaches its threshold.
\* Mutant: the threshold is compared with the count before this violation.
RecordedLate(rep, type) ==
  LET n == rep.counts[type] + 1
      counted == [rep EXCEPT !.tracked = TRUE, !.counts[type] = n]
  IN  IF Exceeds(n - 1, type) THEN Excluded(counted, type) ELSE counted
Recorded(rep, type) ==
  LET n == rep.counts[type] + 1
      counted == [rep EXCEPT !.tracked = TRUE, !.counts[type] = n]
  IN  IF Exceeds(n, type) THEN Excluded(counted, type) ELSE counted

\* ExcludeParticipant creates the entry when there is none.
ManuallyExcluded(rep) == Excluded([rep EXCEPT !.tracked = TRUE], "manual")

\* ReinstateParticipant clears the exclusion and keeps every count.
\* Mutant: it clears the counts instead.
ReinstatedCounts(rep) ==
  [rep EXCEPT !.counts = [t \in MisbehaviorType |-> 0]]
Reinstated(rep) == [rep EXCEPT !.excluded = FALSE, !.reason = ""]

\* IsExcluded: unknown participants are not excluded.
IsExcluded(rep) == rep.tracked /\ rep.excluded
=============================================================================
