------------------------------ MODULE Reputation ------------------------------
(***************************************************************************)
(* The in-memory reputation tracker (pkg/frost/security/reputation.go):    *)
(* the entries of ReputationRecord together with the time-stamped history  *)
(* of violations that CleanupOldRecords prunes.  Every operation holds the *)
(* tracker's lock from start to end, so each is one action.                *)
(***************************************************************************)
EXTENDS ReputationRecord, Integers, Sequences, FiniteSets

CONSTANTS
  Ids,          \* participant identifiers
  MaxAges,      \* the maxAge arguments of CleanupOldRecords
  MaxTime,      \* bound: clock ticks
  MaxRecords    \* bound: violations of one participant

ASSUME ReputationAssumptions ==
  /\ MaxAges \subseteq Int
  /\ MaxTime \in Nat
  /\ MaxRecords \in Nat

VARIABLES
  reputations,  \* t.reputations
  history,      \* t.history; <<>> where the map has no entry
  now,          \* time.Now()
  log,          \* ghost: every violation ever recorded
  cutoff,       \* ghost: the latest cutoff of any cleanup
  pardoned      \* ghost: the counts at the participant's last reinstatement

vars == <<reputations, history, now, log, cutoff, pardoned>>

MisbehaviorRecord == [type : MisbehaviorType, at : Nat]

Init ==
  /\ reputations = [i \in Ids |-> Untracked]
  /\ history = [i \in Ids |-> <<>>]
  /\ now = 1
  /\ log = [i \in Ids |-> <<>>]
  /\ cutoff = 0
  /\ pardoned = [i \in Ids |-> [t \in MisbehaviorType |-> 0]]

Tick ==
  /\ now < MaxTime
  /\ now' = now + 1
  /\ UNCHANGED <<reputations, history, log, cutoff, pardoned>>

\* RecordMisbehavior: the entry first, then the history.
RecordMisbehavior(i, type) ==
  /\ Len(log[i]) < MaxRecords
  /\ reputations' = [reputations EXCEPT ![i] = Recorded(@, type)]
  /\ history' = [history EXCEPT ![i] = Append(@, [type |-> type, at |-> now])]
  /\ log' = [log EXCEPT ![i] = Append(@, [type |-> type, at |-> now])]
  /\ UNCHANGED <<now, cutoff, pardoned>>

ExcludeParticipant(i) ==
  /\ reputations' = [reputations EXCEPT ![i] = ManuallyExcluded(@)]
  /\ UNCHANGED <<history, now, log, cutoff, pardoned>>

\* ReinstateParticipant fails for a participant that is not tracked.
ReinstateParticipant(i) ==
  /\ reputations[i].tracked
  /\ reputations' = [reputations EXCEPT ![i] = Reinstated(@)]
  /\ pardoned' = [pardoned EXCEPT ![i] = reputations[i].counts]
  /\ UNCHANGED <<history, now, log, cutoff>>

\* newRecords after the loop over records: those stamped after the cutoff t,
\* in their order.
NewRecords(records, t) ==
  LET newRecords[n \in 0 .. Len(records)] ==
        IF n = 0 THEN <<>>
        ELSE IF records[n].at > t THEN Append(newRecords[n - 1], records[n])
                                  ELSE newRecords[n - 1]
  IN  newRecords[Len(records)]

\* The records CleanupOldRecords keeps: those stamped after now - maxAge.
\* Mutant: a record exactly maxAge old stays too.
KeptInclusive(records, maxAge) == NewRecords(records, (now - maxAge) - 1)
Kept(records, maxAge) == NewRecords(records, now - maxAge)

\* CleanupOldRecords prunes every history and touches no count; it returns
\* at once when maxAge is not positive.
CleanupOldRecords(maxAge) ==
  /\ maxAge > 0
  /\ history' = [i \in Ids |-> Kept(history[i], maxAge)]
  /\ cutoff' = IF now - maxAge > cutoff THEN now - maxAge ELSE cutoff
  /\ UNCHANGED <<reputations, now, log, pardoned>>

Next ==
  \/ Tick
  \/ \E i \in Ids :
       \/ \E type \in MisbehaviorType : RecordMisbehavior(i, type)
       \/ ExcludeParticipant(i)
       \/ ReinstateParticipant(i)
  \/ \E maxAge \in MaxAges : CleanupOldRecords(maxAge)

Spec == Init /\ [][Next]_vars

-----------------------------------------------------------------------------
(* Properties.                                                             *)

Crossed(i) == {t \in MisbehaviorType : Exceeds(reputations[i].counts[t], t)}

\* Nobody is excluded without a cause that still stands: the reason on
\* record is an operator's decision or a type whose count is at or above
\* its threshold, however often the participant was reinstated, and however
\* much of the history was cleaned up, since.
ExclusionJustified ==
  \A i \in Ids :
    reputations[i].excluded =>
      reputations[i].reason \in Crossed(i) \cup {"manual"}

\* A participant over a threshold takes part only by an operator's pardon,
\* and only until the next violation of that type: whoever is not excluded
\* has, for every threshold crossed, exactly the count of the last
\* ReinstateParticipant.
PardonIsNarrow ==
  \A i \in Ids :
    ~reputations[i].excluded =>
      \A t \in Crossed(i) : reputations[i].counts[t] = pardoned[i][t]

\* The counts that decide on exclusion are those of all violations ever
\* recorded: neither cleanup nor reinstatement makes the tracker forget one.
CountsNeverForget ==
  \A i \in Ids, t \in MisbehaviorType :
    reputations[i].counts[t] =
      Cardinality({k \in DOMAIN log[i] : log[i][k].type = t})

\* The history holds, in order, exactly the violations stamped after the
\* latest cutoff any CleanupOldRecords used.
HistoryComplete ==
  \A i \in Ids : history[i] = NewRecords(log[i], cutoff)
=============================================================================
