--------------------------- MODULE ReputationProofs ---------------------------
(***************************************************************************)
(* Proofs about the reputation tracker, for every set of participants,     *)
(* every table of thresholds and every sequence of calls.                  *)
(***************************************************************************)
EXTENDS Reputation, FiniteSetTheorems, WellFoundedInduction, TLAPS

\* The type invariant without the history, which has an invariant of its own.
TrackerTypeOK ==
  /\ reputations \in [Ids -> ParticipantReputation]
  /\ log \in [Ids -> Seq(MisbehaviorRecord)]
  /\ now \in Nat
  /\ pardoned \in [Ids -> [MisbehaviorType -> Nat]]

\* What RecordMisbehavior does to an entry.
LEMMA RecordedEffect ==
  ASSUME NEW rep \in ParticipantReputation, NEW type \in MisbehaviorType
  PROVE  LET new == Recorded(rep, type)
             n == rep.counts[type] + 1
         IN  /\ new \in ParticipantReputation
             /\ new.counts = [rep.counts EXCEPT ![type] = n]
             /\ new.excluded <=> rep.excluded \/ Exceeds(n, type)
             /\ rep.excluded => new.reason = rep.reason
             /\ new.excluded /\ ~rep.excluded => new.reason = type
<1> DEFINE n == rep.counts[type] + 1
           counted == [rep EXCEPT !.tracked = TRUE, !.counts[type] = n]
<1>1. n \in Nat
  BY DEF ParticipantReputation
<1>2. /\ counted \in ParticipantReputation
      /\ counted.counts = [rep.counts EXCEPT ![type] = n]
      /\ counted.excluded = rep.excluded
      /\ counted.reason = rep.reason
  BY <1>1 DEF ParticipantReputation
<1> HIDE DEF counted
<1>3. /\ Excluded(counted, type) \in ParticipantReputation
      /\ Excluded(counted, type).counts = counted.counts
      /\ Excluded(counted, type).excluded = TRUE
      /\ counted.excluded => Excluded(counted, type).reason = counted.reason
      /\ ~counted.excluded => Excluded(counted, type).reason = type
  BY <1>2 DEF ParticipantReputation, Excluded, Reason
<1>4. Recorded(rep, type) =
        IF Exceeds(n, type) THEN Excluded(counted, type) ELSE counted
  BY DEF Recorded, counted
<1>5. QED
  BY <1>2, <1>3, <1>4 DEF ParticipantReputation

\* What ExcludeParticipant does to an entry.
LEMMA ManuallyExcludedEffect ==
  ASSUME NEW rep \in ParticipantReputation
  PROVE  LET new == ManuallyExcluded(rep)
         IN  /\ new \in ParticipantReputation
             /\ new.counts = rep.counts
             /\ new.excluded
             /\ new.reason = IF rep.excluded THEN rep.reason ELSE "manual"
<1> DEFINE e == [rep EXCEPT !.tracked = TRUE]
<1>1. /\ e \in ParticipantReputation /\ e.counts = rep.counts
      /\ e.excluded = rep.excluded /\ e.reason = rep.reason
  BY DEF ParticipantReputation
<1> HIDE DEF e
<1>2. ManuallyExcluded(rep) = Excluded(e, "manual")
  BY DEF ManuallyExcluded, e
<1>3. QED
  BY <1>1, <1>2 DEF Excluded, ParticipantReputation, Reason

\* What ReinstateParticipant does to an entry.
LEMMA ReinstatedEffect ==
  ASSUME NEW rep \in ParticipantReputation
  PROVE  /\ Reinstated(rep) \in ParticipantReputation
         /\ Reinstated(rep).counts = rep.counts
         /\ ~Reinstated(rep).excluded
BY DEF Reinstated, ParticipantReputation, Reason

\* A count over its threshold stays over it when it grows.
LEMMA ExceedsMonotone ==
  ASSUME NEW n \in Nat, NEW type \in MisbehaviorType, Exceeds(n, type)
  PROVE  Exceeds(n + 1, type)
BY MaxViolationsAssumption DEF Exceeds

-----------------------------------------------------------------------------
(* Exclusion and pardon.                                                   *)

ExclusionInv == TrackerTypeOK /\ ExclusionJustified /\ PardonIsNarrow

\* The invariant holds initially.
LEMMA InitExclusionInv == Init => ExclusionInv
<1> SUFFICES ASSUME Init PROVE ExclusionInv
  OBVIOUS
<1>1. /\ Untracked \in ParticipantReputation
      /\ Untracked.excluded = FALSE
      /\ \A t \in MisbehaviorType : Untracked.counts[t] = 0
  BY DEF Untracked, ParticipantReputation, Reason
<1>2. TrackerTypeOK
  BY <1>1 DEF Init, TrackerTypeOK
<1>3. \A i \in Ids : Crossed(i) = {}
  BY <1>1, MaxViolationsAssumption DEF Init, Crossed, Exceeds
<1>4. QED
  BY <1>1, <1>2, <1>3 DEF Init, ExclusionInv, ExclusionJustified, PardonIsNarrow

\* ExclusionInv is inductive.
LEMMA NextExclusionInv ==
  ASSUME ExclusionInv, [Next]_vars PROVE ExclusionInv'
<1> USE DEF ExclusionInv
<1>1. ASSUME NEW i \in Ids, NEW type \in MisbehaviorType,
             RecordMisbehavior(i, type)
      PROVE  ExclusionInv'
  <2> DEFINE old == reputations[i]
             new == Recorded(old, type)
             n == old.counts[type] + 1
  <2>1. old \in ParticipantReputation /\ n \in Nat
    BY DEF TrackerTypeOK, ParticipantReputation
  <2>2. /\ new \in ParticipantReputation
        /\ new.counts = [old.counts EXCEPT ![type] = n]
        /\ new.excluded <=> old.excluded \/ Exceeds(n, type)
        /\ old.excluded => new.reason = old.reason
        /\ new.excluded /\ ~old.excluded => new.reason = type
    BY <2>1, RecordedEffect
  <2> HIDE DEF new
  <2>3. reputations' = [reputations EXCEPT ![i] = new] /\ pardoned' = pardoned
    BY <1>1 DEF RecordMisbehavior, new
  <2>4. TrackerTypeOK'
    <3>1. [type |-> type, at |-> now] \in MisbehaviorRecord
      BY DEF TrackerTypeOK, MisbehaviorRecord
    <3>2. log' \in [Ids -> Seq(MisbehaviorRecord)]
      BY <1>1, <3>1 DEF RecordMisbehavior, TrackerTypeOK
    <3>3. QED
      BY <1>1, <2>2, <2>3, <3>2 DEF RecordMisbehavior, TrackerTypeOK
  <2>5. /\ reputations'[i] = new
        /\ \A j \in Ids \ {i} : reputations'[j] = reputations[j]
    BY <2>3 DEF TrackerTypeOK
  <2>6. \A j \in Ids \ {i} : Crossed(j)' = Crossed(j)
    BY <2>5 DEF Crossed
  <2>7. \A t \in MisbehaviorType :
          t \in Crossed(i)' <=>
            IF t = type THEN Exceeds(n, type) ELSE t \in Crossed(i)
    <3>1. \A t \in MisbehaviorType :
            new.counts[t] = IF t = type THEN n ELSE old.counts[t]
      BY <2>1, <2>2 DEF ParticipantReputation
    <3>2. QED
      BY <2>5, <3>1 DEF Crossed
  <2>8. Crossed(i) \subseteq Crossed(i)'
    <3>1. type \in Crossed(i) => Exceeds(n, type)
      BY <2>1, ExceedsMonotone DEF Crossed, ParticipantReputation
    <3>2. QED
      BY <2>7, <3>1 DEF Crossed
  <2>9. ExclusionJustified'
    <3> SUFFICES ASSUME NEW j \in Ids, reputations'[j].excluded
                 PROVE  reputations'[j].reason \in Crossed(j)' \cup {"manual"}
      BY DEF ExclusionJustified
    <3>1. CASE j # i
      BY <2>5, <2>6, <3>1 DEF ExclusionJustified
    <3>2. CASE j = i /\ old.excluded
      BY <2>2, <2>5, <2>8, <3>2 DEF ExclusionJustified
    <3>3. CASE j = i /\ ~old.excluded
      BY <2>2, <2>5, <2>7, <3>3
    <3>4. QED
      BY <3>1, <3>2, <3>3
  <2>10. PardonIsNarrow'
    <3> SUFFICES ASSUME NEW j \in Ids, ~reputations'[j].excluded,
                        NEW t \in Crossed(j)'
                 PROVE  reputations'[j].counts[t] = pardoned'[j][t]
      BY DEF PardonIsNarrow
    <3>1. CASE j # i
      BY <2>3, <2>5, <2>6, <3>1 DEF PardonIsNarrow
    <3>2. CASE j = i
      <4>1. ~old.excluded /\ ~Exceeds(n, type)
        BY <2>2, <2>5, <3>2
      <4>2. t \in MisbehaviorType /\ t # type /\ t \in Crossed(i)
        BY <2>7, <3>2, <4>1 DEF Crossed
      <4>3. new.counts[t] = old.counts[t]
        BY <2>1, <2>2, <4>2 DEF ParticipantReputation
      <4>4. QED
        BY <2>3, <2>5, <3>2, <4>1, <4>2, <4>3 DEF PardonIsNarrow
    <3>3. QED
      BY <3>1, <3>2
  <2>11. QED
    BY <2>4, <2>9, <2>10
<1>2. ASSUME NEW i \in Ids, ExcludeParticipant(i) PROVE ExclusionInv'
  <2> DEFINE old == reputations[i]
             new == ManuallyExcluded(old)
  <2>1. old \in ParticipantReputation
    BY DEF TrackerTypeOK
  <2>2. /\ new \in ParticipantReputation
        /\ new.counts = old.counts
        /\ new.excluded
        /\ new.reason = IF old.excluded THEN old.reason ELSE "manual"
    BY <2>1, ManuallyExcludedEffect
  <2> HIDE DEF new
  <2>3. /\ reputations' = [reputations EXCEPT ![i] = new]
        /\ UNCHANGED <<log, now, pardoned>>
    BY <1>2 DEF ExcludeParticipant, new
  <2>4. TrackerTypeOK'
    BY <2>2, <2>3 DEF TrackerTypeOK
  <2>5. /\ reputations'[i] = new
        /\ \A j \in Ids \ {i} : reputations'[j] = reputations[j]
    BY <2>3 DEF TrackerTypeOK
  <2>6. \A j \in Ids : Crossed(j)' = Crossed(j)
    BY <2>2, <2>5 DEF Crossed
  <2>7. ExclusionJustified' /\ PardonIsNarrow'
    BY <2>2, <2>3, <2>5, <2>6 DEF ExclusionJustified, PardonIsNarrow
  <2>8. QED
    BY <2>4, <2>7
<1>3. ASSUME NEW i \in Ids, ReinstateParticipant(i) PROVE ExclusionInv'
  <2> DEFINE old == reputations[i]
             new == Reinstated(old)
  <2>1. old \in ParticipantReputation /\ old.counts \in [MisbehaviorType -> Nat]
    BY DEF TrackerTypeOK, ParticipantReputation
  <2>2. new \in ParticipantReputation /\ new.counts = old.counts /\ ~new.excluded
    BY <2>1, ReinstatedEffect
  <2> HIDE DEF new
  <2>3. /\ reputations' = [reputations EXCEPT ![i] = new]
        /\ pardoned' = [pardoned EXCEPT ![i] = old.counts]
        /\ UNCHANGED <<log, now>>
    BY <1>3 DEF ReinstateParticipant, new
  <2>4. TrackerTypeOK'
    BY <2>1, <2>2, <2>3 DEF TrackerTypeOK
  <2>5. /\ reputations'[i] = new /\ pardoned'[i] = old.counts
        /\ \A j \in Ids \ {i} : /\ reputations'[j] = reputations[j]
                                /\ pardoned'[j] = pardoned[j]
    BY <2>3 DEF TrackerTypeOK
  <2>6. \A j \in Ids : Crossed(j)' = Crossed(j)
    BY <2>2, <2>5 DEF Crossed
  <2>7. ExclusionJustified' /\ PardonIsNarrow'
    BY <2>2, <2>5, <2>6 DEF ExclusionJustified, PardonIsNarrow
  <2>8. QED
    BY <2>4, <2>7
<1>4. ASSUME UNCHANGED <<reputations, log, pardoned>>, now' \in Nat
      PROVE  ExclusionInv'
  BY <1>4 DEF TrackerTypeOK, ExclusionJustified, PardonIsNarrow, Crossed
<1>5. CASE Tick
  BY <1>4, <1>5 DEF Tick, TrackerTypeOK
<1>6. ASSUME NEW maxAge \in MaxAges, CleanupOldRecords(maxAge)
      PROVE  ExclusionInv'
  BY <1>4, <1>6 DEF CleanupOldRecords, TrackerTypeOK
<1>7. CASE UNCHANGED vars
  BY <1>4, <1>7 DEF vars, TrackerTypeOK
<1>8. QED
  BY <1>1, <1>2, <1>3, <1>5, <1>6, <1>7 DEF Next

\* Exclusion always has a standing cause, whatever is recorded, pardoned and
\* cleaned up: the reason of every excluded participant is an operator's or
\* a threshold its count still exceeds.
THEOREM ExclusionIsJustified == Spec => []ExclusionJustified
<1>1. ExclusionInv => ExclusionJustified
  BY DEF ExclusionInv
<1>2. QED
  BY <1>1, InitExclusionInv, NextExclusionInv, PTL DEF Spec

\* A participant over a threshold takes part only by a pardon, and only
\* until its next violation of that type.
THEOREM PardonsAreNarrow == Spec => []PardonIsNarrow
<1>1. ExclusionInv => PardonIsNarrow
  BY DEF ExclusionInv
<1>2. QED
  BY <1>1, InitExclusionInv, NextExclusionInv, PTL DEF Spec

-----------------------------------------------------------------------------
(* The counts remember every violation.                                    *)

OfType(i, t) == {k \in DOMAIN log[i] : log[i][k].type = t}

\* The entries of one type in a log are finitely many.
LEMMA OfTypeFinite ==
  ASSUME TrackerTypeOK, NEW i \in Ids, NEW t PROVE IsFiniteSet(OfType(i, t))
<1>1. Len(log[i]) \in Nat /\ DOMAIN log[i] = 1 .. Len(log[i])
  BY DEF TrackerTypeOK
<1>2. IsFiniteSet(1 .. Len(log[i]))
  BY <1>1, FS_Interval
<1>3. OfType(i, t) \subseteq 1 .. Len(log[i])
  BY <1>1 DEF OfType
<1>4. QED
  BY <1>2, <1>3, FS_Subset

\* Every step counts what it records.
LEMMA NextCounts ==
  ASSUME ExclusionInv, CountsNeverForget, [Next]_vars
  PROVE  CountsNeverForget'
<1> USE DEF ExclusionInv
<1>1. ASSUME NEW i \in Ids, NEW type \in MisbehaviorType,
             RecordMisbehavior(i, type)
      PROVE  CountsNeverForget'
  <2> SUFFICES ASSUME NEW j \in Ids, NEW t \in MisbehaviorType
               PROVE  reputations'[j].counts[t] = Cardinality(OfType(j, t)')
    BY DEF CountsNeverForget, OfType
  <2>1. reputations[j].counts[t] = Cardinality(OfType(j, t))
    BY DEF CountsNeverForget, OfType
  <2>2. CASE j # i
    <3>1. reputations'[j] = reputations[j] /\ log'[j] = log[j]
      BY <1>1, <2>2 DEF RecordMisbehavior, TrackerTypeOK
    <3>2. QED
      BY <2>1, <3>1 DEF OfType
  <2>3. CASE j = i
    <3> DEFINE e == [type |-> type, at |-> now]
               m == Len(log[i]) + 1
    <3>1. log[i] \in Seq(MisbehaviorRecord) /\ e \in MisbehaviorRecord
      BY DEF TrackerTypeOK, MisbehaviorRecord
    <3>2. /\ log'[i] = Append(log[i], e)
          /\ reputations'[i] = Recorded(reputations[i], type)
      BY <1>1 DEF RecordMisbehavior, TrackerTypeOK
    <3>3. /\ m \in Nat /\ m \notin DOMAIN log[i]
          /\ DOMAIN log'[i] = (DOMAIN log[i]) \cup {m}
          /\ log'[i][m] = e
          /\ \A k \in DOMAIN log[i] : log'[i][k] = log[i][k]
      BY <3>1, <3>2
    <3>4. OfType(i, t)' = IF t = type THEN OfType(i, t) \cup {m}
                                      ELSE OfType(i, t)
      <4>1. e.type = type
        OBVIOUS
      <4> HIDE DEF e, m
      <4>2. QED
        BY <3>3, <4>1 DEF OfType
    <3>5. m \notin OfType(i, t)
      BY <3>3 DEF OfType
    <3>6. Cardinality(OfType(i, t) \cup {m}) = Cardinality(OfType(i, t)) + 1
      BY <3>5, OfTypeFinite, FS_AddElement
    <3>7. reputations[i] \in ParticipantReputation
      BY DEF TrackerTypeOK
    <3>8. reputations'[i].counts =
            [reputations[i].counts EXCEPT ![type] = reputations[i].counts[type] + 1]
      <4> DEFINE old == reputations[i]
      <4>1. Recorded(old, type).counts =
              [old.counts EXCEPT ![type] = old.counts[type] + 1]
        <5> HIDE DEF old
        <5>1. old \in ParticipantReputation
          BY <3>7 DEF old
        <5>2. QED
          BY <5>1, RecordedEffect
      <4>2. QED
        BY <3>2, <4>1
    <3>9. reputations'[i].counts[t] =
            IF t = type THEN reputations[i].counts[t] + 1
                        ELSE reputations[i].counts[t]
      BY <3>7, <3>8 DEF ParticipantReputation
    <3>10. QED
      BY <2>1, <2>3, <3>4, <3>6, <3>9
  <2>4. QED
    BY <2>2, <2>3
<1>2. ASSUME log' = log,
             \A j \in Ids : reputations'[j].counts = reputations[j].counts
      PROVE  CountsNeverForget'
  BY <1>2 DEF CountsNeverForget
<1>3. ASSUME NEW i \in Ids, ExcludeParticipant(i) PROVE CountsNeverForget'
  <2>1. reputations[i] \in ParticipantReputation
    BY DEF TrackerTypeOK
  <2>2. \A j \in Ids : reputations'[j].counts = reputations[j].counts
    BY <1>3, <2>1, ManuallyExcludedEffect DEF ExcludeParticipant, TrackerTypeOK
  <2>3. QED
    BY <1>2, <1>3, <2>2 DEF ExcludeParticipant
<1>4. ASSUME NEW i \in Ids, ReinstateParticipant(i) PROVE CountsNeverForget'
  <2>1. reputations[i] \in ParticipantReputation
    BY DEF TrackerTypeOK
  <2>2. \A j \in Ids : reputations'[j].counts = reputations[j].counts
    BY <1>4, <2>1, ReinstatedEffect DEF ReinstateParticipant, TrackerTypeOK
  <2>3. QED
    BY <1>2, <1>4, <2>2 DEF ReinstateParticipant
<1>5. CASE Tick
  BY <1>2, <1>5 DEF Tick
<1>6. ASSUME NEW maxAge \in MaxAges, CleanupOldRecords(maxAge)
      PROVE  CountsNeverForget'
  BY <1>2, <1>6 DEF CleanupOldRecords
<1>7. CASE UNCHANGED vars
  BY <1>2, <1>7 DEF vars
<1>8. QED
  BY <1>1, <1>3, <1>4, <1>5, <1>6, <1>7 DEF Next

\* The counts that decide on exclusion count every violation ever recorded.
THEOREM CountsAreComplete == Spec => []CountsNeverForget
<1>1. Init => CountsNeverForget
  <2> SUFFICES ASSUME Init, NEW i \in Ids, NEW t \in MisbehaviorType
               PROVE  reputations[i].counts[t] = Cardinality(OfType(i, t))
    BY DEF CountsNeverForget, OfType
  <2>1. reputations[i].counts[t] = 0
    BY DEF Init, Untracked
  <2>2. OfType(i, t) = {}
    BY DEF Init, OfType
  <2>3. QED
    BY <2>1, <2>2, FS_EmptySet
<1>2. QED
  BY <1>1, InitExclusionInv, NextExclusionInv, NextCounts, PTL DEF Spec

-----------------------------------------------------------------------------
(* The history.  Induction is over sets of numbers: the provers do not     *)
(* take it over formulas.                                                  *)

\* A nonempty set of naturals has a least element.
LEMMA LeastNat ==
  ASSUME NEW T, T \subseteq Nat, T # {}
  PROVE  \E x \in T : \A y \in T : x <= y
<1>1. IsWellFoundedOn(OpToRel(<, Nat), Nat)
  BY NatLessThanWellFounded
<1>2. \E x \in T : \A y \in T : <<y, x>> \notin OpToRel(<, Nat)
  BY <1>1, WFMin
<1>3. \A x, y \in Nat : <<y, x>> \in OpToRel(<, Nat) <=> y < x
  BY DEF OpToRel
<1>4. PICK x \in T : \A y \in T : <<y, x>> \notin OpToRel(<, Nat)
  BY <1>2
<1>5. \A y \in T : ~(y < x)
  BY <1>3, <1>4, Zenon
<1> QED BY <1>5

\* A set that has 0 in it, and with every number the next, has all.
LEMMA Induct ==
  ASSUME NEW P, 0 \in P, \A n \in Nat : n \in P => n + 1 \in P
  PROVE  \A n \in Nat : n \in P
<1> DEFINE Bad == {n \in Nat : n \notin P}
<1> SUFFICES ASSUME Bad # {} PROVE FALSE
  OBVIOUS
<1>1. PICK x \in Bad : \A y \in Bad : x <= y
  BY LeastNat
<1>2. x # 0 /\ x - 1 \in Nat /\ x - 1 \notin Bad
  BY <1>1
<1>3. x - 1 \in P
  BY <1>2
<1>4. (x - 1) + 1 \in P
  BY <1>2, <1>3
<1> QED BY <1>1, <1>4


\* The loop of CleanupOldRecords: f[n] is newRecords after n rounds.
Loop(s, t, f) ==
  /\ f \in [0 .. Len(s) -> Seq(MisbehaviorRecord)]
  /\ f[0] = <<>>
  /\ \A n \in 1 .. Len(s) :
       f[n] = IF s[n].at > t THEN Append(f[n - 1], s[n]) ELSE f[n - 1]

\* The loop ends.
LEMMA LoopExists ==
  ASSUME NEW s \in Seq(MisbehaviorRecord), NEW t
  PROVE  \E f : Loop(s, t, f)
<1> DEFINE R == Seq(MisbehaviorRecord)
           Upto(f, m) == \A n \in 1 .. Len(s) : n <= m =>
             f[n] = IF s[n].at > t THEN Append(f[n - 1], s[n]) ELSE f[n - 1]
           P == {m \in Nat : \E f \in [0 .. Len(s) -> R] : f[0] = <<>> /\ Upto(f, m)}
<1>0. Len(s) \in Nat /\ \A n \in 1 .. Len(s) : s[n] \in MisbehaviorRecord
  OBVIOUS
<1>1. 0 \in P
  <2>1. [n \in 0 .. Len(s) |-> <<>>] \in [0 .. Len(s) -> R]
    OBVIOUS
  <2>2. [n \in 0 .. Len(s) |-> <<>>][0] = <<>>
    BY <1>0
  <2>3. Upto([n \in 0 .. Len(s) |-> <<>>], 0)
    BY <1>0
  <2> QED BY <2>1, <2>2, <2>3
<1>2. ASSUME NEW m \in Nat, m \in P PROVE m + 1 \in P
  <2>1. PICK f \in [0 .. Len(s) -> R] : f[0] = <<>> /\ Upto(f, m)
    BY <1>2
  <2>2. CASE m + 1 > Len(s)
    <3>1. Upto(f, m + 1)
      BY <1>0, <2>1, <2>2
    <3> QED BY <2>1, <3>1
  <2>3. CASE m + 1 <= Len(s)
    <3> DEFINE v == IF s[m + 1].at > t THEN Append(f[m], s[m + 1]) ELSE f[m]
               g == [f EXCEPT ![m + 1] = v]
    <3>1. m + 1 \in 1 .. Len(s) /\ m \in 0 .. Len(s) /\ m + 1 \in 0 .. Len(s)
      BY <1>0, <2>3
    <3>2. f[m] \in R /\ s[m + 1] \in MisbehaviorRecord
      BY <1>0, <3>1
    <3>3. v \in R
      BY <3>2
    <3> HIDE DEF v
    <3>4. g \in [0 .. Len(s) -> R]
      BY <3>3
    <3>5. g[m + 1] = v /\ \A n \in 0 .. Len(s) : n # m + 1 => g[n] = f[n]
      BY <3>1
    <3> HIDE DEF g
    <3>6. g[0] = <<>>
      BY <1>0, <2>1, <3>5
    <3>7. ASSUME NEW n \in 1 .. Len(s), n <= m + 1
          PROVE  g[n] = IF s[n].at > t THEN Append(g[n - 1], s[n]) ELSE g[n - 1]
      <4>1. n - 1 \in 0 .. Len(s) /\ n \in 0 .. Len(s) /\ n - 1 # m + 1
        BY <1>0, <3>7
      <4>2. g[n - 1] = f[n - 1]
        BY <3>5, <4>1
      <4>3. CASE n = m + 1
        <5>1. n - 1 = m
          BY <4>3
        <5> QED BY <3>5, <4>2, <4>3, <5>1 DEF v
      <4>4. CASE n # m + 1
        <5>1. n <= m
          BY <3>7, <4>4
        <5>2. g[n] = f[n]
          BY <3>5, <4>1, <4>4
        <5> QED BY <2>1, <4>2, <5>1, <5>2
      <4> QED BY <4>3, <4>4
    <3>8. Upto(g, m + 1)
      BY <3>7
    <3> QED BY <3>4, <3>6, <3>8
  <2>4. m + 1 > Len(s) \/ m + 1 <= Len(s)
    BY <1>0
  <2> HIDE DEF P
  <2> QED BY <2>2, <2>3, <2>4
<1> HIDE DEF P
<1>3. Len(s) \in P
  BY <1>0, <1>1, <1>2, Induct
<1>4. PICK f \in [0 .. Len(s) -> R] : f[0] = <<>> /\ Upto(f, Len(s))
  BY <1>3 DEF P
<1>5. Loop(s, t, f)
  BY <1>0, <1>4 DEF Loop
<1> QED BY <1>5

\* NewRecords is what the loop computes.
LEMMA NewRecordsLoop ==
  ASSUME NEW s \in Seq(MisbehaviorRecord), NEW t
  PROVE  \E f : Loop(s, t, f) /\ NewRecords(s, t) = f[Len(s)]
<1> DEFINE Eq(f) == f = [n \in 0 .. Len(s) |->
                           IF n = 0 THEN <<>>
                           ELSE IF s[n].at > t THEN Append(f[n - 1], s[n]) ELSE f[n - 1]]
           f == CHOOSE g : Eq(g)
<1>0. Len(s) \in Nat
  OBVIOUS
<1>1. PICK g : Loop(s, t, g)
  BY LoopExists
<1>2. Eq(g)
  <2>1. g \in [0 .. Len(s) -> Seq(MisbehaviorRecord)]
    BY <1>1 DEF Loop
  <2>2. \A n \in 0 .. Len(s) :
          g[n] = IF n = 0 THEN <<>>
                 ELSE IF s[n].at > t THEN Append(g[n - 1], s[n]) ELSE g[n - 1]
    <3>1. \A n \in 0 .. Len(s) : n = 0 \/ n \in 1 .. Len(s)
      BY <1>0
    <3>2. \A n \in 1 .. Len(s) : n # 0
      OBVIOUS
    <3> QED BY <1>1, <3>1, <3>2 DEF Loop
  <2> QED BY <2>1, <2>2
<1>3. Eq(f)
  BY <1>2
<1>4. NewRecords(s, t) = f[Len(s)]
  BY DEF NewRecords
<1> HIDE DEF f
<1>5. DOMAIN f = 0 .. Len(s) /\ f = [n \in 0 .. Len(s) |-> f[n]] /\ f[0] = <<>>
      /\ \A n \in 1 .. Len(s) :
           f[n] = IF s[n].at > t THEN Append(f[n - 1], s[n]) ELSE f[n - 1]
  <2> DEFINE e(n) == IF n = 0 THEN <<>>
                     ELSE IF s[n].at > t THEN Append(f[n - 1], s[n]) ELSE f[n - 1]
  <2>1. f = [n \in 0 .. Len(s) |-> e(n)]
    BY <1>3
  <2>2. 0 \in 0 .. Len(s) /\ \A n \in 1 .. Len(s) : n \in 0 .. Len(s) /\ n # 0
    BY <1>0
  <2>3. e(0) = <<>>
    OBVIOUS
  <2>4. \A n \in 1 .. Len(s) :
          e(n) = IF s[n].at > t THEN Append(f[n - 1], s[n]) ELSE f[n - 1]
    BY <2>2
  <2> HIDE DEF e
  <2>5. DOMAIN f = 0 .. Len(s) /\ \A n \in 0 .. Len(s) : f[n] = e(n)
    BY <2>1
  <2>6. f = [n \in 0 .. Len(s) |-> f[n]]
    BY <2>1, <2>5
  <2>7. \A n \in 1 .. Len(s) : f[n] = e(n)
    BY <2>2, <2>5
  <2>8. \A n \in 1 .. Len(s) :
          f[n] = IF s[n].at > t THEN Append(f[n - 1], s[n]) ELSE f[n - 1]
    BY <2>4, <2>7
  <2> QED BY <2>2, <2>3, <2>5, <2>6, <2>8
<1> HIDE DEF Eq
<1> DEFINE P == {n \in Nat : n <= Len(s) => f[n] \in Seq(MisbehaviorRecord)}
<1>6. 0 \in P
  BY <1>5
<1>7. ASSUME NEW n \in Nat, n \in P PROVE n + 1 \in P
  <2>1. SUFFICES ASSUME n + 1 <= Len(s) PROVE f[n + 1] \in Seq(MisbehaviorRecord)
    OBVIOUS
  <2>2. n + 1 \in 1 .. Len(s) /\ (n + 1) - 1 = n /\ n <= Len(s)
    BY <1>0, <2>1
  <2>3. s[n + 1] \in MisbehaviorRecord /\ f[n] \in Seq(MisbehaviorRecord)
    BY <1>7, <2>2
  <2>4. f[n + 1] = IF s[n + 1].at > t THEN Append(f[n], s[n + 1]) ELSE f[n]
    BY <1>5, <2>2
  <2> QED BY <2>3, <2>4
<1> HIDE DEF P
<1>8. \A n \in Nat : n \in P
  BY <1>6, <1>7, Induct
<1>9. \A n \in 0 .. Len(s) : f[n] \in Seq(MisbehaviorRecord)
  BY <1>0, <1>8 DEF P
<1>10. Loop(s, t, f)
  BY <1>5, <1>9 DEF Loop
<1> QED BY <1>4, <1>10

\* Nothing is kept of nothing.
LEMMA NewRecordsEmpty == ASSUME NEW t PROVE NewRecords(<<>>, t) = <<>>
<1>1. <<>> \in Seq(MisbehaviorRecord) /\ Len(<<>>) = 0
  OBVIOUS
<1> QED BY <1>1, NewRecordsLoop, ZenonT(40) DEF Loop

\* The last record is kept or not, whatever happened to the ones before.
LEMMA NewRecordsAppend ==
  ASSUME NEW s \in Seq(MisbehaviorRecord), NEW t, NEW r \in MisbehaviorRecord
  PROVE  /\ NewRecords(s, t) \in Seq(MisbehaviorRecord)
         /\ NewRecords(Append(s, r), t) =
              IF r.at > t THEN Append(NewRecords(s, t), r) ELSE NewRecords(s, t)
<1> DEFINE m == Len(s)
           u == Append(s, r)
<1>0. /\ m \in Nat /\ u \in Seq(MisbehaviorRecord) /\ Len(u) = m + 1 /\ u[m + 1] = r
      /\ \A n \in 1 .. m : u[n] = s[n]
  OBVIOUS
<1>1. PICK f : Loop(s, t, f) /\ NewRecords(s, t) = f[m]
  BY NewRecordsLoop
<1>2. PICK g : Loop(u, t, g) /\ NewRecords(u, t) = g[m + 1]
  BY <1>0, NewRecordsLoop
<1> HIDE DEF u
<1> DEFINE P == {n \in Nat : n <= m => g[n] = f[n]}
<1>3. 0 \in P
  BY <1>1, <1>2 DEF Loop
<1>4. ASSUME NEW n \in Nat, n \in P PROVE n + 1 \in P
  <2>1. SUFFICES ASSUME n + 1 <= m PROVE g[n + 1] = f[n + 1]
    OBVIOUS
  <2>2. n + 1 \in 1 .. m /\ n + 1 \in 1 .. Len(u) /\ (n + 1) - 1 = n /\ g[n] = f[n]
    BY <1>0, <1>4, <2>1
  <2>3. f[n + 1] = IF s[n + 1].at > t THEN Append(f[n], s[n + 1]) ELSE f[n]
    BY <1>1, <2>2 DEF Loop
  <2>4. g[n + 1] = IF u[n + 1].at > t THEN Append(g[n], u[n + 1]) ELSE g[n]
    BY <1>2, <2>2 DEF Loop
  <2> QED BY <1>0, <2>2, <2>3, <2>4
<1> HIDE DEF P
<1>5. g[m] = f[m]
  <2>1. m \in P
    BY <1>0, <1>3, <1>4, Induct
  <2> QED BY <1>0, <2>1 DEF P
<1>6. f[m] \in Seq(MisbehaviorRecord)
  BY <1>0, <1>1 DEF Loop
<1>7. g[m + 1] = IF u[m + 1].at > t THEN Append(g[m], u[m + 1]) ELSE g[m]
  <2>1. m + 1 \in 1 .. Len(u) /\ (m + 1) - 1 = m
    BY <1>0
  <2> QED BY <1>2, <2>1 DEF Loop
<1> QED BY <1>0, <1>1, <1>2, <1>5, <1>6, <1>7 DEF u

\* Two cleanups come to the one with the later cutoff.
LEMMA NewRecordsTwice ==
  ASSUME NEW s \in Seq(MisbehaviorRecord), NEW a \in Int, NEW b \in Int
  PROVE  NewRecords(NewRecords(s, a), b) = NewRecords(s, IF b > a THEN b ELSE a)
<1> DEFINE c == IF b > a THEN b ELSE a
           R == MisbehaviorRecord
           P == {n \in Nat : \A z \in Seq(R) :
                   Len(z) = n => NewRecords(NewRecords(z, a), b) = NewRecords(z, c)}
<1>1. 0 \in P
  <2>1. \A z \in Seq(R) : Len(z) = 0 => z = <<>>
    OBVIOUS
  <2> QED BY <2>1, NewRecordsEmpty
<1>2. ASSUME NEW n \in Nat, n \in P PROVE n + 1 \in P
  <2>1. SUFFICES ASSUME NEW z \in Seq(R), Len(z) = n + 1
                 PROVE  NewRecords(NewRecords(z, a), b) = NewRecords(z, c)
    OBVIOUS
  <2> DEFINE y == SubSeq(z, 1, n)
             r == z[n + 1]
  <2>2. y \in Seq(R) /\ Len(y) = n /\ r \in R /\ z = Append(y, r)
    BY <2>1
  <2>3. NewRecords(NewRecords(y, a), b) = NewRecords(y, c)
    BY <1>2, <2>2
  <2>4. r.at \in Int
    BY <2>2 DEF MisbehaviorRecord
  <2> HIDE DEF y, r
  <2>5. /\ NewRecords(y, a) \in Seq(R)
        /\ NewRecords(z, a) = IF r.at > a THEN Append(NewRecords(y, a), r) ELSE NewRecords(y, a)
        /\ NewRecords(z, c) = IF r.at > c THEN Append(NewRecords(y, c), r) ELSE NewRecords(y, c)
    BY <2>2, NewRecordsAppend
  <2> DEFINE k == NewRecords(y, a)
  <2> HIDE DEF k
  <2>6. NewRecords(Append(k, r), b) = IF r.at > b THEN Append(NewRecords(k, b), r)
                                                  ELSE NewRecords(k, b)
    BY <2>2, <2>5, NewRecordsAppend DEF k
  <2>7. r.at > c <=> (r.at > a /\ r.at > b)
    BY <2>4
  <2> HIDE DEF c
  <2>8. CASE r.at > a
    <3>1. NewRecords(z, a) = Append(k, r)
      BY <2>5, <2>8 DEF k
    <3>2. NewRecords(k, b) = NewRecords(y, c)
      BY <2>3 DEF k
    <3> QED BY <2>5, <2>6, <2>7, <2>8, <3>1, <3>2
  <2>9. CASE ~(r.at > a)
    BY <2>3, <2>5, <2>7, <2>9
  <2> QED BY <2>8, <2>9
<1> HIDE DEF P
<1>3. Len(s) \in P
  <2>1. Len(s) \in Nat
    OBVIOUS
  <2> QED BY <1>1, <1>2, <2>1, Induct
<1> QED BY <1>3 DEF P

\* A cutoff lies in the past, so that no record is older than the last one
\* when it is made.
HistoryInv ==
  /\ ExclusionInv
  /\ DOMAIN history = Ids
  /\ cutoff \in Int
  /\ cutoff < now
  /\ HistoryComplete

\* The invariant holds initially.
LEMMA InitHistoryInv == Init => HistoryInv
<1> SUFFICES ASSUME Init PROVE HistoryInv
  OBVIOUS
<1>1. HistoryComplete
  BY NewRecordsEmpty DEF Init, HistoryComplete
<1> QED BY <1>1, InitExclusionInv DEF Init, HistoryInv

\* HistoryInv is inductive.
LEMMA NextHistoryInv ==
  ASSUME HistoryInv, [Next]_vars PROVE HistoryInv'
<1>0. /\ ExclusionInv' /\ TrackerTypeOK /\ DOMAIN history = Ids
      /\ now \in Nat /\ cutoff \in Int /\ cutoff < now
      /\ \A i \in Ids : /\ log[i] \in Seq(MisbehaviorRecord)
                        /\ history[i] = NewRecords(log[i], cutoff)
  BY NextExclusionInv DEF HistoryInv, ExclusionInv, TrackerTypeOK, HistoryComplete
<1>1. ASSUME NEW i \in Ids, NEW type \in MisbehaviorType, RecordMisbehavior(i, type)
      PROVE  HistoryInv'
  <2> DEFINE r == [type |-> type, at |-> now]
  <2>1. r \in MisbehaviorRecord /\ r.at = now
    BY <1>0 DEF MisbehaviorRecord
  <2>2. /\ history' = [history EXCEPT ![i] = Append(history[i], r)]
        /\ log' = [log EXCEPT ![i] = Append(log[i], r)]
        /\ now' = now /\ cutoff' = cutoff
    BY <1>1 DEF RecordMisbehavior
  <2> HIDE DEF r
  <2>3. /\ history'[i] = Append(history[i], r) /\ log'[i] = Append(log[i], r)
        /\ DOMAIN history' = Ids
        /\ \A j \in Ids \ {i} : history'[j] = history[j] /\ log'[j] = log[j]
    <3>1. DOMAIN log = Ids
      BY <1>0 DEF TrackerTypeOK
    <3> QED BY <1>0, <2>2, <3>1
  <2>4. NewRecords(Append(log[i], r), cutoff) = Append(NewRecords(log[i], cutoff), r)
    BY <1>0, <2>1, NewRecordsAppend
  <2>5. \A j \in Ids : history'[j] = NewRecords(log'[j], cutoff')
    BY <1>0, <2>2, <2>3, <2>4
  <2> QED BY <1>0, <2>2, <2>3, <2>5 DEF HistoryInv, HistoryComplete
<1>2. ASSUME NEW maxAge \in MaxAges, CleanupOldRecords(maxAge)
      PROVE  HistoryInv'
  <2> DEFINE b == now - maxAge
  <2>1. maxAge \in Int /\ maxAge > 0
    BY <1>2, ReputationAssumptions DEF CleanupOldRecords
  <2>2. b \in Int /\ b < now
    BY <1>0, <2>1
  <2>3. /\ history' = [i \in Ids |-> NewRecords(history[i], b)]
        /\ cutoff' = IF b > cutoff THEN b ELSE cutoff
        /\ now' = now /\ log' = log
    BY <1>2 DEF CleanupOldRecords, Kept
  <2> HIDE DEF b
  <2>4. cutoff' \in Int /\ cutoff' < now'
    BY <1>0, <2>2, <2>3
  <2>5. \A j \in Ids : NewRecords(history[j], b) = NewRecords(log[j], cutoff')
    BY <1>0, <2>2, <2>3, NewRecordsTwice
  <2> QED BY <1>0, <2>3, <2>4, <2>5 DEF HistoryInv, HistoryComplete
<1>3. ASSUME history' = history, log' = log, cutoff' = cutoff, now' \in {now, now + 1}
      PROVE  HistoryInv'
  <2>1. cutoff' < now'
    BY <1>0, <1>3
  <2> QED BY <1>0, <1>3, <2>1 DEF HistoryInv, HistoryComplete
<1>4. CASE Tick
  BY <1>3, <1>4 DEF Tick
<1>5. ASSUME NEW i \in Ids, ExcludeParticipant(i) \/ ReinstateParticipant(i)
      PROVE  HistoryInv'
  BY <1>3, <1>5 DEF ExcludeParticipant, ReinstateParticipant
<1>6. CASE UNCHANGED vars
  BY <1>3, <1>6 DEF vars
<1> QED BY <1>1, <1>2, <1>4, <1>5, <1>6 DEF Next

\* Whatever sequence of cleanups pruned it, the history lacks no violation
\* later than the latest cutoff and keeps none that is not.
THEOREM HistoryIsComplete == Spec => []HistoryComplete
<1>1. HistoryInv => HistoryComplete
  BY DEF HistoryInv
<1> QED BY <1>1, InitHistoryInv, NextHistoryInv, PTL DEF Spec
=============================================================================
