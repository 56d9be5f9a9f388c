-------------------------- MODULE CoordinatorProofs --------------------------
(***************************************************************************)
(* Proofs about the signing coordinator, for every set of callers,         *)
(* participants, requests and configurations.                              *)
(***************************************************************************)
EXTENDS Coordinator, FiniteSetTheorems, TLAPS

-----------------------------------------------------------------------------
(* Lemmas about the reputation record and the helpers.                     *)

\* RecordMisbehavior keeps the entry well formed.
LEMMA RecordedType ==
  ASSUME NEW rep \in ParticipantReputation, NEW type \in MisbehaviorType
  PROVE  Recorded(rep, type) \in ParticipantReputation
<1> DEFINE n == rep.counts[type] + 1
           counted == [rep EXCEPT !.tracked = TRUE, !.counts[type] = n]
<1>1. n \in Nat
  BY DEF ParticipantReputation
<1>2. counted \in ParticipantReputation
  BY <1>1 DEF ParticipantReputation
<1>3. Excluded(counted, type) \in ParticipantReputation
  BY <1>2 DEF ParticipantReputation, Excluded, Reason
<1>4. QED
  BY <1>2, <1>3 DEF Recorded

\* ReinstateParticipant keeps the entry well formed.
LEMMA ReinstatedType ==
  ASSUME NEW rep \in ParticipantReputation
  PROVE  Reinstated(rep) \in ParticipantReputation
BY DEF ParticipantReputation, Reinstated, Reason

LEMMA UntrackedType == Untracked \in ParticipantReputation
BY DEF ParticipantReputation, Untracked, Reason

LEMMA NoFrameType == NoFrame \in Frame
<1>1. (CHOOSE m \in Msgs : TRUE) \in Msgs
  BY CoordinatorAssumptions
<1>2. <<>> \in Seq(Ids)
  OBVIOUS
<1>3. QED
  BY <1>1, <1>2 DEF NoFrame, Frame, Ops

\* Recording a misbehavior keeps the tracker well formed.
LEMMA BlameType ==
  ASSUME TypeOK, NEW id \in Ids, NEW type \in MisbehaviorType, Blame(id, type)
  PROVE  reputations' \in [Ids -> ParticipantReputation]
<1>1. reputations[id] \in ParticipantReputation
  BY DEF TypeOK
<1>2. Recorded(reputations[id], type) \in ParticipantReputation
  BY <1>1, RecordedType
<1>3. QED
  BY <1>2 DEF Blame, TypeOK

\* The callers' part of the type invariant.
CallersTypeOK ==
  /\ pc \in [Callers -> Labels]
  /\ frame \in [Callers -> Frame]
  /\ held \in [Callers -> Nat]
  /\ result \in [Callers -> Result]

\* The end of a call keeps the callers' state well formed.
LEMMA ReturnType ==
  ASSUME TypeOK, NEW c \in Callers, NEW err \in Errors,
         NEW shares \in SUBSET Share, Return(c, err, shares)
  PROVE  CallersTypeOK'
<1>1. pc' \in [Callers -> Labels]
  BY DEF Return, TypeOK, Labels
<1>2. frame' \in [Callers -> Frame]
  BY NoFrameType DEF Return, TypeOK
<1>3. held' \in [Callers -> Nat]
  BY DEF Return, TypeOK, NoNonce
<1>4. result' \in [Callers -> Result]
  <2> DEFINE r == [op |-> frame[c].op, err |-> err, list |-> frame[c].list,
                   shares |-> shares, clean |-> ~disturbed[c]]
  <2>1. frame[c] \in Frame /\ disturbed[c] \in BOOLEAN
    BY DEF TypeOK
  <2>2. r \in Result
    BY <2>1 DEF Frame, Result
  <2>3. QED
    BY <2>2 DEF Return, TypeOK
<1>5. QED
  BY <1>1, <1>2, <1>3, <1>4 DEF CallersTypeOK

LEMMA FailType ==
  ASSUME TypeOK, NEW c \in Callers, NEW err \in Errors, Fail(c, err)
  PROVE  CallersTypeOK'
<1>1. {} \in SUBSET Share
  OBVIOUS
<1>2. Return(c, err, {})
  BY DEF Fail
<1>3. QED
  BY <1>1, <1>2, ReturnType

\* Replacing the locals of one caller by well-formed ones.
LEMMA FrameUpdateType ==
  ASSUME TypeOK, NEW c \in Callers, NEW f \in Frame,
         frame' = [frame EXCEPT ![c] = f]
  PROVE  frame' \in [Callers -> Frame]
BY DEF TypeOK

\* An element of FirstOf is an element.
LEMMA FirstOfElement ==
  ASSUME NEW l, NEW a \in FirstOf(l) PROVE a \in l
BY DEF FirstOf

\* The commitment of an iteration of round two, and its share, are well formed.
LEMMA ShareOfType ==
  ASSUME TypeOK, NEW c \in Callers, NEW a \in FirstOf(frame[c].todo)
  PROVE  a \in Commitment /\ a.id \in Ids /\ ShareOf(c, a) \in Share
<1>1. frame[c] \in Frame /\ held[c] \in Nat
  BY DEF TypeOK
<1>2. a \in Commitment
  BY <1>1, FirstOfElement DEF Frame
<1>3. a.id \in Ids
  BY <1>2 DEF Commitment
<1>4. QED
  BY <1>1, <1>2, <1>3 DEF ShareOf, Share, Frame

-----------------------------------------------------------------------------
(* Type correctness.                                                       *)

LEMMA InitTypeOK == Init => TypeOK
<1> SUFFICES ASSUME Init PROVE TypeOK
  OBVIOUS
<1>1. config \in Config
  BY CoordinatorAssumptions DEF Init
<1>2. NoResult \in Result
  BY DEF NoResult, Result, Ops, Errors
<1>3. QED
  BY <1>1, <1>2, NoFrameType, UntrackedType
     DEF Init, TypeOK, EmptyMap, NoNonce, Labels

LEMMA NextTypeOK == TypeOK /\ [Next]_vars => TypeOK'
<1> SUFFICES ASSUME TypeOK, [Next]_vars PROVE TypeOK'
  OBVIOUS
<1>1. ASSUME NEW c \in Callers, NEW op \in {"Sign", "RequestCommitments"},
             NEW ids \in Requests, NEW m \in Msgs,
             BeginRoundOne(c, op, ids, m)
      PROVE  TypeOK'
  <2>1. ids \in Seq(Ids)
    BY CoordinatorAssumptions
  <2> DEFINE barred == {i \in Ids : config.tracker /\ IsExcluded(reputations[i])}
             f == [NoFrame EXCEPT !.op = op, !.ids = ids, !.msg = m,
                                  !.barred = barred]
  <2>2. f \in Frame
    BY <2>1, NoFrameType DEF Frame, Ops
  <2>3. frame' \in [Callers -> Frame]
    BY <1>1, <2>2 DEF BeginRoundOne, TypeOK
  <2>4. result' \in [Callers -> Result]
    <3> DEFINE r(e) == [op |-> op, err |-> e, list |-> {}, shares |-> {},
                        clean |-> TRUE]
    <3>1. r("groupPublicKey") \in Result /\ r("insufficient") \in Result
      BY DEF Result, Ops, Errors
    <3>2. QED
      BY <1>1, <3>1 DEF BeginRoundOne, TypeOK
  <2>5. pc' \in [Callers -> Labels]
    BY <1>1 DEF BeginRoundOne, TypeOK, Labels
  <2>6. disturbed' \in [Callers -> BOOLEAN]
    BY <1>1 DEF BeginRoundOne, TypeOK
  <2>7. QED
    BY <1>1, <2>3, <2>4, <2>5, <2>6 DEF BeginRoundOne, TypeOK
<1>2. ASSUME NEW c \in Callers, NEW l \in lists \cup ForeignLists,
             NEW m \in Msgs, BeginRoundTwo(c, l, m)
      PROVE  TypeOK'
  <2>1. l \in SUBSET Commitment
    BY CoordinatorAssumptions DEF TypeOK, Commitment, NoNonce
  <2> DEFINE f == [NoFrame EXCEPT !.op = "RequestSignatureShares", !.msg = m,
                                  !.list = l, !.todo = l]
             r == [op |-> "RequestSignatureShares", err |-> "invalid list",
                   list |-> l, shares |-> {}, clean |-> TRUE]
  <2>2. f \in Frame
    BY <2>1, NoFrameType DEF Frame, Ops
  <2>3. r \in Result
    BY <2>1 DEF Result, Ops, Errors
  <2>4. frame' \in [Callers -> Frame] /\ result' \in [Callers -> Result]
    BY <1>2, <2>2, <2>3 DEF BeginRoundTwo, TypeOK
  <2>5. pc' \in [Callers -> Labels]
    BY <1>2 DEF BeginRoundTwo, TypeOK, Labels
  <2>6. disturbed' \in [Callers -> BOOLEAN]
    BY <1>2 DEF BeginRoundTwo, TypeOK, Intact
  <2>7. /\ calls' = calls + 1
        /\ UNCHANGED <<config, noncesMap, reputations, lastNonce, held, lists,
                       issued>>
    BY <1>2 DEF BeginRoundTwo
  <2>8. QED
    BY <2>4, <2>5, <2>6, <2>7 DEF TypeOK
<1>3. ASSUME NEW id \in Ids, AuthenticationFails(id) PROVE TypeOK'
  <2>1. id \in Ids
    BY CoordinatorAssumptions
  <2>2. reputations' \in [Ids -> ParticipantReputation]
    BY <1>3, <2>1, BlameType DEF AuthenticationFails, MisbehaviorType
  <2>3. QED
    BY <1>3, <2>2 DEF AuthenticationFails, TypeOK
<1>4. ASSUME NEW id \in Ids, Reinstate(id) PROVE TypeOK'
  <2>1. reputations' \in [Ids -> ParticipantReputation]
    <3>1. Reinstated(reputations[id]) \in ParticipantReputation
      BY CoordinatorAssumptions, ReinstatedType DEF TypeOK
    <3>2. QED
      BY <1>4, <3>1 DEF Reinstate, TypeOK
  <2>2. frame' \in [Callers -> Frame]
    <3>1. ASSUME NEW c \in Callers
          PROVE  [frame[c] EXCEPT !.barred = @ \ {id}] \in Frame
      <4>1. frame[c] \in Frame
        BY DEF TypeOK
      <4>2. QED
        BY <4>1 DEF Frame
    <3>2. QED
      BY <1>4, <3>1 DEF Reinstate
  <2>3. QED
    BY <1>4, <2>1, <2>2 DEF Reinstate, TypeOK
<1>5. ASSUME NEW c \in Callers, CheckExcluded(c) PROVE TypeOK'
  <2>1. CASE Fail(c, "excluded")
    <3>1. CallersTypeOK'
      BY <2>1, FailType DEF Errors
    <3>2. QED
      BY <1>5, <3>1 DEF CheckExcluded, TypeOK, CallersTypeOK
  <2>2. CASE ~Fail(c, "excluded")
    <3>1. frame' \in [Callers -> Frame]
      <4> DEFINE f == [frame[c] EXCEPT !.k = IF AllChecked(frame[c])
                                               THEN 1 ELSE @ + 1]
      <4>1. frame[c] \in Frame
        BY DEF TypeOK
      <4>2. f \in Frame
        BY <4>1 DEF Frame
      <4>3. frame' = [frame EXCEPT ![c] = f]
        BY <1>5, <2>2, <4>1 DEF CheckExcluded, TypeOK
      <4>4. QED
        BY <4>2, <4>3, FrameUpdateType
    <3>2. pc' \in [Callers -> Labels]
      BY <1>5, <2>2 DEF CheckExcluded, TypeOK, Labels
    <3>3. QED
      BY <1>5, <2>2, <3>1, <3>2 DEF CheckExcluded, TypeOK
  <2>3. QED
    BY <2>1, <2>2
<1>6. ASSUME NEW c \in Callers, ResetNonces(c) PROVE TypeOK'
  BY <1>6 DEF ResetNonces, TypeOK, EmptyMap, NoNonce, Labels
<1>7. ASSUME NEW c \in Callers, CollectCommitment(c) PROVE TypeOK'
  <2> DEFINE id == frame[c].ids[frame[c].k]
             com == [id |-> id, nonce |-> lastNonce + 1]
  <2>1. id \in Participants /\ id \in Ids
    BY <1>7, CoordinatorAssumptions DEF CollectCommitment
  <2>2. com \in Commitment /\ lastNonce' \in Nat
    BY <1>7, <2>1 DEF Commitment, TypeOK, CollectCommitment
  <2>3. frame' \in [Callers -> Frame]
    <3> DEFINE f == [frame[c] EXCEPT !.list = @ \cup {com}, !.k = @ + 1]
    <3>1. frame[c] \in Frame
      BY DEF TypeOK
    <3>2. f \in Frame
      <4>1. /\ frame[c].list \cup {com} \in SUBSET Commitment
            /\ frame[c].k + 1 \in Nat
        BY <2>2, <3>1 DEF Frame
      <4> HIDE DEF com
      <4>2. QED
        BY <3>1, <4>1 DEF Frame
    <3>3. frame' = [frame EXCEPT ![c] = f]
      BY <1>7, <3>1 DEF CollectCommitment, TypeOK
    <3>4. QED
      BY <3>2, <3>3, FrameUpdateType
  <2>4. noncesMap' \in [Participants -> Nat]
    BY <1>7, <2>1 DEF CollectCommitment, WriteMap, Stored, TypeOK
  <2>5. pc' \in [Callers -> Labels] /\ disturbed' \in [Callers -> BOOLEAN]
    BY <1>7 DEF CollectCommitment, WriteMap, TypeOK, Labels
  <2>6. QED
    BY <1>7, <2>2, <2>3, <2>4, <2>5 DEF CollectCommitment, TypeOK
<1>8. ASSUME NEW c \in Callers, CollectUnknown(c) PROVE TypeOK'
  <2>1. CallersTypeOK'
    BY <1>8, FailType DEF CollectUnknown, Errors
  <2>2. QED
    BY <1>8, <2>1 DEF CollectUnknown, TypeOK, CallersTypeOK
<1>9. ASSUME NEW c \in Callers, CollectFails(c) PROVE TypeOK'
  <2>1. CallersTypeOK'
    BY <1>9, FailType DEF CollectFails, Errors
  <2>2. reputations' \in [Ids -> ParticipantReputation]
    BY <1>9, BlameType, CoordinatorAssumptions
       DEF CollectFails, MisbehaviorType
  <2>3. QED
    BY <1>9, <2>1, <2>2 DEF CollectFails, TypeOK, CallersTypeOK
<1>10. ASSUME NEW c \in Callers, ValidateCommitments(c) PROVE TypeOK'
  <2>1. frame[c] \in Frame /\ frame[c].list \in SUBSET Commitment
    BY DEF TypeOK, Frame
  <2>2. CASE Fail(c, "invalid list") /\ UNCHANGED lists
    <3>1. CallersTypeOK'
      BY <2>2, FailType DEF Errors
    <3>2. QED
      BY <1>10, <2>2, <3>1 DEF ValidateCommitments, TypeOK, CallersTypeOK
  <2>3. CASE /\ pc' = [pc EXCEPT ![c] = "take"]
             /\ frame' = [frame EXCEPT ![c].todo = frame[c].list]
             /\ UNCHANGED <<held, result, lists>>
    <3>1. frame' \in [Callers -> Frame]
      BY <2>1, <2>3 DEF TypeOK, Frame
    <3>2. pc' \in [Callers -> Labels]
      BY <2>3 DEF TypeOK, Labels
    <3>3. QED
      BY <1>10, <2>3, <3>1, <3>2 DEF ValidateCommitments, TypeOK
  <2>4. CASE Return(c, "none", {}) /\ lists' = lists \cup {frame[c].list}
    <3>1. CallersTypeOK'
      <4>1. {} \in SUBSET Share
        OBVIOUS
      <4>2. QED
        BY <2>4, <4>1, ReturnType DEF Errors
    <3>2. QED
      BY <1>10, <2>1, <2>4, <3>1 DEF ValidateCommitments, TypeOK, CallersTypeOK
  <2>5. QED
    BY <1>10, <2>2, <2>3, <2>4 DEF ValidateCommitments
<1>11. ASSUME NEW c \in Callers, TakeNonces(c) PROVE TypeOK'
  <2>1. PICK a \in FirstOf(frame[c].todo) :
          /\ a.id \in Participants
          /\ held' = [held EXCEPT ![c] = noncesMap[a.id]]
          /\ WriteMap(c, Deleted(a.id))
    BY <1>11 DEF TakeNonces
  <2>2. held' \in [Callers -> Nat] /\ noncesMap' \in [Participants -> Nat]
    BY <2>1 DEF TypeOK, WriteMap, Deleted, NoNonce
  <2>3. pc' \in [Callers -> Labels] /\ disturbed' \in [Callers -> BOOLEAN]
    BY <1>11, <2>1 DEF TakeNonces, WriteMap, TypeOK, Labels
  <2>4. QED
    BY <1>11, <2>2, <2>3 DEF TakeNonces, TypeOK
<1>12. ASSUME NEW c \in Callers, TakeFails(c) PROVE TypeOK'
  <2>1. Fail(c, "nonces not found") \/ Fail(c, "unknown participant")
    BY <1>12 DEF TakeFails
  <2>2. CallersTypeOK'
    BY <2>1, FailType DEF Errors
  <2>3. QED
    BY <1>12, <2>2 DEF TakeFails, TypeOK, CallersTypeOK
<1>13. ASSUME NEW c \in Callers, RoundTwo(c) PROVE TypeOK'
  <2>1. PICK a \in FirstOf(frame[c].todo) :
          /\ issued' = issued \cup {ShareOf(c, a)}
          /\ \/ Return(c, "none", frame[c].shares \cup {ShareOf(c, a)})
             \/ /\ pc' = [pc EXCEPT ![c] =
                           IF frame[c].todo = {a} THEN "aggregate" ELSE "take"]
                /\ frame' = [frame EXCEPT ![c].todo = @ \ {a},
                                ![c].shares = @ \cup {ShareOf(c, a)}]
                /\ held' = [held EXCEPT ![c] = NoNonce]
                /\ UNCHANGED result
    BY <1>13 DEF RoundTwo
  <2> DEFINE s == ShareOf(c, a)
  <2>2. s \in Share /\ frame[c] \in Frame /\ frame[c].shares \cup {s} \in SUBSET Share
    BY ShareOfType DEF TypeOK, Frame
  <2>3. issued' \subseteq Share
    BY <2>1, <2>2 DEF TypeOK
  <2> HIDE DEF s
  <2>4. CallersTypeOK'
    <3>1. CASE Return(c, "none", frame[c].shares \cup {s})
      BY <2>2, <3>1, ReturnType DEF Errors
    <3>2. CASE /\ pc' = [pc EXCEPT ![c] =
                         IF frame[c].todo = {a} THEN "aggregate" ELSE "take"]
               /\ frame' = [frame EXCEPT ![c].todo = @ \ {a},
                                         ![c].shares = @ \cup {s}]
               /\ held' = [held EXCEPT ![c] = NoNonce]
               /\ UNCHANGED result
      <4>1. frame' \in [Callers -> Frame]
        BY <2>2, <3>2 DEF TypeOK, Frame
      <4>2. pc' \in [Callers -> Labels] /\ held' \in [Callers -> Nat]
        BY <3>2 DEF TypeOK, Labels, NoNonce
      <4>3. QED
        BY <3>2, <4>1, <4>2 DEF TypeOK, CallersTypeOK
    <3>3. QED
      BY <2>1, <3>1, <3>2 DEF s
  <2>5. QED
    BY <1>13, <2>3, <2>4 DEF RoundTwo, TypeOK, CallersTypeOK
<1>14. ASSUME NEW c \in Callers, RoundTwoFails(c) PROVE TypeOK'
  <2>1. PICK a \in FirstOf(frame[c].todo) : Blame(a.id, "invalid_share")
    BY <1>14 DEF RoundTwoFails
  <2>2. reputations' \in [Ids -> ParticipantReputation]
    BY <2>1, ShareOfType, BlameType DEF MisbehaviorType
  <2>3. CallersTypeOK'
    BY <1>14, FailType DEF RoundTwoFails, Errors
  <2>4. QED
    BY <1>14, <2>2, <2>3 DEF RoundTwoFails, TypeOK, CallersTypeOK
<1>15. ASSUME NEW c \in Callers, Aggregate(c) PROVE TypeOK'
  <2>1. frame[c].shares \in SUBSET Share
    BY DEF TypeOK, Frame
  <2>2. Fail(c, "insufficient") \/ Return(c, "none", frame[c].shares)
    BY <1>15 DEF Aggregate
  <2>3. CallersTypeOK'
    BY <2>1, <2>2, FailType, ReturnType DEF Errors
  <2>4. QED
    BY <1>15, <2>3 DEF Aggregate, TypeOK, CallersTypeOK
<1>16. CASE UNCHANGED vars
  BY <1>16 DEF vars, TypeOK
<1>17. QED
  BY <1>1, <1>2, <1>3, <1>4, <1>5, <1>6, <1>7, <1>8, <1>9, <1>10, <1>11,
     <1>12, <1>13, <1>14, <1>15, <1>16
     DEF Next, Begin, Step

\* Every variable keeps its type: the maps, the callers' locals and the
\* results of every call of the coordinator are always well formed.
THEOREM TypeCorrect == Spec => []TypeOK
  BY InitTypeOK, NextTypeOK, PTL DEF Spec

-----------------------------------------------------------------------------
(* No nonce is used twice.                                                 *)
(*                                                                         *)
(* NonceUsedOnce is not inductive: it needs to know where the unused       *)
(* nonces are.  A nonce that some later RoundTwo may use is in exactly one *)
(* place, one map entry or the hands of one caller, and no share was made  *)
(* with it yet.                                                            *)

\* Every nonce was handed out by crypto/rand before.
NoncesBorn ==
  /\ \A i \in Participants : noncesMap[i] <= lastNonce
  /\ \A c \in Callers : held[c] <= lastNonce
  /\ \A s \in issued : s.nonce <= lastNonce

\* A caller about to run RoundTwo does have nonces.
RoundTwoHolds == \A c \in Callers : pc[c] = "round2" => held[c] # NoNonce

\* The places of unused nonces are disjoint.
NoncesApart ==
  /\ \A i, j \in Participants :
       noncesMap[i] = noncesMap[j] /\ noncesMap[i] # NoNonce => i = j
  /\ \A c, d \in Callers : held[c] = held[d] /\ held[c] # NoNonce => c = d
  /\ \A c \in Callers, i \in Participants :
       noncesMap[i] = held[c] => held[c] = NoNonce

\* A nonce a share was made with is in none of these places.
UsedIsGone ==
  \A s \in issued :
    /\ s.nonce # NoNonce
    /\ \A i \in Participants : noncesMap[i] # s.nonce
    /\ \A c \in Callers : held[c] # s.nonce

NonceInv ==
  NoncesBorn /\ RoundTwoHolds /\ NoncesApart /\ UsedIsGone /\ NonceUsedOnce

LEMMA InitNonceInv == Init => NonceInv
BY DEF Init, NonceInv, NoncesBorn, RoundTwoHolds, NoncesApart, UsedIsGone,
       NonceUsedOnce, EmptyMap, NoNonce

\* The five ways a step can touch the nonces.  No other caller enters
\* round two in any of them.
NoncesDropped ==
  /\ UNCHANGED <<noncesMap, lastNonce, issued>>
  /\ \A c \in Callers : held'[c] = held[c] \/ held'[c] = NoNonce
  /\ \A c \in Callers :
       pc'[c] = "round2" => pc[c] = "round2" /\ held'[c] = held[c]

MapCleared ==
  /\ noncesMap' = EmptyMap
  /\ UNCHANGED <<lastNonce, held, issued>>
  /\ \A c \in Callers : pc'[c] = "round2" => pc[c] = "round2"

NonceStored(i) ==
  /\ lastNonce' = lastNonce + 1
  /\ noncesMap' = [noncesMap EXCEPT ![i] = lastNonce + 1]
  /\ UNCHANGED <<held, issued>>
  /\ \A c \in Callers : pc'[c] = "round2" => pc[c] = "round2"

NonceTaken(c, i) ==
  /\ noncesMap[i] # NoNonce
  /\ held' = [held EXCEPT ![c] = noncesMap[i]]
  /\ noncesMap' = [noncesMap EXCEPT ![i] = NoNonce]
  /\ UNCHANGED <<lastNonce, issued>>
  /\ \A d \in Callers : pc'[d] = "round2" => d = c \/ pc[d] = "round2"

NonceSpent(c, s) ==
  /\ pc[c] = "round2"
  /\ s.nonce = held[c]
  /\ issued' = issued \cup {s}
  /\ held' = [held EXCEPT ![c] = NoNonce]
  /\ UNCHANGED <<noncesMap, lastNonce>>
  /\ \A d \in Callers : pc'[d] = "round2" => d # c /\ pc[d] = "round2"

NonceStep ==
  \/ NoncesDropped
  \/ MapCleared
  \/ \E i \in Participants : NonceStored(i)
  \/ \E c \in Callers, i \in Participants : NonceTaken(c, i)
  \/ \E c \in Callers, s \in Share : NonceSpent(c, s)

\* The end of a call drops what the caller held.
LEMMA ReturnDrops ==
  ASSUME TypeOK, NEW c \in Callers, NEW err, NEW shares, Return(c, err, shares),
         UNCHANGED <<noncesMap, lastNonce, issued>>
  PROVE  NoncesDropped
BY DEF Return, NoncesDropped, TypeOK, NoNonce

LEMMA FailDrops ==
  ASSUME TypeOK, NEW c \in Callers, NEW err, Fail(c, err),
         UNCHANGED <<noncesMap, lastNonce, issued>>
  PROVE  NoncesDropped
BY ReturnDrops DEF Fail

\* Every step of the coordinator is one of the five.
LEMMA StepsOfNonces ==
  ASSUME TypeOK, [Next]_vars PROVE NonceStep
<1>1. ASSUME NEW c \in Callers, NEW op \in {"Sign", "RequestCommitments"},
             NEW ids \in Requests, NEW m \in Msgs,
             BeginRoundOne(c, op, ids, m)
      PROVE  NoncesDropped
  <2>1. UNCHANGED <<noncesMap, lastNonce, issued, held>>
    BY <1>1 DEF BeginRoundOne
  <2>2. pc' = pc \/ pc' = [pc EXCEPT ![c] = "check"]
                 \/ pc' = [pc EXCEPT ![c] = "reset"]
    BY <1>1 DEF BeginRoundOne
  <2>3. QED
    BY <2>1, <2>2 DEF NoncesDropped, TypeOK
<1>2. ASSUME NEW c \in Callers, NEW l \in lists \cup ForeignLists,
             NEW m \in Msgs, BeginRoundTwo(c, l, m)
      PROVE  NoncesDropped
  <2>1. UNCHANGED <<noncesMap, lastNonce, issued, held>>
    BY <1>2 DEF BeginRoundTwo
  <2>2. pc' = pc \/ pc' = [pc EXCEPT ![c] = "take"]
    BY <1>2 DEF BeginRoundTwo
  <2>3. QED
    BY <2>1, <2>2 DEF NoncesDropped, TypeOK
<1>3. ASSUME NEW id \in Ids, AuthenticationFails(id)
      PROVE  NoncesDropped
  BY <1>3 DEF AuthenticationFails, NoncesDropped
<1>4. ASSUME NEW id \in Ids, Reinstate(id) PROVE NoncesDropped
  BY <1>4 DEF Reinstate, NoncesDropped
<1>5. ASSUME NEW c \in Callers, CheckExcluded(c) PROVE NoncesDropped
  <2>1. UNCHANGED <<noncesMap, lastNonce, issued>>
    BY <1>5 DEF CheckExcluded
  <2>2. CASE Fail(c, "excluded")
    BY <2>1, <2>2, FailDrops
  <2>3. CASE ~Fail(c, "excluded")
    <3>1. /\ held' = held
          /\ \/ pc' = [pc EXCEPT ![c] = "reset"]
             \/ pc' = [pc EXCEPT ![c] = "check"]
      BY <1>5, <2>3 DEF CheckExcluded
    <3>2. QED
      BY <2>1, <3>1 DEF NoncesDropped, TypeOK
  <2>4. QED
    BY <2>2, <2>3
<1>6. ASSUME NEW c \in Callers, ResetNonces(c) PROVE MapCleared
  BY <1>6 DEF ResetNonces, MapCleared, TypeOK
<1>7. ASSUME NEW c \in Callers, CollectCommitment(c)
      PROVE  \E i \in Participants : NonceStored(i)
  <2> DEFINE i == frame[c].ids[frame[c].k]
  <2>1. /\ i \in Participants
        /\ lastNonce' = lastNonce + 1
        /\ noncesMap' = [noncesMap EXCEPT ![i] = lastNonce + 1]
        /\ UNCHANGED <<held, issued>>
    BY <1>7 DEF CollectCommitment, WriteMap, Stored
  <2>2. \/ pc' = [pc EXCEPT ![c] = "validate"]
        \/ pc' = [pc EXCEPT ![c] = "collect"]
    BY <1>7 DEF CollectCommitment
  <2>3. NonceStored(i)
    BY <2>1, <2>2 DEF NonceStored, TypeOK
  <2>4. QED
    BY <2>1, <2>3
<1>8. ASSUME NEW c \in Callers, CollectUnknown(c) PROVE NoncesDropped
  BY <1>8, FailDrops DEF CollectUnknown
<1>9. ASSUME NEW c \in Callers, CollectFails(c) PROVE NoncesDropped
  BY <1>9, FailDrops DEF CollectFails
<1>10. ASSUME NEW c \in Callers, ValidateCommitments(c) PROVE NoncesDropped
  <2>1. UNCHANGED <<noncesMap, lastNonce, issued>>
    BY <1>10 DEF ValidateCommitments
  <2>2. \/ Fail(c, "invalid list")
        \/ Return(c, "none", {})
        \/ pc' = [pc EXCEPT ![c] = "take"] /\ held' = held
    BY <1>10 DEF ValidateCommitments
  <2>3. CASE pc' = [pc EXCEPT ![c] = "take"] /\ held' = held
    BY <2>1, <2>3 DEF NoncesDropped, TypeOK
  <2>4. QED
    BY <2>1, <2>2, <2>3, FailDrops, ReturnDrops
<1>11. ASSUME NEW c \in Callers, TakeNonces(c)
       PROVE  \E i \in Participants : NonceTaken(c, i)
  <2>1. PICK a \in FirstOf(frame[c].todo) :
          /\ a.id \in Participants
          /\ noncesMap[a.id] # NoNonce
          /\ held' = [held EXCEPT ![c] = noncesMap[a.id]]
          /\ WriteMap(c, Deleted(a.id))
    BY <1>11 DEF TakeNonces
  <2>2. NonceTaken(c, a.id)
    BY <1>11, <2>1 DEF TakeNonces, WriteMap, Deleted, NonceTaken, TypeOK
  <2>3. QED
    BY <2>1, <2>2
<1>12. ASSUME NEW c \in Callers, TakeFails(c) PROVE NoncesDropped
  <2>1. Fail(c, "nonces not found") \/ Fail(c, "unknown participant")
    BY <1>12 DEF TakeFails
  <2>2. QED
    BY <1>12, <2>1, FailDrops DEF TakeFails
<1>13. ASSUME NEW c \in Callers, RoundTwo(c)
       PROVE  \E s \in Share : NonceSpent(c, s)
  <2>1. PICK a \in FirstOf(frame[c].todo) :
          /\ issued' = issued \cup {ShareOf(c, a)}
          /\ \/ Return(c, "none", frame[c].shares \cup {ShareOf(c, a)})
             \/ /\ \/ pc' = [pc EXCEPT ![c] = "aggregate"]
                   \/ pc' = [pc EXCEPT ![c] = "take"]
                /\ held' = [held EXCEPT ![c] = NoNonce]
    BY <1>13 DEF RoundTwo
  <2>2. ShareOf(c, a) \in Share /\ ShareOf(c, a).nonce = held[c]
    BY ShareOfType DEF ShareOf
  <2>3. /\ held' = [held EXCEPT ![c] = NoNonce]
        /\ \A d \in Callers : pc'[d] = "round2" => d # c /\ pc[d] = "round2"
    BY <2>1 DEF Return, TypeOK
  <2>4. NonceSpent(c, ShareOf(c, a))
    BY <1>13, <2>1, <2>2, <2>3 DEF RoundTwo, NonceSpent
  <2>5. QED
    BY <2>2, <2>4
<1>14. ASSUME NEW c \in Callers, RoundTwoFails(c) PROVE NoncesDropped
  BY <1>14, FailDrops DEF RoundTwoFails
<1>15. ASSUME NEW c \in Callers, Aggregate(c) PROVE NoncesDropped
  <2>1. Fail(c, "insufficient") \/ Return(c, "none", frame[c].shares)
    BY <1>15 DEF Aggregate
  <2>2. QED
    BY <1>15, <2>1, FailDrops, ReturnDrops DEF Aggregate
<1>16. CASE UNCHANGED vars
  BY <1>16 DEF vars, NoncesDropped, NonceStep
<1>17. QED
  BY <1>1, <1>2, <1>3, <1>4, <1>5, <1>6, <1>7, <1>8, <1>9, <1>10, <1>11,
     <1>12, <1>13, <1>14, <1>15, <1>16
     DEF Next, Begin, Step, NonceStep

\* Each of the five keeps the invariant.
LEMMA NextNonceInv ==
  ASSUME TypeOK, NonceInv, [Next]_vars PROVE NonceInv'
<1> USE DEF NonceInv, NoNonce
<1>1. CASE NoncesDropped
  <2>1. NoncesBorn' /\ RoundTwoHolds'
    BY <1>1 DEF NoncesDropped, NoncesBorn, RoundTwoHolds, TypeOK
  <2>2. NoncesApart'
    BY <1>1 DEF NoncesDropped, NoncesApart
  <2>3. UsedIsGone' /\ NonceUsedOnce'
    BY <1>1 DEF NoncesDropped, UsedIsGone, NonceUsedOnce
  <2>4. QED
    BY <2>1, <2>2, <2>3
<1>2. CASE MapCleared
  <2>1. NoncesBorn' /\ RoundTwoHolds'
    BY <1>2 DEF MapCleared, NoncesBorn, RoundTwoHolds, TypeOK, EmptyMap
  <2>2. NoncesApart'
    BY <1>2 DEF MapCleared, NoncesApart, EmptyMap
  <2>3. UsedIsGone' /\ NonceUsedOnce'
    BY <1>2 DEF MapCleared, UsedIsGone, NonceUsedOnce, EmptyMap
  <2>4. QED
    BY <2>1, <2>2, <2>3
<1>3. ASSUME NEW i \in Participants, NonceStored(i) PROVE NonceInv'
  <2>1. NoncesBorn' /\ RoundTwoHolds'
    BY <1>3 DEF NonceStored, NoncesBorn, RoundTwoHolds, TypeOK, Share
  <2>2. NoncesApart'
    BY <1>3 DEF NonceStored, NoncesApart, NoncesBorn, TypeOK
  <2>3. UsedIsGone' /\ NonceUsedOnce'
    BY <1>3 DEF NonceStored, UsedIsGone, NonceUsedOnce, NoncesBorn, TypeOK,
                Share
  <2>4. QED
    BY <2>1, <2>2, <2>3
<1>4. ASSUME NEW c \in Callers, NEW i \in Participants, NonceTaken(c, i)
      PROVE  NonceInv'
  <2>1. NoncesBorn' /\ RoundTwoHolds'
    BY <1>4 DEF NonceTaken, NoncesBorn, RoundTwoHolds, TypeOK
  <2>2. NoncesApart'
    BY <1>4 DEF NonceTaken, NoncesApart, TypeOK
  <2>3. UsedIsGone' /\ NonceUsedOnce'
    BY <1>4 DEF NonceTaken, UsedIsGone, NonceUsedOnce, TypeOK
  <2>4. QED
    BY <2>1, <2>2, <2>3
<1>5. ASSUME NEW c \in Callers, NEW s \in Share, NonceSpent(c, s)
      PROVE  NonceInv'
  <2>1. NoncesBorn' /\ RoundTwoHolds'
    BY <1>5 DEF NonceSpent, NoncesBorn, RoundTwoHolds, TypeOK
  <2>2. NoncesApart'
    BY <1>5 DEF NonceSpent, NoncesApart, TypeOK
  <2>3. UsedIsGone' /\ NonceUsedOnce'
    <3>1. UsedIsGone'
      BY <1>5 DEF NonceSpent, UsedIsGone, NoncesApart, RoundTwoHolds, TypeOK
    <3>2. NonceUsedOnce'
      BY <1>5 DEF NonceSpent, UsedIsGone, NonceUsedOnce, TypeOK
    <3> QED BY <3>1, <3>2
  <2>4. QED
    BY <2>1, <2>2, <2>3
<1>6. QED
  BY <1>1, <1>2, <1>3, <1>4, <1>5, StepsOfNonces DEF NonceStep

\* No nonce is used for two signature shares, for any number of goroutines
\* that call Sign, RequestCommitments and RequestSignatureShares on one
\* coordinator in any order and with any lists.
THEOREM NonceSafety == Spec => []NonceUsedOnce
<1>1. Init => TypeOK /\ NonceInv
  BY InitTypeOK, InitNonceInv
<1>2. TypeOK /\ NonceInv /\ [Next]_vars => (TypeOK /\ NonceInv)'
  BY NextTypeOK, NextNonceInv
<1>3. NonceInv => NonceUsedOnce
  BY DEF NonceInv
<1>4. QED
  BY <1>1, <1>2, <1>3, PTL DEF Spec

-----------------------------------------------------------------------------
(* The coordinator implements the nonce ledger.                            *)

\* Dropping some live nonces is a step of the ledger.
LEMMA LoseStep ==
  ASSUME Live' \subseteq Live, UNCHANGED <<lastNonce, issued>>
  PROVE  Ledger!LedgerNext
<1> DEFINE lost == Live \ Live'
<1>1. lost \in SUBSET Live /\ Live' = Live \ lost
  OBVIOUS
<1>2. Ledger!Lose
  BY <1>1 DEF Ledger!Lose
<1>3. QED
  BY <1>2 DEF Ledger!LedgerNext

\* Each of the five ways to touch the nonces is a step of the ledger.
LEMMA LedgerStep ==
  ASSUME TypeOK, NonceInv, [Next]_vars PROVE Ledger!LedgerNext
<1> USE DEF NoNonce
<1>1. CASE NoncesDropped
  <2>1. Live' \subseteq Live
    BY <1>1 DEF NoncesDropped, Live
  <2>2. QED
    BY <1>1, <2>1, LoseStep DEF NoncesDropped
<1>2. CASE MapCleared
  <2>1. Live' \subseteq Live
    BY <1>2 DEF MapCleared, Live, EmptyMap
  <2>2. QED
    BY <1>2, <2>1, LoseStep DEF MapCleared
<1>3. ASSUME NEW i \in Participants, NonceStored(i) PROVE Ledger!LedgerNext
  <2> DEFINE lost == Live \ Live'
  <2>1. /\ noncesMap'[i] = lastNonce + 1
        /\ \A j \in Participants : j # i => noncesMap'[j] = noncesMap[j]
        /\ held' = held
        /\ lastNonce \in Nat
    BY <1>3 DEF NonceStored, TypeOK
  <2>2. Live' \subseteq Live \cup {lastNonce + 1} /\ lastNonce + 1 \in Live'
    BY <2>1 DEF Live
  <2>3. lost \in SUBSET Live /\ Live' = (Live \ lost) \cup {lastNonce + 1}
    BY <2>2
  <2>4. /\ lastNonce' = lastNonce + 1 /\ issued' = issued
        /\ {lastNonce + 1} = lastNonce + 1 .. lastNonce'
    BY <1>3, <2>1 DEF NonceStored
  <2>5. /\ lastNonce' \in Nat /\ lastNonce' > lastNonce
        /\ Live' = (Live \ lost) \cup (lastNonce + 1 .. lastNonce')
    BY <2>1, <2>3, <2>4
  <2>6. Ledger!Generate
    BY <2>3, <2>4, <2>5 DEF Ledger!Generate
  <2>7. QED
    BY <2>6 DEF Ledger!LedgerNext
<1>4. ASSUME NEW c \in Callers, NEW i \in Participants, NonceTaken(c, i)
      PROVE  Ledger!LedgerNext
  <2>1. /\ \A j \in Participants : noncesMap'[j] \in {noncesMap[j], 0}
        /\ \A d \in Callers : held'[d] \in {held[d], noncesMap[i]}
    BY <1>4 DEF NonceTaken, TypeOK
  <2>2. Live' \subseteq Live
    BY <2>1 DEF Live
  <2>3. QED
    BY <1>4, <2>2, LoseStep DEF NonceTaken
<1>5. ASSUME NEW c \in Callers, NEW s \in Share, NonceSpent(c, s)
      PROVE  Ledger!LedgerNext
  <2> DEFINE n == held[c]
  <2>1. n # 0 /\ n \in Live
    BY <1>5 DEF NonceSpent, NonceInv, RoundTwoHolds, Live
  <2>2. /\ noncesMap' = noncesMap
        /\ \A j \in Participants : noncesMap[j] # n
        /\ held'[c] = 0
        /\ \A d \in Callers : d # c => held'[d] = held[d] /\ held[d] # n
    BY <1>5, <2>1 DEF NonceSpent, NonceInv, NoncesApart, TypeOK
  <2>3. Live' = Live \ {n}
    BY <2>1, <2>2 DEF Live
  <2>4. /\ issued \subseteq issued'
        /\ \A x, y \in issued' \ issued : x = y /\ x.nonce = n
        /\ lastNonce' = lastNonce
    BY <1>5 DEF NonceSpent
  <2>5. Ledger!Spend
    BY <2>1, <2>3, <2>4 DEF Ledger!Spend
  <2>6. QED
    BY <2>5 DEF Ledger!LedgerNext
<1>6. QED
  BY <1>1, <1>2, <1>3, <1>4, <1>5, StepsOfNonces DEF NonceStep

\* The coordinator's map and its callers' nonces, taken together, are a
\* nonce ledger: every critical section, of any call, is a step of it.
THEOREM LedgerImplemented == Spec => ImplementsLedger
<1>1. Init => Ledger!LedgerInit
  <2> SUFFICES ASSUME Init PROVE Ledger!LedgerInit
    OBVIOUS
  <2>1. Live = {}
    BY DEF Init, Live, EmptyMap, NoNonce
  <2>2. QED
    BY <2>1 DEF Init, Ledger!LedgerInit
<1>2. Init => TypeOK /\ NonceInv
  BY InitTypeOK, InitNonceInv
<1>3. TypeOK /\ NonceInv /\ [Next]_vars => (TypeOK /\ NonceInv)'
  BY NextTypeOK, NextNonceInv
<1>4. TypeOK /\ NonceInv /\ [Next]_vars
        => [Ledger!LedgerNext]_(Ledger!ledgerVars)
  BY LedgerStep
<1>5. QED
  BY <1>1, <1>2, <1>3, <1>4, PTL DEF Spec, ImplementsLedger, Ledger!LedgerSpec

-----------------------------------------------------------------------------
(* Single calls, whatever the other goroutines do at the same time:        *)
(* excluded participants stay out, the threshold is respected, and a call  *)
(* nobody interfered with keeps its nonces.                                *)

(* The inductive invariants, per caller.                                   *)

\* Everyone the call is barred from is still excluded.
BarredExcluded(c) ==
  \A i \in frame[c].barred : config.tracker /\ IsExcluded(reputations[i])

\* The first n identifiers of the argument are not barred.
Admitted(f, n) == \A j \in 1..n : f.ids[j] \notin f.barred

\* How far the exclusion loop and the collection loop have come.
LoopsInRange(c) ==
  LET f == frame[c]
  IN  /\ pc[c] \in {"check", "reset", "collect"} => f.k \in 1..Len(f.ids)
      /\ pc[c] \in {"check", "reset"} => f.list = {}
      /\ pc[c] = "reset" => f.k = 1
      /\ pc[c] = "check" => Admitted(f, f.k - 1)
      /\ pc[c] \in {"reset", "collect"} => Admitted(f, Len(f.ids))

ExclusionInv ==
  /\ \A c \in Callers : BarredExcluded(c) /\ LoopsInRange(c)
  /\ ExcludedStaysOut

\* What a call of Sign has counted: a share for each commitment done with.
Counted(c) ==
  LET f == frame[c]
  IN  f.op = "Sign" =>
        /\ IsFiniteSet(f.list) /\ IsFiniteSet(f.todo) /\ IsFiniteSet(f.shares)
        /\ pc[c] \in {"check", "reset", "collect", "validate"} =>
             f.shares = {} /\ f.todo = {}
        /\ Cardinality(f.shares) + Cardinality(f.todo) <= Cardinality(f.list)
        /\ pc[c] = "aggregate" => Enough(f.list)

ThresholdInv == (\A c \in Callers : Counted(c)) /\ ThresholdRespected

\* The share of commitment a is there.
Answered(f, a) ==
  \E s \in f.shares : s.id = a.id /\ s.nonce = a.nonce /\ s.list = f.list

\* In a call nobody interfered with, the map holds the nonces of the
\* commitments collected (for an identifier named twice, of the last one),
\* then those of the commitments to do, but for the one being done.
KeepsNonces(c) ==
  LET f == frame[c]
  IN  ~disturbed[c] =>
        /\ pc[c] \in {"collect", "validate"} =>
             \A a \in f.list :
               /\ a.id \in Participants /\ a.nonce # NoNonce
               /\ [id |-> a.id, nonce |-> noncesMap[a.id]] \in f.list
        /\ pc[c] \in {"take", "round2"} => ValidList(f.list)
        /\ pc[c] = "take" => Intact(noncesMap, f.todo)
        /\ pc[c] = "round2" =>
             \A a \in FirstOf(f.todo) :
               held[c] = a.nonce /\ Intact(noncesMap, f.todo \ {a})
        /\ pc[c] = "aggregate" => f.todo = {}
        /\ pc[c] \in {"take", "round2", "aggregate"} =>
             f.todo \subseteq f.list /\ \A a \in f.list \ f.todo : Answered(f, a)

\* Before the map is reset there is no commitment yet.
NothingYet(c) == pc[c] \in {"check", "reset"} => frame[c].list = {}

CleanInv ==
  /\ \A c \in Callers : KeepsNonces(c) /\ NothingYet(c)
  /\ CleanCallsKeepNonces

-----------------------------------------------------------------------------
(* What each action does to the caller that takes it, field by field.      *)

\* Only the call of c moves.
OthersKeep(c) ==
  \A d \in Callers \ {c} :
    /\ pc'[d] = pc[d] /\ frame'[d] = frame[d]
    /\ held'[d] = held[d] /\ result'[d] = result[d]

\* The call of c is over.
Ended(c, err, shares) ==
  /\ OthersKeep(c)
  /\ pc'[c] = "idle"
  /\ frame'[c] = NoFrame
  /\ result'[c] = [op |-> frame[c].op, err |-> err, list |-> frame[c].list,
                   shares |-> shares, clean |-> ~disturbed[c]]

LEMMA NoFrameFields ==
  /\ NoFrame.op = "Sign" /\ NoFrame.ids = <<>> /\ NoFrame.k = 1
  /\ NoFrame.list = {} /\ NoFrame.todo = {} /\ NoFrame.shares = {}
  /\ NoFrame.barred = {}
BY DEF NoFrame

LEMMA ReturnEnds ==
  ASSUME TypeOK, NEW c \in Callers, NEW err, NEW shares, Return(c, err, shares)
  PROVE  Ended(c, err, shares)
BY DEF Return, Ended, OthersKeep, TypeOK

LEMMA FailEnds ==
  ASSUME TypeOK, NEW c \in Callers, NEW err, Fail(c, err)
  PROVE  Ended(c, err, {})
BY ReturnEnds DEF Fail

\* A call is refused before it has done anything.
Refused(c, op, err, l) ==
  /\ OthersKeep(c)
  /\ pc' = pc /\ frame' = frame
  /\ result'[c] = [op |-> op, err |-> err, list |-> l, shares |-> {},
                   clean |-> TRUE]

RoundOneBegun(c, op, ids) ==
  /\ OthersKeep(c)
  /\ pc'[c] = IF config.tracker THEN "check" ELSE "reset"
  /\ result' = result
  /\ ids # <<>>
  /\ frame'[c].op = op
  /\ frame'[c].ids = ids
  /\ frame'[c].k = 1
  /\ frame'[c].list = {}
  /\ frame'[c].todo = {}
  /\ frame'[c].shares = {}
  /\ frame'[c].barred = {i \in Ids : config.tracker
                                    /\ IsExcluded(reputations[i])}

LEMMA BeginRoundOneEffect ==
  ASSUME TypeOK, NEW c \in Callers, NEW op, NEW ids, NEW m,
         BeginRoundOne(c, op, ids, m)
  PROVE  /\ \/ \E err \in {"groupPublicKey", "insufficient"} :
                 Refused(c, op, err, {})
            \/ RoundOneBegun(c, op, ids)
         /\ disturbed' = [disturbed EXCEPT ![c] = FALSE]
         /\ UNCHANGED <<config, noncesMap, reputations, held>>
<1>1. /\ disturbed' = [disturbed EXCEPT ![c] = FALSE]
      /\ UNCHANGED <<config, noncesMap, reputations, held>>
  BY DEF BeginRoundOne
<1> DEFINE r(e) == [op |-> op, err |-> e, list |-> {}, shares |-> {},
                    clean |-> TRUE]
           barred == {i \in Ids : config.tracker /\ IsExcluded(reputations[i])}
           f == [NoFrame EXCEPT !.op = op, !.ids = ids, !.msg = m,
                                !.barred = barred]
<1>2. \/ /\ \/ result' = [result EXCEPT ![c] = r("groupPublicKey")]
            \/ result' = [result EXCEPT ![c] = r("insufficient")]
         /\ pc' = pc /\ frame' = frame
      \/ /\ ids # <<>>
         /\ pc' = [pc EXCEPT ![c] = IF config.tracker THEN "check" ELSE "reset"]
         /\ frame' = [frame EXCEPT ![c] = f]
         /\ result' = result
  BY DEF BeginRoundOne
<1>3. ASSUME NEW e, result' = [result EXCEPT ![c] = r(e)],
             pc' = pc /\ frame' = frame
      PROVE  Refused(c, op, e, {})
  BY <1>1, <1>3 DEF Refused, OthersKeep, TypeOK
<1>4. ASSUME ids # <<>>, result' = result,
             pc' = [pc EXCEPT ![c] = IF config.tracker THEN "check" ELSE "reset"],
             frame' = [frame EXCEPT ![c] = f]
      PROVE  RoundOneBegun(c, op, ids)
  <2>1. /\ f.op = op /\ f.ids = ids /\ f.k = 1 /\ f.list = {} /\ f.todo = {}
        /\ f.shares = {} /\ f.barred = barred
    BY DEF NoFrame
  <2>2. frame'[c] = f /\ OthersKeep(c)
    BY <1>1, <1>4 DEF OthersKeep, TypeOK
  <2> HIDE DEF f
  <2>3. QED
    BY <1>4, <2>1, <2>2 DEF RoundOneBegun, TypeOK
<1> HIDE DEF f, r
<1>5. QED
  BY <1>1, <1>2, <1>3, <1>4

RoundTwoBegun(c, l) ==
  /\ OthersKeep(c)
  /\ pc'[c] = "take"
  /\ result' = result
  /\ ValidList(l)
  /\ frame'[c].op = "RequestSignatureShares"
  /\ frame'[c].list = l
  /\ frame'[c].todo = l
  /\ frame'[c].shares = {}
  /\ frame'[c].barred = {}

LEMMA BeginRoundTwoEffect ==
  ASSUME TypeOK, NEW c \in Callers, NEW l, NEW m, BeginRoundTwo(c, l, m)
  PROVE  /\ \/ Refused(c, "RequestSignatureShares", "invalid list", l)
            \/ RoundTwoBegun(c, l)
         /\ disturbed' = [disturbed EXCEPT ![c] = ~Intact(noncesMap, l)]
         /\ UNCHANGED <<config, noncesMap, reputations, held>>
<1>1. /\ disturbed' = [disturbed EXCEPT ![c] = ~Intact(noncesMap, l)]
      /\ UNCHANGED <<config, noncesMap, reputations, held>>
  BY DEF BeginRoundTwo
<1> DEFINE f == [NoFrame EXCEPT !.op = "RequestSignatureShares", !.msg = m,
                                !.list = l, !.todo = l]
           r == [op |-> "RequestSignatureShares", err |-> "invalid list",
                 list |-> l, shares |-> {}, clean |-> TRUE]
<1>2. \/ result' = [result EXCEPT ![c] = r] /\ pc' = pc /\ frame' = frame
      \/ /\ ValidList(l)
         /\ pc' = [pc EXCEPT ![c] = "take"]
         /\ frame' = [frame EXCEPT ![c] = f]
         /\ result' = result
  BY DEF BeginRoundTwo
<1>3. ASSUME result' = [result EXCEPT ![c] = r], pc' = pc /\ frame' = frame
      PROVE  Refused(c, "RequestSignatureShares", "invalid list", l)
  BY <1>1, <1>3 DEF Refused, OthersKeep, TypeOK
<1>4. ASSUME ValidList(l), result' = result, pc' = [pc EXCEPT ![c] = "take"],
             frame' = [frame EXCEPT ![c] = f]
      PROVE  RoundTwoBegun(c, l)
  <2>1. /\ f.op = "RequestSignatureShares" /\ f.list = l /\ f.todo = l
        /\ f.shares = {} /\ f.barred = {}
    BY DEF NoFrame
  <2>2. frame'[c] = f /\ OthersKeep(c)
    BY <1>1, <1>4 DEF OthersKeep, TypeOK
  <2> HIDE DEF f
  <2>3. QED
    BY <1>4, <2>1, <2>2 DEF RoundTwoBegun, TypeOK
<1> HIDE DEF f, r
<1>5. QED
  BY <1>1, <1>2, <1>3, <1>4

\* The exclusion loop found the current identifier not excluded.
Checked(c) ==
  LET f == frame[c]
      done == f.k = Len(f.ids)
  IN  /\ OthersKeep(c)
      /\ result' = result
      /\ ~IsExcluded(reputations[f.ids[f.k]])
      /\ pc'[c] = IF done THEN "reset" ELSE "check"
      /\ frame'[c].k = IF done THEN 1 ELSE f.k + 1
      /\ frame'[c].op = f.op
      /\ frame'[c].ids = f.ids
      /\ frame'[c].list = f.list
      /\ frame'[c].todo = f.todo
      /\ frame'[c].shares = f.shares
      /\ frame'[c].barred = f.barred

LEMMA CheckExcludedEffect ==
  ASSUME TypeOK, NEW c \in Callers, CheckExcluded(c)
  PROVE  /\ pc[c] = "check"
         /\ Ended(c, "excluded", {}) \/ Checked(c)
         /\ UNCHANGED <<config, noncesMap, reputations, disturbed>>
<1>1. /\ pc[c] = "check"
      /\ UNCHANGED <<config, noncesMap, reputations, disturbed>>
  BY DEF CheckExcluded
<1> DEFINE f == [frame[c] EXCEPT !.k = IF frame[c].k = Len(frame[c].ids)
                                         THEN 1 ELSE @ + 1]
<1>2. CASE Fail(c, "excluded")
  BY <1>1, <1>2, FailEnds
<1>3. CASE ~Fail(c, "excluded")
  <2>1. frame[c] \in Frame
    BY DEF TypeOK
  <2>2. /\ ~IsExcluded(reputations[frame[c].ids[frame[c].k]])
        /\ pc' = [pc EXCEPT ![c] = IF frame[c].k = Len(frame[c].ids)
                                     THEN "reset" ELSE "check"]
        /\ frame' = [frame EXCEPT ![c] = f]
        /\ held' = held /\ result' = result
    BY <1>3, <2>1 DEF CheckExcluded, AllChecked, TypeOK
  <2>3. frame'[c] = f /\ OthersKeep(c)
    BY <2>2 DEF OthersKeep, TypeOK
  <2>4. /\ f.k = IF frame[c].k = Len(frame[c].ids) THEN 1 ELSE frame[c].k + 1
        /\ f.op = frame[c].op /\ f.ids = frame[c].ids /\ f.list = frame[c].list
        /\ f.todo = frame[c].todo /\ f.shares = frame[c].shares
        /\ f.barred = frame[c].barred
    BY <2>1 DEF Frame
  <2> HIDE DEF f
  <2>5. Checked(c)
    BY <2>2, <2>3, <2>4 DEF Checked, TypeOK
  <2>6. QED
    BY <1>1, <2>5
<1>4. QED
  BY <1>2, <1>3

\* A commitment was collected and its nonces stored.
Collected(c) ==
  LET f == frame[c]
      id == f.ids[f.k]
      n == lastNonce + 1
  IN  /\ OthersKeep(c)
      /\ result' = result
      /\ id \in Participants
      /\ noncesMap' = [noncesMap EXCEPT ![id] = n]
      /\ pc'[c] = IF f.k = Len(f.ids) THEN "validate" ELSE "collect"
      /\ frame'[c].list = f.list \cup {[id |-> id, nonce |-> n]}
      /\ frame'[c].k = f.k + 1
      /\ frame'[c].op = f.op
      /\ frame'[c].ids = f.ids
      /\ frame'[c].todo = f.todo
      /\ frame'[c].shares = f.shares
      /\ frame'[c].barred = f.barred

\* Writing the map disturbs the other calls in progress.
Disturbs(c) ==
  disturbed' = [d \in Callers |-> disturbed[d] \/ (d # c /\ pc[d] # "idle")]

LEMMA CollectEffect ==
  ASSUME TypeOK, NEW c \in Callers, CollectCommitment(c)
  PROVE  /\ pc[c] = "collect"
         /\ Collected(c)
         /\ Disturbs(c)
         /\ UNCHANGED <<config, reputations>>
<1> DEFINE id == frame[c].ids[frame[c].k]
           com == [id |-> id, nonce |-> lastNonce + 1]
           f == [frame[c] EXCEPT !.list = @ \cup {com}, !.k = @ + 1]
<1>1. /\ pc[c] = "collect" /\ id \in Participants
      /\ noncesMap' = [noncesMap EXCEPT ![id] = lastNonce + 1]
      /\ Disturbs(c)
      /\ UNCHANGED <<config, reputations, held, result>>
  BY DEF CollectCommitment, WriteMap, Stored, Disturbs
<1>2. frame[c] \in Frame
  BY DEF TypeOK
<1>3. /\ pc' = [pc EXCEPT ![c] = IF frame[c].k = Len(frame[c].ids)
                                   THEN "validate" ELSE "collect"]
      /\ frame' = [frame EXCEPT ![c] = f]
  BY <1>2 DEF CollectCommitment, TypeOK
<1>4. frame'[c] = f /\ OthersKeep(c)
  BY <1>1, <1>3 DEF OthersKeep, TypeOK
<1>5. /\ f.list = frame[c].list \cup {com} /\ f.k = frame[c].k + 1
      /\ f.op = frame[c].op /\ f.ids = frame[c].ids /\ f.todo = frame[c].todo
      /\ f.shares = frame[c].shares /\ f.barred = frame[c].barred
  BY <1>2 DEF Frame
<1> HIDE DEF f
<1>6. QED
  BY <1>1, <1>3, <1>4, <1>5 DEF Collected, TypeOK

\* The list was valid and Sign goes on with it.
Accepted(c) ==
  LET f == frame[c]
  IN  /\ OthersKeep(c)
      /\ result' = result
      /\ ValidList(f.list)
      /\ pc'[c] = "take"
      /\ frame'[c].todo = f.list
      /\ frame'[c].op = f.op
      /\ frame'[c].list = f.list
      /\ frame'[c].shares = f.shares
      /\ frame'[c].barred = f.barred

LEMMA ValidateEffect ==
  ASSUME TypeOK, NEW c \in Callers, ValidateCommitments(c)
  PROVE  /\ pc[c] = "validate"
         /\ \/ Ended(c, "invalid list", {})
            \/ Accepted(c)
            \/ frame[c].op = "RequestCommitments" /\ Ended(c, "none", {})
         /\ UNCHANGED <<config, noncesMap, reputations, disturbed>>
<1> DEFINE f == [frame[c] EXCEPT !.todo = frame[c].list]
<1>1. /\ pc[c] = "validate"
      /\ UNCHANGED <<config, noncesMap, reputations, disturbed>>
  BY DEF ValidateCommitments
<1>2. frame[c] \in Frame
  BY DEF TypeOK
<1>3. \/ Fail(c, "invalid list")
      \/ frame[c].op = "RequestCommitments" /\ Return(c, "none", {})
      \/ /\ ValidList(frame[c].list)
         /\ pc' = [pc EXCEPT ![c] = "take"]
         /\ frame' = [frame EXCEPT ![c] = f]
         /\ held' = held /\ result' = result
  BY <1>2 DEF ValidateCommitments, TypeOK
<1>4. ASSUME ValidList(frame[c].list), pc' = [pc EXCEPT ![c] = "take"],
             frame' = [frame EXCEPT ![c] = f], held' = held /\ result' = result
      PROVE  Accepted(c)
  <2>1. frame'[c] = f /\ OthersKeep(c)
    BY <1>4 DEF OthersKeep, TypeOK
  <2>2. /\ f.todo = frame[c].list /\ f.op = frame[c].op /\ f.list = frame[c].list
        /\ f.shares = frame[c].shares /\ f.barred = frame[c].barred
    BY <1>2 DEF Frame
  <2> HIDE DEF f
  <2>3. QED
    BY <1>4, <2>1, <2>2 DEF Accepted, TypeOK
<1> HIDE DEF f
<1>5. QED
  BY <1>1, <1>3, <1>4, ReturnEnds, FailEnds

\* The nonces of the first commitment to do were taken out of the map.
Took(c, a) ==
  /\ OthersKeep(c)
  /\ result' = result
  /\ a \in FirstOf(frame[c].todo)
  /\ a.id \in Participants
  /\ held'[c] = noncesMap[a.id]
  /\ noncesMap' = [noncesMap EXCEPT ![a.id] = NoNonce]
  /\ pc'[c] = "round2"
  /\ frame' = frame

LEMMA TakeEffect ==
  ASSUME TypeOK, NEW c \in Callers, TakeNonces(c)
  PROVE  /\ pc[c] = "take"
         /\ \E a \in FirstOf(frame[c].todo) : Took(c, a)
         /\ Disturbs(c)
         /\ UNCHANGED <<config, reputations>>
<1>1. PICK a \in FirstOf(frame[c].todo) :
        /\ a.id \in Participants
        /\ held' = [held EXCEPT ![c] = noncesMap[a.id]]
        /\ WriteMap(c, Deleted(a.id))
  BY DEF TakeNonces
<1>2. /\ pc[c] = "take" /\ pc' = [pc EXCEPT ![c] = "round2"]
      /\ UNCHANGED <<config, reputations, frame, result>>
  BY DEF TakeNonces
<1>3. OthersKeep(c)
  BY <1>1, <1>2 DEF OthersKeep, TypeOK
<1>4. Took(c, a)
  BY <1>1, <1>2, <1>3 DEF Took, WriteMap, Deleted, TypeOK
<1>5. QED
  BY <1>1, <1>2, <1>4 DEF WriteMap, Disturbs

LEMMA TakeFailsEffect ==
  ASSUME TypeOK, NEW c \in Callers, TakeFails(c)
  PROVE  /\ pc[c] = "take"
         /\ \/ Ended(c, "unknown participant", {})
            \/ /\ Ended(c, "nonces not found", {})
               /\ \E a \in FirstOf(frame[c].todo) :
                    a.id \in Participants /\ noncesMap[a.id] = NoNonce
         /\ UNCHANGED <<config, noncesMap, reputations, disturbed>>
<1>1. PICK a \in FirstOf(frame[c].todo) :
        /\ a.id \in Participants => noncesMap[a.id] = NoNonce
        /\ Fail(c, IF a.id \in Participants THEN "nonces not found"
                                            ELSE "unknown participant")
  BY DEF TakeFails, Missing
<1>2. CASE a.id \in Participants
  <2>1. Fail(c, "nonces not found")
    BY <1>1, <1>2
  <2>2. QED
    BY <1>1, <1>2, <2>1, FailEnds DEF TakeFails
<1>3. CASE a.id \notin Participants
  <2>1. Fail(c, "unknown participant")
    BY <1>1, <1>3
  <2>2. QED
    BY <2>1, FailEnds DEF TakeFails
<1>4. QED
  BY <1>2, <1>3

\* The share of commitment a was computed and the loop goes on, or Sign's
\* last step follows.
Made(c, a) ==
  LET f == frame[c]
  IN  /\ OthersKeep(c)
      /\ result' = result
      /\ pc'[c] = IF f.todo = {a} THEN "aggregate" ELSE "take"
      /\ frame'[c].todo = f.todo \ {a}
      /\ frame'[c].shares = f.shares \cup {ShareOf(c, a)}
      /\ frame'[c].op = f.op
      /\ frame'[c].list = f.list
      /\ frame'[c].barred = f.barred

LEMMA RoundTwoEffect ==
  ASSUME TypeOK, NEW c \in Callers, RoundTwo(c)
  PROVE  /\ pc[c] = "round2"
         /\ Enough(frame[c].list)
         /\ \E a \in FirstOf(frame[c].todo) :
              \/ Made(c, a)
              \/ /\ frame[c].op = "RequestSignatureShares"
                 /\ frame[c].todo = {a}
                 /\ Ended(c, "none", frame[c].shares \cup {ShareOf(c, a)})
         /\ UNCHANGED <<config, noncesMap, reputations, disturbed>>
<1>1. /\ pc[c] = "round2" /\ Enough(frame[c].list)
      /\ UNCHANGED <<config, noncesMap, reputations, disturbed>>
  BY DEF RoundTwo
<1>2. frame[c] \in Frame
  BY DEF TypeOK
<1>3. PICK a \in FirstOf(frame[c].todo) :
        \/ /\ frame[c].todo = {a} /\ frame[c].op = "RequestSignatureShares"
           /\ Return(c, "none", frame[c].shares \cup {ShareOf(c, a)})
        \/ /\ pc' = [pc EXCEPT ![c] =
                       IF frame[c].todo = {a} THEN "aggregate" ELSE "take"]
           /\ frame' = [frame EXCEPT ![c].todo = @ \ {a},
                                     ![c].shares = @ \cup {ShareOf(c, a)}]
           /\ held' = [held EXCEPT ![c] = NoNonce]
           /\ result' = result
  BY DEF RoundTwo
<1> DEFINE s == ShareOf(c, a)
           f == [frame[c] EXCEPT !.todo = @ \ {a}, !.shares = @ \cup {s}]
<1> HIDE DEF s
<1>4. ASSUME pc' = [pc EXCEPT ![c] =
                      IF frame[c].todo = {a} THEN "aggregate" ELSE "take"],
             frame' = [frame EXCEPT ![c].todo = @ \ {a}, ![c].shares = @ \cup {s}],
             held' = [held EXCEPT ![c] = NoNonce],
             result' = result
      PROVE  Made(c, a)
  <2>1. frame'[c] = f /\ OthersKeep(c)
    BY <1>2, <1>4 DEF OthersKeep, TypeOK
  <2>2. /\ f.todo = frame[c].todo \ {a} /\ f.shares = frame[c].shares \cup {s}
        /\ f.op = frame[c].op /\ f.list = frame[c].list
        /\ f.barred = frame[c].barred
    BY <1>2 DEF Frame
  <2> HIDE DEF f
  <2>3. QED
    BY <1>4, <2>1, <2>2 DEF Made, TypeOK, s
<1>5. QED
  BY <1>1, <1>3, <1>4, ReturnEnds DEF s

LEMMA AggregateEffect ==
  ASSUME TypeOK, NEW c \in Callers, Aggregate(c)
  PROVE  /\ pc[c] = "aggregate"
         /\ \/ Ended(c, "insufficient", {})
            \/ /\ ~(Cardinality(frame[c].shares) < config.aggMinSigners)
               /\ Ended(c, "none", frame[c].shares)
         /\ UNCHANGED <<config, noncesMap, reputations, disturbed>>
<1>1. \/ Fail(c, "insufficient")
      \/ /\ ~(Cardinality(frame[c].shares) < config.aggMinSigners)
         /\ Return(c, "none", frame[c].shares)
  BY DEF Aggregate
<1>2. QED
  BY <1>1, FailEnds, ReturnEnds DEF Aggregate

LEMMA ReinstateEffect ==
  ASSUME TypeOK, NEW id \in Ids, Reinstate(id)
  PROVE  /\ \A c \in Callers :
              /\ frame'[c].barred = frame[c].barred \ {id}
              /\ frame'[c].op = frame[c].op
              /\ frame'[c].ids = frame[c].ids
              /\ frame'[c].k = frame[c].k
              /\ frame'[c].list = frame[c].list
              /\ frame'[c].todo = frame[c].todo
              /\ frame'[c].shares = frame[c].shares
         /\ \A i \in Ids \ {id} : reputations'[i] = reputations[i]
         /\ UNCHANGED <<config, noncesMap, pc, held, result, disturbed>>
<1>1. ASSUME NEW c \in Callers
      PROVE  /\ frame'[c].barred = frame[c].barred \ {id}
             /\ frame'[c].op = frame[c].op
             /\ frame'[c].ids = frame[c].ids
             /\ frame'[c].k = frame[c].k
             /\ frame'[c].list = frame[c].list
             /\ frame'[c].todo = frame[c].todo
             /\ frame'[c].shares = frame[c].shares
  <2>1. frame[c] \in Frame /\ frame'[c] = [frame[c] EXCEPT !.barred = @ \ {id}]
    BY DEF Reinstate, TypeOK
  <2>2. QED
    BY <2>1 DEF Frame
<1>2. \A i \in Ids \ {id} : reputations'[i] = reputations[i]
  BY DEF Reinstate, TypeOK
<1>3. QED
  BY <1>1, <1>2 DEF Reinstate

-----------------------------------------------------------------------------
(* Excluded participants stay out.                                         *)

\* Nobody is reinstated by the step.
ExclusionsStay ==
  \A i \in Ids : IsExcluded(reputations[i]) => IsExcluded(reputations'[i])

\* A recorded misbehavior never ends an exclusion.
LEMMA RecordedKeepsExclusion ==
  ASSUME NEW rep \in ParticipantReputation, NEW type \in MisbehaviorType,
         IsExcluded(rep)
  PROVE  IsExcluded(Recorded(rep, type))
<1> DEFINE counted == [rep EXCEPT !.tracked = TRUE,
                                  !.counts[type] = rep.counts[type] + 1]
<1>1. counted.tracked /\ counted.excluded
  BY DEF ParticipantReputation, IsExcluded
<1>2. Recorded(rep, type) = counted
  BY <1>1 DEF Recorded, Excluded
<1>3. QED
  BY <1>1, <1>2 DEF IsExcluded

LEMMA BlameKeepsExclusions ==
  ASSUME TypeOK, NEW id \in Ids, NEW type \in MisbehaviorType, Blame(id, type)
  PROVE  ExclusionsStay
<1>1. reputations[id] \in ParticipantReputation
  BY DEF TypeOK
<1>2. IsExcluded(reputations[id]) => IsExcluded(Recorded(reputations[id], type))
  BY <1>1, RecordedKeepsExclusion
<1>3. QED
  BY <1>2 DEF Blame, ExclusionsStay, TypeOK

\* The invariant for one caller.
ExclusionOf(c) ==
  /\ BarredExcluded(c)
  /\ LoopsInRange(c)
  /\ \A a \in frame[c].list : a.id \notin frame[c].barred

\* Only the caller that moves needs a look.
LEMMA ExclusionByCaller ==
  ASSUME TypeOK, ExclusionInv, NEW c \in Callers, OthersKeep(c),
         config' = config, ExclusionsStay, ExclusionOf(c)'
  PROVE  ExclusionInv'
<1>1. ASSUME NEW d \in Callers, d # c PROVE ExclusionOf(d)'
  <2>1. pc'[d] = pc[d] /\ frame'[d] = frame[d] /\ frame[d] \in Frame
    BY <1>1 DEF OthersKeep, TypeOK
  <2>2. BarredExcluded(d)'
    BY <1>1, <2>1 DEF ExclusionInv, BarredExcluded, ExclusionsStay, Frame
  <2>3. LoopsInRange(d)'
    BY <1>1, <2>1 DEF ExclusionInv, LoopsInRange, Admitted
  <2>4. QED
    BY <1>1, <2>1, <2>2, <2>3 DEF ExclusionInv, ExcludedStaysOut, ExclusionOf
<1>2. \A d \in Callers : ExclusionOf(d)'
  BY <1>1
<1>3. QED
  BY <1>2 DEF ExclusionInv, ExclusionOf, ExcludedStaysOut

\* The end of a call leaves an empty frame.
LEMMA EndedExclusion ==
  ASSUME TypeOK, ExclusionInv, NEW c \in Callers, NEW err, NEW shares,
         Ended(c, err, shares), config' = config, ExclusionsStay
  PROVE  ExclusionInv'
<1>1. ExclusionOf(c)'
  BY NoFrameFields
     DEF Ended, ExclusionOf, BarredExcluded, LoopsInRange, Admitted
<1>2. QED
  BY <1>1, ExclusionByCaller DEF Ended

\* A call that is past its loops: its list and its bars are what they were.
LEMMA PastLoopsExclusion ==
  ASSUME TypeOK, ExclusionInv, NEW c \in Callers, OthersKeep(c),
         config' = config, ExclusionsStay,
         pc'[c] \notin {"check", "reset", "collect"},
         frame'[c].list = frame[c].list, frame'[c].barred = frame[c].barred
  PROVE  ExclusionInv'
<1>1. frame[c] \in Frame
  BY DEF TypeOK
<1>2. ExclusionOf(c)'
  BY <1>1 DEF ExclusionOf, BarredExcluded, LoopsInRange, Admitted, ExclusionInv,
              ExcludedStaysOut, ExclusionsStay, Frame
<1>3. QED
  BY <1>2, ExclusionByCaller

LEMMA InitExclusionInv == Init => ExclusionInv
BY NoFrameFields DEF Init, ExclusionInv, BarredExcluded, LoopsInRange, Admitted,
                     ExcludedStaysOut

LEMMA NextExclusionInv ==
  ASSUME TypeOK, ExclusionInv, [Next]_vars PROVE ExclusionInv'
<1>1. ASSUME NEW c \in Callers, NEW op \in {"Sign", "RequestCommitments"},
             NEW ids \in Requests, NEW m \in Msgs,
             BeginRoundOne(c, op, ids, m)
      PROVE  ExclusionInv'
  <2>1. ExclusionsStay /\ config' = config /\ reputations' = reputations
    BY <1>1 DEF BeginRoundOne, ExclusionsStay
  <2>2. CASE \E err \in {"groupPublicKey", "insufficient"} :
               Refused(c, op, err, {})
    <3>1. pc' = pc /\ frame' = frame
      BY <2>2 DEF Refused
    <3>2. QED
      BY <2>1, <3>1 DEF ExclusionInv, BarredExcluded, LoopsInRange, Admitted,
                        ExcludedStaysOut
  <2>3. CASE RoundOneBegun(c, op, ids)
    <3>1. ids \in Seq(Ids) /\ Len(ids) \in Nat /\ Len(ids) # 0
      BY <2>3, CoordinatorAssumptions DEF RoundOneBegun
    <3>2. BarredExcluded(c)'
      BY <2>1, <2>3 DEF RoundOneBegun, BarredExcluded
    <3>3. LoopsInRange(c)'
      <4>1. 1 \in 1..Len(ids)
        BY <3>1
      <4>2. Admitted(frame[c], 1 - 1)'
        BY DEF Admitted
      <4>3. ASSUME ~config.tracker PROVE Admitted(frame[c], Len(frame[c].ids))'
        BY <2>3, <4>3 DEF Admitted, RoundOneBegun
      <4>4. QED
        BY <2>3, <4>1, <4>2, <4>3 DEF LoopsInRange, RoundOneBegun
    <3>4. ExclusionOf(c)'
      BY <2>3, <3>2, <3>3 DEF RoundOneBegun, ExclusionOf
    <3>5. QED
      BY <2>1, <2>3, <3>4, ExclusionByCaller DEF RoundOneBegun
  <2>4. QED
    BY <1>1, <2>2, <2>3, BeginRoundOneEffect
<1>2. ASSUME NEW c \in Callers, NEW l \in lists \cup ForeignLists,
             NEW m \in Msgs, BeginRoundTwo(c, l, m)
      PROVE  ExclusionInv'
  <2>1. ExclusionsStay /\ config' = config /\ reputations' = reputations
    BY <1>2 DEF BeginRoundTwo, ExclusionsStay
  <2>2. CASE Refused(c, "RequestSignatureShares", "invalid list", l)
    <3>1. pc' = pc /\ frame' = frame
      BY <2>2 DEF Refused
    <3>2. QED
      BY <2>1, <3>1 DEF ExclusionInv, BarredExcluded, LoopsInRange, Admitted,
                        ExcludedStaysOut
  <2>3. CASE RoundTwoBegun(c, l)
    <3>1. ExclusionOf(c)'
      BY <2>3 DEF RoundTwoBegun, ExclusionOf, BarredExcluded, LoopsInRange
    <3>2. QED
      BY <2>1, <2>3, <3>1, ExclusionByCaller DEF RoundTwoBegun
  <2>4. QED
    BY <1>2, <2>2, <2>3, BeginRoundTwoEffect
<1>3. ASSUME NEW id \in Ids, AuthenticationFails(id) PROVE ExclusionInv'
  <2>1. ExclusionsStay
    BY <1>3, BlameKeepsExclusions DEF AuthenticationFails, MisbehaviorType
  <2>2. UNCHANGED <<config, pc, frame>>
    BY <1>3 DEF AuthenticationFails
  <2>3. \A c \in Callers : BarredExcluded(c)'
    BY <2>1, <2>2 DEF ExclusionInv, BarredExcluded, ExclusionsStay, TypeOK, Frame
  <2>4. QED
    BY <2>2, <2>3 DEF ExclusionInv, LoopsInRange, Admitted, ExcludedStaysOut
<1>4. ASSUME NEW id \in Ids, Reinstate(id) PROVE ExclusionInv'
  <2>1. ASSUME NEW c \in Callers PROVE ExclusionOf(c)'
    <3>1. /\ frame'[c].barred = frame[c].barred \ {id}
          /\ frame'[c].ids = frame[c].ids /\ frame'[c].k = frame[c].k
          /\ frame'[c].list = frame[c].list
          /\ frame[c].barred \subseteq Ids
          /\ \A i \in Ids \ {id} : reputations'[i] = reputations[i]
          /\ config' = config /\ pc' = pc
      BY <1>4, ReinstateEffect DEF TypeOK, Frame
    <3>2. BarredExcluded(c)'
      BY <3>1 DEF ExclusionInv, BarredExcluded
    <3>3. LoopsInRange(c)'
      BY <3>1 DEF ExclusionInv, LoopsInRange, Admitted
    <3>4. QED
      BY <3>1, <3>2, <3>3 DEF ExclusionOf, ExclusionInv, ExcludedStaysOut
  <2>2. QED
    BY <2>1 DEF ExclusionOf, ExclusionInv, ExcludedStaysOut
<1>5. ASSUME NEW c \in Callers, CheckExcluded(c) PROVE ExclusionInv'
  <2>1. /\ pc[c] = "check"
        /\ ExclusionsStay /\ config' = config /\ reputations' = reputations
    BY <1>5 DEF CheckExcluded, ExclusionsStay
  <2>2. CASE Ended(c, "excluded", {})
    BY <2>1, <2>2, EndedExclusion
  <2>3. CASE Checked(c)
    <3> DEFINE f == frame[c]
    <3>1. /\ f.ids \in Seq(Ids) /\ Len(f.ids) \in Nat /\ f.k \in Nat
          /\ f.k \in 1..Len(f.ids) /\ f.list = {}
          /\ \A j \in 1..f.k - 1 : f.ids[j] \notin f.barred
      BY <2>1 DEF TypeOK, Frame, ExclusionInv, LoopsInRange, Admitted
    <3>2. f.ids[f.k] \notin f.barred
      BY <2>1, <2>3 DEF ExclusionInv, BarredExcluded, Checked
    <3>3. \A j \in 1..f.k : f.ids[j] \notin f.barred
      BY <3>1, <3>2
    <3>4. BarredExcluded(c)'
      BY <2>1, <2>3 DEF ExclusionInv, BarredExcluded, Checked
    <3>5. CASE f.k = Len(f.ids)
      <4>1. /\ pc'[c] = "reset" /\ frame'[c].k = 1 /\ frame'[c].ids = f.ids
            /\ frame'[c].list = {} /\ frame'[c].barred = f.barred
        BY <2>3, <3>1, <3>5 DEF Checked
      <4>2. LoopsInRange(c)'
        BY <3>1, <3>3, <3>5, <4>1 DEF LoopsInRange, Admitted
      <4>3. QED
        BY <2>1, <2>3, <3>4, <4>1, <4>2, ExclusionByCaller
           DEF ExclusionOf, Checked
    <3>6. CASE f.k # Len(f.ids)
      <4>1. /\ pc'[c] = "check" /\ frame'[c].k = f.k + 1 /\ frame'[c].ids = f.ids
            /\ frame'[c].list = {} /\ frame'[c].barred = f.barred
        BY <2>3, <3>1, <3>6 DEF Checked
      <4>2. f.k + 1 \in 1..Len(f.ids) /\ (f.k + 1) - 1 = f.k
        BY <3>1, <3>6
      <4>3. LoopsInRange(c)'
        BY <3>1, <3>3, <4>1, <4>2 DEF LoopsInRange, Admitted
      <4>4. QED
        BY <2>1, <2>3, <3>4, <4>1, <4>3, ExclusionByCaller
           DEF ExclusionOf, Checked
    <3>7. QED
      BY <3>5, <3>6
  <2>4. QED
    BY <1>5, <2>2, <2>3, CheckExcludedEffect
<1>6. ASSUME NEW c \in Callers, ResetNonces(c) PROVE ExclusionInv'
  <2>1. /\ pc[c] = "reset" /\ pc'[c] = "collect"
        /\ \A d \in Callers \ {c} : pc'[d] = pc[d]
        /\ UNCHANGED <<config, reputations, frame, held, result>>
    BY <1>6 DEF ResetNonces, TypeOK
  <2>2. OthersKeep(c) /\ ExclusionsStay
    BY <2>1 DEF OthersKeep, ExclusionsStay
  <2>3. ExclusionOf(c)'
    BY <2>1 DEF ExclusionOf, ExclusionInv, BarredExcluded, LoopsInRange,
                Admitted, ExcludedStaysOut
  <2>4. QED
    BY <2>1, <2>2, <2>3, ExclusionByCaller
<1>7. ASSUME NEW c \in Callers, CollectCommitment(c) PROVE ExclusionInv'
  <2> DEFINE f == frame[c]
             com == [id |-> f.ids[f.k], nonce |-> lastNonce + 1]
  <2>1. /\ pc[c] = "collect" /\ Collected(c)
        /\ config' = config /\ reputations' = reputations
    BY <1>7, CollectEffect
  <2>2. ExclusionsStay
    BY <2>1 DEF ExclusionsStay
  <2>3. /\ f.k \in 1..Len(f.ids) /\ f.k \in Nat /\ Len(f.ids) \in Nat
        /\ \A j \in 1..Len(f.ids) : f.ids[j] \notin f.barred
    BY <2>1 DEF ExclusionInv, LoopsInRange, Admitted, TypeOK, Frame
  <2>4. /\ frame'[c].list = f.list \cup {com} /\ frame'[c].k = f.k + 1
        /\ frame'[c].ids = f.ids /\ frame'[c].barred = f.barred
        /\ pc'[c] = IF f.k = Len(f.ids) THEN "validate" ELSE "collect"
        /\ OthersKeep(c)
    BY <2>1 DEF Collected
  <2>5. BarredExcluded(c)'
    BY <2>1, <2>4 DEF ExclusionInv, BarredExcluded
  <2>6. LoopsInRange(c)'
    BY <2>3, <2>4 DEF LoopsInRange, Admitted
  <2>7. \A a \in frame'[c].list : a.id \notin frame'[c].barred
    BY <2>3, <2>4 DEF ExclusionInv, ExcludedStaysOut
  <2>8. QED
    BY <2>1, <2>2, <2>4, <2>5, <2>6, <2>7, ExclusionByCaller DEF ExclusionOf
<1>8. ASSUME NEW c \in Callers, CollectUnknown(c) PROVE ExclusionInv'
  <2>1. Ended(c, "unknown participant", {})
    BY <1>8, FailEnds DEF CollectUnknown
  <2>2. ExclusionsStay /\ config' = config
    BY <1>8 DEF CollectUnknown, ExclusionsStay
  <2>3. QED
    BY <2>1, <2>2, EndedExclusion
<1>9. ASSUME NEW c \in Callers, CollectFails(c) PROVE ExclusionInv'
  <2>1. Ended(c, "commitment failed", {})
    BY <1>9, FailEnds DEF CollectFails
  <2>2. ExclusionsStay /\ config' = config
    BY <1>9, BlameKeepsExclusions, CoordinatorAssumptions
       DEF CollectFails, MisbehaviorType
  <2>3. QED
    BY <2>1, <2>2, EndedExclusion
<1>10. ASSUME NEW c \in Callers, ValidateCommitments(c) PROVE ExclusionInv'
  <2>1. ExclusionsStay /\ config' = config
    BY <1>10 DEF ValidateCommitments, ExclusionsStay
  <2>2. CASE Accepted(c)
    BY <2>1, <2>2, PastLoopsExclusion DEF Accepted
  <2>3. CASE Ended(c, "invalid list", {}) \/ Ended(c, "none", {})
    BY <2>1, <2>3, EndedExclusion
  <2>4. QED
    BY <1>10, <2>2, <2>3, ValidateEffect
<1>11. ASSUME NEW c \in Callers, TakeNonces(c) PROVE ExclusionInv'
  <2>1. PICK a \in FirstOf(frame[c].todo) : Took(c, a)
    BY <1>11, TakeEffect
  <2>2. ExclusionsStay /\ config' = config
    BY <1>11, TakeEffect DEF ExclusionsStay
  <2>3. QED
    BY <2>1, <2>2, PastLoopsExclusion DEF Took
<1>12. ASSUME NEW c \in Callers, TakeFails(c) PROVE ExclusionInv'
  <2>1. Ended(c, "nonces not found", {}) \/ Ended(c, "unknown participant", {})
    BY <1>12, TakeFailsEffect
  <2>2. ExclusionsStay /\ config' = config
    BY <1>12 DEF TakeFails, ExclusionsStay
  <2>3. QED
    BY <2>1, <2>2, EndedExclusion
<1>13. ASSUME NEW c \in Callers, RoundTwo(c) PROVE ExclusionInv'
  <2>1. PICK a \in FirstOf(frame[c].todo) :
          \/ Made(c, a)
          \/ Ended(c, "none", frame[c].shares \cup {ShareOf(c, a)})
    BY <1>13, RoundTwoEffect
  <2>2. ExclusionsStay /\ config' = config
    BY <1>13 DEF RoundTwo, ExclusionsStay
  <2>3. CASE Made(c, a)
    BY <2>2, <2>3, PastLoopsExclusion DEF Made
  <2>4. QED
    BY <2>1, <2>2, <2>3, EndedExclusion
<1>14. ASSUME NEW c \in Callers, RoundTwoFails(c) PROVE ExclusionInv'
  <2>1. Ended(c, "share failed", {})
    BY <1>14, FailEnds DEF RoundTwoFails
  <2>2. ExclusionsStay /\ config' = config
    BY <1>14, BlameKeepsExclusions, ShareOfType
       DEF RoundTwoFails, MisbehaviorType
  <2>3. QED
    BY <2>1, <2>2, EndedExclusion
<1>15. ASSUME NEW c \in Callers, Aggregate(c) PROVE ExclusionInv'
  <2>1. Ended(c, "insufficient", {}) \/ Ended(c, "none", frame[c].shares)
    BY <1>15, AggregateEffect
  <2>2. ExclusionsStay /\ config' = config
    BY <1>15 DEF Aggregate, ExclusionsStay
  <2>3. QED
    BY <2>1, <2>2, EndedExclusion
<1>16. CASE UNCHANGED vars
  BY <1>16 DEF vars, ExclusionInv, BarredExcluded, LoopsInRange, Admitted,
               ExcludedStaysOut
<1>17. QED
  BY <1>1, <1>2, <1>3, <1>4, <1>5, <1>6, <1>7, <1>8, <1>9, <1>10, <1>11,
     <1>12, <1>13, <1>14, <1>15, <1>16
     DEF Next, Begin, Step

\* Whoever was excluded when a call of Sign or RequestCommitments began, and
\* was not reinstated since, has no commitment in the list of that call, for
\* any number of goroutines and any requests: the exclusion loop sees every
\* identifier before the first commitment is collected, and nothing but
\* ReinstateParticipant ends an exclusion.
THEOREM ExclusionSafety == Spec => []ExcludedStaysOut
<1>1. Init => TypeOK /\ ExclusionInv
  BY InitTypeOK, InitExclusionInv
<1>2. TypeOK /\ ExclusionInv /\ [Next]_vars => (TypeOK /\ ExclusionInv)'
  BY NextTypeOK, NextExclusionInv
<1>3. ExclusionInv => ExcludedStaysOut
  BY DEF ExclusionInv
<1>4. QED
  BY <1>1, <1>2, <1>3, PTL DEF Spec

-----------------------------------------------------------------------------
(* The threshold.                                                          *)

\* Threshold signers were asked for somewhere.
ThresholdSet ==
  config.minSigners >= Threshold \/ config.aggMinSigners >= Threshold

ThresholdOf(c) ==
  result[c].op = "Sign" /\ result[c].err = "none" /\ ThresholdSet
    => Cardinality(result[c].list) >= Threshold

\* A set with one more element has at most one more.
LEMMA AddedAtMostOne ==
  ASSUME NEW S, IsFiniteSet(S), NEW x
  PROVE  /\ IsFiniteSet(S \cup {x})
         /\ Cardinality(S \cup {x}) \in Nat /\ Cardinality(S) \in Nat
         /\ Cardinality(S \cup {x}) <= Cardinality(S) + 1
<1>1. Cardinality(S) \in Nat
  BY FS_CardinalityType
<1>2. /\ IsFiniteSet(S \cup {x})
      /\ \/ Cardinality(S \cup {x}) = Cardinality(S)
         \/ Cardinality(S \cup {x}) = Cardinality(S) + 1
  BY FS_AddElement
<1>3. QED
  BY <1>1, <1>2

\* Only the caller that moves needs a look.
LEMMA ThresholdByCaller ==
  ASSUME ThresholdInv, NEW c \in Callers, OthersKeep(c), config' = config,
         Counted(c)', ThresholdOf(c)'
  PROVE  ThresholdInv'
<1>1. ASSUME NEW d \in Callers, d # c PROVE Counted(d)' /\ ThresholdOf(d)'
  <2>1. pc'[d] = pc[d] /\ frame'[d] = frame[d] /\ result'[d] = result[d]
    BY <1>1 DEF OthersKeep
  <2>2. QED
    BY <2>1 DEF ThresholdInv, Counted, Enough, ThresholdRespected, ThresholdOf,
                ThresholdSet
<1>2. \A d \in Callers : Counted(d)' /\ ThresholdOf(d)'
  BY <1>1
<1>3. QED
  BY <1>2 DEF ThresholdInv, ThresholdRespected, ThresholdOf, ThresholdSet

\* An empty frame has counted nothing.
LEMMA NothingCounted ==
  IsFiniteSet({}) /\ Cardinality({}) = 0 /\ 0 + 0 <= 0
BY FS_EmptySet

\* A call ends: with an error, or with enough signers, or it was no Sign.
LEMMA EndedThreshold ==
  ASSUME ThresholdInv, NEW c \in Callers, NEW err, NEW shares,
         Ended(c, err, shares), config' = config,
         frame[c].op = "Sign" /\ err = "none" /\ ThresholdSet
           => Cardinality(frame[c].list) >= Threshold
  PROVE  ThresholdInv'
<1>1. Counted(c)'
  BY NoFrameFields, NothingCounted DEF Ended, Counted
<1>2. ThresholdOf(c)'
  BY DEF Ended, ThresholdOf, ThresholdSet
<1>3. QED
  BY <1>1, <1>2, ThresholdByCaller DEF Ended

\* A call that is refused at once returns an error.
LEMMA RefusedThreshold ==
  ASSUME ThresholdInv, NEW c \in Callers, NEW op, NEW err, NEW l, err # "none",
         Refused(c, op, err, l), config' = config
  PROVE  ThresholdInv'
<1>1. Counted(c)'
  BY DEF Refused, ThresholdInv, Counted, Enough
<1>2. ThresholdOf(c)'
  BY DEF Refused, ThresholdOf
<1>3. QED
  BY <1>1, <1>2, ThresholdByCaller DEF Refused

\* The result of a call in progress is the previous call's.
LEMMA SameResultThreshold ==
  ASSUME ThresholdInv, NEW c \in Callers, result' = result, config' = config
  PROVE  ThresholdOf(c)'
BY DEF ThresholdInv, ThresholdRespected, ThresholdOf, ThresholdSet

LEMMA InitThresholdInv == Init => ThresholdInv
<1> SUFFICES ASSUME Init PROVE ThresholdInv
  OBVIOUS
<1>1. ASSUME NEW c \in Callers PROVE Counted(c)
  BY NoFrameFields, NothingCounted DEF Init, Counted
<1>2. \A c \in Callers : result[c].err = "groupPublicKey"
  BY DEF Init, NoResult
<1>3. QED
  BY <1>1, <1>2 DEF ThresholdInv, ThresholdRespected

LEMMA NextThresholdInv ==
  ASSUME TypeOK, ThresholdInv, [Next]_vars PROVE ThresholdInv'
<1>1. ASSUME NEW c \in Callers, NEW op \in {"Sign", "RequestCommitments"},
             NEW ids \in Requests, NEW m \in Msgs,
             BeginRoundOne(c, op, ids, m)
      PROVE  ThresholdInv'
  <2>1. config' = config
    BY <1>1, BeginRoundOneEffect
  <2>2. CASE \E err \in {"groupPublicKey", "insufficient"} :
               Refused(c, op, err, {})
    BY <2>1, <2>2, RefusedThreshold
  <2>3. CASE RoundOneBegun(c, op, ids)
    <3>1. Counted(c)'
      BY <2>3, NothingCounted DEF RoundOneBegun, Counted
    <3>2. QED
      BY <2>1, <2>3, <3>1, SameResultThreshold, ThresholdByCaller
         DEF RoundOneBegun
  <2>4. QED
    BY <1>1, <2>2, <2>3, BeginRoundOneEffect
<1>2. ASSUME NEW c \in Callers, NEW l \in lists \cup ForeignLists,
             NEW m \in Msgs, BeginRoundTwo(c, l, m)
      PROVE  ThresholdInv'
  <2>1. config' = config
    BY <1>2, BeginRoundTwoEffect
  <2>2. CASE Refused(c, "RequestSignatureShares", "invalid list", l)
    BY <2>1, <2>2, RefusedThreshold
  <2>3. CASE RoundTwoBegun(c, l)
    <3>1. Counted(c)'
      BY <2>3 DEF RoundTwoBegun, Counted
    <3>2. QED
      BY <2>1, <2>3, <3>1, SameResultThreshold, ThresholdByCaller
         DEF RoundTwoBegun
  <2>4. QED
    BY <1>2, <2>2, <2>3, BeginRoundTwoEffect
<1>3. ASSUME NEW id \in Ids, AuthenticationFails(id) PROVE ThresholdInv'
  <2>1. UNCHANGED <<config, pc, frame, result>>
    BY <1>3 DEF AuthenticationFails
  <2>2. QED
    BY <2>1 DEF ThresholdInv, Counted, Enough, ThresholdRespected
<1>4. ASSUME NEW id \in Ids, Reinstate(id) PROVE ThresholdInv'
  <2>1. UNCHANGED <<config, pc, result>>
    BY <1>4 DEF Reinstate
  <2>2. ASSUME NEW c \in Callers PROVE Counted(c)'
    <3>1. /\ frame'[c].op = frame[c].op /\ frame'[c].list = frame[c].list
          /\ frame'[c].todo = frame[c].todo /\ frame'[c].shares = frame[c].shares
      BY <1>4, ReinstateEffect
    <3>2. QED
      BY <2>1, <3>1 DEF ThresholdInv, Counted, Enough
  <2>3. QED
    BY <2>1, <2>2 DEF ThresholdInv, ThresholdRespected
<1>5. ASSUME NEW c \in Callers, CheckExcluded(c) PROVE ThresholdInv'
  <2>1. config' = config /\ pc[c] = "check"
    BY <1>5, CheckExcludedEffect
  <2>2. CASE Ended(c, "excluded", {})
    BY <2>1, <2>2, EndedThreshold
  <2>3. CASE Checked(c)
    <3>1. /\ frame'[c].op = frame[c].op /\ frame'[c].list = frame[c].list
          /\ frame'[c].todo = frame[c].todo /\ frame'[c].shares = frame[c].shares
          /\ pc'[c] \in {"check", "reset"}
          /\ OthersKeep(c) /\ result' = result
      BY <2>3 DEF Checked
    <3>2. Counted(c)'
      BY <2>1, <3>1 DEF ThresholdInv, Counted
    <3>3. QED
      BY <2>1, <3>1, <3>2, SameResultThreshold, ThresholdByCaller
  <2>4. QED
    BY <1>5, <2>2, <2>3, CheckExcludedEffect
<1>6. ASSUME NEW c \in Callers, ResetNonces(c) PROVE ThresholdInv'
  <2>1. /\ pc[c] = "reset" /\ pc'[c] = "collect"
        /\ \A d \in Callers \ {c} : pc'[d] = pc[d]
        /\ UNCHANGED <<config, frame, held, result>>
    BY <1>6 DEF ResetNonces, TypeOK
  <2>2. OthersKeep(c)
    BY <2>1 DEF OthersKeep
  <2>3. Counted(c)'
    BY <2>1 DEF ThresholdInv, Counted
  <2>4. QED
    BY <2>1, <2>2, <2>3, SameResultThreshold, ThresholdByCaller
<1>7. ASSUME NEW c \in Callers, CollectCommitment(c) PROVE ThresholdInv'
  <2> DEFINE com == [id |-> frame[c].ids[frame[c].k], nonce |-> lastNonce + 1]
  <2>1. pc[c] = "collect" /\ config' = config /\ Collected(c)
    BY <1>7, CollectEffect
  <2>2. /\ frame'[c].op = frame[c].op
        /\ frame'[c].list = frame[c].list \cup {com}
        /\ frame'[c].todo = frame[c].todo /\ frame'[c].shares = frame[c].shares
        /\ pc'[c] \in {"collect", "validate"}
        /\ OthersKeep(c) /\ result' = result
    BY <2>1 DEF Collected
  <2> HIDE DEF com
  <2>3. Counted(c)'
    <3> SUFFICES ASSUME frame[c].op = "Sign" PROVE Counted(c)'
      BY <2>2 DEF Counted
    <3>1. /\ IsFiniteSet(frame[c].list)
          /\ frame[c].shares = {} /\ frame[c].todo = {}
      BY <2>1 DEF ThresholdInv, Counted
    <3>2. /\ IsFiniteSet(frame[c].list \cup {com})
          /\ Cardinality(frame[c].list \cup {com}) \in Nat
      BY <3>1, AddedAtMostOne
    <3>3. Cardinality({}) + Cardinality({}) <= Cardinality(frame[c].list \cup {com})
      BY <3>2, NothingCounted
    <3>4. QED
      BY <2>2, <3>1, <3>2, <3>3, NothingCounted DEF Counted
  <2>4. QED
    BY <2>1, <2>2, <2>3, SameResultThreshold, ThresholdByCaller
<1>8. ASSUME NEW c \in Callers, CollectUnknown(c) PROVE ThresholdInv'
  <2>1. Ended(c, "unknown participant", {}) /\ config' = config
    BY <1>8, FailEnds DEF CollectUnknown
  <2>2. QED
    BY <2>1, EndedThreshold
<1>9. ASSUME NEW c \in Callers, CollectFails(c) PROVE ThresholdInv'
  <2>1. Ended(c, "commitment failed", {}) /\ config' = config
    BY <1>9, FailEnds DEF CollectFails
  <2>2. QED
    BY <2>1, EndedThreshold
<1>10. ASSUME NEW c \in Callers, ValidateCommitments(c) PROVE ThresholdInv'
  <2>1. pc[c] = "validate" /\ config' = config
    BY <1>10, ValidateEffect
  <2>2. CASE Accepted(c)
    <3>1. /\ frame'[c].op = frame[c].op /\ frame'[c].list = frame[c].list
          /\ frame'[c].todo = frame[c].list /\ frame'[c].shares = frame[c].shares
          /\ pc'[c] = "take" /\ OthersKeep(c) /\ result' = result
      BY <2>2 DEF Accepted
    <3>2. Counted(c)'
      <4> SUFFICES ASSUME frame[c].op = "Sign" PROVE Counted(c)'
        BY <3>1 DEF Counted
      <4>1. IsFiniteSet(frame[c].list) /\ frame[c].shares = {}
        BY <2>1 DEF ThresholdInv, Counted
      <4>2. Cardinality({}) + Cardinality(frame[c].list)
              <= Cardinality(frame[c].list)
        BY <4>1, NothingCounted, FS_CardinalityType
      <4>3. QED
        BY <3>1, <4>1, <4>2, NothingCounted DEF Counted
    <3>3. QED
      BY <2>1, <3>1, <3>2, SameResultThreshold, ThresholdByCaller
  <2>3. CASE Ended(c, "invalid list", {})
    BY <2>1, <2>3, EndedThreshold
  <2>4. CASE frame[c].op = "RequestCommitments" /\ Ended(c, "none", {})
    BY <2>1, <2>4, EndedThreshold
  <2>5. QED
    BY <1>10, <2>2, <2>3, <2>4, ValidateEffect
<1>11. ASSUME NEW c \in Callers, TakeNonces(c) PROVE ThresholdInv'
  <2>1. PICK a \in FirstOf(frame[c].todo) : Took(c, a)
    BY <1>11, TakeEffect
  <2>2. config' = config /\ pc[c] = "take"
    BY <1>11, TakeEffect
  <2>3. Counted(c)'
    BY <2>1, <2>2 DEF Took, ThresholdInv, Counted
  <2>4. QED
    BY <2>1, <2>2, <2>3, SameResultThreshold, ThresholdByCaller DEF Took
<1>12. ASSUME NEW c \in Callers, TakeFails(c) PROVE ThresholdInv'
  <2>1. Ended(c, "nonces not found", {}) \/ Ended(c, "unknown participant", {})
    BY <1>12, TakeFailsEffect
  <2>2. config' = config
    BY <1>12, TakeFailsEffect
  <2>3. QED
    BY <2>1, <2>2, EndedThreshold
<1>13. ASSUME NEW c \in Callers, RoundTwo(c) PROVE ThresholdInv'
  <2>1. PICK a \in FirstOf(frame[c].todo) :
          \/ Made(c, a)
          \/ /\ frame[c].op = "RequestSignatureShares"
             /\ Ended(c, "none", frame[c].shares \cup {ShareOf(c, a)})
    BY <1>13, RoundTwoEffect
  <2>2. config' = config /\ pc[c] = "round2" /\ Enough(frame[c].list)
    BY <1>13, RoundTwoEffect
  <2> DEFINE s == ShareOf(c, a)
  <2>3. CASE Made(c, a)
    <3>1. /\ frame'[c].op = frame[c].op /\ frame'[c].list = frame[c].list
          /\ frame'[c].todo = frame[c].todo \ {a}
          /\ frame'[c].shares = frame[c].shares \cup {s}
          /\ pc'[c] \in {"take", "aggregate"}
          /\ OthersKeep(c) /\ result' = result
      BY <2>3 DEF Made
    <3> HIDE DEF s
    <3>2. Counted(c)'
      <4> SUFFICES ASSUME frame[c].op = "Sign" PROVE Counted(c)'
        BY <3>1 DEF Counted
      <4>1. /\ IsFiniteSet(frame[c].list) /\ IsFiniteSet(frame[c].todo)
            /\ IsFiniteSet(frame[c].shares)
            /\ Cardinality(frame[c].shares) + Cardinality(frame[c].todo)
                 <= Cardinality(frame[c].list)
        BY DEF ThresholdInv, Counted
      <4>2. /\ IsFiniteSet(frame[c].shares \cup {s})
            /\ Cardinality(frame[c].shares \cup {s}) \in Nat
            /\ Cardinality(frame[c].shares) \in Nat
            /\ Cardinality(frame[c].shares \cup {s})
                 <= Cardinality(frame[c].shares) + 1
        BY <4>1, AddedAtMostOne
      <4>3. /\ IsFiniteSet(frame[c].todo \ {a})
            /\ Cardinality(frame[c].todo \ {a}) = Cardinality(frame[c].todo) - 1
        BY <4>1, FirstOfElement, FS_RemoveElement
      <4>4. /\ Cardinality(frame[c].todo) \in Nat
            /\ Cardinality(frame[c].list) \in Nat
        BY <4>1, FS_CardinalityType
      <4>5. Cardinality(frame[c].shares \cup {s}) + Cardinality(frame[c].todo \ {a})
              <= Cardinality(frame[c].list)
        BY <4>1, <4>2, <4>3, <4>4
      <4>6. Enough(frame[c].list)'
        BY <2>2, <3>1 DEF Enough
      <4>7. QED
        BY <3>1, <4>1, <4>2, <4>3, <4>5, <4>6 DEF Counted
    <3>3. QED
      BY <2>2, <3>1, <3>2, SameResultThreshold, ThresholdByCaller
  <2>4. QED
    BY <2>1, <2>2, <2>3, EndedThreshold
<1>14. ASSUME NEW c \in Callers, RoundTwoFails(c) PROVE ThresholdInv'
  <2>1. Ended(c, "share failed", {}) /\ config' = config
    BY <1>14, FailEnds DEF RoundTwoFails
  <2>2. QED
    BY <2>1, EndedThreshold
<1>15. ASSUME NEW c \in Callers, Aggregate(c) PROVE ThresholdInv'
  <2>1. pc[c] = "aggregate" /\ config' = config
    BY <1>15, AggregateEffect
  <2>2. CASE Ended(c, "insufficient", {})
    BY <2>1, <2>2, EndedThreshold
  <2>3. CASE /\ ~(Cardinality(frame[c].shares) < config.aggMinSigners)
             /\ Ended(c, "none", frame[c].shares)
    <3>1. ASSUME frame[c].op = "Sign", ThresholdSet
          PROVE  Cardinality(frame[c].list) >= Threshold
      <4>1. /\ IsFiniteSet(frame[c].list) /\ IsFiniteSet(frame[c].todo)
            /\ IsFiniteSet(frame[c].shares) /\ Enough(frame[c].list)
            /\ Cardinality(frame[c].shares) + Cardinality(frame[c].todo)
                 <= Cardinality(frame[c].list)
        BY <2>1, <3>1 DEF ThresholdInv, Counted
      <4>2. /\ Cardinality(frame[c].shares) \in Nat
            /\ Cardinality(frame[c].todo) \in Nat
            /\ Cardinality(frame[c].list) \in Nat
        BY <4>1, FS_CardinalityType
      <4>3. config.minSigners \in Nat /\ config.aggMinSigners \in Nat
        BY DEF TypeOK, Config
      <4>4. CASE config.minSigners >= Threshold
        BY <4>1, <4>2, <4>3, <4>4, CoordinatorAssumptions DEF Enough
      <4>5. CASE config.aggMinSigners >= Threshold
        BY <2>3, <4>1, <4>2, <4>3, <4>5, CoordinatorAssumptions
      <4>6. QED
        BY <3>1, <4>4, <4>5 DEF ThresholdSet
    <3>2. QED
      BY <2>1, <2>3, <3>1, EndedThreshold
  <2>4. QED
    BY <1>15, <2>2, <2>3, AggregateEffect
<1>16. CASE UNCHANGED vars
  BY <1>16 DEF vars, ThresholdInv, Counted, Enough, ThresholdRespected
<1>17. QED
  BY <1>1, <1>2, <1>3, <1>4, <1>5, <1>6, <1>7, <1>8, <1>9, <1>10, <1>11,
     <1>12, <1>13, <1>14, <1>15, <1>16
     DEF Next, Begin, Step

\* Every signature Sign returns has at least Threshold signers as soon as the
\* key packages or the aggregator know the threshold, although either may
\* have it switched off: RoundTwo refuses a list that is too short, and the
\* aggregator has at most one share for each commitment of the list.
THEOREM ThresholdSafety == Spec => []ThresholdRespected
<1>1. Init => TypeOK /\ ThresholdInv
  BY InitTypeOK, InitThresholdInv
<1>2. TypeOK /\ ThresholdInv /\ [Next]_vars => (TypeOK /\ ThresholdInv)'
  BY NextTypeOK, NextThresholdInv
<1>3. ThresholdInv => ThresholdRespected
  BY DEF ThresholdInv
<1>4. QED
  BY <1>1, <1>2, <1>3, PTL DEF Spec

-----------------------------------------------------------------------------
(* Calls nobody interfered with.                                           *)

CleanResult(c) ==
  result[c].clean /\ result[c].op # "RequestCommitments" =>
    /\ result[c].err # "nonces not found"
    /\ result[c].err = "none" => SharesMatch(result[c])

CleanOf(c) == KeepsNonces(c) /\ NothingYet(c) /\ CleanResult(c)

\* Another call is left alone, or is marked as disturbed.
LeavesAlone(d) ==
  \/ noncesMap' = noncesMap /\ disturbed'[d] = disturbed[d]
  \/ pc[d] # "idle" => disturbed'[d]

LEMMA CleanByCaller ==
  ASSUME TypeOK, CleanInv, NEW c \in Callers, OthersKeep(c),
         \A d \in Callers \ {c} : LeavesAlone(d), CleanOf(c)'
  PROVE  CleanInv'
<1>1. ASSUME NEW d \in Callers, d # c PROVE CleanOf(d)'
  <2>1. /\ pc'[d] = pc[d] /\ frame'[d] = frame[d] /\ held'[d] = held[d]
        /\ result'[d] = result[d] /\ LeavesAlone(d)
    BY <1>1 DEF OthersKeep
  <2>2. NothingYet(d)' /\ CleanResult(d)'
    <3>1. CleanResult(d)
      BY DEF CleanInv, CleanResult, CleanCallsKeepNonces
    <3>2. CleanResult(d)'
      BY <2>1, <3>1, Zenon DEF CleanResult, SharesMatch
    <3>3. QED
      BY <2>1, <3>2 DEF CleanInv, NothingYet
  <2>3. KeepsNonces(d)'
    <3>1. CASE noncesMap' = noncesMap /\ disturbed'[d] = disturbed[d]
      BY <2>1, <3>1 DEF CleanInv, KeepsNonces, Answered, Intact
    <3>2. CASE pc[d] # "idle" => disturbed'[d]
      BY <2>1, <3>2 DEF KeepsNonces
    <3>3. QED
      BY <2>1, <3>1, <3>2 DEF LeavesAlone
  <2>4. QED
    BY <2>2, <2>3 DEF CleanOf
<1>2. \A d \in Callers : CleanOf(d)'
  BY <1>1
<1>3. QED
  BY <1>2 DEF CleanInv, CleanOf, CleanCallsKeepNonces, CleanResult

\* A step that does not touch the map leaves the other calls alone.
LEMMA MapKeptLeavesAlone ==
  ASSUME TypeOK, NEW c \in Callers, noncesMap' = noncesMap,
         \A d \in Callers \ {c} : disturbed'[d] = disturbed[d]
  PROVE  \A d \in Callers \ {c} : LeavesAlone(d)
BY DEF LeavesAlone

LEMMA DisturbsLeavesAlone ==
  ASSUME TypeOK, NEW c \in Callers, Disturbs(c)
  PROVE  /\ \A d \in Callers \ {c} : LeavesAlone(d)
         /\ disturbed'[c] = disturbed[c]
BY DEF LeavesAlone, Disturbs, TypeOK

\* A call ends: what it returns when it was clean.
LEMMA EndedClean ==
  ASSUME TypeOK, CleanInv, NEW c \in Callers, NEW err, NEW shares,
         Ended(c, err, shares), UNCHANGED <<noncesMap, disturbed>>,
         ~disturbed[c] /\ frame[c].op # "RequestCommitments" =>
           /\ err # "nonces not found"
           /\ err = "none" =>
                \A a \in frame[c].list :
                  \E s \in shares : /\ s.id = a.id /\ s.nonce = a.nonce
                                    /\ s.list = frame[c].list
  PROVE  CleanInv'
<1>1. KeepsNonces(c)' /\ NothingYet(c)'
  BY DEF Ended, KeepsNonces, NothingYet
<1>2. CleanResult(c)'
  <2> DEFINE r == [op |-> frame[c].op, err |-> err, list |-> frame[c].list,
                   shares |-> shares, clean |-> ~disturbed[c]]
  <2>1. /\ r.op = frame[c].op /\ r.err = err /\ r.list = frame[c].list
        /\ r.shares = shares /\ r.clean = ~disturbed[c]
    OBVIOUS
  <2>2. result'[c] = r
    BY DEF Ended
  <2> HIDE DEF r
  <2>3. r.clean /\ r.op # "RequestCommitments" =>
          r.err # "nonces not found" /\ (r.err = "none" => SharesMatch(r))
    BY <2>1, Zenon DEF SharesMatch
  <2>4. QED
    BY <2>2, <2>3, Zenon DEF CleanResult, SharesMatch
<1>3. QED
  BY <1>1, <1>2, CleanByCaller, MapKeptLeavesAlone DEF Ended, CleanOf

LEMMA SameResultClean ==
  ASSUME CleanInv, NEW c \in Callers, result' = result
  PROVE  CleanResult(c)'
BY DEF CleanInv, CleanCallsKeepNonces, CleanResult, SharesMatch

\* A valid list has one first commitment.
LEMMA FirstOfUnique ==
  ASSUME NEW l \in SUBSET Commitment, ValidList(l), NEW todo \in SUBSET l,
         NEW a \in FirstOf(todo), NEW b \in FirstOf(todo)
  PROVE  a = b
<1>1. a \in l /\ b \in l /\ a.id \in Nat /\ b.id \in Nat
  BY CoordinatorAssumptions DEF FirstOf, Commitment
<1>2. a.id <= b.id /\ b.id <= a.id
  BY DEF FirstOf
<1>3. QED
  BY <1>1, <1>2 DEF ValidList

LEMMA InitCleanInv == Init => CleanInv
<1> SUFFICES ASSUME Init PROVE CleanInv
  OBVIOUS
<1>1. \A c \in Callers : KeepsNonces(c) /\ NothingYet(c)
  BY DEF Init, KeepsNonces, NothingYet
<1>2. \A c \in Callers : result[c].err = "groupPublicKey"
  BY DEF Init, NoResult
<1>3. QED
  BY <1>1, <1>2 DEF CleanInv, CleanCallsKeepNonces

LEMMA NextCleanInv ==
  ASSUME TypeOK, CleanInv, [Next]_vars PROVE CleanInv'
<1>1. ASSUME NEW c \in Callers, NEW op \in {"Sign", "RequestCommitments"},
             NEW ids \in Requests, NEW m \in Msgs,
             BeginRoundOne(c, op, ids, m)
      PROVE  CleanInv'
  <2>1. /\ noncesMap' = noncesMap
        /\ \A d \in Callers \ {c} : disturbed'[d] = disturbed[d]
        /\ pc[c] = "idle"
    BY <1>1, BeginRoundOneEffect DEF BeginRoundOne, TypeOK
  <2>2. CASE \E err \in {"groupPublicKey", "insufficient"} :
               Refused(c, op, err, {})
    <3>1. PICK err \in {"groupPublicKey", "insufficient"} :
            Refused(c, op, err, {})
      BY <2>2
    <3>2. CleanOf(c)'
      <4>1. result'[c].err = err /\ pc'[c] = "idle"
        BY <2>1, <3>1 DEF Refused
      <4>2. result'[c].err # "nonces not found" /\ result'[c].err # "none"
        BY <4>1
      <4>3. KeepsNonces(c)' /\ NothingYet(c)'
        BY <4>1 DEF KeepsNonces, NothingYet
      <4>4. QED
        BY <4>2, <4>3, Zenon DEF CleanOf, CleanResult
    <3>3. QED
      BY <2>1, <3>1, <3>2, CleanByCaller, MapKeptLeavesAlone DEF Refused
  <2>3. CASE RoundOneBegun(c, op, ids)
    <3>1. KeepsNonces(c)' /\ NothingYet(c)'
      BY <2>3 DEF RoundOneBegun, KeepsNonces, NothingYet
    <3>2. QED
      BY <2>1, <2>3, <3>1, SameResultClean, CleanByCaller, MapKeptLeavesAlone
         DEF RoundOneBegun, CleanOf
  <2>4. QED
    BY <1>1, <2>2, <2>3, BeginRoundOneEffect
<1>2. ASSUME NEW c \in Callers, NEW l \in lists \cup ForeignLists,
             NEW m \in Msgs, BeginRoundTwo(c, l, m)
      PROVE  CleanInv'
  <2>1. /\ noncesMap' = noncesMap
        /\ \A d \in Callers \ {c} : disturbed'[d] = disturbed[d]
        /\ disturbed'[c] = ~Intact(noncesMap, l)
        /\ pc[c] = "idle"
    BY <1>2, BeginRoundTwoEffect DEF BeginRoundTwo, TypeOK
  <2>2. CASE Refused(c, "RequestSignatureShares", "invalid list", l)
    <3>1. CleanOf(c)'
      <4> DEFINE r == [op |-> "RequestSignatureShares", err |-> "invalid list",
                       list |-> l, shares |-> {}, clean |-> TRUE]
      <4>1. result'[c].err = "invalid list" /\ pc' = pc
        <5>1. result'[c] = r /\ pc' = pc
          BY <2>2, Zenon DEF Refused
        <5>2. r.err = "invalid list"
          OBVIOUS
        <5>3. QED
          BY <5>1, <5>2, Zenon
      <4>2. result'[c].err # "nonces not found" /\ result'[c].err # "none"
        BY <4>1
      <4>3. pc'[c] = "idle"
        BY <1>2, <4>1 DEF BeginRoundTwo
      <4>4. KeepsNonces(c)' /\ NothingYet(c)'
        BY <4>3 DEF KeepsNonces, NothingYet
      <4>5. QED
        BY <4>2, <4>4, Zenon DEF CleanOf, CleanResult
    <3>2. QED
      BY <2>1, <2>2, <3>1, CleanByCaller, MapKeptLeavesAlone DEF Refused
  <2>3. CASE RoundTwoBegun(c, l)
    <3>1. KeepsNonces(c)' /\ NothingYet(c)'
      BY <2>1, <2>3 DEF RoundTwoBegun, KeepsNonces, NothingYet, Intact
    <3>2. QED
      BY <2>1, <2>3, <3>1, SameResultClean, CleanByCaller, MapKeptLeavesAlone
         DEF RoundTwoBegun, CleanOf
  <2>4. QED
    BY <1>2, <2>2, <2>3, BeginRoundTwoEffect
<1>3. ASSUME NEW id \in Ids, AuthenticationFails(id) PROVE CleanInv'
  <2>1. UNCHANGED <<noncesMap, disturbed, pc, frame, held, result>>
    BY <1>3 DEF AuthenticationFails
  <2>2. \A c \in Callers : KeepsNonces(c)' /\ NothingYet(c)'
    BY <2>1 DEF CleanInv, KeepsNonces, NothingYet, Answered, Intact
  <2>3. CleanCallsKeepNonces'
    BY <2>1, SameResultClean DEF CleanCallsKeepNonces, CleanResult
  <2>4. QED
    BY <2>2, <2>3 DEF CleanInv
<1>4. ASSUME NEW id \in Ids, Reinstate(id) PROVE CleanInv'
  <2>1. UNCHANGED <<noncesMap, disturbed, pc, held, result>>
    BY <1>4 DEF Reinstate
  <2>2. ASSUME NEW c \in Callers PROVE KeepsNonces(c)' /\ NothingYet(c)'
    <3>1. /\ frame'[c].list = frame[c].list /\ frame'[c].todo = frame[c].todo
          /\ frame'[c].shares = frame[c].shares
      BY <1>4, ReinstateEffect
    <3>2. QED
      BY <2>1, <3>1 DEF CleanInv, KeepsNonces, NothingYet, Answered, Intact
  <2>3. QED
    BY <2>1, <2>2 DEF CleanInv, CleanCallsKeepNonces
<1>5. ASSUME NEW c \in Callers, CheckExcluded(c) PROVE CleanInv'
  <2>1. pc[c] = "check" /\ UNCHANGED <<noncesMap, disturbed>>
    BY <1>5, CheckExcludedEffect
  <2>2. CASE Ended(c, "excluded", {})
    BY <2>1, <2>2, EndedClean
  <2>3. CASE Checked(c)
    <3>1. /\ frame'[c].list = frame[c].list /\ pc'[c] \in {"check", "reset"}
          /\ OthersKeep(c) /\ result' = result
      BY <2>3 DEF Checked
    <3>2. KeepsNonces(c)' /\ NothingYet(c)'
      BY <2>1, <3>1 DEF CleanInv, KeepsNonces, NothingYet
    <3>3. QED
      BY <2>1, <3>1, <3>2, SameResultClean, CleanByCaller, MapKeptLeavesAlone
         DEF CleanOf
  <2>4. QED
    BY <1>5, <2>2, <2>3, CheckExcludedEffect
<1>6. ASSUME NEW c \in Callers, ResetNonces(c) PROVE CleanInv'
  <2>1. /\ pc[c] = "reset" /\ pc'[c] = "collect"
        /\ \A d \in Callers \ {c} : pc'[d] = pc[d]
        /\ \A d \in Callers \ {c} : pc[d] # "idle" => disturbed'[d]
        /\ UNCHANGED <<frame, held, result>>
    BY <1>6 DEF ResetNonces, TypeOK
  <2>2. OthersKeep(c) /\ \A d \in Callers \ {c} : LeavesAlone(d)
    BY <2>1 DEF OthersKeep, LeavesAlone
  <2>3. KeepsNonces(c)' /\ NothingYet(c)'
    BY <2>1 DEF CleanInv, KeepsNonces, NothingYet
  <2>4. QED
    BY <2>1, <2>2, <2>3, SameResultClean, CleanByCaller DEF CleanOf
<1>7. ASSUME NEW c \in Callers, CollectCommitment(c) PROVE CleanInv'
  <2> DEFINE i == frame[c].ids[frame[c].k]
             n == lastNonce + 1
             com == [id |-> i, nonce |-> n]
  <2>1. pc[c] = "collect" /\ Collected(c) /\ Disturbs(c)
    BY <1>7, CollectEffect
  <2>2. /\ i \in Participants /\ n # NoNonce
        /\ noncesMap' = [noncesMap EXCEPT ![i] = n]
        /\ frame'[c].list = frame[c].list \cup {com}
        /\ pc'[c] \in {"collect", "validate"}
        /\ OthersKeep(c) /\ result' = result
    BY <2>1 DEF Collected, TypeOK, NoNonce
  <2>3. /\ \A d \in Callers \ {c} : LeavesAlone(d)
        /\ disturbed'[c] = disturbed[c]
    BY <2>1, DisturbsLeavesAlone
  <2>4. com.id = i /\ com.nonce = n
    OBVIOUS
  <2> HIDE DEF i, n
  <2>5. KeepsNonces(c)'
    <3> SUFFICES ASSUME ~disturbed[c], NEW a \in frame[c].list \cup {com}
                 PROVE  /\ a.id \in Participants /\ a.nonce # NoNonce
                        /\ [id |-> a.id, nonce |-> noncesMap'[a.id]]
                             \in frame[c].list \cup {com}
      BY <2>2, <2>3 DEF KeepsNonces
    <3>1. a \in frame[c].list =>
            /\ a.id \in Participants /\ a.nonce # NoNonce
            /\ [id |-> a.id, nonce |-> noncesMap[a.id]] \in frame[c].list
      BY <2>1 DEF CleanInv, KeepsNonces
    <3>2. a.id \in Participants /\ a.nonce # NoNonce
      BY <2>2, <2>4, <3>1
    <3>3. CASE a.id = i
      <4>1. noncesMap'[a.id] = n
        BY <2>2, <3>3 DEF TypeOK
      <4>2. QED
        BY <3>2, <3>3, <4>1
    <3>4. CASE a.id # i
      <4>1. noncesMap'[a.id] = noncesMap[a.id]
        BY <2>2, <3>2, <3>4 DEF TypeOK
      <4>2. a \in frame[c].list
        BY <2>4, <3>4
      <4>3. QED
        BY <3>1, <3>2, <4>1, <4>2
    <3>5. QED
      BY <3>3, <3>4
  <2>6. NothingYet(c)'
    BY <2>2 DEF NothingYet
  <2>7. QED
    BY <2>2, <2>3, <2>5, <2>6, SameResultClean, CleanByCaller DEF CleanOf
<1>8. ASSUME NEW c \in Callers, CollectUnknown(c) PROVE CleanInv'
  <2>1. /\ Ended(c, "unknown participant", {})
        /\ UNCHANGED <<noncesMap, disturbed>>
    BY <1>8, FailEnds DEF CollectUnknown
  <2>2. QED
    BY <2>1, EndedClean
<1>9. ASSUME NEW c \in Callers, CollectFails(c) PROVE CleanInv'
  <2>1. /\ Ended(c, "commitment failed", {})
        /\ UNCHANGED <<noncesMap, disturbed>>
    BY <1>9, FailEnds DEF CollectFails
  <2>2. QED
    BY <2>1, EndedClean
<1>10. ASSUME NEW c \in Callers, ValidateCommitments(c) PROVE CleanInv'
  <2>1. pc[c] = "validate" /\ UNCHANGED <<noncesMap, disturbed>>
    BY <1>10, ValidateEffect
  <2>2. CASE Accepted(c)
    <3> DEFINE l == frame[c].list
    <3>1. /\ ValidList(l)
          /\ frame'[c].list = l /\ frame'[c].todo = l
          /\ pc'[c] = "take" /\ OthersKeep(c) /\ result' = result
      BY <2>2 DEF Accepted
    <3>2. ASSUME ~disturbed[c] PROVE Intact(noncesMap, l)
      <4> SUFFICES ASSUME NEW a \in l
                   PROVE  /\ a.id \in Participants /\ a.nonce # NoNonce
                          /\ noncesMap[a.id] = a.nonce
        BY DEF Intact
      <4> DEFINE b == [id |-> a.id, nonce |-> noncesMap[a.id]]
      <4>1. a.id \in Participants /\ a.nonce # NoNonce /\ b \in l
        BY <2>1, <3>2 DEF CleanInv, KeepsNonces
      <4>2. b.id = a.id /\ b.nonce = noncesMap[a.id]
        OBVIOUS
      <4>3. a = b
        BY <3>1, <4>1, <4>2 DEF ValidList
      <4>4. QED
        BY <4>1, <4>2, <4>3
    <3>3. KeepsNonces(c)' /\ NothingYet(c)'
      BY <2>1, <3>1, <3>2 DEF KeepsNonces, NothingYet, Intact
    <3>4. QED
      BY <2>1, <3>1, <3>3, SameResultClean, CleanByCaller, MapKeptLeavesAlone
         DEF CleanOf
  <2>3. CASE Ended(c, "invalid list", {})
    BY <2>1, <2>3, EndedClean
  <2>4. CASE frame[c].op = "RequestCommitments" /\ Ended(c, "none", {})
    BY <2>1, <2>4, EndedClean
  <2>5. QED
    BY <1>10, <2>2, <2>3, <2>4, ValidateEffect
<1>11. ASSUME NEW c \in Callers, TakeNonces(c) PROVE CleanInv'
  <2>1. PICK a \in FirstOf(frame[c].todo) : Took(c, a)
    BY <1>11, TakeEffect
  <2>2. pc[c] = "take" /\ Disturbs(c)
    BY <1>11, TakeEffect
  <2>3. /\ \A d \in Callers \ {c} : LeavesAlone(d)
        /\ disturbed'[c] = disturbed[c]
    BY <2>2, DisturbsLeavesAlone
  <2>4. /\ a.id \in Participants /\ held'[c] = noncesMap[a.id]
        /\ noncesMap' = [noncesMap EXCEPT ![a.id] = NoNonce]
        /\ pc'[c] = "round2" /\ frame' = frame
        /\ OthersKeep(c) /\ result' = result
    BY <2>1 DEF Took
  <2>5. KeepsNonces(c)'
    <3> SUFFICES ASSUME ~disturbed[c] PROVE KeepsNonces(c)'
      BY <2>3 DEF KeepsNonces
    <3>1. /\ ValidList(frame[c].list) /\ Intact(noncesMap, frame[c].todo)
          /\ frame[c].todo \subseteq frame[c].list
          /\ \A b \in frame[c].list \ frame[c].todo : Answered(frame[c], b)
      BY <2>2 DEF CleanInv, KeepsNonces
    <3>2. frame[c].list \in SUBSET Commitment /\ a \in frame[c].todo
      BY <2>1, FirstOfElement DEF TypeOK, Frame
    <3>3. ASSUME NEW b \in FirstOf(frame[c].todo)
          PROVE  held'[c] = b.nonce /\ Intact(noncesMap', frame[c].todo \ {b})
      <4>1. b = a
        BY <3>1, <3>2, FirstOfUnique
      <4>2. held'[c] = b.nonce
        BY <2>4, <3>1, <3>2, <4>1 DEF Intact
      <4>3. ASSUME NEW e \in frame[c].todo \ {a}
            PROVE  noncesMap'[e.id] = noncesMap[e.id]
        <5>1. e.id # a.id
          BY <3>1, <3>2 DEF ValidList
        <5>2. QED
          BY <2>4, <3>1, <5>1 DEF Intact, TypeOK
      <4>4. QED
        BY <3>1, <4>1, <4>2, <4>3 DEF Intact
    <3>4. QED
      BY <2>4, <3>1, <3>3 DEF KeepsNonces, Answered, Intact
  <2>6. NothingYet(c)'
    BY <2>4 DEF NothingYet
  <2>7. QED
    BY <2>3, <2>4, <2>5, <2>6, SameResultClean, CleanByCaller DEF CleanOf
<1>12. ASSUME NEW c \in Callers, TakeFails(c) PROVE CleanInv'
  <2>1. pc[c] = "take" /\ UNCHANGED <<noncesMap, disturbed>>
    BY <1>12, TakeFailsEffect
  <2>2. CASE Ended(c, "unknown participant", {})
    BY <2>1, <2>2, EndedClean
  <2>3. CASE /\ Ended(c, "nonces not found", {})
             /\ \E a \in FirstOf(frame[c].todo) :
                  a.id \in Participants /\ noncesMap[a.id] = NoNonce
    <3>1. disturbed[c]
      <4>1. PICK a \in FirstOf(frame[c].todo) : noncesMap[a.id] = NoNonce
        BY <2>3
      <4>2. a \in frame[c].todo
        BY FirstOfElement
      <4>3. ~Intact(noncesMap, frame[c].todo)
        BY <4>1, <4>2 DEF Intact
      <4>4. QED
        BY <2>1, <4>3 DEF CleanInv, KeepsNonces
    <3>2. QED
      BY <2>1, <2>3, <3>1, EndedClean
  <2>4. QED
    BY <1>12, <2>2, <2>3, TakeFailsEffect
<1>13. ASSUME NEW c \in Callers, RoundTwo(c) PROVE CleanInv'
  <2>1. PICK a \in FirstOf(frame[c].todo) :
          \/ Made(c, a)
          \/ /\ frame[c].todo = {a}
             /\ Ended(c, "none", frame[c].shares \cup {ShareOf(c, a)})
    BY <1>13, RoundTwoEffect
  <2>2. pc[c] = "round2" /\ UNCHANGED <<noncesMap, disturbed>>
    BY <1>13, RoundTwoEffect
  <2> DEFINE s == ShareOf(c, a)
             all == frame[c].shares \cup {s}
  <2>3. s.id = a.id /\ s.nonce = held[c] /\ s.list = frame[c].list
    BY DEF ShareOf
  <2> HIDE DEF s
  <2>4. ASSUME ~disturbed[c]
        PROVE  /\ ValidList(frame[c].list)
               /\ Intact(noncesMap, frame[c].todo \ {a})
               /\ frame[c].todo \subseteq frame[c].list
               /\ \A b \in frame[c].list \ (frame[c].todo \ {a}) :
                    \E t \in all : /\ t.id = b.id /\ t.nonce = b.nonce
                                   /\ t.list = frame[c].list
    <3>1. /\ ValidList(frame[c].list)
          /\ held[c] = a.nonce /\ Intact(noncesMap, frame[c].todo \ {a})
          /\ frame[c].todo \subseteq frame[c].list
          /\ \A b \in frame[c].list \ frame[c].todo : Answered(frame[c], b)
      BY <2>2, <2>4 DEF CleanInv, KeepsNonces
    <3>2. QED
      BY <2>3, <3>1 DEF Answered
  <2>5. CASE Made(c, a)
    <3>1. /\ frame'[c].list = frame[c].list
          /\ frame'[c].todo = frame[c].todo \ {a}
          /\ frame'[c].shares = all
          /\ pc'[c] = IF frame[c].todo = {a} THEN "aggregate" ELSE "take"
          /\ OthersKeep(c) /\ result' = result
      BY <2>5 DEF Made, s
    <3> HIDE DEF all
    <3>2. KeepsNonces(c)' /\ NothingYet(c)'
      BY <2>2, <2>4, <3>1 DEF KeepsNonces, NothingYet, Answered, Intact
    <3>3. QED
      BY <2>2, <3>1, <3>2, SameResultClean, CleanByCaller, MapKeptLeavesAlone
         DEF CleanOf
  <2>6. CASE frame[c].todo = {a} /\ Ended(c, "none", all)
    <3>1. frame[c].list \ (frame[c].todo \ {a}) = frame[c].list
      BY <2>6
    <3> HIDE DEF all
    <3>2. QED
      BY <2>2, <2>4, <2>6, <3>1, EndedClean
  <2>7. QED
    BY <2>1, <2>5, <2>6 DEF s
<1>14. ASSUME NEW c \in Callers, RoundTwoFails(c) PROVE CleanInv'
  <2>1. Ended(c, "share failed", {}) /\ UNCHANGED <<noncesMap, disturbed>>
    BY <1>14, FailEnds DEF RoundTwoFails
  <2>2. QED
    BY <2>1, EndedClean
<1>15. ASSUME NEW c \in Callers, Aggregate(c) PROVE CleanInv'
  <2>1. pc[c] = "aggregate" /\ UNCHANGED <<noncesMap, disturbed>>
    BY <1>15, AggregateEffect
  <2>2. CASE Ended(c, "insufficient", {})
    BY <2>1, <2>2, EndedClean
  <2>3. CASE Ended(c, "none", frame[c].shares)
    <3>1. ASSUME ~disturbed[c], NEW a \in frame[c].list
          PROVE  \E s \in frame[c].shares :
                   s.id = a.id /\ s.nonce = a.nonce /\ s.list = frame[c].list
      BY <2>1, <3>1 DEF CleanInv, KeepsNonces, Answered
    <3>2. QED
      BY <2>1, <2>3, <3>1, EndedClean
  <2>4. QED
    BY <1>15, <2>2, <2>3, AggregateEffect
<1>16. CASE UNCHANGED vars
  <2>1. UNCHANGED <<noncesMap, disturbed, pc, frame, held, result>>
    BY <1>16 DEF vars
  <2>2. \A c \in Callers : KeepsNonces(c)' /\ NothingYet(c)'
    BY <2>1 DEF CleanInv, KeepsNonces, NothingYet, Answered, Intact
  <2>3. CleanCallsKeepNonces'
    BY <2>1, SameResultClean DEF CleanCallsKeepNonces, CleanResult
  <2>4. QED
    BY <2>2, <2>3 DEF CleanInv
<1>17. QED
  BY <1>1, <1>2, <1>3, <1>4, <1>5, <1>6, <1>7, <1>8, <1>9, <1>10, <1>11,
     <1>12, <1>13, <1>14, <1>15, <1>16
     DEF Next, Begin, Step

\* A Sign nobody interfered with since it reset the map, and a
\* RequestSignatureShares that nobody interfered with and that was given a
\* list whose nonces the map holds, never miss a nonce, and the shares they
\* return answer the list commitment by commitment, for any number of
\* goroutines, participants and requests, with identifiers named twice too.
THEOREM CleanCallsSafety == Spec => []CleanCallsKeepNonces
<1>1. Init => TypeOK /\ CleanInv
  BY InitTypeOK, InitCleanInv
<1>2. TypeOK /\ CleanInv /\ [Next]_vars => (TypeOK /\ CleanInv)'
  BY NextTypeOK, NextCleanInv
<1>3. CleanInv => CleanCallsKeepNonces
  BY DEF CleanInv
<1>4. QED
  BY <1>1, <1>2, <1>3, PTL DEF Spec
=============================================================================
