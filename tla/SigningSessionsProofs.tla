------------------------ MODULE SigningSessionsProofs ------------------------
(***************************************************************************)
(* Proofs about signing sessions and prepared nonces, for every number of  *)
(* workers, participants and sessions.                                     *)
(***************************************************************************)
EXTENDS SigningSessions, FiniteSetTheorems, TLAPS

-----------------------------------------------------------------------------
(* Types.                                                                  *)

Labels == {"idle", "next", "commit", "list", "sign", "share"}

Commitment == [id : Ids, nonce : Nat]
Share ==
  [id : Ids, nonce : Nat, session : Nat, list : SUBSET Commitment]
Session ==
  [participantIDs : Seq(Ids), commitments : SUBSET Commitment,
   signatureShares : SUBSET Share, isCanceled : BOOLEAN]
Frame ==
  [session : Nat, nonce : Nat, list : SUBSET Commitment, shares : SUBSET Share]

\* A worker that is busy has a session.
TypeOK ==
  /\ sessions \in Seq(Session)
  /\ manager \subseteq DOMAIN sessions
  /\ pools \in [Ids -> Seq(Nat)]
  /\ lastNonce \in Nat
  /\ pc \in [Workers -> Labels]
  /\ frame \in [Workers -> Frame]
  /\ \A w \in Workers : pc[w] # "idle" => frame[w].session \in DOMAIN sessions
  /\ lists \subseteq Nat \X SUBSET Commitment
  /\ issued \subseteq Share
  /\ \A x \in issued : x.session \in DOMAIN sessions
  /\ \A a \in lists : a[1] \in DOMAIN sessions

LEMMA NoFrameType ==
  NoFrame \in Frame /\ NoFrame.nonce = 0
BY DEF NoFrame, Frame, NoNonce

LEMMA InitTypeOK == Init => TypeOK
BY NoFrameType DEF Init, TypeOK, Labels

\* A session is replaced by a well-formed one.
LEMMA SessionsUpdateType ==
  ASSUME TypeOK, NEW s \in DOMAIN sessions, NEW sn \in Session,
         sessions' = [sessions EXCEPT ![s] = sn]
  PROVE  /\ sessions' \in Seq(Session)
         /\ DOMAIN sessions' = DOMAIN sessions
         /\ sessions'[s] = sn
         /\ \A t \in DOMAIN sessions \ {s} : sessions'[t] = sessions[t]
BY DEF TypeOK

\* The locals of a worker are replaced by well-formed ones.
LEMMA FrameUpdateType ==
  ASSUME TypeOK, NEW w \in Workers, NEW f \in Frame,
         frame' = [frame EXCEPT ![w] = f]
  PROVE  /\ frame' \in [Workers -> Frame]
         /\ frame'[w] = f
         /\ \A v \in Workers \ {w} : frame'[v] = frame[v]
BY DEF TypeOK

-----------------------------------------------------------------------------
(* What a step does to the sessions' commitments.                          *)

\* No session loses, gains or changes a commitment; a new one has none.
CommitmentsKept ==
  /\ DOMAIN sessions \subseteq DOMAIN sessions'
  /\ \A s \in DOMAIN sessions :
       /\ sessions'[s].participantIDs = sessions[s].participantIDs
       /\ sessions'[s].commitments = sessions[s].commitments
  /\ \A s \in DOMAIN sessions' \ DOMAIN sessions : sessions'[s].commitments = {}

\* Session s gains the commitment c of a participant that had none.
CommitmentAdded(s, c) ==
  /\ s \in DOMAIN sessions
  /\ DOMAIN sessions' = DOMAIN sessions
  /\ \A t \in DOMAIN sessions :
       /\ sessions'[t].participantIDs = sessions[t].participantIDs
       /\ t # s => sessions'[t].commitments = sessions[t].commitments
  /\ sessions'[s].commitments = sessions[s].commitments \cup {c}
  /\ c.id \in ToSet(sessions[s].participantIDs)
  /\ ~Added(sessions[s].commitments, c.id)

\* An entry of its own is just added.
LEMMA WithNewEntry ==
  ASSUME NEW entries, NEW e, ~Added(entries, e.id)
  PROVE  WithEntry(entries, e) = entries \cup {e}
BY DEF Added, WithEntry

LEMMA SameSessions ==
  ASSUME sessions' = sessions PROVE CommitmentsKept
BY DEF CommitmentsKept

\* The worker's part of a step that leaves its sessions alone.
WorkerStep(w, label, f) ==
  /\ pc' = [pc EXCEPT ![w] = label]
  /\ frame' = [frame EXCEPT ![w] = f]

LEMMA WorkerStepType ==
  ASSUME TypeOK, NEW w \in Workers, NEW label \in Labels, NEW f \in Frame,
         WorkerStep(w, label, f)
  PROVE  /\ pc' \in [Workers -> Labels] /\ frame' \in [Workers -> Frame]
         /\ pc'[w] = label /\ frame'[w] = f
         /\ \A v \in Workers \ {w} : pc'[v] = pc[v] /\ frame'[v] = frame[v]
BY DEF TypeOK, WorkerStep

\* What each action of a worker does to it, as one record.
LEMMA GiveUpStep ==
  ASSUME NEW w \in Workers, GiveUp(w)
  PROVE  WorkerStep(w, "idle", NoFrame)
BY DEF GiveUp, WorkerStep

LEMMA GetSessionStep ==
  ASSUME TypeOK, NEW w \in Workers, NEW s \in manager, GetSession(w, s)
  PROVE  \E f \in Frame :
           /\ WorkerStep(w, "next", f)
           /\ f.session = s /\ f.nonce = frame[w].nonce
<1> DEFINE f == [frame[w] EXCEPT !.session = s]
<1>1. frame[w] \in Frame /\ s \in Nat
  BY DEF TypeOK
<1>2. f \in Frame /\ f.session = s /\ f.nonce = frame[w].nonce
  BY <1>1 DEF Frame
<1>3. WorkerStep(w, "next", f)
  BY <1>1 DEF GetSession, WorkerStep, TypeOK
<1>4. QED
  BY <1>2, <1>3

LEMMA NextNoncesStep ==
  ASSUME TypeOK, NEW w \in Workers, NextNonces(w)
  PROVE  \E f \in Frame :
           /\ WorkerStep(w, "commit", f)
           /\ f.session = frame[w].session /\ f.nonce = Head(pools[Actor[w]])
<1> DEFINE n == Head(pools[Actor[w]])
           f == [frame[w] EXCEPT !.nonce = n]
<1>1. frame[w] \in Frame /\ pools[Actor[w]] \in Seq(Nat) /\ pools[Actor[w]] # <<>>
  BY SessionAssumptions DEF NextNonces, TypeOK
<1>2. n \in Nat
  BY <1>1
<1> HIDE DEF n
<1>3. f \in Frame /\ f.session = frame[w].session /\ f.nonce = n
  BY <1>1, <1>2 DEF Frame
<1>4. WorkerStep(w, "commit", f)
  BY <1>1 DEF NextNonces, WorkerStep, TypeOK, n
<1>5. QED
  BY <1>3, <1>4 DEF n

LEMMA ShareOfType ==
  ASSUME TypeOK, NEW w \in Workers
  PROVE  /\ ShareOf(w) \in Share
         /\ ShareOf(w).id = Actor[w] /\ ShareOf(w).nonce = frame[w].nonce
         /\ ShareOf(w).session = frame[w].session
<1>1. frame[w] \in Frame /\ Actor[w] \in Ids
  BY SessionAssumptions DEF TypeOK
<1>2. QED
  BY <1>1 DEF ShareOf, Share, Frame

LEMMA RoundTwoStep ==
  ASSUME TypeOK, NEW w \in Workers, RoundTwo(w)
  PROVE  \E f \in Frame :
           /\ WorkerStep(w, "share", f)
           /\ f.session = frame[w].session /\ f.nonce = NoNonce
<1> DEFINE x == ShareOf(w)
           f == [[frame[w] EXCEPT !.nonce = NoNonce] EXCEPT !.shares = {x}]
<1>1. frame[w] \in Frame /\ x \in Share
  BY ShareOfType DEF TypeOK
<1> HIDE DEF x
<1>2. f \in Frame /\ f.session = frame[w].session /\ f.nonce = NoNonce
  BY <1>1 DEF Frame, NoNonce
<1>3. WorkerStep(w, "share", f)
  BY <1>1 DEF RoundTwo, WorkerStep, Zeroized, TypeOK, x
<1>4. QED
  BY <1>2, <1>3

LEMMA GetListStep ==
  ASSUME TypeOK, NEW w \in Workers, GetCommitmentList(w), ~GiveUp(w)
  PROVE  LET s == frame[w].session
         IN  /\ \E f \in Frame :
                  /\ WorkerStep(w, "sign", f)
                  /\ f.session = s /\ f.nonce = frame[w].nonce
             /\ Enough(sessions[s])
             /\ lists' = lists \cup {<<s, sessions[s].commitments>>}
             /\ UNCHANGED <<sessions, manager, pools, lastNonce, issued>>
<1> DEFINE s == frame[w].session
           l == sessions[s].commitments
           f == [frame[w] EXCEPT !.list = l]
<1>1. frame[w] \in Frame /\ s \in DOMAIN sessions /\ sessions[s] \in Session
  BY DEF TypeOK, GetCommitmentList
<1>2. l \in SUBSET Commitment
  BY <1>1 DEF Session
<1>3. /\ Enough(sessions[s]) /\ lists' = lists \cup {<<s, l>>}
      /\ UNCHANGED <<sessions, manager, pools, lastNonce, issued>>
      /\ frame' = [frame EXCEPT ![w].list = l]
      /\ pc' = [pc EXCEPT ![w] = "sign"]
  BY DEF GetCommitmentList
<1> HIDE DEF l
<1>4. f \in Frame /\ f.session = s /\ f.nonce = frame[w].nonce
  BY <1>1, <1>2 DEF Frame
<1>5. WorkerStep(w, "sign", f)
  BY <1>1, <1>3 DEF WorkerStep, TypeOK
<1>6. QED
  BY <1>3, <1>4, <1>5 DEF l

\* What the actions on a session do to it.
LEMMA CancelStep ==
  ASSUME TypeOK, NEW s \in DOMAIN sessions, Cancel(s)
  PROVE  /\ CommitmentsKept /\ sessions' \in Seq(Session)
         /\ DOMAIN sessions' = DOMAIN sessions
<1> DEFINE sn == [sessions[s] EXCEPT !.isCanceled = TRUE]
<1>1. sessions[s] \in Session
  BY DEF TypeOK
<1>2. /\ sn \in Session
      /\ sn.participantIDs = sessions[s].participantIDs
      /\ sn.commitments = sessions[s].commitments
  BY <1>1 DEF Session
<1>3. sessions' = [sessions EXCEPT ![s] = sn]
  BY DEF Cancel
<1> HIDE DEF sn
<1>4. /\ sessions' \in Seq(Session) /\ DOMAIN sessions' = DOMAIN sessions
      /\ sessions'[s] = sn
      /\ \A t \in DOMAIN sessions \ {s} : sessions'[t] = sessions[t]
  BY <1>2, <1>3, SessionsUpdateType
<1>5. QED
  BY <1>2, <1>4 DEF CommitmentsKept

LEMMA CreateSessionStep ==
  ASSUME TypeOK, NEW ids \in Requests, CreateSession(ids)
  PROVE  /\ CommitmentsKept /\ sessions' \in Seq(Session)
         /\ manager' \subseteq DOMAIN sessions'
<1>1. NewSession(ids) \in Session /\ NewSession(ids).commitments = {}
  BY SessionAssumptions DEF NewSession, Session
<1>2. sessions' = Append(sessions, NewSession(ids)) /\ sessions \in Seq(Session)
  BY DEF CreateSession, TypeOK
<1>3. /\ sessions' \in Seq(Session)
      /\ DOMAIN sessions' = DOMAIN sessions \cup {Len(sessions) + 1}
      /\ \A s \in DOMAIN sessions : sessions'[s] = sessions[s]
      /\ sessions'[Len(sessions) + 1] = NewSession(ids)
  BY <1>1, <1>2
<1>4. CommitmentsKept
  BY <1>1, <1>3 DEF CommitmentsKept
<1>5. QED
  BY <1>3, <1>4 DEF CreateSession, TypeOK

LEMMA AddCommitmentStep ==
  ASSUME TypeOK, NEW w \in Workers, AddCommitment(w), ~GiveUp(w)
  PROVE  LET s == frame[w].session
             c == [id |-> Actor[w], nonce |-> frame[w].nonce]
         IN  /\ CommitmentAdded(s, c) /\ sessions' \in Seq(Session)
             /\ pc' = [pc EXCEPT ![w] = "list"]
             /\ UNCHANGED <<manager, pools, lastNonce, frame, lists, issued>>
<1> DEFINE s == frame[w].session
           c == [id |-> Actor[w], nonce |-> frame[w].nonce]
           sn == [sessions[s] EXCEPT !.commitments = @ \cup {c}]
<1>1. /\ frame[w] \in Frame /\ s \in DOMAIN sessions
      /\ sessions[s] \in Session /\ Actor[w] \in Ids
  BY SessionAssumptions DEF TypeOK, AddCommitment
<1>2. c \in Commitment /\ c.id = Actor[w]
  BY <1>1 DEF Commitment, Frame
<1>3. /\ Expected(sessions[s], c.id) /\ ~Added(sessions[s].commitments, c.id)
      /\ sessions' = [sessions EXCEPT ![s].commitments = WithEntry(@, c)]
      /\ pc' = [pc EXCEPT ![w] = "list"]
      /\ UNCHANGED <<manager, pools, lastNonce, frame, lists, issued>>
  BY DEF AddCommitment
<1> HIDE DEF c, s
<1>4. WithEntry(sessions[s].commitments, c) = sessions[s].commitments \cup {c}
  BY <1>3, WithNewEntry
<1>5. sessions' = [sessions EXCEPT ![s] = sn]
  BY <1>1, <1>3, <1>4
<1>6. /\ sn \in Session
      /\ sn.participantIDs = sessions[s].participantIDs
      /\ sn.commitments = sessions[s].commitments \cup {c}
  BY <1>1, <1>2 DEF Session
<1> HIDE DEF sn
<1>7. /\ sessions' \in Seq(Session) /\ DOMAIN sessions' = DOMAIN sessions
      /\ sessions'[s] = sn
      /\ \A t \in DOMAIN sessions \ {s} : sessions'[t] = sessions[t]
  BY <1>1, <1>5, <1>6, SessionsUpdateType
<1>8. CommitmentAdded(s, c)
  BY <1>1, <1>3, <1>6, <1>7 DEF CommitmentAdded, Expected
<1>9. QED
  BY <1>3, <1>7, <1>8 DEF c, s

LEMMA AddShareStep ==
  ASSUME TypeOK, NEW w \in Workers, AddSignatureShare(w)
  PROVE  /\ CommitmentsKept /\ sessions' \in Seq(Session)
         /\ DOMAIN sessions' = DOMAIN sessions
         /\ WorkerStep(w, "idle", NoFrame)
         /\ UNCHANGED <<manager, pools, lastNonce, lists, issued>>
<1> DEFINE s == frame[w].session
<1>1. CASE GiveUp(w)
  BY <1>1, GiveUpStep, SameSessions DEF GiveUp, TypeOK
<1>2. CASE ~GiveUp(w)
  <2>1. PICK x \in frame[w].shares :
          /\ ~Added(sessions[s].signatureShares, x.id)
          /\ sessions' = [sessions EXCEPT ![s].signatureShares = WithEntry(@, x)]
          /\ pc' = [pc EXCEPT ![w] = "idle"]
          /\ frame' = [frame EXCEPT ![w] = NoFrame]
          /\ UNCHANGED <<manager, pools, lastNonce, lists, issued>>
    BY <1>2 DEF AddSignatureShare
  <2>2. /\ frame[w] \in Frame /\ s \in DOMAIN sessions
        /\ sessions[s] \in Session
    BY DEF TypeOK, AddSignatureShare
  <2>3. x \in Share
    BY <2>1, <2>2 DEF Frame
  <2> DEFINE sn == [sessions[s] EXCEPT !.signatureShares = @ \cup {x}]
  <2> HIDE DEF s
  <2>4. sessions' = [sessions EXCEPT ![s] = sn]
    BY <2>1, <2>2, WithNewEntry
  <2>5. /\ sn \in Session
        /\ sn.participantIDs = sessions[s].participantIDs
        /\ sn.commitments = sessions[s].commitments
    BY <2>2, <2>3 DEF Session
  <2> HIDE DEF sn
  <2>6. /\ sessions' \in Seq(Session) /\ DOMAIN sessions' = DOMAIN sessions
        /\ sessions'[s] = sn
        /\ \A t \in DOMAIN sessions \ {s} : sessions'[t] = sessions[t]
    BY <2>2, <2>4, <2>5, SessionsUpdateType
  <2>7. CommitmentsKept
    BY <2>5, <2>6 DEF CommitmentsKept
  <2>8. QED
    BY <2>1, <2>6, <2>7 DEF WorkerStep
<1>3. QED
  BY <1>1, <1>2

-----------------------------------------------------------------------------
(* Type correctness.                                                       *)

\* The steps of a worker that touch no session, no list and no share.
LEMMA QuietStepType ==
  ASSUME TypeOK, NEW w \in Workers, NEW label \in Labels, NEW f \in Frame,
         WorkerStep(w, label, f),
         label = "idle" \/ f.session \in DOMAIN sessions,
         sessions' \in Seq(Session), DOMAIN sessions' = DOMAIN sessions,
         UNCHANGED <<manager, lastNonce, lists, issued>>,
         pools' \in [Ids -> Seq(Nat)]
  PROVE  TypeOK'
<1>1. /\ pc' \in [Workers -> Labels] /\ frame' \in [Workers -> Frame]
      /\ pc'[w] = label /\ frame'[w] = f
      /\ \A v \in Workers \ {w} : pc'[v] = pc[v] /\ frame'[v] = frame[v]
  BY WorkerStepType
<1>2. \A v \in Workers : pc'[v] # "idle" => frame'[v].session \in DOMAIN sessions'
  BY <1>1 DEF TypeOK
<1>3. QED
  BY <1>1, <1>2 DEF TypeOK

LEMMA NextTypeOK == TypeOK /\ [Next]_vars => TypeOK'
<1> SUFFICES ASSUME TypeOK, [Next]_vars
             PROVE  TypeOK'
  OBVIOUS
<1>1. ASSUME NEW ids \in Requests, CreateSession(ids)
      PROVE  TypeOK'
  <2>1. /\ DOMAIN sessions \subseteq DOMAIN sessions' /\ sessions' \in Seq(Session)
        /\ manager' \subseteq DOMAIN sessions'
    BY <1>1, CreateSessionStep DEF CommitmentsKept
  <2>2. QED
    BY <1>1, <2>1 DEF CreateSession, TypeOK
<1>2. ASSUME NEW s \in DOMAIN sessions, DeleteSession(s)
      PROVE  TypeOK'
  BY <1>2 DEF DeleteSession, TypeOK
<1>3. ASSUME NEW s \in DOMAIN sessions, Cancel(s)
      PROVE  TypeOK'
  BY <1>3, CancelStep DEF Cancel, TypeOK
<1>4. ASSUME NEW i \in Ids, Preprocess(i)
      PROVE  TypeOK'
  <2>1. Drawn \in Seq(Nat) /\ lastNonce + Count \in Nat
    BY SessionAssumptions DEF Drawn, TypeOK
  <2>2. QED
    BY <1>4, <2>1 DEF Preprocess, TypeOK
<1>5. ASSUME NEW i \in Ids, Zeroize(i)
      PROVE  TypeOK'
  BY <1>5 DEF Zeroize, TypeOK
<1>6. ASSUME NEW w \in Workers, NEW s \in manager, GetSession(w, s)
      PROVE  TypeOK'
  <2>1. PICK f \in Frame : WorkerStep(w, "next", f) /\ f.session = s
    BY <1>6, GetSessionStep
  <2>2. /\ s \in DOMAIN sessions /\ sessions' = sessions
        /\ UNCHANGED <<manager, lastNonce, lists, issued, pools>>
        /\ sessions \in Seq(Session) /\ pools \in [Ids -> Seq(Nat)]
    BY <1>6 DEF GetSession, TypeOK
  <2>3. QED
    BY <2>1, <2>2, QuietStepType DEF Labels
<1>7. ASSUME NEW w \in Workers, NextNonces(w)
      PROVE  TypeOK'
  <2>1. PICK f \in Frame :
          WorkerStep(w, "commit", f) /\ f.session = frame[w].session
    BY <1>7, NextNoncesStep
  <2>2. /\ frame[w].session \in DOMAIN sessions /\ sessions' = sessions
        /\ UNCHANGED <<manager, lastNonce, lists, issued>>
        /\ sessions \in Seq(Session)
    BY <1>7 DEF NextNonces, TypeOK
  <2>3. pools[Actor[w]] \in Seq(Nat) /\ pools[Actor[w]] # <<>>
    BY <1>7, SessionAssumptions DEF NextNonces, TypeOK
  <2>4. Tail(pools[Actor[w]]) \in Seq(Nat)
    BY <2>3
  <2>5. pools' \in [Ids -> Seq(Nat)]
    BY <1>7, <2>4 DEF NextNonces, Remaining, TypeOK
  <2>6. QED
    BY <2>1, <2>2, <2>5, QuietStepType DEF Labels
<1>8. ASSUME NEW w \in Workers, GiveUp(w)
      PROVE  TypeOK'
  BY <1>8, GiveUpStep, NoFrameType, QuietStepType DEF GiveUp, TypeOK, Labels
<1>9. ASSUME NEW w \in Workers, AddCommitment(w), ~GiveUp(w)
      PROVE  TypeOK'
  <2> DEFINE s == frame[w].session
             c == [id |-> Actor[w], nonce |-> frame[w].nonce]
  <2>1. /\ CommitmentAdded(s, c) /\ sessions' \in Seq(Session)
        /\ pc' = [pc EXCEPT ![w] = "list"]
        /\ UNCHANGED <<manager, pools, lastNonce, frame, lists, issued>>
    BY <1>9, AddCommitmentStep
  <2>2. s \in DOMAIN sessions /\ DOMAIN sessions' = DOMAIN sessions
    BY <2>1 DEF CommitmentAdded
  <2>3. pc' \in [Workers -> Labels]
    BY <2>1 DEF TypeOK, Labels
  <2>4. QED
    BY <2>1, <2>2, <2>3 DEF TypeOK
<1>10. ASSUME NEW w \in Workers, GetCommitmentList(w), ~GiveUp(w)
       PROVE  TypeOK'
  <2> DEFINE s == frame[w].session
  <2>1. PICK f \in Frame : WorkerStep(w, "sign", f) /\ f.session = s
    BY <1>10, GetListStep
  <2>2. /\ lists' = lists \cup {<<s, sessions[s].commitments>>}
        /\ UNCHANGED <<sessions, manager, pools, lastNonce, issued>>
    BY <1>10, GetListStep
  <2>3. s \in DOMAIN sessions /\ sessions[s] \in Session
    BY <1>10 DEF GetCommitmentList, TypeOK
  <2>4. /\ pc' \in [Workers -> Labels] /\ frame' \in [Workers -> Frame]
        /\ frame'[w].session = s
        /\ \A v \in Workers \ {w} : pc'[v] = pc[v] /\ frame'[v] = frame[v]
    BY <2>1, WorkerStepType DEF Labels
  <2>5. s \in Nat /\ sessions[s].commitments \subseteq Commitment
    BY <2>3 DEF Session, TypeOK
  <2>6. /\ lists' \subseteq Nat \X SUBSET Commitment
        /\ \A a \in lists' : a[1] \in DOMAIN sessions
    BY <2>2, <2>3, <2>5 DEF TypeOK
  <2>7. \A v \in Workers : pc'[v] # "idle" => frame'[v].session \in DOMAIN sessions
    BY <2>3, <2>4 DEF TypeOK
  <2>8. QED
    BY <2>2, <2>4, <2>6, <2>7 DEF TypeOK
<1>11. ASSUME NEW w \in Workers, RoundTwo(w)
       PROVE  TypeOK'
  <2>1. PICK f \in Frame :
          WorkerStep(w, "share", f) /\ f.session = frame[w].session
    BY <1>11, RoundTwoStep
  <2>2. /\ issued' = issued \cup {ShareOf(w)}
        /\ UNCHANGED <<sessions, manager, pools, lastNonce, lists>>
    BY <1>11 DEF RoundTwo
  <2>3. frame[w].session \in DOMAIN sessions
    BY <1>11 DEF RoundTwo, TypeOK
  <2>4. /\ pc' \in [Workers -> Labels] /\ frame' \in [Workers -> Frame]
        /\ frame'[w].session = frame[w].session
        /\ \A v \in Workers \ {w} : pc'[v] = pc[v] /\ frame'[v] = frame[v]
    BY <2>1, WorkerStepType DEF Labels
  <2>5. \A v \in Workers : pc'[v] # "idle" => frame'[v].session \in DOMAIN sessions
    BY <2>3, <2>4 DEF TypeOK
  <2>6. /\ issued' \subseteq Share
        /\ \A x \in issued' : x.session \in DOMAIN sessions
    BY <2>2, <2>3, ShareOfType DEF TypeOK
  <2>7. QED
    BY <2>2, <2>4, <2>5, <2>6 DEF TypeOK
<1>12. ASSUME NEW w \in Workers, AddSignatureShare(w)
       PROVE  TypeOK'
  <2>1. pools \in [Ids -> Seq(Nat)]
    BY DEF TypeOK
  <2>2. QED
    BY <1>12, <2>1, AddShareStep, NoFrameType, QuietStepType DEF Labels
<1>13. CASE UNCHANGED vars
  BY <1>13 DEF vars, TypeOK
<1>14. QED
  BY <1>1, <1>2, <1>3, <1>4, <1>5, <1>6, <1>7, <1>8, <1>9, <1>10, <1>11, <1>12,
     <1>13 DEF Next, Step

\* The variables keep their shapes, whatever the workers and the manager do.
THEOREM TypeSafety == Spec => []TypeOK
BY InitTypeOK, NextTypeOK, PTL DEF Spec

-----------------------------------------------------------------------------
(* The sessions' commitments: what ListStable and SharesFit rest on.       *)

\* A session has at most one commitment of each of its participants.
Keyed ==
  \A s \in DOMAIN sessions :
    /\ IsFiniteSet(sessions[s].commitments)
    /\ \A c \in sessions[s].commitments :
         /\ c.id \in ToSet(sessions[s].participantIDs)
         /\ \A d \in sessions[s].commitments : c.id = d.id => c = d

\* A list that was handed out is what the session holds, and complete.
ListsFull ==
  \A a \in lists :
    /\ a[2] = sessions[a[1]].commitments
    /\ \A i \in ToSet(sessions[a[1]].participantIDs) : Added(a[2], i)

\* A worker that waits for the list or signs has its commitment in the session.
Committed ==
  \A w \in Workers :
    pc[w] \in {"list", "sign"} =>
      [id |-> Actor[w], nonce |-> frame[w].nonce]
        \in sessions[frame[w].session].commitments

SessionInv == TypeOK /\ Keyed /\ ListsFull /\ Committed /\ SharesFit

\* As many commitments as participants: none is missing, and the list of
\* participants named nobody twice.
LEMMA EnoughIsComplete ==
  ASSUME NEW sn \in Session, IsFiniteSet(sn.commitments), Enough(sn),
         \A c \in sn.commitments :
           /\ c.id \in ToSet(sn.participantIDs)
           /\ \A d \in sn.commitments : c.id = d.id => c = d
  PROVE  \A i \in ToSet(sn.participantIDs) : Added(sn.commitments, i)
<1> DEFINE ids == sn.participantIDs
           n == Len(ids)
           P == ToSet(ids)
           C == sn.commitments
           f == [c \in C |-> c.id]
<1>1. ids \in Seq(Ids) /\ n \in Nat /\ DOMAIN ids = 1 .. n
  BY DEF Session
<1>2. ids \in Surjection(1 .. n, P)
  BY <1>1 DEF Surjection, ToSet
<1>3. IsFiniteSet(1 .. n) /\ Cardinality(1 .. n) = n
  BY <1>1, FS_Interval
<1>4. IsFiniteSet(P) /\ Cardinality(P) <= n
  BY <1>2, <1>3, FS_Surjection
<1>5. f \in Injection(C, P)
  BY DEF Injection, IsInjective
<1> HIDE DEF f, P
<1>6. /\ Cardinality(C) <= Cardinality(P)
      /\ Cardinality(C) = Cardinality(P) <=> f \in Surjection(C, P)
  BY <1>4, <1>5, FS_Injection
<1>7. Cardinality(P) \in Nat /\ Cardinality(C) \in Nat
  BY <1>4, FS_CardinalityType
<1>8. Cardinality(C) = Cardinality(P)
  BY <1>1, <1>4, <1>6, <1>7 DEF Enough
<1>9. \A i \in P : \E c \in C : f[c] = i
  BY <1>6, <1>8 DEF Surjection
<1>10. QED
  BY <1>9 DEF f, P, Added

LEMMA KeyedKept ==
  ASSUME Keyed, CommitmentsKept PROVE Keyed'
<1> SUFFICES ASSUME NEW s \in DOMAIN sessions'
             PROVE  /\ IsFiniteSet(sessions'[s].commitments)
                    /\ \A c \in sessions'[s].commitments :
                         /\ c.id \in ToSet(sessions'[s].participantIDs)
                         /\ \A d \in sessions'[s].commitments : c.id = d.id => c = d
  BY DEF Keyed
<1>1. CASE s \in DOMAIN sessions
  BY <1>1 DEF Keyed, CommitmentsKept
<1>2. CASE s \notin DOMAIN sessions
  BY <1>2, FS_EmptySet DEF CommitmentsKept
<1>3. QED
  BY <1>1, <1>2

LEMMA KeyedAdded ==
  ASSUME Keyed, NEW s, NEW c, CommitmentAdded(s, c) PROVE Keyed'
<1> SUFFICES ASSUME NEW t \in DOMAIN sessions
             PROVE  /\ IsFiniteSet(sessions'[t].commitments)
                    /\ \A b \in sessions'[t].commitments :
                         /\ b.id \in ToSet(sessions'[t].participantIDs)
                         /\ \A d \in sessions'[t].commitments : b.id = d.id => b = d
  BY DEF Keyed, CommitmentAdded
<1>1. CASE t # s
  BY <1>1 DEF Keyed, CommitmentAdded
<1>2. CASE t = s
  <2>1. sessions'[s].commitments = sessions[s].commitments \cup {c}
    BY DEF CommitmentAdded
  <2>2. IsFiniteSet(sessions'[s].commitments)
    <3>1. IsFiniteSet(sessions[s].commitments)
      BY <1>2 DEF Keyed
    <3>2. QED
      BY <2>1, <3>1, FS_AddElement
  <2>3. \A b \in sessions[s].commitments : b.id # c.id
    BY DEF CommitmentAdded, Added
  <2>4. QED
    BY <1>2, <2>1, <2>2, <2>3 DEF Keyed, CommitmentAdded
<1>3. QED
  BY <1>1, <1>2

\* Commitments stay: shares and lists go on fitting the sessions.
LEMMA FitsKept ==
  ASSUME TypeOK, ListsFull, SharesFit, CommitmentsKept
  PROVE  /\ \A a \in lists :
              /\ a[2] = sessions'[a[1]].commitments
              /\ \A i \in ToSet(sessions'[a[1]].participantIDs) : Added(a[2], i)
         /\ \A x \in issued :
              [id |-> x.id, nonce |-> x.nonce] \in sessions'[x.session].commitments
         /\ \A w \in Workers : pc[w] # "idle" =>
              sessions'[frame[w].session].commitments
                = sessions[frame[w].session].commitments
<1>1. /\ \A a \in lists : a[1] \in DOMAIN sessions
      /\ \A x \in issued : x.session \in DOMAIN sessions
      /\ \A w \in Workers : pc[w] # "idle" => frame[w].session \in DOMAIN sessions
  BY DEF TypeOK
<1>2. \A s \in DOMAIN sessions :
        /\ sessions'[s].participantIDs = sessions[s].participantIDs
        /\ sessions'[s].commitments = sessions[s].commitments
  BY DEF CommitmentsKept
<1>3. QED
  BY <1>1, <1>2 DEF ListsFull, SharesFit

\* A worker moves on, and no commitment, list or share changes.
LEMMA QuietStepInv ==
  ASSUME SessionInv, NEW w \in Workers, NEW label \in Labels, NEW f \in Frame,
         WorkerStep(w, label, f), CommitmentsKept, UNCHANGED <<lists, issued>>,
         TypeOK',
         label \in {"list", "sign"} =>
           /\ pc[w] \in {"list", "sign"}
           /\ f.session = frame[w].session /\ f.nonce = frame[w].nonce
  PROVE  SessionInv'
<1>1. /\ pc'[w] = label /\ frame'[w] = f
      /\ \A v \in Workers \ {w} : pc'[v] = pc[v] /\ frame'[v] = frame[v]
  BY WorkerStepType DEF SessionInv
<1>2. Keyed'
  BY KeyedKept DEF SessionInv
<1>3. /\ ListsFull' /\ SharesFit'
      /\ \A v \in Workers : pc[v] # "idle" =>
           sessions'[frame[v].session].commitments
             = sessions[frame[v].session].commitments
  BY FitsKept DEF SessionInv, ListsFull, SharesFit, Added
<1>4. Committed'
  <2> SUFFICES ASSUME NEW v \in Workers, pc'[v] \in {"list", "sign"}
               PROVE  [id |-> Actor[v], nonce |-> frame'[v].nonce]
                        \in sessions'[frame'[v].session].commitments
    BY DEF Committed
  <2>1. /\ pc[v] \in {"list", "sign"}
        /\ frame'[v].session = frame[v].session
        /\ frame'[v].nonce = frame[v].nonce
    BY <1>1
  <2>2. QED
    BY <1>3, <2>1 DEF SessionInv, Committed
<1>5. QED
  BY <1>2, <1>3, <1>4 DEF SessionInv

\* Nothing a worker, a list or a share depends on changes.
LEMMA IdleStepInv ==
  ASSUME SessionInv, TypeOK', CommitmentsKept, UNCHANGED <<pc, frame, lists, issued>>
  PROVE  SessionInv'
<1>1. Keyed'
  BY KeyedKept DEF SessionInv
<1>2. /\ ListsFull' /\ SharesFit'
      /\ \A v \in Workers : pc[v] # "idle" =>
           sessions'[frame[v].session].commitments
             = sessions[frame[v].session].commitments
  BY FitsKept DEF SessionInv, ListsFull, SharesFit, Added
<1>3. Committed'
  BY <1>2 DEF SessionInv, Committed
<1>4. QED
  BY <1>1, <1>2, <1>3 DEF SessionInv

LEMMA AddCommitmentInv ==
  ASSUME SessionInv, TypeOK', NEW w \in Workers, AddCommitment(w), ~GiveUp(w)
  PROVE  SessionInv'
<1> DEFINE s == frame[w].session
           c == [id |-> Actor[w], nonce |-> frame[w].nonce]
<1>1. /\ CommitmentAdded(s, c) /\ pc' = [pc EXCEPT ![w] = "list"]
      /\ UNCHANGED <<frame, lists, issued>>
  BY AddCommitmentStep DEF SessionInv
<1>2. Keyed'
  BY <1>1, KeyedAdded DEF SessionInv
<1> HIDE DEF c
<1>3. \A t \in DOMAIN sessions :
        sessions[t].commitments \subseteq sessions'[t].commitments
  BY <1>1 DEF CommitmentAdded
<1>4. ListsFull'
  <2> SUFFICES ASSUME NEW a \in lists
               PROVE  /\ a[2] = sessions'[a[1]].commitments
                      /\ \A i \in ToSet(sessions'[a[1]].participantIDs) : Added(a[2], i)
    BY <1>1 DEF ListsFull, Added
  <2>1. a[1] \in DOMAIN sessions
    BY DEF SessionInv, TypeOK
  <2>2. a[1] # s
    BY <1>1 DEF CommitmentAdded, SessionInv, ListsFull
  <2>3. QED
    BY <1>1, <2>1, <2>2 DEF CommitmentAdded, SessionInv, ListsFull
<1>5. SharesFit'
  BY <1>1, <1>3 DEF SessionInv, TypeOK, SharesFit
<1>6. Committed'
  <2> SUFFICES ASSUME NEW v \in Workers, pc'[v] \in {"list", "sign"}
               PROVE  [id |-> Actor[v], nonce |-> frame[v].nonce]
                        \in sessions'[frame[v].session].commitments
    BY <1>1 DEF Committed
  <2>1. CASE v = w
    BY <1>1, <2>1 DEF CommitmentAdded, c
  <2>2. CASE v # w
    <3>1. pc[v] \in {"list", "sign"}
      BY <1>1, <2>2 DEF SessionInv, TypeOK
    <3>2. frame[v].session \in DOMAIN sessions
      BY <3>1 DEF SessionInv, TypeOK
    <3>3. QED
      BY <1>3, <3>1, <3>2 DEF SessionInv, Committed
  <2>3. QED
    BY <2>1, <2>2
<1>7. QED
  BY <1>2, <1>4, <1>5, <1>6 DEF SessionInv

LEMMA GetListInv ==
  ASSUME SessionInv, TypeOK', NEW w \in Workers, GetCommitmentList(w), ~GiveUp(w)
  PROVE  SessionInv'
<1> DEFINE s == frame[w].session
<1>1. PICK f \in Frame :
        /\ WorkerStep(w, "sign", f)
        /\ f.session = s /\ f.nonce = frame[w].nonce
  BY GetListStep DEF SessionInv
<1>2. /\ Enough(sessions[s])
      /\ lists' = lists \cup {<<s, sessions[s].commitments>>}
      /\ UNCHANGED <<sessions, manager, pools, lastNonce, issued>>
  BY GetListStep DEF SessionInv
<1>3. pc[w] = "list" /\ s \in DOMAIN sessions /\ sessions[s] \in Session
  BY DEF GetCommitmentList, SessionInv, TypeOK
<1>4. /\ frame'[w] = f
      /\ \A v \in Workers \ {w} : pc'[v] = pc[v] /\ frame'[v] = frame[v]
  BY <1>1, WorkerStepType DEF SessionInv, Labels
<1>5. \A i \in ToSet(sessions[s].participantIDs) : Added(sessions[s].commitments, i)
  BY <1>2, <1>3, EnoughIsComplete DEF SessionInv, Keyed
<1>6. ListsFull'
  BY <1>2, <1>5 DEF SessionInv, ListsFull, Added
<1>7. Committed'
  <2> SUFFICES ASSUME NEW v \in Workers, pc'[v] \in {"list", "sign"}
               PROVE  [id |-> Actor[v], nonce |-> frame'[v].nonce]
                        \in sessions[frame'[v].session].commitments
    BY <1>2 DEF Committed
  <2>1. /\ pc[v] \in {"list", "sign"}
        /\ frame'[v].session = frame[v].session
        /\ frame'[v].nonce = frame[v].nonce
    BY <1>1, <1>3, <1>4
  <2>2. QED
    BY <2>1 DEF SessionInv, Committed
<1>8. Keyed' /\ SharesFit'
  BY <1>2 DEF SessionInv, Keyed, SharesFit
<1>9. QED
  BY <1>6, <1>7, <1>8 DEF SessionInv

LEMMA RoundTwoInv ==
  ASSUME SessionInv, TypeOK', NEW w \in Workers, RoundTwo(w)
  PROVE  SessionInv'
<1>1. PICK f \in Frame : WorkerStep(w, "share", f)
  BY RoundTwoStep DEF SessionInv
<1>2. /\ issued' = issued \cup {ShareOf(w)}
      /\ UNCHANGED <<sessions, manager, pools, lastNonce, lists>>
      /\ pc[w] = "sign"
  BY DEF RoundTwo
<1>3. /\ pc'[w] = "share"
      /\ \A v \in Workers \ {w} : pc'[v] = pc[v] /\ frame'[v] = frame[v]
  BY <1>1, WorkerStepType DEF SessionInv, Labels
<1>4. Committed'
  BY <1>2, <1>3 DEF SessionInv, Committed
<1>5. SharesFit'
  <2>1. [id |-> Actor[w], nonce |-> frame[w].nonce]
          \in sessions[frame[w].session].commitments
    BY <1>2 DEF SessionInv, Committed
  <2>2. QED
    BY <1>2, <2>1, ShareOfType DEF SessionInv, SharesFit
<1>6. Keyed' /\ ListsFull'
  BY <1>2 DEF SessionInv, Keyed, ListsFull, Added
<1>7. QED
  BY <1>4, <1>5, <1>6 DEF SessionInv

LEMMA InitSessionInv == Init => SessionInv
BY InitTypeOK DEF Init, SessionInv, Keyed, ListsFull, Committed, SharesFit

LEMMA NextSessionInv == SessionInv /\ [Next]_vars => SessionInv'
<1> SUFFICES ASSUME SessionInv, [Next]_vars
             PROVE  SessionInv'
  OBVIOUS
<1>0. TypeOK /\ TypeOK'
  BY NextTypeOK DEF SessionInv
<1>1. ASSUME NEW ids \in Requests, CreateSession(ids)
      PROVE  SessionInv'
  BY <1>0, <1>1, CreateSessionStep, IdleStepInv DEF CreateSession
<1>2. ASSUME NEW s \in DOMAIN sessions, DeleteSession(s)
      PROVE  SessionInv'
  BY <1>0, <1>2, SameSessions, IdleStepInv DEF DeleteSession
<1>3. ASSUME NEW s \in DOMAIN sessions, Cancel(s)
      PROVE  SessionInv'
  BY <1>0, <1>3, CancelStep, IdleStepInv DEF Cancel
<1>4. ASSUME NEW i \in Ids, Preprocess(i) \/ Zeroize(i)
      PROVE  SessionInv'
  BY <1>0, <1>4, SameSessions, IdleStepInv DEF Preprocess, Zeroize
<1>5. ASSUME NEW w \in Workers, NEW s \in manager, GetSession(w, s)
      PROVE  SessionInv'
  <2>1. PICK f \in Frame : WorkerStep(w, "next", f)
    BY <1>0, <1>5, GetSessionStep
  <2>2. CommitmentsKept /\ UNCHANGED <<lists, issued>>
    BY <1>5, SameSessions DEF GetSession
  <2>3. QED
    BY <1>0, <2>1, <2>2, QuietStepInv DEF Labels
<1>6. ASSUME NEW w \in Workers, NextNonces(w)
      PROVE  SessionInv'
  <2>1. PICK f \in Frame : WorkerStep(w, "commit", f)
    BY <1>0, <1>6, NextNoncesStep
  <2>2. CommitmentsKept /\ UNCHANGED <<lists, issued>>
    BY <1>6, SameSessions DEF NextNonces
  <2>3. QED
    BY <1>0, <2>1, <2>2, QuietStepInv DEF Labels
<1>7. ASSUME NEW w \in Workers, GiveUp(w)
      PROVE  SessionInv'
  <2>1. CommitmentsKept /\ UNCHANGED <<lists, issued>>
    BY <1>7, SameSessions DEF GiveUp
  <2>2. QED
    BY <1>0, <1>7, <2>1, GiveUpStep, NoFrameType, QuietStepInv DEF Labels
<1>8. ASSUME NEW w \in Workers, AddSignatureShare(w)
      PROVE  SessionInv'
  BY <1>0, <1>8, AddShareStep, NoFrameType, QuietStepInv DEF Labels
<1>9. CASE UNCHANGED vars
  BY <1>0, <1>9, SameSessions, IdleStepInv DEF vars
<1>10. QED
  BY <1>0, <1>1, <1>2, <1>3, <1>4, <1>5, <1>6, <1>7, <1>8, <1>9,
     AddCommitmentInv, GetListInv, RoundTwoInv DEF Next, Step

\* All participants of a session bind their shares to one commitment list:
\* GetCommitmentList never answers twice differently for one session.
THEOREM OneListPerSession == Spec => []ListStable
<1>1. SessionInv => ListStable
  <2> SUFFICES ASSUME SessionInv, NEW a \in lists, NEW b \in lists, a[1] = b[1]
               PROVE  a = b
    BY DEF ListStable
  <2>1. a[2] = b[2]
    BY DEF SessionInv, ListsFull
  <2>2. QED
    BY <2>1 DEF SessionInv, TypeOK
<1>2. QED
  BY <1>1, InitSessionInv, NextSessionInv, PTL DEF Spec

\* Every share RoundTwo computes is made from nonces whose commitment the
\* session holds, and keeps, although requests are repeated, refused and canceled.
THEOREM SharesFitCommitments == Spec => []SharesFit
<1>1. SessionInv => SharesFit
  BY DEF SessionInv
<1>2. QED
  BY <1>1, InitSessionInv, NextSessionInv, PTL DEF Spec

-----------------------------------------------------------------------------
(* The nonces of pools and workers: what the ledger rests on.              *)

Holding == {"commit", "list", "sign"}

\* Pools hold nonces that were drawn.
Pooled ==
  \A i \in Ids : \A k \in DOMAIN pools[i] : pools[i][k] \in 1 .. lastNonce

\* A worker has nonces, which were drawn, from Next until it signed.
Held ==
  \A w \in Workers :
    /\ frame[w].nonce \in 0 .. lastNonce
    /\ frame[w].nonce # NoNonce <=> pc[w] \in Holding

\* No nonce is in two places.
PoolsApart ==
  \A i, j \in Ids : \A k \in DOMAIN pools[i], l \in DOMAIN pools[j] :
    pools[i][k] = pools[j][l] => i = j /\ k = l

HeldApart ==
  \A w \in Workers, i \in Ids : \A k \in DOMAIN pools[i] :
    pools[i][k] # frame[w].nonce

HeldOnce ==
  \A v, w \in Workers :
    frame[v].nonce = frame[w].nonce /\ frame[v].nonce # NoNonce => v = w

NonceInv == Pooled /\ Held /\ PoolsApart /\ HeldApart /\ HeldOnce

\* Workers keep or lose their nonces, and the pools stay.
LEMMA KeepOrLose ==
  ASSUME TypeOK, NonceInv, UNCHANGED <<pools, lastNonce>>,
         \A w \in Workers :
           /\ frame'[w].nonce \in {frame[w].nonce, NoNonce}
           /\ frame'[w].nonce # NoNonce <=> pc'[w] \in Holding
  PROVE  NonceInv'
<1>1. Pooled' /\ PoolsApart'
  BY DEF NonceInv, Pooled, PoolsApart
<1>2. Held'
  BY DEF NonceInv, Held, NoNonce, TypeOK
<1>3. HeldApart'
  <2>1. \A i \in Ids : \A k \in DOMAIN pools[i] : pools[i][k] # NoNonce
    BY DEF NonceInv, Pooled, NoNonce, TypeOK
  <2>2. QED
    BY <2>1 DEF NonceInv, HeldApart
<1>4. HeldOnce'
  BY DEF NonceInv, HeldOnce
<1>5. QED
  BY <1>1, <1>2, <1>3, <1>4 DEF NonceInv

\* A worker moves on, keeping or losing its nonces.
LEMMA WorkerKeepsOrLoses ==
  ASSUME TypeOK, NonceInv, UNCHANGED <<pools, lastNonce>>,
         NEW w \in Workers, NEW label \in Labels, NEW f \in Frame,
         WorkerStep(w, label, f), f.nonce \in {frame[w].nonce, NoNonce},
         f.nonce # NoNonce <=> label \in Holding
  PROVE  /\ NonceInv'
         /\ \A v \in Workers : frame'[v].nonce \in {frame[v].nonce, NoNonce}
         /\ frame'[w].nonce = f.nonce
         /\ \A v \in Workers \ {w} : frame'[v].nonce = frame[v].nonce
<1>1. /\ pc'[w] = label /\ frame'[w] = f
      /\ \A v \in Workers \ {w} : pc'[v] = pc[v] /\ frame'[v] = frame[v]
  BY WorkerStepType
<1>2. \A v \in Workers :
        /\ frame'[v].nonce \in {frame[v].nonce, NoNonce}
        /\ frame'[v].nonce # NoNonce <=> pc'[v] \in Holding
  BY <1>1 DEF NonceInv, Held
<1>3. QED
  BY <1>1, <1>2, KeepOrLose

\* Preprocess: the new pool holds numbers above every other.
LEMMA PreprocessNonces ==
  ASSUME TypeOK, NonceInv, NEW i \in Ids, Preprocess(i)
  PROVE  /\ NonceInv'
         /\ ToSet(pools'[i]) = lastNonce + 1 .. lastNonce'
         /\ pools[i] = <<>>
         /\ \A j \in Ids \ {i} : pools'[j] = pools[j]
         /\ lastNonce' \in Nat /\ lastNonce' > lastNonce
<1>1. /\ lastNonce \in Nat /\ Count \in Nat /\ Count > 0
      /\ lastNonce' = lastNonce + Count
      /\ UNCHANGED <<pc, frame>>
      /\ pools[i] = <<>>
  BY SessionAssumptions DEF Preprocess, TypeOK
<1>2. /\ pools'[i] = Drawn
      /\ \A j \in Ids \ {i} : pools'[j] = pools[j]
  BY DEF Preprocess, TypeOK
<1>3. /\ DOMAIN Drawn = 1 .. Count
      /\ \A k \in 1 .. Count : Drawn[k] = lastNonce + k
  BY DEF Drawn
<1>4. ToSet(pools'[i]) = lastNonce + 1 .. lastNonce'
  <2>1. ToSet(pools'[i]) = {Drawn[k] : k \in 1 .. Count}
    BY <1>2, <1>3 DEF ToSet
  <2>2. ASSUME NEW n \in lastNonce + 1 .. lastNonce'
        PROVE  \E k \in 1 .. Count : n = Drawn[k]
    <3>1. n - lastNonce \in 1 .. Count /\ n = lastNonce + (n - lastNonce)
      BY <1>1
    <3>2. QED
      BY <1>3, <3>1
  <2>3. \A k \in 1 .. Count : Drawn[k] \in lastNonce + 1 .. lastNonce'
    BY <1>1, <1>3
  <2>4. QED
    BY <2>1, <2>2, <2>3
<1>5. \A j \in Ids : \A k \in DOMAIN pools'[j] :
        \/ j # i /\ k \in DOMAIN pools[j] /\ pools'[j][k] = pools[j][k]
        \/ j = i /\ k \in 1 .. Count /\ pools'[j][k] = lastNonce + k
  BY <1>2, <1>3
<1>6. Pooled'
  BY <1>1, <1>5 DEF NonceInv, Pooled
<1>7. Held'
  BY <1>1 DEF NonceInv, Held
<1>8. PoolsApart'
  <2> SUFFICES ASSUME NEW j \in Ids, NEW l \in Ids,
                      NEW k \in DOMAIN pools'[j], NEW m \in DOMAIN pools'[l],
                      pools'[j][k] = pools'[l][m]
               PROVE  j = l /\ k = m
    BY DEF PoolsApart
  <2>1. CASE j # i /\ l # i
    BY <1>5, <2>1 DEF NonceInv, PoolsApart
  <2>2. CASE j = i /\ l = i
    BY <1>1, <1>5, <2>2
  <2>3. CASE j = i /\ l # i
    BY <1>1, <1>5, <2>3 DEF NonceInv, Pooled
  <2>4. CASE j # i /\ l = i
    BY <1>1, <1>5, <2>4 DEF NonceInv, Pooled
  <2>5. QED
    BY <2>1, <2>2, <2>3, <2>4
<1>9. HeldApart'
  BY <1>1, <1>5 DEF NonceInv, HeldApart, Held
<1>10. HeldOnce'
  BY <1>1 DEF NonceInv, HeldOnce
<1>11. QED
  BY <1>1, <1>2, <1>4, <1>6, <1>7, <1>8, <1>9, <1>10 DEF NonceInv

LEMMA ZeroizeNonces ==
  ASSUME TypeOK, NonceInv, NEW i \in Ids, Zeroize(i)
  PROVE  NonceInv' /\ \A j \in Ids : pools'[j] = pools[j] \/ pools'[j] = <<>>
<1>1. /\ pools'[i] = <<>> /\ \A j \in Ids \ {i} : pools'[j] = pools[j]
      /\ UNCHANGED <<lastNonce, pc, frame>>
  BY DEF Zeroize, TypeOK
<1>2. \A j \in Ids : \A k \in DOMAIN pools'[j] :
        k \in DOMAIN pools[j] /\ pools'[j][k] = pools[j][k]
  BY <1>1
<1>3. Pooled' /\ Held'
  BY <1>1, <1>2 DEF NonceInv, Pooled, Held
<1>4. PoolsApart'
  BY <1>2 DEF NonceInv, PoolsApart
<1>5. HeldApart' /\ HeldOnce'
  BY <1>1, <1>2 DEF NonceInv, HeldApart, HeldOnce
<1>6. QED
  BY <1>1, <1>3, <1>4, <1>5 DEF NonceInv

\* Next: the head of the pool moves to the worker.
LEMMA NextNoncesMoves ==
  ASSUME TypeOK, NonceInv, NEW w \in Workers, NextNonces(w)
  PROVE  /\ NonceInv'
         /\ frame'[w].nonce = pools[Actor[w]][1] /\ 1 \in DOMAIN pools[Actor[w]]
         /\ \A v \in Workers \ {w} : frame'[v].nonce = frame[v].nonce
         /\ \A j \in Ids : \A k \in DOMAIN pools'[j] :
              \E l \in DOMAIN pools[j] : pools'[j][k] = pools[j][l]
<1> DEFINE i == Actor[w]
           p == pools[i]
<1>1. i \in Ids /\ p \in Seq(Nat) /\ p # <<>> /\ pc[w] = "next"
  BY SessionAssumptions DEF NextNonces, TypeOK
<1>2. /\ pools'[i] = Tail(p) /\ \A j \in Ids \ {i} : pools'[j] = pools[j]
      /\ UNCHANGED lastNonce
  BY <1>1 DEF NextNonces, Remaining, TypeOK
<1>3. PICK f \in Frame : WorkerStep(w, "commit", f) /\ f.nonce = Head(p)
  BY NextNoncesStep
<1>4. /\ pc'[w] = "commit" /\ frame'[w].nonce = p[1]
      /\ \A v \in Workers \ {w} : pc'[v] = pc[v] /\ frame'[v] = frame[v]
  BY <1>1, <1>3, WorkerStepType DEF Labels
<1> HIDE DEF i
<1>5. /\ 1 \in DOMAIN p
      /\ \A k \in DOMAIN Tail(p) : k + 1 \in DOMAIN p /\ Tail(p)[k] = p[k + 1]
      /\ DOMAIN Tail(p) \subseteq Nat \ {0}
  BY <1>1
<1>6. \A j \in Ids : \A k \in DOMAIN pools'[j] :
        \/ j # i /\ k \in DOMAIN pools[j] /\ pools'[j][k] = pools[j][k]
        \/ /\ j = i /\ k \in Nat \ {0} /\ k + 1 \in DOMAIN pools[j]
           /\ pools'[j][k] = pools[j][k + 1]
  BY <1>2, <1>5
<1>7. p[1] \in 1 .. lastNonce /\ lastNonce \in Nat
  BY <1>1, <1>5 DEF NonceInv, Pooled, TypeOK
<1>8. Pooled'
  BY <1>2, <1>6 DEF NonceInv, Pooled
<1>9. Held'
  BY <1>2, <1>4, <1>7 DEF NonceInv, Held, NoNonce, Holding
<1>10. PoolsApart'
  <2> SUFFICES ASSUME NEW j \in Ids, NEW l \in Ids,
                      NEW k \in DOMAIN pools'[j], NEW m \in DOMAIN pools'[l],
                      pools'[j][k] = pools'[l][m]
               PROVE  j = l /\ k = m
    BY DEF PoolsApart
  <2>1. j = l
    BY <1>6 DEF NonceInv, PoolsApart
  <2>2. CASE j # i
    BY <1>6, <2>1, <2>2 DEF NonceInv, PoolsApart
  <2>3. CASE j = i
    <3>1. k + 1 = m + 1 /\ k \in Nat /\ m \in Nat
      BY <1>6, <2>1, <2>3 DEF NonceInv, PoolsApart
    <3>2. QED
      BY <2>1, <3>1
  <2>4. QED
    BY <2>2, <2>3
<1>11. HeldApart'
  <2> SUFFICES ASSUME NEW v \in Workers, NEW j \in Ids, NEW k \in DOMAIN pools'[j]
               PROVE  pools'[j][k] # frame'[v].nonce
    BY DEF HeldApart
  <2>1. CASE v = w
    <3>1. PICK l \in DOMAIN pools[j] :
            pools'[j][k] = pools[j][l] /\ (j = i => l # 1)
      BY <1>6
    <3>2. pools[j][l] # pools[i][1]
      BY <1>1, <1>5, <3>1 DEF NonceInv, PoolsApart
    <3>3. QED
      BY <1>4, <2>1, <3>1, <3>2
  <2>2. CASE v # w
    BY <1>4, <1>6, <2>2 DEF NonceInv, HeldApart
  <2>3. QED
    BY <2>1, <2>2
<1>12. HeldOnce'
  <2>1. \A v \in Workers : frame[v].nonce # p[1]
    BY <1>1, <1>5 DEF NonceInv, HeldApart
  <2>2. QED
    BY <1>4, <2>1 DEF NonceInv, HeldOnce
<1>13. QED
  BY <1>4, <1>5, <1>6, <1>8, <1>9, <1>10, <1>11, <1>12 DEF NonceInv, i

LEMMA InitNonceInv == Init => NonceInv
BY NoFrameType
   DEF Init, NonceInv, Pooled, Held, PoolsApart, HeldApart, HeldOnce, NoNonce, Holding

-----------------------------------------------------------------------------
(* Every step is a step of the nonce ledger.                               *)

LEMMA InLive ==
  \A n : n \in Live <=>
    /\ n # NoNonce
    /\ \/ \E i \in Ids : \E k \in DOMAIN pools[i] : n = pools[i][k]
       \/ \E w \in Workers : n = frame[w].nonce
<1> DEFINE A == UNION {ToSet(pools[i]) : i \in Ids}
           B == {frame[w].nonce : w \in Workers}
<1>1. \A i \in Ids : \A n :
        n \in ToSet(pools[i]) <=> \E k \in DOMAIN pools[i] : n = pools[i][k]
  BY DEF ToSet
<1>2. \A n : n \in A <=> \E i \in Ids : n \in ToSet(pools[i])
  OBVIOUS
<1>3. \A n : n \in B <=> \E w \in Workers : n = frame[w].nonce
  OBVIOUS
<1>4. Live = (A \cup B) \ {NoNonce}
  BY DEF Live
<1> HIDE DEF A, B
<1>5. QED
  BY <1>1, <1>2, <1>3, <1>4

LEMMA InLiveNext ==
  \A n : n \in Live' <=>
    /\ n # NoNonce
    /\ \/ \E i \in Ids : \E k \in DOMAIN pools'[i] : n = pools'[i][k]
       \/ \E w \in Workers : n = frame'[w].nonce
<1> DEFINE A == UNION {ToSet(pools'[i]) : i \in Ids}
           B == {frame'[w].nonce : w \in Workers}
<1>1. \A i \in Ids : \A n :
        n \in ToSet(pools'[i]) <=> \E k \in DOMAIN pools'[i] : n = pools'[i][k]
  BY DEF ToSet
<1>2. \A n : n \in A <=> \E i \in Ids : n \in ToSet(pools'[i])
  OBVIOUS
<1>3. \A n : n \in B <=> \E w \in Workers : n = frame'[w].nonce
  OBVIOUS
<1>4. Live' = (A \cup B) \ {NoNonce}
  BY DEF Live
<1> HIDE DEF A, B
<1>5. QED
  BY <1>1, <1>2, <1>3, <1>4

LEMMA LedgerLose ==
  ASSUME UNCHANGED <<lastNonce, issued>>, \A n \in Live' : n \in Live
  PROVE  Ledger!LedgerNext
<1>1. Live' = Live \ (Live \ Live')
  OBVIOUS
<1>2. Ledger!Lose
  BY <1>1 DEF Ledger!Lose
<1>3. QED
  BY <1>2 DEF Ledger!LedgerNext

\* A worker keeps or loses its nonces: both invariant and ledger follow.
LEMMA WorkerLedger ==
  ASSUME TypeOK, NonceInv, UNCHANGED <<pools, lastNonce, issued>>,
         NEW w \in Workers, NEW label \in Labels, NEW f \in Frame,
         WorkerStep(w, label, f), f.nonce \in {frame[w].nonce, NoNonce},
         f.nonce # NoNonce <=> label \in Holding
  PROVE  NonceInv' /\ Ledger!LedgerNext
<1>1. NonceInv' /\ \A v \in Workers : frame'[v].nonce \in {frame[v].nonce, NoNonce}
  BY WorkerKeepsOrLoses
<1>2. \A n \in Live' : n \in Live
  BY <1>1, InLive, InLiveNext
<1>3. QED
  BY <1>1, <1>2, LedgerLose

\* The pools and the nonces of the workers stay as they are.
LEMMA StillLedger ==
  ASSUME TypeOK, NonceInv, UNCHANGED <<pools, lastNonce, pc, frame, issued>>
  PROVE  NonceInv' /\ Ledger!LedgerNext
<1>1. NonceInv'
  BY KeepOrLose DEF NonceInv, Held
<1>2. \A n \in Live' : n \in Live
  BY InLive, InLiveNext
<1>3. QED
  BY <1>1, <1>2, LedgerLose

LEMMA PreprocessLedger ==
  ASSUME TypeOK, NonceInv, NEW i \in Ids, Preprocess(i)
  PROVE  NonceInv' /\ Ledger!LedgerNext
<1>1. /\ NonceInv'
      /\ ToSet(pools'[i]) = lastNonce + 1 .. lastNonce'
      /\ pools[i] = <<>>
      /\ \A j \in Ids \ {i} : pools'[j] = pools[j]
      /\ lastNonce' \in Nat /\ lastNonce' > lastNonce
  BY PreprocessNonces
<1>2. UNCHANGED <<frame, issued>> /\ lastNonce \in Nat
  BY DEF Preprocess, TypeOK
<1> DEFINE New == lastNonce + 1 .. lastNonce'
<1>3. \A n \in New : n # NoNonce
  BY <1>1, <1>2 DEF NoNonce
<1>4. \A n : n \in New <=> \E k \in DOMAIN pools'[i] : n = pools'[i][k]
  BY <1>1 DEF ToSet
<1> HIDE DEF New
<1>5. Live' = (Live \ {}) \cup New
  <2>1. ASSUME NEW n \in Live' PROVE n \in Live \cup New
    BY <1>1, <1>2, <1>4, <2>1, InLive, InLiveNext
  <2>2. ASSUME NEW n \in Live \cup New PROVE n \in Live'
    BY <1>1, <1>2, <1>3, <1>4, <2>2, InLive, InLiveNext
  <2>3. QED
    BY <2>1, <2>2
<1>6. Ledger!Generate
  BY <1>1, <1>2, <1>5 DEF New, Ledger!Generate
<1>7. QED
  BY <1>1, <1>6 DEF Ledger!LedgerNext

LEMMA RoundTwoLedger ==
  ASSUME TypeOK, NonceInv, NEW w \in Workers, RoundTwo(w)
  PROVE  NonceInv' /\ Ledger!LedgerNext
<1> DEFINE n == frame[w].nonce
<1>1. PICK f \in Frame : WorkerStep(w, "share", f) /\ f.nonce = NoNonce
  BY RoundTwoStep
<1>2. /\ issued' = issued \cup {ShareOf(w)} /\ UNCHANGED <<pools, lastNonce>>
      /\ pc[w] = "sign"
  BY DEF RoundTwo
<1>3. /\ NonceInv' /\ frame'[w].nonce = NoNonce
      /\ \A v \in Workers \ {w} : frame'[v].nonce = frame[v].nonce
  BY <1>1, <1>2, WorkerKeepsOrLoses DEF Labels, Holding
<1>4. n # NoNonce /\ n \in Live
  BY <1>2, InLive DEF NonceInv, Held, Holding
<1>5. /\ \A v \in Workers \ {w} : frame[v].nonce # n
      /\ \A i \in Ids : \A k \in DOMAIN pools[i] : pools[i][k] # n
  BY <1>4 DEF NonceInv, HeldOnce, HeldApart
<1>6. Live' = Live \ {n}
  <2>1. ASSUME NEW m \in Live' PROVE m \in Live \ {n}
    BY <1>2, <1>3, <1>5, <2>1, InLive, InLiveNext
  <2>2. ASSUME NEW m \in Live \ {n} PROVE m \in Live'
    BY <1>2, <1>3, <2>2, InLive, InLiveNext
  <2>3. QED
    BY <2>1, <2>2
<1>7. \A s, t \in issued' \ issued : s = t /\ s.nonce = n
  BY <1>2, ShareOfType
<1>8. Ledger!Spend
  BY <1>2, <1>4, <1>6, <1>7 DEF Ledger!Spend
<1>9. QED
  BY <1>3, <1>8 DEF Ledger!LedgerNext

LEMMA NextLedger ==
  ASSUME TypeOK, NonceInv, [Next]_vars
  PROVE  NonceInv' /\ Ledger!LedgerNext
<1>1. ASSUME NEW ids \in Requests, CreateSession(ids)
      PROVE  NonceInv' /\ Ledger!LedgerNext
  BY <1>1, StillLedger DEF CreateSession
<1>2. ASSUME NEW s \in DOMAIN sessions, DeleteSession(s) \/ Cancel(s)
      PROVE  NonceInv' /\ Ledger!LedgerNext
  BY <1>2, StillLedger DEF DeleteSession, Cancel
<1>3. ASSUME NEW i \in Ids, Zeroize(i)
      PROVE  NonceInv' /\ Ledger!LedgerNext
  <2>1. NonceInv' /\ \A j \in Ids : pools'[j] = pools[j] \/ pools'[j] = <<>>
    BY <1>3, ZeroizeNonces
  <2>2. UNCHANGED <<lastNonce, issued, frame>>
    BY <1>3 DEF Zeroize
  <2>3. \A n \in Live' : n \in Live
    BY <2>1, <2>2, InLive, InLiveNext
  <2>4. QED
    BY <2>1, <2>2, <2>3, LedgerLose
<1>4. ASSUME NEW w \in Workers, NextNonces(w)
      PROVE  NonceInv' /\ Ledger!LedgerNext
  <2>1. /\ NonceInv'
        /\ frame'[w].nonce = pools[Actor[w]][1] /\ 1 \in DOMAIN pools[Actor[w]]
        /\ \A v \in Workers \ {w} : frame'[v].nonce = frame[v].nonce
        /\ \A j \in Ids : \A k \in DOMAIN pools'[j] :
             \E l \in DOMAIN pools[j] : pools'[j][k] = pools[j][l]
    BY <1>4, NextNoncesMoves
  <2>2. UNCHANGED <<lastNonce, issued>> /\ Actor[w] \in Ids
    BY <1>4, SessionAssumptions DEF NextNonces
  <2>3. ASSUME NEW n \in Live' PROVE n \in Live
    <3>1. CASE \E j \in Ids : \E k \in DOMAIN pools'[j] : n = pools'[j][k]
      BY <2>1, <2>3, <3>1, InLive, InLiveNext
    <3>2. CASE \E v \in Workers : n = frame'[v].nonce
      BY <2>1, <2>2, <2>3, <3>2, InLive, InLiveNext
    <3>3. QED
      BY <2>3, <3>1, <3>2, InLiveNext
  <2>4. QED
    BY <2>1, <2>2, <2>3, LedgerLose
<1>5. ASSUME NEW w \in Workers, NEW s \in manager, GetSession(w, s)
      PROVE  NonceInv' /\ Ledger!LedgerNext
  <2>1. PICK f \in Frame : WorkerStep(w, "next", f) /\ f.nonce = frame[w].nonce
    BY <1>5, GetSessionStep
  <2>2. UNCHANGED <<pools, lastNonce, issued>> /\ pc[w] = "idle"
    BY <1>5 DEF GetSession
  <2>3. f.nonce = NoNonce
    BY <2>1, <2>2 DEF NonceInv, Held, Holding
  <2>4. QED
    BY <2>1, <2>2, <2>3, WorkerLedger DEF Labels, Holding
<1>6. ASSUME NEW w \in Workers, GiveUp(w)
      PROVE  NonceInv' /\ Ledger!LedgerNext
  BY <1>6, GiveUpStep, NoFrameType, WorkerLedger DEF GiveUp, Labels, Holding, NoNonce
<1>7. ASSUME NEW w \in Workers, AddCommitment(w), ~GiveUp(w)
      PROVE  NonceInv' /\ Ledger!LedgerNext
  <2>1. /\ pc' = [pc EXCEPT ![w] = "list"]
        /\ UNCHANGED <<pools, lastNonce, frame, issued>>
    BY <1>7, AddCommitmentStep
  <2>2. /\ pc[w] = "commit" /\ frame[w] \in Frame
        /\ frame \in [Workers -> Frame]
    BY <1>7 DEF AddCommitment, TypeOK
  <2>3. frame[w].nonce # NoNonce
    BY <2>2 DEF NonceInv, Held, Holding
  <2>4. WorkerStep(w, "list", frame[w])
    BY <2>1, <2>2 DEF WorkerStep
  <2>5. QED
    BY <2>1, <2>2, <2>3, <2>4, WorkerLedger DEF Labels, Holding
<1>8. ASSUME NEW w \in Workers, GetCommitmentList(w), ~GiveUp(w)
      PROVE  NonceInv' /\ Ledger!LedgerNext
  <2>1. PICK f \in Frame : WorkerStep(w, "sign", f) /\ f.nonce = frame[w].nonce
    BY <1>8, GetListStep
  <2>2. UNCHANGED <<pools, lastNonce, issued>>
    BY <1>8, GetListStep
  <2>3. pc[w] = "list"
    BY <1>8 DEF GetCommitmentList
  <2>4. f.nonce # NoNonce
    BY <2>1, <2>3 DEF NonceInv, Held, Holding
  <2>5. QED
    BY <2>1, <2>2, <2>4, WorkerLedger DEF Labels, Holding
<1>9. ASSUME NEW w \in Workers, AddSignatureShare(w)
      PROVE  NonceInv' /\ Ledger!LedgerNext
  BY <1>9, AddShareStep, NoFrameType, WorkerLedger DEF Labels, Holding, NoNonce
<1>10. CASE UNCHANGED vars
  BY <1>10, StillLedger DEF vars
<1>11. QED
  BY <1>1, <1>2, <1>3, <1>4, <1>5, <1>6, <1>7, <1>8, <1>9, <1>10,
     PreprocessLedger, RoundTwoLedger DEF Next, Step

\* Pools and workers together implement the nonce ledger: whatever is
\* repeated, refused or canceled, a prepared nonce makes at most one share.
THEOREM LedgerImplemented == Spec => ImplementsLedger
<1>1. Init => Ledger!LedgerInit
  <2> SUFFICES ASSUME Init PROVE Ledger!LedgerInit
    OBVIOUS
  <2>1. \A n : n \notin Live
    BY NoFrameType, InLive DEF Init, NoNonce
  <2>2. QED
    BY <2>1 DEF Init, Ledger!LedgerInit
<1>2. Init => TypeOK /\ NonceInv
  BY InitTypeOK, InitNonceInv
<1>3. TypeOK /\ NonceInv /\ [Next]_vars => (TypeOK /\ NonceInv)'
  BY NextTypeOK, NextLedger
<1>4. TypeOK /\ NonceInv /\ [Next]_vars
        => [Ledger!LedgerNext]_(Ledger!ledgerVars)
  BY NextLedger
<1>5. QED
  BY <1>1, <1>2, <1>3, <1>4, PTL DEF Spec, ImplementsLedger, Ledger!LedgerSpec
=============================================================================
