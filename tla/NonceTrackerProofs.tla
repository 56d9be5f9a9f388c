-------------------------- MODULE NonceTrackerProofs --------------------------
(***************************************************************************)
(* Proofs about the nonce tracker, for every number of goroutines and      *)
(* every set of sessions, participants and commitments, overlapping keys   *)
(* included.                                                               *)
(***************************************************************************)
EXTENDS NonceTracker, TLAPS

\* The key of a call's commitment is one of the keys.
LEMMA HashOfType ==
  ASSUME NEW call \in Call, NEW kind \in Kinds
  PROVE  HashOf(call, kind) \in Hashes
BY DEF HashOf, Hashes, Call

LEMMA NoCallType == NoCall \in Call
<1>1. /\ (CHOOSE s \in Sessions : TRUE) \in Sessions
      /\ (CHOOSE i \in Ids : TRUE) \in Ids
      /\ (CHOOSE d \in Data : TRUE) \in Data
  BY NonceTrackerAssumptions
<1>2. QED
  BY <1>1 DEF NoCall, Call

\* A caller inside a call has a call number, so its entries are not None.
Numbered == \A c \in Callers : pc[c] # "idle" => frame[c].number # 0

TrackerInv == TypeOK /\ Numbered

-----------------------------------------------------------------------------
(* Type correctness.                                                       *)

LEMMA ReturnType ==
  ASSUME TrackerInv, NEW c \in Callers, NEW reused \in BOOLEAN,
         Return(c, reused)
  PROVE  /\ pc' \in [Callers -> Kinds \cup {"idle"}]
         /\ frame' \in [Callers -> Call]
         /\ result' \in [Callers -> Result]
         /\ Numbered'
<1>1. pc' \in [Callers -> Kinds \cup {"idle"}] /\ frame' \in [Callers -> Call]
  BY NoCallType DEF Return, TrackerInv, TypeOK
<1>2. result' \in [Callers -> Result]
  BY DEF Return, TrackerInv, TypeOK, Result
<1>3. Numbered'
  BY DEF Return, TrackerInv, TypeOK, Numbered
<1>4. QED
  BY <1>1, <1>2, <1>3

LEMMA ProceedType ==
  ASSUME TrackerInv, NEW c \in Callers, Proceed(c)
  PROVE  /\ pc' \in [Callers -> Kinds \cup {"idle"}]
         /\ frame' \in [Callers -> Call]
         /\ result' \in [Callers -> Result]
         /\ Numbered'
<1>1. CASE Return(c, FALSE)
  BY <1>1, ReturnType
<1>2. CASE /\ pc[c] = "hiding"
           /\ pc' = [pc EXCEPT ![c] = "binding"]
           /\ UNCHANGED <<frame, result>>
  BY <1>2 DEF TrackerInv, TypeOK, Numbered, Kinds
<1>3. QED
  BY <1>1, <1>2 DEF Proceed

LEMMA RemoveType ==
  ASSUME TrackerInv, NEW gone, Remove(gone)
  PROVE  /\ commitments' \in [Hashes -> Entry \cup {None}]
         /\ frame' \in [Callers -> Call]
         /\ Numbered'
<1>1. commitments' \in [Hashes -> Entry \cup {None}]
  BY DEF Remove, TrackerInv, TypeOK
<1>2. ASSUME NEW c \in Callers
      PROVE  /\ frame'[c] \in Call
             /\ frame'[c].number = frame[c].number
  <2>1. frame[c] \in Call
    BY DEF TrackerInv, TypeOK
  <2>2. frame'[c] = [frame[c] EXCEPT !.known = @ \ gone,
                                     !.intact = @ /\ gone = {}]
    BY DEF Remove
  <2>3. QED
    BY <2>1, <2>2 DEF Call
<1>3. frame' \in [Callers -> Call]
  BY <1>2 DEF Remove
<1>4. Numbered'
  BY <1>2 DEF Remove, TrackerInv, Numbered
<1>5. QED
  BY <1>1, <1>3, <1>4

LEMMA InitTracker == Init => TrackerInv
<1> SUFFICES ASSUME Init PROVE TrackerInv
  OBVIOUS
<1>1. [call |-> NoCall, reused |-> TRUE] \in Result
  BY NoCallType DEF Result
<1>2. QED
  BY <1>1, NoCallType DEF Init, TrackerInv, TypeOK, Numbered

LEMMA NextTracker ==
  ASSUME TrackerInv, [Next]_vars PROVE TrackerInv'
<1>1. CASE Tick
  BY <1>1 DEF Tick, TrackerInv, TypeOK, Numbered
<1>2. ASSUME NEW c \in Callers, NEW op \in {"Record", "Check"},
             NEW s \in Sessions, NEW i \in Ids, NEW data \in [Kinds -> Data],
             Begin(c, op, s, i, data)
      PROVE  TrackerInv'
  <2> DEFINE f == [op |-> op, session |-> s, id |-> i, data |-> data,
                   at |-> now, number |-> calls + 1, known |-> Tracked,
                   intact |-> TRUE]
  <2>1. f \in Call /\ f.number # 0
    BY DEF TrackerInv, TypeOK, Call, Tracked
  <2> HIDE DEF f
  <2>2. /\ frame' = [frame EXCEPT ![c] = f]
        /\ pc' = [pc EXCEPT ![c] = "hiding"]
        /\ calls' = calls + 1
        /\ UNCHANGED <<commitments, sessionIndex, now, result>>
    BY <1>2 DEF Begin, f
  <2>3. TypeOK'
    BY <2>1, <2>2 DEF TrackerInv, TypeOK, Kinds
  <2>4. Numbered'
    BY <2>1, <2>2 DEF TrackerInv, TypeOK, Numbered
  <2>5. QED
    BY <2>3, <2>4 DEF TrackerInv
<1>3. ASSUME NEW c \in Callers, RecordCommitment(c) PROVE TrackerInv'
  <2> DEFINE f == frame[c]
             h == HashOf(f, pc[c])
             e == [session |-> f.session, at |-> f.at, by |-> f.number]
  <2>1. f \in Call /\ f.number # 0 /\ pc[c] \in Kinds
    BY <1>3 DEF RecordCommitment, TrackerInv, TypeOK, Numbered
  <2>2. h \in Hashes /\ e \in Entry /\ f.session \in Sessions
    BY <2>1, HashOfType DEF Call, Entry
  <2>3. CASE Return(c, TRUE) /\ UNCHANGED <<commitments, sessionIndex>>
    BY <1>3, <2>3, ReturnType DEF RecordCommitment, TrackerInv, TypeOK
  <2>4. CASE /\ commitments' = [commitments EXCEPT ![h] = e]
             /\ sessionIndex' = [sessionIndex EXCEPT ![f.session] = @ \cup {h}]
             /\ Proceed(c)
    <3>1. /\ commitments' \in [Hashes -> Entry \cup {None}]
          /\ sessionIndex' \in [Sessions -> SUBSET Hashes]
      BY <2>2, <2>4 DEF TrackerInv, TypeOK
    <3>2. QED
      BY <1>3, <2>4, <3>1, ProceedType DEF RecordCommitment, TrackerInv, TypeOK
  <2>5. QED
    BY <1>3, <2>3, <2>4 DEF RecordCommitment, Stamp
<1>4. ASSUME NEW c \in Callers, CheckCommitment(c) PROVE TrackerInv'
  <2>1. Return(c, TRUE) \/ Proceed(c)
    BY <1>4 DEF CheckCommitment
  <2>2. QED
    BY <1>4, <2>1, ReturnType, ProceedType
       DEF CheckCommitment, TrackerInv, TypeOK
<1>5. ASSUME NEW s \in Sessions, ClearSession(s) PROVE TrackerInv'
  <2>1. Remove(sessionIndex[s])
    BY <1>5 DEF ClearSession
  <2>2. sessionIndex' \in [Sessions -> SUBSET Hashes]
    BY <1>5 DEF ClearSession, TrackerInv, TypeOK
  <2>3. QED
    BY <2>1, <2>2, RemoveType, ZenonT(40) DEF Remove, TrackerInv, TypeOK
<1>6. ASSUME NEW ttl \in TTLs, ClearExpired(ttl) PROVE TrackerInv'
  <2>1. Remove(Expired(ttl))
    BY <1>6 DEF ClearExpired
  <2>2. sessionIndex' \in [Sessions -> SUBSET Hashes]
    BY <1>6 DEF ClearExpired, RebuiltIndex, TrackerInv, TypeOK
  <2>3. QED
    BY <2>1, <2>2, RemoveType DEF Remove, TrackerInv, TypeOK
<1>7. CASE UNCHANGED vars
  BY <1>7 DEF vars, TrackerInv, TypeOK, Numbered
<1>8. QED
  BY <1>1, <1>2, <1>3, <1>4, <1>5, <1>6, <1>7 DEF Next

-----------------------------------------------------------------------------
(* The session index.                                                      *)

\* An entry is not the zero value.
LEMMA EntryIsNotNone == None \notin Entry
BY DEF None, Entry

\* Steps that leave both maps alone.
LEMMA IndexUnchanged ==
  ASSUME IndexConsistent, UNCHANGED <<commitments, sessionIndex>>
  PROVE  IndexConsistent'
BY DEF IndexConsistent, Tracked

LEMMA NextIndex ==
  ASSUME TrackerInv, IndexConsistent, [Next]_vars
  PROVE  IndexConsistent'
<1>1. CASE Tick
  BY <1>1, IndexUnchanged DEF Tick
<1>2. ASSUME NEW c \in Callers, NEW op \in {"Record", "Check"},
             NEW s \in Sessions, NEW i \in Ids, NEW data \in [Kinds -> Data],
             Begin(c, op, s, i, data)
      PROVE  IndexConsistent'
  BY <1>2, IndexUnchanged DEF Begin
<1>3. ASSUME NEW c \in Callers, RecordCommitment(c) PROVE IndexConsistent'
  <2> DEFINE f == frame[c]
             h == HashOf(f, pc[c])
             e == [session |-> f.session, at |-> f.at, by |-> f.number]
  <2>1. f \in Call /\ f.number # 0 /\ pc[c] \in Kinds
    BY <1>3 DEF RecordCommitment, TrackerInv, TypeOK, Numbered
  <2>2. h \in Hashes /\ e \in Entry /\ e.session = f.session
        /\ f.session \in Sessions
    BY <2>1, HashOfType DEF Call, Entry
  <2>3. CASE UNCHANGED <<commitments, sessionIndex>>
    BY <2>3, IndexUnchanged
  <2>4. CASE /\ ~Exists(c)
             /\ commitments' = [commitments EXCEPT ![h] = e]
             /\ sessionIndex' = [sessionIndex EXCEPT ![f.session] = @ \cup {h}]
    <3>1. h \notin Tracked
      BY <2>4 DEF Exists
    <3>2. e # None
      BY <2>2, EntryIsNotNone
    <3> HIDE DEF e, h
    <3>3. /\ commitments'[h] = e
          /\ \A g \in Hashes : g # h => commitments'[g] = commitments[g]
      BY <2>2, <2>4 DEF TrackerInv, TypeOK
    <3>4. Tracked' = Tracked \cup {h}
      BY <2>2, <3>2, <3>3 DEF Tracked
    <3>5. \A s \in Sessions : sessionIndex'[s] =
            IF s = f.session THEN sessionIndex[s] \cup {h} ELSE sessionIndex[s]
      BY <2>2, <2>4 DEF TrackerInv, TypeOK
    <3>6. ASSUME NEW s \in Sessions
          PROVE  {g \in Tracked' : commitments'[g].session = s} =
                   {g \in Tracked : commitments[g].session = s}
                     \cup (IF s = f.session THEN {h} ELSE {})
      <4>1. \A g \in Tracked : commitments'[g] = commitments[g]
        BY <3>1, <3>3 DEF Tracked
      <4>2. QED
        BY <2>2, <3>1, <3>3, <3>4, <4>1
    <3>7. QED
      BY <3>5, <3>6 DEF IndexConsistent
  <2>5. QED
    BY <1>3, <2>3, <2>4 DEF RecordCommitment, Stamp
<1>4. ASSUME NEW c \in Callers, CheckCommitment(c) PROVE IndexConsistent'
  BY <1>4, IndexUnchanged DEF CheckCommitment
<1>5. ASSUME NEW gone, Remove(gone)
      PROVE  /\ Tracked' = Tracked \ gone
             /\ \A h \in Tracked \ gone : commitments'[h] = commitments[h]
  BY <1>5 DEF Remove, Tracked, TrackerInv, TypeOK
<1>6. ASSUME NEW s \in Sessions, ClearSession(s) PROVE IndexConsistent'
  <2>1. /\ Tracked' = Tracked \ sessionIndex[s]
        /\ \A h \in Tracked \ sessionIndex[s] : commitments'[h] = commitments[h]
    BY <1>5, <1>6 DEF ClearSession
  <2>2. \A x \in Sessions :
          sessionIndex'[x] = IF x = s THEN {} ELSE sessionIndex[x]
    BY <1>6 DEF ClearSession, TrackerInv, TypeOK
  <2>3. QED
    BY <2>1, <2>2 DEF IndexConsistent
<1>7. ASSUME NEW ttl \in TTLs, ClearExpired(ttl) PROVE IndexConsistent'
  <2> DEFINE gone == Expired(ttl)
  <2>1. /\ Tracked' = Tracked \ gone
        /\ \A h \in Tracked \ gone : commitments'[h] = commitments[h]
    BY <1>5, <1>7 DEF ClearExpired
  <2>2. \A x \in Sessions :
          sessionIndex'[x] = IF \E h \in gone : commitments[h].session = x
                               THEN {h \in sessionIndex[x] : h \in Tracked \ gone}
                               ELSE sessionIndex[x]
    BY <1>7 DEF ClearExpired, RebuiltIndex
  <2>3. gone \subseteq Tracked
    BY DEF Expired
  <2> HIDE DEF gone
  <2>4. ASSUME NEW x \in Sessions
        PROVE  sessionIndex'[x] = {h \in Tracked' : commitments'[h].session = x}
    <3>1. sessionIndex[x] = {h \in Tracked : commitments[h].session = x}
      BY DEF IndexConsistent
    <3>2. {h \in Tracked' : commitments'[h].session = x} =
            {h \in Tracked \ gone : commitments[h].session = x}
      BY <2>1
    <3>3. sessionIndex'[x] = sessionIndex[x] \ gone
      BY <2>2, <2>3, <3>1
    <3>4. QED
      BY <3>1, <3>2, <3>3
  <2>5. QED
    BY <2>4 DEF IndexConsistent
<1>8. CASE UNCHANGED vars
  BY <1>8, IndexUnchanged DEF vars
<1>9. QED
  BY <1>1, <1>2, <1>3, <1>4, <1>6, <1>7, <1>8 DEF Next

\* The commitment map and the session index of the commitment tracker agree
\* after every critical section, so clearing a session removes exactly its
\* own entries, for any sessions, participants and key overlaps.
THEOREM IndexIsConsistent == Spec => []IndexConsistent
<1>1. Init => IndexConsistent
  BY DEF Init, IndexConsistent, Tracked
<1>2. QED
  BY <1>1, InitTracker, NextTracker, NextIndex, PTL DEF Spec

-----------------------------------------------------------------------------
(* The inductive invariants of the two properties about calls.             *)

\* What was tracked since a call began is tracked now.
KnownTracked == \A c \in Callers : frame[c].known \subseteq Tracked

\* A call that is at its binding commitment did not find the hiding one.
HidingWasNew ==
  \A c \in Callers :
    pc[c] = "binding" => HashOf(frame[c], "hiding") \notin frame[c].known

ReuseInv == KnownTracked /\ HidingWasNew /\ ReuseReported

\* A call's number is its own.
NumbersUnique ==
  /\ \A c \in Callers : pc[c] # "idle" =>
       /\ frame[c].number <= calls
       /\ \A d \in Callers : result[d].call.number # frame[c].number
       /\ \A d \in Callers \ {c} :
            pc[d] # "idle" => frame[d].number # frame[c].number
  /\ \A c \in Callers : result[c].call.number <= calls
  /\ \A h \in Hashes : commitments[h].by <= calls

\* The entries a call stores carry its session and its time stamp.
Belongs(entry, call) ==
  entry.by # 0 /\ entry.by = call.number =>
    entry.session = call.session /\ entry.at = call.at

EntriesBelong ==
  \A h \in Hashes, c \in Callers :
    /\ pc[c] # "idle" => Belongs(commitments[h], frame[c])
    /\ Belongs(commitments[h], result[c].call)

\* The hiding entry of an undisturbed call is there when the binding one is
\* recorded.
HidingStored ==
  \A c \in Callers :
    pc[c] = "binding" /\ frame[c].op = "Record" /\ frame[c].intact
      => commitments[HashOf(frame[c], "hiding")].by = frame[c].number

\* A result without reuse is the result of a call.
SuccessIsNumbered ==
  \A c \in Callers : ~result[c].reused => result[c].call.number # 0

PairInv ==
  /\ NumbersUnique /\ EntriesBelong /\ HidingStored /\ SuccessIsNumbered
  /\ PairsForgottenTogether

-----------------------------------------------------------------------------
(* What the steps do to the calls.                                         *)

\* Only the call of c moves.
OthersKeep(c) ==
  \A d \in Callers \ {c} :
    pc'[d] = pc[d] /\ frame'[d] = frame[d] /\ result'[d] = result[d]

Ended(c, reused) ==
  /\ OthersKeep(c)
  /\ pc'[c] = "idle"
  /\ frame'[c] = NoCall
  /\ result'[c] = [call |-> frame[c], reused |-> reused]

\* The call of c has the hiding commitment behind it.
Halfway(c) ==
  /\ OthersKeep(c)
  /\ pc[c] = "hiding"
  /\ pc'[c] = "binding"
  /\ frame' = frame
  /\ result' = result

LEMMA ReturnEnds ==
  ASSUME TrackerInv, NEW c \in Callers, NEW reused, Return(c, reused)
  PROVE  Ended(c, reused)
BY DEF Return, Ended, OthersKeep, TrackerInv, TypeOK

LEMMA ProceedEffect ==
  ASSUME TrackerInv, NEW c \in Callers, Proceed(c)
  PROVE  Halfway(c) \/ (pc[c] = "binding" /\ Ended(c, FALSE))
<1>1. CASE pc[c] = "binding" /\ Return(c, FALSE)
  BY <1>1, ReturnEnds
<1>2. CASE /\ pc[c] = "hiding"
           /\ pc' = [pc EXCEPT ![c] = "binding"]
           /\ UNCHANGED <<frame, result>>
  BY <1>2 DEF Halfway, OthersKeep, TrackerInv, TypeOK
<1>3. QED
  BY <1>1, <1>2 DEF Proceed

\* The entry a recording call stores.
EntryOf(f) == [session |-> f.session, at |-> f.at, by |-> f.number]

\* RecordCommitment stores an entry under a key that was free.
StoredNew(c) ==
  LET h == HashOf(frame[c], pc[c])
  IN  /\ h \in Hashes
      /\ commitments[h] = None
      /\ commitments' = [commitments EXCEPT ![h] = EntryOf(frame[c])]

LEMMA RecordEffect ==
  ASSUME TrackerInv, NEW c \in Callers, RecordCommitment(c)
  PROVE  /\ pc[c] \in Kinds /\ frame[c] \in Call /\ frame[c].op = "Record"
         /\ calls' = calls
         /\ \/ commitments' = commitments /\ Ended(c, TRUE)
            \/ /\ StoredNew(c) /\ ~Exists(c)
               /\ Halfway(c) \/ (pc[c] = "binding" /\ Ended(c, FALSE))
<1>1. /\ pc[c] \in Kinds /\ frame[c] \in Call /\ frame[c].op = "Record"
      /\ calls' = calls
  BY DEF RecordCommitment, TrackerInv, TypeOK
<1>2. HashOf(frame[c], pc[c]) \in Hashes
  BY <1>1, HashOfType
<1>3. CASE Return(c, TRUE) /\ UNCHANGED <<commitments, sessionIndex>>
  BY <1>1, <1>3, ReturnEnds
<1>4. CASE /\ ~Exists(c)
           /\ commitments' = [commitments EXCEPT ![HashOf(frame[c], pc[c])] =
                                EntryOf(frame[c])]
           /\ Proceed(c)
  <2>1. StoredNew(c)
    BY <1>2, <1>4 DEF StoredNew, Exists, Tracked
  <2>2. QED
    BY <1>1, <1>4, <2>1, ProceedEffect
<1>5. QED
  BY <1>3, <1>4 DEF RecordCommitment, Stamp, EntryOf

LEMMA CheckEffect ==
  ASSUME TrackerInv, NEW c \in Callers, CheckCommitment(c)
  PROVE  /\ pc[c] \in Kinds /\ frame[c] \in Call /\ frame[c].op = "Check"
         /\ calls' = calls /\ commitments' = commitments
         /\ \/ Ended(c, TRUE)
            \/ /\ ~Exists(c)
               /\ Halfway(c) \/ (pc[c] = "binding" /\ Ended(c, FALSE))
<1>1. /\ pc[c] \in Kinds /\ frame[c] \in Call /\ frame[c].op = "Check"
      /\ calls' = calls /\ commitments' = commitments
  BY DEF CheckCommitment, TrackerInv, TypeOK
<1>2. Return(c, TRUE) \/ (~Exists(c) /\ Proceed(c))
  BY DEF CheckCommitment
<1>3. QED
  BY <1>1, <1>2, ReturnEnds, ProceedEffect

\* What a call knows when it begins.
Begun(c, op, s, i, data) ==
  LET f == frame'[c]
  IN  /\ OthersKeep(c)
      /\ pc[c] = "idle" /\ pc'[c] = "hiding"
      /\ f.op = op /\ f.number = calls + 1 /\ f.known = Tracked
      /\ result' = result
      /\ commitments' = commitments
      /\ calls' = calls + 1

LEMMA BeginEffect ==
  ASSUME TrackerInv, NEW c \in Callers, NEW op, NEW s, NEW i, NEW data,
         Begin(c, op, s, i, data)
  PROVE  Begun(c, op, s, i, data)
<1> DEFINE f == [op |-> op, session |-> s, id |-> i, data |-> data, at |-> now,
                 number |-> calls + 1, known |-> Tracked, intact |-> TRUE]
<1>1. f.op = op /\ f.number = calls + 1 /\ f.known = Tracked
  OBVIOUS
<1> HIDE DEF f
<1>2. /\ pc[c] = "idle" /\ pc' = [pc EXCEPT ![c] = "hiding"]
      /\ frame' = [frame EXCEPT ![c] = f]
      /\ UNCHANGED <<commitments, result>> /\ calls' = calls + 1
  BY DEF Begin, f
<1>3. frame'[c] = f /\ pc'[c] = "hiding" /\ OthersKeep(c)
  BY <1>2 DEF OthersKeep, TrackerInv, TypeOK
<1>4. QED
  BY <1>1, <1>2, <1>3 DEF Begun

\* Removing entries changes nothing but the ghosts of a call.
LEMMA RemoveEffect ==
  ASSUME TrackerInv, NEW gone, Remove(gone)
  PROVE  /\ \A c \in Callers :
              /\ frame'[c].known = frame[c].known \ gone
              /\ frame'[c].intact = (frame[c].intact /\ gone = {})
              /\ frame'[c].number = frame[c].number
              /\ frame'[c].op = frame[c].op
              /\ frame'[c].session = frame[c].session
              /\ frame'[c].at = frame[c].at
              /\ \A k \in Kinds : HashOf(frame'[c], k) = HashOf(frame[c], k)
         /\ \A h \in Hashes :
              commitments'[h] = IF h \in gone THEN None ELSE commitments[h]
         /\ UNCHANGED <<pc, result, calls>>
<1>1. ASSUME NEW c \in Callers
      PROVE  /\ frame'[c].known = frame[c].known \ gone
             /\ frame'[c].intact = (frame[c].intact /\ gone = {})
             /\ frame'[c].number = frame[c].number
             /\ frame'[c].op = frame[c].op
             /\ frame'[c].session = frame[c].session
             /\ frame'[c].at = frame[c].at
             /\ \A k \in Kinds : HashOf(frame'[c], k) = HashOf(frame[c], k)
  <2> DEFINE f == [frame[c] EXCEPT !.known = @ \ gone,
                                   !.intact = @ /\ gone = {}]
  <2>1. frame[c] \in Call /\ frame'[c] = f
    BY DEF Remove, TrackerInv, TypeOK
  <2>2. /\ f.known = frame[c].known \ gone
        /\ f.number = frame[c].number
        /\ f.op = frame[c].op /\ f.session = frame[c].session
        /\ f.at = frame[c].at /\ f.id = frame[c].id /\ f.data = frame[c].data
    BY <2>1 DEF Call
  <2>3. f.intact = (frame[c].intact /\ gone = {})
    BY <2>1, Zenon DEF Call
  <2> HIDE DEF f
  <2>4. \A k \in Kinds : HashOf(f, k) = HashOf(frame[c], k)
    BY <2>2 DEF HashOf
  <2>5. QED
    BY <2>1, <2>2, <2>3, <2>4, Zenon
<1>2. \A h \in Hashes :
        commitments'[h] = IF h \in gone THEN None ELSE commitments[h]
  BY DEF Remove
<1>3. QED
  BY <1>1, <1>2 DEF Remove

-----------------------------------------------------------------------------
(* No reuse goes unreported.                                               *)

LEMMA NoCallFields == NoCall.known = {} /\ NoCall.number = 0
BY DEF NoCall

LEMMA ResultFields ==
  ASSUME NEW call, NEW reused
  PROVE  /\ [call |-> call, reused |-> reused].call = call
         /\ [call |-> call, reused |-> reused].reused = reused
OBVIOUS

\* A call that is told of a reuse ends.
LEMMA ReuseToldInv ==
  ASSUME TrackerInv, ReuseInv, NEW c \in Callers, Ended(c, TRUE),
         Tracked \subseteq Tracked'
  PROVE  ReuseInv'
<1>1. KnownTracked'
  BY NoCallFields DEF Ended, OthersKeep, ReuseInv, KnownTracked
<1>2. HidingWasNew'
  BY DEF Ended, OthersKeep, ReuseInv, HidingWasNew
<1>3. ReuseReported'
  <2>1. result'[c].reused = TRUE
    BY DEF Ended
  <2>2. \A d \in Callers \ {c} : result'[d] = result[d]
    BY DEF Ended, OthersKeep
  <2>3. QED
    BY <2>1, <2>2, Zenon DEF ReuseInv, ReuseReported
<1>4. QED
  BY <1>1, <1>2, <1>3 DEF ReuseInv

\* A call that found its commitment new goes on, or ends well.
LEMMA NewFoundInv ==
  ASSUME TrackerInv, ReuseInv, NEW c \in Callers, ~Exists(c),
         Tracked \subseteq Tracked',
         Halfway(c) \/ (pc[c] = "binding" /\ Ended(c, FALSE))
  PROVE  ReuseInv'
<1>1. HashOf(frame[c], pc[c]) \notin frame[c].known
  BY DEF Exists, ReuseInv, KnownTracked
<1>2. CASE Halfway(c)
  <2>1. KnownTracked'
    BY <1>2 DEF Halfway, ReuseInv, KnownTracked
  <2>2. HidingWasNew'
    BY <1>1, <1>2 DEF Halfway, OthersKeep, ReuseInv, HidingWasNew
  <2>3. ReuseReported'
    BY <1>2 DEF Halfway, ReuseInv, ReuseReported
  <2>4. QED
    BY <2>1, <2>2, <2>3 DEF ReuseInv
<1>3. CASE pc[c] = "binding" /\ Ended(c, FALSE)
  <2>1. KnownTracked'
    BY <1>3, NoCallFields DEF Ended, OthersKeep, ReuseInv, KnownTracked
  <2>2. HidingWasNew'
    BY <1>3 DEF Ended, OthersKeep, ReuseInv, HidingWasNew
  <2>3. ReuseReported'
    <3>1. result'[c].call = frame[c]
      BY <1>3, ResultFields DEF Ended
    <3>2. \A k \in Kinds : HashOf(frame[c], k) \notin frame[c].known
      BY <1>1, <1>3 DEF ReuseInv, HidingWasNew, Kinds
    <3>3. \A k \in Kinds :
            HashOf(result'[c].call, k) \notin result'[c].call.known
      BY <3>1, <3>2
    <3>4. \A d \in Callers \ {c} : result'[d] = result[d]
      BY <1>3 DEF Ended, OthersKeep
    <3>5. QED
      BY <3>3, <3>4, Zenon DEF ReuseInv, ReuseReported
  <2>4. QED
    BY <2>1, <2>2, <2>3 DEF ReuseInv
<1>4. QED
  BY <1>2, <1>3

LEMMA RemoveReuseInv ==
  ASSUME TrackerInv, ReuseInv, NEW gone, Remove(gone) PROVE ReuseInv'
<1>1. Tracked' = Tracked \ gone
  BY DEF Remove, Tracked, TrackerInv, TypeOK
<1>2. /\ \A c \in Callers :
           /\ frame'[c].known = frame[c].known \ gone
           /\ \A k \in Kinds : HashOf(frame'[c], k) = HashOf(frame[c], k)
      /\ pc' = pc /\ result' = result
  BY RemoveEffect
<1>3. KnownTracked'
  BY <1>1, <1>2 DEF ReuseInv, KnownTracked
<1>4. HidingWasNew'
  BY <1>2 DEF ReuseInv, HidingWasNew, Kinds
<1>5. ReuseReported'
  BY <1>2 DEF ReuseInv, ReuseReported
<1>6. QED
  BY <1>3, <1>4, <1>5 DEF ReuseInv

LEMMA InitReuseInv == Init => ReuseInv
<1> SUFFICES ASSUME Init PROVE ReuseInv
  OBVIOUS
<1>1. KnownTracked /\ HidingWasNew
  BY NoCallFields DEF Init, KnownTracked, HidingWasNew
<1>2. \A c \in Callers : result[c].reused
  BY DEF Init
<1>3. QED
  BY <1>1, <1>2, Zenon DEF ReuseInv, ReuseReported

LEMMA NextReuseInv ==
  ASSUME TrackerInv, ReuseInv, [Next]_vars PROVE ReuseInv'
<1>1. ASSUME UNCHANGED <<commitments, pc, frame, result>> PROVE ReuseInv'
  BY <1>1 DEF ReuseInv, KnownTracked, HidingWasNew, ReuseReported, Tracked
<1>2. ASSUME NEW c \in Callers, NEW op \in {"Record", "Check"},
             NEW s \in Sessions, NEW i \in Ids, NEW data \in [Kinds -> Data],
             Begin(c, op, s, i, data)
      PROVE  ReuseInv'
  <2>1. Begun(c, op, s, i, data)
    BY <1>2, BeginEffect
  <2>2. Tracked' = Tracked
    BY <2>1 DEF Begun, Tracked
  <2>3. KnownTracked' /\ HidingWasNew'
    BY <2>1, <2>2 DEF Begun, OthersKeep, ReuseInv, KnownTracked, HidingWasNew
  <2>4. ReuseReported'
    BY <2>1 DEF Begun, ReuseInv, ReuseReported
  <2>5. QED
    BY <2>3, <2>4 DEF ReuseInv
<1>3. ASSUME NEW c \in Callers, RecordCommitment(c) PROVE ReuseInv'
  <2>1. CASE commitments' = commitments /\ Ended(c, TRUE)
    BY <2>1, ReuseToldInv DEF Tracked
  <2>2. CASE /\ StoredNew(c) /\ ~Exists(c)
             /\ Halfway(c) \/ (pc[c] = "binding" /\ Ended(c, FALSE))
    <3>1. Tracked \subseteq Tracked'
      BY <2>2 DEF StoredNew, Tracked, TrackerInv, TypeOK
    <3>2. QED
      BY <2>2, <3>1, NewFoundInv
  <2>3. QED
    BY <1>3, <2>1, <2>2, RecordEffect
<1>4. ASSUME NEW c \in Callers, CheckCommitment(c) PROVE ReuseInv'
  <2>1. Tracked' = Tracked
    BY <1>4, CheckEffect DEF Tracked
  <2>2. QED
    BY <1>4, <2>1, CheckEffect, ReuseToldInv, NewFoundInv
<1>5. ASSUME NEW s \in Sessions, ClearSession(s) PROVE ReuseInv'
  BY <1>5, RemoveReuseInv DEF ClearSession
<1>6. ASSUME NEW ttl \in TTLs, ClearExpired(ttl) PROVE ReuseInv'
  BY <1>6, RemoveReuseInv DEF ClearExpired
<1>7. QED
  BY <1>1, <1>2, <1>3, <1>4, <1>5, <1>6 DEF Next, vars, Tick

\* RecordSigningCommitments and CheckSigningCommitments never return nil for
\* a commitment that was tracked from the beginning to the end of the call,
\* for any number of goroutines that record, check, clear sessions and clear
\* expired entries between its two lookups.
THEOREM ReuseIsReported == Spec => []ReuseReported
<1>1. ReuseInv => ReuseReported
  BY DEF ReuseInv
<1>2. QED
  BY <1>1, InitTracker, NextTracker, InitReuseInv, NextReuseInv, PTL DEF Spec

-----------------------------------------------------------------------------
(* Pairs are forgotten together.                                           *)

\* The entry under h was stored by this call.
StoredBy(h, call) == commitments[h].by = call.number

\* The pair of a call is stored as one.
Together(call) ==
  StoredBy(HashOf(call, "hiding"), call) <=> StoredBy(HashOf(call, "binding"), call)

\* The property, for one caller.
PairOf(c) ==
  result[c].call.op = "Record" /\ ~result[c].reused /\ result[c].call.intact
    => Together(result[c].call)

LEMMA PairsOfCallers ==
  /\ PairsForgottenTogether <=> \A c \in Callers : PairOf(c)
  /\ PairsForgottenTogether' <=> \A c \in Callers : PairOf(c)'
BY DEF PairsForgottenTogether, PairOf, Together, StoredBy

\* Numbers are numbers.
LEMMA NumberTypes ==
  ASSUME TrackerInv
  PROVE  /\ \A c \in Callers : frame[c] \in Call /\ frame[c].number \in Nat
         /\ \A c \in Callers :
              result[c].call \in Call /\ result[c].call.number \in Nat
         /\ \A h \in Hashes : commitments[h].by \in Nat
         /\ \A call \in Call, k \in Kinds : HashOf(call, k) \in Hashes
         /\ None.by = 0
         /\ calls \in Nat
<1>1. \A c \in Callers : frame[c] \in Call /\ frame[c].number \in Nat
  BY DEF TrackerInv, TypeOK, Call
<1>2. \A c \in Callers : result[c].call \in Call /\ result[c].call.number \in Nat
  BY DEF TrackerInv, TypeOK, Result, Call
<1>3. None.by = 0
  BY DEF None
<1>4. \A h \in Hashes : commitments[h].by \in Nat
  BY <1>3 DEF TrackerInv, TypeOK, Entry
<1>5. QED
  BY <1>1, <1>2, <1>3, <1>4, HashOfType DEF TrackerInv, TypeOK

\* Nothing is stored: a result that was right stays right.
LEMMA SamePair ==
  ASSUME PairInv, NEW c \in Callers, commitments' = commitments,
         result'[c] = result[c]
  PROVE  PairOf(c)' /\ (~result[c].reused => result'[c].call.number # 0)
<1>1. PairOf(c)
  BY PairsOfCallers DEF PairInv
<1>2. QED
  BY <1>1, Zenon DEF PairOf, Together, StoredBy, PairInv, SuccessIsNumbered

LEMMA InitPairInv == Init => PairInv
<1> SUFFICES ASSUME Init PROVE PairInv
  OBVIOUS
<1>1. \A c \in Callers : result[c].reused = TRUE /\ result[c].call = NoCall
  BY DEF Init
<1>2. None.by = 0
  BY DEF None
<1>3. NumbersUnique /\ EntriesBelong
  BY <1>1, <1>2, NoCallFields DEF Init, NumbersUnique, EntriesBelong, Belongs
<1>4. HidingStored
  BY DEF Init, HidingStored
<1>5. SuccessIsNumbered /\ PairsForgottenTogether
  BY <1>1, Zenon DEF SuccessIsNumbered, PairsForgottenTogether
<1>6. QED
  BY <1>3, <1>4, <1>5 DEF PairInv

LEMMA BeginPairInv ==
  ASSUME TrackerInv, PairInv, NEW c \in Callers, NEW op, NEW s, NEW i, NEW data,
         Begun(c, op, s, i, data)
  PROVE  PairInv'
<1>1. /\ OthersKeep(c) /\ pc'[c] = "hiding" /\ frame'[c].number = calls + 1
      /\ result' = result /\ commitments' = commitments /\ calls' = calls + 1
  BY DEF Begun
<1>2. NumbersUnique'
  BY <1>1, NumberTypes DEF OthersKeep, PairInv, NumbersUnique
<1>3. EntriesBelong'
  <2> SUFFICES ASSUME NEW h \in Hashes, NEW d \in Callers
               PROVE  /\ pc'[d] # "idle" => Belongs(commitments[h], frame'[d])
                      /\ Belongs(commitments[h], result[d].call)
    BY <1>1 DEF EntriesBelong
  <2>1. Belongs(commitments[h], result[d].call)
    BY DEF PairInv, EntriesBelong
  <2>2. CASE d = c
    <3>1. commitments[h].by # frame'[c].number
      BY <1>1, NumberTypes DEF PairInv, NumbersUnique
    <3>2. QED
      BY <2>1, <2>2, <3>1 DEF Belongs
  <2>3. CASE d # c
    BY <1>1, <2>1, <2>3 DEF OthersKeep, PairInv, EntriesBelong
  <2>4. QED
    BY <2>2, <2>3
<1>4. HidingStored'
  BY <1>1 DEF OthersKeep, PairInv, HidingStored
<1>5. SuccessIsNumbered' /\ PairsForgottenTogether'
  BY <1>1, SamePair, PairsOfCallers DEF SuccessIsNumbered
<1>6. QED
  BY <1>2, <1>3, <1>4, <1>5 DEF PairInv

\* A call stores nothing: it goes on, ends with a reuse, or was a check.
LEMMA NothingStoredPairInv ==
  ASSUME TrackerInv, PairInv, NEW c \in Callers, pc[c] # "idle",
         UNCHANGED <<commitments, calls>>,
         \/ Ended(c, TRUE)
         \/ frame[c].op = "Check" /\ (Halfway(c) \/ Ended(c, FALSE))
  PROVE  PairInv'
<1>1. CASE Halfway(c)
  <2>1. /\ OthersKeep(c) /\ frame' = frame /\ result' = result
        /\ pc'[c] = "binding" /\ frame[c].op = "Check"
    BY <1>1 DEF Halfway, Ended
  <2>2. NumbersUnique'
    BY <2>1 DEF OthersKeep, PairInv, NumbersUnique
  <2>3. EntriesBelong'
    BY <2>1 DEF OthersKeep, PairInv, EntriesBelong
  <2>4. HidingStored'
    BY <2>1 DEF OthersKeep, PairInv, HidingStored
  <2>5. SuccessIsNumbered' /\ PairsForgottenTogether'
    BY <2>1, SamePair, PairsOfCallers DEF SuccessIsNumbered
  <2>6. QED
    BY <2>2, <2>3, <2>4, <2>5 DEF PairInv
<1>2. ASSUME NEW reused, Ended(c, reused),
             reused = TRUE \/ frame[c].op = "Check"
      PROVE  PairInv'
  <2>1. /\ OthersKeep(c) /\ pc'[c] = "idle"
        /\ result'[c].call = frame[c] /\ result'[c].reused = reused
    BY <1>2, ResultFields DEF Ended
  <2>2. frame[c].number # 0
    BY DEF TrackerInv, Numbered
  <2>3. NumbersUnique'
    BY <2>1 DEF OthersKeep, PairInv, NumbersUnique
  <2>4. EntriesBelong'
    BY <2>1 DEF OthersKeep, PairInv, EntriesBelong
  <2>5. HidingStored'
    BY <2>1 DEF OthersKeep, PairInv, HidingStored
  <2>6. ASSUME NEW d \in Callers
        PROVE  PairOf(d)' /\ (~result'[d].reused => result'[d].call.number # 0)
    <3>1. CASE d # c
      <4>1. result'[d] = result[d]
        BY <2>1, <3>1 DEF OthersKeep
      <4>2. QED
        BY <4>1, SamePair, Zenon
    <3>2. CASE d = c
      <4>1. result'[c].call.op = frame[c].op /\ result'[c].call.number # 0
        BY <2>1, <2>2
      <4>2. result'[c].reused = TRUE \/ result'[c].call.op # "Record"
        BY <1>2, <2>1, <4>1
      <4>3. QED
        BY <3>2, <4>1, <4>2, Zenon DEF PairOf
    <3>3. QED
      BY <3>1, <3>2
  <2>7. SuccessIsNumbered' /\ PairsForgottenTogether'
    BY <2>6, PairsOfCallers DEF SuccessIsNumbered
  <2>8. QED
    BY <2>3, <2>4, <2>5, <2>7 DEF PairInv
<1>3. QED
  BY <1>1, <1>2

\* A call stores an entry under a free key, and goes on or ends well.
LEMMA StoredPairInv ==
  ASSUME TrackerInv, PairInv, NEW c \in Callers, pc[c] \in Kinds, calls' = calls,
         StoredNew(c), Halfway(c) \/ (pc[c] = "binding" /\ Ended(c, FALSE))
  PROVE  PairInv'
<1> DEFINE f == frame[c]
           h == HashOf(f, pc[c])
           e == EntryOf(f)
<1>1. /\ f \in Call /\ f.number \in Nat /\ f.number # 0 /\ pc[c] # "idle"
      /\ f.number <= calls /\ calls \in Nat
  BY NumberTypes DEF TrackerInv, Numbered, PairInv, NumbersUnique, Kinds
<1>2. e.session = f.session /\ e.at = f.at /\ e.by = f.number
  BY DEF EntryOf
<1>3. /\ h \in Hashes /\ commitments[h].by = 0
      /\ commitments'[h] = e
      /\ \A g \in Hashes \ {h} : commitments'[g] = commitments[g]
  BY NumberTypes DEF StoredNew, TrackerInv, TypeOK
<1>4. OthersKeep(c)
  BY DEF Halfway, Ended
<1> HIDE DEF e, h
\* What the step means for a call with another number.
<1>5. ASSUME NEW g \in Hashes, NEW call, call.number # f.number,
             call.number # 0
      PROVE  /\ commitments'[g].by = call.number <=> commitments[g].by = call.number
             /\ Belongs(commitments[g], call) => Belongs(commitments'[g], call)
  <2>1. CASE g = h
    BY <1>2, <1>3, <1>5, <2>1 DEF Belongs
  <2>2. CASE g # h
    BY <1>3, <2>2
  <2>3. QED
    BY <2>1, <2>2
<1>6. ASSUME NEW g \in Hashes PROVE Belongs(commitments'[g], f)
  <2>1. CASE g = h
    BY <1>2, <1>3, <2>1 DEF Belongs
  <2>2. CASE g # h
    BY <1>1, <1>3, <2>2 DEF PairInv, EntriesBelong
  <2>3. QED
    BY <2>1, <2>2
<1>7. ASSUME NEW d \in Callers, d # c, pc[d] # "idle"
      PROVE  frame[d].number # f.number /\ frame[d].number # 0
  BY <1>1, <1>7 DEF PairInv, NumbersUnique, TrackerInv, Numbered
<1>8. ASSUME NEW d \in Callers PROVE result[d].call.number # f.number
  BY <1>1 DEF PairInv, NumbersUnique
<1>9. \A g \in Hashes : commitments'[g].by <= calls
  BY <1>1, <1>2, <1>3 DEF PairInv, NumbersUnique
<1>10. ASSUME NEW d \in Callers, NEW g \in Hashes
       PROVE  Belongs(commitments'[g], result[d].call)
  <2>1. CASE result[d].call.number = 0
    BY <2>1 DEF Belongs
  <2>2. CASE result[d].call.number # 0
    BY <1>5, <1>8, <2>2 DEF PairInv, EntriesBelong
  <2>3. QED
    BY <2>1, <2>2
<1>11. ASSUME NEW d \in Callers, NEW g \in Hashes, d # c, pc[d] # "idle"
       PROVE  Belongs(commitments'[g], frame[d])
  BY <1>5, <1>7, <1>11 DEF PairInv, EntriesBelong
\* The results there were before.
<1>12. ASSUME NEW d \in Callers, result'[d] = result[d]
       PROVE  PairOf(d)' /\ (~result'[d].reused => result'[d].call.number # 0)
  <2> DEFINE call == result[d].call
  <2>1. PairOf(d) /\ (~result[d].reused => call.number # 0)
    BY PairsOfCallers DEF PairInv, SuccessIsNumbered
  <2>2. CASE call.number = 0
    <3>1. result'[d].reused
      BY <1>12, <2>1, <2>2, Zenon
    <3>2. QED
      BY <3>1, Zenon DEF PairOf
  <2>3. CASE call.number # 0
    <3>1. HashOf(call, "hiding") \in Hashes /\ HashOf(call, "binding") \in Hashes
      BY NumberTypes DEF Kinds
    <3>2. Together(call)' <=> Together(call)
      BY <1>5, <1>8, <1>12, <2>3, <3>1 DEF Together, StoredBy
    <3>3. QED
      BY <1>12, <2>1, <2>3, <3>2, Zenon DEF PairOf, Together, StoredBy
  <2>4. QED
    BY <2>2, <2>3
<1>13. ASSUME NEW d \in Callers, d # c, pc[d] = "binding", frame[d].op = "Record",
              frame[d].intact
       PROVE  commitments'[HashOf(frame[d], "hiding")].by = frame[d].number
  <2>1. HashOf(frame[d], "hiding") \in Hashes
    BY NumberTypes DEF Kinds
  <2>2. commitments[HashOf(frame[d], "hiding")].by = frame[d].number
    BY <1>13 DEF PairInv, HidingStored
  <2>3. QED
    BY <1>5, <1>7, <1>13, <2>1, <2>2
<1>14. CASE Halfway(c)
  <2>1. /\ frame' = frame /\ result' = result /\ pc[c] = "hiding"
        /\ pc'[c] = "binding"
        /\ \A d \in Callers \ {c} : pc'[d] = pc[d]
    BY <1>4, <1>14 DEF Halfway, OthersKeep
  <2>2. NumbersUnique'
    <3>1. \A d \in Callers : pc'[d] # "idle" <=> pc[d] # "idle"
      BY <1>1, <2>1
    <3>2. QED
      BY <1>9, <2>1, <3>1 DEF PairInv, NumbersUnique
  <2>3. EntriesBelong'
    BY <1>6, <1>10, <1>11, <2>1 DEF EntriesBelong
  <2>4. HidingStored'
    <3>1. commitments'[HashOf(f, "hiding")].by = f.number
      BY <1>2, <1>3, <2>1 DEF h
    <3>2. QED
      BY <1>13, <2>1, <3>1 DEF HidingStored
  <2>5. SuccessIsNumbered' /\ PairsForgottenTogether'
    BY <1>12, <2>1, PairsOfCallers DEF SuccessIsNumbered
  <2>6. QED
    BY <2>2, <2>3, <2>4, <2>5 DEF PairInv
<1>15. CASE pc[c] = "binding" /\ Ended(c, FALSE)
  <2>1. /\ pc'[c] = "idle" /\ result'[c].call = f
        /\ \A d \in Callers \ {c} : /\ pc'[d] = pc[d] /\ frame'[d] = frame[d]
                                    /\ result'[d] = result[d]
    BY <1>4, <1>15, ResultFields DEF Ended, OthersKeep
  <2>2. NumbersUnique'
    BY <1>1, <1>7, <1>9, <2>1 DEF PairInv, NumbersUnique
  <2>3. EntriesBelong'
    BY <1>6, <1>10, <1>11, <2>1 DEF EntriesBelong
  <2>4. HidingStored'
    BY <1>13, <2>1 DEF HidingStored
  <2>5. ASSUME NEW d \in Callers
        PROVE  PairOf(d)' /\ (~result'[d].reused => result'[d].call.number # 0)
    <3>1. CASE d # c
      BY <1>12, <2>1, <3>1
    <3>2. CASE d = c
      <4>1. result'[c].call.number # 0
        BY <1>1, <2>1
      <4>2. ASSUME f.op = "Record", f.intact
            PROVE  /\ commitments'[HashOf(f, "hiding")].by = f.number
                   /\ commitments'[HashOf(f, "binding")].by = f.number
        <5>1. commitments[HashOf(f, "hiding")].by = f.number
          BY <1>15, <4>2 DEF PairInv, HidingStored
        <5>2. HashOf(f, "hiding") # h /\ HashOf(f, "hiding") \in Hashes
          BY <1>1, <1>3, <5>1, NumberTypes DEF Kinds
        <5>3. h = HashOf(f, "binding")
          BY <1>15 DEF h
        <5>4. QED
          BY <1>2, <1>3, <5>1, <5>2, <5>3
      <4>3. PairOf(c)'
        BY <2>1, <4>2, Zenon DEF PairOf, Together, StoredBy
      <4>4. QED
        BY <3>2, <4>1, <4>3
    <3>3. QED
      BY <3>1, <3>2
  <2>6. SuccessIsNumbered' /\ PairsForgottenTogether'
    BY <2>5, PairsOfCallers DEF SuccessIsNumbered
  <2>7. QED
    BY <2>2, <2>3, <2>4, <2>6 DEF PairInv
<1>16. QED
  BY <1>14, <1>15

\* Entries of one session and one time stamp go together.
OfOneKind(gone) ==
  \A g, h \in Tracked :
    /\ commitments[g].session = commitments[h].session
    /\ commitments[g].at = commitments[h].at
    => (g \in gone <=> h \in gone)

LEMMA RemovePairInv ==
  ASSUME TrackerInv, PairInv, NEW gone, Remove(gone), OfOneKind(gone)
  PROVE  PairInv'
<1>1. /\ \A c \in Callers :
           /\ frame'[c].intact = (frame[c].intact /\ gone = {})
           /\ frame'[c].number = frame[c].number
           /\ frame'[c].op = frame[c].op
           /\ frame'[c].session = frame[c].session
           /\ frame'[c].at = frame[c].at
           /\ \A k \in Kinds : HashOf(frame'[c], k) = HashOf(frame[c], k)
      /\ \A h \in Hashes :
           commitments'[h] = IF h \in gone THEN None ELSE commitments[h]
      /\ UNCHANGED <<pc, result, calls>>
  BY RemoveEffect
<1>2. None.by = 0
  BY NumberTypes
<1>3. NumbersUnique'
  BY <1>1, <1>2, NumberTypes DEF PairInv, NumbersUnique
<1>4. EntriesBelong'
  <2> SUFFICES ASSUME NEW h \in Hashes, NEW c \in Callers
               PROVE  /\ pc[c] # "idle" => Belongs(commitments'[h], frame'[c])
                      /\ Belongs(commitments'[h], result[c].call)
    BY <1>1 DEF EntriesBelong
  <2>1. /\ pc[c] # "idle" => Belongs(commitments[h], frame[c])
        /\ Belongs(commitments[h], result[c].call)
    BY DEF PairInv, EntriesBelong
  <2>2. QED
    BY <1>1, <1>2, <2>1 DEF Belongs
<1>5. HidingStored'
  <2> SUFFICES ASSUME NEW c \in Callers, pc[c] = "binding",
                      frame[c].op = "Record", frame'[c].intact
               PROVE  commitments'[HashOf(frame'[c], "hiding")].by
                        = frame'[c].number
    BY <1>1 DEF HidingStored
  <2>1. frame[c].intact /\ gone = {}
    BY <1>1
  <2>2. commitments[HashOf(frame[c], "hiding")].by = frame[c].number
    BY <2>1 DEF PairInv, HidingStored
  <2>3. HashOf(frame[c], "hiding") \in Hashes
    BY NumberTypes DEF Kinds
  <2>4. QED
    BY <1>1, <2>1, <2>2, <2>3 DEF Kinds
<1>6. SuccessIsNumbered'
  BY <1>1 DEF PairInv, SuccessIsNumbered
<1>7. ASSUME NEW c \in Callers PROVE PairOf(c)'
  <2> DEFINE call == result[c].call
             a == HashOf(call, "hiding")
             b == HashOf(call, "binding")
  <2>1. PairOf(c)
    BY PairsOfCallers DEF PairInv
  <2>2. CASE call.number = 0
    <3>1. result'[c].reused
      BY <1>1, <2>2, Zenon DEF PairInv, SuccessIsNumbered
    <3>2. QED
      BY <3>1, Zenon DEF PairOf
  <2>3. CASE call.number # 0
    <3>1. a \in Hashes /\ b \in Hashes
      BY NumberTypes DEF Kinds
    <3>2. ASSUME Together(call) PROVE Together(call)'
      <4>1. CASE ~StoredBy(a, call)
        BY <1>1, <1>2, <2>3, <3>1, <3>2, <4>1 DEF Together, StoredBy
      <4>2. CASE StoredBy(a, call)
        <5>1. commitments[a].by = call.number /\ commitments[b].by = call.number
          BY <3>2, <4>2 DEF Together, StoredBy
        <5>2. a \in Tracked /\ b \in Tracked
          BY <1>2, <2>3, <3>1, <5>1 DEF Tracked
        <5>3. /\ commitments[a].session = commitments[b].session
              /\ commitments[a].at = commitments[b].at
          BY <2>3, <3>1, <5>1 DEF PairInv, EntriesBelong, Belongs
        <5>4. a \in gone <=> b \in gone
          BY <5>2, <5>3 DEF OfOneKind
        <5>5. QED
          BY <1>1, <1>2, <2>3, <3>1, <5>1, <5>4 DEF Together, StoredBy
      <4>3. QED
        BY <4>1, <4>2
    <3>3. QED
      BY <1>1, <2>1, <3>2, Zenon DEF PairOf, Together, StoredBy
  <2>4. QED
    BY <2>2, <2>3
<1>8. QED
  BY <1>3, <1>4, <1>5, <1>6, <1>7, PairsOfCallers DEF PairInv

LEMMA NextPairInv ==
  ASSUME TrackerInv, IndexConsistent, PairInv, [Next]_vars PROVE PairInv'
<1>1. ASSUME UNCHANGED <<commitments, pc, frame, result, calls>> PROVE PairInv'
  <2>1. SuccessIsNumbered' /\ PairsForgottenTogether'
    BY <1>1, SamePair, PairsOfCallers DEF SuccessIsNumbered
  <2>2. NumbersUnique' /\ EntriesBelong' /\ HidingStored'
    BY <1>1 DEF PairInv, NumbersUnique, EntriesBelong, HidingStored
  <2>3. QED
    BY <2>1, <2>2 DEF PairInv
<1>2. ASSUME NEW c \in Callers, NEW op \in {"Record", "Check"},
             NEW s \in Sessions, NEW i \in Ids, NEW data \in [Kinds -> Data],
             Begin(c, op, s, i, data)
      PROVE  PairInv'
  BY <1>2, BeginEffect, BeginPairInv
<1>3. ASSUME NEW c \in Callers, RecordCommitment(c) PROVE PairInv'
  <2>1. /\ pc[c] \in Kinds /\ pc[c] # "idle" /\ calls' = calls
        /\ \/ commitments' = commitments /\ Ended(c, TRUE)
           \/ /\ StoredNew(c)
              /\ Halfway(c) \/ (pc[c] = "binding" /\ Ended(c, FALSE))
    BY <1>3, RecordEffect DEF RecordCommitment
  <2>2. QED
    BY <2>1, NothingStoredPairInv, StoredPairInv
<1>4. ASSUME NEW c \in Callers, CheckCommitment(c) PROVE PairInv'
  <2>1. /\ pc[c] # "idle" /\ UNCHANGED <<commitments, calls>>
        /\ \/ Ended(c, TRUE)
           \/ frame[c].op = "Check" /\ (Halfway(c) \/ Ended(c, FALSE))
    BY <1>4, CheckEffect DEF CheckCommitment
  <2>2. QED
    BY <2>1, NothingStoredPairInv
<1>5. ASSUME NEW s \in Sessions, ClearSession(s) PROVE PairInv'
  <2>1. OfOneKind(sessionIndex[s])
    BY DEF IndexConsistent, OfOneKind
  <2>2. QED
    BY <1>5, <2>1, RemovePairInv DEF ClearSession
<1>6. ASSUME NEW ttl \in TTLs, ClearExpired(ttl) PROVE PairInv'
  <2>1. OfOneKind(Expired(ttl))
    BY DEF Expired, OfOneKind
  <2>2. QED
    BY <1>6, <2>1, RemovePairInv DEF ClearExpired
<1>7. QED
  BY <1>1, <1>2, <1>3, <1>4, <1>5, <1>6 DEF Next, vars, Tick

\* The hiding and the binding entry of one RecordSigningCommitments leave
\* the tracker together, unless something was removed in the middle of the
\* call: both carry the session and the one time stamp of the call, and
\* ClearSession (through the index) and ClearExpired go by these alone.
THEOREM PairsStayTogether == Spec => []PairsForgottenTogether
<1>1. Init => IndexConsistent
  BY DEF Init, IndexConsistent, Tracked
<1>2. PairInv => PairsForgottenTogether
  BY DEF PairInv
<1>3. QED
  BY <1>1, <1>2, InitTracker, NextTracker, NextIndex, InitPairInv, NextPairInv,
     PTL DEF Spec
=============================================================================
