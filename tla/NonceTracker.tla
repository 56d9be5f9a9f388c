---------------------------- MODULE NonceTracker ----------------------------
(***************************************************************************)
(* The FROST nonce tracker (pkg/frost/security/frost_nonce_tracker.go) on  *)
(* top of the in-memory commitment tracker (commitment_tracker.go), used   *)
(* by several goroutines.                                                  *)
(*                                                                         *)
(* RecordSigningCommitments and CheckSigningCommitments handle the hiding  *)
(* commitment and then the binding commitment, each in a critical section  *)
(* of its own; other calls, ClearSession and ClearExpired come in between. *)
(*                                                                         *)
(* The lookup key is sha256(session, participant, data) of the three       *)
(* written one after the other.  sha256 is taken to be injective, so the   *)
(* key is the concatenation itself, and session "s1" with participant 2    *)
(* has the key of session "s" with participant 12.                         *)
(***************************************************************************)
EXTENDS Integers, Sequences, FiniteSets

CONSTANTS
  Callers,     \* goroutines
  Sessions,    \* session identifiers, as sequences of characters
  Ids,         \* participant identifiers
  Digits,      \* Digits[i]: the decimal digits of i
  Data,        \* encoded nonce commitments
  TTLs,        \* the ttl arguments of ClearExpired
  MaxTime,     \* bound: clock ticks
  MaxCalls     \* bound: calls of Record- and CheckSigningCommitments

Kinds == {"hiding", "binding"}

\* fmt.Sprintf("%d-hiding", participantID), "%d-binding".
ParticipantID(i, kind) == Append(Digits[i], kind)

\* CommitmentIdentifier.Hash
Hash(session, participant, data) == session \o participant \o <<data>>

Hashes ==
  {Hash(s, ParticipantID(i, kind), d) :
     s \in Sessions, i \in Ids, kind \in Kinds, d \in Data}

ASSUME NonceTrackerAssumptions ==
  /\ Sessions # {} /\ \A s \in Sessions : s \in Seq(STRING)
  /\ Ids # {} /\ Digits \in [Ids -> Seq(STRING)]
  /\ Data # {}
  /\ TTLs \subseteq Int
  /\ MaxTime \in Nat
  /\ MaxCalls \in Nat

VARIABLES
  commitments,   \* t.commitments; None where the map has no entry
  sessionIndex,  \* t.sessionIndex; {} where the map has no entry
  now,           \* time.Now()
  pc,            \* where each caller is: idle, or the commitment it is at
  frame,         \* the arguments of the call in progress, and its time stamp
  result,        \* what each caller's last call returned
  calls          \* calls begun; numbers the calls

vars == <<commitments, sessionIndex, now, pc, frame, result, calls>>

\* by is a ghost: the number of the call that stored the entry.
Entry == [session : Sessions, at : Nat, by : Nat \ {0}]
None == [session |-> <<>>, at |-> 0, by |-> 0]

\* known, intact are ghosts: the hashes tracked when the call began and ever
\* since; whether no entry was removed during the call.
Call ==
  [op : {"Record", "Check"}, session : Sessions, id : Ids,
   data : [Kinds -> Data], at : Nat, number : Nat,
   known : SUBSET Hashes, intact : BOOLEAN]

NoCall ==
  [op |-> "Check", session |-> CHOOSE s \in Sessions : TRUE,
   id |-> CHOOSE i \in Ids : TRUE,
   data |-> [k \in Kinds |-> CHOOSE d \in Data : TRUE],
   at |-> 0, number |-> 0, known |-> {}, intact |-> FALSE]

Result == [call : Call, reused : BOOLEAN]

TypeOK ==
  /\ commitments \in [Hashes -> Entry \cup {None}]
  /\ sessionIndex \in [Sessions -> SUBSET Hashes]
  /\ now \in Nat
  /\ pc \in [Callers -> Kinds \cup {"idle"}]
  /\ frame \in [Callers -> Call]
  /\ result \in [Callers -> Result]
  /\ calls \in Nat

Init ==
  /\ commitments = [h \in Hashes |-> None]
  /\ sessionIndex = [s \in Sessions |-> {}]
  /\ now = 1
  /\ pc = [c \in Callers |-> "idle"]
  /\ frame = [c \in Callers |-> NoCall]
  /\ result = [c \in Callers |-> [call |-> NoCall, reused |-> TRUE]]
  /\ calls = 0

Tracked == {h \in Hashes : commitments[h] # None}

HashOf(call, kind) ==
  Hash(call.session, ParticipantID(call.id, kind), call.data[kind])

-----------------------------------------------------------------------------
Tick ==
  /\ now < MaxTime
  /\ now' = now + 1
  /\ UNCHANGED <<commitments, sessionIndex, pc, frame, result, calls>>

\* A call begins; RecordSigningCommitments takes its one time stamp here.
Begin(c, op, s, i, data) ==
  /\ pc[c] = "idle"
  /\ calls < MaxCalls
  /\ calls' = calls + 1
  /\ pc' = [pc EXCEPT ![c] = "hiding"]
  /\ frame' = [frame EXCEPT ![c] =
       [op |-> op, session |-> s, id |-> i, data |-> data, at |-> now,
        number |-> calls + 1, known |-> Tracked, intact |-> TRUE]]
  /\ UNCHANGED <<commitments, sessionIndex, now, result>>

Return(c, reused) ==
  /\ pc' = [pc EXCEPT ![c] = "idle"]
  /\ frame' = [frame EXCEPT ![c] = NoCall]
  /\ result' = [result EXCEPT ![c] = [call |-> frame[c], reused |-> reused]]

\* The call goes from the hiding to the binding commitment, or ends well.
Proceed(c) ==
  \/ /\ pc[c] = "hiding"
     /\ pc' = [pc EXCEPT ![c] = "binding"]
     /\ UNCHANGED <<frame, result>>
  \/ /\ pc[c] = "binding"
     /\ Return(c, FALSE)

\* RecordCommitment's and CheckCommitment's lookup.
\* Mutant: the binding commitment is not looked up.
ExistsHiding(c) == pc[c] = "hiding" /\ HashOf(frame[c], pc[c]) \in Tracked
Exists(c) == HashOf(frame[c], pc[c]) \in Tracked

\* The time stamp an entry is stored with: the one of the call.
\* Mutant: the time of the critical section.
StampNow(f) == now
Stamp(f) == f.at

\* One RecordCommitment of a RecordSigningCommitments: check for reuse,
\* record, update the session index.  When the binding commitment is a
\* reuse, ClearParticipant is called, and does nothing.
RecordCommitment(c) ==
  LET f == frame[c]
      h == HashOf(f, pc[c])
  IN  /\ pc[c] # "idle" /\ f.op = "Record"
      /\ \/ /\ Exists(c)
            /\ Return(c, TRUE)
            /\ UNCHANGED <<commitments, sessionIndex>>
         \/ /\ ~Exists(c)
            /\ commitments' = [commitments EXCEPT ![h] =
                 [session |-> f.session, at |-> Stamp(f), by |-> f.number]]
            /\ sessionIndex' =
                 [sessionIndex EXCEPT ![f.session] = @ \cup {h}]
            /\ Proceed(c)
      /\ UNCHANGED <<now, calls>>

\* One CheckCommitment of a CheckSigningCommitments.
CheckCommitment(c) ==
  /\ pc[c] # "idle" /\ frame[c].op = "Check"
  /\ \/ Exists(c) /\ Return(c, TRUE)
     \/ ~Exists(c) /\ Proceed(c)
  /\ UNCHANGED <<commitments, sessionIndex, now, calls>>

\* The entries in gone are deleted; calls in progress lose them.
Remove(gone) ==
  /\ commitments' = [h \in Hashes |-> IF h \in gone THEN None ELSE commitments[h]]
  /\ frame' = [c \in Callers |->
       [frame[c] EXCEPT !.known = @ \ gone, !.intact = @ /\ gone = {}]]
  /\ UNCHANGED <<now, pc, result, calls>>

\* ClearSession goes by the session index.
ClearSession(s) ==
  /\ Remove(sessionIndex[s])
  /\ sessionIndex' = [sessionIndex EXCEPT ![s] = {}]

\* An entry is expired when it is older than ttl.
Expired(ttl) == {h \in Tracked : now - commitments[h].at > ttl}

\* The session index after the hashes in gone are deleted: rebuilt for the
\* sessions the expired entries name, kept for the others.
\* Mutant: not rebuilt.
StaleIndex(gone) == sessionIndex
RebuiltIndex(gone) ==
  [s \in Sessions |->
     IF \E h \in gone : commitments[h].session = s
       THEN {h \in sessionIndex[s] : h \in Tracked \ gone}
       ELSE sessionIndex[s]]

ClearExpired(ttl) ==
  /\ Remove(Expired(ttl))
  /\ sessionIndex' = RebuiltIndex(Expired(ttl))

Next ==
  \/ Tick
  \/ \E c \in Callers :
       \/ \E op \in {"Record", "Check"}, s \in Sessions, i \in Ids,
             data \in [Kinds -> Data] : Begin(c, op, s, i, data)
       \/ RecordCommitment(c)
       \/ CheckCommitment(c)
  \/ \E s \in Sessions : ClearSession(s)
  \/ \E ttl \in TTLs : ClearExpired(ttl)

Spec == Init /\ [][Next]_vars

-----------------------------------------------------------------------------
(* Properties.                                                             *)

\* The two maps agree: the index of a session lists exactly the tracked
\* entries recorded for it, although keys of different sessions can
\* coincide and ClearExpired rebuilds only some of the index.
IndexConsistent ==
  \A s \in Sessions :
    sessionIndex[s] = {h \in Tracked : commitments[h].session = s}

\* No reuse goes unreported: a Record- or CheckSigningCommitments that
\* returns nil was given two commitments of which neither was tracked from
\* its beginning to its end, whatever ran in between its two lookups.
ReuseReported ==
  \A c \in Callers :
    ~result[c].reused =>
      \A k \in Kinds :
        HashOf(result[c].call, k) \notin result[c].call.known

\* The pair recorded by one call is remembered and forgotten as one: unless
\* something was removed in the middle of the call, its hiding entry is
\* tracked exactly as long as its binding entry.
PairsForgottenTogether ==
  \A c \in Callers :
    LET r == result[c]
        stored(k) == commitments[HashOf(r.call, k)].by = r.call.number
    IN  r.call.op = "Record" /\ ~r.reused /\ r.call.intact
          => (stored("hiding") <=> stored("binding"))
=============================================================================
