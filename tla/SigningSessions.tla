--------------------------- MODULE SigningSessions ---------------------------
(***************************************************************************)
(* Signing over sessions (pkg/frost/service/session_manager.go) with       *)
(* nonces prepared in advance (pkg/frost/signing/preprocess.go).           *)
(*                                                                         *)
(* A session collects the commitments and then the signature shares of its *)
(* participants.  Several goroutines use it at once: workers that act for  *)
(* participants, two of them perhaps for the same one because a request    *)
(* was repeated, and whoever creates, cancels and deletes sessions.  Each  *)
(* method of a session holds the session's lock from start to end, and so  *)
(* does each method of the manager, so each is one action.                 *)
(*                                                                         *)
(* The workers are external code.  They do what the interfaces ask for:    *)
(* take a nonce pair from the participant's pool (one worker at a time,    *)
(* the pool has no lock), add its commitment, and sign only for a          *)
(* commitment that was accepted, and never from a pool they zeroized.  A   *)
(* pair of nonces and its commitment have one number, and the two slices   *)
(* of a pool, filled and shortened together, are one sequence of numbers.  *)
(***************************************************************************)
EXTENDS Integers, FiniteSets, Sequences, SequencesExt

CONSTANTS
  Workers,      \* goroutines acting for participants
  Ids,          \* participant identifiers
  Actor,        \* Actor[w]: the participant that worker w acts for
  Requests,     \* participantIDs arguments of CreateSession
  Count,        \* the count argument of Preprocess
  MaxSessions,  \* bound: sessions created
  MaxNonces     \* bound: nonces drawn

NoNonce == 0

ASSUME SessionAssumptions ==
  /\ Ids \subseteq Nat
  /\ Actor \in [Workers -> Ids]
  /\ Requests \subseteq Seq(Ids)
  /\ Count \in Nat
  /\ MaxSessions \in Nat /\ MaxNonces \in Nat

VARIABLES
  sessions,   \* every signingSession ever created, by number
  manager,    \* m.sessions: the numbers the manager still knows
  pools,      \* PreprocessedNonces of each participant
  lastNonce,  \* nonces drawn so far
  pc,         \* what each worker does next
  frame,      \* each worker's session, nonces, commitment list and share
  lists,      \* history: what GetCommitmentList returned, by session
  issued      \* history: every share ever computed

vars == <<sessions, manager, pools, lastNonce, pc, frame, lists, issued>>

\* signingSession.  isComplete and finalSignature are never assigned.
NewSession(ids) ==
  [participantIDs |-> ids, commitments |-> {}, signatureShares |-> {},
   isCanceled |-> FALSE]

NoFrame ==
  [session |-> 0, nonce |-> NoNonce, list |-> {}, shares |-> {}]

Init ==
  /\ sessions = <<>>
  /\ manager = {}
  /\ pools = [i \in Ids |-> <<>>]
  /\ lastNonce = 0
  /\ pc = [w \in Workers |-> "idle"]
  /\ frame = [w \in Workers |-> NoFrame]
  /\ lists = {}
  /\ issued = {}

-----------------------------------------------------------------------------
(* The session manager.                                                    *)

\* CreateSession refuses an empty list of participants and looks no further.
CreateSession(ids) ==
  /\ ids # <<>>
  /\ Len(sessions) < MaxSessions
  /\ sessions' = Append(sessions, NewSession(ids))
  /\ manager' = manager \cup {Len(sessions) + 1}
  /\ UNCHANGED <<pools, lastNonce, pc, frame, lists, issued>>

\* DeleteSession forgets the session, whose handles go on working.
DeleteSession(s) ==
  /\ s \in manager
  /\ manager' = manager \ {s}
  /\ UNCHANGED <<sessions, pools, lastNonce, pc, frame, lists, issued>>

\* Cancel fails only for a completed session, and none ever is.
Cancel(s) ==
  /\ sessions' = [sessions EXCEPT ![s].isCanceled = TRUE]
  /\ UNCHANGED <<manager, pools, lastNonce, pc, frame, lists, issued>>

\* GetSession, by a worker that was asked to take part.
GetSession(w, s) ==
  /\ pc[w] = "idle"
  /\ s \in manager
  /\ pc' = [pc EXCEPT ![w] = "next"]
  /\ frame' = [frame EXCEPT ![w].session = s]
  /\ UNCHANGED <<sessions, manager, pools, lastNonce, lists, issued>>

-----------------------------------------------------------------------------
(* The pool of nonces.                                                     *)

\* The pairs Preprocess draws, or PreprocessDeterministic derives from a seed
\* that was never used before, as its comment demands.
Drawn == [k \in 1 .. Count |-> lastNonce + k]

\* Preprocess, or PreprocessDeterministic, fills an empty pool.
Preprocess(i) ==
  /\ pools[i] = <<>>
  /\ Count > 0
  /\ lastNonce + Count <= MaxNonces
  /\ pools' = [pools EXCEPT ![i] = Drawn]
  /\ lastNonce' = lastNonce + Count
  /\ UNCHANGED <<sessions, manager, pc, frame, lists, issued>>

\* Zeroize sets the nonces of a pool that is "no longer needed" to zero but
\* leaves the entries in place; its caller drops the pool.
Zeroize(i) ==
  /\ pools[i] # <<>>
  /\ pools' = [pools EXCEPT ![i] = <<>>]
  /\ UNCHANGED <<sessions, manager, lastNonce, pc, frame, lists, issued>>

\* What Next leaves in the pool.
\* Mutant: the heads of the two slices stay.
NotRemoved(pool) == pool
Remaining(pool) == Tail(pool)

\* Next returns false for an empty pool, and the worker tries again later.
NextNonces(w) ==
  LET i == Actor[w]
  IN  /\ pc[w] = "next"
      /\ pools[i] # <<>>
      /\ pools' = [pools EXCEPT ![i] = Remaining(@)]
      /\ frame' = [frame EXCEPT ![w].nonce = Head(pools[i])]
      /\ pc' = [pc EXCEPT ![w] = "commit"]
      /\ UNCHANGED <<sessions, manager, lastNonce, lists, issued>>

-----------------------------------------------------------------------------
(* A session.                                                              *)

\* SigningNonces.Zeroize of the nonces a worker holds.
Zeroized(f) == [f EXCEPT !.nonce = NoNonce]

\* The worker gives up; its nonces are zeroized too.
GiveUp(w) ==
  /\ pc' = [pc EXCEPT ![w] = "idle"]
  /\ frame' = [frame EXCEPT ![w] = NoFrame]
  /\ UNCHANGED <<sessions, manager, pools, lastNonce, lists, issued>>

\* Adding is refused by a canceled session.
Open(sn) == ~sn.isCanceled

Expected(sn, i) == i \in ToSet(sn.participantIDs)

\* The identifier has an entry in the map already.
\* Mutant: the entry is overwritten.
NeverAdded(entries, i) == FALSE
Added(entries, i) == \E e \in entries : e.id = i

\* A map keyed by identifier, with the new entry in it.
WithEntry(entries, e) == {d \in entries : d.id # e.id} \cup {e}

AddCommitment(w) ==
  LET s == frame[w].session
      c == [id |-> Actor[w], nonce |-> frame[w].nonce]
  IN  /\ pc[w] = "commit"
      /\ IF /\ Open(sessions[s])
            /\ Expected(sessions[s], c.id)
            /\ ~Added(sessions[s].commitments, c.id)
           THEN /\ sessions' = [sessions EXCEPT ![s].commitments = WithEntry(@, c)]
                /\ pc' = [pc EXCEPT ![w] = "list"]
                /\ UNCHANGED <<manager, pools, lastNonce, frame, lists, issued>>
           ELSE GiveUp(w)

\* minParticipants is the length of the participants' list.
\* Mutant: one commitment fewer is enough.
EnoughButOne(sn) == Cardinality(sn.commitments) + 1 >= Len(sn.participantIDs)
Enough(sn) == Cardinality(sn.commitments) >= Len(sn.participantIDs)

\* While commitments are missing GetCommitmentList fails, and the worker
\* asks again later; it gives up a session that was canceled.
GetCommitmentList(w) ==
  LET s == frame[w].session
      sn == sessions[s]
  IN  /\ pc[w] = "list"
      /\ \/ sn.isCanceled /\ GiveUp(w)
         \/ /\ ~sn.isCanceled
            /\ Enough(sn)
            /\ frame' = [frame EXCEPT ![w].list = sn.commitments]
            /\ lists' = lists \cup {<<s, sn.commitments>>}
            /\ pc' = [pc EXCEPT ![w] = "sign"]
            /\ UNCHANGED <<sessions, manager, pools, lastNonce, issued>>

\* RoundTwo, after which the worker zeroizes its nonces.
ShareOf(w) ==
  [id |-> Actor[w], nonce |-> frame[w].nonce, session |-> frame[w].session,
   list |-> frame[w].list]

RoundTwo(w) ==
  /\ pc[w] = "sign"
  /\ issued' = issued \cup {ShareOf(w)}
  /\ frame' = [frame EXCEPT ![w] = [Zeroized(@) EXCEPT !.shares = {ShareOf(w)}]]
  /\ pc' = [pc EXCEPT ![w] = "share"]
  /\ UNCHANGED <<sessions, manager, pools, lastNonce, lists>>

AddSignatureShare(w) ==
  LET s == frame[w].session
  IN  /\ pc[w] = "share"
      /\ \E x \in frame[w].shares :
           IF /\ Open(sessions[s])
              /\ Expected(sessions[s], x.id)
              /\ ~Added(sessions[s].signatureShares, x.id)
             THEN /\ sessions' =
                       [sessions EXCEPT ![s].signatureShares = WithEntry(@, x)]
                  /\ pc' = [pc EXCEPT ![w] = "idle"]
                  /\ frame' = [frame EXCEPT ![w] = NoFrame]
                  /\ UNCHANGED <<manager, pools, lastNonce, lists, issued>>
             ELSE GiveUp(w)

-----------------------------------------------------------------------------
Step(w) ==
  \/ \E s \in manager : GetSession(w, s)
  \/ NextNonces(w) \/ AddCommitment(w) \/ GetCommitmentList(w)
  \/ RoundTwo(w) \/ AddSignatureShare(w)

Next ==
  \/ \E ids \in Requests : CreateSession(ids)
  \/ \E s \in DOMAIN sessions : DeleteSession(s) \/ Cancel(s)
  \/ \E i \in Ids : Preprocess(i) \/ Zeroize(i)
  \/ \E w \in Workers : Step(w)

Spec == Init /\ [][Next]_vars

-----------------------------------------------------------------------------
(* Properties.                                                             *)

\* Whoever asks a session for its commitment list gets the same list, however
\* often and whenever they ask: the participants of one signature must bind
\* their shares to one list.  It takes both the refusal of a second
\* commitment and the wait for all of them.
ListStable == \A a, b \in lists : a[1] = b[1] => a = b

\* Every share is made from the very nonces that the session holds a
\* commitment to, and goes on to hold it: together with ListStable, the shares
\* of a full session add up to a signature, although requests are repeated
\* and commitments refused.
SharesFit ==
  \A x \in issued :
    [id |-> x.id, nonce |-> x.nonce] \in sessions[x.session].commitments

\* Pools and workers together are a nonce ledger: "The
\* PreprocessedNonces.Next() method ensures each nonce is only returned once"
\* (preprocess.go), and refused and canceled rounds only ever lose nonces.
Live ==
  ((UNION {ToSet(pools[i]) : i \in Ids}) \cup {frame[w].nonce : w \in Workers})
    \ {NoNonce}

Ledger == INSTANCE NonceLedger WITH
  born <- lastNonce, live <- Live, shares <- issued

ImplementsLedger == Ledger!LedgerSpec
=============================================================================
