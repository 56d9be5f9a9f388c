----------------------------- MODULE Coordinator -----------------------------
(***************************************************************************)
(* The signing coordinator (pkg/frost/signing/coordinator.go) used by      *)
(* several goroutines at once.  One coordinator value holds ONE map of     *)
(* round-one nonces, noncesMap, guarded by a mutex that is taken for each  *)
(* single access and released in between; every call of Sign,              *)
(* RequestCommitments and RequestSignatureShares works on that map.        *)
(*                                                                         *)
(* An action is one critical section of the code together with the local   *)
(* computation up to the next one.  A caller is a goroutine; between calls *)
(* it is "idle".  Round one and round two of a participant                 *)
(* (signing/participant.go) run in the caller's goroutine.                 *)
(*                                                                         *)
(* Abstractions.                                                           *)
(*  - The hiding and binding nonce of one RoundOne are one number, drawn   *)
(*    from a counter: crypto/rand never repeats.  0 is "no nonce".         *)
(*  - A commitment is the pair of its identifier and the nonce it commits  *)
(*    to.  A commitment list accepted by ValidateCommitmentList is sorted  *)
(*    and free of duplicates, so it is the set of its commitments.         *)
(*  - A signature share records what RoundTwo computed it from.            *)
(***************************************************************************)
EXTENDS ReputationRecord, Integers, FiniteSets, Sequences

CONSTANTS
  Callers,        \* goroutines that share the coordinator
  Ids,            \* identifiers a caller may name
  Participants,   \* the keys of c.participants
  Requests,       \* participantIDs arguments: sequences of identifiers
  ForeignLists,   \* commitment lists that did not come from this coordinator
  Msgs,           \* messages
  Threshold,      \* shares needed to interpolate the group secret
  Configs,        \* the ways a coordinator is constructed
  MaxCalls        \* bound: API calls in a behaviour

NoNonce == 0

Commitment == [id : Ids, nonce : Nat]

\* NewCoordinator, ...WithPublicKey, ...WithAuthenticator, ...WithSecurity:
\* which of the optional parts are set, the MinSigners of the participants'
\* key packages (0 switches their check off) and the aggregator's.
Config ==
  [key : BOOLEAN, authenticator : BOOLEAN, tracker : BOOLEAN,
   minSigners : Nat, aggMinSigners : Nat]

ASSUME CoordinatorAssumptions ==
  /\ Ids \subseteq Nat
  /\ Participants \subseteq Ids
  /\ Requests \subseteq Seq(Ids)
  /\ \A l \in ForeignLists : l \subseteq [id : Ids, nonce : {NoNonce}]
  /\ Configs \subseteq Config
  /\ Msgs # {}
  /\ Threshold \in Nat
  /\ MaxCalls \in Nat

VARIABLES
  config,       \* how the coordinator was constructed; never changes
  noncesMap,    \* c.noncesMap; NoNonce where the map has no entry
  reputations,  \* the reputation tracker
  lastNonce,    \* nonces handed out by crypto/rand so far
  pc,           \* where each caller is in the code
  frame,        \* the locals of each caller's current call
  held,         \* nonces taken out of the map and not yet zeroized
  result,       \* what each caller's last call returned
  lists,        \* commitment lists RequestCommitments has returned
  calls,        \* how many calls have begun
  issued,       \* history: every share any RoundTwo ever computed
  disturbed     \* history: did another call touch the map during this one?

vars == <<config, noncesMap, reputations, lastNonce, pc, frame, held, result,
          lists, calls, issued, disturbed>>

Labels == {"idle", "check", "reset", "collect", "validate", "take", "round2",
           "aggregate"}
Ops == {"Sign", "RequestCommitments", "RequestSignatureShares"}
Errors == {"none", "groupPublicKey", "insufficient", "excluded",
           "unknown participant", "commitment failed", "invalid list",
           "nonces not found", "share failed"}

Share == [id : Ids, nonce : Nat, msg : Msgs, list : SUBSET Commitment]

\* ids, k: the participantIDs argument and the loop index into it;
\* list: commitments collected or given; todo: those still without a share;
\* barred: history, identifiers excluded when the call began and not
\* reinstated since.
Frame ==
  [op : Ops, ids : Seq(Ids), k : Nat, msg : Msgs, list : SUBSET Commitment,
   todo : SUBSET Commitment, shares : SUBSET Share, barred : SUBSET Ids]

Result ==
  [op : Ops, err : Errors, list : SUBSET Commitment, shares : SUBSET Share,
   clean : BOOLEAN]

NoFrame ==
  [op |-> "Sign", ids |-> <<>>, k |-> 1, msg |-> CHOOSE m \in Msgs : TRUE,
   list |-> {}, todo |-> {}, shares |-> {}, barred |-> {}]
NoResult ==
  [op |-> "Sign", err |-> "groupPublicKey", list |-> {}, shares |-> {},
   clean |-> TRUE]

TypeOK ==
  /\ config \in Config
  /\ noncesMap \in [Participants -> Nat]
  /\ reputations \in [Ids -> ParticipantReputation]
  /\ lastNonce \in Nat
  /\ pc \in [Callers -> Labels]
  /\ frame \in [Callers -> Frame]
  /\ held \in [Callers -> Nat]
  /\ result \in [Callers -> Result]
  /\ lists \subseteq SUBSET Commitment
  /\ calls \in Nat
  /\ issued \subseteq Share
  /\ disturbed \in [Callers -> BOOLEAN]

EmptyMap == [i \in Participants |-> NoNonce]

Init ==
  /\ config \in Configs
  /\ noncesMap = EmptyMap
  /\ reputations = [i \in Ids |-> Untracked]
  /\ lastNonce = 0
  /\ pc = [c \in Callers |-> "idle"]
  /\ frame = [c \in Callers |-> NoFrame]
  /\ held = [c \in Callers |-> NoNonce]
  /\ result = [c \in Callers |-> NoResult]
  /\ lists = {}
  /\ calls = 0
  /\ issued = {}
  /\ disturbed = [c \in Callers |-> FALSE]

-----------------------------------------------------------------------------
(* Helpers.                                                                *)

\* ValidateCommitmentList on a list sorted by identifier.
ValidList(l) == l # {} /\ \A a, b \in l : a.id = b.id => a = b

\* The commitments a loop over the sorted list may reach next: of a
\* non-empty valid list, the one with the least identifier.
FirstOf(l) == {a \in l : \A b \in l : a.id <= b.id}

\* The map still holds the very nonces the list commits to.
Intact(map, l) ==
  \A a \in l :
    a.id \in Participants /\ a.nonce # NoNonce /\ map[a.id] = a.nonce

\* RecordMisbehavior, when a tracker is configured.
Blame(id, type) ==
  reputations' = IF config.tracker
                   THEN [reputations EXCEPT ![id] = Recorded(@, type)]
                   ELSE reputations

\* Caller c writes the map: every other call in progress is disturbed.
WriteMap(c, map) ==
  /\ noncesMap' = map
  /\ disturbed' = [d \in Callers |->
                     disturbed[d] \/ (d # c /\ pc[d] # "idle")]

\* The call of c ends; its locals are gone.
Return(c, err, shares) ==
  /\ pc' = [pc EXCEPT ![c] = "idle"]
  /\ frame' = [frame EXCEPT ![c] = NoFrame]
  /\ held' = [held EXCEPT ![c] = NoNonce]
  /\ result' = [result EXCEPT ![c] =
       [op |-> frame[c].op, err |-> err, list |-> frame[c].list,
        shares |-> shares, clean |-> ~disturbed[c]]]

Fail(c, err) == Return(c, err, {})

-----------------------------------------------------------------------------
(* Calls begin.                                                            *)

\* A call of RequestCommitments, or of Sign, with the argument ids.  Sign
\* without a group public key, and an empty argument, fail at once; the
\* exclusion loop is entered only when there is a tracker.
BeginRoundOne(c, op, ids, m) ==
  /\ pc[c] = "idle"
  /\ calls < MaxCalls
  /\ calls' = calls + 1
  /\ disturbed' = [disturbed EXCEPT ![c] = FALSE]
  /\ LET err == IF op = "Sign" /\ ~config.key THEN "groupPublicKey"
                ELSE IF ids = <<>> THEN "insufficient" ELSE "none"
     IN  \/ /\ err # "none"
            /\ result' = [result EXCEPT ![c] =
                 [op |-> op, err |-> err, list |-> {}, shares |-> {},
                  clean |-> TRUE]]
            /\ UNCHANGED <<pc, frame>>
         \/ /\ err = "none"
            /\ pc' = [pc EXCEPT ![c] =
                        IF config.tracker THEN "check" ELSE "reset"]
            /\ frame' = [frame EXCEPT ![c] =
                 [NoFrame EXCEPT !.op = op, !.ids = ids, !.msg = m,
                    !.barred = {i \in Ids : config.tracker
                                            /\ IsExcluded(reputations[i])}]]
            /\ UNCHANGED result
  /\ UNCHANGED <<config, noncesMap, reputations, lastNonce, held, lists, issued>>

\* A call of RequestSignatureShares with a list some caller was given
\* earlier, possibly a stale one, or with a list from elsewhere.
BeginRoundTwo(c, l, m) ==
  /\ pc[c] = "idle"
  /\ calls < MaxCalls
  /\ calls' = calls + 1
  /\ disturbed' = [disturbed EXCEPT ![c] = ~Intact(noncesMap, l)]
  /\ \/ /\ ~ValidList(l)
        /\ result' = [result EXCEPT ![c] =
             [op |-> "RequestSignatureShares", err |-> "invalid list",
              list |-> l, shares |-> {}, clean |-> TRUE]]
        /\ UNCHANGED <<pc, frame>>
     \/ /\ ValidList(l)
        /\ pc' = [pc EXCEPT ![c] = "take"]
        /\ frame' = [frame EXCEPT ![c] =
             [NoFrame EXCEPT !.op = "RequestSignatureShares", !.msg = m,
                             !.list = l, !.todo = l]]
        /\ UNCHANGED result
  /\ UNCHANGED <<config, noncesMap, reputations, lastNonce, held, lists, issued>>

\* AuthenticateCommitment or AuthenticateSignatureShare of a message that
\* claims to come from id and whose proof does not verify.  A proof that
\* verifies changes nothing.
AuthenticationFails(id) ==
  /\ config.authenticator
  /\ calls < MaxCalls
  /\ calls' = calls + 1
  /\ Blame(id, "authentication_failure")
  /\ UNCHANGED <<config, noncesMap, lastNonce, pc, frame, held, result, lists,
                 issued, disturbed>>

\* An operator reinstates an excluded participant while calls are running.
Reinstate(id) ==
  /\ IsExcluded(reputations[id])
  /\ reputations' = [reputations EXCEPT ![id] = Reinstated(@)]
  /\ frame' = [c \in Callers |-> [frame[c] EXCEPT !.barred = @ \ {id}]]
  /\ UNCHANGED <<config, noncesMap, lastNonce, pc, held, result, lists, calls,
                 issued, disturbed>>

-----------------------------------------------------------------------------
(* RequestCommitments.                                                     *)

\* The exclusion loop has seen all of participantIDs.
\* Mutant: it stops after the first.
AllCheckedTooEarly(f) == TRUE
AllChecked(f) == f.k = Len(f.ids)

\* One IsExcluded call of the loop over participantIDs.
CheckExcluded(c) ==
  LET f == frame[c]
      id == f.ids[f.k]
      done == AllChecked(f)
  IN  /\ pc[c] = "check"
      /\ \/ /\ IsExcluded(reputations[id])
            /\ Fail(c, "excluded")
         \/ /\ ~IsExcluded(reputations[id])
            /\ pc' = [pc EXCEPT ![c] = IF done THEN "reset" ELSE "check"]
            /\ frame' = [frame EXCEPT ![c].k = IF done THEN 1 ELSE @ + 1]
            /\ UNCHANGED <<held, result>>
      /\ UNCHANGED <<config, noncesMap, reputations, lastNonce, lists, calls,
                     issued, disturbed>>

\* "Initialize nonces storage for this signing session".  What others did to
\* the map before is of no consequence to this call.
ResetNonces(c) ==
  /\ pc[c] = "reset"
  /\ pc' = [pc EXCEPT ![c] = "collect"]
  /\ noncesMap' = EmptyMap
  /\ disturbed' = [d \in Callers |-> d # c /\ (disturbed[d] \/ pc[d] # "idle")]
  /\ UNCHANGED <<config, reputations, lastNonce, frame, held, result, lists,
                 calls, issued>>

\* The map after the nonces n of the current identifier are stored.
\* Mutant: they are stored under the loop index.
StoredByIndex(c, n) == [noncesMap EXCEPT ![frame[c].k] = n]
Stored(c, n) == [noncesMap EXCEPT ![frame[c].ids[frame[c].k]] = n]

\* One iteration of the collection loop: RoundOne succeeds and its nonces
\* are stored under the identifier, over whatever was stored there.
CollectCommitment(c) ==
  LET f == frame[c]
      id == f.ids[f.k]
      n == lastNonce + 1
  IN  /\ pc[c] = "collect"
      /\ id \in Participants
      /\ lastNonce' = n
      /\ WriteMap(c, Stored(c, n))
      /\ pc' = [pc EXCEPT ![c] =
                  IF f.k = Len(f.ids) THEN "validate" ELSE "collect"]
      /\ frame' = [frame EXCEPT
                     ![c].list = @ \cup {[id |-> id, nonce |-> n]},
                     ![c].k = @ + 1]
      /\ UNCHANGED <<config, reputations, held, result, lists, calls, issued>>

\* The same iteration when the participant is not in the map.
CollectUnknown(c) ==
  /\ pc[c] = "collect"
  /\ frame[c].ids[frame[c].k] \notin Participants
  /\ Fail(c, "unknown participant")
  /\ UNCHANGED <<config, noncesMap, reputations, lastNonce, lists, calls,
                 issued, disturbed>>

\* The same iteration when RoundOne fails: no randomness, a zero nonce or
\* an identity commitment.
CollectFails(c) ==
  LET id == frame[c].ids[frame[c].k]
  IN  /\ pc[c] = "collect"
      /\ id \in Participants
      /\ Blame(id, "invalid_commitment")
      /\ Fail(c, "commitment failed")
      /\ UNCHANGED <<config, noncesMap, lastNonce, lists, calls, issued,
                     disturbed>>

\* The list is sorted and validated; Sign goes on to round two with it,
\* RequestCommitments returns it.
ValidateCommitments(c) ==
  LET f == frame[c]
  IN  /\ pc[c] = "validate"
      /\ \/ /\ ~ValidList(f.list)
            /\ Fail(c, "invalid list")
            /\ UNCHANGED lists
         \/ /\ ValidList(f.list)
            /\ f.op = "Sign"
            /\ pc' = [pc EXCEPT ![c] = "take"]
            /\ frame' = [frame EXCEPT ![c].todo = f.list]
            /\ UNCHANGED <<held, result, lists>>
         \/ /\ ValidList(f.list)
            /\ f.op = "RequestCommitments"
            /\ Return(c, "none", {})
            /\ lists' = lists \cup {f.list}
      /\ UNCHANGED <<config, noncesMap, reputations, lastNonce, calls, issued,
                     disturbed>>

-----------------------------------------------------------------------------
(* RequestSignatureShares.                                                 *)

\* The map after the nonces of id are deleted.
\* Mutant: they are left in.
NotDeleted(id) == noncesMap
Deleted(id) == [noncesMap EXCEPT ![id] = NoNonce]

\* The critical section of one iteration: look the nonces up, delete them.
TakeNonces(c) ==
  /\ pc[c] = "take"
  /\ \E a \in FirstOf(frame[c].todo) :
       /\ a.id \in Participants
       /\ noncesMap[a.id] # NoNonce
       /\ held' = [held EXCEPT ![c] = noncesMap[a.id]]
       /\ WriteMap(c, Deleted(a.id))
  /\ pc' = [pc EXCEPT ![c] = "round2"]
  /\ UNCHANGED <<config, reputations, lastNonce, frame, result, lists, calls,
                 issued>>

\* The iteration fails: no such participant, or no nonces stored for it.
Missing(id) == id \in Participants => noncesMap[id] = NoNonce

TakeFails(c) ==
  /\ pc[c] = "take"
  /\ \E a \in FirstOf(frame[c].todo) :
       /\ Missing(a.id)
       /\ Fail(c, IF a.id \in Participants THEN "nonces not found"
                                           ELSE "unknown participant")
  /\ UNCHANGED <<config, noncesMap, reputations, lastNonce, lists, calls,
                 issued, disturbed>>

\* RoundTwo refuses a list shorter than the key package's MinSigners.
\* Mutant: off by one.
EnoughButOne(l) ==
  config.minSigners = 0 \/ Cardinality(l) + 1 >= config.minSigners
Enough(l) == config.minSigners = 0 \/ Cardinality(l) >= config.minSigners

\* The share the participant of commitment a computes: from the nonces it is
\* given and from the list, without comparing the two.
ShareOf(c, a) ==
  [id |-> a.id, nonce |-> held[c], msg |-> frame[c].msg, list |-> frame[c].list]

\* RoundTwo returns a share; then the nonces are zeroized.
RoundTwo(c) ==
  LET f == frame[c]
  IN  /\ pc[c] = "round2"
      /\ Enough(f.list)
      /\ \E a \in FirstOf(f.todo) :
           LET s == ShareOf(c, a)
               last == f.todo = {a}
           IN  /\ issued' = issued \cup {s}
               /\ \/ /\ last /\ f.op = "RequestSignatureShares"
                     /\ Return(c, "none", f.shares \cup {s})
                  \/ /\ ~(last /\ f.op = "RequestSignatureShares")
                     /\ pc' = [pc EXCEPT ![c] =
                                 IF last THEN "aggregate" ELSE "take"]
                     /\ frame' = [frame EXCEPT ![c].todo = @ \ {a},
                                               ![c].shares = @ \cup {s}]
                     /\ held' = [held EXCEPT ![c] = NoNonce]
                     /\ UNCHANGED result
      /\ UNCHANGED <<config, noncesMap, reputations, lastNonce, lists, calls,
                     disturbed>>

\* RoundTwo fails: the nonces are zeroized all the same and the participant
\* is recorded for an invalid share.
RoundTwoFails(c) ==
  /\ pc[c] = "round2"
  /\ ~Enough(frame[c].list)
  /\ \E a \in FirstOf(frame[c].todo) : Blame(a.id, "invalid_share")
  /\ Fail(c, "share failed")
  /\ UNCHANGED <<config, noncesMap, lastNonce, lists, calls, issued, disturbed>>

-----------------------------------------------------------------------------
(* Sign's last step.                                                       *)

\* aggregator.Aggregate counts the shares and adds them up; it verifies none.
Aggregate(c) ==
  /\ pc[c] = "aggregate"
  /\ IF Cardinality(frame[c].shares) < config.aggMinSigners
       THEN Fail(c, "insufficient")
       ELSE Return(c, "none", frame[c].shares)
  /\ UNCHANGED <<config, noncesMap, reputations, lastNonce, lists, calls,
                 issued, disturbed>>

-----------------------------------------------------------------------------
Begin(c) ==
  \/ \E op \in {"Sign", "RequestCommitments"}, ids \in Requests, m \in Msgs :
       BeginRoundOne(c, op, ids, m)
  \/ \E l \in lists \cup ForeignLists, m \in Msgs : BeginRoundTwo(c, l, m)

Step(c) ==
  \/ CheckExcluded(c) \/ ResetNonces(c)
  \/ CollectCommitment(c) \/ CollectUnknown(c) \/ CollectFails(c)
  \/ ValidateCommitments(c)
  \/ TakeNonces(c) \/ TakeFails(c)
  \/ RoundTwo(c) \/ RoundTwoFails(c)
  \/ Aggregate(c)

Next ==
  \/ \E c \in Callers : Begin(c) \/ Step(c)
  \/ \E id \in Ids : AuthenticationFails(id) \/ Reinstate(id)

Spec == Init /\ [][Next]_vars

-----------------------------------------------------------------------------
(* Properties.                                                             *)

\* No nonce is ever used for two signature shares, whatever calls overlap,
\* fail, are retried with the same list or are given a stale or foreign one:
\* RequestSignatureShares deletes the nonces in the critical section that
\* reads them, and RequestCommitments never stores one twice.
NonceUsedOnce == \A s, t \in issued : s.nonce = t.nonce => s = t

\* The shares answer the list: each commitment has the share computed from
\* the very nonces it commits to.  With this, the shares add up to a valid
\* signature; without it they do not.
SharesMatch(r) ==
  \A a \in r.list :
    \E s \in r.shares : s.id = a.id /\ s.nonce = a.nonce /\ s.list = r.list

\* A Sign that no other call interfered with since it reset the map, and a
\* RequestSignatureShares whose list was intact when it began and that no
\* other call interfered with, keep their nonces: they are never told "nonces
\* not found - RequestCommitments must be called first", and return matching
\* shares when they return without error.
CleanCallsKeepNonces ==
  \A c \in Callers :
    result[c].clean /\ result[c].op # "RequestCommitments" =>
      /\ result[c].err # "nonces not found"
      /\ result[c].err = "none" => SharesMatch(result[c])

\* Every signature Sign returns has at least Threshold signers when either
\* the key packages or the aggregator were given the threshold.
ThresholdRespected ==
  \A c \in Callers :
    /\ result[c].op = "Sign" /\ result[c].err = "none"
    /\ config.minSigners >= Threshold \/ config.aggMinSigners >= Threshold
    => Cardinality(result[c].list) >= Threshold

\* A participant that was excluded before a call of Sign or
\* RequestCommitments began, and has not been reinstated, contributes no
\* commitment to it, although exclusion is checked identifier by identifier
\* and long before the commitments are collected.
ExcludedStaysOut ==
  \A c \in Callers : \A a \in frame[c].list : a.id \notin frame[c].barred

\* The coordinator is a nonce ledger: the live nonces are those in the map
\* and those a call has taken out for the RoundTwo it is about to run.
Live ==
  ({noncesMap[i] : i \in Participants} \cup {held[c] : c \in Callers})
    \ {NoNonce}

Ledger == INSTANCE NonceLedger WITH
  born <- lastNonce, live <- Live, shares <- issued

ImplementsLedger == Ledger!LedgerSpec

\* Claimed by the code, and false: "Sign orchestrates the complete signing
\* protocol ... signature: The complete FROST signature" (coordinator.go).
\* Whatever runs at the same time, a Sign that returns no error should have
\* returned a signature made of matching shares.
SignReturnsSignature ==
  \A c \in Callers :
    result[c].op = "Sign" /\ result[c].err = "none" => SharesMatch(result[c])
=============================================================================
