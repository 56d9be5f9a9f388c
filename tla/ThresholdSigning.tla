-------------------------- MODULE ThresholdSigning --------------------------
(***************************************************************************)
(* One distributed signing session: participants that run RoundOne and     *)
(* RoundTwo (pkg/frost/signing/participant.go), a network that loses,      *)
(* duplicates and reorders their shares, participants whose shares are     *)
(* wrong, and the aggregator (aggregator.go, strategy.go) with its three   *)
(* cheater detection strategies; the same with re-randomized keys          *)
(* (rerandomized.go); and the service (pkg/frost/service/frost.go) that    *)
(* runs both rounds in one process.                                        *)
(*                                                                         *)
(* The binding factors and the challenge are outputs of hash functions     *)
(* modelled as random oracles: fixed once the commitment list and the      *)
(* message are, otherwise arbitrary.                                       *)
(***************************************************************************)
EXTENDS KeySharing

CONSTANTS
  Shapes,       \* what the key packages hold as VerificationShares
  Thresholds,   \* what they hold as MinSigners
  Nonces,       \* pairs <<hiding nonce, binding nonce>>
  Oracles,      \* hash outputs: [rho : binding factors, challenge]
  Randomizers,  \* hash outputs of ComputeRandomizer
  Blinds,       \* random scalars of a batch verification
  Errors,       \* what a wrong share is off by
  MaxReceived   \* bound: shares that reach the aggregator

\* GenerateKeys refuses a threshold below 2 or above the number of signers,
\* and identifiers that are zero or repeated.
ValidConfiguration ==
  /\ MinSigners >= 2
  /\ MinSigners <= Cardinality(Ids)
  /\ 0 \notin Ids

ASSUME SigningAssumptions ==
  /\ ValidConfiguration
  /\ \A p \in Polynomials : p[1] # 0
  /\ Shapes \subseteq {"none", "dealer", "participants"}
  /\ Thresholds \subseteq [Ids -> {0, MinSigners}]
  /\ Nonces \subseteq (Scalar \ {0}) \X (Scalar \ {0})
  /\ \A o \in Oracles : o.rho \in [Ids -> Scalar] /\ o.challenge \in Scalar \ {0}
  /\ Randomizers \cup Blinds \cup Errors \subseteq Scalar \ {0}

VARIABLES
  poly,       \* the key polynomial
  shape,      \* the shape of VerificationShares
  threshold,  \* the MinSigners of each key package; 0 if it was lost
  phase,      \* "commit", "sign" or "done"
  nonces,     \* nonces of the participants in the commitment list
  oracle,     \* the hash outputs of this session
  randomizer, \* RandomizedParams.Randomizer; 0 if keys are not randomized
  received,   \* signatureShares, in order of arrival
  outcome     \* what the aggregator returned

vars == <<poly, shape, threshold, phase, nonces, oracle, randomizer, received, outcome>>

Strategies == {"Disabled", "FirstCheater", "AllCheaters"}

\* A Signature, or an error and the participants it names.
NoOutcome ==
  [strategy |-> "Disabled", err |-> "insufficient", culprits |-> {},
   R |-> Identity, z |-> 0]

Signers == DOMAIN nonces

Init ==
  /\ poly \in Polynomials
  /\ shape \in Shapes
  /\ threshold \in Thresholds
  /\ phase = "commit"
  /\ nonces = <<>>
  /\ oracle \in Oracles
  /\ randomizer = 0
  /\ received = <<>>
  /\ outcome = NoOutcome

-----------------------------------------------------------------------------
(* Keys, commitments and shares.                                           *)

\* NewRandomizedParams: the key a session randomized with r signs for.
RandomizedVerifyingKey(r) == EAdd(ScalarBaseMult(poly[1]), ScalarBaseMult(r))

GroupPublicKey == RandomizedVerifyingKey(randomizer)

\* RandomizeKeyPackage adds the randomizer to the secret share and its
\* element to every verification share.
SecretShare(i) == SAdd(Evaluate(poly, i), randomizer)
Randomized(key) == EAdd(key, ScalarBaseMult(randomizer))

\* GenerateShares puts the commitments to the coefficients, numbered from 0,
\* into every key package; TrustedDealerKeygen and the DKG put one public
\* key per participant; RepairShareStep3 and the command line put nothing.
VerificationShares ==
  CASE shape = "none" -> <<>>
    [] shape = "dealer" ->
         [j \in 1 .. MinSigners |->
            [id |-> j - 1, key |-> Randomized(ScalarBaseMult(poly[j]))]]
    [] shape = "participants" ->
         [i \in Ids |->
            [id |-> i, key |-> Randomized(ScalarBaseMult(Evaluate(poly, i)))]]

HidingNonceCommitment(i) == ScalarBaseMult(nonces[i][1])
BindingNonceCommitment(i) == ScalarBaseMult(nonces[i][2])

\* The commitment of participant i with its binding factor applied.
BoundCommitment(i) ==
  EAdd(HidingNonceCommitment(i),
       ScalarMult(BindingNonceCommitment(i), oracle.rho[i]))

\* GroupCommitmentComputer.Compute.
\* Mutant: the binding nonces are left out.
HidingOnly == ESum([i \in Signers |-> HidingNonceCommitment(i)])
GroupCommitment == ESum([i \in Signers |-> BoundCommitment(i)])

Lambda(i) == DeriveInterpolatingValue(Signers, i)

\* RoundTwo: hiding_nonce + binding_nonce * binding_factor
\*           + lambda_i * secret_share * challenge.
HonestShare(i) ==
  SAdd(SAdd(nonces[i][1], SMul(nonces[i][2], oracle.rho[i])),
       SMul(SMul(Lambda(i), SecretShare(i)), oracle.challenge))

\* The right-hand side of the share equation for public key share key.
ExpectedElement(i, key) ==
  EAdd(BoundCommitment(i), ScalarMult(ScalarMult(key, oracle.challenge), Lambda(i)))

-----------------------------------------------------------------------------
(* Verification.                                                           *)

KeysOf(id) == {v.key : v \in {w \in ToSet(VerificationShares) : w.id = id}}

\* The aggregator's check of one share: a verification share, a binding
\* factor and a commitment exist for its identifier, and the equation holds.
ShareAccepted(s) ==
  /\ KeysOf(s.id) # {}
  /\ s.id \in Signers
  /\ \A key \in KeysOf(s.id) : ScalarBaseMult(s.z) = ExpectedElement(s.id, key)

\* Participant.VerifySignatureShare takes the VerificationShares for the
\* commitments to the coefficients and evaluates them at the identifier.
VerifySignatureShare(s) ==
  /\ s.id \in Signers
  /\ ScalarBaseMult(s.z) =
       ExpectedElement(s.id,
         EvaluateCommitments([j \in DOMAIN VerificationShares |->
                                VerificationShares[j].key], s.id))

\* Aggregator.Verify of the signature (R, z).
Verify(R, z) ==
  /\ R # Identity
  /\ GroupPublicKey # Identity
  /\ ScalarBaseMult(z) = EAdd(R, ScalarMult(GroupPublicKey, oracle.challenge))

-----------------------------------------------------------------------------
(* Steps.                                                                  *)

RoundOne(i, pair) ==
  /\ phase = "commit"
  /\ i \notin Signers
  /\ nonces' = [j \in Signers \cup {i} |-> IF j = i THEN pair ELSE nonces[j]]
  /\ UNCHANGED <<poly, shape, threshold, phase, oracle, randomizer, received, outcome>>

\* The commitment list is fixed and sent to the participants in it.
FixList ==
  /\ phase = "commit"
  /\ Signers # {}
  /\ phase' = "sign"
  /\ UNCHANGED <<poly, shape, threshold, nonces, oracle, randomizer, received, outcome>>

\* The coordinator randomizes the session and tells every participant; the
\* parameters are refused when the randomized key is the identity.
ComputeRandomizer(r) ==
  /\ phase = "sign"
  /\ received = <<>>
  /\ randomizer = 0
  /\ RandomizedVerifyingKey(r) # Identity
  /\ randomizer' = r
  /\ UNCHANGED <<poly, shape, threshold, phase, nonces, oracle, received, outcome>>

\* RoundTwo of i refuses a list that is shorter than the threshold of its key
\* package.  A package that came out of the key store, out of the command
\* line's key file or out of a repair has none, and RoundTwo signs any list.
\* Mutant: it always does.
AnyLength(i) == TRUE
LongEnough(i) == threshold[i] > 0 => Cardinality(Signers) >= threshold[i]

\* A share sent in the name of i reaches the aggregator, perhaps once more.
\* It is the one RoundTwo computes, which needs i in the list and the list
\* long enough, or a wrong one: off by an error, or any value from a sender
\* that is not in the list.
Receive(i, error) ==
  /\ phase = "sign"
  /\ Len(received) < MaxReceived
  /\ error = 0 => i \in Signers /\ LongEnough(i)
  /\ received' = Append(received,
       [id |-> i, z |-> IF i \in Signers THEN SAdd(HonestShare(i), error)
                                         ELSE error])
  /\ UNCHANGED <<poly, shape, threshold, phase, nonces, oracle, randomizer, outcome>>

Rejected == {k \in DOMAIN received : ~ShareAccepted(received[k])}

\* The identifiers a strategy blames: nobody, that of the first share
\* rejected, those of all.
\* Mutant: FirstCheater blames the last share rejected.
CulpritsLast(strategy) ==
  CASE strategy = "Disabled" -> {}
    [] strategy = "FirstCheater" ->
         {received[k].id : k \in {j \in Rejected : \A l \in Rejected : l <= j}}
    [] strategy = "AllCheaters" -> {received[k].id : k \in Rejected}
Culprits(strategy) ==
  CASE strategy = "Disabled" -> {}
    [] strategy = "FirstCheater" ->
         {received[k].id : k \in {j \in Rejected : \A l \in Rejected : j <= l}}
    [] strategy = "AllCheaters" -> {received[k].id : k \in Rejected}

Sum(shares) == SSum([k \in DOMAIN shares |-> shares[k].z])

\* The aggregator: name is what to call it, strategy what it does and
\* minSigners the number of shares it asks for.
AggregateWith(name, strategy, minSigners) ==
  LET R == GroupCommitment
      culprits == Culprits(strategy)
      err == IF Len(received) < minSigners THEN "insufficient"
             ELSE IF strategy # "Disabled" /\ VerificationShares = <<>> THEN "parameters"
             ELSE IF R = Identity THEN "identity"
             ELSE IF culprits # {} THEN "culprits" ELSE ""
  IN  /\ phase = "sign"
      /\ phase' = "done"
      /\ outcome' =
           [strategy |-> name, err |-> err,
            culprits |-> IF err = "culprits" THEN culprits ELSE {},
            R |-> IF err = "" THEN R ELSE Identity,
            z |-> IF err = "" THEN Sum(received) ELSE 0]
      /\ UNCHANGED <<poly, shape, threshold, nonces, oracle, randomizer, received>>

AggregateWithStrategy(strategy) ==
  randomizer = 0 /\ AggregateWith(strategy, strategy, MinSigners)

\* RerandomizedAggregator always verifies and stops at the first wrong share.
RerandomizedAggregate ==
  randomizer # 0 /\ AggregateWith("FirstCheater", "FirstCheater", MinSigners)

\* The Aggregate of signing.go (and RerandomizedAggregate, which calls it)
\* takes the shares as a map, so one per identifier in any order, and asks
\* for as many as there are.
Aggregate ==
  /\ IsInjective([k \in DOMAIN received |-> received[k].id])
  /\ AggregateWith("Map", "FirstCheater", Len(received))

-----------------------------------------------------------------------------
(* The service.                                                            *)

\* "The number of verification shares equals the polynomial degree + 1 which
\* equals minSigners": true of one shape.  Without any, those who sign are
\* enough.
ServiceMinSigners ==
  IF VerificationShares = <<>> THEN Cardinality(Signers) ELSE Len(VerificationShares)

\* RoundTwo of nobody refuses.
AllSign == \A i \in Signers : LongEnough(i)

\* FrostService.Sign with the key packages of Signers in the caller's order,
\* whose RoundOne has run: RoundTwo of each in turn, then Aggregate.
ServiceSign(order) ==
  LET R == GroupCommitment
      shares == [k \in 1 .. Cardinality(Signers) |->
                   [id |-> order[k], z |-> HonestShare(order[k])]]
      err == IF Cardinality(Signers) < 2 THEN "insufficient"
             ELSE IF ~AllSign THEN "refused"
             ELSE IF Len(shares) < ServiceMinSigners THEN "insufficient"
             ELSE IF R = Identity THEN "identity" ELSE ""
  IN  /\ phase = "commit"
      /\ phase' = "done"
      /\ received' = IF Cardinality(Signers) >= 2 /\ AllSign THEN shares ELSE <<>>
      /\ outcome' = [strategy |-> "Service", err |-> err, culprits |-> {},
                     R |-> IF err = "" THEN R ELSE Identity,
                     z |-> IF err = "" THEN Sum(shares) ELSE 0]
      /\ UNCHANGED <<poly, shape, threshold, nonces, oracle, randomizer>>

\* FrostService.VerifyKeyShare of a key package of i with the share s.
VerifyKeyShare(i, s) ==
  /\ VerificationShares # <<>>
  /\ ScalarBaseMult(s) =
       EvaluateCommitments([j \in DOMAIN VerificationShares |->
                              VerificationShares[j].key], i)

-----------------------------------------------------------------------------
(* Batch verification.                                                     *)

\* BatchVerifier.Add accepts an item.
Addable(item) == item.key # Identity /\ item.R # Identity

VerifySingle(item) ==
  ScalarBaseMult(item.z) = EAdd(item.R, ScalarMult(item.key, item.challenge))

\* BatchVerifier.Verify: one equation for all items, each multiplied with a
\* random blind; blinds[k] is the one drawn for items[k].
\* Mutant: the blinds of the group commitments are left out.
BatchUnblinded(items, blinds) ==
  EAdd(ScalarBaseMult(SSub(0, SSum([k \in DOMAIN items |-> SMul(blinds[k], items[k].z)]))),
       ESum([k \in DOMAIN items |->
         EAdd(items[k].R, ScalarMult(items[k].key, SMul(blinds[k], items[k].challenge)))]))
    = Identity
BatchVerify(items, blinds) ==
  LET gCoeff == SSum([k \in DOMAIN items |-> SMul(blinds[k], items[k].z)])
      Term(k) == EAdd(ScalarMult(items[k].R, blinds[k]),
                      ScalarMult(items[k].key, SMul(blinds[k], items[k].challenge)))
  IN  /\ items # <<>>
      /\ IF Len(items) = 1
           THEN VerifySingle(items[1])
           ELSE EAdd(ScalarBaseMult(SSub(0, gCoeff)),
                     ESum([k \in DOMAIN items |-> Term(k)])) = Identity

VerifyAll(items, blinds) ==
  /\ \A k \in DOMAIN items : Addable(items[k])
  /\ BatchVerify(items, blinds)

-----------------------------------------------------------------------------

Next ==
  \/ \E i \in Ids, pair \in Nonces : RoundOne(i, pair)
  \/ FixList \/ Aggregate \/ RerandomizedAggregate
  \/ \E order \in Bijection(1 .. Cardinality(Signers), Signers) : ServiceSign(order)
  \/ \E r \in Randomizers : ComputeRandomizer(r)
  \/ \E i \in Ids, error \in Errors \cup {0} : Receive(i, error)
  \/ \E strategy \in Strategies : AggregateWithStrategy(strategy)

Spec == Init /\ [][Next]_vars

-----------------------------------------------------------------------------
(* Properties.                                                             *)

FromRoundTwo(s) == s.id \in Signers /\ s.z = HonestShare(s.id)

\* Every listed signer's share arrived exactly once, and nothing else did.
OneShareEach ==
  /\ Len(received) = Cardinality(Signers)
  /\ {received[k].id : k \in DOMAIN received} = Signers

\* The point of the protocol: when each listed participant's share arrives
\* once, in whatever order, and all are honest, every strategy returns a
\* signature and it verifies under the group key, or the randomized one, for
\* every quorum, key, nonces and hash outputs (unless the commitments happen
\* to cancel out).  So does the service, given key packages made by its
\* GenerateKeys, packages without verification shares or, of the shape of the
\* DKG, those of everybody.  Honest or not,
\* a strategy that verifies the shares returns no signature that is wrong,
\* as long as none of them is missing or doubled.
QuorumSigns ==
  phase = "done" /\ OneShareEach =>
    /\ /\ Cardinality(Signers) >= MinSigners
       /\ \A k \in DOMAIN received : FromRoundTwo(received[k])
       /\ GroupCommitment # Identity
       /\ IF shape = "participants" THEN outcome.strategy = "Service" => Signers = Ids
                                    ELSE outcome.strategy \in {"Disabled", "Service"}
       => outcome.err = "" /\ Verify(outcome.R, outcome.z)
    /\ /\ shape = "participants" /\ outcome.err = ""
       /\ outcome.strategy \in {"FirstCheater", "AllCheaters"}
       => Verify(outcome.R, outcome.z)

\* AllCheaters blames the senders of wrong shares, FirstCheater and the
\* Aggregate of signing.go the sender of the first one they look at.
AggregatorsBlame ==
  LET wrong == {k \in DOMAIN received : ~FromRoundTwo(received[k])}
  IN  /\ phase = "done" /\ shape = "participants"
      /\ outcome.err \in {"", "culprits"}
      => /\ outcome.strategy = "AllCheaters" =>
              outcome.culprits = {received[k].id : k \in wrong}
         /\ outcome.strategy \in {"FirstCheater", "Map"} =>
              outcome.culprits =
                {received[k].id : k \in {j \in wrong : \A l \in wrong : j <= l}}

\* VerifySignatureShare accepts exactly the shares RoundTwo computes, and
\* VerifyKeyShare exactly the secret share.
PeersBlame ==
  shape = "dealer" /\ randomizer = 0 =>
    /\ phase = "done" => \A k \in DOMAIN received :
         VerifySignatureShare(received[k]) <=> FromRoundTwo(received[k])
    /\ phase = "commit" => \A i \in Ids, error \in Errors \cup {0} :
         VerifyKeyShare(i, SAdd(SecretShare(i), error)) <=> error = 0

\* Attribution is exact.  Given one public key per participant, aggregators
\* blame the senders of wrong shares and nobody else, whoever else cheats in
\* the same round and even when the errors cancel out; given commitments to
\* the coefficients, so does a participant that checks what it receives.
\* (Each of them reads VerificationShares in one of the two ways only, and
\* randomized commitments are neither.)
BlameIsExact == AggregatorsBlame /\ PeersBlame

\* The threshold is a number in each key package, and packages lose it: out
\* of the key store, the command line's key file or a repair they come with
\* none, and RoundTwo of their owners signs lists of any length.  And the
\* aggregator counts shares, not signers, so one share that arrives twice
\* passes its count.  Still no signature comes out for a list of fewer than
\* MinSigners signers
\*   - of an aggregation that verifies shares against one public key per
\*     participant, if one share is from a participant whose package kept its
\*     threshold (this is true of the Aggregate of signing.go too, which asks
\*     for no number of shares), or if no share arrived twice at an aggregator
\*     that asks for MinSigners;
\*   - of the service, whose own idea of the threshold depends on the shape,
\*     if the packages have verification shares, or one kept its threshold.
NoSignatureBelowThreshold ==
  LET Kept(i) == threshold[i] > 0
      checked == shape = "participants" /\ outcome.strategy \notin {"Disabled", "Service"}
  IN  /\ phase = "done" /\ outcome.err = ""
      /\ \/ checked /\ \E k \in DOMAIN received : Kept(received[k].id)
         \/ /\ checked /\ outcome.strategy # "Map"
            /\ IsInjective([k \in DOMAIN received |-> received[k].id])
         \/ outcome.strategy = "Service" /\ (shape # "none" \/ \E i \in Signers : Kept(i))
      => Cardinality(Signers) >= MinSigners

\* A batch agrees with single verification: the signature the aggregator
\* returned, batched before or after one that verifies, is accepted exactly
\* when it verifies by itself, whatever blinds are drawn.
BatchAgrees ==
  LET item == [key |-> GroupPublicKey, R |-> outcome.R, z |-> outcome.z,
               challenge |-> oracle.challenge]
      good == [item EXCEPT !.R = ScalarBaseMult(1),
                           !.z = SAdd(1, SMul(oracle.challenge, SAdd(poly[1], randomizer)))]
  IN  phase = "done" /\ outcome.err = "" =>
        \A blinds \in [1 .. 2 -> Blinds] :
          /\ VerifyAll(<<item, good>>, blinds) <=> Verify(item.R, item.z)
          /\ VerifyAll(<<good, item>>, blinds) <=> Verify(item.R, item.z)
=============================================================================
