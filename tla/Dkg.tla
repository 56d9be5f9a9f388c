--------------------------------- MODULE Dkg ---------------------------------
(***************************************************************************)
(* Distributed key generation (pkg/frost/keygen/dkg): every participant    *)
(* runs Part1, Part2 and Part3 on packages that arrive in any order, or    *)
(* not at all, some of them from participants that do not follow the       *)
(* protocol.                                                               *)
(*                                                                         *)
(* The three functions keep no state: the caller holds the secret packages *)
(* and the maps of received packages, and may call a function again after  *)
(* it failed.  The caller and the network are external; the package        *)
(* documentation asks for round-one packages to be broadcast, which they   *)
(* may be or not (broadcast), and for maps of the other participants'      *)
(* packages.                                                               *)
(*                                                                         *)
(* A proof of knowledge is ideal: it verifies for the identifier and the   *)
(* constant term it was made for, and only somebody who knows the constant *)
(* term can make one.                                                      *)
(***************************************************************************)
EXTENDS KeySharing

CONSTANTS
  FaultySets,   \* which participants may be faulty together
  Malformed,    \* ill-formed packages a faulty participant may send: the
                \* commitment too long or short, or a proof of something else
  Dealt,        \* scalars a faulty participant may send for a share
  Channels      \* the values of broadcast to look at

Proof == [by : Ids, of : Element]
Round1Package == [commitment : Seq(Element), proof : Proof]

ASSUME DkgAssumptions ==
  /\ \A p \in Polynomials : p[1] # 0
  /\ FaultySets \subseteq SUBSET Ids
  /\ Malformed \subseteq Round1Package
  /\ \A m \in Malformed :
       Len(m.commitment) = MinSigners => m.proof.of # m.commitment[1]
  /\ Dealt \subseteq Scalar
  /\ Channels \subseteq BOOLEAN

VARIABLES
  broadcast,     \* does everybody receive the same round-one package?
  faulty,        \* the participants that do not follow the protocol
  coefficients,  \* Round1SecretPackage.Coefficients; <<>> before Part1
  announced,     \* the round-one package a participant broadcasts
  round1,        \* round1Packages of each participant, by sender
  peers,         \* whom a participant's Part2 made shares for; {} before
  round2,        \* round2Packages of each participant, by sender
  key,           \* KeyPackage; NoKey before Part3 succeeds
  result         \* the last error a participant's calls returned

dkgVars == <<broadcast, faulty, coefficients, announced, round1, peers, round2, key, result>>

Honest == Ids \ faulty

NoKey == [secretShare |-> 0, groupPublicKey |-> Identity, verificationShares |-> <<>>]
HasKey(i) == key[i] # NoKey

NoPackage == [commitment |-> <<>>, proof |-> [by |-> 1, of |-> Identity]]

DkgInit ==
  /\ broadcast \in Channels
  /\ faulty \in FaultySets
  /\ coefficients = [i \in Ids |-> <<>>]
  /\ announced = [i \in Ids |-> NoPackage]
  /\ round1 = [i \in Ids |-> <<>>]
  /\ peers = [i \in Ids |-> {}]
  /\ round2 = [i \in Ids |-> <<>>]
  /\ key = [i \in Ids |-> NoKey]
  /\ result = [i \in Ids |-> [err |-> "", culprit |-> 0]]

-----------------------------------------------------------------------------
(* Helpers.                                                                *)

\* computeProofOfKnowledge and the round-one package made with it.
PackageOf(i, poly) ==
  LET commitment == CreateCommitments(poly)
  IN  [commitment |-> commitment, proof |-> [by |-> i, of |-> commitment[1]]]

\* VerifyProofOfKnowledge of a package received from sender.
\* Mutant: the challenge does not include the identifier.
ProofNotBound(sender, pkg) ==
  pkg.commitment # <<>> /\ pkg.proof.of = pkg.commitment[1]
VerifyProofOfKnowledge(sender, pkg) ==
  /\ pkg.commitment # <<>>
  /\ pkg.proof.by = sender
  /\ pkg.proof.of = pkg.commitment[1]

\* VerifyShare of the share sender dealt to i.
\* Mutant: the sender's commitment is evaluated at the sender's identifier.
ShareAtSender(i, sender, share) ==
  ScalarBaseMult(share) = EvaluateCommitments(round1[i][sender].commitment, sender)
VerifyShare(i, sender, share) ==
  ScalarBaseMult(share) = EvaluateCommitments(round1[i][sender].commitment, i)

\* What a faulty participant may broadcast: a proper package, somebody
\* else's, or an ill-formed one.
Broadcastable(i) ==
  {PackageOf(i, p) : p \in Polynomials} \cup {announced[j] : j \in Ids} \cup Malformed

Fails(i, err, culprit) ==
  /\ result' = [result EXCEPT ![i] = [err |-> err, culprit |-> culprit]]
  /\ UNCHANGED <<broadcast, faulty, coefficients, announced, round1, peers, round2, key>>

-----------------------------------------------------------------------------
(* Round one.                                                              *)

AnyPolynomial == CHOOSE p \in Polynomials : TRUE

\* A faulty participant broadcasts what it likes; its polynomial is not used.
Part1(i, poly, pkg) ==
  /\ coefficients[i] = <<>>
  /\ i \in faulty => poly = AnyPolynomial /\ pkg \in Broadcastable(i)
  /\ i \in Honest => pkg = PackageOf(i, poly)
  /\ coefficients' = [coefficients EXCEPT ![i] = poly]
  /\ announced' = [announced EXCEPT ![i] = pkg]
  /\ UNCHANGED <<broadcast, faulty, round1, peers, round2, key, result>>

\* The caller of i puts a package of sender into the map, replacing an
\* earlier one; after Part2 it has what it needs.
DeliverRound1(sender, i, pkg) ==
  /\ i \in Honest
  /\ peers[i] = {}
  /\ sender # i
  /\ coefficients[sender] # <<>>
  /\ \/ pkg = announced[sender]
     \/ ~broadcast /\ sender \in faulty /\ pkg \in Broadcastable(sender)
  /\ round1' = [round1 EXCEPT ![i] = Put(@, sender, pkg)]
  /\ UNCHANGED <<broadcast, faulty, coefficients, announced, peers, round2, key, result>>

-----------------------------------------------------------------------------
(* Round two.                                                              *)

BadProofs(i) ==
  {j \in DOMAIN round1[i] : \/ Len(round1[i][j].commitment) # MinSigners
                            \/ ~VerifyProofOfKnowledge(j, round1[i][j])}

Part2(i) ==
  /\ i \in Honest
  /\ coefficients[i] # <<>>
  /\ Cardinality(DOMAIN round1[i]) = N - 1
  /\ BadProofs(i) = {}
  /\ peers' = [peers EXCEPT ![i] = DOMAIN round1[i]]
  /\ UNCHANGED <<broadcast, faulty, coefficients, announced, round1, round2, key, result>>

\* Go visits the map in any order: any of the bad packages may be reported.
Part2Fails(i) ==
  /\ i \in Honest
  /\ coefficients[i] # <<>>
  /\ \/ Cardinality(DOMAIN round1[i]) # N - 1 /\ Fails(i, "count", 0)
     \/ /\ Cardinality(DOMAIN round1[i]) = N - 1
        /\ \E j \in BadProofs(i) : Fails(i, "proof", j)

\* The caller of i receives a share from sender: the one Part2 made for i,
\* or, from a faulty participant, any of Dealt.
DeliverRound2(sender, i, share) ==
  /\ i \in Honest
  /\ sender # i
  /\ \/ i \in peers[sender] /\ share = Evaluate(coefficients[sender], i)
     \/ sender \in faulty /\ coefficients[sender] # <<>> /\ share \in Dealt
  /\ round2' = [round2 EXCEPT ![i] = Put(@, sender, share)]
  /\ UNCHANGED <<broadcast, faulty, coefficients, announced, round1, peers, key, result>>

-----------------------------------------------------------------------------
(* Round three.                                                            *)

\* aggregateCommitments: our own commitment and those received, one per
\* identifier, summed coefficient by coefficient.
AllCommitments(i) ==
  [j \in DOMAIN round1[i] \cup {i} |->
     IF j \in DOMAIN round1[i] THEN round1[i][j].commitment
                               ELSE CreateCommitments(coefficients[i])]

SummedCommitment(i) ==
  LET all == AllCommitments(i)
  IN  [k \in 1 .. MinSigners |->
         ESum([j \in DOMAIN all |-> all[j][k]])]

\* Mutant: the last coefficient is taken for the constant term.
LastCoefficient(i) == SummedCommitment(i)[MinSigners]
GroupKey(i) == SummedCommitment(i)[1]

\* Mutant: the share of another is computed from its own commitment only.
DealtToItself(i, j) ==
  EvaluateCommitments(IF j = i THEN SummedCommitment(i) ELSE AllCommitments(i)[j], j)
VerificationShare(i, j) == EvaluateCommitments(SummedCommitment(i), j)

\* Our own share of our own polynomial and the shares received.
SigningShare(i) ==
  SAdd(Evaluate(coefficients[i], i), SSum(round2[i]))

\* The check of the counts and of the senders of the two maps.
PackagesError(i) ==
  IF Cardinality(DOMAIN round1[i]) # N - 1 \/ Cardinality(DOMAIN round2[i]) # N - 1
    THEN "count"
  ELSE IF DOMAIN round1[i] # DOMAIN round2[i] THEN "missing" ELSE ""

BadShares(i) == {j \in DOMAIN round2[i] : ~VerifyShare(i, j, round2[i][j])}

Part3(i) ==
  /\ i \in Honest
  /\ peers[i] # {}
  /\ PackagesError(i) = ""
  /\ BadShares(i) = {}
  /\ key' = [key EXCEPT ![i] =
       [secretShare |-> SigningShare(i),
        groupPublicKey |-> GroupKey(i),
        verificationShares |->
          [j \in DOMAIN AllCommitments(i) |-> VerificationShare(i, j)]]]
  /\ UNCHANGED <<broadcast, faulty, coefficients, announced, round1, peers, round2, result>>

Part3Fails(i) ==
  /\ i \in Honest
  /\ peers[i] # {}
  /\ \/ PackagesError(i) # "" /\ Fails(i, PackagesError(i), 0)
     \/ PackagesError(i) = "" /\ \E j \in BadShares(i) : Fails(i, "share", j)

-----------------------------------------------------------------------------
DkgNext ==
  \/ \E i \in Ids, poly \in Polynomials :
       \E pkg \in Broadcastable(i) : Part1(i, poly, pkg)
  \/ \E sender, i \in Ids :
       \/ \E pkg \in Broadcastable(sender) : DeliverRound1(sender, i, pkg)
       \/ \E share \in Scalar : DeliverRound2(sender, i, share)
  \/ \E i \in Ids : Part2(i) \/ Part2Fails(i) \/ Part3(i) \/ Part3Fails(i)

DkgSpec == DkgInit /\ [][DkgNext]_dkgVars

-----------------------------------------------------------------------------
(* Properties.                                                             *)

\* When round one is broadcast, all honest participants that finish hold the
\* same group public key and the same verification shares, although the
\* faulty deal what they like in private and some participants may have
\* failed and retried.  Broadcast or not, the public share a participant's
\* key package lists for itself belongs to its secret share: Part3 computes
\* the former to compare them and drops it (round3.go), so nothing but the
\* checks on each package sees to it.
KeyPackagesAgree ==
  \A i \in Honest :
    HasKey(i) =>
      /\ key[i].verificationShares[i] = ScalarBaseMult(key[i].secretShare)
      /\ \A j \in Honest :
           broadcast /\ HasKey(j) =>
             /\ key[i].groupPublicKey = key[j].groupPublicKey
             /\ key[i].verificationShares = key[j].verificationShares

\* Then any MinSigners honest participants that finish also hold shares of
\* the secret key that belongs to their group public key.
QuorumHoldsSecret ==
  \A S \in SUBSET {i \in Honest : HasKey(i)} :
    broadcast /\ Cardinality(S) >= MinSigners =>
      \A i \in S :
        ScalarBaseMult(Interpolate([j \in S |-> key[j].secretShare]))
          = key[i].groupPublicKey

\* A key is never built from a contribution that its dealer copied from
\* another participant's broadcast or made up without knowing the secret
\* behind it: each package that entered a key is one its sender's own Part1
\* could have made.
ContributionsAreOwn ==
  \A i \in Honest :
    HasKey(i) =>
      \A j \in DOMAIN round1[i] :
        round1[i][j] \in {PackageOf(j, p) : p \in Polynomials}

\* Whoever an honest participant's Part2 or Part3 names as the culprit is
\* faulty, even when dealers equivocate.
OnlyFaultyBlamed ==
  \A i \in Honest : result[i].culprit # 0 => result[i].culprit \in faulty
=============================================================================
