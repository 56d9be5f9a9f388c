---------------------------- MODULE KeyMaintenance ----------------------------
(***************************************************************************)
(* What happens to the shares of a key after it was generated: refresh     *)
(* (pkg/frost/keygen/refresh), repair of a lost share                      *)
(* (pkg/frost/keygen/repairable) and reconstruction of the secret          *)
(* (pkg/frost/keygen/reconstruct.go), by participants that get the         *)
(* dealer's and each other's messages late, twice, out of order or never.  *)
(***************************************************************************)
EXTENDS KeySharing

CONSTANTS
  RefreshPolynomials,  \* polynomials ComputeRefreshingShares may draw
  RefreshIds,          \* identifiers arguments of ComputeRefreshingShares
  Deltas,              \* random scalars RepairShareStep1 may draw
  Helpers,             \* helperIdentifiers arguments
  MaxRefreshes,        \* bound: refreshes in a behaviour
  MaxApplied           \* bound: times one participant applies one refresh share

ASSUME MaintenanceAssumptions ==
  /\ \A p \in RefreshPolynomials : p \in [1 .. MinSigners -> Scalar] /\ p[1] = 0
  /\ RefreshIds \subseteq SUBSET Ids
  /\ Deltas \subseteq Scalar
  /\ Helpers \subseteq Seq(Ids)
  /\ MaxRefreshes \in Nat /\ MaxApplied \in Nat

VARIABLES
  keyPoly,    \* the key polynomial
  public,     \* VerifyingShares of the current PublicKeyPackage
  refreshes,  \* history: the polynomials of the refreshes so far
  refreshIds, \* history: whom each refresh made shares for
  packages,   \* the key package of each participant; LostPackage if lost
  applied,    \* history: how often each refresh is part of a share
  doubtful,   \* history: whose share came out of a repair that nothing backs
  repair      \* the repair in progress, or NoRepair

maintenanceVars == <<keyPoly, public, refreshes, refreshIds, packages, applied, doubtful, repair>>

Epochs == 1 .. MaxRefreshes

LostPackage == [secretShare |-> 0, verificationShares |-> <<>>, lost |-> TRUE]
NoRepair == [helpers |-> <<>>, target |-> 0, deltas |-> <<>>, from |-> <<>>,
             sigmas |-> <<>>]

Maps(S) == UNION {[D -> S] : D \in SUBSET Ids}

\* A finished key generation with one public key per participant.
MaintenanceInit ==
  /\ keyPoly \in Polynomials
  /\ public = [i \in Ids |-> ScalarBaseMult(Evaluate(keyPoly, i))]
  /\ refreshes = <<>>
  /\ refreshIds = <<>>
  /\ packages = [i \in Ids |->
       [secretShare |-> Evaluate(keyPoly, i), verificationShares |-> public,
        lost |-> FALSE]]
  /\ applied = [i \in Ids |-> [e \in Epochs |-> 0]]
  /\ doubtful = {}
  /\ repair = NoRepair

-----------------------------------------------------------------------------
(* Refresh.                                                                *)

\* ComputeRefreshingShares: the new public key package covers only the
\* participants named, and the shares are on their way.
ComputeRefreshingShares(ids, p) ==
  /\ Len(refreshes) < MaxRefreshes
  /\ ids # {} /\ ids \subseteq DOMAIN public
  /\ refreshes' = Append(refreshes, p)
  /\ refreshIds' = Append(refreshIds, ids)
  /\ public' = [i \in ids |->
       EAdd(public[i], EvaluateCommitments(CreateCommitments(p), i))]
  /\ UNCHANGED <<keyPoly, packages, applied, doubtful, repair>>

\* The VSS check: the commitment as sent, with the identity put in front.
\* Mutant: the commitment is evaluated as sent, one power too low.
ShiftedRefreshVerifies(i, share, p) ==
  ScalarBaseMult(share) = EvaluateCommitments(Tail(CreateCommitments(p)), i)
RefreshVerifies(i, share, p) ==
  ScalarBaseMult(share) =
    EvaluateCommitments(<<Identity>> \o Tail(CreateCommitments(p)), i)

SharesRefreshed(i, share) ==
  [j \in DOMAIN packages[i].verificationShares |->
     IF j = i THEN ScalarBaseMult(share) ELSE packages[i].verificationShares[j]]

\* ApplyRefreshShare of a share that arrived as the one refresh e made for i,
\* intact or not, for the first time or again: nothing in the share or the
\* package tells the last two apart.
ApplyRefreshShare(i, e, share) ==
  LET new == SAdd(packages[i].secretShare, share)
  IN  /\ ~packages[i].lost
      /\ i \in refreshIds[e]
      /\ applied[i][e] < MaxApplied
      /\ RefreshVerifies(i, share, refreshes[e])
      /\ packages' = [packages EXCEPT ![i] =
           [secretShare |-> new, verificationShares |-> SharesRefreshed(i, new),
            lost |-> FALSE]]
      /\ applied' = [applied EXCEPT ![i][e] = @ + 1]
      /\ UNCHANGED <<keyPoly, public, refreshes, refreshIds, doubtful, repair>>

-----------------------------------------------------------------------------
(* Repair.                                                                 *)

\* Participant i loses its key package and asks helpers for a new one.
Lose(i, helpers) ==
  /\ repair = NoRepair
  /\ ~packages[i].lost
  /\ i \notin ToSet(helpers)
  /\ packages' = [packages EXCEPT ![i] = LostPackage]
  /\ repair' = [NoRepair EXCEPT !.helpers = helpers, !.target = i]
  /\ UNCHANGED <<keyPoly, public, refreshes, refreshIds, applied, doubtful>>

\* computeLagrangeCoefficient: L_i at x.
LagrangeCoefficient(X, x, xi) ==
  SMul(SProd([xj \in X \ {xi} |-> SSub(x, xj)]),
       SInv(SProd([xj \in X \ {xi} |-> SSub(xi, xj)])))

\* RepairShareStep1 of helper h: random deltas for all helpers but the last,
\* whose delta makes up the contribution.  It wants two helpers at least,
\* all different, itself among them.
RepairShareStep1(h, random) ==
  LET H == ToSet(repair.helpers)
      last == repair.helpers[Len(repair.helpers)]
      contribution == SMul(LagrangeCoefficient(H, repair.target, h),
                           packages[h].secretShare)
  IN  /\ ~packages[h].lost
      /\ h \in H \ DOMAIN repair.deltas
      /\ Len(repair.helpers) >= 2
      /\ Cardinality(H) = Len(repair.helpers)
      /\ random \in [H \ {last} -> Deltas]
      /\ repair' = [repair EXCEPT
           !.deltas = Put(@, h, Put(random, last,
             SSub(contribution, SSum(random)))),
           !.from = Put(@, h, applied[h])]
      /\ UNCHANGED <<keyPoly, public, refreshes, refreshIds, packages, applied, doubtful>>

\* RepairShareStep2 of helper h, which has a delta of every helper.
RepairShareStep2(h) ==
  LET H == ToSet(repair.helpers)
  IN  /\ h \in H /\ DOMAIN repair.deltas = H
      /\ h \notin DOMAIN repair.sigmas
      /\ repair' = [repair EXCEPT
           !.sigmas = Put(@, h, SSum([j \in H |-> repair.deltas[j][h]]))]
      /\ UNCHANGED <<keyPoly, public, refreshes, refreshIds, packages, applied, doubtful>>

\* The commitment of the polynomial that has refresh e in it times[e] times.
CommitmentOf(times) ==
  [k \in 1 .. MinSigners |->
     EAdd(ScalarBaseMult(keyPoly[k]),
          ESum([e \in DOMAIN refreshes |->
                  ScalarBaseMult(times[e] * refreshes[e][k])]))]

\* "The original VSS commitment".
Original == [e \in Epochs |-> 0]

RecoveredShare == SSum(repair.sigmas)

\* Step 3 refuses an empty list of sigmas; the caller waits for all of them.
AllSigmas ==
  /\ repair.sigmas # <<>>
  /\ DOMAIN repair.sigmas = ToSet(repair.helpers)

\* Enough helpers, with proper shares that have the same refreshes in them.
ProperHelpers ==
  /\ Len(repair.helpers) >= MinSigners
  /\ ToSet(repair.helpers) \cap doubtful = {}
  /\ \A h, k \in DOMAIN repair.from : repair.from[h] = repair.from[k]

Recover(times, doubt) ==
  /\ packages' = [packages EXCEPT ![repair.target] =
       [secretShare |-> RecoveredShare, verificationShares |-> <<>>, lost |-> FALSE]]
  /\ applied' = [applied EXCEPT ![repair.target] = times]
  /\ doubtful' = IF doubt THEN doubtful \cup {repair.target}
                           ELSE doubtful \ {repair.target}
  /\ repair' = NoRepair
  /\ UNCHANGED <<keyPoly, public, refreshes, refreshIds>>

\* The check of the recovered share against a commitment.
\* Mutant: it is left out.
NoCommitmentCheck(times) == TRUE
CommitmentFits(times) ==
  ScalarBaseMult(RecoveredShare) =
    EvaluateCommitments(CommitmentOf(times), repair.target)

\* RepairShareStep3 with a sigma of every helper and a commitment.  The new
\* package has no verification shares.
RepairShareStep3(times) ==
  /\ AllSigmas
  /\ CommitmentFits(times)
  /\ Recover(times, FALSE)

\* The same without a commitment: nothing is checked.
RepairShareStep3Unchecked ==
  /\ AllSigmas
  /\ Recover(repair.from[repair.helpers[1]], ~ProperHelpers)

\* Step 3 refuses the recovered share; the repair has to start over.
RepairShareStep3Fails(times) ==
  /\ AllSigmas
  /\ ~CommitmentFits(times)
  /\ repair' = [repair EXCEPT !.deltas = <<>>, !.from = <<>>, !.sigmas = <<>>]
  /\ UNCHANGED <<keyPoly, public, refreshes, refreshIds, packages, applied, doubtful>>

-----------------------------------------------------------------------------
(* Reconstruction of the secret by the participants in S: it takes any     *)
(* number of shares but none, and the threshold is not one of its inputs.  *)

Reconstruct(S) == Interpolate([i \in S |-> packages[i].secretShare])

\* VerifyReconstruction against the group public key.
VerifyReconstruction(secret) == ScalarBaseMult(secret) = ScalarBaseMult(keyPoly[1])

-----------------------------------------------------------------------------
MaintenanceNext ==
  \/ \E ids \in RefreshIds, p \in RefreshPolynomials : ComputeRefreshingShares(ids, p)
  \/ \E i \in Ids, e \in DOMAIN refreshes, share \in Scalar :
       ApplyRefreshShare(i, e, share)
  \/ \E i \in Ids, helpers \in Helpers : Lose(i, helpers)
  \/ \E h \in Ids, random \in Maps(Deltas) : RepairShareStep1(h, random)
  \/ \E h \in Ids : RepairShareStep2(h)
  \/ RepairShareStep3Unchecked
  \/ \E times \in {Original} \cup {applied[i] : i \in Ids} :
       RepairShareStep3(times) \/ RepairShareStep3Fails(times)

MaintenanceSpec == MaintenanceInit /\ [][MaintenanceNext]_maintenanceVars

-----------------------------------------------------------------------------
(* Properties.                                                             *)

Holders == {i \in Ids : ~packages[i].lost} \ doubtful

\* The group keeps its secret: MinSigners participants whose shares have the
\* same refreshes in them, applied in whatever order and however often, and
\* recovered from helpers or not, still reconstruct it.
SecretSurvives ==
  \A S \in SUBSET Holders :
    /\ Cardinality(S) >= MinSigners
    /\ \A i, j \in S : applied[i] = applied[j]
    => VerifyReconstruction(Reconstruct(S))

\* The verifying share of a secret share is right wherever it is kept up to
\* date: in the participant's own package after any sequence of refreshes, and
\* in the package of the dealer, who never sees a share, for everybody that has
\* applied each of its refreshes once.  What a package says of a peer nobody
\* brings up to date: it is right, whatever its owner applied, as long as the
\* peer's share has no refresh in it.
PublicSharesCurrent ==
  /\ \A i \in Ids :
       i \in DOMAIN packages[i].verificationShares =>
         packages[i].verificationShares[i] = ScalarBaseMult(packages[i].secretShare)
  /\ \A i \in DOMAIN public \cap Holders :
       (\A e \in Epochs : applied[i][e] = IF e <= Len(refreshes) THEN 1 ELSE 0) =>
         public[i] = ScalarBaseMult(packages[i].secretShare)
  /\ \A i \in Ids, j \in Holders :
       /\ j \in DOMAIN packages[i].verificationShares
       /\ \A e \in Epochs : applied[j][e] = 0
       => packages[i].verificationShares[j] = ScalarBaseMult(packages[j].secretShare)
=============================================================================
