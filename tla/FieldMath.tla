------------------------------ MODULE FieldMath ------------------------------
(***************************************************************************)
(* The arithmetic FROST is built from: scalars modulo the prime order of   *)
(* the group (pkg/frost/group), the group itself, and the polynomial       *)
(* helper (pkg/frost/helpers/polynomial.go).                               *)
(*                                                                         *)
(* The five curves of the repository have prime-order groups of about      *)
(* 2^252 to 2^446 elements; here the group is the additive group modulo a  *)
(* small prime Q with generator G, to which every group of order Q is      *)
(* isomorphic.  Identities between scalars and elements carry over; what   *)
(* rests on discrete logarithms being hard does not, and is not stated.    *)
(***************************************************************************)
EXTENDS Integers, Sequences, SequencesExt, FiniteSetsExt

CONSTANTS
  Q,   \* the order of the group
  G    \* the generator

ASSUME FieldAssumptions ==
  /\ Q \in Nat /\ Q > 1
  /\ \A a, b \in 1 .. Q - 1 : (a * b) % Q # 0
  /\ G \in 1 .. Q - 1

Scalar == 0 .. Q - 1
Element == 0 .. Q - 1
Identity == 0

\* group.Scalar: Add, Sub, Mul, Inv (which fails on zero).
SAdd(a, b) == (a + b) % Q
SSub(a, b) == (a - b) % Q
SMul(a, b) == (a * b) % Q
SInv(a) == CHOOSE b \in Scalar : SMul(a, b) = 1

\* group.Element: Add, and the two multiplications of group.Group.
EAdd(x, y) == (x + y) % Q
ScalarMult(x, a) == (a * x) % Q
ScalarBaseMult(a) == ScalarMult(G, a)

\* Sums and products of a family, that is, of the values of a function.
SSum(F) == FoldFunction(SAdd, 0, F)
SProd(F) == FoldFunction(SMul, 1, F)
ESum(F) == FoldFunction(EAdd, Identity, F)

\* x multiplied with itself: idPower after k rounds of the loop of VerifyShare.
Power(x, k) == SProd([l \in 1 .. k |-> x])

\* A polynomial is the sequence of its coefficients, the constant term first.
\* PolynomialHelper.Evaluate, by Horner's method.
Evaluate(poly, x) ==
  FoldRight(LAMBDA coefficient, acc : SAdd(SMul(acc, x), coefficient), poly, 0)

\* PolynomialHelper.DeriveInterpolatingValue for xi in the set X.
DeriveInterpolatingValue(X, xi) ==
  SMul(SProd([xj \in X \ {xi} |-> xj]),
       SInv(SProd([xj \in X \ {xi} |-> SSub(xj, xi)])))

\* RecoverSecret, CombineShares: shares is a function from identifiers.
Interpolate(shares) ==
  SSum([i \in DOMAIN shares |->
          SMul(shares[i], DeriveInterpolatingValue(DOMAIN shares, i))])

\* vss.VerifyShare's right-hand side: the polynomial in the exponent.
EvaluateCommitments(commitments, x) ==
  ESum([j \in DOMAIN commitments |->
          ScalarMult(commitments[j], Power(x, j - 1))])

\* vss.CreateCommitments.
CreateCommitments(poly) == [j \in DOMAIN poly |-> ScalarBaseMult(poly[j])]
=============================================================================
